SPECIFICATION FairSpec
CONSTANTS
  NFront = 2
  Shifted <- MCWan
  ActiveLow <- MCBoth
  Commanded <- MCBoth
  Commands <- MCBlinking
  Modes = {}
  Period = 1
INVARIANT
  BlinkInSync
PROPERTY
  LastCommandShown
