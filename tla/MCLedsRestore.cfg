SPECIFICATION FairSpec
CONSTANTS
  NFront = 2
  Shifted <- MCWan
  ActiveLow <- MCBoth
  Commanded <- MCTraffic
  Commands <- MCSteady
  Modes = {"disable", "control"}
  Period = 1
PROPERTY
  LastCommandShown
