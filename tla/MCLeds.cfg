SPECIFICATION Spec
CONSTANTS
  NFront = 3
  Shifted <- MCWan
  ActiveLow <- MCWan
  Commanded = {}
  Commands <- MCSteady
  Modes = {"disable", "control", "downloading", "burning", "panic", "demo"}
  Period = 36
INVARIANTS
  TypeOK
  RegisterShown
  DisabledStaysDark
  OneFrontLit
