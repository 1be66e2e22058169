SPECIFICATION FairSpec
CONSTANTS
  Blank = Blank
  Org = "us"
  Pods <- MCPods
  EnumMap <- MCEnumMap
  OutcomePods = {"returns"}
  Files <- MCFiles
  Uploads = {u1, u2, u3}
INVARIANTS
  TypeOK
  NoRowIsDropped
  StoredRecordsAreWhole
PROPERTIES
  OneAfterTheOther
  UploadsEnd
CHECK_DEADLOCK FALSE
