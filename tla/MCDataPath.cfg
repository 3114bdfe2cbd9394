SPECIFICATION Spec
CONSTANTS
  Inputs <- MCInputs
  MaxI32 = 99
  MaxI64 = 999
  BadType = BadType
  Old = Old
  Tokens = {"None", "t1"}
  Forms = {"dict", "json", "named", "mixed"}
  Damages <- MCDamages
INVARIANTS
  AcceptedIffExaminedReadable
  NothingLost
  EveryBadGroupNamed
  LoadedIsStored
  FailedLoadKeepsLists
  OlderFormsWarn
  PositionIsRow
