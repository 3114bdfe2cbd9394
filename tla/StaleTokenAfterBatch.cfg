SPECIFICATION Spec
CONSTANTS
  WordMax = 255
  ShiftCap = 7
  MinDelay = 1
  Codes <- MCCodes
  FourParts <- MCFourParts
  NumericCareer <- MCNumeric
  NumericCampus <- MCNumeric
  ListLengths <- MCFixedLists
  Unnamed = {}
  Callers = {c1}
  Sessions = {root, clone}
  Root = root
  NoSession = NoSession
  Careers <- MCOneCareer
  CourseIndices = {0}
  OneShots = {}
  Config <- MCConfig
  TransportErrors <- MCTimeoutOnly
  Faults = {}
  MaxCalls = 4
INVARIANTS
  RootRequestsFresh
