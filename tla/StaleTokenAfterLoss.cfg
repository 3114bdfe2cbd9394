SPECIFICATION Spec
CONSTANTS
  WordMax = 255
  ShiftCap = 7
  MinDelay = 1
  Codes <- MCCodes
  FourParts <- MCFourParts
  NumericCareer <- MCNumeric
  NumericCampus <- MCNumeric
  ListLengths <- MCFixedLists
  Unnamed = {}
  Callers = {c1}
  Sessions = {root}
  Root = root
  NoSession = NoSession
  Careers <- MCOneCareer
  CourseIndices = {0, 1}
  OneShots = {}
  Config <- MCConfig
  TransportErrors <- MCTimeoutOnly
  Faults = {"lost_response"}
  MaxCalls = 2
INVARIANTS
  FreshRequests
