SPECIFICATION Spec
CONSTANTS
  WordMax = 255
  ShiftCap = 7
  MinDelay = 1
  Codes <- MCNumeric
  FourParts <- MCNumeric
  NumericCareer <- MCNumeric
  NumericCampus <- MCNumeric
  ListLengths <- MCTwoLists
  Unnamed = {}
  Callers = {c1, c2}
  Sessions = {root, clone}
  Root = root
  NoSession = NoSession
  Careers <- MCTwoCareers
  CourseIndices = {0}
  OneShots = {"init_session"}
  Config <- MCOneAttempt
  TransportErrors <- MCBrokenBody
  Faults = {"lost_response", "http_error", "bad_page", "cancel"}
  MaxCalls = 3
INVARIANTS
  ReadyOnCareerPage
  SelectionRequested
PROPERTIES
  TokenNeverLost
SYMMETRY MCCallers
