SPECIFICATION Spec
CONSTANTS
  WordMax = 255
  ShiftCap = 7
  MinDelay = 1
  Codes <- MCCodes
  FourParts <- MCFourParts
  NumericCareer <- MCNumeric
  NumericCampus <- MCNumeric
  ListLengths <- MCFixedLists
  Unnamed <- MCUnnamed
  Callers = {c1}
  Sessions = {root}
  Root = root
  NoSession = NoSession
  Careers <- MCCareers
  CourseIndices = {0, 1}
  OneShots = {"set_career", "course_xml"}
  Config <- MCConfig
  TransportErrors <- MCTimeoutOnly
  Faults = {"lost_request", "http_error"}
  MaxCalls = 4
INVARIANTS
  FreshRequests
  ScrapedRightCourse
  CareerCoherent
PROPERTIES
  Terminates
