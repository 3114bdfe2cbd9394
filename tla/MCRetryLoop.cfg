SPECIFICATION Spec
CONSTANTS
  WordMax = 255
  ShiftCap = 7
  MinDelay = 2
  Config <- MCConfig
  AttemptLimits = {0, 1, 4, 10}
  RetryLimits = {0, 2, 9}
  BaseDelays = {0, 3, 8}
  Errors <- MCErrors
INVARIANTS
  GivesUpWithReason
  WaitsBetweenAttempts
  CourseBackoffExact
  RequestBackoffUntilShiftedOut
PROPERTY Terminates
