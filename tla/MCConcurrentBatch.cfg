SPECIFICATION Spec
CONSTANTS
  WordMax = 255
  ShiftCap = 7
  MinDelay = 1
  N = 3
  Errors <- MCErrors
  Config <- SiaOptimized
  ConcurrencyLimits = {0, 1, 2}
  RetryLimits = {0, 2}
INVARIANTS
  TypeOK
  OneTrigger
  AbortHasCause
  RetriesUsedUp
  WithinConcurrency
  CollectedOnce
PROPERTIES
  NoScrapeAfterAbort
  Terminates
  KeepsContract
