SPECIFICATION Spec
CONSTANTS
  WordMax = 255
  ShiftCap = 7
  MinDelay = 1
  Indices <- MCIndices
  ListLengths = {0, 2, 3}
  Errors <- MCErrors
  Config <- SiaOptimized
  RetryLimits = {0, 2}
PROPERTIES
  EmptyListPoisonsTheRest
  Terminates
  KeepsContract
