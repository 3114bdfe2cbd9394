SPECIFICATION Spec
CONSTANTS
  Tasks = {t1, t2}
  Futures = {f1, f2, f3}
  Nobody = Nobody
  Careers <- MCCareers
  NoCareer = NoCareer
  Faces = {"wrapper", "rust"}
  MaxCalls = 3
  MaxCancels = 1
INVARIANTS
  OneOperation
  StatusCurrent
PROPERTIES
  NoSwapUnderOperation
  Terminates
