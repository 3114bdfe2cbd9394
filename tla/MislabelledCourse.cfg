SPECIFICATION Spec
CONSTANTS
  Careers <- MCCareers
  NoCareer = NoCareer
  Table <- MCTable
  Batches <- MCBatches
  NoCode = ""
  MaxCalls = 4
INVARIANTS
  LabelledRight
