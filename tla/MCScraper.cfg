SPECIFICATION Spec
CONSTANTS
  Careers <- MCCareers
  NoCareer = NoCareer
  Table <- MCTable
  Batches <- MCBatches
  NoCode = ""
  MaxCalls = 5
INVARIANTS
  LabelledWhenListCurrent
  ResultKept
  ReturnsCareerAsked
  RestoresWhatWasSaved
