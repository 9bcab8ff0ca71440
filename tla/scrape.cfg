CONSTANTS
  Inputs <- Texts
  IntMax = 7
SPECIFICATION FairSpec
INVARIANT TypeOK
INVARIANT NoIndexPanic
INVARIANT OutputMeetsReference
PROPERTY MovesOn
PROPERTY Terminates
CHECK_DEADLOCK FALSE
