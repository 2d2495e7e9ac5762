SPECIFICATION MCSpec
CONSTANTS
  j1 = j1
  j2 = j2
  Jobs = {j1, j2}
  N = 2
  Texts <- MCTexts
  LooksLike <- MCLooks
  Designs <- MCDesigns
  MaxKey = 3
  MaxEvents = 2
  Together = FALSE
  NoText = NoText
  NoSteps = NoSteps
INVARIANT TypeOK
INVARIANT KeysApart
INVARIANT DoneMeansKept
INVARIANT StrayIsSaid
 
PROPERTY NoSecondSet
CHECK_DEADLOCK FALSE
SYMMETRY MCJobs
