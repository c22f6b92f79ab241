\* The protocol when the collection thread posts within the 100 s wait.
CONSTANTS
  Orig = Orig
  s1 = s1
  s2 = s2
  o1 = o1
  o2 = o2
  Siblings <- MCSiblings
  Objects <- MCObjects
  Null = Null
  NoOwner = NoOwner
  NoRet = NoRet
  SlowCapture = FALSE
  Limits = {0, 1}

SPECIFICATION Spec

INVARIANT TypeOK
INVARIANT NoStopInsideMalloc
INVARIANT ReportsLiveLeaks

PROPERTY CollectionTerminates
