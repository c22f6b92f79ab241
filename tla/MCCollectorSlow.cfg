\* The protocol when Wait(100s) runs out before the collection thread posts.
CONSTANTS
  Orig = Orig
  s1 = s1
  s2 = s2
  o1 = o1
  o2 = o2
  Siblings <- MCSiblings
  Objects <- MCObjects
  Null = Null
  NoOwner = NoOwner
  NoRet = NoRet
  SlowCapture = TRUE
  Limits = {1}

SPECIFICATION Spec


PROPERTY CollectionTerminates
CHECK_DEADLOCK FALSE
