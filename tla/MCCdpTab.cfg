CONSTANTS
  MaxNavs = 2
  MaxOps = 3
SPECIFICATION Spec
INVARIANTS
  TypeOK
  ReleasedIsGone
  NothingSubscribed
PROPERTIES
  WaitEnds
  ReleaseEnds
