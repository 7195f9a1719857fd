CONSTANTS
  u1 = u1
  r1 = r1
  r2 = r2
  r3 = r3
  b1 = b1
  b2 = b2
  monitor = monitor
  None = None
  Given = Given
  Undefined = Undefined
  Users <- MCUsers
  Refs <- MCRefs
  Blocks <- MCBlocks
  ExpungeMaxSize = 0
  Reborrows = FALSE
  AddsBorrowed = FALSE
  SavesAnytime = FALSE
  MaxStartups = 1
  MaxGiven = 1
SPECIFICATION FairSpec
INVARIANTS
  TypeOK
  FreesItsOwnMemory
  OwnersAreKept
  NoDanglingWeakRefs
  CollectableOwn
PROPERTIES
  ForgottenMemoryIsFreed
