CONSTANTS
  c1 = c1
  c2 = c2
  Calls <- MCCalls
  Kinds <- MCKinds
  Texts <- MCTexts
SPECIFICATION Spec
SYMMETRY MCSymmetry
INVARIANTS
  TypeOK
  ArgumentsLiveOn
  FreedByOneSide
  LeavesOnly
  TextsArrive
CHECK_DEADLOCK FALSE
