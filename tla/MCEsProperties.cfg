CONSTANTS
  n1 = n1
  n2 = n2
  n3 = n3
  b1 = b1
  b2 = b2
  b3 = b3
  b4 = b4
  Null = Null
  Keys = {x, y, z}
  Texts = {s, t}
  Nodes <- MCNodes
  Blocks <- MCBlocks
  HandsOver = TRUE
SPECIFICATION Spec
SYMMETRY MCSymmetry
INVARIANTS
  TypeOK
  EveryNodeOnTheList
  EachValueFreedOnce
  ViewsAgree
PROPERTIES
  ImplementsPropertyMap
