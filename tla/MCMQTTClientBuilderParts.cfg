CONSTANTS
  u1 = u1
  u2 = u2
  s1 = s1
  s2 = s2
  s3 = s3
  s4 = s4
  None = None
  Forgotten = Forgotten
  Users <- MCUsers
  Structs <- MCStructs
  ConnectInputs <- MCConnectInputs
  WillInputs <- MCWillInputs
  SslInputs <- MCSslInputs
  MaxStartups = 1
SPECIFICATION Spec
SYMMETRY Symmetry
INVARIANTS
  ConnectOptionsHoldTheirParts
