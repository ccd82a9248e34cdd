SPECIFICATION FairSpec
CONSTANTS
  Descriptors = {0, 1, 2, 3}
  BufSize = 3
  MaxPieces <- MCPieces
INVARIANTS
  TypeOK
  SocketsHeld
  EchoFaithful
PROPERTY ConnectionsEnd
