SPECIFICATION Spec
CONSTANTS
  MaxFrames = 4
  MaxSize = 3
  Buf = 2
  Ring = 6
  Chips <- MCChips
INVARIANTS
  TypeOK
  MemoryReturned
PROPERTIES
  ImplementsEthernetRx
