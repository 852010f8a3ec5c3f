\* One failure of the system, over any number of analyses of two processes.
SPECIFICATION Spec
CONSTANTS
  MaxNode = 8
  MaxFaults = 1
  MaxSize = 2
  Top <- MCTop
  Byte <- MCByte
  PageStart <- MCPageStart
  Images <- MCImages
  Accesses <- MCAccesses
INVARIANTS
  TypeOK
  ListWhole
  Nested
  FilesThere
PROPERTIES
  Ends
  IsSnapshot
