SPECIFICATION Spec
CONSTANTS
  Space = 10
  WORD_SIZE = 2
  Value <- MCValue
  Memory <- MCMemory
  Bytes <- MCBytes
  From <- MCFrom
  Rom = "rom"
  Cond = {c1}
  Dumps <- MCDumps
INVARIANTS
  TypeOK
  NoAbort
  ZonesSorted
PROPERTIES
  AllNotified
  IsFlatMemory
