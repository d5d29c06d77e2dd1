SPECIFICATION Spec
CONSTANTS
  NPAGE = 11
  NENV = 2
  NCALL = 3
  NEVICT = 1
  Data <- MCData
  Stores = {1}
  Library = TRUE
  Handlers = FALSE
INVARIANTS TypeOK RefsExact TlbCoherent MemoryIsPrivate
