CONSTANTS
  f1 = f1  f2 = f2  d1 = d1  m1 = m1  v1 = v1  o1 = o1  o2 = o2
  None = None
  Nobody = Nobody
  Files <- MCFiles
  Data <- MCData
  MetaKeys <- MCMetaKeys
  MetaValues <- MCMetaValues
  Callers <- MCCallers
  MaxChunks = 2
  Address = Address
SPECIFICATION ChainSpec
SYMMETRY Symmetry
CHECK_DEADLOCK FALSE
INVARIANTS TypeOK StorageConsistent PurgedIsEmpty ListingsAgree
PROPERTIES ImmutableForever NewCountNoChunks DisownedStaysUnlisted
