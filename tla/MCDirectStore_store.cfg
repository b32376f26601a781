SPECIFICATION MCSpec
CONSTANTS
  CatalogTable = 99
  MaxKeyColumns = 256
  NoName = 0
  Refused = Refused
  Denied = Denied
  MaxCredential = 1
  DECIMAL_MAX_PRECISION = 4
  I128Max = 30000
  I64Max = 3
  U64Max = 7
  DivideDigits = 1
  SecondMicros = 10
  FractionDigits = 1
  MinTimestamp = 0
  MaxTimestamp = 10
  MinDate = 0
  MaxDate = 10
  MAX_CASCADE_DEPTH = 5
  HeapRows = 2
  Txns = {t1, t2}
  MaxBegins = 3
  MaxCommits = 2
  Profiles <- StoreProfiles
SYMMETRY Sym
CHECK_DEADLOCK FALSE
INVARIANTS IndexesHold ReferencesHold CatalogHolds
