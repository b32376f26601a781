SPECIFICATION FrontSpec
CONSTANTS
  Bind <- bind
  Execute <- execute_bound
  Explain <- explain_statement
  Analyse <- execute_analytical
  RunSql <- execute_sql
  Prepare <- BindAndTranslate
  Reload <- DumpAndRestore
  DECIMAL_MAX_PRECISION = 4
  I128Max = 30000
  I64Max = 100
  U64Max = 200
  DivideDigits = 1
  SecondMicros = 10
  FractionDigits = 1
  MinTimestamp <- FirstMicros
  MaxTimestamp = 2000000000
  MinDate <- FirstDay
  MaxDate = 2932896
  CatalogTable = 0
  SystemFloor = 9
  MaxKeyColumns = 3
  NoCatalog = NoCatalog
  ROWS_PER_INSERT = 1
  RELATIONAL_SQL_BATCH_LIMIT = 2
  MaxGeneration = 6
  MaxRows = 2
  Smallest = FALSE
  c1 = c1
  c2 = c2
  Conns = {c1, c2}
  Plans <- WirePlans
CHECK_DEADLOCK FALSE
INVARIANTS StatementsAgree BindingHolds SchemaHolds AnswersHold ConnectionsHold
