\* Every line and every list alone, and three lines while getLoop runs twice.
\* A behaviour ends when all is typed and shown.
SPECIFICATION Spec
CONSTANTS
  BufferLength = 19
  Path = 2
  Name <- Alice
  ServerName <- ServerNames
  SyncNumbers <- EarlyAndLate
  Inputs <- AllInputs
CHECK_DEADLOCK FALSE
INVARIANTS
  TypeOK
  ExitUnreachable
  NumbersRepeatOnlyDuringGet
  HopsAgree
  TextIntegrity
  ListsOnlyShorten
  ListsWholeOrRefused
