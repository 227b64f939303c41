SPECIFICATION InterruptFairSpec
CONSTANTS
  Callers = {c1, c2}
  Kinds = {log}
  Main = c1
  Worker = worker
  NoKind = none
  BatchSize = 2
  FlushInterval = 1
  MinWait = 1
  MinJoin = 1
  CallbackMayClose = TRUE
  MaxEntries = 2
  MaxAge = 1
PROPERTIES
  ImplementsLedger
  NoEntryWaitsForever
  CloseReturns
