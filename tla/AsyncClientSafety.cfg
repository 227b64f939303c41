SPECIFICATION ClientFairSpec
CONSTANTS
  Callers = {c1, c2}
  Kinds = {log, beat}
  HandlerKind = log
  Worker = worker
  NoKind = none
  BatchSize = 2
  FlushInterval = 1
  MinWait = 1
  MinJoin = 1
  AppMayCancel = TRUE
  MaxEntries = 2
  MaxAge = 1
INVARIANTS
  ClientTypeOK
  EntriesAccounted
  ClosesInOrder
PROPERTIES
  ImplementsLedger
  EveryEntrySettles
  CloseCompletes
