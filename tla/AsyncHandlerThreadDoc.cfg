SPECIFICATION HandlerSpec
CONSTANTS
  Callers = {c1}
  Threads = {h1}
  Kinds = {log}
  HandlerKind = log
  Worker = worker
  NoKind = none
  BatchSize = 2
  FlushInterval = 1
  MinWait = 1
  MinJoin = 1
  AppMayCancel = FALSE
  MaxEntries = 2
  MaxAge = 1
INVARIANT NoEntryVanishes
