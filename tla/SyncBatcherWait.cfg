SPECIFICATION TimedSpec
CONSTANTS
  Callers = {c1, c2}
  Kinds = {log}
  Worker = worker
  NoKind = none
  BatchSize = 3
  FlushInterval = 4
  MinWait = 1
  MinJoin = 5
  CallbackMayClose = FALSE
  MaxEntries = 3
  MaxAge = 6
  MaxEntryAge = 6
SYMMETRY Symmetry
INVARIANT WaitBounded
