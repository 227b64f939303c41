SPECIFICATION Spec
CONSTANTS
  Callers = {c1, c2}
  Kinds = {log, beat}
  Worker = worker
  NoKind = none
  BatchSize = 2
  FlushInterval = 1
  MinWait = 1
  MinJoin = 1
  CallbackMayClose = FALSE
  MaxEntries = 2
  MaxAge = 1
SYMMETRY Symmetry
INVARIANTS
  TypeOK
  EntriesAccounted
  BatchesInOrder
  OldestTracksBuffer
  NoLostWakeup
  NothingStranded
  FlushTookAll
