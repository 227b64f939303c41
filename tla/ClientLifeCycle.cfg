SPECIFICATION FairSpec
CONSTANTS
  Threads = {t1, t2}
  Closers = {t1, t2}
  Batchers = {b1, b2}
  NoBatcher = none
  MaxEntries = 2
CHECK_DEADLOCK FALSE
INVARIANTS
  TypeOK
  EntriesAccounted
  FlushReachesAll
  DrainsBeforeHttpCloses
PROPERTIES
  AcceptedSettles
  QuietAfterClose
