SPECIFICATION ReadFairSpec
CONSTANTS
  Callers = {c1, c2}
  Endpoints = {e1, e2}
  None = none
  MaxRetries = 2
  Answers = {"ok", "redirect", "auth", "rejected", "other4xx", "server", "timeout", "transport", "broken", "interrupt"}
INVARIANTS
  ReadTypeOK
  CacheStopsDiscovery
  ReportedWhenExhausted
  FailuresAreLogDBErrors
PROPERTY RecoversFromOutage
