SPECIFICATION Spec
CONSTANTS
  Callers = {c1, c2}
  ThresholdNum = 1
  ThresholdDen = 2
  Window = 1
  Break = 1
  MaxSamples = 4
  MaxRetries = 1
  Answers = {"ok", "rejected", "server", "timeout", "discovery", "broken", "interrupt"}
SYMMETRY Symmetry
INVARIANTS
  TypeOK
  FinalAnswerEndsCall
  FailureNotSilent
PROPERTY UsesBreaker
