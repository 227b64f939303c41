SPECIFICATION Spec
CONSTANTS
  Callers = {c1, c2}
  ThresholdNum = 1
  ThresholdDen = 2
  Window = 2
  Break = 2
  MaxSamples = 5
INVARIANT HalfOpenSingleProbe
