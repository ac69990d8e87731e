SPECIFICATION Spec
CONSTANTS
  Goroutines = {g1, g2, g3}
  MinSamples = 2
  RatioNum = 1
  RatioDen = 2
  MaxSamples = 2
SYMMETRY Symmetric
INVARIANT TrialIsAlone
