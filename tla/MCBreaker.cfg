SPECIFICATION FairSpec
CONSTANTS
  Goroutines = {g1, g2}
  MinSamples = 2
  RatioNum = 1
  RatioDen = 2
  MaxSamples = 2
INVARIANTS TypeOK TrialSlotIsNotLeaked
PROPERTY CircuitCloses
