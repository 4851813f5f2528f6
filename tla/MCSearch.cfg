SPECIFICATION Spec
CONSTANTS
  Memories = {m1, m2}
  Leftovers = {x}
  Backend = {"sqlite-json", "sqlite-vec"}
  Ranks = {1, 4}
  Nears = {0, 6}
  Merits = {0}
  Depths = {"shallow", "standard"}
  Limit = 1
  CandidateCap = 2
  ScanCap = 2
  MaxUsed = 1
  MaxWrites = 2
  None = None
SYMMETRY Alike
INVARIANTS TypeOK HitsWereFit NothingBetterIsMissing
