SPECIFICATION Spec
CONSTANTS
  Homes = {h1, h2}
  Populated = h1
  Exports = {x}
  Copies = {b}
  Jobs = {j1, j2}
  MaxCommits = 2
  None = None
SYMMETRY Alike
INVARIANTS TypeOK Consistent
PROPERTIES BackupsAreSnapshots NothingIsLost
CHECK_DEADLOCK FALSE
