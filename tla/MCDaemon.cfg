SPECIFICATION Spec
CONSTANTS
  Last = 2
  None = None
  Dirs = {default, other}
  Default = default
  Addrs = {a1, a2}
  Pids = {p1, p2}
  Operator = operator
  Openers <- MCOpeners
INVARIANTS TypeOK OpenedIsMigrated ReachableServer OneServer
PROPERTIES StartIsTruthful
SYMMETRY Alike
CHECK_DEADLOCK FALSE
