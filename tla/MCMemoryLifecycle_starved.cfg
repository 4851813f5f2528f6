SPECIFICATION FairSpec
CONSTANTS
  Memories = {m1, m2}
  Sources = {s1}
  Importances = {0}
  ClientTiers = {"warm", "archive"}
  Policies <- MCKeepPolicies
  BatchSize = 1
  Day = 1
  MaxLag = 0
  MaxClock = 2
  MaxAccesses = 0
  None = None
  Inherit = Inherit
PROPERTY NoStarvation
