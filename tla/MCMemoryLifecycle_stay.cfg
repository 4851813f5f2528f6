SPECIFICATION Spec
CONSTANTS
  Memories = {m1}
  Sources = {s1}
  Importances = {0}
  ClientTiers = {"working", "hot", "warm", "cold", "archive"}
  Policies <- MCPolicies
  BatchSize = 1
  Day = 1
  MaxLag = 0
  MaxClock = 3
  MaxAccesses = 0
  None = None
  Inherit = Inherit
PROPERTY RetentionAfterStay
