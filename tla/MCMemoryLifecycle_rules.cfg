SPECIFICATION Spec
CONSTANTS
  Memories = {m1}
  Sources = {s1}
  Importances = {0, 95}
  ClientTiers = {"working", "hot", "warm", "cold", "archive"}
  Policies <- MCScopedPolicies
  BatchSize = 1
  Day = 2
  MaxLag = 1
  MaxClock = 4
  MaxAccesses = 2
  None = None
  Inherit = Inherit
INVARIANTS TypeOK StampsTrackCommits
PROPERTIES IdleBeforeDemotion RetentionAfterArchival OnlyPoliciesLiftProtection DeletedIsFinal LadderSpec
