SPECIFICATION Spec
CONSTANTS
  MaxClock = 2
  Clients = {client}
  RequestsPerMinute = 3
  Burst = 1
  Minute = 4
  Unseen = Unseen
  Ids = {default, other}
  Default = default
  Scopes <- MCScopes
  Grants <- MCGrants
  Lifetimes = {0, 1}
  BootGrant <- MCBoot
  Operators = {o1}
  Requests = {r1}
  MaxSecrets = 2
  None = None
  Methods <- MCMethods
INVARIANTS TypeOK WindowBound SpentSecretsAreRefused RunsWithinGrant
PROPERTIES QuietClientPasses ImplementsLedger
CHECK_DEADLOCK FALSE
