SPECIFICATION AccessSpec
CONSTANTS
  Slots = {q1, q2}
  Requests <- MCRequests
  FirstRows <- MCRows
  AuthEnabled = TRUE
  KeyringAge = 1
  TokenAge = 1
  Commands = {}
  Agents = {1}
  AgentKeys = {"k1", "k2"}
  Acl <- MCAcl
  OnlyVerifyPubKey = FALSE
  MaxClock = 2
  MaxRequests = 3
  MaxInvestigators = 3
SYMMETRY SlotSymmetry
INVARIANTS CredentialsEnd AdminRemains AcceptedIsComplete RunIsAuthorised
CHECK_DEADLOCK FALSE
