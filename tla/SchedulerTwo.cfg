SPECIFICATION Spec
CONSTANTS
  Schedulers = {s1, s2}
  Actions = {a1}
  KillActions = {}
  Agents = {g1}
  Volatile = {}
  Target <- AllAgents
  AgentOutcomes = {"failed"}
  BatchSize = 1
  MaxTries = 2
  MaxFaults = 0
INVARIANTS SingleOwner OneCommandPerAgent SentIsTracked
