SPECIFICATION TimedSpec
CONSTANTS
  Schedulers = {s1}
  Actions = {a1}
  KillActions = {a1}
  Agents = {g1}
  Volatile = {}
  Target <- AllAgents
  AgentOutcomes = {"success", "failed"}
  BatchSize = 2
  MaxTries = 1
  MaxFaults = 1
PROPERTIES SentIsFinished 
