SPECIFICATION Spec
CONSTANTS
  Schedulers = {s1}
  Actions = {a1}
  KillActions = {}
  Agents = {g1}
  Volatile = {g1}
  Target <- AllAgents
  AgentOutcomes = {"success"}
  BatchSize = 1
  MaxTries = 2
  MaxFaults = 1
INVARIANTS TypeOK OutcomeIsGenuine SpoolKeepsAction
PROPERTY CommandLifecycleSpec
