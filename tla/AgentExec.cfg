SPECIFICATION FairSpec
CONSTANTS
  c1 = c1
  c2 = c2
  c3 = c3
  Commands = {c1, c2, c3}
  Width <- TwoOperations
  Rejected = {c3}
  NewCommandCap = 1
  RunCap = 1
  ResultsCap = 1
  Agents <- ThreeAgents
INVARIANTS AnswerIsOwn NoSendOnClosed 
 
CHECK_DEADLOCK FALSE
