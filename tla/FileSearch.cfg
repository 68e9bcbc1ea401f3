SPECIFICATION FileSpec
CONSTANTS
  Inputs <- MCInputs
  Extending <- MCExtending
  Unlimited = 30
  DepthMod = 64
INVARIANTS   DepthReturns
CHECK_DEADLOCK FALSE
