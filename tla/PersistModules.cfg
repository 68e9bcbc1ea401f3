SPECIFICATION Spec
CONSTANTS
  Modules = {dispatch, audit}
  Dispatch = dispatch
  MaxAlerts = 2
  AlertCap = 1
  DispatchCap = 1
  BufferCap = 1
  InCap = 2
  OutCap = 1
  MaxMissed = 1
  MaxFaults = 1
CHECK_DEADLOCK FALSE
INVARIANTS RegisteredIsCurrent DispatchIsOpen
 
