SPECIFICATION FairSpec
CONSTANTS
  Investigators = {alice, carol}
  Trusted = {alice}
  ApiRequired = 1
  LoaderRequired = 1
  Bundle <- MCBundle
  AgentEntry = "mig-agent"
  LoaderEntry = "mig-loader"
  Content <- MCContent
  Targets = {1, 2}
  NoFile = "no file"
  Initial = "initial"
  MaxCalls = 2
  MaxChanges = 1
  MaxFaults = 1
CHECK_DEADLOCK FALSE
INVARIANTS InstalledIsSigned InstallIsWhole DisabledIsNotServed
PROPERTY Converges
