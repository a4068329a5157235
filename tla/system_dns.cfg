\* Two services, two Agents, two changes by the user, every kind of fault.
\* Nobody has to start another Agent or answer a prompt: no deadlock check.
CONSTANTS
  wifi = wifi
  lan = lan
  Services = {wifi, lan}
  MaxAgents = 2
  MaxChanges = 2
  Environments <- MCEnvironments
SPECIFICATION FairSpec
INVARIANTS
  OwnershipIsRecorded
  ResolverIsKept
  IInv
PROPERTIES
  ManualIsKept
  AbandonedIsRestored
CHECK_DEADLOCK FALSE
