\* A service is disabled between two enable commands.
\* Nobody has to start another Agent or answer a prompt: no deadlock check.
CONSTANTS
  wifi = wifi
  lan = lan
  Services = {wifi, lan}
  MaxAgents = 1
  MaxChanges = 1
  Environments <- MCToggles
SPECIFICATION Spec
INVARIANTS
  NothingIsResurrected
CHECK_DEADLOCK FALSE
