\* networksetup fails while the Agent quits.
\* Nobody has to start another Agent or answer a prompt: no deadlock check.
CONSTANTS
  wifi = wifi
  lan = lan
  Services = {wifi, lan}
  MaxAgents = 1
  MaxChanges = 0
  Environments <- MCFailures
SPECIFICATION Spec
PROPERTIES
  QuitRestores
CHECK_DEADLOCK FALSE
