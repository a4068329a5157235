\* Two edits of the file, two rule sets, two listeners.
CONSTANTS
  L1 = L1
  L2 = L2
  t1 = t1
  t2 = t2
  s1 = s1
  s2 = s2
  None = None
  Broken = Broken
  Listeners = {L1, L2}
  RuleConfigs <- MCRuleConfigs
  Files <- MCFiles
  Loops = {"rules"}
  MaxEdits = 2
  Tags = {t1, t2}
  Sources = {s1, s2}
SPECIFICATION FairSpec
INVARIANTS
  NeverForwardsToItself
  RulesBelong
  IInv
PROPERTIES
  LastGoodIsKept
  FileIsApplied
  StoreConverges
