\* Every graph of three layers and every order of starts; then a window over the
\* documents of MCConfiguration and two edits.  The search ends, so no deadlock
\* check.
CONSTANTS
  None = None
  A = A
  B = B
  C = C
  Layers <- MCLayers
  R = R
  R1 = R1
  P = P
  P1 = P1
  Blank = Blank
  RuleTags = {R, R1}
  PluginTags = {P, P1}
  NewLayers <- MCNewLayers
  NewRuleSets <- MCNewRules
  NewPlugins <- MCNewPlugins
  Default <- MCDefault
  Documents <- MCDocuments
  Missing = Missing
  Broken = Broken
  MaxEdits = 2
SPECIFICATION MCSpec
INVARIANTS
  ValidationIsExact
  CleanIsOnDisk
PROPERTIES
  Decides
  FileIsWhole
  EditsKeepValidity
CHECK_DEADLOCK FALSE
