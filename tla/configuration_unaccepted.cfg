\* The window alone matters here: does it save what the engine refuses?
CONSTANTS
  None = None
  A = A
  B = B
  C = C
  Layers <- MCLayers
  R = R
  R1 = R1
  P = P
  P1 = P1
  Blank = Blank
  RuleTags = {R, R1}
  PluginTags = {P, P1}
  NewLayers <- MCNewLayers
  NewRuleSets <- MCNewRules
  NewPlugins <- MCNewPlugins
  Default <- MCDefault
  Documents <- MCDocuments
  Missing = Missing
  Broken = Broken
  MaxEdits = 2
SPECIFICATION MCSpec
PROPERTIES
  SavedIsAccepted
CHECK_DEADLOCK FALSE
