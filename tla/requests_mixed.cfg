\* Answers of one family in which verified and foreign addresses meet.
CONSTANTS
  A = A
  B = B
  C = C
  r1 = r1
  r2 = r2
  r3 = r3
  u1 = u1
  t1 = t1
  t2 = t2
  None = None
  Layers <- MCLayers
  Configs <- MCConfigs
  Resolvers = {r1, r2, r3}
  Discoveries <- MCDiscoveries
  MaxNow = 7
  Requests = {u1, t1, t2}
  Loop = Loop
  Nobody = Nobody
  Systems <- MCSystems
  BoundTo <- MCBoundTo
  MaxReloads = 1
  Udp = {u1}
  Tcp = {t1, t2}
  Permits = 1
  Inside = {"cf4", "cf6", "best4", "best6"}
  Outside = {"other4", "other6"}
  Absent = Absent
  Messages <- MCMixed
  Offers <- MCOneOffer
  Rules <- MCRules
  Names <- MCNames
  GroupBits = 3
  Width = 10
  V4 <- MCV4
  V6 <- MCV6
  RoundSettings <- MCRounds
  Latencies = {10, 20, 60}
  CompatibleHosts = {"host"}
SPECIFICATION PluginSpec
PROPERTIES
  MixedIsLeftAlone
CHECK_DEADLOCK FALSE
