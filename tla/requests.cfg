\* The parts of MCRequests.  A request that has been replied to, a round that is
\* over and a name that was looked up stop: no deadlock check.
CONSTANTS
  A = A
  B = B
  C = C
  r1 = r1
  r2 = r2
  r3 = r3
  u1 = u1
  t1 = t1
  t2 = t2
  None = None
  Layers <- MCLayers
  Configs <- MCConfigs
  Resolvers = {r1, r2, r3}
  Discoveries <- MCDiscoveries
  MaxNow = 7
  Requests = {u1, t1, t2}
  Loop = Loop
  Nobody = Nobody
  Systems <- MCSystems
  BoundTo <- MCBoundTo
  MaxReloads = 1
  Udp = {u1}
  Tcp = {t1, t2}
  Permits = 1
  Inside = {"cf4", "cf6", "best4", "best6"}
  Outside = {"other4", "other6"}
  Absent = Absent
  Messages <- MCMessages
  Offers <- MCOffers
  Rules <- MCRules
  Names <- MCNames
  GroupBits = 3
  Width = 10
  V4 <- MCV4
  V6 <- MCV6
  RoundSettings <- MCRounds
  Latencies = {10, 20, 60}
  CompatibleHosts = {"host"}
SPECIFICATION MCSpec
INVARIANTS
  NeverRevisited
  PathIsPrescribed
  DeadlineIsKept
  MatchIsExact
  IntegerIsExact
  RoundPicksBest
PROPERTIES
  CallsAreMadeOnce
  LocalLayerTriesAll
  IsAnswered
  FailuresShareADiscovery
  CacheGoesForward
  FollowsSystem
  TcpIsServed
  ForeignIsKept
CHECK_DEADLOCK FALSE
