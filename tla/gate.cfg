\* Two requests and two probes over one name with the optimizer on or off, then two
\* names and both families that compete for a cache of one entry.
CONSTANTS
  long = long
  wide = wide
  short = short
  manual = manual
  a4 = a4
  a6 = a6
  r1 = r1
  r2 = r2
  p1 = p1
  p2 = p2
  h1 = h1
  h2 = h2
  Requests = {r1, r2}
  Permits = {p1, p2}
  Hosts = {h1, h2}
  NoHost = NoHost
  Ipv4 = {a4}
  Ipv6 = {a6}
  NoPlugin = NoPlugin
  Plugins <- MCPlugins
  Strict <- MCStrict
  Candidates <- MCCandidates
  Static <- MCStatic
  Ttl <- MCTtl
  RejectCap = 1
  CacheCapacity = 1
  MaxNow = 1
  MaxEpoch = 3
SPECIFICATION MCSpec
INVARIANTS
  SnapshotsAreOneGeneration
  IInv
  CacheIsBounded
PROPERTIES
  ReloadIsNeverUndone
  RewritesAreCertified
  PendingIsResolved
