\* A reload shortens the TTL while a request holds the old snapshot.
CONSTANTS
  long = long
  wide = wide
  short = short
  manual = manual
  a4 = a4
  a6 = a6
  r1 = r1
  r2 = r2
  p1 = p1
  p2 = p2
  h1 = h1
  h2 = h2
  Requests = {r1, r2}
  Permits = {p1, p2}
  Hosts = {h1, h2}
  NoHost = NoHost
  Ipv4 = {a4}
  Ipv6 = {a6}
  NoPlugin = NoPlugin
  Plugins <- MCPlugins
  Strict <- MCStrict
  Candidates <- MCCandidates
  Static <- MCStatic
  Ttl <- MCTtl
  RejectCap = 1
  CacheCapacity = 2
  MaxNow = 1
  MaxEpoch = 3
SPECIFICATION ReloadSpec
PROPERTIES
  ProofDoesNotOutliveAnswer
