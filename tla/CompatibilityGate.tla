-------------------------- MODULE CompatibilityGate --------------------------
(***************************************************************************)
(* The strict compatibility gate of EdgeSteer (src/src/state.rs) and its    *)
(* three kinds of user:                                                     *)
(*                                                                          *)
(*   - DNS requests (src/src/dns.rs), which read one snapshot of the        *)
(*     runtime, wait for their upstream, and only then ask the gate which   *)
(*     preferred edge addresses may be written into the answer;             *)
(*   - probe tasks, spawned by the gate, which verify one address for one   *)
(*     host name and publish the verdict in the probe cache;                *)
(*   - two updaters, the configuration watcher (src/src/watcher.rs) and the *)
(*     optimizer loop (src/src/optimizer.rs), which replace the snapshot    *)
(*     under runtime_update_lock, then bump the probe epoch, then clear the *)
(*     cache.                                                               *)
(*                                                                          *)
(* One plugin tag is modelled: the cache key of the code is (tag, host,     *)
(* address) and different tags share nothing but the capacity.  A plugin    *)
(* configuration (one member of Plugins) stands for everything              *)
(* PluginConfig's == compares.  No time passes inside an action; every lock,*)
(* unlock, atomic access and await of the code separates two actions.       *)
(***************************************************************************)
EXTENDS Naturals, FiniteSets

CONSTANTS
  Requests,       \* requests served concurrently
  Permits,        \* compatibility_probe_permits; a spawned probe holds one
  Hosts,          \* normalised single-question names
  NoHost,         \* a request with no, or an empty, single name
  Ipv4, Ipv6,     \* edge addresses of the two families
  Plugins,        \* configurations the cloudflare_preferred plugin may have
  NoPlugin,       \* a configuration file without the plugin
  Strict,         \* the Plugins with an enabled optimizer: validation demands
                  \* compatibility hosts of those, so they all require the gate
  Candidates,     \* [Plugins -> SUBSET Addresses]: what a round may select
  Static,         \* [Plugins -> SUBSET Addresses]: plugin.preferred
  Ttl,            \* [Plugins -> Nat]: rewrite_ttl_secs
  RejectCap,      \* a rejection is cached for at most this long (30 s)
  CacheCapacity,  \* MAX_COMPATIBILITY_CACHE_ENTRIES
  MaxNow,         \* bound of the modelled clock
  MaxEpoch        \* bound on the number of snapshot updates

Addresses == Ipv4 \cup Ipv6
Keys      == Hosts \X Addresses
Updaters  == {"watcher", "optimizer"}

\* PreferredIps: at most one address of each family.
Selections ==
  {s \in SUBSET Addresses : \A a, b \in s : a # b => {a, b} \cap Ipv4 # {}
                                                  /\ {a, b} \cap Ipv6 # {}}

ASSUME FamiliesAreDisjoint == Ipv4 \cap Ipv6 = {}
ASSUME NamesAreDistinct    == NoPlugin \notin Plugins /\ NoHost \notin Hosts
ASSUME PluginSettings ==
  /\ Strict \subseteq Plugins
  /\ Candidates \in [Plugins -> SUBSET Addresses]
  /\ Static \in [Plugins -> Selections]
  /\ Ttl \in [Plugins -> Nat \ {0}]
ASSUME PermitsAreFinite == IsFiniteSet(Permits)
ASSUME Bounds ==
  RejectCap \in Nat /\ CacheCapacity \in Nat \ {0} /\ MaxNow \in Nat /\ MaxEpoch \in Nat

VARIABLES
  runtime,     \* the snapshot: plugin configuration and preferred addresses
  updateLock,  \* holder of runtime_update_lock, or "free"
  updaters,    \* what each updater is doing
  epoch,       \* compatibility_probe_epoch
  cache,       \* compatibility_probe_cache: [Keys -> Status]
  probes,      \* what the holder of each permit is doing
  requests,    \* what each request is doing
  now          \* Instant::now()

vars == <<runtime, updateLock, updaters, epoch, cache, probes, requests, now>>

-----------------------------------------------------------------------------
(* Shapes of the state.                                                     *)

Absent       == [kind |-> "absent"]
Pending      == [kind |-> "pending"]
Verdicts     == [kind : {"verified", "rejected"}, until : Nat]
Status       == {Absent, Pending} \cup Verdicts
Runtimes     == [plugin : Plugins \cup {NoPlugin}, preferred : SUBSET Addresses]
IdleProbe    == [state |-> "idle"]
IdleRequest  == [state |-> "idle"]
IdleUpdater  == [state |-> "idle"]

\* An in-flight probe: scheduled (Pending is in the cache, the epoch is not
\* loaded yet), probing, judged (verdict known), publishing (epoch compared).
Task(state, key, plugin, loaded, verdict) ==
  [state |-> state, key |-> key, plugin |-> plugin, epoch |-> loaded,
   verdict |-> verdict]

InFlightProbes ==
  [state : {"scheduled", "probing"}, key : Keys, plugin : Strict, epoch : Nat,
   verdict : {Pending}] \cup
  [state : {"judged", "publishing"}, key : Keys, plugin : Strict, epoch : Nat,
   verdict : Verdicts]

\* A request with its snapshot: addresses still to put to the gate, addresses
\* the gate let through, and the probe it is about to spawn.
Gating(plugin, host, todo, answer) ==
  [state |-> "gating", plugin |-> plugin, host |-> host, todo |-> todo,
   answer |-> answer]
Spawning(plugin, host, todo, answer, permit) ==
  [state |-> "spawning", plugin |-> plugin, host |-> host, todo |-> todo,
   answer |-> answer, permit |-> permit]

ActiveRequests ==
  [state : {"gating"}, plugin : Plugins \cup {NoPlugin},
   host : Hosts \cup {NoHost}, todo : SUBSET Addresses,
   answer : SUBSET Addresses] \cup
  [state : {"spawning"}, plugin : Strict, host : Hosts,
   todo : SUBSET Addresses, answer : SUBSET Addresses, permit : Permits]

\* An optimizer round in progress, or an update past its lock acquisition.
Round(plugin)         == [state |-> "round", plugin |-> plugin]
Updating(state, next) == [state |-> state, next |-> next]

ActiveUpdaters ==
  [state : {"round"}, plugin : Strict] \cup
  [state : {"store", "bump", "clear"}, next : Runtimes]

TypeOK ==
  /\ runtime \in Runtimes
  /\ updateLock \in Updaters \cup {"free"}
  /\ updaters \in [Updaters -> {IdleUpdater} \cup ActiveUpdaters]
  /\ epoch \in Nat
  /\ cache \in [Keys -> Status]
  /\ probes \in [Permits -> {IdleProbe} \cup InFlightProbes]
  /\ requests \in [Requests -> {IdleRequest} \cup ActiveRequests]
  /\ now \in Nat

-----------------------------------------------------------------------------
Init ==
  /\ runtime \in {[plugin |-> p, preferred |-> IF p \in Plugins \ Strict
                                               THEN Static[p] ELSE {}] :
                  p \in Plugins \cup {NoPlugin}}
  /\ updateLock = "free"
  /\ updaters = [u \in Updaters |-> IdleUpdater]
  /\ epoch = 0
  /\ cache = [k \in Keys |-> Absent]
  /\ probes = [p \in Permits |-> IdleProbe]
  /\ requests = [r \in Requests |-> IdleRequest]
  /\ now = 0

-----------------------------------------------------------------------------
(* Requests.                                                                *)

\* state.runtime.load_full(), then the upstream exchange.  Only a strict plugin
\* and a named request have something to ask of the gate.
RequestArrives(r, h) ==
  /\ requests[r] = IdleRequest
  /\ requests' = [requests EXCEPT ![r] =
       Gating(runtime.plugin, h,
              IF runtime.plugin \in Strict /\ h # NoHost
              THEN runtime.preferred ELSE {},
              IF runtime.plugin \in Plugins \ Strict
              THEN runtime.preferred ELSE {})]
  /\ UNCHANGED <<runtime, updateLock, updaters, epoch, cache, probes, now>>

\* The gate is asked for the IPv4 address first, then for the IPv6 address.
Asks(r, a) ==
  /\ requests[r].state = "gating"
  /\ a \in requests[r].todo
  /\ a \in Ipv6 => requests[r].todo \cap Ipv4 = {}

KeyOf(r, a) == <<requests[r].host, a>>
\* Mutant: a verdict is believed for ever.
Fresh_forever(status) == status \in Verdicts
Fresh(status) == status \in Verdicts /\ status.until > now

\* retain(): expired verdicts go, Pending entries stay.
Retained == [k \in Keys |-> IF cache[k] \in Verdicts /\ ~Fresh(cache[k])
                           THEN Absent ELSE cache[k]]
Cached(c) == {k \in Keys : c[k] # Absent}

\* The request goes on to its next address, with these in its answer so far.
Decides(r, a, answer) ==
  requests' = [requests EXCEPT ![r] = Gating(@.plugin, @.host, @.todo \ {a}, answer)]
Withhold(r, a) == Decides(r, a, requests[r].answer)

\* An unexpired proof: the address goes into the answer.
GatePasses(r, a) ==
  /\ Asks(r, a)
  /\ Fresh(cache[KeyOf(r, a)])
  /\ cache[KeyOf(r, a)].kind = "verified"
  /\ Decides(r, a, requests[r].answer \cup {a})
  /\ UNCHANGED <<runtime, updateLock, updaters, epoch, cache, probes, now>>

\* A probe is already pending, or an unexpired rejection.
GateWithholds(r, a) ==
  /\ Asks(r, a)
  /\ \/ cache[KeyOf(r, a)] = Pending
     \/ Fresh(cache[KeyOf(r, a)]) /\ cache[KeyOf(r, a)].kind = "rejected"
  /\ Withhold(r, a)
  /\ UNCHANGED <<runtime, updateLock, updaters, epoch, cache, probes, now>>

NeedsProbe(r, a) ==
  /\ Asks(r, a)
  /\ cache[KeyOf(r, a)] # Pending
  /\ ~Fresh(cache[KeyOf(r, a)])

\* Mutant: off by one.
HasRoom_lax == Cardinality(Cached(Retained)) <= CacheCapacity
HasRoom == Cardinality(Cached(Retained)) < CacheCapacity

\* The cache is full, or no permit is left: nothing is scheduled, but the
\* expired entries are gone.
GateIsFull(r, a) ==
  /\ NeedsProbe(r, a)
  /\ HasRoom => \A p \in Permits : probes[p] # IdleProbe
  /\ cache' = Retained
  /\ Withhold(r, a)
  /\ UNCHANGED <<runtime, updateLock, updaters, epoch, probes, now>>

\* The permit is taken and Pending inserted while the cache is locked.
GateSchedules(r, a, p) ==
  /\ NeedsProbe(r, a)
  /\ HasRoom
  /\ probes[p] = IdleProbe
  /\ cache' = [Retained EXCEPT ![KeyOf(r, a)] = Pending]
  /\ probes' = [probes EXCEPT ![p] =
       Task("scheduled", KeyOf(r, a), requests[r].plugin, 0, Pending)]
  /\ requests' = [requests EXCEPT ![r] =
       Spawning(@.plugin, @.host, @.todo \ {a}, @.answer, p)]
  /\ UNCHANGED <<runtime, updateLock, updaters, epoch, now>>

\* After the cache is unlocked: the epoch is loaded and the task spawned.
SpawnProbe(r) ==
  /\ requests[r].state = "spawning"
  /\ probes' = [probes EXCEPT ![requests[r].permit] =
       Task("probing", @.key, @.plugin, epoch, Pending)]
  /\ requests' = [requests EXCEPT ![r] = Gating(@.plugin, @.host, @.todo, @.answer)]
  /\ UNCHANGED <<runtime, updateLock, updaters, epoch, cache, now>>

\* The answer leaves with the addresses that passed.
RequestReplies(r) ==
  /\ requests[r].state = "gating"
  /\ requests[r].todo = {}
  /\ requests' = [requests EXCEPT ![r] = IdleRequest]
  /\ UNCHANGED <<runtime, updateLock, updaters, epoch, cache, probes, now>>

-----------------------------------------------------------------------------
(* Probe tasks.                                                             *)

Lesser(m, n) == IF m < n THEN m ELSE n

Lifetime(plugin, kind) ==
  IF kind = "verified" THEN Ttl[plugin] ELSE Lesser(Ttl[plugin], RejectCap)

\* verify_compatibility returns; the verdict's lifetime starts now.
ProbeJudges(p, kind) ==
  /\ probes[p].state = "probing"
  /\ probes' = [probes EXCEPT ![p] =
       Task("judged", @.key, @.plugin, @.epoch,
            [kind |-> kind, until |-> now + Lifetime(@.plugin, kind)])]
  /\ UNCHANGED <<runtime, updateLock, updaters, epoch, cache, requests, now>>

\* The epoch comparison; a verdict of an older epoch is dropped with its permit.
ProbeCompares(p) ==
  /\ probes[p].state = "judged"
  /\ probes' = IF probes[p].epoch = epoch
               THEN [probes EXCEPT ![p] =
                      Task("publishing", @.key, @.plugin, @.epoch, @.verdict)]
               ELSE [probes EXCEPT ![p] = IdleProbe]
  /\ UNCHANGED <<runtime, updateLock, updaters, epoch, cache, requests, now>>

\* The cache is locked again, after the comparison.
ProbePublishes(p) ==
  /\ probes[p].state = "publishing"
  /\ cache' = [cache EXCEPT ![probes[p].key] = probes[p].verdict]
  /\ probes' = [probes EXCEPT ![p] = IdleProbe]
  /\ UNCHANGED <<runtime, updateLock, updaters, epoch, requests, now>>

-----------------------------------------------------------------------------
(* Updaters of the snapshot.                                                *)

\* RuntimeConfig::with_reloaded_config and preferred_from_plugin.
Reloaded(c, previous) ==
  [plugin |-> c,
   preferred |-> IF c = previous.plugin THEN previous.preferred
                 ELSE IF c \in Plugins \ Strict THEN Static[c] ELSE {}]

\* Lock, load the current snapshot, and decide what to store and where to go on.
Locks(u, state, next) ==
  /\ updateLock = "free"
  /\ epoch < MaxEpoch
  /\ updateLock' = u
  /\ updaters' = [updaters EXCEPT ![u] = Updating(state, next)]
  /\ UNCHANGED <<runtime, epoch, cache, probes, requests, now>>

\* replace_config with a validated file: any configuration, the current one too.
WatcherReloads(c) ==
  /\ updaters["watcher"] = IdleUpdater
  /\ Locks("watcher", "store", Reloaded(c, runtime))

\* The optimizer reads the snapshot and starts probing for an enabled plugin.
OptimizerStarts ==
  /\ updaters["optimizer"] = IdleUpdater
  /\ runtime.plugin \in Strict
  /\ updaters' = [updaters EXCEPT !["optimizer"] = Round(runtime.plugin)]
  /\ UNCHANGED <<runtime, updateLock, epoch, cache, probes, requests, now>>

\* update_preferred / clear_preferred: the plugin is no longer the expected one.
OptimizerDiscards ==
  /\ updateLock = "free"
  /\ updaters["optimizer"].state = "round"
  /\ updaters["optimizer"].plugin # runtime.plugin
  /\ updaters' = [updaters EXCEPT !["optimizer"] = IdleUpdater]
  /\ UNCHANGED <<runtime, updateLock, epoch, cache, probes, requests, now>>

\* Mutant: the expected plugin is not compared with the current one.
OptimizerUpdates_unchecked(selection) ==
  /\ updaters["optimizer"].state = "round"
  /\ selection \subseteq Candidates[updaters["optimizer"].plugin]
  /\ Locks("optimizer", "store", [plugin |-> runtime.plugin, preferred |-> selection])

\* Mutant: the snapshot the round started from is stored with its result.
OptimizerUpdates_stale(selection) ==
  /\ updaters["optimizer"].state = "round"
  /\ selection \subseteq Candidates[updaters["optimizer"].plugin]
  /\ Locks("optimizer", "store",
           [plugin |-> updaters["optimizer"].plugin, preferred |-> selection])

\* update_preferred (a strict plugin takes the whole selection), and
\* clear_preferred for an empty or failed round, which stores nothing when the
\* preferred addresses are already empty but clears the probes all the same.
OptimizerUpdates(selection) ==
  /\ updaters["optimizer"].state = "round"
  /\ updaters["optimizer"].plugin = runtime.plugin
  /\ selection \subseteq Candidates[updaters["optimizer"].plugin]
  /\ Locks("optimizer",
           IF selection = {} /\ runtime.preferred = {} THEN "bump" ELSE "store",
           [plugin |-> runtime.plugin, preferred |-> selection])

\* Mutant: the lock is released before the epoch and the cache are dealt with.
Stores_unlocks(u) ==
  /\ updaters[u].state = "store"
  /\ runtime' = updaters[u].next
  /\ updateLock' = "free"
  /\ updaters' = [updaters EXCEPT ![u] = Updating("bump", @.next)]
  /\ UNCHANGED <<epoch, cache, probes, requests, now>>

Stores(u) ==
  /\ updaters[u].state = "store"
  /\ runtime' = updaters[u].next
  /\ updaters' = [updaters EXCEPT ![u] = Updating("bump", @.next)]
  /\ UNCHANGED <<updateLock, epoch, cache, probes, requests, now>>

\* clear_compatibility_probes: fetch_add, then lock and clear.
BumpsEpoch(u) ==
  /\ updaters[u].state = "bump"
  /\ epoch' = epoch + 1
  /\ updaters' = [updaters EXCEPT ![u] = Updating("clear", @.next)]
  /\ UNCHANGED <<runtime, updateLock, cache, probes, requests, now>>

\* Mutant: only verdicts are dropped.
ClearsCache_keepsPending(u) ==
  /\ updaters[u].state = "clear"
  /\ cache' = [k \in Keys |-> IF cache[k] = Pending THEN Pending ELSE Absent]
  /\ updateLock' = "free"
  /\ updaters' = [updaters EXCEPT ![u] = IdleUpdater]
  /\ UNCHANGED <<runtime, epoch, probes, requests, now>>

ClearsCache(u) ==
  /\ updaters[u].state = "clear"
  /\ cache' = [k \in Keys |-> Absent]
  /\ updateLock' = "free"
  /\ updaters' = [updaters EXCEPT ![u] = IdleUpdater]
  /\ UNCHANGED <<runtime, epoch, probes, requests, now>>

Tick ==
  /\ now < MaxNow
  /\ now' = now + 1
  /\ UNCHANGED <<runtime, updateLock, updaters, epoch, cache, probes, requests>>

-----------------------------------------------------------------------------

Request(r) ==
  \/ \E h \in Hosts \cup {NoHost} : RequestArrives(r, h)
  \/ \E a \in Addresses : GatePasses(r, a)
  \/ \E a \in Addresses : GateWithholds(r, a)
  \/ \E a \in Addresses : GateIsFull(r, a)
  \/ \E a \in Addresses, p \in Permits : GateSchedules(r, a, p)
  \/ SpawnProbe(r)
  \/ RequestReplies(r)

Probe(p) ==
  \/ \E kind \in {"verified", "rejected"} : ProbeJudges(p, kind)
  \/ ProbeCompares(p)
  \/ ProbePublishes(p)

Update(u) == Stores(u) \/ BumpsEpoch(u) \/ ClearsCache(u)

Next ==
  \/ \E r \in Requests : Request(r)
  \/ \E p \in Permits : Probe(p)
  \/ \E c \in Plugins \cup {NoPlugin} : WatcherReloads(c)
  \/ OptimizerStarts
  \/ OptimizerDiscards
  \/ \E selection \in Selections : OptimizerUpdates(selection)
  \/ \E u \in Updaters : Update(u)
  \/ Tick

Spec == Init /\ [][Next]_vars
-----------------------------------------------------------------------------
(* Safety.                                                                  *)

\* What the optimizer, or the static setting, may offer under a configuration.
Offered(plugin) == IF plugin \in Strict THEN Candidates[plugin]
                   ELSE IF plugin \in Plugins THEN Static[plugin] ELSE {}

\* The snapshot, and every request that carries a copy of it, pairs a plugin
\* configuration with addresses chosen for that very configuration, although a
\* round spans an await during which the configuration may be replaced.
SnapshotsAreOneGeneration ==
  /\ runtime.preferred \subseteq Offered(runtime.plugin)
  /\ \A r \in Requests : requests[r] # IdleRequest =>
       requests[r].todo \cup requests[r].answer \subseteq Offered(requests[r].plugin)

\* Between its store and its unlock an updater finds the snapshot as it left it:
\* no other updater's clone of an older snapshot overwrites it.
UpdatesAreSerial ==
  \A u \in Updaters : updaters[u].state \in {"bump", "clear"} =>
    /\ updateLock = u
    /\ runtime = updaters[u].next

\* A Pending entry withholds the address from every client and no timer expires
\* it, so somebody must be bound to remove it: a probe that will pass the epoch
\* comparison, or an updater about to clear the cache.
PendingIsOwned ==
  \A k \in Keys : cache[k] = Pending =>
    \/ \E u \in Updaters : updaters[u].state = "clear"
    \/ \E p \in Permits :
         /\ probes[p] # IdleProbe
         /\ probes[p].key = k
         /\ \/ probes[p].state \in {"scheduled", "publishing"}
            \/ probes[p].epoch = epoch

\* The capacity is checked when a probe is scheduled and not when its verdict is
\* inserted; a cleared cache that fills up again while old probes return may
\* exceed it, but only by the probes in flight beside the one just scheduled.
CacheIsBounded ==
  Cardinality(Cached(cache)) <= CacheCapacity + Cardinality(Permits) - 1

\* A finished optimizer round never brings back a configuration that a reload
\* replaced: only the watcher changes the plugin configuration.
ReloadIsNeverUndone ==
  [][runtime'.plugin # runtime.plugin => updaters["watcher"].state = "store"]_vars

\* "Cache lifetime is capped by the rewritten DNS TTL, so a cached proof cannot
\* outlive the answer that relies on it" (src/src/state.rs:263-264).
ProofDoesNotOutliveAnswer ==
  [][\A r \in Requests, a \in Addresses : GatePasses(r, a) =>
       cache[KeyOf(r, a)].until <= now + Ttl[requests[r].plugin]]_vars

-----------------------------------------------------------------------------
(* The parts that make the invariants above inductive.                      *)

\* Only a named request under a strict plugin asks, and nothing is asked of the
\* gate when there is no plugin.
AsksAreStrict ==
  \A r \in Requests : requests[r].state = "gating" /\ requests[r].todo # {} =>
    requests[r].plugin \in Strict /\ requests[r].host \in Hosts

\* A request about to spawn owns a scheduled task of its own.
TasksAreSpawnedOnce ==
  \A r \in Requests : requests[r].state = "spawning" =>
    /\ probes[requests[r].permit].state = "scheduled"
    /\ \A q \in Requests : requests[q].state = "spawning" =>
         q = r \/ requests[q].permit # requests[r].permit

\* An updater past its lock acquisition holds the lock.  The optimizer never
\* stores another configuration than the current one, and what is about to be
\* stored is as consistent as what is stored.
UpdatesAreLocked ==
  \A u \in Updaters : updaters[u].state \in {"store", "bump", "clear"} =>
    /\ updateLock = u
    /\ u = "optimizer" => updaters[u].next.plugin = runtime.plugin
    /\ updaters[u].next.preferred \subseteq Offered(updaters[u].next.plugin)
    /\ updaters[u].state # "store" => runtime = updaters[u].next

\* A verdict that has not been published yet expires no later than a proof
\* obtained now would.
VerdictsAreTimely ==
  \A p \in Permits : probes[p].state \in {"judged", "publishing"} =>
    probes[p].verdict.until <= now + Ttl[probes[p].plugin]

IInv ==
  /\ TypeOK
  /\ AsksAreStrict
  /\ TasksAreSpawnedOnce
  /\ UpdatesAreLocked
  /\ SnapshotsAreOneGeneration
  /\ PendingIsOwned
  /\ VerdictsAreTimely

\* What the capacity bounds: the cached keys and those of the probes in flight, whose
\* verdicts may still be inserted.
InFlight == {p \in Permits : probes[p] # IdleProbe}
Load == Cached(cache) \cup {probes[p].key : p \in InFlight}
LoadIsBounded ==
  IsFiniteSet(Load) /\ Cardinality(Load) < CacheCapacity + Cardinality(Permits)

-----------------------------------------------------------------------------
(* Liveness.  Probes run under a timeout and updaters never wait while they  *)
(* hold the lock, so each keeps moving; nothing is assumed of clients, of    *)
(* the operator or of the optimizer.                                        *)

Fairness ==
  /\ \A r \in Requests : WF_vars(SpawnProbe(r))
  /\ \A p \in Permits : WF_vars(Probe(p))
  /\ \A u \in Updaters : WF_vars(Update(u))

FairSpec == Spec /\ Fairness

\* Every pending verdict is resolved, so no name is withheld for ever.
PendingIsResolved ==
  \A k \in Keys : cache[k] = Pending ~> cache[k] # Pending

-----------------------------------------------------------------------------
(* The promise the gate implements.                                         *)

Answers(r) ==
  IF requests[r] # IdleRequest /\ requests[r].plugin \in Strict
  THEN {<<requests[r].host, a>> : a \in requests[r].answer} ELSE {}

Proofs == {<<k, cache[k].until>> : k \in {x \in Keys : cache[x].kind = "verified"}}

Promise == INSTANCE CertifiedAnswers WITH
  Clients <- Requests, Pairs <- Keys,
  Lifetimes <- {Ttl[p] : p \in Strict},
  clock <- now, proofs <- Proofs, answers <- [r \in Requests |-> Answers(r)]

\* Strict rewriting only ever uses an unexpired proof for that name and address.
RewritesAreCertified == Promise!Spec
=============================================================================
