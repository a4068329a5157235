-------------------------------- MODULE LocalDns --------------------------------
(***************************************************************************)
(* The cache of the system's resolvers (src/src/local_dns.rs): the loop     *)
(* that refreshes it, and the requests that rediscover after a resolver     *)
(* failed them (refresh_local_after_failure in src/src/dns.rs), which take  *)
(* turns under one lock.  A discovery is a blocking task: whoever gives up  *)
(* on it lets go of the lock and leaves its result to nobody.               *)
(*                                                                         *)
(* The lock is first come, first served: whoever waits is served, so its    *)
(* order is left out and kept as strong fairness.  A request compares the   *)
(* pointer of the cache it observed, which is represented by whether that   *)
(* cache is still the current one.                                          *)
(***************************************************************************)
EXTENDS Naturals, Sequences

CONSTANTS
  Requests,    \* requests that may ask a local layer
  Loop,        \* the refresh loop
  Nobody,
  Systems,     \* the resolver configurations the system has one after the other
  BoundTo,     \* host and port of the listener
  MaxReloads   \* bound of the reloads

Hosts   == {"loopback", "unspecified", "multicast", "broadcast", "link-local",
            "lan", "resolver", "other"}
Actors  == Requests \cup {Loop}

ASSUME LoopIsNoRequest == Loop \notin Requests /\ Nobody \notin Actors
ASSUME SystemsAreHosts == Systems \in Seq(SUBSET Hosts) /\ Systems # << >>
ASSUME BoundToOK       == BoundTo \in [host : Hosts \cup {"any"}, port : Nat]
ASSUME MaxReloadsOK    == MaxReloads \in Nat

VARIABLES
  system,    \* which of Systems the machine has
  hung,      \* discoveries do not return
  hasLocal,  \* the active configuration has a local layer
  reload,    \* "idle", or "stored" until the watcher notifies
  reloads,
  loop,      \* where the refresh loop is
  missed,    \* history: a notification found the loop between look and wait
  request,   \* where each request is
  current,   \* requests that have observed the current cache
  holder,    \* of the refresh lock
  found,     \* which configuration a task that is waited for has read; 0: none
  cache      \* addresses, and which configuration they were read from

localDns == <<system, hung, hasLocal, reload, reloads, loop, missed, request,
              current, holder, found, cache>>
machine  == <<system, hung>>
watcher  == <<hasLocal, reload, reloads>>

\* Mutant: the listener itself is an upstream.
Usable_listener(host) ==
  host \notin {"loopback", "unspecified", "multicast", "broadcast", "link-local"}
\* usable_dns_server: a server that is asked on port 53 is not the listener.
Usable(host) ==
  /\ host \notin {"loopback", "unspecified", "multicast", "broadcast", "link-local"}
  /\ ~(BoundTo.port = 53 /\ BoundTo.host \in {"any", host})

\* discover_system_dns; an empty set is an error.
Discovered(i) == {host \in Systems[i] : Usable(host)}

LocalTypeOK ==
  /\ system \in 1 .. Len(Systems) /\ hung \in BOOLEAN
  /\ hasLocal \in BOOLEAN /\ reload \in {"idle", "stored"} /\ reloads \in Nat
  /\ loop \in {"looking", "unnotified", "listening", "queued", "discovering", "sleeping"}
  /\ missed \in BOOLEAN
  /\ request \in [Requests -> {"outside", "asking", "queued", "discovering"}]
  /\ current \subseteq Requests
  /\ holder \in Actors \cup {Nobody}
  /\ found \in [Actors -> 0 .. Len(Systems)]
  /\ cache \in [addresses : SUBSET Hosts, seen : 0 .. Len(Systems)]

LocalInit ==
  /\ system = 1 /\ hung \in BOOLEAN
  /\ hasLocal \in BOOLEAN /\ reload = "idle" /\ reloads = 0
  /\ loop = "looking" /\ missed = FALSE
  /\ request = [r \in Requests |-> "outside"]
  /\ current = {} /\ holder = Nobody
  /\ found = [a \in Actors |-> 0]
  /\ cache = [addresses |-> {}, seen |-> 0]

Queued(a)      == IF a = Loop THEN loop = "queued" ELSE request[a] = "queued"
Discovering(a) == IF a = Loop THEN loop = "discovering" ELSE request[a] = "discovering"
\* An actor goes on to its next place.
Goes(a, place) ==
  IF a = Loop THEN loop' = place /\ UNCHANGED request
              ELSE request' = [request EXCEPT ![a] = place] /\ UNCHANGED loop
\* Mutant: no timer wakes the loop.
After_untimed(a) == IF a = Loop THEN "listening" ELSE "outside"
\* Where an actor is when its refresh is over, however it ended.
After(a) == IF a = Loop THEN "sleeping" ELSE "outside"

-----------------------------------------------------------------------------
(* The machine, and the watcher that reloads the configuration.             *)

SystemChanges ==
  /\ system < Len(Systems)
  /\ system' = system + 1
  /\ UNCHANGED <<hung, watcher, loop, missed, request, current, holder, found, cache>>

ReloadStores ==
  /\ reload = "idle" /\ reloads < MaxReloads
  /\ reload' = "stored" /\ reloads' = reloads + 1
  /\ hasLocal' = ~hasLocal
  /\ UNCHANGED <<machine, loop, missed, request, current, holder, found, cache>>

\* notify_waiters reaches a loop that waits, and nobody else.
ReloadNotifies ==
  /\ reload = "stored"
  /\ reload' = "idle"
  /\ loop' = IF loop \in {"listening", "sleeping"} THEN "looking" ELSE loop
  /\ missed' = (missed \/ loop = "unnotified")
  /\ UNCHANGED <<machine, hasLocal, reloads, request, current, holder, found, cache>>

-----------------------------------------------------------------------------
(* The refresh loop.                                                        *)

\* configured_refresh_secs
Looks ==
  /\ loop = "looking"
  /\ loop' = IF hasLocal THEN "queued" ELSE "unnotified"
  /\ missed' = FALSE
  /\ UNCHANGED <<machine, watcher, request, current, holder, found, cache>>

TimerFires ==
  /\ loop = "sleeping"
  /\ loop' = "looking"
  /\ UNCHANGED <<machine, watcher, missed, request, current, holder, found, cache>>

Listens ==
  /\ loop = "unnotified"
  /\ loop' = "listening"
  /\ UNCHANGED <<machine, watcher, missed, request, current, holder, found, cache>>

-----------------------------------------------------------------------------
(* Requests at a local layer.                                               *)

\* local_exchange remembers the cache whose addresses it asks.
Observes(r) ==
  /\ request[r] = "outside"
  /\ request' = [request EXCEPT ![r] = "asking"]
  /\ current' = current \cup {r}
  /\ UNCHANGED <<machine, watcher, loop, missed, holder, found, cache>>

Answers(r) ==
  /\ request[r] = "asking"
  /\ cache.addresses # {}
  /\ request' = [request EXCEPT ![r] = "outside"]
  /\ current' = current \ {r}
  /\ UNCHANGED <<machine, watcher, loop, missed, holder, found, cache>>

\* An address failed, or there is none.
Fails(r) ==
  /\ request[r] = "asking"
  /\ request' = [request EXCEPT ![r] = "queued"]
  /\ UNCHANGED <<machine, watcher, loop, missed, current, holder, found, cache>>

\* The layer's deadline drops the call at whatever it waits for; a lock it holds
\* is free again, and what its task finds is for nobody.
TimesOut(r) ==
  /\ request[r] \in {"asking", "queued", "discovering"}
  /\ request' = [request EXCEPT ![r] = "outside"]
  /\ holder' = IF holder = r THEN Nobody ELSE holder
  /\ found' = [found EXCEPT ![r] = 0]
  /\ current' = current \ {r}
  /\ UNCHANGED <<machine, watcher, loop, missed, cache>>

-----------------------------------------------------------------------------
(* The refresh itself, by the loop or a request.                            *)

\* Mutant: whoever got the lock discovers.
IsServed_never(a) == FALSE
\* refresh_after_failure: another one has refreshed since.
IsServed(a) == a \in Requests /\ a \notin current

\* A request that another one's discovery has served gets the current cache.
IsSpared(a) ==
  /\ Queued(a) /\ holder = Nobody
  /\ IsServed(a)
  /\ Goes(a, After(a))
  /\ UNCHANGED <<machine, watcher, missed, current, holder, found, cache>>

Locks(a) ==
  /\ Queued(a) /\ holder = Nobody
  /\ ~IsServed(a)
  /\ Goes(a, "discovering")
  /\ holder' = a
  /\ UNCHANGED <<machine, watcher, missed, current, found, cache>>

\* The blocking task reads the system's configuration, at some time of its own.
TaskReads(a) ==
  /\ Discovering(a) /\ found[a] = 0
  /\ ~hung
  /\ found' = [found EXCEPT ![a] = system]
  /\ UNCHANGED <<machine, watcher, loop, missed, request, current, holder, cache>>

Ends(a) ==
  /\ Discovering(a) /\ found[a] # 0
  /\ found' = [found EXCEPT ![a] = 0]
  /\ holder' = IF holder = a THEN Nobody ELSE holder
  /\ Goes(a, After(a))
  /\ UNCHANGED <<machine, watcher, missed>>

\* replace_local_resolvers: a new cache, even with the same addresses.
Stores(a) ==
  /\ Ends(a)
  /\ Discovered(found[a]) # {}
  /\ cache' = [addresses |-> Discovered(found[a]), seen |-> found[a]]
  /\ current' = {}

\* No usable server: the active cache stays.
FindsNone(a) ==
  /\ Ends(a)
  /\ Discovered(found[a]) = {}
  /\ current' = current \ {a}
  /\ UNCHANGED cache

Refresh(a) == IsSpared(a) \/ Locks(a) \/ TaskReads(a) \/ Stores(a) \/ FindsNone(a)

LocalNext ==
  \/ SystemChanges \/ ReloadStores \/ ReloadNotifies
  \/ Looks \/ TimerFires \/ Listens
  \/ \E r \in Requests : Observes(r) \/ Answers(r) \/ Fails(r) \/ TimesOut(r)
  \/ \E a \in Actors : Refresh(a)

LocalSpec == LocalInit /\ [][LocalNext]_localDns

\* The watcher and the loop go on, timers fire, and the lock serves whoever waits.
\* A discovery returns unless it hangs for good.  No client has to ask anything.
LocalFairness ==
  /\ WF_localDns(ReloadNotifies)
  /\ WF_localDns(Looks \/ TimerFires \/ Listens)
  /\ SF_localDns(Locks(Loop))
  /\ WF_localDns(TaskReads(Loop) \/ Stores(Loop) \/ FindsNone(Loop))
  /\ \A r \in Requests : WF_localDns(TimesOut(r))

-----------------------------------------------------------------------------
(* Properties.                                                              *)

\* A failure costs the cache that failed, and no other: a request replaces the
\* cache it observed, so requests that fail together share one discovery and
\* none of them throws away the result of another.
FailuresShareADiscovery ==
  [][\A r \in Requests : cache' # cache /\ request[r] = "discovering" /\ request'[r] # request[r]
       => r \in current]_localDns

\* The cache never goes back to what the system was before: results are stored
\* in the order in which they were read, though tasks run on when their requests
\* have given up.  It holds usable servers alone, and once filled it stays filled.
CacheGoesForward ==
  [][cache' # cache =>
       /\ cache'.seen >= cache.seen
       /\ cache'.addresses # {}
       /\ BoundTo.port = 53 => cache'.addresses \cap {BoundTo.host} = {}]_localDns

\* While a local layer is configured and discoveries return, the cache comes to
\* hold what the system has, without a request asking; but for a loop that missed
\* the notification it waits for, which sleeps until the next one.
FollowsSystem ==
  []<>(\/ ~hasLocal \/ missed \/ hung
       \/ Discovered(system) = {}
       \/ cache.seen = system)

\* What makes them inductive: one refresh at a time, which read what it found
\* after the cache was stored; a request that discovers observed this cache.
LocalInv ==
  /\ LocalTypeOK
  /\ \A a \in Actors : Discovering(a) <=> holder = a
  /\ \A a \in Actors : found[a] # 0 => holder = a /\ cache.seen <= found[a]
  /\ \A a \in Actors : found[a] <= system
  /\ cache.seen <= system
  /\ \A r \in Requests : request[r] = "discovering" => r \in current
=============================================================================
