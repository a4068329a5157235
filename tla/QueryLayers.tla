------------------------------ MODULE QueryLayers ------------------------------
(***************************************************************************)
(* One DNS request on its way through the resolver graph (src/src/dns.rs,   *)
(* query_layers and everything below it): filters, next and fallback edges, *)
(* the request deadline and the deadlines derived from it, the TCP retry of *)
(* a truncated UDP answer, and the local layer's walk through the cached    *)
(* and the rediscovered system resolvers.                                   *)
(*                                                                          *)
(* The request works on one snapshot, so the configuration and the set of   *)
(* layers whose filter applies are picked once, when it starts.  Upstreams  *)
(* may do anything: answer, answer badly, truncate, or stay silent until    *)
(* the exchange times out.  Time is in ticks; timers fire on time, so the   *)
(* clock does not pass the deadline of the call in progress.                *)
(***************************************************************************)
EXTENDS ResolverGraph, Subsequences

CONSTANTS
  Configs,     \* validated configurations, see Validated below
  Resolvers,   \* addresses system DNS discovery may return
  Discoveries, \* what a discovery may return: sequences of Resolvers
  MaxNow       \* bound of the modelled clock

Kinds == {"udp", "stream", "local"}  \* stream: TCP, DoT and DoH
LayerConfigs ==
  [kind : Kinds, timeout : Nat \ {0}, filtered : BOOLEAN,
   next : Layers \cup {None}, fallback : Layers \cup {None}]

\* FileConfig::validate: the timeouts are positive, a filtered layer has a next
\* layer, and the graph has no cycle, which validate_layer_graph decides (LayerGraph).
Validated(c) ==
  /\ c.entry \in Layers
  /\ c.timeout \in Nat \ {0}
  /\ c.layers \in [Layers -> LayerConfigs]
  /\ \A l \in Layers : c.layers[l].filtered => c.layers[l].next # None
  /\ Acyclic(c.layers)

ASSUME ConfigsValidated == \A c \in Configs : Validated(c)
\* discover_system_dns fails when it finds none, and names no address twice.
ASSUME DiscoveriesOK ==
  \A discovered \in Discoveries :
    /\ discovered \in Seq(Resolvers) \ {<< >>}
    /\ \A i, j \in DOMAIN discovered : discovered[i] = discovered[j] => i = j
ASSUME MaxNowOK         == MaxNow \in Nat

VARIABLES
  config,      \* the configuration of the request's snapshot
  applies,     \* layers whose filter the request passes
  now,         \* ticks since the request started
  phase,       \* "walk", a call in progress, "answered" or "failed"
  layer,       \* current layer
  endpoint,    \* who is being asked: the layer's server or a local resolver
  layerEnd,    \* deadline of the current layer
  endpointEnd, \* deadline of the current exchange
  pool,        \* local candidates still to be tried, in order
  known,       \* every address that is or was a candidate of this layer
  refreshed,   \* this local layer has used its one rediscovery
  left,        \* history: how layers were left, <<layer, "missed" or "failed">>
  made         \* history: calls made, <<layer, endpoint, transport>>

vars == <<config, applies, now, phase, layer, endpoint, layerEnd, endpointEnd,
          pool, known, refreshed, left, made>>
snapshot == <<config, applies>>
local    == <<pool, known, refreshed>>

Exchanges == {"udp", "tcp", "stream"}
Calls     == Exchanges \cup {"discovery"}
Done      == {"answered", "failed"}
Here      == config.layers[layer]

\* Layers a request may match: the unfiltered ones and any of the others.
Matching(c) ==
  {S \in SUBSET Layers : \A l \in Layers : ~c.layers[l].filtered => l \in S}

\* The part of the state that says where in the graph the request is.
PathTypeOK ==
  /\ config \in Configs
  /\ applies \in Matching(config)
  /\ phase \in Calls \cup Done \cup {"walk"}
  /\ layer \in Layers
  /\ left \subseteq Layers \X {"missed", "failed"}

TypeOK ==
  /\ PathTypeOK
  /\ now \in Nat
  /\ endpoint \in Layers \cup Resolvers
  /\ layerEnd \in Nat
  /\ endpointEnd \in Nat
  /\ pool \in Seq(Resolvers)
  /\ known \subseteq Resolvers
  /\ refreshed \in BOOLEAN
  /\ made \subseteq Layers \X (Layers \cup Resolvers) \X Calls

Init ==
  /\ config \in Configs
  /\ applies \in Matching(config)
  /\ now = 0
  /\ phase = "walk"
  /\ layer = config.entry
  /\ endpoint = layer
  /\ layerEnd = 0 /\ endpointEnd = 0
  /\ pool = << >> /\ known = {} /\ refreshed = FALSE
  /\ left = {} /\ made = {}

-----------------------------------------------------------------------------
(* The graph.                                                               *)

\* A filter miss: next is tried and this resolver is not asked.
Misses ==
  /\ phase = "walk"
  /\ layer \notin applies
  /\ left' = left \cup {<<layer, "missed">>}
  /\ layer' = Here.next
  /\ UNCHANGED <<snapshot, now, phase, endpoint, layerEnd, endpointEnd, local, made>>

\* Mutant: a failure takes the edge of a miss.
OnFailure_next == Here.next
\* The edge a failure takes.
OnFailure == Here.fallback

\* Mutant: a failure starts the chain over.
LayerFails_restarts ==
  /\ left' = left \cup {<<layer, "failed">>}
  /\ pool' = << >> /\ known' = {} /\ refreshed' = FALSE
  /\ IF OnFailure = None
     THEN phase' = "failed" /\ layer' = layer
     ELSE phase' = "walk" /\ layer' = config.entry
  /\ UNCHANGED <<snapshot, now, endpoint, layerEnd, endpointEnd, made>>
\* The layer provided no acceptable answer: its fallback is tried, and without
\* one the request fails with SERVFAIL.  What a local layer keeps goes with it.
LayerFails ==
  /\ left' = left \cup {<<layer, "failed">>}
  /\ pool' = << >> /\ known' = {} /\ refreshed' = FALSE
  /\ IF OnFailure = None
     THEN phase' = "failed" /\ layer' = layer
     ELSE phase' = "walk" /\ layer' = OnFailure
  /\ UNCHANGED <<snapshot, now, endpoint, layerEnd, endpointEnd, made>>

\* layer_deadline refuses to start a layer after the request deadline.
StartsTooLate ==
  /\ phase = "walk"
  /\ layer \in applies
  /\ now >= config.timeout
  /\ LayerFails

\* Mutant: the request's deadline is left out.
LayerDeadline_own == now + Here.timeout
\* layer_deadline: the layer's own timeout, within the request's.
LayerDeadline ==
  IF now + Here.timeout < config.timeout THEN now + Here.timeout ELSE config.timeout

Starts ==
  /\ phase = "walk"
  /\ layer \in applies
  /\ now < config.timeout
  /\ layerEnd' = LayerDeadline

Sends(transport, to, deadline) ==
  /\ phase' = transport
  /\ endpoint' = to
  /\ endpointEnd' = deadline
  /\ made' = made \cup {<<layer, to, transport>>}

\* query_network_layer for a layer with a fixed address.
AsksNetworkLayer ==
  /\ Here.kind # "local"
  /\ Starts
  /\ Sends(Here.kind, layer, LayerDeadline)
  /\ UNCHANGED <<snapshot, now, layer, local, left>>

\* allocated_endpoint_deadline: the time left is shared out among the remaining
\* candidates.  A share is not zero while time is left, hence rounded up.
Share(remaining, targets) == (remaining + targets - 1) \div targets

\* The first candidate is asked over UDP.
AsksCandidate(candidates, deadline) ==
  /\ Sends("udp", Head(candidates), now + Share(deadline - now, Len(candidates)))
  /\ pool' = Tail(candidates)

\* refresh_local_after_failure, which gives up at the layer's deadline.
Discovers ==
  /\ phase' = "discovery"
  /\ refreshed' = TRUE
  /\ made' = made \cup {<<layer, layer, "discovery">>}
  /\ UNCHANGED <<endpoint, endpointEnd, pool>>

\* local_exchange: the candidates are the resolvers cached at that moment; an
\* empty cache is filled first.
AsksLocalLayer(cached) ==
  /\ Here.kind = "local"
  /\ Starts
  /\ known' = {cached[i] : i \in DOMAIN cached}
  /\ \/ cached = << >> /\ Discovers
     \/ /\ cached # << >>
        /\ AsksCandidate(cached, LayerDeadline)
        /\ UNCHANGED refreshed
  /\ UNCHANGED <<snapshot, now, layer, left>>

-----------------------------------------------------------------------------
(* Exchanges.                                                               *)

\* A response that matches the request ends the chain whatever its code; one
\* over UDP only when it is not truncated.
Answered ==
  /\ phase \in Exchanges
  /\ phase' = "answered"
  /\ UNCHANGED <<snapshot, now, layer, endpoint, layerEnd, endpointEnd, local, left, made>>

\* query_udp_layer: a truncated answer is retried over TCP at the same endpoint,
\* within what is left of the same deadline.
Truncated ==
  /\ phase = "udp"
  /\ now < endpointEnd
  /\ Sends("tcp", endpoint, endpointEnd)
  /\ UNCHANGED <<snapshot, now, layer, layerEnd, local, left>>

\* The next of the candidates.  Once the deadline has passed those that remain
\* fail without being asked.
NextCandidate(candidates, seen) ==
  /\ candidates # << >>
  /\ now < layerEnd
  /\ AsksCandidate(candidates, layerEnd)
  /\ known' = seen
  /\ refreshed' = TRUE
  /\ UNCHANGED <<snapshot, now, layer, layerEnd, left>>

NoCandidate(candidates) ==
  /\ candidates = << >> \/ now >= layerEnd
  /\ LayerFails

\* An error, a timeout or a response that does not match.  A network layer has
\* failed; a local layer rediscovers once while it has time, then goes on.
NetworkExchangeFails ==
  /\ phase \in Exchanges
  /\ Here.kind # "local"
  /\ LayerFails

CandidateFails ==
  /\ phase \in Exchanges
  /\ Here.kind = "local"
  /\ \/ /\ ~refreshed /\ now < layerEnd
        /\ Discovers
        /\ UNCHANGED <<snapshot, now, layer, layerEnd, known, left>>
     \/ /\ refreshed \/ now >= layerEnd
        /\ NextCandidate(pool, known) \/ NoCandidate(pool)

\* Mutants: known addresses are appended again; new ones are dropped.
Extended_again(discovered) == pool \o discovered
Extended_dropped(discovered) == pool
\* extend_local_candidates: only addresses not known yet are appended.
Extended(discovered) ==
  pool \o Subsequence(discovered, {i \in DOMAIN discovered : discovered[i] \notin known})

Rediscovers(discovered) ==
  /\ phase = "discovery"
  /\ \/ NextCandidate(Extended(discovered),
                      known \cup {discovered[i] : i \in DOMAIN discovered})
     \/ NoCandidate(Extended(discovered))

\* Discovery failed or ran into the layer's deadline.  With an empty cache there
\* is no candidate left.
DiscoveryFails ==
  /\ phase = "discovery"
  /\ NextCandidate(pool, known) \/ NoCandidate(pool)

\* Time passes.  A call in progress ends at its deadline at the latest.
Tick ==
  /\ phase \notin Done
  /\ phase \in Exchanges => now < endpointEnd
  /\ phase = "discovery" => now < layerEnd
  /\ now < MaxNow
  /\ now' = now + 1
  /\ UNCHANGED <<snapshot, phase, layer, endpoint, layerEnd, endpointEnd, local, left, made>>

Next ==
  \/ Misses
  \/ StartsTooLate
  \/ AsksNetworkLayer
  \/ \E cached \in Discoveries \cup {<< >>} : AsksLocalLayer(cached)
  \/ Answered
  \/ Truncated
  \/ NetworkExchangeFails
  \/ CandidateFails
  \/ \E discovered \in Discoveries : Rediscovers(discovered)
  \/ DiscoveryFails
  \/ Tick

Spec == Init /\ [][Next]_vars

\* The task that serves the request is polled until it has replied, and timers
\* fire: while something can happen, something eventually does.
FairSpec == Spec /\ WF_vars(Next)

-----------------------------------------------------------------------------
(* Properties.                                                              *)

LeftAs(how) == {l \in Layers : <<l, how>> \in left}
Left        == LeftAs("missed") \cup LeftAs("failed")

\* However misses and failures alternate, the request never comes back to a
\* layer it has left: query_layers follows one acyclic path, so its loop ends
\* and no resolver is sent the same query by two visits.
NeverRevisited == phase # "failed" => layer \notin Left

\* What makes it so: every layer that was left has an edge to another one that
\* was left or to the current one.
PathIsConnected ==
  phase # "failed" =>
    \A l \in Left : Successors(config.layers, l) \cap (Left \cup {layer}) # {}

\* No endpoint is sent the query twice over one transport, whatever a
\* rediscovery in the middle of the walk through the candidates returns.
CallsAreMadeOnce ==
  [][phase' \in Calls /\ <<phase', endpoint', layer'>> # <<phase, endpoint, layer>>
       => <<layer', IF phase' = "discovery" THEN layer' ELSE endpoint', phase'>> \notin made]_vars

\* The path a request must take given the layers that failed it: next on a miss,
\* fallback on a failure, and the first other layer answers.  None: SERVFAIL.
Onward(c, matching, failed, from) ==
  LET walk[l \in Layers \cup {None}] ==
        IF l = None THEN None
        ELSE IF l \notin matching THEN walk[c.layers[l].next]
        ELSE IF l \in failed THEN walk[c.layers[l].fallback]
        ELSE l
  IN walk[from]
PrescribedFrom(l) == Onward(config, applies, LeftAs("failed"), l)
Destination == PrescribedFrom(config.entry)

\* Every layer that failed was one the request had to ask, the layer that
\* answers is the one its filters and those failures single out, and SERVFAIL is
\* returned exactly when they single out none.
PathIsPrescribed ==
  /\ phase \in Calls \cup {"answered"} => layer = Destination
  /\ phase = "walk" /\ layer \in applies => layer = Destination
  /\ phase = "failed" <=> Destination = None

\* No call outlives the request's deadline, however the layer and endpoint
\* deadlines were derived, so a client that is answered is answered within it.
DeadlineIsKept == phase \in Calls \cup {"answered"} => now <= config.timeout

\* A local layer gives up before its deadline only when it has rediscovered the
\* system resolvers and has asked every address it ever knew of.
LocalLayerTriesAll ==
  [][Here.kind = "local" /\ phase \in Calls /\ left' # left /\ now < layerEnd
       => ({<<layer, layer, "discovery">>} \cup {<<layer, r, "udp">> : r \in known})
            \subseteq made]_vars

-----------------------------------------------------------------------------
(* The parts that make these properties inductive.                          *)

AddressesIn(candidates) == {candidates[i] : i \in DOMAIN candidates}
\* The resolvers this layer has sent the query to.
Asked == {r \in Resolvers : \E transport \in Exchanges : <<layer, r, transport>> \in made}

\* The deadline of an exchange is within the layer's and that within the request's,
\* and timers are not late.
DeadlinesNest ==
  /\ phase \in Calls => now <= layerEnd /\ layerEnd <= config.timeout
  /\ phase \in Exchanges => now <= endpointEnd /\ endpointEnd <= layerEnd

\* Calls were made by the layers of the path; a layer that is not called yet has made
\* none, and one that is asked over UDP has not been asked over TCP.
CallsAreOnThePath ==
  /\ \A c \in made : c[1] \in Left \cup {layer}
  /\ phase = "walk" => \A c \in made : c[1] # layer
  /\ phase = "udp" => <<layer, endpoint, "tcp">> \notin made

\* What a local layer keeps: an address that is known has been asked over UDP or waits
\* in the pool, never both, and never twice; the rediscovery is spent when it is made.
CandidatesAreKnown ==
  /\ phase = "walk" => pool = << >> /\ known = {} /\ ~refreshed
  /\ phase = "discovery" => Here.kind = "local"
  /\ \A i, j \in DOMAIN pool : pool[i] = pool[j] => i = j
  /\ phase \in Calls /\ Here.kind = "local" =>
       /\ known = Asked \cup AddressesIn(pool)
       /\ Asked \cap AddressesIn(pool) = {}
       /\ \A r \in Asked : <<layer, r, "udp">> \in made
       /\ refreshed <=> <<layer, layer, "discovery">> \in made
       /\ phase = "discovery" => refreshed
       /\ phase \in Exchanges => endpoint \in Asked /\ phase # "stream"

CallInv ==
  /\ TypeOK /\ PathIsConnected
  /\ DeadlinesNest /\ DeadlineIsKept
  /\ CallsAreOnThePath /\ CandidatesAreKnown

\* The path prescribed leads by the current layer.
PathIsFollowed ==
  /\ phase # "failed" => Destination = PrescribedFrom(layer)
  /\ phase = "failed" => Destination = None
  /\ phase \in Calls \cup {"answered"} => layer \in applies

PathInv == PathTypeOK /\ PathIsConnected /\ PathIsFollowed
-----------------------------------------------------------------------------
\* A request is answered or refused, whatever the upstreams do.
IsAnswered == <>(phase \in Done)
=============================================================================
