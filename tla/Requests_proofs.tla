---------------------------- MODULE Requests_proofs ----------------------------
(***************************************************************************)
(* A request: its way through the layers and the calls it makes there, the *)
(* refresh of the local resolvers it may have to wait for, and its permit. *)
(***************************************************************************)
EXTENDS QueryLayers, Serving, Subsequences_proofs

-----------------------------------------------------------------------------
(***************************************************************************)
(* The request's way through the graph, for every validated configuration. *)
(*                                                                         *)
(* PathIsConnected is what makes a layer be visited once: a miss and a     *)
(* failure both leave a layer along an edge, so were the current layer one *)
(* that was left before, every layer left would have a successor among     *)
(* them, which an acyclic graph excludes.  PathIsFollowed is what makes the*)
(* way the prescribed one: what is ahead of the current layer is what was  *)
(* ahead of the first.                                                     *)
(***************************************************************************)

ConnectedInv == PathTypeOK /\ PathIsConnected

\* Validation gives every layer's edges an end in the graph, and a filtered
\* layer a next one.
LEMMA EdgesEnd ==
  ASSUME NEW c \in Configs, NEW l \in Layers
  PROVE  /\ c.entry \in Layers
         /\ c.layers[l].next \in Layers \cup {None}
         /\ c.layers[l].fallback \in Layers \cup {None}
         /\ c.layers[l].kind \in Kinds
         /\ c.layers[l].filtered => c.layers[l].next # None
         /\ c.layers[l].filtered \in BOOLEAN
<1>1. Validated(c)
  BY ConfigsValidated
<1>2. c.layers[l] \in LayerConfigs
  BY <1>1 DEF Validated
<1> QED
  BY <1>1, <1>2 DEF Validated, LayerConfigs


\* No set of layers is one that the steps of f never leave, but for those of stop.
IsEnding(L, f, stop) ==
  \A S \in SUBSET L : S # {} => \E l \in S : l \in stop \/ f[l] \notin S

\* Where the steps of f lead from each layer.
IsWalk(g, L, none, f, stop) ==
  /\ g \in [L \cup {none} -> L \cup {none}]
  /\ g[none] = none
  /\ \A l \in L : g[l] = IF l \in stop THEN l ELSE g[f[l]]

\* A walk along the steps of f that ends at the layers of stop and at None exists as a
\* function, if no set of layers is one that the steps never leave.
LEMMA WalkExists ==
  ASSUME NEW L, NEW none, none \notin L, NEW f \in [L -> L \cup {none}], NEW stop,
         IsEnding(L, f, stop)
  PROVE  \E g : IsWalk(g, L, none, f, stop)
<1> DEFINE D == L \cup {none}
           Closed(R) == /\ <<none, none>> \in R
                        /\ \A l \in L : l \in stop => <<l, l>> \in R
                        /\ \A l \in L, d \in D :
                             l \notin stop /\ <<f[l], d>> \in R => <<l, d>> \in R
           G == {p \in D \X D : \A R \in SUBSET (D \X D) : Closed(R) => p \in R}
           g == [l \in D |-> CHOOSE d : <<l, d>> \in G]
<1>1. Closed(G)
  <2>1. <<none, none>> \in G
    OBVIOUS
  <2>2. \A l \in L : l \in stop => <<l, l>> \in G
    OBVIOUS
  <2>3. ASSUME NEW l \in L, NEW d \in D, l \notin stop, <<f[l], d>> \in G
        PROVE  <<l, d>> \in G
    <3>1. ASSUME NEW R \in SUBSET (D \X D), Closed(R)
          PROVE  <<l, d>> \in R
      <4>1. <<f[l], d>> \in R
        BY <2>3, <3>1
      <4> QED
        BY <2>3, <3>1, <4>1
    <3> HIDE DEF Closed
    <3> QED
      BY <3>1
  <2> HIDE DEF G
  <2> QED
    BY <2>1, <2>2, <2>3
<1>2. ASSUME NEW p \in G, Closed(G \ {p})
      PROVE  FALSE
  <2> DEFINE H == G \ {p}
  <2>1. H \in SUBSET (D \X D) /\ p \notin H
    OBVIOUS
  <2>2. \A R \in SUBSET (D \X D) : Closed(R) => p \in R
    OBVIOUS
  <2>3. Closed(H)
    BY <1>2
  <2> HIDE DEF H, Closed
  <2> QED
    BY <2>1, <2>2, <2>3
<1>3. G \subseteq D \X D
  OBVIOUS
<1> HIDE DEF G
<1>4. ASSUME NEW d, <<none, d>> \in G
      PROVE  d = none
  <2> SUFFICES ASSUME d # none PROVE FALSE
    OBVIOUS
  <2>1. Closed(G \ {<<none, d>>})
    BY <1>1
  <2> QED
    BY <1>2, <1>4, <2>1
<1> DEFINE Unique(l) == \E e \in D : <<l, e>> \in G /\ \A d : <<l, d>> \in G => d = e
<1>5. \A l \in D : Unique(l)
  <2>1. Unique(none)
    BY <1>1, <1>4
  <2> DEFINE S == {l \in L : ~Unique(l)}
  <2> SUFFICES ASSUME S # {} PROVE FALSE
    BY <2>1
  <2>2. PICK l \in S : l \in stop \/ f[l] \notin S
    BY DEF IsEnding
  <2>3. l \in L /\ ~Unique(l) /\ f[l] \in D
    OBVIOUS
  <2>4. CASE l \in stop
    <3>1. <<l, l>> \in G
      BY <1>1, <2>3, <2>4
    <3>2. ASSUME NEW d, <<l, d>> \in G, d # l
          PROVE  FALSE
      <4>1. Closed(G \ {<<l, d>>})
        BY <1>1, <2>3, <2>4, <3>2
      <4> QED
        BY <1>2, <3>2, <4>1
    <3> QED
      BY <2>3, <3>1, <3>2
  <2>5. CASE l \notin stop
    <3>1. Unique(f[l])
      BY <2>1, <2>2, <2>3, <2>5
    <3>2. PICK e \in D : <<f[l], e>> \in G /\ \A d : <<f[l], d>> \in G => d = e
      BY <3>1
    <3>3. <<l, e>> \in G
      BY <1>1, <2>3, <2>5, <3>2
    <3>4. ASSUME NEW d, <<l, d>> \in G, d # e
          PROVE  FALSE
      <4>1. Closed(G \ {<<l, d>>})
        BY <1>1, <2>3, <2>5, <3>2, <3>4
      <4> QED
        BY <1>2, <3>4, <4>1
    <3> QED
      BY <2>3, <3>3, <3>4
  <2> QED
    BY <2>4, <2>5
<1>6. ASSUME NEW l \in D, NEW d, <<l, d>> \in G
      PROVE  g[l] = d
  <2>1. <<l, g[l]>> \in G
    BY <1>6
  <2> QED
    BY <1>5, <1>6, <2>1
<1>7. \A l \in D : <<l, g[l]>> \in G
  BY <1>5
<1>8. g \in [D -> D]
  BY <1>3, <1>7
<1> HIDE DEF g
<1>9. g[none] = none
  BY <1>1, <1>6
<1>10. ASSUME NEW l \in L
       PROVE  g[l] = IF l \in stop THEN l ELSE g[f[l]]
  <2>1. CASE l \in stop
    BY <1>1, <1>6, <2>1
  <2>2. CASE l \notin stop
    <3>1. f[l] \in D
      OBVIOUS
    <3>2. <<f[l], g[f[l]]>> \in G /\ g[f[l]] \in D
      BY <1>3, <1>7, <3>1
    <3> QED
      BY <1>1, <1>6, <2>2, <3>2
  <2> QED
    BY <2>1, <2>2
<1> QED
  BY <1>8, <1>9, <1>10 DEF IsWalk

\* The edge along which a layer is left.
EdgeTaken(c, matching, l) ==
  IF l \notin matching THEN c.layers[l].next ELSE c.layers[l].fallback

LEMMA EdgeTakenIs ==
  ASSUME NEW c \in Configs, NEW matching, NEW l \in Layers
  PROVE  /\ EdgeTaken(c, matching, l) \in Layers \cup {None}
         /\ EdgeTaken(c, matching, l) # None =>
              EdgeTaken(c, matching, l) \in Successors(c.layers, l)
  BY EdgesEnd, NoneIsNoLayer DEF EdgeTaken, Successors

\* So Onward is what its definition says.
LEMMA OnwardIs ==
  ASSUME NEW c \in Configs, NEW matching, NEW failed
  PROVE  /\ Onward(c, matching, failed, None) = None
         /\ \A l \in Layers :
              Onward(c, matching, failed, l) =
                IF l \in matching /\ l \notin failed THEN l
                ELSE Onward(c, matching, failed, EdgeTaken(c, matching, l))
<1> DEFINE stop == matching \ failed
           f == [l \in Layers |-> IF l \notin matching THEN c.layers[l].next
                                 ELSE c.layers[l].fallback]
           Body(g) == [l \in Layers \cup {None} |->
                         IF l = None THEN None
                         ELSE IF l \notin matching THEN g[c.layers[l].next]
                         ELSE IF l \in failed THEN g[c.layers[l].fallback]
                         ELSE l]
           walk == CHOOSE g : g = Body(g)
<1>1. f \in [Layers -> Layers \cup {None}]
  BY EdgesEnd
<1>2. IsEnding(Layers, f, stop)
  <2> SUFFICES ASSUME NEW S \in SUBSET Layers, S # {}
               PROVE  \E l \in S : f[l] \notin S
    BY DEF IsEnding
  <2>1. Acyclic(c.layers)
    BY ConfigsValidated DEF Validated
  <2>2. PICK l \in S : Successors(c.layers, l) \cap S = {}
    BY <2>1 DEF Acyclic
  <2>3. f[l] = None \/ f[l] \in Successors(c.layers, l)
    BY DEF Successors
  <2> QED
    BY <2>2, <2>3, NoneIsNoLayer
<1>3. PICK g : IsWalk(g, Layers, None, f, stop)
  <2> HIDE DEF f, stop
  <2> QED
    BY <1>1, <1>2, NoneIsNoLayer, WalkExists
<1>4. g = Body(g)
  <2>1. \A l \in Layers :
          g[l] = IF l \notin matching THEN g[c.layers[l].next]
              ELSE IF l \in failed THEN g[c.layers[l].fallback]
              ELSE l
    BY <1>1, <1>3 DEF IsWalk
  <2> QED
    BY <1>3, <2>1, NoneIsNoLayer DEF IsWalk
<1>5. walk = Body(walk)
  <2> HIDE DEF Body
  <2> QED
    BY <1>4
<1>6. \A l : Onward(c, matching, failed, l) = walk[l]
  BY DEF Onward
<1> HIDE DEF walk
<1>7. walk[None] = None
  BY <1>5
<1>8. ASSUME NEW l \in Layers
      PROVE  walk[l] = IF l \in matching /\ l \notin failed THEN l
                       ELSE walk[EdgeTaken(c, matching, l)]
  <2>1. walk[l] = Body(walk)[l]
    BY <1>5
  <2> QED
    BY <2>1, NoneIsNoLayer DEF EdgeTaken
<1> QED
  BY <1>6, <1>7, <1>8

\* What the path prescribed does at a layer.
LEMMA WalkAt ==
  ASSUME PathTypeOK, NEW l \in Layers
  PROVE  /\ l \in applies /\ l \notin LeftAs("failed") => PrescribedFrom(l) = l
         /\ l \in applies /\ l \in LeftAs("failed") =>
              PrescribedFrom(l) = PrescribedFrom(config.layers[l].fallback)
         /\ l \notin applies =>
              /\ PrescribedFrom(l) = PrescribedFrom(config.layers[l].next)
              /\ config.layers[l].next \in Layers
         /\ PrescribedFrom(None) = None
<1>1. config \in Configs /\ applies \in Matching(config)
  BY DEF PathTypeOK
<1>2. l \notin applies => config.layers[l].next \in Layers
  BY <1>1, EdgesEnd DEF Matching
<1>3. PrescribedFrom(l) = IF l \in applies /\ l \notin LeftAs("failed") THEN l
                          ELSE PrescribedFrom(EdgeTaken(config, applies, l))
  BY <1>1, OnwardIs DEF PrescribedFrom
<1>4. PrescribedFrom(None) = None
  BY <1>1, OnwardIs DEF PrescribedFrom
<1> QED
  BY <1>2, <1>3, <1>4 DEF EdgeTaken

\* Until the request has failed there is a layer ahead that may answer: were there
\* none, the layers left and those that lead to none would have no end.
LEMMA SomeLayerIsAhead ==
  ASSUME ConnectedInv, phase # "failed"
  PROVE  /\ layer \notin Left
         /\ PrescribedFrom(layer) # None
<1> USE DEF ConnectedInv
<1>1. layer \in Layers /\ Left \subseteq Layers /\ config \in Configs
  BY DEF PathTypeOK, Left, LeftAs
<1>2. Acyclic(config.layers)
  BY <1>1, ConfigsValidated DEF Validated
<1>3. \A l \in Left : Successors(config.layers, l) \cap (Left \cup {layer}) # {}
  BY DEF PathIsConnected
<1>4. layer \notin Left
  <2> SUFFICES ASSUME layer \in Left PROVE FALSE
    OBVIOUS
  <2>1. \A l \in Left : Successors(config.layers, l) \cap Left # {}
    BY <1>3
  <2> QED
    BY <1>1, <1>2, <2>1 DEF Acyclic
<1>5. PrescribedFrom(layer) # None
  <2> SUFFICES ASSUME PrescribedFrom(layer) = None PROVE FALSE
    OBVIOUS
  <2> DEFINE Lost == {l \in Layers : l \notin Left /\ PrescribedFrom(l) = None}
             S == Left \cup Lost
  <2>1. layer \in Lost
    BY <1>1, <1>4
  <2>2. ASSUME NEW l \in Lost
        PROVE  Successors(config.layers, l) \cap S # {}
    <3>1. l \notin LeftAs("failed") /\ l # None
      BY <2>2, NoneIsNoLayer DEF Left
    <3>2. l \notin applies
      BY <2>2, <3>1, WalkAt
    <3>3. config.layers[l].next \in Layers /\ PrescribedFrom(config.layers[l].next) = None
      BY <2>2, <3>2, WalkAt
    <3>4. config.layers[l].next \in S
      BY <3>3
    <3> QED
      BY <3>3, <3>4, NoneIsNoLayer DEF Successors
  <2>3. S \in SUBSET Layers /\ S # {}
    BY <1>1, <2>1
  <2>4. \A l \in S : Successors(config.layers, l) \cap S # {}
    <3> HIDE DEF Lost
    <3> QED
      BY <1>3, <2>1, <2>2
  <2> QED
    BY <1>2, <2>3, <2>4 DEF Acyclic
<1> QED
  BY <1>4, <1>5

\* A failure changes the way of the walks that came by the layer alone: from there on
\* they take its fallback.
LEMMA FailureDiverts ==
  ASSUME NEW c \in Configs, NEW matching, NEW failed, NEW l \in Layers,
         l \in matching, l \notin failed
  PROVE  \A m \in Layers : Onward(c, matching, failed, m) = l =>
           Onward(c, matching, failed \cup {l}, m)
             = Onward(c, matching, failed \cup {l}, c.layers[l].fallback)
<1> DEFINE before(m) == Onward(c, matching, failed, m)
           after(m)  == Onward(c, matching, failed \cup {l}, m)
           goal == after(c.layers[l].fallback)
           S == {m \in Layers : before(m) = l /\ after(m) # goal}
<1> SUFFICES ASSUME S # {} PROVE FALSE
  OBVIOUS
<1>1. PICK m \in S : Successors(c.layers, m) \cap S = {}
  <2>1. Acyclic(c.layers) /\ S \in SUBSET Layers
    BY ConfigsValidated DEF Validated
  <2> HIDE DEF S
  <2> QED
    BY <2>1 DEF Acyclic
<1>2. m \in Layers /\ before(m) = l /\ after(m) # goal
  OBVIOUS
<1> DEFINE n == EdgeTaken(c, matching, m)
<1>3. before(None) = None
  BY OnwardIs
<1>4. before(m) = IF m \in matching /\ m \notin failed THEN m ELSE before(n)
  BY <1>2, OnwardIs
<1>5. after(m) = IF m \in matching /\ m \notin failed \cup {l} THEN m ELSE after(n)
  <2> DEFINE F == failed \cup {l}
  <2> HIDE DEF F
  <2> QED
    BY <1>2, OnwardIs DEF F
<1>6. m # l
  BY <1>2, <1>5 DEF EdgeTaken
<1>7. ~(m \in matching /\ m \notin failed)
  BY <1>2, <1>4, <1>6
<1>8. before(n) = l /\ after(n) # goal
  BY <1>2, <1>4, <1>5, <1>7
<1>9. n # None
  BY <1>3, <1>8, NoneIsNoLayer
<1>10. n \in S /\ n \in Successors(c.layers, m)
  <2>1. n \in Layers /\ n \in Successors(c.layers, m)
    BY <1>2, <1>9, EdgeTakenIs
  <2> QED
    BY <1>8, <2>1
<1> QED
  BY <1>1, <1>10

-----------------------------------------------------------------------------
\* Whatever edge the current layer is left along, the path stays connected.
LEMMA LeavingConnects ==
  ASSUME ConnectedInv, phase # "failed", NEW how \in {"missed", "failed"},
         config' = config, left' = left \cup {<<layer, how>>},
         layer' \in Layers, layer' = Here.next \/ layer' = Here.fallback
  PROVE  PathIsConnected'
<1>1. SUFFICES ASSUME NEW l \in Left'
               PROVE  Successors(config.layers, l) \cap (Left' \cup {layer'}) # {}
  BY <1>1 DEF PathIsConnected
<1>2. Left' = Left \cup {layer}
  BY DEF Left, LeftAs, ConnectedInv, PathTypeOK
<1>3. CASE l = layer
  BY <1>3, NoneIsNoLayer DEF Successors, Here
<1>4. CASE l \in Left
  BY <1>2, <1>4 DEF ConnectedInv, PathIsConnected
<1> QED
  BY <1>1, <1>2, <1>3, <1>4

\* A layer that has failed.
LEMMA FailureKeepsConnectedInv ==
  ASSUME ConnectedInv, phase # "failed", LayerFails
  PROVE  ConnectedInv'
<1> USE DEF LayerFails, OnFailure, Here, snapshot
<1>1. config \in Configs /\ layer \in Layers
  BY DEF ConnectedInv, PathTypeOK
<1>2. Here.fallback \in Layers \cup {None}
  BY <1>1, EdgesEnd
<1>3. CASE Here.fallback = None
  BY <1>3 DEF ConnectedInv, PathTypeOK, PathIsConnected, Done
<1>4. CASE Here.fallback # None
  <2>1. layer' = Here.fallback /\ layer' \in Layers /\ config' = config
    BY <1>2, <1>4
  <2>2. PathTypeOK'
    BY <1>4, <2>1 DEF ConnectedInv, PathTypeOK
  <2>3. PathIsConnected'
    BY <2>1, LeavingConnects
  <2> QED
    BY <2>2, <2>3 DEF ConnectedInv
<1> QED
  BY <1>3, <1>4

\* A step that stays at its layer.
LEMMA StayingKeepsConnectedInv ==
  ASSUME ConnectedInv, phase # "failed", UNCHANGED <<snapshot, layer, left>>,
         phase' \in Calls \cup {"walk", "answered"}
  PROVE  ConnectedInv'
  BY DEF ConnectedInv, PathTypeOK, PathIsConnected, Left, LeftAs,
         snapshot, Calls, Exchanges, Done

\* A filter miss goes on along next, which an unfiltered layer never needs.
LEMMA MissKeepsConnectedInv ==
  ASSUME ConnectedInv, Misses
  PROVE  ConnectedInv'
<1> USE DEF Misses, Here, snapshot
<1>1. config \in Configs /\ layer \in Layers /\ phase = "walk"
  BY DEF ConnectedInv, PathTypeOK
<1>2. config.layers[layer].filtered
  BY <1>1, EdgesEnd DEF ConnectedInv, PathTypeOK, Matching
<1>3. Here.next \in Layers
  BY <1>1, <1>2, EdgesEnd
<1>4. layer' = Here.next /\ config' = config
  OBVIOUS
<1>5. PathTypeOK'
  BY <1>1, <1>3, <1>4 DEF ConnectedInv, PathTypeOK
<1>6. PathIsConnected'
  BY <1>1, <1>3, <1>4, LeavingConnects
<1> QED
  BY <1>5, <1>6 DEF ConnectedInv

LEMMA StepKeepsConnectedInv ==
  ASSUME ConnectedInv, [Next]_vars
  PROVE  ConnectedInv'
<1>1. CASE Misses
  BY <1>1, MissKeepsConnectedInv
<1>2. CASE StartsTooLate
  BY <1>2, FailureKeepsConnectedInv DEF StartsTooLate
<1>3. CASE AsksNetworkLayer
  <2>1. Here.kind \in {"udp", "stream"}
    BY <1>3, EdgesEnd DEF ConnectedInv, PathTypeOK, Here, AsksNetworkLayer, Kinds
  <2> QED
    BY <1>3, <2>1, StayingKeepsConnectedInv
       DEF AsksNetworkLayer, Starts, Sends, Calls, Exchanges
<1>4. ASSUME NEW cached \in Discoveries \cup {<< >>}, AsksLocalLayer(cached)
      PROVE  ConnectedInv'
  BY <1>4, StayingKeepsConnectedInv
     DEF AsksLocalLayer, Starts, Discovers, AsksCandidate, Sends, Calls, Exchanges
<1>5. CASE Answered
  BY <1>5, StayingKeepsConnectedInv DEF Answered, Exchanges
<1>6. CASE Truncated
  BY <1>6, StayingKeepsConnectedInv DEF Truncated, Sends, Calls, Exchanges
<1>7. CASE NetworkExchangeFails
  BY <1>7, FailureKeepsConnectedInv DEF NetworkExchangeFails, Exchanges
<1>8. ASSUME NEW candidates, NEW seen, phase \in Calls,
             NextCandidate(candidates, seen) \/ NoCandidate(candidates)
      PROVE  ConnectedInv'
  <2>1. phase # "failed"
    BY <1>8 DEF Calls, Exchanges
  <2>2. CASE NextCandidate(candidates, seen)
    BY <2>1, <2>2, StayingKeepsConnectedInv
       DEF NextCandidate, AsksCandidate, Sends, Calls, Exchanges
  <2>3. CASE NoCandidate(candidates)
    BY <2>1, <2>3, FailureKeepsConnectedInv DEF NoCandidate
  <2> QED
    BY <1>8, <2>2, <2>3
<1>9. CASE CandidateFails
  <2>1. phase \in Calls /\ phase # "failed"
    BY <1>9 DEF CandidateFails, Calls, Exchanges
  <2>2. CASE NextCandidate(pool, known) \/ NoCandidate(pool)
    BY <1>8, <2>1, <2>2
  <2>3. CASE Discovers /\ UNCHANGED <<snapshot, now, layer, layerEnd, known, left>>
    BY <2>1, <2>3, StayingKeepsConnectedInv DEF Discovers, Calls
  <2> QED
    BY <1>9, <2>2, <2>3 DEF CandidateFails
<1>10. ASSUME NEW discovered \in Discoveries, Rediscovers(discovered)
       PROVE  ConnectedInv'
  BY <1>8, <1>10 DEF Rediscovers, Calls
<1>11. CASE DiscoveryFails
  BY <1>8, <1>11 DEF DiscoveryFails, Calls
<1>12. CASE Tick
  BY <1>12, StayingKeepsConnectedInv DEF Tick, ConnectedInv, PathTypeOK, Done
<1>13. CASE UNCHANGED vars
  BY <1>13 DEF vars, ConnectedInv, PathTypeOK, PathIsConnected, Left, LeftAs
<1> QED
  BY <1>1, <1>2, <1>3, <1>4, <1>5, <1>6, <1>7, <1>9, <1>10, <1>11, <1>12, <1>13
     DEF Next

-----------------------------------------------------------------------------
\* What a step may do to the path, apart from leaving a layer.
LEMMA StayingFollows ==
  ASSUME PathInv, phase # "failed", UNCHANGED <<snapshot, layer, left>>,
         phase' # "failed", phase' \in Calls \cup {"answered"} => layer \in applies
  PROVE  PathIsFollowed'
  BY DEF PathInv, PathIsFollowed, Destination, PrescribedFrom, LeftAs, snapshot

LEMMA FailureFollows ==
  ASSUME PathInv, phase # "failed", layer \in applies, LayerFails
  PROVE  PathIsFollowed'
<1> USE DEF PathInv
<1>1. /\ config \in Configs /\ config' = config /\ applies' = applies
      /\ layer \in Layers /\ config.entry \in Layers
  BY ConfigsValidated DEF PathTypeOK, LayerFails, snapshot, Validated
<1>2. LeftAs("failed")' = LeftAs("failed") \cup {layer}
  BY <1>1 DEF LeftAs, LayerFails
<1>3. layer \notin LeftAs("failed")
  BY SomeLayerIsAhead DEF ConnectedInv, Left
<1>4. PrescribedFrom(config.entry) = layer
  BY <1>1, <1>3, WalkAt DEF PathIsFollowed, Destination
<1>5. Onward(config, applies, LeftAs("failed"), config.entry) = layer
  BY <1>4 DEF PrescribedFrom
<1>6. \A l : PrescribedFrom(l)' = Onward(config, applies, LeftAs("failed") \cup {layer}, l')
  BY <1>1, <1>2 DEF PrescribedFrom
<1>7. Destination' = Onward(config, applies, LeftAs("failed") \cup {layer}, Here.fallback)
  <2>1. Destination' = Onward(config, applies, LeftAs("failed") \cup {layer}, config.entry)
    BY <1>1, <1>2 DEF Destination, PrescribedFrom
  <2>2. \A m \in Layers : Onward(config, applies, LeftAs("failed"), m) = layer =>
          Onward(config, applies, LeftAs("failed") \cup {layer}, m)
            = Onward(config, applies, LeftAs("failed") \cup {layer}, config.layers[layer].fallback)
    BY <1>1, <1>3, FailureDiverts
  <2> QED
    BY <1>1, <1>5, <2>1, <2>2 DEF Here
<1>8. CASE Here.fallback = None
  <2>1. phase' = "failed"
    BY <1>8 DEF LayerFails, OnFailure
  <2>2. Destination' = None
    <3> DEFINE F == LeftAs("failed") \cup {layer}
    <3> HIDE DEF F
    <3>1. Onward(config, applies, F, None) = None
      BY <1>1, OnwardIs
    <3> QED
      BY <1>7, <1>8, <3>1 DEF F
  <2> QED
    BY <2>1, <2>2 DEF PathIsFollowed, Calls, Exchanges
<1>9. CASE Here.fallback # None
  <2>1. phase' = "walk" /\ layer' = Here.fallback
    BY <1>9 DEF LayerFails, OnFailure
  <2>2. PrescribedFrom(layer)' = Destination'
    BY <1>1, <1>2, <1>7, <2>1 DEF PrescribedFrom
  <2> QED
    BY <2>1, <2>2 DEF PathIsFollowed, Calls, Exchanges
<1> QED
  BY <1>8, <1>9

LEMMA MissFollows ==
  ASSUME PathInv, Misses
  PROVE  PathIsFollowed'
<1> USE DEF PathInv
<1>1. /\ config' = config /\ applies' = applies /\ layer' = config.layers[layer].next
      /\ phase = "walk" /\ phase' = "walk" /\ layer \in Layers /\ layer \notin applies
  BY DEF PathTypeOK, Misses, snapshot, Here
<1>2. LeftAs("failed")' = LeftAs("failed")
  BY DEF LeftAs, Misses
<1>3. PrescribedFrom(layer) = PrescribedFrom(config.layers[layer].next)
  BY <1>1, WalkAt
<1>4. PrescribedFrom(layer)' = PrescribedFrom(config.layers[layer].next)
  BY <1>1, <1>2 DEF PrescribedFrom
<1>5. Destination' = Destination
  BY <1>1, <1>2 DEF Destination, PrescribedFrom
<1> QED
  BY <1>1, <1>3, <1>4, <1>5 DEF PathIsFollowed, Calls, Exchanges

LEMMA StepFollows ==
  ASSUME PathInv, [Next]_vars
  PROVE  PathIsFollowed'
<1> USE DEF PathInv
<1>1. CASE Misses
  BY <1>1, MissFollows
<1>2. CASE StartsTooLate
  BY <1>2, FailureFollows DEF StartsTooLate
<1>3. CASE AsksNetworkLayer
  <2>1. Here.kind \in {"udp", "stream"}
    BY <1>3, EdgesEnd DEF PathTypeOK, Here, AsksNetworkLayer, Kinds
  <2> QED
    BY <1>3, <2>1, StayingFollows DEF AsksNetworkLayer, Starts, Sends
<1>4. ASSUME NEW cached \in Discoveries \cup {<< >>}, AsksLocalLayer(cached)
      PROVE  PathIsFollowed'
  BY <1>4, StayingFollows DEF AsksLocalLayer, Starts, Discovers, AsksCandidate, Sends
<1>5. CASE phase \in Exchanges /\ (Answered \/ Truncated)
  <2>1. layer \in applies /\ phase # "failed"
    BY <1>5 DEF PathIsFollowed, Calls, Exchanges
  <2> QED
    BY <1>5, <2>1, StayingFollows DEF Answered, Truncated, Sends
<1>6. CASE NetworkExchangeFails
  <2>1. layer \in applies /\ phase # "failed"
    BY <1>6 DEF PathIsFollowed, Calls, NetworkExchangeFails, Exchanges
  <2> QED
    BY <1>6, <2>1, FailureFollows DEF NetworkExchangeFails
<1>7. ASSUME NEW candidates, NEW seen, phase \in Calls,
             NextCandidate(candidates, seen) \/ NoCandidate(candidates)
      PROVE  PathIsFollowed'
  <2>1. layer \in applies /\ phase # "failed"
    BY <1>7 DEF PathIsFollowed, Calls, Exchanges
  <2>2. CASE NextCandidate(candidates, seen)
    BY <2>1, <2>2, StayingFollows DEF NextCandidate, AsksCandidate, Sends
  <2>3. CASE NoCandidate(candidates)
    BY <2>1, <2>3, FailureFollows DEF NoCandidate
  <2> QED
    BY <1>7, <2>2, <2>3
<1>8. CASE CandidateFails
  <2>1. layer \in applies /\ phase # "failed" /\ phase \in Calls
    BY <1>8 DEF PathIsFollowed, Calls, CandidateFails, Exchanges
  <2>2. CASE NextCandidate(pool, known) \/ NoCandidate(pool)
    BY <1>7, <2>1, <2>2
  <2>3. CASE Discovers /\ UNCHANGED <<snapshot, now, layer, layerEnd, known, left>>
    BY <2>1, <2>3, StayingFollows DEF Discovers
  <2> QED
    BY <1>8, <2>2, <2>3 DEF CandidateFails
<1>9. ASSUME NEW discovered \in Discoveries, Rediscovers(discovered)
      PROVE  PathIsFollowed'
  BY <1>7, <1>9 DEF Rediscovers, Calls
<1>10. CASE DiscoveryFails
  BY <1>7, <1>10 DEF DiscoveryFails, Calls
<1>11. CASE Tick
  <2>1. phase # "failed" /\ phase' = phase
    BY <1>11 DEF Tick, Done
  <2> QED
    BY <1>11, <2>1, StayingFollows DEF Tick, PathIsFollowed
<1>12. CASE UNCHANGED vars
  BY <1>12 DEF vars, PathIsFollowed, Destination, PrescribedFrom, LeftAs
<1> QED
  BY <1>1, <1>2, <1>3, <1>4, <1>5, <1>6, <1>8, <1>9, <1>10, <1>11, <1>12
     DEF Next, Answered, Truncated, Exchanges

LEMMA PathInvInit ==
  ASSUME Init
  PROVE  PathInv
<1>1. PathTypeOK /\ PathIsConnected
  BY ConfigsValidated DEF Init, Validated, PathTypeOK, PathIsConnected, Left, LeftAs
<1>2. PathIsFollowed
  BY DEF Init, PathIsFollowed, Destination, Calls, Exchanges
<1> QED
  BY <1>1, <1>2 DEF PathInv

\* The request is always at a layer of its configuration, has left only layers
\* of it, and is on the one path its filters and failures prescribe.
THEOREM PathInvariance == Spec => []PathInv
<1>1. PathInv /\ [Next]_vars => PathInv'
  BY StepKeepsConnectedInv, StepFollows DEF PathInv, ConnectedInv
<1> QED
  BY PathInvInit, <1>1, PTL DEF Spec

\* No request comes back to a layer it has left: for every validated
\* configuration and whatever the upstreams do, query_layers visits a layer at
\* most once.
THEOREM NoLayerTwice == Spec => []NeverRevisited
<1>1. PathInv => NeverRevisited
  BY SomeLayerIsAhead DEF PathInv, ConnectedInv, NeverRevisited
<1> QED
  BY <1>1, PathInvariance, PTL

\* The layer that answers is the one the request's filters and the failures single
\* out, in every validated configuration, and SERVFAIL is returned only if they
\* single out none.
THEOREM PathPrescribed == Spec => []PathIsPrescribed
<1>1. PathInv => PathIsPrescribed
  <2> SUFFICES ASSUME PathInv PROVE PathIsPrescribed
    OBVIOUS
  <2> USE DEF PathInv
  <2>1. phase # "failed" => layer \notin LeftAs("failed") /\ PrescribedFrom(layer) # None
    BY SomeLayerIsAhead DEF ConnectedInv, Left
  <2>2. phase # "failed" /\ layer \in applies => PrescribedFrom(layer) = layer
    BY <2>1, WalkAt DEF PathTypeOK
  <2> QED
    BY <2>1, <2>2 DEF PathIsPrescribed, PathIsFollowed, Calls, Exchanges
<1> QED
  BY <1>1, PathInvariance, PTL

-----------------------------------------------------------------------------
(* The calls.                                                               *)

\* A candidate's share of the time left is neither nothing nor more than is left.
LEMMA ShareIsPart ==
  ASSUME NEW remaining \in Nat \ {0}, NEW targets \in Nat \ {0}
  PROVE  Share(remaining, targets) \in 1 .. remaining
<1> DEFINE q == (remaining + targets - 1) \div targets
<1>1. q \in Int
  OBVIOUS
<1>2. q * targets <= remaining + targets - 1 /\ remaining + targets - 1 < (q + 1) * targets
  OBVIOUS
<1> HIDE DEF q
<1>3. q >= 1
  <2> SUFFICES ASSUME q <= 0 PROVE FALSE
    BY <1>1
  <2>1. (q + 1) * targets <= targets
    BY <1>1
  <2> QED
    BY <1>1, <1>2, <2>1
<1>4. q <= remaining
  <2> SUFFICES ASSUME q >= remaining + 1 PROVE FALSE
    BY <1>1
  <2>1. q * targets >= (remaining + 1) * targets
    BY <1>1
  <2>2. (remaining + 1) * targets = remaining * targets + targets
    OBVIOUS
  <2>3. remaining * targets >= remaining
    OBVIOUS
  <2> QED
    BY <1>1, <1>2, <2>1, <2>2, <2>3
<1> QED
  BY <1>1, <1>3, <1>4 DEF Share, q

\* What a deadline is worth.
LEMMA LayerDeadlineIs ==
  ASSUME TypeOK, now < config.timeout
  PROVE  LayerDeadline \in Nat /\ now < LayerDeadline /\ LayerDeadline <= config.timeout
<1>1. Validated(config)
  BY ConfigsValidated DEF TypeOK, PathTypeOK
<1>2. Here.timeout \in Nat \ {0} /\ config.timeout \in Nat
  BY <1>1 DEF Validated, LayerConfigs, Here, TypeOK, PathTypeOK
<1> QED
  BY <1>2 DEF LayerDeadline, TypeOK

\* A connected path does not come back, whatever the state that describes it.
EdgesStayIn(c, S, l) == \A m \in S : Successors(c.layers, m) \cap (S \cup {l}) # {}

LEMMA ConnectedIsOnward ==
  ASSUME NEW c \in Configs, NEW S \in SUBSET Layers, NEW l \in Layers, EdgesStayIn(c, S, l)
  PROVE  l \notin S
<1>1. Acyclic(c.layers)
  BY ConfigsValidated DEF Validated
<1> SUFFICES ASSUME l \in S PROVE FALSE
  OBVIOUS
<1>2. \A m \in S : Successors(c.layers, m) \cap S # {}
  BY DEF EdgesStayIn
<1> QED
  BY <1>1, <1>2 DEF Acyclic

\* A sequence without repetitions whose addresses are known and not yet asked.
Waits(candidates, seen) ==
  /\ candidates \in Seq(Resolvers)
  /\ \A i, j \in DOMAIN candidates : candidates[i] = candidates[j] => i = j
  /\ seen = Asked \cup AddressesIn(candidates)
  /\ Asked \cap AddressesIn(candidates) = {}
  /\ \A r \in Asked : <<layer, r, "udp">> \in made

LEMMA ExtendedWaits ==
  ASSUME NEW discovered \in Discoveries, Waits(pool, known)
  PROVE  Waits(Extended(discovered), known \cup AddressesIn(discovered))
<1> DEFINE I == {i \in DOMAIN discovered : discovered[i] \notin known}
           new == Subsequence(discovered, I)
           candidates == pool \o new
<1> USE DEF Waits
<1>1. /\ discovered \in Seq(Resolvers)
      /\ \A i, j \in DOMAIN discovered : discovered[i] = discovered[j] => i = j
  BY DiscoveriesOK
<1>2. I \in SUBSET DOMAIN discovered
  OBVIOUS
<1>3. /\ new \in Seq(Resolvers)
      /\ \A k \in DOMAIN new : \E i \in I : new[k] = discovered[i]
      /\ \A i \in I : \E k \in DOMAIN new : new[k] = discovered[i]
  <2> HIDE DEF I
  <2> QED
    BY <1>1, <1>2, SubsequenceIs
<1>4. \A k, m \in DOMAIN new : new[k] = new[m] => k = m
  <2> HIDE DEF I
  <2> QED
    BY <1>1, <1>2, SubsequenceInjective
<1> HIDE DEF new
<1>5. \A a \in AddressesIn(new) : a \notin known /\ a \in AddressesIn(discovered)
  BY <1>3 DEF AddressesIn
<1>6. \A a \in AddressesIn(discovered) : a \in known \/ a \in AddressesIn(new)
  BY <1>3 DEF AddressesIn
<1>7. /\ candidates \in Seq(Resolvers)
      /\ DOMAIN pool = 1 .. Len(pool) /\ DOMAIN new = 1 .. Len(new)
      /\ Len(pool) \in Nat /\ Len(new) \in Nat
      /\ DOMAIN candidates = 1 .. Len(pool) + Len(new)
      /\ \A i \in 1 .. Len(pool) : candidates[i] = pool[i]
      /\ \A i \in Len(pool) + 1 .. Len(pool) + Len(new) : candidates[i] = new[i - Len(pool)]
  BY <1>3
<1>8. \A i \in DOMAIN candidates :
        \/ i \in DOMAIN pool /\ candidates[i] = pool[i]
        \/ /\ i \notin DOMAIN pool /\ i - Len(pool) \in DOMAIN new
           /\ candidates[i] = new[i - Len(pool)]
  BY <1>7
<1>9. \A k \in DOMAIN new : k + Len(pool) \in DOMAIN candidates /\ candidates[k + Len(pool)] = new[k]
  BY <1>7
<1>10. \A k \in DOMAIN pool : k \in DOMAIN candidates /\ candidates[k] = pool[k]
  BY <1>7
<1>11. AddressesIn(candidates) = AddressesIn(pool) \cup AddressesIn(new)
  <2> HIDE DEF candidates
  <2>1. AddressesIn(candidates) \subseteq AddressesIn(pool) \cup AddressesIn(new)
    BY <1>8 DEF AddressesIn
  <2>2. AddressesIn(pool) \subseteq AddressesIn(candidates)
    BY <1>10 DEF AddressesIn
  <2>3. AddressesIn(new) \subseteq AddressesIn(candidates)
    BY <1>9 DEF AddressesIn
  <2> QED
    BY <2>1, <2>2, <2>3
<1>12. \A i, j \in DOMAIN candidates : candidates[i] = candidates[j] => i = j
  <2>1. \A i \in DOMAIN pool, k \in DOMAIN new : pool[i] # new[k]
    BY <1>5 DEF AddressesIn
  <2> SUFFICES ASSUME NEW i \in DOMAIN candidates, NEW j \in DOMAIN candidates,
                      candidates[i] = candidates[j]
               PROVE  i = j
    OBVIOUS
  <2>2. i \in Int /\ j \in Int /\ Len(pool) \in Int
    BY <1>7
  <2>3. i \in DOMAIN pool <=> j \in DOMAIN pool
    <3> HIDE DEF candidates
    <3> QED
      BY <1>8, <2>1
  <2>4. CASE i \in DOMAIN pool
    <3> HIDE DEF candidates
    <3> QED
      BY <1>8, <2>3, <2>4
  <2>5. CASE i \notin DOMAIN pool
    <3> HIDE DEF candidates
    <3>1. i - Len(pool) = j - Len(pool)
      BY <1>4, <1>8, <2>3, <2>5
    <3> QED
      BY <2>2, <3>1
  <2> QED
    BY <2>4, <2>5
<1>13. Extended(discovered) = candidates
  BY DEF Extended, new
<1> HIDE DEF candidates
<1> QED
  BY <1>5, <1>6, <1>7, <1>11, <1>12, <1>13

\* Who is asked when the layer's call is one more.
LEMMA AskedGrows ==
  ASSUME NEW to, NEW transport, layer' = layer,
         made' = made \cup {<<layer, to, transport>>}
  PROVE  /\ transport \in Exchanges =>
              Asked' = Asked \cup ({to} \cap Resolvers)
         /\ transport \notin Exchanges => Asked' = Asked
  BY DEF Asked

LEMMA FirstAndRest ==
  ASSUME NEW V, NEW s \in Seq(V), s # << >>,
         \A i, j \in DOMAIN s : s[i] = s[j] => i = j
  PROVE  /\ Head(s) \in V /\ Tail(s) \in Seq(V)
         /\ AddressesIn(s) = {Head(s)} \cup AddressesIn(Tail(s))
         /\ Head(s) \notin AddressesIn(Tail(s))
         /\ \A i, j \in DOMAIN Tail(s) : Tail(s)[i] = Tail(s)[j] => i = j
<1>1. /\ Len(s) \in Nat \ {0} /\ DOMAIN s = 1 .. Len(s)
      /\ DOMAIN Tail(s) = 1 .. Len(s) - 1 /\ Tail(s) \in Seq(V)
      /\ \A i \in 1 .. Len(s) - 1 : Tail(s)[i] = s[i + 1]
      /\ Head(s) = s[1] /\ Head(s) \in V
  OBVIOUS
<1>2. AddressesIn(s) = {Head(s)} \cup AddressesIn(Tail(s))
  <2>1. \A i \in DOMAIN s : i = 1 \/ (i - 1 \in DOMAIN Tail(s) /\ Tail(s)[i - 1] = s[i])
    BY <1>1
  <2>2. \A i \in DOMAIN Tail(s) : i + 1 \in DOMAIN s /\ Tail(s)[i] = s[i + 1]
    BY <1>1
  <2>3. 1 \in DOMAIN s
    BY <1>1
  <2>4. AddressesIn(s) \subseteq {Head(s)} \cup AddressesIn(Tail(s))
    <3> SUFFICES ASSUME NEW i \in DOMAIN s
                 PROVE  s[i] = Head(s) \/ s[i] \in AddressesIn(Tail(s))
      BY DEF AddressesIn
    <3>1. CASE i = 1
      BY <1>1, <3>1
    <3>2. CASE i # 1
      BY <2>1, <3>2 DEF AddressesIn
    <3> QED
      BY <3>1, <3>2
  <2>5. AddressesIn(Tail(s)) \subseteq AddressesIn(s)
    BY <2>2 DEF AddressesIn
  <2>6. Head(s) \in AddressesIn(s)
    BY <1>1, <2>3 DEF AddressesIn
  <2> QED
    BY <2>4, <2>5, <2>6
<1>3. Head(s) \notin AddressesIn(Tail(s))
  <2> SUFFICES ASSUME NEW i \in DOMAIN Tail(s), Tail(s)[i] = Head(s) PROVE FALSE
    BY DEF AddressesIn
  <2>1. i + 1 \in DOMAIN s /\ 1 \in DOMAIN s /\ s[i + 1] = s[1] /\ i \in Nat \ {0}
    BY <1>1
  <2>2. i + 1 = 1
    BY <2>1
  <2> QED
    BY <2>1, <2>2
<1>4. ASSUME NEW i \in DOMAIN Tail(s), NEW j \in DOMAIN Tail(s), Tail(s)[i] = Tail(s)[j]
      PROVE  i = j
  <2>1. i + 1 \in DOMAIN s /\ j + 1 \in DOMAIN s /\ s[i + 1] = s[j + 1] /\ i \in Nat /\ j \in Nat
    BY <1>1, <1>4
  <2>2. i + 1 = j + 1
    BY <2>1
  <2> QED
    BY <2>1, <2>2
<1> QED
  BY <1>1, <1>2, <1>3, <1>4

LEMMA TimeIsLeft ==
  ASSUME NEW start \in Nat, NEW end \in Nat, start < end
  PROVE  end - start \in Nat \ {0}
OBVIOUS

\* The first of the candidates that wait is asked.
LEMMA AskingKeepsCallInv ==
  ASSUME CallInv, phase # "failed", Here.kind = "local",
         UNCHANGED <<snapshot, now, layer, left>>,
         NEW candidates, NEW seen, Waits(candidates, seen), candidates # << >>,
         now < layerEnd', layerEnd' <= config.timeout, layerEnd' \in Nat,
         AsksCandidate(candidates, layerEnd'), known' = seen,
         refreshed' \in BOOLEAN, refreshed' <=> <<layer, layer, "discovery">> \in made
  PROVE  /\ CallInv'
         /\ <<layer, endpoint', "udp">> \notin made
<1> USE DEF CallInv, Waits, AsksCandidate, Sends, snapshot
<1> DEFINE first == Head(candidates)
<1>0. now \in Nat /\ now' = now /\ layerEnd' \in Nat /\ now < layerEnd'
  BY DEF TypeOK
<1>1. /\ first \in Resolvers /\ pool' \in Seq(Resolvers)
      /\ AddressesIn(candidates) = {first} \cup AddressesIn(pool')
      /\ first \notin AddressesIn(pool')
      /\ \A i, j \in DOMAIN pool' : pool'[i] = pool'[j] => i = j
  BY FirstAndRest
<1>2. Asked' = Asked \cup {first}
  <2>1. made' = made \cup {<<layer, first, "udp">>} /\ layer' = layer /\ "udp" \in Exchanges
    BY DEF Exchanges
  <2> HIDE DEF first
  <2>2. Asked' = Asked \cup ({first} \cap Resolvers)
    BY <2>1, AskedGrows
  <2> QED
    BY <1>1, <2>2 DEF first
<1>3. first \notin Asked
  BY <1>1
<1>4. /\ endpointEnd' \in Nat /\ now <= endpointEnd' /\ endpointEnd' <= layerEnd'
  <2>1. layerEnd' - now \in Nat \ {0}
    BY <1>0, TimeIsLeft
  <2>2. Len(candidates) \in Nat \ {0}
    OBVIOUS
  <2>3. Share(layerEnd' - now, Len(candidates)) \in 1 .. layerEnd' - now
    BY <2>1, <2>2, ShareIsPart
  <2>4. endpointEnd' = now + Share(layerEnd' - now, Len(candidates))
    OBVIOUS
  <2> QED
    BY <1>0, <2>3, <2>4
<1>5. made' = made \cup {<<layer, first, "udp">>}
  OBVIOUS
<1>6. PathTypeOK'
  BY DEF TypeOK, PathTypeOK, Calls, Exchanges
<1>7. TypeOK'
  <2>1. known' \subseteq Resolvers
    BY DEF AddressesIn, Asked
  <2>2. made' \subseteq Layers \X (Layers \cup Resolvers) \X Calls
    BY <1>1, <1>5 DEF TypeOK, PathTypeOK, Calls, Exchanges
  <2> QED
    BY <1>1, <1>4, <1>6, <2>1, <2>2 DEF TypeOK
<1>8. Left' = Left
  BY DEF Left, LeftAs
<1>9. PathIsConnected'
  BY <1>8 DEF PathIsConnected
<1>10. DeadlinesNest' /\ DeadlineIsKept'
  <2>1. config.timeout \in Nat /\ now' \in Nat /\ now' = now /\ config' = config
    BY ConfigsValidated DEF TypeOK, PathTypeOK, Validated
  <2>2. now' <= layerEnd' /\ layerEnd' <= config'.timeout /\ now' <= config'.timeout
    BY <2>1
  <2> QED
    BY <1>4, <2>1, <2>2 DEF DeadlinesNest, DeadlineIsKept
<1>11. <<layer, first, "udp">> \notin made /\ <<layer, first, "tcp">> \notin made
  BY <1>1, <1>3 DEF Asked, Exchanges
<1>12. CallsAreOnThePath'
  <2>1. \A c \in made' : c[1] \in Left \cup {layer}
    BY <1>5 DEF CallsAreOnThePath
  <2>2. <<layer, first, "tcp">> \notin made'
    BY <1>5, <1>11
  <2> QED
    BY <1>8, <2>1, <2>2 DEF CallsAreOnThePath
<1>13. Here' = Here
  BY DEF Here
<1>14. CandidatesAreKnown'
  <2>1. known' = Asked' \cup AddressesIn(pool')
    BY <1>1, <1>2
  <2>2. Asked' \cap AddressesIn(pool') = {}
    BY <1>1, <1>2
  <2>3. \A r \in Asked' : <<layer, r, "udp">> \in made'
    BY <1>2, <1>5
  <2>4. refreshed' <=> <<layer, layer, "discovery">> \in made'
    BY <1>5
  <2>5. endpoint' \in Asked'
    BY <1>2
  <2>6. AddressesIn(pool)' = AddressesIn(pool')
    BY DEF AddressesIn
  <2>7. phase' = "udp" /\ layer' = layer
    OBVIOUS
  <2> QED
    BY <1>1, <1>13, <2>1, <2>2, <2>3, <2>4, <2>5, <2>6, <2>7 DEF CandidatesAreKnown
<1> QED
  BY <1>7, <1>9, <1>10, <1>11, <1>12, <1>14

\* A layer that has failed keeps nothing for the next.
LEMMA FailureKeepsCallInv ==
  ASSUME CallInv, phase # "failed", LayerFails
  PROVE  CallInv'
<1> USE DEF CallInv
<1>1. ConnectedInv /\ ConnectedInv'
  BY FailureKeepsConnectedInv DEF ConnectedInv, TypeOK
<1>2. /\ config' = config /\ now' = now /\ endpoint' = endpoint /\ layerEnd' = layerEnd
      /\ endpointEnd' = endpointEnd /\ made' = made /\ layer \in Layers /\ config \in Configs
      /\ pool' = << >> /\ known' = {} /\ ~refreshed' /\ refreshed' \in BOOLEAN
      /\ phase' \in {"failed", "walk"} /\ (phase' = "failed" => layer' = layer)
  BY DEF LayerFails, snapshot, TypeOK, PathTypeOK
<1>3. TypeOK'
  BY <1>1, <1>2 DEF ConnectedInv, TypeOK
<1>4. Left' = Left \cup {layer} /\ Left' \in SUBSET Layers
  BY <1>2 DEF LayerFails, Left, LeftAs, TypeOK, PathTypeOK
<1>5. phase' = "walk" => layer' \notin Left'
  <2> SUFFICES ASSUME phase' = "walk" PROVE layer' \notin Left'
    OBVIOUS
  <2>1. EdgesStayIn(config, Left', layer')
    BY <1>1, <1>2 DEF ConnectedInv, PathIsConnected, EdgesStayIn
  <2>2. layer' \in Layers
    BY <1>1 DEF ConnectedInv, PathTypeOK
  <2> QED
    BY <1>2, <1>4, <2>1, <2>2, ConnectedIsOnward
<1>6. CallsAreOnThePath'
  <2>1. \A c \in made : c[1] \in Left'
    BY <1>4 DEF CallsAreOnThePath
  <2> QED
    BY <1>2, <1>5, <2>1 DEF CallsAreOnThePath
<1>7. CandidatesAreKnown'
  BY <1>2 DEF CandidatesAreKnown, Calls, Exchanges
<1>8. DeadlinesNest' /\ DeadlineIsKept'
  BY <1>2 DEF DeadlinesNest, DeadlineIsKept, Calls, Exchanges
<1> QED
  BY <1>1, <1>3, <1>6, <1>7, <1>8 DEF ConnectedInv

\* A miss: nothing is kept and nothing was called.
LEMMA MissKeepsCallInv ==
  ASSUME CallInv, Misses
  PROVE  CallInv'
<1> USE DEF CallInv
<1>1. ConnectedInv /\ ConnectedInv'
  BY MissKeepsConnectedInv DEF ConnectedInv, TypeOK
<1>2. /\ config' = config /\ now' = now /\ endpoint' = endpoint /\ layerEnd' = layerEnd
      /\ endpointEnd' = endpointEnd /\ made' = made /\ layer \in Layers /\ config \in Configs
      /\ UNCHANGED <<pool, known, refreshed>> /\ phase = "walk" /\ phase' = "walk"
  BY DEF Misses, local, snapshot, TypeOK, PathTypeOK
<1>3. TypeOK'
  BY <1>1, <1>2 DEF ConnectedInv, TypeOK
<1>4. Left' = Left \cup {layer} /\ Left' \in SUBSET Layers
  BY <1>2 DEF Misses, Left, LeftAs, TypeOK, PathTypeOK
<1>5. layer' \notin Left'
  <2>1. EdgesStayIn(config, Left', layer')
    BY <1>1, <1>2 DEF ConnectedInv, PathIsConnected, EdgesStayIn
  <2>2. layer' \in Layers
    BY <1>1 DEF ConnectedInv, PathTypeOK
  <2> QED
    BY <1>2, <1>4, <2>1, <2>2, ConnectedIsOnward
<1>6. CallsAreOnThePath'
  <2>1. \A c \in made : c[1] \in Left'
    BY <1>4 DEF CallsAreOnThePath
  <2> QED
    BY <1>2, <1>5, <2>1 DEF CallsAreOnThePath
<1>7. CandidatesAreKnown'
  BY <1>2 DEF CandidatesAreKnown, Calls, Exchanges
<1>8. DeadlinesNest' /\ DeadlineIsKept'
  BY <1>2 DEF DeadlinesNest, DeadlineIsKept, Calls, Exchanges
<1> QED
  BY <1>1, <1>3, <1>6, <1>7, <1>8 DEF ConnectedInv

\* A layer that is reached has called nobody.
LEMMA ReachedIsUncalled ==
  ASSUME CallInv, phase = "walk"
  PROVE  Asked = {} /\ \A to, transport : <<layer, to, transport>> \notin made
  BY DEF CallInv, CallsAreOnThePath, Asked

LEMMA NetworkLayerKeepsCallInv ==
  ASSUME CallInv, AsksNetworkLayer
  PROVE  CallInv'
<1> USE DEF CallInv, AsksNetworkLayer, Starts, Sends, snapshot, local
<1>1. Here.kind \in {"udp", "stream"} /\ Here' = Here
  BY EdgesEnd DEF TypeOK, PathTypeOK, Here, Kinds
<1>2. ConnectedInv /\ ConnectedInv'
  BY <1>1, StayingKeepsConnectedInv DEF ConnectedInv, TypeOK, Calls, Exchanges
<1>3. now < LayerDeadline /\ LayerDeadline <= config.timeout /\ LayerDeadline \in Nat
  BY LayerDeadlineIs
<1>4. TypeOK'
  <2>1. made' \subseteq Layers \X (Layers \cup Resolvers) \X Calls /\ endpoint' \in Layers
    BY <1>1 DEF TypeOK, PathTypeOK, Calls, Exchanges
  <2> QED
    BY <1>2, <1>3, <2>1 DEF TypeOK, ConnectedInv
<1>5. DeadlinesNest' /\ DeadlineIsKept'
  <2>1. now \in Nat /\ now' = now /\ config' = config /\ config.timeout \in Nat
    BY ConfigsValidated DEF TypeOK, PathTypeOK, Validated
  <2> QED
    BY <1>3, <2>1 DEF DeadlinesNest, DeadlineIsKept
<1>6. CallsAreOnThePath'
  <2>1. Left' = Left
    BY DEF Left, LeftAs
  <2>2. <<layer, layer, "tcp">> \notin made'
    BY <1>1, ReachedIsUncalled
  <2> QED
    BY <1>1, <2>1, <2>2 DEF CallsAreOnThePath
<1>7. CandidatesAreKnown'
  BY <1>1 DEF CandidatesAreKnown
<1> QED
  BY <1>2, <1>4, <1>5, <1>6, <1>7 DEF ConnectedInv

\* A rediscovery begins.
LEMMA DiscoveringKeepsCallInv ==
  ASSUME CallInv, phase # "failed", Here.kind = "local", Discovers,
         UNCHANGED <<snapshot, now, layer, left>>,
         layerEnd' \in Nat, now <= layerEnd', layerEnd' <= config.timeout,
         Waits(pool, known')
  PROVE  CallInv'
<1> USE DEF CallInv, Discovers, snapshot, Waits
<1>1. Here' = Here
  BY DEF Here
<1>2. Asked' = Asked
  BY DEF Asked, Exchanges
<1>3. PathTypeOK' /\ Left' = Left
  BY DEF TypeOK, PathTypeOK, Calls, Left, LeftAs
<1>4. TypeOK'
  <2>1. made' \subseteq Layers \X (Layers \cup Resolvers) \X Calls
    BY DEF TypeOK, PathTypeOK, Calls
  <2>2. known' \subseteq Resolvers
    BY DEF AddressesIn, Asked
  <2> QED
    BY <1>3, <2>1, <2>2 DEF TypeOK
<1>5. PathIsConnected'
  BY <1>3 DEF PathIsConnected
<1>6. DeadlinesNest' /\ DeadlineIsKept'
  <2>1. now \in Nat /\ now' = now /\ config' = config /\ config.timeout \in Nat
    BY ConfigsValidated DEF TypeOK, PathTypeOK, Validated
  <2>2. phase' = "discovery" /\ now <= config.timeout
    BY <2>1
  <2> QED
    BY <2>1, <2>2 DEF DeadlinesNest, DeadlineIsKept, Exchanges
<1>7. CallsAreOnThePath'
  BY <1>3 DEF CallsAreOnThePath
<1>8. CandidatesAreKnown'
  <2>1. AddressesIn(pool)' = AddressesIn(pool) /\ pool' = pool
    BY DEF AddressesIn
  <2> QED
    BY <1>1, <1>2, <2>1 DEF CandidatesAreKnown, Exchanges
<1> QED
  BY <1>4, <1>5, <1>6, <1>7, <1>8

LEMMA LocalLayerKeepsCallInv ==
  ASSUME CallInv, NEW cached \in Discoveries \cup {<< >>}, AsksLocalLayer(cached)
  PROVE  CallInv'
<1> USE DEF AsksLocalLayer, Starts
<1>1. now < LayerDeadline /\ LayerDeadline <= config.timeout /\ LayerDeadline \in Nat
  BY LayerDeadlineIs DEF CallInv
<1>2. Asked = {} /\ \A to, transport : <<layer, to, transport>> \notin made
  BY ReachedIsUncalled
<1>3. Waits(cached, AddressesIn(cached))
  <2>1. cached \in Seq(Resolvers)
    <3>1. << >> \in Seq(Resolvers)
      OBVIOUS
    <3> QED
      BY <3>1, DiscoveriesOK
  <2>2. \A i, j \in DOMAIN cached : cached[i] = cached[j] => i = j
    BY DiscoveriesOK
  <2> QED
    BY <1>2, <2>1, <2>2 DEF Waits
<1>4. pool = << >> /\ refreshed = FALSE
  BY DEF CallInv, CandidatesAreKnown, TypeOK
<1>5. known' = AddressesIn(cached) /\ layerEnd' = LayerDeadline /\ phase = "walk"
  BY DEF AddressesIn
<1>6. CASE cached = << >> /\ Discovers
  <2>1. Waits(pool, known')
    BY <1>3, <1>4, <1>5, <1>6
  <2>2. now \in Nat
    BY DEF CallInv, TypeOK
  <2> QED
    BY <1>1, <1>5, <1>6, <2>1, <2>2, DiscoveringKeepsCallInv
<1>7. CASE cached # << >> /\ AsksCandidate(cached, LayerDeadline) /\ UNCHANGED refreshed
  <2>1. AsksCandidate(cached, layerEnd') /\ now < layerEnd' /\ layerEnd' <= config.timeout
        /\ layerEnd' \in Nat
    BY <1>1, <1>5, <1>7
  <2>2. refreshed' \in BOOLEAN /\ (refreshed' <=> <<layer, layer, "discovery">> \in made)
    BY <1>2, <1>4, <1>7
  <2> QED
    BY <1>3, <1>5, <1>7, <2>1, <2>2, AskingKeepsCallInv
<1> QED
  BY <1>6, <1>7

LEMMA AnswerKeepsCallInv ==
  ASSUME CallInv, Answered
  PROVE  CallInv'
<1> USE DEF CallInv, Answered, snapshot, local
<1>1. TypeOK' /\ Left' = Left /\ Here' = Here
  BY DEF TypeOK, PathTypeOK, Done, Left, LeftAs, Here
<1>2. phase # "failed" /\ phase \in Calls /\ phase' = "answered" /\ phase' \notin Calls
  BY DEF Exchanges, Calls
<1>3. PathIsConnected'
  BY <1>1, <1>2 DEF PathIsConnected
<1>4. DeadlinesNest' /\ DeadlineIsKept'
  <2>1. now <= layerEnd /\ layerEnd <= config.timeout
    BY <1>2 DEF DeadlinesNest
  <2>2. now \in Nat /\ layerEnd \in Nat /\ config.timeout \in Nat
    BY ConfigsValidated DEF TypeOK, PathTypeOK, Validated
  <2>3. now <= config.timeout
    BY <2>1, <2>2
  <2> QED
    BY <1>2, <2>3 DEF DeadlinesNest, DeadlineIsKept, Calls
<1>5. CallsAreOnThePath' /\ CandidatesAreKnown'
  BY <1>1, <1>2 DEF CallsAreOnThePath, CandidatesAreKnown
<1> QED
  BY <1>1, <1>3, <1>4, <1>5

LEMMA TruncationKeepsCallInv ==
  ASSUME CallInv, Truncated
  PROVE  CallInv'
<1> USE DEF CallInv, Truncated, Sends, snapshot, local
<1>1. Left' = Left /\ Here' = Here
  BY DEF Left, LeftAs, Here
<1>2. TypeOK'
  <2>1. made' \subseteq Layers \X (Layers \cup Resolvers) \X Calls
    BY DEF TypeOK, PathTypeOK, Calls, Exchanges
  <2> QED
    BY <2>1 DEF TypeOK, PathTypeOK, Calls, Exchanges
<1>3. PathIsConnected' /\ DeadlinesNest' /\ DeadlineIsKept'
  BY <1>1 DEF PathIsConnected, DeadlinesNest, DeadlineIsKept, Calls, Exchanges
<1>4. CallsAreOnThePath'
  BY <1>1 DEF CallsAreOnThePath
<1>5. CandidatesAreKnown'
  <2>1. Here.kind = "local" => endpoint \in Asked
    BY DEF CandidatesAreKnown, Calls, Exchanges
  <2>2. Here.kind = "local" => Asked' = Asked
    BY <2>1 DEF Asked, Exchanges
  <2>3. made \subseteq made' /\ (<<layer, layer, "discovery">> \in made' <=> <<layer, layer, "discovery">> \in made)
    OBVIOUS
  <2>4. AddressesIn(pool)' = AddressesIn(pool) /\ pool' = pool
    BY DEF AddressesIn
  <2> QED
    BY <1>1, <2>1, <2>2, <2>3, <2>4 DEF CandidatesAreKnown, Calls, Exchanges
<1> QED
  BY <1>2, <1>3, <1>4, <1>5

\* The next of the candidates is asked, or there is none.
LEMMA GoingOnKeepsCallInv ==
  ASSUME CallInv, phase \in Calls, Here.kind = "local",
         <<layer, layer, "discovery">> \in made \/ now >= layerEnd,
         NEW candidates, NEW seen, Waits(candidates, seen),
         NextCandidate(candidates, seen) \/ NoCandidate(candidates)
  PROVE  CallInv'
<1>1. phase # "failed" /\ now \in Nat /\ layerEnd \in Nat /\ layerEnd <= config.timeout
  BY DEF CallInv, TypeOK, DeadlinesNest, Calls, Exchanges
<1>2. CASE NextCandidate(candidates, seen)
  <2>1. /\ UNCHANGED <<snapshot, now, layer, left>> /\ layerEnd' = layerEnd /\ now < layerEnd
        /\ candidates # << >> /\ known' = seen /\ refreshed' = TRUE
        /\ AsksCandidate(candidates, layerEnd')
    BY <1>2 DEF NextCandidate
  <2>2. <<layer, layer, "discovery">> \in made
    BY <1>1, <2>1
  <2> QED
    BY <1>1, <2>1, <2>2, AskingKeepsCallInv
<1>3. CASE NoCandidate(candidates)
  BY <1>1, <1>3, FailureKeepsCallInv DEF NoCandidate
<1> QED
  BY <1>2, <1>3

\* What is in the pool waits.
LEMMA PoolWaits ==
  ASSUME CallInv, phase \in Calls, Here.kind = "local"
  PROVE  /\ Waits(pool, known)
         /\ refreshed <=> <<layer, layer, "discovery">> \in made
         /\ phase = "discovery" => <<layer, layer, "discovery">> \in made
  BY DEF CallInv, CandidatesAreKnown, Waits, TypeOK

LEMMA TickKeepsCallInv ==
  ASSUME CallInv, Tick
  PROVE  CallInv'
<1> USE DEF CallInv, Tick, snapshot, local
<1>1. Left' = Left /\ Here' = Here /\ Asked' = Asked /\ AddressesIn(pool)' = AddressesIn(pool)
  BY DEF Left, LeftAs, Here, Asked, AddressesIn
<1>2. TypeOK'
  BY DEF TypeOK, PathTypeOK
<1>3. PathIsConnected' /\ CallsAreOnThePath' /\ CandidatesAreKnown'
  BY <1>1 DEF PathIsConnected, CallsAreOnThePath, CandidatesAreKnown
<1>4. /\ now \in Nat /\ layerEnd \in Nat /\ endpointEnd \in Nat /\ config.timeout \in Nat
      /\ now' = now + 1 /\ phase # "answered"
  BY ConfigsValidated DEF TypeOK, PathTypeOK, Validated, Done
<1>5. DeadlinesNest' /\ DeadlineIsKept'
  <2>1. phase \in Exchanges => now + 1 <= endpointEnd
    BY <1>4
  <2>2. phase \in Calls => now + 1 <= layerEnd
    BY <1>4, <2>1 DEF Calls, DeadlinesNest
  <2>3. phase \in Calls => now + 1 <= config.timeout
    BY <1>4, <2>2 DEF DeadlinesNest
  <2> QED
    BY <1>4, <2>1, <2>2, <2>3 DEF DeadlinesNest, DeadlineIsKept
<1> QED
  BY <1>2, <1>3, <1>5

LEMMA ExtendedKeepsPool ==
  ASSUME NEW discovered \in Discoveries, Waits(pool, known), Extended(discovered) = << >>
  PROVE  pool = << >>
<1> DEFINE I == {i \in DOMAIN discovered : discovered[i] \notin known}
           new == Subsequence(discovered, I)
<1>1. discovered \in Seq(Resolvers) /\ I \in SUBSET DOMAIN discovered
  BY DiscoveriesOK
<1>2. new \in Seq(Resolvers)
  <2> HIDE DEF I
  <2> QED
    BY <1>1, SubsequenceIs
<1>3. pool \o new = << >>
  BY DEF Extended
<1> HIDE DEF new
<1>4. Len(pool) + Len(new) = 0 /\ Len(pool) \in Nat /\ Len(new) \in Nat
  BY <1>2, <1>3 DEF Waits
<1> QED
  BY <1>4 DEF Waits

LEMMA CallInvStep ==
  ASSUME CallInv, [Next]_vars
  PROVE  CallInv'
<1>1. CASE StartsTooLate
  BY <1>1, FailureKeepsCallInv DEF StartsTooLate
<1>2. CASE NetworkExchangeFails
  BY <1>2, FailureKeepsCallInv DEF NetworkExchangeFails, Exchanges
<1>3. CASE CandidateFails
  <2>1. phase \in Calls /\ phase # "failed" /\ Here.kind = "local"
    BY <1>3 DEF CandidateFails, Calls, Exchanges
  <2>2. Waits(pool, known) /\ (refreshed <=> <<layer, layer, "discovery">> \in made)
    BY <2>1, PoolWaits
  <2>3. CASE /\ ~refreshed /\ now < layerEnd /\ Discovers
             /\ UNCHANGED <<snapshot, now, layer, layerEnd, known, left>>
    <3>1. /\ now \in Nat /\ layerEnd \in Nat /\ layerEnd <= config.timeout
          /\ layerEnd' = layerEnd /\ known' = known
      BY <2>1, <2>3 DEF CallInv, TypeOK, DeadlinesNest
    <3> QED
      BY <2>1, <2>2, <2>3, <3>1, DiscoveringKeepsCallInv
  <2>4. CASE /\ refreshed \/ now >= layerEnd
             /\ NextCandidate(pool, known) \/ NoCandidate(pool)
    BY <2>1, <2>2, <2>4, GoingOnKeepsCallInv
  <2> QED
    BY <1>3, <2>3, <2>4 DEF CandidateFails
<1>4. ASSUME phase = "discovery"
      PROVE  phase \in Calls /\ Here.kind = "local" /\ <<layer, layer, "discovery">> \in made
  <2>1. phase \in Calls
    BY <1>4 DEF Calls
  <2> QED
    BY <1>4, <2>1, PoolWaits DEF CallInv, CandidatesAreKnown
<1>5. ASSUME NEW discovered \in Discoveries, Rediscovers(discovered)
      PROVE  CallInv'
  <2>1. phase \in Calls /\ Here.kind = "local" /\ <<layer, layer, "discovery">> \in made
    BY <1>4, <1>5 DEF Rediscovers
  <2>2. Waits(Extended(discovered), known \cup AddressesIn(discovered))
    BY <2>1, PoolWaits, ExtendedWaits
  <2>3. \/ NextCandidate(Extended(discovered), known \cup AddressesIn(discovered))
        \/ NoCandidate(Extended(discovered))
    BY <1>5 DEF Rediscovers, AddressesIn
  <2> QED
    BY <2>1, <2>2, <2>3, GoingOnKeepsCallInv
<1>6. CASE DiscoveryFails
  <2>1. phase \in Calls /\ Here.kind = "local" /\ <<layer, layer, "discovery">> \in made
    BY <1>4, <1>6 DEF DiscoveryFails
  <2>2. Waits(pool, known)
    BY <2>1, PoolWaits
  <2> QED
    BY <1>6, <2>1, <2>2, GoingOnKeepsCallInv DEF DiscoveryFails
<1>7. CASE UNCHANGED vars
  <2> USE <1>7 DEF vars
  <2>1. TypeOK' = TypeOK /\ DeadlinesNest' = DeadlinesNest /\ DeadlineIsKept' = DeadlineIsKept
    BY DEF TypeOK, PathTypeOK, DeadlinesNest, DeadlineIsKept
  <2>2. Left' = Left /\ Here' = Here /\ Asked' = Asked /\ AddressesIn(pool)' = AddressesIn(pool)
    BY DEF Left, LeftAs, Here, Asked, AddressesIn
  <2>3. PathIsConnected' = PathIsConnected /\ CallsAreOnThePath' = CallsAreOnThePath
    BY <2>2 DEF PathIsConnected, CallsAreOnThePath
  <2>4. CandidatesAreKnown' = CandidatesAreKnown
    BY <2>2 DEF CandidatesAreKnown
  <2> QED
    BY <2>1, <2>3, <2>4 DEF CallInv
<1> QED
  BY <1>1, <1>2, <1>3, <1>5, <1>6, <1>7, MissKeepsCallInv, NetworkLayerKeepsCallInv,
     LocalLayerKeepsCallInv, AnswerKeepsCallInv, TruncationKeepsCallInv, TickKeepsCallInv
     DEF Next

LEMMA CallInvInit ==
  ASSUME Init
  PROVE  CallInv
<1> USE DEF Init
<1>1. TypeOK
  <2>1. PathTypeOK
    BY ConfigsValidated DEF Validated, PathTypeOK
  <2>2. pool \in Seq(Resolvers)
    OBVIOUS
  <2> QED
    BY <2>1, <2>2 DEF TypeOK, PathTypeOK
<1>2. PathIsConnected /\ DeadlinesNest /\ DeadlineIsKept
  BY DEF PathIsConnected, DeadlinesNest, DeadlineIsKept, Left, LeftAs, Calls, Exchanges
<1>3. CallsAreOnThePath /\ CandidatesAreKnown
  BY DEF CallsAreOnThePath, CandidatesAreKnown, Calls, Exchanges
<1> QED
  BY <1>1, <1>2, <1>3 DEF CallInv

THEOREM CallInvariance == Spec => []CallInv
BY CallInvInit, CallInvStep, PTL DEF Spec

\* Whatever the upstreams do and however the deadlines of layers and candidates were
\* derived, no call is in progress and no answer is given after the request's deadline.
THEOREM DeadlineKept == Spec => []DeadlineIsKept
<1>1. CallInv => DeadlineIsKept
  BY DEF CallInv
<1> QED
  BY <1>1, CallInvariance, PTL

\* No endpoint is asked twice over one transport, for any number of resolvers and any
\* discoveries: a candidate is asked when it leaves the pool, and nothing known returns.
THEOREM CalledOnce == Spec => CallsAreMadeOnce
<1> DEFINE Once ==
      phase' \in Calls /\ <<phase', endpoint', layer'>> # <<phase, endpoint, layer>>
        => <<layer', IF phase' = "discovery" THEN layer' ELSE endpoint', phase'>> \notin made
<1>1. ASSUME CallInv, [Next]_vars
      PROVE  Once
  <2>1. CASE Misses \/ LayerFails
    BY <1>1, <2>1 DEF Misses, LayerFails, Calls, Exchanges, CallInv, TypeOK, PathTypeOK
  <2>2. CASE AsksNetworkLayer
    BY <1>1, <2>2, ReachedIsUncalled DEF AsksNetworkLayer, Starts
  <2>3. ASSUME NEW cached \in Discoveries \cup {<< >>}, AsksLocalLayer(cached)
        PROVE  Once
    BY <1>1, <2>3, ReachedIsUncalled DEF AsksLocalLayer, Starts
  <2>4. CASE Answered \/ Tick
    BY <1>1, <2>4 DEF Answered, Tick, Calls, Exchanges
  <2>5. CASE Truncated
    BY <1>1, <2>5 DEF Truncated, Sends, CallInv, CallsAreOnThePath
  <2>6. ASSUME phase \in Calls, Here.kind = "local", NEW candidates, NEW seen,
               Waits(candidates, seen), NextCandidate(candidates, seen)
        PROVE  Once
    <3>1. Head(candidates) \notin Asked /\ Head(candidates) \in Resolvers
      BY <1>1, <2>6, FirstAndRest DEF Waits, NextCandidate
    <3>2. <<layer, Head(candidates), "udp">> \notin made
      BY <1>1, <3>1 DEF Asked, Exchanges
    <3> QED
      BY <1>1, <2>6, <3>2 DEF NextCandidate, AsksCandidate, Sends
  <2>7. CASE CandidateFails
    <3>1. phase \in Calls /\ Here.kind = "local"
      BY <1>1, <2>7 DEF CandidateFails, Calls
    <3>2. Waits(pool, known) /\ (refreshed <=> <<layer, layer, "discovery">> \in made)
      BY <1>1, <3>1, PoolWaits
    <3>3. CASE ~refreshed /\ Discovers /\ layer' = layer
      BY <3>2, <3>3 DEF Discovers
    <3> QED
      BY <1>1, <2>1, <2>6, <2>7, <3>1, <3>2, <3>3 DEF CandidateFails, NoCandidate
  <2>8. ASSUME NEW discovered \in Discoveries, Rediscovers(discovered)
        PROVE  Once
    <3>1. phase \in Calls /\ Here.kind = "local"
      BY <1>1, <2>8 DEF Rediscovers, Calls, CallInv, CandidatesAreKnown
    <3>2. Waits(Extended(discovered), known \cup AddressesIn(discovered))
      BY <1>1, <3>1, PoolWaits, ExtendedWaits
    <3>3. \/ NextCandidate(Extended(discovered), known \cup AddressesIn(discovered))
          \/ NoCandidate(Extended(discovered))
      BY <1>1, <2>8 DEF Rediscovers, AddressesIn
    <3> QED
      BY <1>1, <2>1, <2>6, <3>1, <3>2, <3>3 DEF NoCandidate
  <2>9. CASE DiscoveryFails
    <3>1. phase \in Calls /\ Here.kind = "local"
      BY <1>1, <2>9 DEF DiscoveryFails, Calls, CallInv, CandidatesAreKnown
    <3> QED
      BY <1>1, <2>1, <2>6, <2>9, <3>1, PoolWaits DEF DiscoveryFails, NoCandidate
  <2>10. CASE UNCHANGED vars
    BY <2>10 DEF vars
  <2> HIDE DEF Once
  <2> QED
    BY <1>1, <2>1, <2>2, <2>3, <2>4, <2>5, <2>7, <2>8, <2>9, <2>10
       DEF Next, StartsTooLate, NetworkExchangeFails
<1>2. CallInv /\ [Next]_vars => [Once]_vars
  BY <1>1
<1> QED
  BY <1>2, CallInvariance, PTL DEF Spec, CallsAreMadeOnce

\* A local layer that gives up in time has rediscovered the system's resolvers and asked
\* every one it ever knew of: what it knows and has not asked is still in its pool.
THEOREM AllAreTried == Spec => LocalLayerTriesAll
<1> DEFINE All ==
      Here.kind = "local" /\ phase \in Calls /\ left' # left /\ now < layerEnd
        => ({<<layer, layer, "discovery">>} \cup {<<layer, r, "udp">> : r \in known})
             \subseteq made
<1>1. ASSUME CallInv, [Next]_vars
      PROVE  All
  <2> SUFFICES ASSUME Here.kind = "local", phase \in Calls, left' # left, now < layerEnd
               PROVE  /\ <<layer, layer, "discovery">> \in made
                      /\ \A r \in known : <<layer, r, "udp">> \in made
    OBVIOUS
  <2>1. now \in Nat /\ layerEnd \in Nat /\ ~(now >= layerEnd)
    BY <1>1 DEF CallInv, TypeOK
  <2>2. /\ Waits(pool, known)
        /\ refreshed <=> <<layer, layer, "discovery">> \in made
        /\ phase = "discovery" => <<layer, layer, "discovery">> \in made
    BY <1>1, PoolWaits
  <2>3. ASSUME pool = << >>
        PROVE  \A r \in known : <<layer, r, "udp">> \in made
    BY <2>2, <2>3 DEF Waits, AddressesIn
  <2>4. CASE CandidateFails
    <3>1. refreshed /\ pool = << >>
      BY <2>1, <2>4 DEF CandidateFails, NextCandidate, NoCandidate
    <3> QED
      BY <2>2, <2>3, <3>1
  <2>5. ASSUME NEW discovered \in Discoveries, Rediscovers(discovered)
        PROVE  phase = "discovery" /\ pool = << >>
    <3>1. phase = "discovery" /\ Extended(discovered) = << >>
      BY <2>1, <2>5 DEF Rediscovers, NextCandidate, NoCandidate
    <3> QED
      BY <3>1, <2>2, ExtendedKeepsPool
  <2>6. CASE DiscoveryFails
    <3>1. phase = "discovery" /\ pool = << >>
      BY <2>1, <2>6 DEF DiscoveryFails, NextCandidate, NoCandidate
    <3> QED
      BY <2>2, <2>3, <3>1
  <2>7. ~Misses /\ ~StartsTooLate /\ ~NetworkExchangeFails
    BY DEF Misses, StartsTooLate, NetworkExchangeFails, Calls, Exchanges
  <2>8. /\ ~AsksNetworkLayer /\ ~Answered /\ ~Truncated /\ ~Tick /\ ~UNCHANGED vars
        /\ \A cached : ~AsksLocalLayer(cached)
    BY DEF AsksNetworkLayer, AsksLocalLayer, Answered, Truncated, Tick, vars
  <2> QED
    BY <1>1, <2>2, <2>3, <2>4, <2>5, <2>6, <2>7, <2>8 DEF Next
<1>2. CallInv /\ [Next]_vars => [All]_vars
  BY <1>1
<1> QED
  BY <1>2, CallInvariance, PTL DEF Spec, LocalLayerTriesAll

-----------------------------------------------------------------------------
(***************************************************************************)
(* The refresh lock and the pointer that a request compares do what they    *)
(* are for, with any number of requests and any changes of the system: one  *)
(* discovery replaces the cache that failed, and the cache never goes back. *)
(* The two facts that matter are that the lock is held by whoever discovers *)
(* and that what its task has read is no older than the cache.  The second  *)
(* part is about the listener in front of them: its permits add up.         *)
(***************************************************************************)

LEMMA SystemsLen == Len(Systems) \in Nat \ {0}
BY SystemsAreHosts

LoopPlaces    == {"looking", "unnotified", "listening", "queued", "discovering", "sleeping"}
RequestPlaces == {"outside", "asking", "queued", "discovering"}

LEMMA LocalInit_establishes == LocalInit => LocalInv
<1> SUFFICES ASSUME LocalInit PROVE LocalInv
  OBVIOUS
<1>1. LocalTypeOK
  <2>1. hung \in BOOLEAN /\ hasLocal \in BOOLEAN /\ missed \in BOOLEAN
    BY Zenon DEF LocalInit
  <2>2. /\ system \in 1 .. Len(Systems)
        /\ found \in [Actors -> 0 .. Len(Systems)]
        /\ cache \in [addresses : SUBSET Hosts, seen : 0 .. Len(Systems)]
    BY SystemsLen DEF LocalInit
  <2>3. request \in [Requests -> {"outside", "asking", "queued", "discovering"}]
    BY DEF LocalInit
  <2> QED BY <2>1, <2>2, <2>3 DEF LocalInit, LocalTypeOK
<1>2. \A a \in Actors : ~Discovering(a) /\ holder # a
  BY LoopIsNoRequest DEF LocalInit, Discovering, Actors
<1>3. /\ \A a \in Actors : found[a] = 0
      /\ \A r \in Requests : request[r] = "outside"
      /\ system = 1 /\ cache.seen = 0
  BY DEF LocalInit
<1> QED BY <1>1, <1>2, <1>3 DEF LocalInv

\* Whoever goes on changes its own place alone.
LEMMA GoesEffect ==
  ASSUME LocalTypeOK, NEW a \in Actors, NEW place, Goes(a, place),
         a = Loop => place \in LoopPlaces, a # Loop => place \in RequestPlaces
  PROVE  /\ loop' \in LoopPlaces /\ request' \in [Requests -> RequestPlaces]
         /\ \A b \in Actors : Discovering(b)' <=>
              IF b = a THEN place = "discovering" ELSE Discovering(b)
         /\ \A r \in Requests : r # a => request'[r] = request[r]
         /\ a \in Requests => request'[a] = place
<1> USE LoopIsNoRequest DEF LocalTypeOK, LoopPlaces, RequestPlaces, Actors
<1>1. CASE a = Loop
  BY <1>1 DEF Goes, Discovering
<1>2. CASE a # Loop
  BY <1>2 DEF Goes, Discovering
<1> QED BY <1>1, <1>2

\* A step of the machine, the watcher or the loop alone, which is not queued.
Elsewhere ==
  \/ SystemChanges \/ ReloadStores \/ ReloadNotifies \/ Looks \/ TimerFires \/ Listens

LEMMA ElsewhereStep == LocalInv /\ Elsewhere => LocalInv'
<1> SUFFICES ASSUME LocalInv, Elsewhere PROVE LocalInv'
  OBVIOUS
<1> USE SystemsLen, LoopIsNoRequest DEF LocalInv, LocalTypeOK, machine, watcher
<1>1. /\ UNCHANGED <<request, current, holder, found, cache>>
      /\ loop' \in LoopPlaces
      /\ loop' = "discovering" <=> loop = "discovering"
      /\ system' \in 1 .. Len(Systems) /\ system <= system'
  BY DEF Elsewhere, SystemChanges, ReloadStores, ReloadNotifies, Looks, TimerFires, Listens,
         LoopPlaces
<1>2. \A a \in Actors : Discovering(a)' <=> Discovering(a)
  BY <1>1 DEF Discovering
<1>3. LocalTypeOK'
  <2>1. reload' \in {"idle", "stored"} /\ reloads' \in Nat
    BY DEF Elsewhere, SystemChanges, ReloadStores, ReloadNotifies, Looks, TimerFires, Listens
  <2>2. hung' \in BOOLEAN /\ hasLocal' \in BOOLEAN /\ missed' \in BOOLEAN
    BY Zenon DEF Elsewhere, SystemChanges, ReloadStores, ReloadNotifies, Looks, TimerFires, Listens
  <2> QED BY <1>1, <2>1, <2>2 DEF LoopPlaces
<1>4. \A a \in Actors : found'[a] <= system'
  <2> SUFFICES ASSUME NEW a \in Actors PROVE found[a] <= system'
    BY <1>1
  <2>1. found[a] \in 0 .. Len(Systems) /\ found[a] <= system
    OBVIOUS
  <2> QED BY <1>1, <2>1
<1>5. cache'.seen <= system'
  BY <1>1
<1> QED BY <1>1, <1>2, <1>3, <1>4, <1>5

\* A request outside the lock; one that times out drops what it had.
LEMMA RequestStep ==
  ASSUME LocalInv, NEW r \in Requests,
         Observes(r) \/ Answers(r) \/ Fails(r) \/ TimesOut(r)
  PROVE  LocalInv'
<1> USE LoopIsNoRequest DEF LocalInv, LocalTypeOK, machine, watcher, Actors
<1>1. CASE Observes(r)
  BY <1>1 DEF Observes, Discovering
<1>2. CASE Answers(r)
  BY <1>2 DEF Answers, Discovering
<1>3. CASE Fails(r)
  BY <1>3 DEF Fails, Discovering
<1>4. CASE TimesOut(r)
  <2> USE <1>4 DEF TimesOut
  <2>1. LocalTypeOK'
    BY SystemsLen
  <2>2. \A a \in Actors : Discovering(a)' <=> Discovering(a) /\ a # r
    BY DEF Discovering
  <2>3. \A a \in Actors : holder' = a <=> holder = a /\ a # r
    OBVIOUS
  <2>4. \A a \in Actors : found'[a] = IF a = r THEN 0 ELSE found[a]
    OBVIOUS
  <2>5. \A q \in Requests : request'[q] = "discovering" => q \in current'
    OBVIOUS
  <2> QED BY <2>1, <2>2, <2>3, <2>4, <2>5, SystemsLen
<1> QED BY <1>1, <1>2, <1>3, <1>4

\* The refresh: the lock is taken when it is free, read under, and released.
LEMMA RefreshStep ==
  ASSUME LocalInv, NEW a \in Actors, Refresh(a)
  PROVE  LocalInv'
<1> USE LoopIsNoRequest DEF LocalInv, machine, watcher
<1>0. /\ After(a) # "discovering"
      /\ a = Loop => After(a) \in LoopPlaces
      /\ a # Loop => After(a) \in RequestPlaces
  BY DEF After, LoopPlaces, RequestPlaces
<1>1. CASE IsSpared(a)
  <2>1. Goes(a, After(a)) /\ ~Discovering(a)
    BY <1>1 DEF IsSpared, LocalTypeOK, Actors
  <2>2. /\ loop' \in LoopPlaces /\ request' \in [Requests -> RequestPlaces]
        /\ \A b \in Actors : Discovering(b)' <=> Discovering(b)
        /\ \A r \in Requests : request'[r] = "discovering" => request[r] = "discovering"
    BY <2>1, <1>0, GoesEffect DEF Actors
  <2>3. LocalTypeOK'
    BY <1>1, <2>2 DEF IsSpared, LocalTypeOK, LoopPlaces, RequestPlaces
  <2> QED BY <1>1, <2>2, <2>3 DEF IsSpared
<1>2. CASE Locks(a)
  <2>1. Goes(a, "discovering") /\ holder = Nobody /\ ~IsServed(a)
    BY <1>2 DEF Locks
  <2>2. /\ loop' \in LoopPlaces /\ request' \in [Requests -> RequestPlaces]
        /\ \A b \in Actors : Discovering(b)' <=> b = a \/ Discovering(b)
        /\ \A r \in Requests : r # a => request'[r] = request[r]
    BY <2>1, GoesEffect DEF LoopPlaces, RequestPlaces
  <2>3. LocalTypeOK'
    BY <1>2, <2>2 DEF Locks, LocalTypeOK, LoopPlaces, RequestPlaces
  <2>4. \A b \in Actors : Discovering(b)' <=> holder' = b
    BY <1>2, <2>1, <2>2 DEF Locks
  <2>5. \A b \in Actors : found'[b] = 0
    BY <1>2, <2>1 DEF Locks
  <2>6. \A r \in Requests : request'[r] = "discovering" => r \in current'
    BY <1>2, <2>1, <2>2 DEF Locks, IsServed
  <2>7. system \in Nat
    BY SystemsLen DEF LocalTypeOK
  <2> QED BY <1>2, <2>3, <2>4, <2>5, <2>6, <2>7 DEF Locks
<1>3. CASE TaskReads(a)
  <2>1. \A b \in Actors : Discovering(b)' <=> Discovering(b)
    BY <1>3 DEF TaskReads, Discovering
  <2>2. LocalTypeOK'
    BY <1>3, SystemsLen DEF TaskReads, LocalTypeOK
  <2>3. \A b \in Actors : found'[b] = IF b = a THEN system ELSE found[b]
    BY <1>3 DEF TaskReads, LocalTypeOK
  <2>4. system \in Nat
    BY SystemsLen DEF LocalTypeOK
  <2> QED BY <1>3, <2>1, <2>2, <2>3, <2>4 DEF TaskReads
<1>4. CASE Stores(a) \/ FindsNone(a)
  <2>1. Ends(a) /\ holder = a /\ found[a] # 0
    BY <1>4 DEF Stores, FindsNone, Ends
  <2>2. /\ loop' \in LoopPlaces /\ request' \in [Requests -> RequestPlaces]
        /\ \A b \in Actors : Discovering(b)' <=> Discovering(b) /\ b # a
        /\ \A r \in Requests : request'[r] = "discovering" => request[r] = "discovering" /\ r # a
    <3>1. Goes(a, After(a))
      BY <2>1 DEF Ends
    <3> QED BY <3>1, <1>0, GoesEffect DEF Actors
  <2>3. holder' = Nobody /\ \A b \in Actors : ~Discovering(b)'
    BY <2>1, <2>2 DEF Ends
  <2>4. found' \in [Actors -> 0 .. Len(Systems)] /\ \A b \in Actors : found'[b] = 0
    BY <2>1, SystemsLen DEF Ends, LocalTypeOK
  <2>5. /\ cache' \in [addresses : SUBSET Hosts, seen : 0 .. Len(Systems)]
        /\ cache'.seen <= system
    <3>1. CASE Stores(a)
      <4>1. cache' = [addresses |-> Discovered(found[a]), seen |-> found[a]]
        BY <3>1 DEF Stores
      <4>2. found[a] \in 1 .. Len(Systems)
        BY <2>1, SystemsLen DEF LocalTypeOK
      <4>3. Systems[found[a]] \in SUBSET Hosts
        BY <4>2, SystemsAreHosts
      <4>4. Discovered(found[a]) \in SUBSET Hosts
        BY <4>3 DEF Discovered
      <4> QED BY <4>1, <4>2, <4>4
    <3>2. CASE FindsNone(a)
      BY <3>2 DEF FindsNone, LocalTypeOK
    <3> QED BY <1>4, <3>1, <3>2
  <2>6. current' \subseteq Requests
    BY <1>4 DEF Stores, FindsNone, LocalTypeOK
  <2>7. \A r \in Requests : request'[r] # "discovering"
    <3> SUFFICES ASSUME NEW r \in Requests PROVE request'[r] # "discovering"
      OBVIOUS
    <3>1. r \in Actors /\ r # Loop
      BY DEF Actors
    <3> QED BY <2>3, <3>1 DEF Discovering
  <2>8. LocalTypeOK'
    BY <2>1, <2>2, <2>3, <2>4, <2>5, <2>6 DEF Ends, LocalTypeOK, LoopPlaces, RequestPlaces
  <2>9. system' = system /\ system \in Nat
    BY <2>1, SystemsLen DEF Ends, LocalTypeOK
  <2> QED BY <2>3, <2>4, <2>5, <2>7, <2>8, <2>9
<1> QED BY <1>1, <1>2, <1>3, <1>4 DEF Refresh

LEMMA LocalStep == LocalInv /\ [LocalNext]_localDns => LocalInv'
<1> SUFFICES ASSUME LocalInv, [LocalNext]_localDns PROVE LocalInv'
  OBVIOUS
<1>1. CASE Elsewhere
  BY <1>1, ElsewhereStep
<1>2. CASE \E r \in Requests : Observes(r) \/ Answers(r) \/ Fails(r) \/ TimesOut(r)
  BY <1>2, RequestStep
<1>3. CASE \E a \in Actors : Refresh(a)
  BY <1>3, RefreshStep
<1>4. CASE UNCHANGED localDns
  BY <1>4 DEF localDns, LocalInv, LocalTypeOK, Discovering
<1> QED BY <1>1, <1>2, <1>3, <1>4 DEF LocalNext, Elsewhere

\* One refresh at a time, by the actor that holds the lock; what it has read is
\* no older than what is stored; and a request that refreshes saw this cache.
THEOREM LocalInvariance == LocalSpec => []LocalInv
<1> QED BY LocalInit_establishes, LocalStep, PTL DEF LocalSpec

-----------------------------------------------------------------------------

\* A request leaves its discovery by a result, by giving up, or by finding none.
LEMMA SharedStep ==
  LocalInv /\ [LocalNext]_localDns
    => [\A r \in Requests : cache' # cache /\ request[r] = "discovering" /\ request'[r] # request[r]
          => r \in current]_localDns
BY DEF LocalInv

\* Requests that fail together share one discovery, however many they are.
THEOREM DiscoveriesAreShared == LocalSpec => FailuresShareADiscovery
<1> QED BY LocalInvariance, SharedStep, PTL DEF LocalSpec, FailuresShareADiscovery

\* Only a refresh that found something replaces the cache.
LEMMA ForwardStep ==
  LocalInv /\ [LocalNext]_localDns
    => [cache' # cache =>
          /\ cache'.seen >= cache.seen
          /\ cache'.addresses # {}
          /\ BoundTo.port = 53 => cache'.addresses \cap {BoundTo.host} = {}]_localDns
<1> SUFFICES ASSUME LocalInv, LocalNext, cache' # cache
             PROVE  /\ cache'.seen >= cache.seen
                    /\ cache'.addresses # {}
                    /\ BoundTo.port = 53 => cache'.addresses \cap {BoundTo.host} = {}
  OBVIOUS
<1>1. PICK a \in Actors : Stores(a)
  <2>1. CASE Elsewhere
    BY <2>1 DEF Elsewhere, SystemChanges, ReloadStores, ReloadNotifies, Looks, TimerFires, Listens
  <2>2. CASE \E r \in Requests : Observes(r) \/ Answers(r) \/ Fails(r) \/ TimesOut(r)
    BY <2>2 DEF Observes, Answers, Fails, TimesOut
  <2>3. CASE \E a \in Actors : Refresh(a)
    BY <2>3 DEF Refresh, IsSpared, Locks, TaskReads, FindsNone
  <2> QED BY <2>1, <2>2, <2>3 DEF LocalNext, Elsewhere
<1>2. /\ cache' = [addresses |-> Discovered(found[a]), seen |-> found[a]]
      /\ Discovered(found[a]) # {} /\ found[a] # 0
  BY <1>1 DEF Stores, Ends
<1>3. cache.seen <= found[a] /\ cache.seen \in Nat /\ found[a] \in Nat
  BY <1>2, SystemsLen DEF LocalInv, LocalTypeOK
<1>4. BoundTo.port = 53 => BoundTo.host \notin Discovered(found[a])
  BY DEF Discovered, Usable
<1> QED BY <1>2, <1>3, <1>4

\* The cache never goes back to what the system was before, is never emptied and
\* never holds the listener, whatever tasks outlive the requests they ran for.
THEOREM CacheNeverGoesBack == LocalSpec => CacheGoesForward
<1> QED BY LocalInvariance, ForwardStep, PTL DEF LocalSpec, CacheGoesForward

-----------------------------------------------------------------------------
(* The permits of the listener.                                             *)

Holding   == {"processing", "resolving", "processed"}
PermitInv == ServingTypeOK /\ PermitsAreAccounted

LEMMA InFlightIsFinite == IsFiniteSet(InFlight) /\ Cardinality(InFlight) \in Nat
<1>1. InFlight \subseteq Queries
  BY DEF InFlight
<1>2. IsFiniteSet(InFlight)
  BY <1>1, QueriesAreFinite, FS_Subset
<1> QED BY <1>2, FS_CardinalityType

\* How a query that changes its place counts.
LEMMA MoveCounts ==
  ASSUME ServingTypeOK, NEW q \in Queries, NEW place \in Stages, GoesTo(q, place)
  PROVE  /\ stage' \in [Queries -> Stages]
         /\ q \in InFlight <=> stage[q] \in Holding
         /\ q \in InFlight /\ place \notin Holding
              => Cardinality(InFlight') = Cardinality(InFlight) - 1
         /\ q \notin InFlight /\ place \in Holding
              => Cardinality(InFlight') = Cardinality(InFlight) + 1
         /\ (q \in InFlight <=> place \in Holding)
              => Cardinality(InFlight') = Cardinality(InFlight)
<1>1. stage' \in [Queries -> Stages]
  BY DEF GoesTo, ServingTypeOK
<1>2. /\ place \in Holding => InFlight' = InFlight \cup {q}
      /\ place \notin Holding => InFlight' = InFlight \ {q}
  BY DEF GoesTo, ServingTypeOK, InFlight, Holding
<1>3. /\ Cardinality(InFlight \cup {q}) =
           IF q \in InFlight THEN Cardinality(InFlight) ELSE Cardinality(InFlight) + 1
      /\ Cardinality(InFlight \ {q}) =
           IF q \in InFlight THEN Cardinality(InFlight) - 1 ELSE Cardinality(InFlight)
  BY InFlightIsFinite, FS_AddElement, FS_RemoveElement
<1> QED BY <1>1, <1>2, <1>3 DEF InFlight, Holding

\* A query that takes a permit, one that gives it back, and one that goes on
\* with what it has.
LEMMA TakesPermit ==
  ASSUME PermitInv, NEW q \in Queries, stage[q] \in {"idle", "waiting"},
         GoesTo(q, "processing"), permits > 0, permits' = permits - 1
  PROVE  PermitInv'
<1>1. q \notin InFlight
  BY DEF InFlight
<1>2. /\ stage' \in [Queries -> Stages]
      /\ Cardinality(InFlight') = Cardinality(InFlight) + 1
  BY <1>1, MoveCounts DEF PermitInv, Stages, Holding
<1> QED BY <1>2, InFlightIsFinite, PermitsOK
        DEF PermitInv, ServingTypeOK, PermitsAreAccounted

LEMMA ReturnsPermit ==
  ASSUME PermitInv, NEW q \in Queries, NEW place \in {"idle", "closed", "writing"},
         stage[q] \in Holding, GoesTo(q, place), permits' = permits + 1
  PROVE  PermitInv'
<1>1. q \in InFlight
  BY DEF InFlight, Holding
<1>2. /\ stage' \in [Queries -> Stages]
      /\ Cardinality(InFlight') = Cardinality(InFlight) - 1
  BY <1>1, MoveCounts DEF PermitInv, Stages, Holding
<1>3. Cardinality(InFlight') \in Nat
  <2>1. InFlight' \subseteq Queries
    BY DEF InFlight
  <2> QED BY <2>1, QueriesAreFinite, FS_Subset, FS_CardinalityType
<1> QED BY <1>2, <1>3, InFlightIsFinite, PermitsOK
        DEF PermitInv, ServingTypeOK, PermitsAreAccounted

LEMMA KeepsPermit ==
  ASSUME PermitInv, NEW q \in Queries, NEW place \in Stages,
         stage[q] \in Holding <=> place \in Holding, GoesTo(q, place), UNCHANGED permits
  PROVE  PermitInv'
<1>1. q \in InFlight <=> place \in Holding
  BY DEF InFlight, Holding
<1>2. /\ stage' \in [Queries -> Stages]
      /\ Cardinality(InFlight') = Cardinality(InFlight)
  BY <1>1, MoveCounts DEF PermitInv
<1> QED BY <1>2 DEF PermitInv, ServingTypeOK, PermitsAreAccounted

LEMMA ServingStep == PermitInv /\ ServingNext => PermitInv'
<1> SUFFICES ASSUME PermitInv, ServingNext PROVE PermitInv'
  OBVIOUS
<1> USE DEF Queries, Stages, Holding
<1>1. CASE \E u \in Udp : UdpArrives(u)
  BY <1>1, TakesPermit DEF UdpArrives
<1>2. ASSUME NEW t \in Tcp,
             TcpConnects(t) \/ TcpReads(t) \/ TcpWrites(t) \/ TcpCloses(t)
      PROVE  PermitInv'
  <2>1. PICK place \in {"idle", "waiting", "closed"} : GoesTo(t, place)
    BY <1>2 DEF TcpConnects, TcpReads, TcpWrites, TcpCloses
  <2>2. stage[t] \notin Holding /\ UNCHANGED permits
    BY <1>2 DEF TcpConnects, TcpReads, TcpWrites, TcpCloses
  <2> QED BY <2>1, <2>2, KeepsPermit
<1>3. ASSUME NEW t \in Tcp, TcpIsAdmitted(t) PROVE PermitInv'
  BY <1>3, TakesPermit DEF TcpIsAdmitted
<1>4. ASSUME NEW q \in Queries, Processes(q) PROVE PermitInv'
  <2>1. CASE DiscardsPacket(q)
    <3>1. PICK place \in {"idle", "closed"} : GoesTo(q, place)
      BY <2>1 DEF DiscardsPacket
    <3> QED BY <2>1, <3>1, ReturnsPermit DEF DiscardsPacket
  <2>2. CASE IsProcessed(q)
    BY <2>2, KeepsPermit DEF IsProcessed
  <2>3. CASE LeavesLocal(q)
    BY <2>3, KeepsPermit DEF LeavesLocal
  <2> QED BY <1>4, <2>1, <2>2, <2>3 DEF Processes
<1>5. ASSUME NEW q \in Queries, Replies(q) PROVE PermitInv'
  BY <1>5, ReturnsPermit DEF Replies, UdpReplies, TcpReleases
<1> QED BY <1>1, <1>2, <1>3, <1>4, <1>5 DEF ServingNext

LEMMA ServiceStep == PermitInv /\ [ServiceNext]_service => PermitInv'
<1> SUFFICES ASSUME PermitInv, [ServiceNext]_service PROVE PermitInv'
  OBVIOUS
<1>1. CASE ServingNext
  BY <1>1, ServingStep
<1>2. CASE \E q \in Queries : ComesToLocal(q)
  BY <1>2, KeepsPermit DEF ComesToLocal, Holding, Stages
<1>3. CASE UNCHANGED serving
  BY <1>3 DEF serving, PermitInv, ServingTypeOK, PermitsAreAccounted, InFlight
<1> QED BY <1>1, <1>2, <1>3 DEF ServiceNext, service, serving

LEMMA ServiceInit_establishes == ServiceInit => PermitInv
<1> SUFFICES ASSUME ServiceInit PROVE PermitInv
  OBVIOUS
<1>1. InFlight = {}
  BY DEF ServiceInit, ServingInit, InFlight
<1>2. Cardinality(InFlight) = 0
  BY <1>1, FS_EmptySet
<1> QED BY <1>2, PermitsOK
        DEF ServiceInit, ServingInit, PermitInv, ServingTypeOK, PermitsAreAccounted, Stages

\* With any number of UDP tasks, connections and permits, no permit leaks and
\* none is made up, however packets are discarded, connections closed and
\* discoveries given up.
THEOREM PermitsAddUp == ServiceSpec => [](ServingTypeOK /\ PermitsAreAccounted)
<1> QED BY ServiceInit_establishes, ServiceStep, PTL DEF ServiceSpec, PermitInv
=============================================================================
