------------------------------- MODULE LayerGraph -------------------------------
(***************************************************************************)
(* validate_layer_graph (src/src/config.rs): the depth-first search that    *)
(* decides whether the next and fallback edges of a configuration form a    *)
(* cycle, one stack entry per step.  Its starts come from the keys of a     *)
(* HashMap, in any order.                                                   *)
(***************************************************************************)
EXTENDS ResolverGraph, Naturals, Sequences

Graphs == [Layers -> [next : Layers \cup {None}, fallback : Layers \cup {None}]]

Entering(l) == [tag |-> l, exiting |-> FALSE]
Exiting(l)  == [tag |-> l, exiting |-> TRUE]

VARIABLES
  graph,      \* layers_by_tag, every edge of which ends in it
  remaining,  \* starts the outer loop has not taken yet
  completed,  \* layers whose every path has been followed to its end
  active,     \* layers on the path being followed
  stack,      \* the top is the last element
  verdict     \* "searching", "accepted" or "rejected"

vars == <<graph, remaining, completed, active, stack, verdict>>

TypeOK ==
  /\ graph \in Graphs
  /\ remaining \subseteq Layers
  /\ completed \subseteq Layers
  /\ active \subseteq Layers
  /\ stack \in Seq([tag : Layers, exiting : BOOLEAN])
  /\ verdict \in {"searching", "accepted", "rejected"}

Init ==
  /\ graph \in Graphs
  /\ remaining = Layers
  /\ completed = {}
  /\ active = {}
  /\ stack = << >>
  /\ verdict = "searching"

\* The outer loop: a start that is completed already is passed over.
Starts(l) ==
  /\ verdict = "searching"
  /\ stack = << >>
  /\ remaining' = remaining \ {l}
  /\ active' = {}
  /\ stack' = IF l \in completed THEN << >> ELSE <<Entering(l)>>
  /\ UNCHANGED <<graph, completed, verdict>>

Accepts ==
  /\ verdict = "searching"
  /\ stack = << >>
  /\ remaining = {}
  /\ verdict' = "accepted"
  /\ UNCHANGED <<graph, remaining, completed, active, stack>>

Pops ==
  /\ verdict = "searching"
  /\ stack # << >>

Top == stack[Len(stack)]
Popped == SubSeq(stack, 1, Len(stack) - 1)

\* Mutant: a layer stays on the path when it is completed.
Exits_active ==
  /\ Pops
  /\ Top.exiting
  /\ stack' = Popped
  /\ completed' = completed \cup {Top.tag}
  /\ UNCHANGED <<graph, remaining, active, verdict>>
Exits ==
  /\ Pops
  /\ Top.exiting
  /\ stack' = Popped
  /\ active' = active \ {Top.tag}
  /\ completed' = completed \cup {Top.tag}
  /\ UNCHANGED <<graph, remaining, verdict>>

\* Mutant: the entry is looked at and not popped.
PassesOver_peeks ==
  /\ Pops
  /\ ~Top.exiting
  /\ Top.tag \in completed
  /\ UNCHANGED vars
\* Another path has completed the layer since it was pushed.
PassesOver ==
  /\ Pops
  /\ ~Top.exiting
  /\ Top.tag \in completed
  /\ stack' = Popped
  /\ UNCHANGED <<graph, remaining, completed, active, verdict>>

\* The path has come back to itself.
ClosesCycle(l) == l \in active \/ Successors(graph, l) \cap (active \cup {l}) # {}

Rejects ==
  /\ Pops
  /\ ~Top.exiting
  /\ Top.tag \notin completed
  /\ ClosesCycle(Top.tag)
  /\ verdict' = "rejected"
  /\ UNCHANGED <<graph, remaining, completed, active, stack>>

\* A successor that is not completed yet is pushed.
Pushing(target) ==
  IF target = None \/ target \in completed THEN << >> ELSE <<Entering(target)>>

Enters ==
  /\ Pops
  /\ ~Top.exiting
  /\ Top.tag \notin completed
  /\ ~ClosesCycle(Top.tag)
  /\ active' = active \cup {Top.tag}
  /\ stack' = Popped \o <<Exiting(Top.tag)>>
                     \o Pushing(graph[Top.tag].next) \o Pushing(graph[Top.tag].fallback)
  /\ UNCHANGED <<graph, remaining, completed, verdict>>

Next ==
  \/ \E l \in remaining : Starts(l)
  \/ Accepts
  \/ Exits
  \/ PassesOver
  \/ Rejects
  \/ Enters

Spec     == Init /\ [][Next]_vars
FairSpec == Spec /\ WF_vars(Next)

-----------------------------------------------------------------------------
(* Properties.                                                              *)

\* Validation accepts exactly the graphs without a cycle, in whatever order the
\* starts come out of the HashMap and however often a layer is on the stack.
ValidationIsExact ==
  /\ verdict = "accepted" => Acyclic(graph)
  /\ verdict = "rejected" => ~Acyclic(graph)

\* Validation ends: it does not go round a cycle it fails to notice.
Decides == <>(verdict # "searching")

(* Why it is exact: the invariant the proof in LayerGraph_proofs rests on.   *)

Entries == 1 .. Len(stack)
Exit(i) == i \in Entries /\ stack[i].exiting

\* The exit markers on the stack are the active layers, one marker each, and
\* none of those is completed.
MarkersAreActive ==
  /\ \A l \in Layers : l \in active <=> \E i \in Entries : Exit(i) /\ stack[i].tag = l
  /\ \A i, j \in Entries : Exit(i) /\ Exit(j) /\ stack[i].tag = stack[j].tag => i = j
  /\ active \cap completed = {}

\* The completed layers are closed under the edges and hold no cycle.
CompletedIsAcyclic ==
  /\ \A l \in completed : Successors(graph, l) \subseteq completed
  /\ \A S \in SUBSET completed :
       S # {} => \E l \in S : Successors(graph, l) \cap S = {}

\* What an active layer leads to is completed or is still above its marker.
SuccessorsAreAhead ==
  \A i \in Entries : Exit(i) =>
    \A m \in Successors(graph, stack[i].tag) :
      m \in completed \/ \E j \in Entries : i < j /\ stack[j].tag = m

\* Above a marker come successors of its layer, up to and including the next
\* marker: the markers are a path of the graph.
MarkersAreAPath ==
  \A i \in Entries : Exit(i) =>
    \E top \in 1 .. Len(stack) + 1 :
      /\ i < top
      /\ \A j \in Entries : i < j /\ j < top =>
           ~Exit(j) /\ stack[j].tag \in Successors(graph, stack[i].tag)
      /\ top \in Entries =>
           Exit(top) /\ stack[top].tag \in Successors(graph, stack[i].tag)

\* Every start taken so far is completed or is what the search is about.
StartsAreFollowed ==
  \A l \in Layers \ remaining :
    l \in completed \/ (stack # << >> /\ stack[1].tag = l)

SearchInv ==
  /\ TypeOK
  /\ MarkersAreActive
  /\ CompletedIsAcyclic
  /\ SuccessorsAreAhead
  /\ MarkersAreAPath
  /\ StartsAreFollowed
  /\ ValidationIsExact
=============================================================================
