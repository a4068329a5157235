----------------------------- MODULE ResolverGraph -----------------------------
(***************************************************************************)
(* The graph the layers of a configuration form: what validation            *)
(* (LayerGraph) decides about it and requests (QueryLayers) rely on.        *)
(***************************************************************************)
CONSTANTS
  Layers,  \* layer tags
  None     \* no next, no fallback

ASSUME NoneIsNoLayer == None \notin Layers

\* layers[l] is a record with, among others, the fields next and fallback.
Successors(layers, l) == {layers[l].next, layers[l].fallback} \ {None}

\* Every set of layers has one without a successor in the set: in a finite graph
\* this says that no path comes back to where it started.
Acyclic(layers) ==
  \A S \in SUBSET Layers :
    S # {} => \E l \in S : Successors(layers, l) \cap S = {}
=============================================================================
