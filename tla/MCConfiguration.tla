--------------------------- MODULE MCConfiguration ---------------------------
(***************************************************************************)
(* The two halves of the configuration's validation, one after the other:   *)
(* the search for cycles over every graph, and, once a search has accepted, *)
(* a settings window over the documents below.                              *)
(***************************************************************************)
EXTENDS LayerGraph, SettingsDocument

CONSTANTS A, B, C, R, R1, P, P1

MCLayers     == {A, B, C}
MCNewLayers  == <<B, C>>
MCNewRules   == <<R1>>
MCNewPlugins == <<P1>>

LayerObject(tag, kind, fields) ==
  Defaulted([tag |-> tag, type |-> kind, match |-> NoMatch],
            Defaulted(fields, LayerDefaults(kind)))

Matching(tags) == [mode |-> "contains", keywords |-> {"plain"}, rule_sets |-> tags]

RemoteRules == <<[tag |-> R, type |-> "remote", url |-> Url(TRUE, 443)]>>

\* The bundled configuration: a filtered local layer, a DoH layer after it, a
\* remote rule set, and a plugin whose optimizer is off.
MCDefault ==
  [address |-> At("loopback", 53), allow_remote |-> FALSE,
   range_refresh_secs |-> "some", request_timeout_ms |-> "some", entry |-> A,
   rule_sets |-> RemoteRules, plugins |-> <<DefaultPlugin(P)>>,
   layers |->
     <<Put(LayerObject(A, "local", [next |-> B]), "match", Matching({R})),
       LayerObject(B, "doh", [plugin |-> P])>>]

\* Files others write: a service for the network on every address, whose one
\* layer is a DoT resolver, with an optimizer at work ...
Measuring ==
  [DefaultPlugin(P1) EXCEPT
     !.preferred = [ipv4 |-> "inside"], !.optimizer.enabled = TRUE,
     !.optimizer.candidates = {"good"}, !.optimizer.compatibility_hosts = {"good"}]
MCRemote ==
  [MCDefault EXCEPT
     !.address = At("any", 53), !.allow_remote = TRUE, !.entry = C,
     !.rule_sets = << >>, !.plugins = <<Measuring>>,
     !.layers = <<LayerObject(C, "dot", [plugin |-> P1])>>]
\* ... and a chain of a TCP and a UDP layer with a local rule set.
MCChain ==
  [MCDefault EXCEPT
     !.entry = C, !.plugins = << >>,
     !.rule_sets = <<[tag |-> R1, type |-> "local", path |-> "path"]>>,
     !.layers = <<LayerObject(C, "tcp", [fallback |-> B]),
                  LayerObject(B, "udp", [timeout_ms |-> "some"])>>]
MCDocuments == {MCRemote, MCChain}

\* A search that has accepted a graph without edges.
SearchIsOver ==
  /\ graph = [l \in Layers |-> [next |-> None, fallback |-> None]]
  /\ remaining = {} /\ completed = Layers /\ active = {}
  /\ stack = << >> /\ verdict = "accepted"

MCInit ==
  /\ SettingsInit
  /\ \/ Init /\ file = Missing
     \/ SearchIsOver
MCNext ==
  \/ Next /\ UNCHANGED settings
  \/ SearchIsOver /\ SettingsNext /\ UNCHANGED vars
MCSpec == MCInit /\ [][MCNext]_<<vars, settings>> /\ WF_vars(Next)
=============================================================================
