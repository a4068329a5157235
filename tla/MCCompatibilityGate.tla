------------------------- MODULE MCCompatibilityGate -------------------------
(***************************************************************************)
(* The gate in three situations, of which a behaviour is in one: a race of  *)
(* requests, probes and updaters over one name; names and families that     *)
(* compete for the cache; and a reload that shortens the lifetime of        *)
(* proofs.  A situation limits who arrives and what the files contain, and  *)
(* nothing of what the gate does about it.                                  *)
(***************************************************************************)
EXTENDS CompatibilityGate, TLC

CONSTANTS long, wide, short, manual, a4, a6, r1, r2, p1, p2, h1, h2

VARIABLE part

\* Three strict configurations: "long" and "short" may select the IPv4 address and
\* differ in how long a proof lives, "wide" may select one of each family.  With
\* "manual" the optimizer is off and the static address served.
MCPlugins    == {long, wide, short, manual}
MCStrict     == {long, wide, short}
MCCandidates == (long :> {a4}) @@ (wide :> {a4, a6}) @@ (short :> {a4}) @@ (manual :> {a4})
MCStatic     == (long :> {a6}) @@ (wide :> {}) @@ (short :> {a4}) @@ (manual :> {a6})
MCTtl        == (long :> 2) @@ (wide :> 1) @@ (short :> 1) @@ (manual :> 2)

\* Who takes part, what the file may contain, how often the runtime is replaced and
\* how far the clock goes.
Part(callers, hosts, files, updates, clock) ==
  [callers |-> callers, hosts |-> hosts, files |-> files, updates |-> updates, clock |-> clock]
Parts ==
  [race   |-> Part({r1, r2}, {h1}, {long, manual}, 2, 0),
   names  |-> Part({r1}, {h1, h2, NoHost}, {wide, NoPlugin}, 1, 1),
   reload |-> Part({r1}, {h1}, {long, short}, 3, 1)]

Arrives(r) == requests[r] = IdleRequest /\ requests'[r] # IdleRequest
IsTaken(p) == probes[p] = IdleProbe /\ probes'[p] # IdleProbe

MayHappen(of) ==
  /\ \A r \in Requests : Arrives(r) => r \in of.callers /\ requests'[r].host \in of.hosts
  /\ updateLock = "free" /\ updateLock' # "free" => epoch < of.updates
  /\ updaters'["watcher"].state = "store" => updaters'["watcher"].next.plugin \in of.files
  /\ now' <= of.clock

\* Idle requests are alike and so are free permits: the second is not used before
\* the first.
InOrder ==
  /\ Arrives(r2) => requests[r1] # IdleRequest
  /\ IsTaken(p2) => probes[p1] # IdleProbe

PartInit(of) == Init /\ part \in of /\ runtime.plugin \in Parts[part].files
PartNext == Next /\ MayHappen(Parts[part]) /\ InOrder /\ UNCHANGED part

MCSpec == PartInit({"race", "names"}) /\ [][PartNext]_<<vars, part>> /\ Fairness
ReloadSpec == PartInit({"reload"}) /\ [][PartNext]_<<vars, part>>
=============================================================================
