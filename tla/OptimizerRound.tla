------------------------------ MODULE OptimizerRound ------------------------------
(***************************************************************************)
(* One round of the optimizer (src/src/optimizer.rs, run_loop and           *)
(* choose_preferred): candidates are drawn from the configured networks, a  *)
(* pool of workers probes them, and the fastest of each family is kept as   *)
(* the probes end, in any order.  What becomes of the selection after the   *)
(* configuration has changed is in CompatibilityGate.                       *)
(***************************************************************************)
EXTENDS Integers, Subsequences, Functions, FiniteSetsExt

CONSTANTS
  V4, V6,          \* addresses
  RoundSettings,   \* optimizer settings and ranges a round may start with
  Latencies,       \* what a probe may take
  CompatibleHosts  \* compatibility_hosts

Addresses == V4 \cup V6
Families  == {"ipv4", "ipv6"}
Family(a) == IF a \in V4 THEN "ipv4" ELSE "ipv6"

\* A candidate is the set of its addresses that may be drawn; a single address is
\* a network of one.  Validation keeps the numbers positive.
Settings ==
  [candidates : Seq(SUBSET Addresses), excluded : SUBSET Addresses,
   ranges : SUBSET Addresses, samples_per_cidr : Nat \ {0},
   max_candidates : Nat \ {0}, concurrency : Nat \ {0}, probes : Nat \ {0}]
ASSUME RoundSettingsOK == RoundSettings \subseteq Settings /\ V4 \cap V6 = {}
ASSUME AddressesOK     == IsFiniteSet(Addresses)
ASSUME LatenciesOK     == Latencies \subseteq Nat

VARIABLES
  cfg,       \* settings, and the ranges as they were when the round began
  networks,  \* candidates not drawn from yet
  chosen,    \* addresses drawn
  queue,     \* those of them nobody probes yet
  workers,   \* those that are probed
  samples,   \* latencies an address has shown, shortest first
  verified,  \* <<address, host>>: hosts that work at an address
  best,      \* the fastest address so far of each family, as a set
  passed,    \* history: addresses that passed
  round      \* "drawing", "probing", and what ends it: "update" or "clear"

optimizing == <<cfg, networks, chosen, queue, workers, samples, verified, best, passed, round>>

RoundInit ==
  /\ cfg \in RoundSettings
  /\ networks = cfg.candidates
  /\ chosen = << >> /\ queue = << >> /\ workers = {}
  /\ samples = [a \in Addresses |-> << >>] /\ verified = {}
  /\ best = [f \in Families |-> {}] /\ passed = {}
  /\ round = "drawing"

-----------------------------------------------------------------------------
(* expand_candidates                                                        *)

Room == cfg.max_candidates - Len(chosen)

\* random_addresses_in_network: any distinct ones, in any order.
Draws(network) ==
  LET count == Min({cfg.samples_per_cidr, Room, Cardinality(network)})
  IN {values \in [1 .. count -> network] : IsInjective(values)}

IsEligible(a) ==
  a \notin cfg.excluded /\ a \in cfg.ranges /\ a \notin Range(chosen)

DrawsFromNetwork ==
  /\ round = "drawing" /\ networks # << >> /\ Room > 0
  /\ \E values \in Draws(Head(networks)) :
       chosen' = chosen \o Subsequence(values, {i \in DOMAIN values : IsEligible(values[i])})
  /\ networks' = Tail(networks)
  /\ UNCHANGED <<cfg, queue, workers, samples, verified, best, passed, round>>

HasDrawn == round = "drawing" /\ (networks = << >> \/ Room = 0)

\* No candidate is in the ranges: the round has failed.
DrawsNothing ==
  /\ HasDrawn /\ chosen = << >>
  /\ round' = "clear"
  /\ UNCHANGED <<cfg, networks, chosen, queue, workers, samples, verified, best, passed>>

-----------------------------------------------------------------------------
(* choose_preferred                                                         *)

StartsWorkers ==
  /\ HasDrawn /\ chosen # << >>
  /\ LET count == Min({cfg.concurrency, Len(chosen)}) IN
       /\ workers' = Range(SubSeq(chosen, 1, count))
       /\ queue' = SubSeq(chosen, count + 1, Len(chosen))
  /\ round' = "probing"
  /\ UNCHANGED <<cfg, networks, chosen, samples, verified, best, passed>>

\* Where sort_unstable puts a latency among the others.
Inserted(sorted, x) ==
  [i \in 1 .. Len(sorted) + 1 |->
     IF i <= Len(sorted) /\ sorted[i] <= x THEN sorted[i]
     ELSE IF i = 1 \/ sorted[i - 1] <= x THEN x ELSE sorted[i - 1]]

\* probe_once, of probe_candidate
Measures(a, latency) ==
  /\ a \in workers /\ Len(samples[a]) < cfg.probes
  /\ samples' = [samples EXCEPT ![a] = Inserted(@, latency)]
  /\ UNCHANGED <<cfg, networks, chosen, queue, workers, verified, best, passed, round>>

\* probe_compatibility_host, once all the samples are there
Verifies(a, host) ==
  /\ a \in workers /\ Len(samples[a]) = cfg.probes
  /\ verified' = verified \cup {<<a, host>>}
  /\ UNCHANGED <<cfg, networks, chosen, queue, workers, samples, best, passed, round>>

\* Whoever has joined a task starts the next one.
Refills(a) ==
  IF queue = << >> THEN workers' = workers \ {a} /\ UNCHANGED queue
  ELSE workers' = (workers \ {a}) \cup {Head(queue)} /\ queue' = Tail(queue)

\* score_probe_samples
Timing(sorted) ==
  LET n      == Len(sorted)
      median == (sorted[(n - 1) \div 2 + 1] + sorted[n \div 2 + 1]) \div 2
      worst  == sorted[n]
  IN <<median + (worst - median) \div 2, median, worst>>

\* By score, then median, then worst.
Precedes(x, y) == \E i \in 1 .. 3 : x[i] < y[i] /\ \A j \in 1 .. i - 1 : x[j] = y[j]

\* is_faster: the earlier one wins a tie.
IsFaster(a, current) == \A c \in current : Precedes(Timing(samples[a]), Timing(samples[c]))

Passes(a) ==
  /\ a \in workers /\ Len(samples[a]) = cfg.probes
  /\ \A host \in CompatibleHosts : <<a, host>> \in verified
  /\ Refills(a)
  /\ passed' = passed \cup {a}
  /\ best' = IF IsFaster(a, best[Family(a)]) THEN [best EXCEPT ![Family(a)] = {a}] ELSE best
  /\ UNCHANGED <<cfg, networks, chosen, samples, verified, round>>

\* Mutant: only a candidate that passed makes room for another one.
FailsProbe_alone(a) ==
  /\ a \in workers
  /\ workers' = workers \ {a}
  /\ samples' = [samples EXCEPT ![a] = << >>]
  /\ verified' = {v \in verified : v[1] # a}
  /\ UNCHANGED <<cfg, networks, chosen, queue, best, passed, round>>
\* Any probe that fails or times out fails the candidate.
FailsProbe(a) ==
  /\ a \in workers
  /\ Len(samples[a]) < cfg.probes \/ \E host \in CompatibleHosts : <<a, host>> \notin verified
  /\ Refills(a)
  /\ samples' = [samples EXCEPT ![a] = << >>]
  /\ verified' = {v \in verified : v[1] # a}
  /\ UNCHANGED <<cfg, networks, chosen, best, passed, round>>

\* run_loop: with nothing selected the preferred addresses are cleared, for an
\* enabled optimizer has compatibility hosts.
EndsRound ==
  /\ round = "probing" /\ workers = {}
  /\ round' = IF \A f \in Families : best[f] = {} THEN "clear" ELSE "update"
  /\ UNCHANGED <<cfg, networks, chosen, queue, workers, samples, verified, best, passed>>

RoundNext ==
  \/ DrawsFromNetwork \/ DrawsNothing \/ StartsWorkers \/ EndsRound
  \/ \E a \in Addresses, latency \in Latencies : Measures(a, latency)
  \/ \E a \in Addresses, host \in CompatibleHosts : Verifies(a, host)
  \/ \E a \in Addresses : Passes(a) \/ FailsProbe(a)

RoundSpec == RoundInit /\ [][RoundNext]_optimizing

-----------------------------------------------------------------------------
(* Properties.                                                              *)

PassedOf(f) == {a \in passed : Family(a) = f}

\* Address a was at least as fast as b in every probe, and faster at its worst.
Beats(a, b) ==
  /\ \A i \in 1 .. cfg.probes : samples[a][i] <= samples[b][i]
  /\ samples[a][cfg.probes] < samples[b][cfg.probes]

\* A round ends with an address of every family of which one has passed all its
\* probes, and none that another one beat, in whatever order the probes ended.
\* Whoever passes is from the candidates, is not excluded and was in the ranges;
\* every address that was drawn has been probed, once, and never more of them at
\* a time than may be.
RoundPicksBest ==
  /\ Cardinality(workers) <= cfg.concurrency
  /\ IsInjective(chosen) /\ Len(chosen) <= cfg.max_candidates
  /\ round \in {"update", "clear"} =>
       /\ queue = << >>
       /\ round = "update" <=> passed # {}
       /\ \A f \in Families :
            /\ best[f] \subseteq PassedOf(f)
            /\ best[f] = {} => PassedOf(f) = {}
            /\ \A a \in best[f] : ~\E b \in PassedOf(f) : Beats(b, a)
       /\ passed \subseteq (cfg.ranges \cap UNION Range(cfg.candidates)) \ cfg.excluded

-----------------------------------------------------------------------------
(* The parts that make it inductive.                                        *)

Sorted(s) == \A i, j \in DOMAIN s : i <= j => s[i] <= s[j]

RoundTypeOK ==
  /\ cfg \in RoundSettings
  /\ networks \in Seq(SUBSET Addresses)
  /\ chosen \in Seq(Addresses) /\ queue \in Seq(Addresses)
  /\ workers \subseteq Addresses /\ passed \subseteq Addresses
  /\ samples \in [Addresses -> Seq(Latencies)]
  /\ \A a \in Addresses : Len(samples[a]) <= cfg.probes /\ Sorted(samples[a])
  /\ verified \subseteq Addresses \X CompatibleHosts
  /\ best \in [Families -> SUBSET Addresses]
  /\ round \in {"drawing", "probing", "update", "clear"}

\* What was drawn may be drawn, and no address was drawn twice.
DrawnAreAllowed ==
  /\ Range(networks) \subseteq Range(cfg.candidates)
  /\ Range(chosen) \subseteq (cfg.ranges \cap UNION Range(cfg.candidates)) \ cfg.excluded
  /\ IsInjective(chosen) /\ Len(chosen) <= cfg.max_candidates

\* An address waits, is probed or has passed, never two of them; somebody works while
\* somebody waits, and who works is not too many.
WorkIsShared ==
  /\ round # "probing" => queue = << >> /\ workers = {}
  /\ round = "drawing" => passed = {}
  /\ workers \cup Range(queue) \cup passed \subseteq Range(chosen)
  /\ IsInjective(queue)
  /\ workers \cap Range(queue) = {} /\ (workers \cup Range(queue)) \cap passed = {}
  /\ queue # << >> => workers # {}
  /\ IsFiniteSet(workers) /\ Cardinality(workers) <= cfg.concurrency

\* Of each family one address is kept that no other one that passed precedes.
FastestAreKept ==
  /\ \A a \in passed : Len(samples[a]) = cfg.probes
  /\ \A f \in Families :
       /\ best[f] \subseteq PassedOf(f)
       /\ PassedOf(f) # {} => \E a \in best[f] : best[f] = {a}
       /\ \A a \in best[f], b \in PassedOf(f) : ~Precedes(Timing(samples[b]), Timing(samples[a]))
  /\ round \in {"update", "clear"} => (round = "update" <=> passed # {})

RoundInv == RoundTypeOK /\ DrawnAreAllowed /\ WorkIsShared /\ FastestAreKept
=============================================================================
