--------------------------- MODULE CertifiedAnswers ---------------------------
(***************************************************************************)
(* What strict compatibility mode promises, whatever caches, probes and     *)
(* reloads do: a client is handed a rewritten (name, address) pair only     *)
(* while somebody holds an unexpired proof for that very pair, and a proof  *)
(* lives no longer than the TTL of some strict plugin configuration.        *)
(***************************************************************************)
EXTENDS Naturals

CONSTANTS
  Clients,    \* requests being answered
  Pairs,      \* (name, address) pairs a proof is about
  Lifetimes   \* how long a proof may live

VARIABLES
  clock,
  proofs,     \* set of <<pair, expiry>>
  answers     \* [Clients -> SUBSET Pairs]: pairs handed out so far

Init ==
  /\ clock \in Nat
  /\ proofs = {}
  /\ answers = [c \in Clients |-> {}]

\* A verification succeeds; its proof may replace others.
Prove(pair, expiry) ==
  /\ \E t \in Lifetimes : expiry <= clock + t
  /\ proofs' \subseteq proofs \cup {<<pair, expiry>>}
  /\ UNCHANGED <<clock, answers>>

Forget ==
  /\ proofs' \subseteq proofs
  /\ UNCHANGED <<clock, answers>>

Certified(pair) == \E proof \in proofs : proof[1] = pair /\ proof[2] > clock

HandOut(c, pair) ==
  /\ Certified(pair)
  /\ answers' = [answers EXCEPT ![c] = @ \cup {pair}]
  /\ UNCHANGED <<clock, proofs>>

Finish(c) ==
  /\ answers' = [answers EXCEPT ![c] = {}]
  /\ UNCHANGED <<clock, proofs>>

Pass ==
  /\ clock' = clock + 1
  /\ UNCHANGED <<proofs, answers>>

Next ==
  \/ \E pair \in Pairs : \E proof \in proofs' : Prove(pair, proof[2])
  \/ Forget
  \/ \E c \in Clients, pair \in Pairs : HandOut(c, pair)
  \/ \E c \in Clients : Finish(c)
  \/ Pass

Spec == Init /\ [][Next]_<<clock, proofs, answers>>
=============================================================================
