----------------------------- MODULE MCRuleSets -----------------------------
(* RuleSets for two tags, a listener that the file may change, a file that      *)
(* forwards to the listener that is bound, and one that the ranges may refuse.  *)
EXTENDS RuleSets, TLC

CONSTANTS L1, L2, t1, t2, s1, s2

Saved(listener, forwards, preferred, first, second) ==
  [listener |-> listener, forwards |-> forwards, preferred |-> preferred,
   rules |-> (t1 :> first @@ t2 :> second)]

MCFiles ==
  {Saved(L1, {},   FALSE, s1,   None),
   Saved(L2, {},   TRUE,  s2,   s1),
   Saved(L2, {L1}, FALSE, s1,   None)}

MCRuleConfigs == {c.rules : c \in MCFiles}
=============================================================================
