------------------------------ MODULE MCRequests ------------------------------
(***************************************************************************)
(* What serves a request, one part at a time: its way through the graph     *)
(* (every acyclic graph of three layers whose order is A, B, C), the        *)
(* listener with the discovery its queries share, the rules and the         *)
(* rewriting they meet, and the round that finds the preferred addresses.   *)
(* A behaviour is one of one part; the others rest where they have nothing  *)
(* to do.                                                                   *)
(***************************************************************************)
EXTENDS QueryLayers, Serving, AnswerRewriting, RuleFile, OptimizerRound

CONSTANTS A, B, C, r1, r2, r3, u1, t1, t2

VARIABLE part

-----------------------------------------------------------------------------
(* QueryLayers *)

MCLayers == {A, B, C}

Layer(kind, timeout, filtered, next, fallback) ==
  [kind |-> kind, timeout |-> timeout, filtered |-> filtered,
   next |-> next, fallback |-> fallback]

\* A layer with or without a filter, with every edge the order allows.
Variants(kind, timeout, below) ==
  {Layer(kind, timeout, FALSE, None, f) : f \in below \cup {None}} \cup
  {Layer(kind, timeout, TRUE, n, f) : n \in below, f \in below \cup {None}}

Chain(timeout, first, second, third) ==
  [entry |-> A, timeout |-> timeout,
   layers |-> (A :> first @@ B :> second @@ C :> third)]

\* Every graph, with a local layer in the middle.
MCGraphs ==
  {Chain(3, a, b, Layer("stream", 2, FALSE, None, None)) :
     a \in Variants("udp", 2, {B, C}), b \in Variants("local", 3, {C})}

\* Two local layers, one with room for several candidates and one that outlives
\* the request.
MCLocals ==
  {Chain(6, Layer("local", 4, FALSE, None, B), Layer("local", 7, FALSE, None, f),
         Layer("udp", 1, FALSE, None, None)) : f \in {None, C}}

MCConfigs == MCGraphs \cup MCLocals

MCDiscoveries == {<<r1>>, <<r1, r2>>, <<r2, r3, r1>>}

\* A request that its first layer has answered.
LayersRest ==
  /\ config = Chain(3, Layer("udp", 2, FALSE, None, None), Layer("local", 3, FALSE, None, None),
                    Layer("stream", 2, FALSE, None, None))
  /\ applies = Layers /\ now = 0 /\ phase = "answered"
  /\ layer = A /\ endpoint = A /\ layerEnd = 0 /\ endpointEnd = 0
  /\ pool = << >> /\ known = {} /\ refreshed = FALSE /\ left = {} /\ made = {}

-----------------------------------------------------------------------------
(* LocalDns and Serving *)

\* A network with a resolver of its own behind the listener, one whose only
\* server is of no use, and another network.
MCSystems == <<{"lan", "loopback", "other"}, {"loopback"}, {"resolver"}>>
MCBoundTo == [host |-> "other", port |-> 53]

ServiceRest ==
  /\ system = 1 /\ hung = FALSE /\ hasLocal = FALSE
  /\ reload = "idle" /\ reloads = 0 /\ loop = "listening" /\ missed = FALSE
  /\ request = [r \in Requests |-> "outside"] /\ current = {} /\ holder = Nobody
  /\ found = [a \in Actors |-> 0] /\ cache = [addresses |-> {}, seen |-> 0]
  /\ ServingInit

-----------------------------------------------------------------------------
(* AnswerRewriting *)

MCRecords ==
  {Address("A", "cf4", "resolver"), Address("A", "other4", "resolver"),
   Address("A", "best4", "rewrite"), Address("AAAA", "cf6", "resolver"),
   Address("AAAA", "other6", "resolver"),
   Service({"cf4"}, {"cf6"}, "resolver"), Service({"cf4", "other4"}, {"cf6"}, "resolver"),
   Service({}, Absent, "resolver"), Other("RRSIG"), Other("CNAME")}

Signed == <<Other("CNAME"), Other("RRSIG")>>
MCMessages ==
  [answers : UNION {[1 .. n -> MCRecords] : n \in 0 .. 3},
   name_servers : {Signed}, additionals : {Signed}, ad : {TRUE}, dnssec_ok : {TRUE}]

MCOffers == [ipv4 : {"best4", Absent}, ipv6 : {"best6", Absent}]

\* Answers of one family, with an address for it: whatever is in them is relevant.
OneFamily ==
  {Address("A", "cf4", "resolver"), Address("A", "other4", "resolver"),
   Service({"cf4"}, Absent, "resolver"), Service({"other4"}, Absent, "resolver")}
MCMixed ==
  [answers : UNION {[1 .. n -> OneFamily] : n \in 1 .. 2},
   name_servers : {Signed}, additionals : {Signed}, ad : {TRUE}, dnssec_ok : {TRUE}]
MCOneOffer == [ipv4 : {"best4"}, ipv6 : {Absent}]

RewritingRest ==
  /\ answer = [answers |-> << >>, name_servers |-> << >>, additionals |-> << >>,
               ad |-> FALSE, dnssec_ok |-> FALSE]
  /\ preferred = [ipv4 |-> Absent, ipv6 |-> Absent] /\ rewritten = TRUE

-----------------------------------------------------------------------------
(* RuleFile *)

\* Names over two letters, two of them apart by what is in front of the dot.
a == 97
b == 98
MCRuleNames == {<<a>>, <<b>>, <<a, b>>, <<b, Dot, a>>}
MCRules ==
  LET rule == [name : MCRuleNames, kind : {"exact", "suffix", "prefix"}]
  IN {{x, y} : x \in rule, y \in rule} \cup
     {{[name |-> n, kind |-> "exact"] : n \in MCRuleNames}}
MCNames == MCRuleNames \cup {<<a, Dot, b>>, <<b, a>>, <<a, b, Dot, a>>, <<a, Dot, b, Dot, a>>, <<b, b, Dot, a>>}

MatchingRest ==
  /\ rules = {} /\ asked = << >> /\ trie = << >> /\ at = 0 /\ node = 0 /\ index = 0
  /\ outcome = "no"
DecodingRest == bytes = << >> /\ value = 0 /\ integer = "read"

-----------------------------------------------------------------------------
(* OptimizerRound *)

MCV4 == {"a1", "a2", "a3", "foreign"}
MCV6 == {"b1"}
RoundOf(candidates, excluded, samples_per_cidr, max_candidates, concurrency, probes) ==
  [candidates |-> candidates, excluded |-> excluded, ranges |-> {"a1", "a2", "a3", "b1"},
   samples_per_cidr |-> samples_per_cidr, max_candidates |-> max_candidates,
   concurrency |-> concurrency, probes |-> probes]
\* Overlapping candidates of both families, an excluded one, none in the ranges,
\* more than there is room for, and three probes.
MCRounds ==
  {RoundOf(<<{"a1", "a2"}, {"foreign"}, {"b1"}, {"a1"}>>, {}, 2, 4, 2, 2),
   RoundOf(<<{"a1", "a2", "a3"}>>, {"a3"}, 3, 3, 1, 2),
   RoundOf(<<{"foreign"}>>, {}, 1, 1, 1, 1),
   RoundOf(<<{"a1", "a2"}, {"a2", "a3"}>>, {}, 2, 3, 2, 1),
   RoundOf(<<{"a1", "a2"}>>, {}, 2, 2, 1, 3)}

RoundRest ==
  /\ cfg = RoundOf(<<{"foreign"}>>, {}, 1, 1, 1, 1)
  /\ networks = << >> /\ chosen = << >> /\ queue = << >> /\ workers = {}
  /\ samples = [x \in Addresses |-> << >>] /\ verified = {}
  /\ best = [f \in Families |-> {}] /\ passed = {} /\ round = "clear"

-----------------------------------------------------------------------------
Parts == {"layers", "service", "rewriting", "matching", "decoding", "optimizing"}

MCInit ==
  /\ part \in Parts
  /\ IF part = "layers" THEN Init ELSE LayersRest
  /\ IF part = "service" THEN ServiceInit ELSE ServiceRest
  /\ IF part = "rewriting" THEN RewritingInit ELSE RewritingRest
  /\ IF part = "matching" THEN MatchingInit ELSE MatchingRest
  /\ IF part = "decoding" THEN DecodingInit ELSE DecodingRest
  /\ IF part = "optimizing" THEN RoundInit ELSE RoundRest

MCNext ==
  \/ part = "layers" /\ Next
       /\ UNCHANGED <<part, service, rewriting, matching, decoding, optimizing>>
  \/ part = "service" /\ ServiceNext
       /\ UNCHANGED <<part, vars, rewriting, matching, decoding, optimizing>>
  \/ part = "rewriting" /\ RewritingNext
       /\ UNCHANGED <<part, vars, service, matching, decoding, optimizing>>
  \/ part = "matching" /\ MatchingNext
       /\ UNCHANGED <<part, vars, service, rewriting, decoding, optimizing>>
  \/ part = "decoding" /\ DecodingNext
       /\ UNCHANGED <<part, vars, service, rewriting, matching, optimizing>>
  \/ part = "optimizing" /\ RoundNext
       /\ UNCHANGED <<part, vars, service, rewriting, matching, decoding>>

MCSpec ==
  /\ MCInit
  /\ [][MCNext]_<<part, vars, service, rewriting, matching, decoding, optimizing>>
  /\ WF_vars(Next) /\ ServiceFairness

\* The rewriting alone.
PluginSpec ==
  /\ MCInit /\ part = "rewriting"
  /\ [][MCNext]_<<part, vars, service, rewriting, matching, decoding, optimizing>>
=============================================================================
