----------------------------- MODULE AnswerRewriting -----------------------------
(***************************************************************************)
(* The cloudflare_preferred plugin (src/src/plugins.rs): what it makes of an *)
(* answer, given the active ranges and the addresses the gate lets through.  *)
(* A record is its type and what the plugin looks at; the addresses of a     *)
(* hint are a set, for the plugin asks of each and replaces all.             *)
(***************************************************************************)
EXTENDS Subsequences, Functions

CONSTANTS
  Inside,   \* addresses in the active ranges, of either family
  Outside,  \* addresses that are not
  Absent,   \* no preferred address, or a record without that hint
  Messages, \* answers a resolver may return
  Offers    \* preferred addresses: [ipv4, ipv6]

VARIABLES
  answer,     \* the message
  preferred,  \* PreferredIps, after the gate
  rewritten   \* the plugin has run

rewriting == <<answer, preferred, rewritten>>

\* The records of an answer.  ttl: that of the resolver or rewrite_ttl_secs.
Address(type, a, ttl) == [type |-> type, address |-> a, ttl |-> ttl]
\* HTTPS stands for SVCB, too.
Service(hint4, hint6, ttl) ==
  [type |-> "HTTPS", ipv4hint |-> hint4, ipv6hint |-> hint6, ttl |-> ttl]
Other(type) == [type |-> type, ttl |-> "resolver"]

Known == Inside \cup Outside
Ttls == {"resolver", "rewrite"}
Records ==
  LET hint == {Absent} \cup SUBSET Known
  IN [type : {"A", "AAAA"}, address : Known, ttl : Ttls]
       \cup [type : {"HTTPS"}, ipv4hint : hint, ipv6hint : hint, ttl : Ttls]
       \cup [type : {"RRSIG", "CNAME"}, ttl : Ttls]

\* An address is in the ranges or it is not.  A record may have any other type,
\* of which one stands for all.
ASSUME MessagesOK ==
  /\ Inside \cap Outside = {}
  /\ Messages \subseteq [answers : Seq(Records), name_servers : Seq(Records),
                          additionals : Seq(Records), ad : BOOLEAN, dnssec_ok : BOOLEAN]

RewritingInit == answer \in Messages /\ preferred \in Offers /\ rewritten = FALSE

\* Mutant: one verified address vouches for the others.
AllVerified_some(addresses) == addresses \cap Inside # {}
\* all_cloudflare_addresses, all_cloudflare_svcb_hints: there is one, and all are.
AllVerified(addresses) == addresses # {} /\ addresses \subseteq Inside

AddressesOf(records, type) == {r.address : r \in {s \in Range(records) : s.type = type}}

\* rewrite_ipv4_records and rewrite_ipv6_records
RewriteAddresses(records, type, offer) ==
  IF offer = Absent \/ ~AllVerified(AddressesOf(records, type)) THEN records
  ELSE [i \in DOMAIN records |->
          IF records[i].type = type THEN Address(type, offer, "rewrite") ELSE records[i]]

RewrittenHint(hint, offer) ==
  IF offer # Absent /\ hint # Absent /\ AllVerified(hint) THEN {offer} ELSE hint
IsRewritable(hint, offer) == offer # Absent /\ hint # Absent /\ AllVerified(hint)

\* rewrite_svcb_records: each record by itself, each family by itself.
RewriteServices(records, offer) ==
  [i \in DOMAIN records |->
     LET r == records[i] IN
     IF /\ r.type = "HTTPS"
        /\ IsRewritable(r.ipv4hint, offer.ipv4) \/ IsRewritable(r.ipv6hint, offer.ipv6)
     THEN Service(RewrittenHint(r.ipv4hint, offer.ipv4),
                  RewrittenHint(r.ipv6hint, offer.ipv6), "rewrite")
     ELSE r]

Unsigned(records) ==
  Subsequence(records, {i \in DOMAIN records : records[i].type # "RRSIG"})

\* clear_dnssec_state
WithoutDnssec(m) ==
  [m EXCEPT !.ad = FALSE, !.dnssec_ok = FALSE, !.answers = Unsigned(@),
            !.name_servers = Unsigned(@), !.additionals = Unsigned(@)]

\* rewrite_cloudflare_response
Rewrite(m, offer) ==
  LET first   == RewriteAddresses(m.answers, "A", offer.ipv4)
      second  == RewriteAddresses(first, "AAAA", offer.ipv6)
      records == RewriteServices(second, offer)
  IN IF records = m.answers THEN m ELSE WithoutDnssec([m EXCEPT !.answers = records])

\* apply_response_plugin
Applies ==
  /\ ~rewritten
  /\ rewritten' = TRUE
  /\ answer' = Rewrite(answer, preferred)
  /\ UNCHANGED preferred

RewritingNext == Applies
RewritingSpec == RewritingInit /\ [][RewritingNext]_rewriting

-----------------------------------------------------------------------------
(* Properties.                                                              *)

\* Every address a client may connect to, by the part of the answer it is in.
Hints(records, key) ==
  UNION {r[key] : r \in {s \in Range(records) : s.type = "HTTPS" /\ s[key] # Absent}}
Reachable(records) ==
  AddressesOf(records, "A") \cup AddressesOf(records, "AAAA")
    \cup Hints(records, "ipv4hint") \cup Hints(records, "ipv6hint")
OtherRecords(records) ==
  Subsequence(records, {i \in DOMAIN records :
                          records[i].type \notin {"A", "AAAA", "HTTPS", "RRSIG"}})

\* What becomes of addresses that are judged together.
Judged(addresses, offer) ==
  IF offer # Absent /\ addresses # {} /\ addresses \subseteq Inside THEN {offer} ELSE addresses
JudgedHint(hint, offer) == IF hint = Absent THEN Absent ELSE Judged(hint, offer)

\* Record by record: the same types, and every hint judged by itself.
HintsAreJudged(before, after, offer) ==
  /\ DOMAIN after = DOMAIN before
  /\ \A i \in DOMAIN before :
       /\ after[i].type = before[i].type
       /\ before[i].type = "HTTPS" =>
            /\ after[i].ipv4hint = JudgedHint(before[i].ipv4hint, offer.ipv4)
            /\ after[i].ipv6hint = JudgedHint(before[i].ipv6hint, offer.ipv6)

\* What a step may do to the answer.
KeepsForeign ==
  LET before == answer.answers
      after  == answer'.answers
  IN /\ Reachable(before) \cap Outside \subseteq Reachable(after)
     /\ Reachable(after) \subseteq Reachable(before) \cup {preferred.ipv4, preferred.ipv6}
     /\ AddressesOf(after, "A") = Judged(AddressesOf(before, "A"), preferred.ipv4)
     /\ AddressesOf(after, "AAAA") = Judged(AddressesOf(before, "AAAA"), preferred.ipv6)
     /\ HintsAreJudged(Unsigned(before), Unsigned(after), preferred)
     /\ OtherRecords(after) = OtherRecords(before)
     /\ \/ answer' = answer
        \/ /\ ~answer'.ad /\ ~answer'.dnssec_ok
           /\ \A section \in {"answers", "name_servers", "additionals"} :
                Unsigned(answer'[section]) = answer'[section]

\* No address outside the ranges is dropped from an answer, and none is invented.
\* What is judged together (all A records, all AAAA records, each hint of each
\* record) is replaced together if all of it is inside, and stays otherwise; other
\* records stay.  An answer that was changed claims no DNSSEC in any section, one
\* that was not keeps all the claims it had.  Of the answer as a whole nothing is
\* said: see MixedIsLeftAlone.
ForeignIsKept == [][KeepsForeign]_rewriting

\* "Mixed answers, non-Cloudflare addresses, missing preferred values, and responses
\* without rewriteable records are returned unchanged" (docs/en/configuration.md:260):
\* rewrite_cloudflare_response changes nothing in an answer with a foreign address.
MixedIsLeftAlone ==
  [][Reachable(answer.answers) \cap Outside # {} => answer' = answer]_rewriting
=============================================================================
