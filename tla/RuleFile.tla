--------------------------------- MODULE RuleFile ---------------------------------
(***************************************************************************)
(* What the domain rule sets are read from and asked for                    *)
(* (src/src/rule_sets.rs): the variable-length integers of an SRS file, and *)
(* the succinct trie that sing-box writes and SrsDomainMatcher walks.       *)
(*                                                                         *)
(* Characters are their codes, all above the two codes that are labels of   *)
(* rules: a name is asked for with its unprintable characters escaped.  A   *)
(* trie is given by the positions of the one bits of its label bitmap, its  *)
(* labels, and the nodes that are leaves; the 64-bit words that hold the    *)
(* bits are left out.                                                       *)
(***************************************************************************)
EXTENDS Naturals, SequencesExt, FiniteSetsExt

CONSTANTS
  Rules,     \* sets of [name, kind]: what a rule set says
  Names,     \* domains that are asked for
  GroupBits, \* bits a byte of an integer carries; 7
  Width      \* of an integer; 64

RootLabel   == 10
PrefixLabel == 13
Dot         == 46

ASSUME WidthOK == GroupBits \in Nat \ {0} /\ Width \in Nat /\ Width > GroupBits

\* Of a name that a rule has or that is asked for.
Character == {c \in Nat : c > PrefixLabel}
IsName(name) == name \in Seq(Character)

ASSUME WrittenOK ==
  \A rs \in Rules :
    /\ rs # {} /\ IsFiniteSet(rs)
    /\ \A r \in rs : IsName(r.name) /\ r.kind \in {"exact", "suffix", "prefix"}
ASSUME NamesOK == \A name \in Names : IsName(name)

VARIABLES
  rules,    \* history: what the writer was given
  asked,    \* the domain
  trie,     \* SrsDomainMatcher, as it is in the file
  at,       \* characters of the reversed domain that are behind
  node, index,
  outcome   \* "parsing", "searching", "yes", "no" or "refused"

VARIABLES
  bytes,    \* history: the bits of the bytes that were read
  value,
  integer   \* "reading", "read" or "refused"

matching == <<rules, asked, trie, at, node, index, outcome>>
decoding == <<bytes, value, integer>>

-----------------------------------------------------------------------------
(* The file, as sing-box writes it.                                         *)

\* The reversed name; a suffix rule has a label of its own at the end.
KeyOf(rule) ==
  Reverse(rule.name) \o
    (CASE rule.kind = "exact"  -> << >>
       [] rule.kind = "suffix" -> <<RootLabel>>
       [] rule.kind = "prefix" -> <<PrefixLabel>>)

\* The nodes are the prefixes of the keys, level by level.
Nodes(keys) == UNION {{SubSeq(key, 1, n) : n \in 0 .. Len(key)} : key \in keys}
Before(m, n) ==
  \/ Len(m) < Len(n)
  \/ Len(m) = Len(n) /\ \E i \in DOMAIN m : m[i] < n[i] /\ \A j \in 1 .. i - 1 : m[j] = n[j]

\* A node's number, the node of a number, and the number of its parent.
IdOf(nodes) == [n \in nodes |-> Cardinality({m \in nodes : Before(m, n)})]
NodeAt(nodes) ==
  LET id == IdOf(nodes) IN [i \in 0 .. Cardinality(nodes) - 1 |-> CHOOSE n \in nodes : id[n] = i]
ParentOf(nodes) ==
  LET id == IdOf(nodes) IN [i \in 1 .. Cardinality(nodes) - 1 |-> id[Front(NodeAt(nodes)[i])]]

\* Where the one of node i is, if a node writes a zero for each child and a one.
OneOf(nodes, i) == i + Cardinality({j \in 1 .. Cardinality(nodes) - 1 : ParentOf(nodes)[j] <= i})

TrieOf(keys) ==
  LET nodes == Nodes(keys)
  IN [ones   |-> {OneOf(nodes, i) : i \in 0 .. Cardinality(nodes) - 1},
      labels |-> [j \in 1 .. Cardinality(nodes) - 1 |-> Last(NodeAt(nodes)[j])],
      leaves |-> {IdOf(nodes)[key] : key \in keys}]

-----------------------------------------------------------------------------
(* SrsDomainMatcher.                                                        *)

\* count_zeroes: zeroes before a position.
CountZeroes(end) == end - Cardinality({p \in trie.ones : p < end})
OnePosition(i) == CHOOSE p \in trie.ones : Cardinality({q \in trie.ones : q < p}) = i

HasLabel == index - node + 1 \in DOMAIN trie.labels
Label    == trie.labels[index - node + 1]
Current  == Reverse(asked)[at + 1]
AtEnd    == at = Len(asked)

MatchingInit ==
  /\ rules \in Rules /\ asked \in Names
  /\ trie = TrieOf({KeyOf(r) : r \in rules})
  /\ at = 0 /\ node = 0 /\ index = 0
  /\ outcome = "parsing"

\* SrsDomainMatcher::parse: as many ones as nodes, as many labels as edges.
Counts ==
  LET zeroes == Max(trie.ones) + 1 - Cardinality(trie.ones) IN
  /\ Cardinality(trie.ones) = zeroes + 1
  /\ Len(trie.labels) = zeroes
ParsesTrie ==
  /\ outcome = "parsing"
  /\ outcome' = IF trie.ones # {} /\ Counts THEN "searching" ELSE "refused"
  /\ UNCHANGED <<rules, asked, trie, at, node, index>>

Concludes(verdict) ==
  /\ outcome' = verdict
  /\ UNCHANGED <<rules, asked, trie, at, node, index>>

\* The node has no more labels.
Exhausted ==
  /\ outcome = "searching"
  /\ ~(AtEnd /\ node \in trie.leaves)
  /\ index \in trie.ones \/ ~HasLabel
  /\ Concludes("no")

\* Mutant: a suffix rule matches whatever ends with its name.
SuffixMatches_anywhere ==
  \/ Label = PrefixLabel
  \/ Label = RootLabel /\ CountZeroes(index + 1) \in trie.leaves
\* In the middle of the domain: a prefix label, or a root label before a dot.
SuffixMatches ==
  \/ Label = PrefixLabel
  \/ Label = RootLabel /\ Current = Dot /\ CountZeroes(index + 1) \in trie.leaves

\* A label before which the search would have been exhausted.
SeesLabel == outcome = "searching" /\ index \notin trie.ones /\ HasLabel

FindsSuffix ==
  /\ SeesLabel /\ ~AtEnd
  /\ SuffixMatches
  /\ Concludes("yes")

\* The label is the character: on to the child, whose bits follow the one of the
\* node before it.
Descends ==
  /\ SeesLabel /\ ~AtEnd
  /\ ~SuffixMatches
  /\ Label = Current
  /\ LET child == CountZeroes(index + 1) IN
       IF child - 1 \in 0 .. Cardinality(trie.ones) - 1
       THEN /\ node' = child
            /\ index' = OnePosition(child - 1) + 1
            /\ at' = at + 1
            /\ UNCHANGED outcome
       ELSE outcome' = "no" /\ UNCHANGED <<node, index, at>>
  /\ UNCHANGED <<rules, asked, trie>>

PassesLabel ==
  /\ SeesLabel
  /\ IF AtEnd THEN node \notin trie.leaves /\ Label \notin {PrefixLabel, RootLabel}
              ELSE ~SuffixMatches /\ Label # Current
  /\ index' = index + 1
  /\ UNCHANGED <<rules, asked, trie, at, node, outcome>>

\* The whole domain is behind: it is a key, or the end of a suffix rule's name.
EndsAtLeaf ==
  /\ outcome = "searching" /\ AtEnd
  /\ node \in trie.leaves
  /\ Concludes("yes")
EndsAtSuffix ==
  /\ SeesLabel /\ AtEnd
  /\ node \notin trie.leaves
  /\ Label \in {PrefixLabel, RootLabel}
  /\ Concludes("yes")

MatchingNext ==
  ParsesTrie \/ Exhausted \/ FindsSuffix \/ Descends \/ PassesLabel \/ EndsAtLeaf \/ EndsAtSuffix

MatchingSpec == MatchingInit /\ [][MatchingNext]_matching

-----------------------------------------------------------------------------
(* Integers.                                                                *)

Pow2[n \in 0 .. Width] == IF n = 0 THEN 1 ELSE 2 * Pow2[n - 1]

DecodingInit == bytes = << >> /\ value = 0 /\ integer = "reading"

MaxBytes == (Width + GroupBits - 1) \div GroupBits

\* Mutant: the bits of the last byte are not looked at.
Overflows_never(bits) == FALSE
\* The last byte of an integer of the whole width has little room.
Overflows(bits) ==
  Len(bytes) = MaxBytes - 1 /\ bits >= Pow2[Width - GroupBits * (MaxBytes - 1)]

\* read_uvarint.  The bits are above those of the value, so the disjunction is a sum.
ReadsByte(bits, more) ==
  /\ integer = "reading"
  /\ bytes' = Append(bytes, bits)
  /\ IF Overflows(bits) THEN integer' = "refused" /\ UNCHANGED value
     ELSE /\ value' = (value + bits * Pow2[GroupBits * Len(bytes)]) % Pow2[Width]
          /\ integer' = IF ~more THEN "read"
                        ELSE IF Len(bytes') = MaxBytes THEN "refused" ELSE "reading"

DecodingNext == \E bits \in 0 .. Pow2[GroupBits] - 1, more \in BOOLEAN : ReadsByte(bits, more)

DecodingSpec == DecodingInit /\ [][DecodingNext]_decoding

-----------------------------------------------------------------------------
(* Properties.                                                              *)

Denotes(rule, name) ==
  CASE rule.kind = "exact"  -> name = rule.name
    [] rule.kind = "suffix" -> name = rule.name \/ IsSuffix(<<Dot>> \o rule.name, name)
    [] rule.kind = "prefix" -> IsSuffix(rule.name, name)

\* The walk through the bits of the trie says what the rules say, for every set
\* of rules and every domain, and the file of no such set is refused.
MatchIsExact ==
  /\ outcome # "refused"
  /\ outcome \in {"yes", "no"} =>
       (outcome = "yes" <=> \E r \in rules : Denotes(r, asked))

\* The number that groups of bits are, the lowest first.
NumberOf(groups) ==
  LET first[n \in 0 .. Len(groups)] ==
        IF n = 0 THEN 0 ELSE first[n - 1] + groups[n] * Pow2[GroupBits * (n - 1)]
  IN first[Len(groups)]

\* An integer that is read is the one that was written, and one is refused only
\* if it does not fit or does not end.
IntegerIsExact ==
  /\ integer = "read" => value = NumberOf(bytes)
  /\ integer = "refused" => Len(bytes) = MaxBytes
=============================================================================
