---------------------------- MODULE Configuration_proofs ----------------------------
(***************************************************************************)
(* The configuration: which graphs are accepted, and what the settings     *)
(* window makes of the file.                                               *)
(***************************************************************************)
EXTENDS LayerGraph, SettingsDocument, Integers, SequenceTheorems, Subsequences_proofs

-----------------------------------------------------------------------------
(***************************************************************************)
(* validate_layer_graph decides acyclicity exactly, for every graph.        *)
(*                                                                         *)
(* SearchInv is inductive.  Accepting needs that every layer is completed   *)
(* and that the completed layers hold no cycle; rejecting needs that the    *)
(* markers from the repeated layer upwards, with the layer just popped,     *)
(* each have a successor among themselves.                                  *)
(***************************************************************************)

Element == [tag : Layers, exiting : BOOLEAN]

\* What stack.pop() leaves.
LEMMA PoppedProperties ==
  ASSUME stack \in Seq(Element), stack # << >>
  PROVE  /\ Popped \in Seq(Element)
         /\ Len(stack) \in Nat \ {0}
         /\ Len(Popped) = Len(stack) - 1
         /\ \A i \in 1 .. Len(stack) - 1 : Popped[i] = stack[i]
         /\ Top \in Element /\ Top = stack[Len(stack)]
         /\ \A i \in 1 .. Len(stack) : stack[i] \in Element
<1>1. Len(stack) \in Nat \ {0}
  BY EmptySeq, LenProperties
<1>2. \A i \in 1 .. Len(stack) : stack[i] \in Element
  BY ElementOfSeq
<1>3. Len(stack) - 1 \in Int /\ \A i \in 1 .. Len(stack) - 1 : stack[i] \in Element
  BY <1>1, <1>2
<1>4. /\ Popped \in Seq(Element)
      /\ \A i \in 1 .. (Len(stack) - 1) - 1 + 1 : Popped[i] = stack[1 + i - 1]
  BY <1>3, SubSeqProperties DEF Popped
<1>5. \A i \in 1 .. Len(stack) - 1 : Popped[i] = stack[i]
  BY <1>1, <1>4
<1>6. Len(Popped) = Len(stack) - 1
  <2> DEFINE n == Len(stack) - 1
  <2>1. n \in Nat
    BY <1>1
  <2>2. Len(SubSeq(stack, 1, n)) = IF 1 <= n THEN n - 1 + 1 ELSE 0
    BY <1>3, SubSeqProperties
  <2>3. Popped = SubSeq(stack, 1, n)
    BY DEF Popped
  <2> HIDE DEF n
  <2>4. (IF 1 <= n THEN n - 1 + 1 ELSE 0) = n
    BY <2>1
  <2>5. Len(Popped) = n
    BY <2>2, <2>3, <2>4
  <2> QED
    BY <2>5 DEF n
<1> QED
  BY <1>1, <1>2, <1>4, <1>5, <1>6 DEF Top

\* The places of at most two elements pushed on top of n others.
LEMMA TwoPushed ==
  ASSUME NEW n \in Nat, NEW a \in 0 .. 1, NEW b \in 0 .. 1
  PROVE  /\ \A i \in n + 1 .. n + a + b : (a = 1 /\ i = n + 1) \/ (b = 1 /\ i = n + a + 1)
         /\ a = 1 => n + 1 \in n + 1 .. n + a + b /\ n + 1 \in 1 .. n + a
         /\ b = 1 => n + a + 1 \in n + 1 .. n + a + b
         /\ n + a + b \in Nat /\ n + a \in Nat /\ n <= n + a + b
         /\ \A i \in 1 .. n : i \in 1 .. n + a
  OBVIOUS

\* Pushing at most one element.
LEMMA ConcatOne ==
  ASSUME NEW s \in Seq(Element), NEW t \in Seq(Element), Len(t) \in 0 .. 1
  PROVE  /\ s \o t \in Seq(Element)
         /\ Len(s) \in Nat
         /\ Len(s \o t) = Len(s) + Len(t)
         /\ \A i \in 1 .. Len(s) : (s \o t)[i] = s[i]
         /\ Len(t) = 1 => (s \o t)[Len(s) + 1] = t[1]
<1>1. Len(s) \in Nat
  BY LenProperties
<1>2. /\ s \o t \in Seq(Element)
      /\ Len(s \o t) = Len(s) + Len(t)
      /\ \A i \in 1 .. Len(s) + Len(t) :
           (s \o t)[i] = IF i <= Len(s) THEN s[i] ELSE t[i - Len(s)]
  BY ConcatProperties
<1>3. \A i \in 1 .. Len(s) : i \in 1 .. Len(s) + Len(t) /\ i <= Len(s)
  BY <1>1
<1>4. Len(t) = 1 => /\ Len(s) + 1 \in 1 .. Len(s) + Len(t)
                    /\ ~(Len(s) + 1 <= Len(s))
                    /\ Len(s) + 1 - Len(s) = 1
  BY <1>1
<1> QED
  BY <1>1, <1>2, <1>3, <1>4

LEMMA PushingProperties ==
  ASSUME NEW l \in Layers \cup {None}
  PROVE  /\ Pushing(l) \in Seq(Element)
         /\ Len(Pushing(l)) \in 0 .. 1
         /\ Len(Pushing(l)) = 1 => l # None /\ Pushing(l)[1] = Entering(l)
         /\ l # None => l \in completed \/ Len(Pushing(l)) = 1
<1>1. CASE l = None \/ l \in completed
  BY <1>1 DEF Pushing
<1>2. CASE l # None /\ l \notin completed
  <2>1. Pushing(l) = <<Entering(l)>> /\ Entering(l) \in Element
    BY <1>2 DEF Pushing, Entering, Element
  <2> QED
    BY <1>2, <2>1
<1> QED
  BY <1>1, <1>2

\* What entering a layer leaves on the stack: its marker in its place and its
\* uncompleted successors above.
LEMMA EntersProperties ==
  ASSUME TypeOK, Enters
  PROVE  /\ stack' \in Seq(Element)
         /\ Len(stack) \in Nat \ {0} /\ Len(stack') \in Nat
         /\ Len(stack) <= Len(stack')
         /\ \A i \in 1 .. Len(stack) - 1 : stack'[i] = stack[i]
         /\ stack'[Len(stack)] = Exiting(Top.tag)
         /\ \A i \in Len(stack) + 1 .. Len(stack') :
              /\ ~stack'[i].exiting
              /\ stack'[i].tag \in Successors(graph, Top.tag)
         /\ \A m \in Successors(graph, Top.tag) :
              m \in completed
                \/ \E i \in Len(stack) + 1 .. Len(stack') : stack'[i].tag = m
<1> DEFINE next == graph[Top.tag].next
           fallback == graph[Top.tag].fallback
           base == Popped \o <<Exiting(Top.tag)>>
           withNext == base \o Pushing(next)
<1>1. stack \in Seq(Element) /\ stack # << >>
  BY DEF TypeOK, Enters, Pops, Element
<1>2. /\ Popped \in Seq(Element) /\ Len(stack) \in Nat \ {0}
      /\ Len(Popped) = Len(stack) - 1
      /\ \A i \in 1 .. Len(stack) - 1 : Popped[i] = stack[i]
      /\ Top \in Element
  BY <1>1, PoppedProperties
<1>3. /\ next \in Layers \cup {None} /\ fallback \in Layers \cup {None}
      /\ Top.tag \in Layers
  BY <1>2 DEF TypeOK, Graphs, Element
<1>4. /\ <<Exiting(Top.tag)>> \in Seq(Element)
      /\ Len(<<Exiting(Top.tag)>>) = 1
      /\ <<Exiting(Top.tag)>>[1] = Exiting(Top.tag)
  BY <1>3 DEF Exiting, Element
<1>5. /\ base \in Seq(Element) /\ Len(base) = Len(stack)
      /\ \A i \in 1 .. Len(stack) - 1 : base[i] = stack[i]
      /\ base[Len(stack)] = Exiting(Top.tag)
  <2>1. /\ base \in Seq(Element) /\ Len(base) = Len(Popped) + 1
        /\ \A i \in 1 .. Len(Popped) : base[i] = Popped[i]
        /\ base[Len(Popped) + 1] = Exiting(Top.tag)
    BY <1>2, <1>4, ConcatOne
  <2> QED
    BY <1>2, <2>1
<1>6. /\ Pushing(next) \in Seq(Element) /\ Len(Pushing(next)) \in 0 .. 1
      /\ Len(Pushing(next)) = 1 => next # None /\ Pushing(next)[1] = Entering(next)
      /\ next # None => next \in completed \/ Len(Pushing(next)) = 1
  BY <1>3, PushingProperties
<1>7. /\ Pushing(fallback) \in Seq(Element) /\ Len(Pushing(fallback)) \in 0 .. 1
      /\ Len(Pushing(fallback)) = 1
           => fallback # None /\ Pushing(fallback)[1] = Entering(fallback)
      /\ fallback # None => fallback \in completed \/ Len(Pushing(fallback)) = 1
  BY <1>3, PushingProperties
<1> HIDE DEF next, fallback, base
<1> DEFINE n == Len(stack)
           a == Len(Pushing(next))
           b == Len(Pushing(fallback))
<1>8. /\ withNext \in Seq(Element)
      /\ Len(withNext) = n + a
      /\ \A i \in 1 .. n : withNext[i] = base[i]
      /\ a = 1 => withNext[n + 1] = Entering(next)
  <2>1. /\ withNext \in Seq(Element)
        /\ Len(withNext) = Len(base) + a
        /\ \A i \in 1 .. Len(base) : withNext[i] = base[i]
        /\ a = 1 => withNext[Len(base) + 1] = Pushing(next)[1]
    BY <1>5, <1>6, ConcatOne
  <2> QED
    BY <2>1, <1>5, <1>6
<1>9. stack' = withNext \o Pushing(fallback)
  BY DEF Enters, base, next, fallback
<1> HIDE DEF withNext
<1>10. /\ stack' \in Seq(Element)
       /\ Len(stack') = n + a + b
       /\ \A i \in 1 .. n + a : stack'[i] = withNext[i]
       /\ b = 1 => stack'[n + a + 1] = Entering(fallback)
  <2>1. /\ stack' \in Seq(Element)
        /\ Len(stack') = Len(withNext) + b
        /\ \A i \in 1 .. Len(withNext) : stack'[i] = withNext[i]
        /\ b = 1 => stack'[Len(withNext) + 1] = Pushing(fallback)[1]
    BY <1>7, <1>8, <1>9, ConcatOne
  <2> QED
    BY <2>1, <1>7, <1>8
<1>11. n \in Nat \ {0} /\ a \in 0 .. 1 /\ b \in 0 .. 1
  BY <1>2, <1>6, <1>7
<1> HIDE DEF n, a, b
<1>12. /\ \A i \in n + 1 .. n + a + b : (a = 1 /\ i = n + 1) \/ (b = 1 /\ i = n + a + 1)
       /\ a = 1 => n + 1 \in n + 1 .. n + a + b /\ n + 1 \in 1 .. n + a
       /\ b = 1 => n + a + 1 \in n + 1 .. n + a + b
       /\ n + a + b \in Nat /\ n + a \in Nat /\ n <= n + a + b
       /\ \A i \in 1 .. n : i \in 1 .. n + a
  BY <1>11, TwoPushed
<1>13. a = 1 => stack'[n + 1] = Entering(next) /\ next # None
  BY <1>6, <1>8, <1>10, <1>12 DEF a
<1>14. b = 1 => stack'[n + a + 1] = Entering(fallback) /\ fallback # None
  BY <1>7, <1>10 DEF b
<1>15. \A l : ~Entering(l).exiting /\ Entering(l).tag = l
  BY DEF Entering
<1>16. Successors(graph, Top.tag) = {next, fallback} \ {None}
  BY DEF Successors, next, fallback
<1>17. \A i \in n + 1 .. n + a + b :
         ~stack'[i].exiting /\ stack'[i].tag \in Successors(graph, Top.tag)
  BY <1>12, <1>13, <1>14, <1>15, <1>16
<1>18. next # None => next \in completed
                        \/ \E i \in n + 1 .. n + a + b : stack'[i].tag = next
  BY <1>6, <1>12, <1>13, <1>15 DEF a
<1>19. fallback # None => fallback \in completed
                        \/ \E i \in n + 1 .. n + a + b : stack'[i].tag = fallback
  BY <1>7, <1>12, <1>14, <1>15 DEF b
<1>20. /\ \A i \in 1 .. n : stack'[i] = base[i]
       /\ \A i \in 1 .. n - 1 : base[i] = stack[i]
       /\ base[n] = Exiting(Top.tag)
  BY <1>5, <1>8, <1>10, <1>12 DEF n
<1>21. n \in 1 .. n /\ \A i \in 1 .. n - 1 : i \in 1 .. n
  BY <1>11
<1>22. /\ \A i \in 1 .. n - 1 : stack'[i] = stack[i]
       /\ stack'[n] = Exiting(Top.tag)
  BY <1>20, <1>21
<1>23. \A m \in Successors(graph, Top.tag) :
         m \in completed \/ \E i \in n + 1 .. n + a + b : stack'[i].tag = m
  BY <1>16, <1>18, <1>19
<1>24. Len(stack') = n + a + b /\ n = Len(stack)
  BY <1>10 DEF n
<1> QED
  BY <1>10, <1>11, <1>12, <1>17, <1>22, <1>23, <1>24

-----------------------------------------------------------------------------
(* Popping.                                                                 *)

\* A pop that leaves the graph alone: the entries below keep their places.
LEMMA AfterPop ==
  ASSUME SearchInv, Pops, stack' = Popped
  PROVE  /\ stack' \in Seq(Element)
         /\ Len(stack) \in Nat \ {0} /\ Len(stack') = Len(stack) - 1
         /\ Top = stack[Len(stack)] /\ Top.tag \in Layers
         /\ Entries = 1 .. Len(stack) /\ Entries' = 1 .. Len(stack) - 1
         /\ \A i \in Entries' : i \in Entries /\ i < Len(stack) /\ stack'[i] = stack[i]
         /\ \A i \in Entries : i = Len(stack) \/ i \in Entries'
         /\ \A i \in Entries' : Exit(i)' <=> Exit(i)
         /\ Len(stack) \in Entries
         /\ stack' # << >> => 1 \in Entries'
         /\ stack' = << >> => Len(stack) = 1
<1>1. stack \in Seq(Element) /\ stack # << >>
  BY DEF SearchInv, TypeOK, Pops, Element
<1>2. /\ stack' \in Seq(Element)
      /\ Len(stack) \in Nat \ {0} /\ Len(stack') = Len(stack) - 1
      /\ \A i \in 1 .. Len(stack) - 1 : stack'[i] = stack[i]
      /\ Top = stack[Len(stack)] /\ Top \in Element
  BY <1>1, PoppedProperties
<1>3. Entries = 1 .. Len(stack) /\ Entries' = 1 .. Len(stack) - 1
  BY <1>2 DEF Entries
<1>4. \A i \in Entries' : i \in Entries /\ i < Len(stack) /\ stack'[i] = stack[i]
  BY <1>2, <1>3
<1>5. \A i \in Entries : i = Len(stack) \/ i \in Entries'
  BY <1>2, <1>3
<1>6. \A i \in Entries' : Exit(i)' <=> Exit(i)
  BY <1>4 DEF Exit
<1>7. stack' # << >> => 1 \in Entries'
  <2>1. stack' # << >> => Len(stack') \in Nat \ {0}
    BY <1>2, EmptySeq
  <2> QED
    BY <1>2, <1>3, <2>1
<1>8. stack' = << >> => Len(stack) = 1
  <2>1. Len(<< >>) = 0
    BY EmptySeq
  <2> QED
    BY <1>2, <2>1
<1>9. Len(stack) \in Entries
  BY <1>2, <1>3
<1> QED
  BY <1>2, <1>3, <1>4, <1>5, <1>6, <1>7, <1>8, <1>9 DEF Element

\* A pop keeps the markers below a path: a path that ended at the popped marker
\* now ends at the top.
LEMMA PopKeepsPath ==
  ASSUME SearchInv, Pops, stack' = Popped, graph' = graph
  PROVE  MarkersAreAPath'
<1> DEFINE n == Len(stack)
<1>1. /\ n \in Nat \ {0} /\ Len(stack') = n - 1
      /\ Entries = 1 .. n /\ Entries' = 1 .. n - 1
      /\ \A i \in Entries' : i \in Entries /\ i < n /\ stack'[i] = stack[i]
      /\ \A i \in Entries' : Exit(i)' <=> Exit(i)
  BY AfterPop
<1> HIDE DEF n
<1>0. Len(stack') + 1 = n
  BY <1>1
<1>2. SUFFICES ASSUME NEW i \in Entries', Exit(i)'
      PROVE  \E top \in 1 .. n :
               /\ i < top
               /\ \A j \in Entries' : i < j /\ j < top =>
                    ~Exit(j)' /\ stack'[j].tag \in Successors(graph, stack'[i].tag)
               /\ top \in Entries' =>
                    Exit(top)' /\ stack'[top].tag \in Successors(graph, stack'[i].tag)
  BY <1>0 DEF MarkersAreAPath
<1>3. i \in Entries /\ Exit(i) /\ stack'[i] = stack[i] /\ i < n
  BY <1>1, <1>2
<1>4. PICK top \in 1 .. n + 1 :
        /\ i < top
        /\ \A j \in Entries : i < j /\ j < top =>
             ~Exit(j) /\ stack[j].tag \in Successors(graph, stack[i].tag)
        /\ top \in Entries =>
             Exit(top) /\ stack[top].tag \in Successors(graph, stack[i].tag)
  BY <1>3 DEF SearchInv, MarkersAreAPath, n
<1>5. CASE top \in Entries'
  <2>1. top \in 1 .. n
    BY <1>1, <1>4, <1>5
  <2>2. Exit(top)' /\ stack'[top].tag \in Successors(graph, stack'[i].tag)
    BY <1>1, <1>3, <1>4, <1>5
  <2>3. \A j \in Entries' : i < j /\ j < top =>
          ~Exit(j)' /\ stack'[j].tag \in Successors(graph, stack'[i].tag)
    BY <1>1, <1>3, <1>4
  <2> QED
    BY <1>4, <2>1, <2>2, <2>3
<1>6. CASE top \notin Entries'
  <2>1. n \in 1 .. n /\ n \notin Entries' /\ (top = n \/ top = n + 1)
    BY <1>1, <1>4, <1>6
  <2>2. \A j \in Entries' : j \in Entries /\ j < top /\ stack'[j] = stack[j]
                              /\ (Exit(j)' <=> Exit(j))
    BY <1>1, <2>1
  <2>3. \A j \in Entries' : i < j =>
          ~Exit(j)' /\ stack'[j].tag \in Successors(graph, stack'[i].tag)
    BY <1>3, <1>4, <2>2
  <2>4. n \in 1 .. n /\ i < n
    BY <1>3, <2>1
  <2> QED
    BY <2>1, <2>3, <2>4
<1> QED
  BY <1>5, <1>6

LEMMA ExitsKeepsInv ==
  ASSUME SearchInv, Exits
  PROVE  SearchInv'
<1> DEFINE n == Len(stack)
           t == Top.tag
<1>1. /\ stack' = Popped /\ Pops /\ Top.exiting
      /\ active' = active \ {t} /\ completed' = completed \cup {t}
      /\ graph' = graph /\ remaining' = remaining /\ verdict' = verdict
      /\ verdict = "searching"
  BY DEF Exits, Pops
<1>2. /\ stack' \in Seq(Element) /\ n \in Nat \ {0}
      /\ Top = stack[n] /\ t \in Layers /\ n \in Entries
      /\ \A i \in Entries' : i \in Entries /\ i < n /\ stack'[i] = stack[i]
      /\ \A i \in Entries : i = n \/ i \in Entries'
      /\ \A i \in Entries' : Exit(i)' <=> Exit(i)
      /\ Entries = 1 .. n
  BY <1>1, AfterPop
<1>3. /\ stack' # << >> => 1 \in Entries'
      /\ stack' = << >> => n = 1
  BY <1>1, AfterPop
<1>4. Exit(n) /\ stack[n].tag = t
  BY <1>1, <1>2 DEF Exit
<1> HIDE DEF n, t
<1>5. TypeOK'
  BY <1>1, <1>2 DEF SearchInv, TypeOK, Element
<1>6. t \in active /\ t \notin completed
  BY <1>2, <1>4 DEF SearchInv, MarkersAreActive
<1>7. MarkersAreActive'
  <2>1. \A l \in Layers : l \in active' <=> \E i \in Entries' : Exit(i)' /\ stack'[i].tag = l
    BY <1>1, <1>2, <1>4 DEF SearchInv, MarkersAreActive
  <2>2. \A i, j \in Entries' :
          Exit(i)' /\ Exit(j)' /\ stack'[i].tag = stack'[j].tag => i = j
    BY <1>2 DEF SearchInv, MarkersAreActive
  <2>3. active' \cap completed' = {}
    BY <1>1 DEF SearchInv, MarkersAreActive
  <2> QED
    BY <2>1, <2>2, <2>3 DEF MarkersAreActive
<1>8. Successors(graph, t) \subseteq completed
  <2>1. \A j \in Entries : ~(n < j)
    BY <1>2
  <2> QED
    BY <1>2, <1>4, <2>1 DEF SearchInv, SuccessorsAreAhead
<1>9. CompletedIsAcyclic'
  <2>1. \A l \in completed' : Successors(graph, l) \subseteq completed
    BY <1>1, <1>8 DEF SearchInv, CompletedIsAcyclic
  <2>2. ASSUME NEW S \in SUBSET completed', S # {}
        PROVE  \E l \in S : Successors(graph, l) \cap S = {}
    <3>1. CASE S \ {t} = {}
      BY <1>1, <1>6, <1>8, <2>2, <3>1
    <3>2. CASE S \ {t} # {}
      <4>1. S \ {t} \in SUBSET completed
        BY <1>1, <2>2
      <4>2. PICK l \in S \ {t} : Successors(graph, l) \cap (S \ {t}) = {}
        BY <3>2, <4>1 DEF SearchInv, CompletedIsAcyclic
      <4>3. Successors(graph, l) \cap S = {}
        BY <1>6, <2>1, <2>2, <4>2
      <4> QED
        BY <4>2, <4>3
    <3> QED
      BY <3>1, <3>2
  <2> QED
    BY <1>1, <2>1, <2>2 DEF CompletedIsAcyclic
<1>10. SuccessorsAreAhead'
  <2>1. SUFFICES ASSUME NEW i \in Entries', Exit(i)', NEW m \in Successors(graph, stack'[i].tag)
                 PROVE  m \in completed' \/ \E j \in Entries' : i < j /\ stack'[j].tag = m
    BY <1>1, <2>1 DEF SuccessorsAreAhead
  <2>2. i \in Entries /\ Exit(i) /\ stack'[i] = stack[i]
    BY <1>2, <2>1
  <2>3. m \in completed \/ \E j \in Entries : i < j /\ stack[j].tag = m
    BY <2>1, <2>2 DEF SearchInv, SuccessorsAreAhead
  <2> QED
    BY <1>1, <1>2, <1>4, <2>3
<1>11. MarkersAreAPath'
  BY <1>1, PopKeepsPath
<1>12. StartsAreFollowed'
  <2>1. \A l \in Layers \ remaining : l \in completed \/ stack[1].tag = l
    BY DEF SearchInv, StartsAreFollowed
  <2>2. CASE stack' = << >>
    BY <1>1, <1>3, <1>4, <2>1, <2>2 DEF StartsAreFollowed
  <2>3. CASE stack' # << >>
    BY <1>1, <1>2, <1>3, <2>1, <2>3 DEF StartsAreFollowed
  <2> QED
    BY <2>2, <2>3
<1>13. ValidationIsExact'
  BY <1>1 DEF ValidationIsExact
<1> QED
  BY <1>5, <1>7, <1>9, <1>10, <1>11, <1>12, <1>13 DEF SearchInv

LEMMA PassesOverKeepsInv ==
  ASSUME SearchInv, PassesOver
  PROVE  SearchInv'
<1> DEFINE n == Len(stack)
<1>1. /\ stack' = Popped /\ Pops /\ ~Top.exiting /\ Top.tag \in completed
      /\ active' = active /\ completed' = completed
      /\ graph' = graph /\ remaining' = remaining /\ verdict' = verdict
  BY DEF PassesOver, Pops
<1>2. /\ stack' \in Seq(Element) /\ n \in Nat \ {0}
      /\ Top = stack[n] /\ n \in Entries
      /\ \A i \in Entries' : i \in Entries /\ i < n /\ stack'[i] = stack[i]
      /\ \A i \in Entries : i = n \/ i \in Entries'
      /\ \A i \in Entries' : Exit(i)' <=> Exit(i)
  BY <1>1, AfterPop
<1>2a. /\ stack' # << >> => 1 \in Entries'
       /\ stack' = << >> => n = 1
  BY <1>1, AfterPop
<1>3. ~Exit(n) /\ stack[n].tag \in completed
  BY <1>1, <1>2 DEF Exit
<1> HIDE DEF n
<1>4. TypeOK'
  BY <1>1, <1>2 DEF SearchInv, TypeOK, Element
<1>5. MarkersAreActive'
  <2>1. \A l \in Layers : l \in active' <=> \E i \in Entries' : Exit(i)' /\ stack'[i].tag = l
    <3> TAKE l \in Layers
    <3>1. ASSUME NEW i \in Entries, Exit(i), stack[i].tag = l
          PROVE  \E j \in Entries' : Exit(j)' /\ stack'[j].tag = l
      <4>1. i \in Entries'
        BY <1>2, <1>3, <3>1
      <4> QED
        BY <1>2, <3>1, <4>1
    <3>2. ASSUME NEW i \in Entries', Exit(i)', stack'[i].tag = l
          PROVE  \E j \in Entries : Exit(j) /\ stack[j].tag = l
      BY <1>2, <3>2
    <3>3. l \in active <=> \E i \in Entries : Exit(i) /\ stack[i].tag = l
      BY DEF SearchInv, MarkersAreActive
    <3> QED
      BY <1>1, <3>1, <3>2, <3>3
  <2>2. \A i, j \in Entries' :
          Exit(i)' /\ Exit(j)' /\ stack'[i].tag = stack'[j].tag => i = j
    BY <1>2 DEF SearchInv, MarkersAreActive
  <2>3. active' \cap completed' = {}
    BY <1>1 DEF SearchInv, MarkersAreActive
  <2> QED
    BY <2>1, <2>2, <2>3 DEF MarkersAreActive
<1>6. CompletedIsAcyclic'
  BY <1>1 DEF SearchInv, CompletedIsAcyclic
<1>7. SuccessorsAreAhead'
  <2>1. SUFFICES ASSUME NEW i \in Entries', Exit(i)', NEW m \in Successors(graph, stack'[i].tag)
                 PROVE  m \in completed' \/ \E j \in Entries' : i < j /\ stack'[j].tag = m
    BY <1>1, <2>1 DEF SuccessorsAreAhead
  <2>2. i \in Entries /\ Exit(i) /\ stack'[i] = stack[i]
    BY <1>2, <2>1
  <2>3. m \in completed \/ \E j \in Entries : i < j /\ stack[j].tag = m
    BY <2>1, <2>2 DEF SearchInv, SuccessorsAreAhead
  <2> QED
    BY <1>1, <1>2, <1>3, <2>3
<1>8. MarkersAreAPath'
  BY <1>1, PopKeepsPath
<1>9. StartsAreFollowed'
  <2>1. \A l \in Layers \ remaining : l \in completed \/ stack[1].tag = l
    BY DEF SearchInv, StartsAreFollowed
  <2>2. CASE stack' = << >>
    BY <1>1, <1>2, <1>2a, <1>3, <2>1, <2>2 DEF StartsAreFollowed
  <2>3. CASE stack' # << >>
    BY <1>1, <1>2, <1>2a, <2>1, <2>3 DEF StartsAreFollowed
  <2> QED
    BY <2>2, <2>3
<1>10. ValidationIsExact'
  BY <1>1 DEF SearchInv, ValidationIsExact
<1> QED
  BY <1>4, <1>5, <1>6, <1>7, <1>8, <1>9, <1>10 DEF SearchInv

-----------------------------------------------------------------------------
(* Pushing.                                                                 *)

LEMMA StartsKeepsInv ==
  ASSUME SearchInv, NEW l \in remaining, Starts(l)
  PROVE  SearchInv'
<1>1. /\ stack = << >> /\ verdict = "searching" /\ verdict' = verdict
      /\ remaining' = remaining \ {l} /\ active' = {}
      /\ graph' = graph /\ completed' = completed
  BY DEF Starts
<1>2. l \in Layers
  BY DEF SearchInv, TypeOK
<1>3. CASE l \in completed
  <2>1. stack' = << >> /\ Len(<< >>) = 0
    BY <1>3 DEF Starts
  <2>2. Entries' = {}
    BY <2>1 DEF Entries
  <2>3. TypeOK'
    BY <1>1, <2>1 DEF SearchInv, TypeOK
  <2>4. StartsAreFollowed'
    BY <1>1, <1>3, <2>1 DEF SearchInv, StartsAreFollowed
  <2>5. CompletedIsAcyclic'
    BY <1>1 DEF SearchInv, CompletedIsAcyclic
  <2> QED
    BY <1>1, <2>2, <2>3, <2>4, <2>5
       DEF SearchInv, MarkersAreActive, SuccessorsAreAhead, MarkersAreAPath,
           ValidationIsExact
<1>4. CASE l \notin completed
  <2>1. stack' = <<Entering(l)>>
    BY <1>4 DEF Starts
  <2>2. /\ stack' \in Seq(Element) /\ Len(stack') = 1 /\ stack'[1] = Entering(l)
        /\ stack' # << >>
    BY <1>2, <2>1 DEF Entering, Element
  <2>3. Entries' = {1} /\ ~Exit(1)'
    BY <2>2 DEF Entries, Exit, Entering
  <2>4. TypeOK'
    BY <1>1, <2>2 DEF SearchInv, TypeOK, Element
  <2>5. stack'[1].tag = l
    BY <2>2 DEF Entering
  <2>6. StartsAreFollowed'
    BY <1>1, <2>2, <2>5 DEF SearchInv, StartsAreFollowed
  <2>7. CompletedIsAcyclic'
    BY <1>1 DEF SearchInv, CompletedIsAcyclic
  <2> QED
    BY <1>1, <2>3, <2>4, <2>6, <2>7
       DEF SearchInv, MarkersAreActive, SuccessorsAreAhead, MarkersAreAPath,
           ValidationIsExact
<1> QED
  BY <1>3, <1>4

LEMMA EntersKeepsInv ==
  ASSUME SearchInv, Enters
  PROVE  SearchInv'
<1> DEFINE t == Top.tag
<1>0. PICK n \in Nat : n = Len(stack)
  BY PoppedProperties DEF SearchInv, TypeOK, Enters, Pops, Element
<1>1. /\ Pops /\ ~Top.exiting /\ t \notin completed /\ ~ClosesCycle(t)
      /\ active' = active \cup {t} /\ completed' = completed
      /\ graph' = graph /\ remaining' = remaining /\ verdict' = verdict
      /\ verdict = "searching"
  BY DEF Enters, Pops
<1>2. /\ stack' \in Seq(Element)
      /\ n \in Nat \ {0} /\ Len(stack') \in Nat /\ n <= Len(stack')
      /\ \A i \in 1 .. n - 1 : stack'[i] = stack[i]
      /\ stack'[n] = Exiting(t)
      /\ \A i \in n + 1 .. Len(stack') :
           ~stack'[i].exiting /\ stack'[i].tag \in Successors(graph, t)
      /\ \A m \in Successors(graph, t) :
           m \in completed \/ \E i \in n + 1 .. Len(stack') : stack'[i].tag = m
  BY <1>0, EntersProperties DEF SearchInv
<1>3. Top = stack[n] /\ t \in Layers
  BY <1>0, PoppedProperties DEF SearchInv, TypeOK, Enters, Pops, Element
<1>4. t \notin active
  BY <1>1 DEF ClosesCycle
<1> HIDE DEF t
<1> DEFINE k == Len(stack')
<1>5. Exiting(t).exiting /\ Exiting(t).tag = t
  BY DEF Exiting
<1>6. ~Exit(n) /\ stack[n].tag = t
  BY <1>1, <1>3 DEF Exit, t
<1>7. /\ Entries = 1 .. n /\ Entries' = 1 .. k /\ k \in Nat
      /\ n \in Entries /\ n \in Entries' /\ 1 \in Entries /\ 1 \in Entries'
      /\ n \in Nat
  BY <1>0, <1>2 DEF Entries
<1> HIDE DEF k
<1>8. \A i \in Entries : i = n \/ (i < n /\ i \in Entries' /\ stack'[i] = stack[i])
  BY <1>2, <1>7 DEF k
<1>9. \A i \in Entries' :  \/ i = n
                           \/ i < n /\ i \in Entries
                           \/ n < i /\ i \in n + 1 .. k
  BY <1>2, <1>7 DEF k
<1>10. /\ \A i \in Entries : i # n => (Exit(i)' <=> Exit(i))
       /\ Exit(n)' /\ stack'[n].tag = t
       /\ \A i \in Entries' : n < i =>
            ~Exit(i)' /\ stack'[i].tag \in Successors(graph, t)
  BY <1>2, <1>5, <1>7, <1>8, <1>9 DEF Exit, k
<1>11. \A i \in Entries' : Exit(i)' => i = n \/ (i < n /\ i \in Entries /\ Exit(i)
                                                  /\ stack'[i] = stack[i])
  <2> TAKE i \in Entries'
  <2>1. CASE n < i
    BY <1>10, <2>1
  <2>2. CASE i < n /\ i \in Entries
    <3>1. i # n
      BY <1>7, <2>2
    <3> QED
      BY <1>8, <1>10, <2>2, <3>1
  <2> QED
    BY <1>9, <2>1, <2>2
<1>12. TypeOK'
  BY <1>1, <1>2, <1>3 DEF SearchInv, TypeOK, Element
<1>13. MarkersAreActive'
  <2>1. \A l \in Layers : l \in active' <=> \E i \in Entries' : Exit(i)' /\ stack'[i].tag = l
    <3> TAKE l \in Layers
    <3>1. ASSUME l \in active'
          PROVE  \E i \in Entries' : Exit(i)' /\ stack'[i].tag = l
      <4>1. CASE l = t
        BY <1>7, <1>10, <4>1
      <4>2. CASE l # t
        <5>1. PICK i \in Entries : Exit(i) /\ stack[i].tag = l
          BY <1>1, <3>1, <4>2 DEF SearchInv, MarkersAreActive
        <5>2. i # n /\ i \in Entries' /\ stack'[i] = stack[i]
          BY <1>6, <1>8, <5>1
        <5> QED
          BY <1>10, <5>1, <5>2
      <4> QED
        BY <4>1, <4>2
    <3>2. ASSUME NEW i \in Entries', Exit(i)', stack'[i].tag = l
          PROVE  l \in active'
      BY <1>1, <1>10, <1>11, <3>2 DEF SearchInv, MarkersAreActive
    <3> QED
      BY <3>1, <3>2
  <2>2. \A i \in Entries : Exit(i) => stack[i].tag # t
    BY <1>3, <1>4 DEF SearchInv, MarkersAreActive
  <2>3. \A i, j \in Entries' :
          Exit(i)' /\ Exit(j)' /\ stack'[i].tag = stack'[j].tag => i = j
    BY <1>10, <1>11, <2>2 DEF SearchInv, MarkersAreActive
  <2>4. active' \cap completed' = {}
    BY <1>1 DEF SearchInv, MarkersAreActive, t
  <2> QED
    BY <2>1, <2>3, <2>4 DEF MarkersAreActive
<1>14. CompletedIsAcyclic'
  BY <1>1 DEF SearchInv, CompletedIsAcyclic
<1>15. SuccessorsAreAhead'
  <2>1. SUFFICES ASSUME NEW i \in Entries', Exit(i)', NEW m \in Successors(graph, stack'[i].tag)
                 PROVE  m \in completed \/ \E j \in Entries' : i < j /\ stack'[j].tag = m
    BY <1>1, <2>1 DEF SuccessorsAreAhead
  <2>2. CASE i = n
    <3>1. m \in completed \/ \E j \in n + 1 .. k : stack'[j].tag = m
      BY <1>2, <1>10, <2>2 DEF k
    <3>2. \A j \in n + 1 .. k : j \in Entries' /\ n < j
      BY <1>2, <1>7 DEF k
    <3> QED
      BY <2>2, <3>1, <3>2
  <2>3. CASE i # n
    <3>1. i < n /\ i \in Entries /\ Exit(i) /\ stack'[i] = stack[i]
      BY <1>11, <2>1, <2>3
    <3>2. m \in completed \/ \E j \in Entries : i < j /\ stack[j].tag = m
      BY <2>1, <3>1 DEF SearchInv, SuccessorsAreAhead
    <3> QED
      BY <1>6, <1>7, <1>8, <1>10, <3>2
  <2> QED
    BY <2>2, <2>3
<1>16. MarkersAreAPath'
  <2>1. SUFFICES ASSUME NEW i \in Entries', Exit(i)'
        PROVE  \E top \in 1 .. k + 1 :
                 /\ i < top
                 /\ \A j \in Entries' : i < j /\ j < top =>
                      ~Exit(j)' /\ stack'[j].tag \in Successors(graph, stack'[i].tag)
                 /\ top \in Entries' =>
                      Exit(top)' /\ stack'[top].tag \in Successors(graph, stack'[i].tag)
    BY <1>1, <2>1 DEF MarkersAreAPath, k
  <2>2. CASE i = n
    <3>1. k + 1 \in 1 .. k + 1 /\ i < k + 1 /\ k + 1 \notin Entries'
      BY <1>2, <1>7, <2>2 DEF k
    <3>2. \A j \in Entries' : i < j =>
            ~Exit(j)' /\ stack'[j].tag \in Successors(graph, stack'[i].tag)
      BY <1>10, <2>2
    <3> QED
      BY <3>1, <3>2
  <2>3. CASE i # n
    <3>1. i < n /\ i \in Entries /\ Exit(i) /\ stack'[i] = stack[i]
      BY <1>11, <2>1, <2>3
    <3>2. PICK top \in 1 .. n + 1 :
            /\ i < top
            /\ \A j \in Entries : i < j /\ j < top =>
                 ~Exit(j) /\ stack[j].tag \in Successors(graph, stack[i].tag)
            /\ top \in Entries =>
                 Exit(top) /\ stack[top].tag \in Successors(graph, stack[i].tag)
      BY <1>0, <3>1 DEF SearchInv, MarkersAreAPath
    <3>3. CASE top \in Entries
      <4>1. top # n /\ top < n /\ top \in Entries' /\ top \in 1 .. k + 1
        BY <1>6, <1>7, <1>8, <3>2, <3>3
      <4>2. Exit(top)' /\ stack'[top].tag \in Successors(graph, stack'[i].tag)
        BY <1>8, <1>10, <3>1, <3>2, <3>3, <4>1
      <4>3. \A j \in Entries' : j < top => j < n /\ j \in Entries /\ j # n
        BY <1>7, <1>9, <4>1
      <4>4. \A j \in Entries' : i < j /\ j < top =>
              ~Exit(j)' /\ stack'[j].tag \in Successors(graph, stack'[i].tag)
        BY <1>8, <1>10, <3>1, <3>2, <4>3
      <4>5. i < top
        BY <3>2
      <4> QED
        BY ONLY <4>1, <4>2, <4>4, <4>5
    <3>4. CASE top \notin Entries
      <4>1. top = n + 1 /\ n < top
        BY <1>7, <3>2, <3>4
      <4>2. stack[n].tag \in Successors(graph, stack[i].tag)
        BY <1>7, <3>1, <3>2, <4>1
      <4>3. Exit(n)' /\ stack'[n].tag \in Successors(graph, stack'[i].tag)
        BY <1>6, <1>10, <3>1, <4>2
      <4>4. \A j \in Entries' : j < n => j \in Entries /\ j # n /\ j < top
        BY <1>7, <4>1
      <4>5. \A j \in Entries' : i < j /\ j < n =>
              ~Exit(j)' /\ stack'[j].tag \in Successors(graph, stack'[i].tag)
        BY <1>8, <1>10, <3>1, <3>2, <4>4
      <4>6. n \in 1 .. k + 1
        BY <1>2, <1>7 DEF k
      <4> QED
        BY <3>1, <4>3, <4>5, <4>6
    <3> QED
      BY <3>3, <3>4
  <2> QED
    BY <2>2, <2>3
<1>17. StartsAreFollowed'
  <2>1. \A l \in Layers \ remaining : l \in completed \/ stack[1].tag = l
    BY DEF SearchInv, StartsAreFollowed
  <2>2. stack'[1].tag = stack[1].tag
    BY <1>6, <1>7, <1>8, <1>10
  <2>3. stack' # << >>
    <3>1. k # 0 /\ Len(<< >>) = 0
      BY <1>2, <1>7, EmptySeq DEF k
    <3> QED
      BY <3>1 DEF k
  <2> QED
    BY <1>1, <2>1, <2>2, <2>3 DEF StartsAreFollowed
<1>18. ValidationIsExact'
  BY <1>1 DEF ValidationIsExact
<1> QED
  BY <1>12, <1>13, <1>14, <1>15, <1>16, <1>17, <1>18 DEF SearchInv

-----------------------------------------------------------------------------
(* Deciding.                                                                *)

LEMMA AcceptsKeepsInv ==
  ASSUME SearchInv, Accepts
  PROVE  SearchInv'
<1> USE DEF Accepts, SearchInv
<1>1. completed = Layers
  BY DEF StartsAreFollowed, TypeOK
<1>2. Acyclic(graph)
  BY <1>1 DEF CompletedIsAcyclic, Acyclic
<1>3. ValidationIsExact'
  BY <1>2 DEF ValidationIsExact
<1>4. TypeOK'
  BY DEF TypeOK
<1> QED
  BY <1>3, <1>4 DEF MarkersAreActive, CompletedIsAcyclic, SuccessorsAreAhead, MarkersAreAPath,
                    StartsAreFollowed, Entries, Exit

\* A rejected graph has a cycle: the layers from the repeated marker upwards and
\* the layer just popped all have a successor among themselves.
LEMMA RejectionIsRight ==
  ASSUME SearchInv, Rejects
  PROVE  ~Acyclic(graph)
<1> DEFINE n == Len(stack)
           t == Top.tag
<1>1. Pops /\ ~Top.exiting /\ ClosesCycle(t)
  BY DEF Rejects
<1>2. stack \in Seq(Element) /\ stack # << >>
  BY <1>1 DEF SearchInv, TypeOK, Pops, Element
<1>3. /\ n \in Nat \ {0} /\ Top = stack[n] /\ t \in Layers
      /\ \A i \in 1 .. n : stack[i] \in Element
  BY <1>2, PoppedProperties DEF Element
<1>4. Entries = 1 .. n /\ n \in Entries /\ ~Exit(n)
  BY <1>1, <1>3 DEF Entries, Exit
<1>5. \A i \in Entries : stack[i].tag \in Layers
  BY <1>3, <1>4 DEF Element
<1> HIDE DEF n, t
<1> DEFINE Above(i) == {stack[j].tag : j \in {j \in Entries : Exit(j) /\ i <= j}} \cup {t}
<1>6. ASSUME NEW i \in Entries, NEW l \in Above(i), l # t
      PROVE  Successors(graph, l) \cap Above(i) # {}
  <2>1. PICK j \in Entries : Exit(j) /\ i <= j /\ l = stack[j].tag
    BY <1>6
  <2>2. PICK top \in 1 .. n + 1 :
          /\ j < top
          /\ \A k \in Entries : j < k /\ k < top =>
               ~Exit(k) /\ stack[k].tag \in Successors(graph, stack[j].tag)
          /\ top \in Entries =>
               Exit(top) /\ stack[top].tag \in Successors(graph, stack[j].tag)
    BY <2>1 DEF SearchInv, MarkersAreAPath, n
  <2>3. CASE top \in Entries
    <3>1. i <= top
      BY <1>4, <2>1, <2>2
    <3>2. stack[top].tag \in Above(i)
      BY <2>2, <2>3, <3>1
    <3> QED
      BY <2>1, <2>2, <2>3, <3>2
  <2>4. CASE top \notin Entries
    <3>1. j < n /\ n < top
      <4>1. j # n
        BY <1>4, <2>1
      <4> QED
        BY <1>3, <1>4, <2>1, <2>2, <2>4, <4>1
    <3>2. stack[n].tag \in Successors(graph, l)
      BY <1>4, <2>1, <2>2, <3>1
    <3> QED
      BY <1>3, <3>2 DEF t
  <2> QED
    BY <2>3, <2>4
<1>7. \A i \in Entries : Above(i) \in SUBSET Layers
  BY <1>3, <1>5
<1>8. ASSUME NEW i \in Entries, Successors(graph, t) \cap Above(i) # {}
      PROVE  ~Acyclic(graph)
  <2>1. \A l \in Above(i) : Successors(graph, l) \cap Above(i) # {}
    BY <1>6, <1>8
  <2>2. t \in Above(i)
    OBVIOUS
  <2> HIDE DEF Above
  <2> QED
    BY <1>7, <2>1, <2>2 DEF Acyclic
<1>9. CASE t \in Successors(graph, t)
  BY <1>4, <1>8, <1>9
<1>10. ASSUME NEW s \in active, s \in Successors(graph, t)
       PROVE  ~Acyclic(graph)
  <2>1. PICK i \in Entries : Exit(i) /\ stack[i].tag = s
    BY <1>10 DEF SearchInv, MarkersAreActive, TypeOK
  <2>2. i <= i
    BY <1>4
  <2>3. s \in Above(i)
    BY <2>1, <2>2
  <2> QED
    BY <1>8, <1>10, <2>3
<1>11. CASE t \in active
  <2>1. PICK i \in Entries : Exit(i) /\ stack[i].tag = t
    BY <1>3, <1>11 DEF SearchInv, MarkersAreActive
  <2>2. PICK top \in 1 .. n + 1 :
          /\ i < top
          /\ \A k \in Entries : i < k /\ k < top =>
               ~Exit(k) /\ stack[k].tag \in Successors(graph, stack[i].tag)
          /\ top \in Entries =>
               Exit(top) /\ stack[top].tag \in Successors(graph, stack[i].tag)
    BY <2>1 DEF SearchInv, MarkersAreAPath, n
  <2>3. CASE top \in Entries
    <3>1. i <= top
      BY <1>4, <2>1, <2>2
    <3>2. stack[top].tag \in Above(i)
      BY <2>2, <2>3, <3>1
    <3> QED
      BY <1>8, <2>1, <2>2, <2>3, <3>2
  <2>4. CASE top \notin Entries
    <3>1. i < n /\ n < top
      <4>1. i # n
        BY <1>4, <2>1
      <4> QED
        BY <1>3, <1>4, <2>1, <2>2, <2>4, <4>1
    <3>2. stack[n].tag \in Successors(graph, t)
      BY <1>4, <2>1, <2>2, <3>1
    <3>3. t \in Successors(graph, t)
      BY <1>3, <3>2 DEF t
    <3> QED
      BY <1>9, <3>3
  <2> QED
    BY <2>3, <2>4
<1> QED
  BY <1>1, <1>9, <1>10, <1>11 DEF ClosesCycle

LEMMA RejectsKeepsInv ==
  ASSUME SearchInv, Rejects
  PROVE  SearchInv'
<1>1. ValidationIsExact'
  BY RejectionIsRight DEF Rejects, ValidationIsExact
<1>2. TypeOK'
  BY DEF SearchInv, TypeOK, Rejects
<1> QED
  BY <1>1, <1>2
     DEF Rejects, SearchInv, MarkersAreActive, CompletedIsAcyclic, SuccessorsAreAhead,
         MarkersAreAPath, StartsAreFollowed, Entries, Exit

\* The invariant of the search holds for every graph and every order of starts.
THEOREM SearchInvariance == Spec => []SearchInv
<1>1. Init => SearchInv
  <2> SUFFICES ASSUME Init
               PROVE  SearchInv
    OBVIOUS
  <2>1. Len(stack) = 0 /\ Entries = {}
    BY DEF Init, Entries
  <2>2. TypeOK
    BY DEF Init, TypeOK
  <2> QED
    BY <2>1, <2>2
       DEF Init, SearchInv, MarkersAreActive, CompletedIsAcyclic, SuccessorsAreAhead,
           MarkersAreAPath, StartsAreFollowed, ValidationIsExact
<1>2. SearchInv /\ [Next]_vars => SearchInv'
  <2> SUFFICES ASSUME SearchInv, [Next]_vars
               PROVE  SearchInv'
    OBVIOUS
  <2>1. CASE UNCHANGED vars
    BY <2>1 DEF vars, SearchInv, TypeOK, MarkersAreActive, CompletedIsAcyclic,
                SuccessorsAreAhead, MarkersAreAPath, StartsAreFollowed, ValidationIsExact,
                Entries, Exit
  <2> QED
    BY <2>1, StartsKeepsInv, AcceptsKeepsInv, ExitsKeepsInv, PassesOverKeepsInv,
       RejectsKeepsInv, EntersKeepsInv DEF Next
<1> QED
  BY <1>1, <1>2, PTL DEF Spec

\* validate_layer_graph accepts a graph only if it has no cycle and rejects it
\* only if it has one, for any number of layers.
THEOREM ValidationDecidesAcyclicity == Spec => []ValidationIsExact
<1>1. SearchInv => ValidationIsExact
  BY DEF SearchInv
<1> QED
  BY <1>1, SearchInvariance, PTL

-----------------------------------------------------------------------------
(***************************************************************************)
(* The settings window never shows as saved what the file does not hold,    *)
(* and never leaves a part of a document in the file.  Which documents are  *)
(* valid does not matter: Valid stays a closed word in these proofs, and    *)
(* every edit of the form is Edits of some document.                        *)
(***************************************************************************)

\* The edits of the form are edits.
IsEdit == \E d : Edits(d)

LEMMA FormEdits ==
  ASSUME EditsGeneral \/ EditsLayers \/ EditsEndpoints \/ EditsMatches
           \/ EditsRuleSets \/ EditsPlugins \/ EditsOptimizers
  PROVE  IsEdit
<1>1. CASE EditsGeneral BY <1>1 DEF EditsGeneral, IsEdit
<1>2. CASE EditsLayers BY <1>2 DEF EditsLayers, IsEdit
<1>3. CASE EditsEndpoints BY <1>3 DEF EditsEndpoints, IsEdit
<1>4. CASE EditsMatches BY <1>4 DEF EditsMatches, IsEdit
<1>5. CASE EditsRuleSets BY <1>5 DEF EditsRuleSets, IsEdit
<1>6. CASE EditsPlugins BY <1>6 DEF EditsPlugins, IsEdit
<1>7. CASE EditsOptimizers BY <1>7 DEF EditsOptimizers, IsEdit
<1> QED BY <1>1, <1>2, <1>3, <1>4, <1>5, <1>6, <1>7

\* The window starts closed, with a valid default and any file.
LEMMA SettingsInit_establishes == SettingsInit => SettingsInv
<1> SUFFICES ASSUME SettingsInit PROVE SettingsInv
  OBVIOUS
<1>1. Loadable(file) => Valid(file)
  BY FilesAreValid DEF SettingsInit, Loadable
<1> QED BY <1>1, DefaultIsValid DEF SettingsInit, SettingsInv, CleanIsOnDisk

\* An edit is revalidated and marks the document; nothing else does more than
\* load, save or drop it.
LEMMA SettingsStep == SettingsInv /\ [SettingsNext]_settings => SettingsInv'
<1> SUFFICES ASSUME SettingsInv, [SettingsNext]_settings PROVE SettingsInv'
  OBVIOUS
<1> USE DEF SettingsInv, CleanIsOnDisk, Loadable
<1>1. CASE Opens
  BY <1>1, DefaultIsValid DEF Opens, Shows
<1>2. CASE Reloads
  BY <1>2 DEF Reloads, Shows
<1>3. CASE EditsGeneral \/ EditsLayers \/ EditsEndpoints \/ EditsMatches
             \/ EditsRuleSets \/ EditsPlugins \/ EditsOptimizers
  <2>1. PICK d : Edits(d)
    BY <1>3, FormEdits DEF IsEdit
  <2> QED BY <2>1 DEF Edits
<1>4. CASE SaveStarts
  BY <1>4 DEF SaveStarts
<1>5. CASE Writes
  BY <1>5 DEF Writes
<1>6. CASE WriteFails
  BY <1>6 DEF WriteFails
<1>7. CASE Renames
  BY <1>7 DEF Renames, Saved
<1>8. CASE RenameFails
  BY <1>8 DEF RenameFails
<1>9. CASE Closes
  BY <1>9, DefaultIsValid DEF Closes
<1>10. CASE SomebodyElseWrites
  BY <1>10, FilesAreValid DEF SomebodyElseWrites
<1>11. CASE UNCHANGED settings
  BY <1>11 DEF settings
<1> QED
  BY <1>1, <1>2, <1>3, <1>4, <1>5, <1>6, <1>7, <1>8, <1>9, <1>10, <1>11 DEF SettingsNext

\* The verdict shown is that of the document, what is written is valid, and a
\* file that loads is valid, for any documents and any number of edits.
THEOREM SettingsInvariance == SettingsSpec => []SettingsInv
<1> QED BY SettingsInit_establishes, SettingsStep, PTL DEF SettingsSpec

\* Clean means saved: what the window shows as saved is in the file, until
\* somebody else writes it.
THEOREM CleanMeansSaved == SettingsSpec => []CleanIsOnDisk
<1>1. SettingsInv => CleanIsOnDisk
  BY DEF SettingsInv
<1> QED BY <1>1, SettingsInvariance, PTL

LEMMA WholeStep ==
  SettingsInv /\ [SettingsNext]_settings
    => [file' # file /\ ~foreign' => file' = document /\ Valid(file')]_settings
<1> SUFFICES ASSUME SettingsInv, SettingsNext, file' # file, ~foreign'
             PROVE  file' = document /\ Valid(file')
  OBVIOUS
<1>1. CASE Renames
  BY <1>1 DEF Renames, SettingsInv
<1>2. CASE SomebodyElseWrites
  BY <1>2 DEF SomebodyElseWrites
<1>3. CASE EditsGeneral \/ EditsLayers \/ EditsEndpoints \/ EditsMatches
             \/ EditsRuleSets \/ EditsPlugins \/ EditsOptimizers
  <2>1. PICK d : Edits(d)
    BY <1>3, FormEdits DEF IsEdit
  <2> QED BY <2>1 DEF Edits
<1>4. CASE Opens \/ Reloads \/ SaveStarts \/ Writes \/ WriteFails \/ RenameFails \/ Closes
  BY <1>4 DEF Opens, Reloads, SaveStarts, Writes, WriteFails, RenameFails, Closes
<1> QED BY <1>1, <1>2, <1>3, <1>4 DEF SettingsNext

\* The window replaces the file by the whole document it holds, which is valid,
\* or not at all, whatever fails on the way.
THEOREM FileStaysWhole == SettingsSpec => FileIsWhole
<1> QED BY SettingsInvariance, WholeStep, PTL DEF SettingsSpec, FileIsWhole


-----------------------------------------------------------------------------
(***************************************************************************)
(* The edits of the form keep a valid document valid.  ShapeInv is what the *)
(* prover has to know beside SettingsInv: that whatever the window holds is *)
(* a document, with the fields and the lists serde demands, however it was  *)
(* edited; without it nothing can be said of a field or of an entry.        *)
(*                                                                         *)
(* A change of type then keeps the tag and the edges, so the graph, and     *)
(* leaves a layer that has the fields of its type alone.  An addition has a *)
(* tag nobody had, so nobody points at it and the graph is the same.        *)
(***************************************************************************)

\* Objects.
LEMMA PutIs ==
  ASSUME NEW o, NEW k, NEW v
  PROVE  /\ DOMAIN Put(o, k, v) = DOMAIN o \cup {k}
         /\ Put(o, k, v)[k] = v
         /\ \A x \in DOMAIN o : x # k => Put(o, k, v)[x] = o[x]
  BY DEF Put

LEMMA DropIs ==
  ASSUME NEW o, NEW keys
  PROVE  /\ DOMAIN Drop(o, keys) = DOMAIN o \ keys
         /\ \A x \in DOMAIN o \ keys : Drop(o, keys)[x] = o[x]
  BY DEF Drop, Restrict

LEMMA DefaultedIs ==
  ASSUME NEW o, NEW e
  PROVE  /\ DOMAIN Defaulted(o, e) = DOMAIN o \cup DOMAIN e
         /\ \A x \in DOMAIN o : Defaulted(o, e)[x] = o[x]
         /\ \A x \in DOMAIN e \ DOMAIN o : Defaulted(o, e)[x] = e[x]
  BY DEF Defaulted, Has

\* Lists.
LEMMA ListIs ==
  ASSUME NEW V, NEW s \in Seq(V)
  PROVE  IsList(s)
<1>1. DOMAIN s = 1 .. Len(s) /\ Len(s) \in Nat /\ s = [i \in 1 .. Len(s) |-> s[i]]
  OBVIOUS
<1>2. s \in [1 .. Len(s) -> Range(s)]
  BY <1>1 DEF Range
<1> QED
  BY <1>1, <1>2 DEF IsList

LEMMA ListHas ==
  ASSUME NEW s, IsList(s)
  PROVE  DOMAIN s = 1 .. Len(s) /\ Len(s) \in Nat /\ \A i \in DOMAIN s : s[i] \in Range(s)
  BY DEF IsList

\* t is s and x after it, at the index n.
Extends(t, s, x, n) ==
  /\ IsList(t) /\ DOMAIN t = DOMAIN s \cup {n} /\ n \notin DOMAIN s
  /\ t[n] = x /\ \A i \in DOMAIN s : t[i] = s[i]

LEMMA AppendedIs ==
  ASSUME NEW s, IsList(s), NEW x
  PROVE  \E n : Extends(Append(s, x), s, x, n)
<1> DEFINE t == Append(s, x)
<1> DEFINE V == Range(s) \cup {x}
<1>1. s \in Seq(V)
  <2>1. s \in Seq(Range(s))
    BY DEF IsList
  <2> HIDE DEF V
  <2>2. Range(s) \subseteq V
    BY DEF V
  <2> QED
    BY <2>1, <2>2
<1>2. x \in V
  OBVIOUS
<1> HIDE DEF V
<1>3. t \in Seq(V) /\ DOMAIN s = 1 .. Len(s) /\ DOMAIN t = 1 .. Len(s) + 1 /\ Len(s) \in Nat
  BY <1>1, <1>2
<1>4. IsList(t)
  BY <1>3, ListIs
<1>5. 1 .. Len(s) + 1 = (1 .. Len(s)) \cup {Len(s) + 1} /\ Len(s) + 1 \notin 1 .. Len(s)
  BY <1>3
<1>6. t[Len(s) + 1] = x /\ \A i \in 1 .. Len(s) : t[i] = s[i]
  BY <1>1, <1>2
<1> QED
  BY <1>3, <1>4, <1>5, <1>6 DEF Extends

LEMMA ExceptIs ==
  ASSUME NEW s, IsList(s), NEW i \in DOMAIN s, NEW x, NEW t, t = [s EXCEPT ![i] = x]
  PROVE  /\ IsList(t) /\ DOMAIN t = DOMAIN s /\ t[i] = x
         /\ \A j \in DOMAIN s : j # i => t[j] = s[j]
<1> DEFINE V == Range(s) \cup {x}
<1>1. s \in Seq(V)
  <2>1. s \in Seq(Range(s))
    BY DEF IsList
  <2> HIDE DEF V
  <2>2. Range(s) \subseteq V
    BY DEF V
  <2> QED
    BY <2>1, <2>2
<1>2. x \in V
  OBVIOUS
<1> HIDE DEF V
<1>3. t \in Seq(V) /\ DOMAIN t = DOMAIN s
  BY <1>1, <1>2
<1>4. IsList(t)
  BY <1>3, ListIs
<1> QED
  BY <1>3, <1>4

LEMMA RemovedIs ==
  ASSUME NEW s, IsList(s), NEW i \in DOMAIN s, NEW t, t = RemoveAt(s, i)
  PROVE  /\ IsList(t)
         /\ \A j \in DOMAIN t : \E k \in DOMAIN s : t[j] = s[k]
<1> DEFINE V == Range(s)
<1>1. s \in Seq(V) /\ i \in 1 .. Len(s) /\ Len(s) \in Nat
  BY DEF IsList
<1> HIDE DEF V
<1>2. SubSeq(s, 1, i - 1) \in Seq(V) /\ SubSeq(s, i + 1, Len(s)) \in Seq(V)
  BY <1>1
<1>3. t \in Seq(V)
  BY <1>2 DEF RemoveAt
<1>4. \A j \in DOMAIN t : t[j] \in V
  BY <1>3
<1> QED
  BY <1>3, <1>4, ListIs DEF V, Range

\* The first numbered tag that is free.
LEMMA UniqueTagIs ==
  ASSUME NEW S, NEW fresh \in Seq(S), NEW list, HasFresh(fresh, list)
  PROVE  UniqueTag(fresh, list) \in S \ Tags(list)
<1> DEFINE I == {i \in DOMAIN fresh : fresh[i] \notin Tags(list)}
<1>1. DOMAIN fresh = 1 .. Len(fresh) /\ Len(fresh) \in Nat
  OBVIOUS
<1>2. I \in SUBSET DOMAIN fresh /\ I # {}
  BY DEF HasFresh, Range
<1> HIDE DEF I
<1>3. IsFiniteSet(I) /\ I \in SUBSET Nat
  <2>1. IsFiniteSet(DOMAIN fresh) /\ DOMAIN fresh \in SUBSET Nat
    BY <1>1, FS_Interval
  <2> QED
    BY <1>2, <2>1, FS_Subset
<1>4. PICK i \in I : \A j \in I : i <= j
  BY <1>2, <1>3, LeastIndex
<1>5. i \in DOMAIN fresh /\ fresh[i] \notin Tags(list) /\ \A j \in 1 .. i - 1 : fresh[j] \in Tags(list)
  <2>1. i \in 1 .. Len(fresh) /\ fresh[i] \notin Tags(list)
    BY <1>1 DEF I
  <2>2. ASSUME NEW j \in 1 .. i - 1 PROVE fresh[j] \in Tags(list)
    <3>1. j \in 1 .. Len(fresh) /\ ~(i <= j)
      BY <1>1, <2>1
    <3>2. j \notin I
      BY <1>4, <3>1
    <3> QED
      BY <1>1, <3>1, <3>2 DEF I
  <2> QED
    BY <1>1, <2>1, <2>2
<1>6. \E j \in DOMAIN fresh : UniqueTag(fresh, list) = fresh[j] /\ fresh[j] \notin Tags(list)
  BY <1>5 DEF UniqueTag
<1> QED
  BY <1>6


DocumentKeys ==
  {"address", "allow_remote", "range_refresh_secs", "request_timeout_ms", "entry",
   "rule_sets", "plugins", "layers"}
Lists == {"rule_sets", "plugins", "layers"}

\* e is d but for one field.
Differs(e, d, key, value) ==
  /\ IsObject(e, DocumentKeys) /\ e[key] = value
  /\ \A x \in DocumentKeys : x # key => e[x] = d[x]

\* The two forms of EXCEPT that the edits use.
Replaces(e, d, key, value) == e = [d EXCEPT ![key] = value]
ReplacesIn(e, d, key, i, value) == e = [d EXCEPT ![key][i] = value]

LEMMA DocumentIs ==
  ASSUME NEW d
  PROVE  IsDocument(d) <=> /\ IsObject(d, DocumentKeys)
                           /\ \A key \in Lists : IsList(d[key])
                           /\ \A i \in DOMAIN d.layers : IsLayer(d.layers[i])
  BY DEF IsDocument, DocumentKeys, Lists

LEMMA FieldChanges ==
  ASSUME NEW d, IsObject(d, DocumentKeys), NEW key \in DocumentKeys, NEW value,
         NEW e, Replaces(e, d, key, value)
  PROVE  Differs(e, d, key, value)
<1>1. DOMAIN e = DOMAIN d /\ e[key] = value /\ \A x \in DOMAIN d : x # key => e[x] = d[x]
  BY DEF IsObject, Replaces
<1>2. e = [x \in DOMAIN e |-> e[x]]
  BY DEF IsObject, Replaces
<1> QED
  BY <1>1, <1>2 DEF IsObject, Differs

LEMMA OtherFieldKeepsShape ==
  ASSUME NEW d, IsDocument(d), NEW key \in DocumentKeys \ Lists, NEW value,
         NEW e, Differs(e, d, key, value)
  PROVE  IsDocument(e)
  BY DocumentIs DEF Differs, DocumentKeys, Lists

LEMMA ListKeepsShape ==
  ASSUME NEW d, IsDocument(d), NEW key \in Lists, NEW list, IsList(list),
         key = "layers" => \A i \in DOMAIN list : IsLayer(list[i]),
         NEW e, Differs(e, d, key, list)
  PROVE  IsDocument(e)
  BY DocumentIs DEF Differs, DocumentKeys, Lists

\* One entry of a list, or one field of an entry.
LEMMA EntryKeepsShape ==
  ASSUME NEW d, IsDocument(d), NEW key \in Lists, NEW i \in DOMAIN d[key], NEW x,
         key = "layers" => IsLayer(x),
         NEW e, ReplacesIn(e, d, key, i, x)
  PROVE  /\ IsDocument(e)
         /\ \E t : t = [d[key] EXCEPT ![i] = x] /\ Differs(e, d, key, t)
<1> DEFINE t == [d[key] EXCEPT ![i] = x]
<1>1. IsObject(d, DocumentKeys) /\ IsList(d[key])
  BY DocumentIs
<1>2. IsList(t) /\ DOMAIN t = DOMAIN d[key] /\ t[i] = x /\ \A j \in DOMAIN d[key] : j # i => t[j] = d[key][j]
  BY <1>1, ExceptIs
<1>3. Replaces(e, d, key, t) /\ key \in DocumentKeys
  BY DEF Replaces, ReplacesIn, Lists, DocumentKeys
<1> HIDE DEF t
<1>4. Differs(e, d, key, t)
  BY <1>1, <1>3, FieldChanges
<1>5. key = "layers" => \A j \in DOMAIN t : IsLayer(t[j])
  BY <1>2, DocumentIs
<1>6. IsDocument(e)
  BY <1>2, <1>4, <1>5, ListKeepsShape
<1> QED
  BY <1>4, <1>6 DEF t

LEMMA WithLayerIs ==
  ASSUME NEW d, IsDocument(d), NEW i \in DOMAIN d.layers, NEW l, IsLayer(l),
         NEW e, e = WithLayer(d, i, l)
  PROVE  /\ IsDocument(e) /\ Differs(e, d, "layers", e.layers)
         /\ DOMAIN e.layers = DOMAIN d.layers /\ e.layers[i] = l
         /\ \A j \in DOMAIN d.layers : j # i => e.layers[j] = d.layers[j]
<1>1. ReplacesIn(e, d, "layers", i, l) /\ i \in DOMAIN d["layers"] /\ "layers" \in Lists
  BY DEF WithLayer, ReplacesIn, Lists
<1>2. IsDocument(e)
  BY <1>1, EntryKeepsShape
<1>3. PICK t : t = [d["layers"] EXCEPT ![i] = l] /\ Differs(e, d, "layers", t)
  BY <1>1, EntryKeepsShape
<1>4. IsList(d.layers)
  BY DEF IsDocument
<1>5. DOMAIN t = DOMAIN d.layers /\ t[i] = l /\ \A j \in DOMAIN d.layers : j # i => t[j] = d.layers[j]
  BY <1>3, <1>4, ExceptIs
<1>6. e.layers = t
  BY <1>3 DEF Differs
<1> QED
  BY <1>2, <1>3, <1>5, <1>6

\* Fields of a layer.
LEMMA PutKeepsLayer ==
  ASSUME NEW l, IsLayer(l), NEW key, NEW value, key = "type" => value \in Kinds
  PROVE  IsLayer(Put(l, key, value))
<1>1. DOMAIN Put(l, key, value) = DOMAIN l \cup {key}
  BY PutIs
<1>2. Put(l, key, value) = [x \in DOMAIN Put(l, key, value) |-> Put(l, key, value)[x]]
  BY DEF Put
<1>3. Put(l, key, value)["type"] \in Kinds
  <2>1. "type" \in DOMAIN l /\ l["type"] \in Kinds
    BY DEF IsLayer, IsObject
  <2> QED
    BY <2>1 DEF Put
<1> QED
  BY <1>1, <1>2, <1>3 DEF IsLayer, IsObject

LEMMA DropKeepsLayer ==
  ASSUME NEW l, IsLayer(l), NEW keys, keys \cap {"tag", "type", "match"} = {}
  PROVE  IsLayer(Drop(l, keys))
<1>1. DOMAIN Drop(l, keys) = DOMAIN l \ keys
  BY DropIs
<1>2. Drop(l, keys) = [x \in DOMAIN Drop(l, keys) |-> Drop(l, keys)[x]]
  BY DEF Drop, Restrict
<1>3. Drop(l, keys)["type"] = l["type"]
  <2>1. "type" \in DOMAIN l \ keys
    BY DEF IsLayer, IsObject
  <2> QED
    BY <2>1, DropIs
<1> QED
  BY <1>1, <1>2, <1>3 DEF IsLayer, IsObject

LEMMA DefaultedKeepsLayer ==
  ASSUME NEW l, IsLayer(l), NEW e
  PROVE  IsLayer(Defaulted(l, e))
<1>1. DOMAIN Defaulted(l, e) = DOMAIN l \cup DOMAIN e
  BY DefaultedIs
<1>2. Defaulted(l, e) = [x \in DOMAIN Defaulted(l, e) |-> Defaulted(l, e)[x]]
  BY DEF Defaulted
<1>3. Defaulted(l, e)["type"] = l["type"]
  <2>1. "type" \in DOMAIN l
    BY DEF IsLayer, IsObject
  <2> QED
    BY <2>1, DefaultedIs
<1> QED
  BY <1>1, <1>2, <1>3 DEF IsLayer, IsObject

\* The layer whose type is changed, and a layer that is added.
Retyped(l, kind) == Defaulted(Drop(Put(l, "type", kind), Foreign(kind)), LayerDefaults(kind))
NewLayer(tag, kind) ==
  Defaulted([tag |-> tag, type |-> kind, match |-> NoMatch], LayerDefaults(kind))

LEMMA RetypedIsLayer ==
  ASSUME NEW l, IsLayer(l), NEW kind \in Kinds
  PROVE  IsLayer(Retyped(l, kind))
<1>1. Foreign(kind) \cap {"tag", "type", "match"} = {}
  BY DEF Foreign, Kinds
<1> QED
  BY <1>1, PutKeepsLayer, DropKeepsLayer, DefaultedKeepsLayer DEF Retyped

LEMMA NewLayerIsLayer ==
  ASSUME NEW tag, NEW kind \in Kinds
  PROVE  IsLayer(NewLayer(tag, kind))
<1> DEFINE l == [tag |-> tag, type |-> kind, match |-> NoMatch]
<1>1. IsLayer(l)
  BY DEF IsLayer, IsObject
<1> QED
  BY <1>1, DefaultedKeepsLayer DEF NewLayer

LEMMA LayerEditsKeepShape ==
  ASSUME IsDocument(document), EditsLayers \/ EditsEndpoints \/ EditsMatches
  PROVE  IsDocument(document')
<1> DEFINE d == document
<1>1. IsObject(d, DocumentKeys) /\ IsList(d.layers) /\ \A i \in DOMAIN d.layers : IsLayer(d.layers[i])
  BY DEF IsDocument, DocumentKeys
<1> HIDE DEF d
\* The layer with one field changed, removed, ...
<1>2. ASSUME NEW i \in DOMAIN d.layers, NEW key, NEW value, key # "type"
      PROVE  IsDocument(SetLayerField(d, i, key, value))
  <2>1. IsLayer(Put(d.layers[i], key, value))
    BY <1>1, <1>2, PutKeepsLayer
  <2> QED
    BY <2>1, WithLayerIs DEF d, SetLayerField
<1>3. ASSUME NEW i \in DOMAIN d.layers, NEW key, NEW value, key \notin {"tag", "type", "match"}
      PROVE  IsDocument(SetLayerOption(d, i, key, value))
  <2>1. IsLayer(Drop(d.layers[i], {key}))
    <3>1. {key} \cap {"tag", "type", "match"} = {}
      BY <1>3
    <3> QED
      BY <1>1, <3>1, DropKeepsLayer
  <2>2. IsDocument(WithLayer(d, i, Drop(d.layers[i], {key})))
    BY <2>1, WithLayerIs DEF d
  <2> QED
    BY <1>2, <1>3, <2>2 DEF SetLayerOption
<1>4. ASSUME NEW i \in DOMAIN d.layers, NEW key, NEW value
      PROVE  IsDocument(SetLayerMatch(d, i, key, value))
  <2> DEFINE l == [d.layers[i] EXCEPT !.match[key] = value]
  <2>1. IsLayer(d.layers[i])
    BY <1>1
  <2>2. IsLayer(l)
    BY <2>1 DEF IsLayer, IsObject
  <2>3. SetLayerMatch(d, i, key, value) = WithLayer(d, i, l)
    BY DEF SetLayerMatch, WithLayer
  <2> HIDE DEF l
  <2> QED
    BY <2>2, <2>3, WithLayerIs DEF d
<1>5. ASSUME NEW i \in DOMAIN d.layers, NEW kind \in Kinds
      PROVE  IsDocument(SetLayerType(d, i, kind))
  <2>1. IsLayer(Retyped(d.layers[i], kind))
    BY <1>1, RetypedIsLayer
  <2>2. SetLayerType(d, i, kind) = WithLayer(d, i, Retyped(d.layers[i], kind))
    BY DEF SetLayerType, Retyped
  <2> QED
    BY <2>1, <2>2, WithLayerIs DEF d
\* ... and the list with one layer more, less or moved.
<1>6. ASSUME NEW t, IsList(t), \A j \in DOMAIN t : IsLayer(t[j])
      PROVE  IsDocument([d EXCEPT !.layers = t])
  <2>1. Replaces([d EXCEPT !.layers = t], d, "layers", t) /\ "layers" \in DocumentKeys
    BY DEF Replaces, DocumentKeys
  <2>2. Differs([d EXCEPT !.layers = t], d, "layers", t)
    BY <1>1, <2>1, FieldChanges
  <2> QED
    BY <1>6, <2>2, ListKeepsShape DEF d, Lists
<1>7. ASSUME NEW kind \in Kinds PROVE IsDocument(AddLayer(d, kind))
  <2> DEFINE l == NewLayer(UniqueTag(NewLayers, d.layers), kind)
             t == Append(d.layers, l)
  <2>1. IsLayer(l)
    BY NewLayerIsLayer
  <2>2. AddLayer(d, kind) = [d EXCEPT !.layers = t]
    BY DEF AddLayer, NewLayer
  <2> HIDE DEF l
  <2>4. PICK n : Extends(t, d.layers, l, n)
    BY <1>1, AppendedIs
  <2> HIDE DEF t
  <2>3. IsList(t) /\ \A j \in DOMAIN t : IsLayer(t[j])
    BY <1>1, <2>1, <2>4 DEF Extends
  <2> QED
    BY <1>6, <2>2, <2>3
<1>8. ASSUME NEW i \in DOMAIN d.layers PROVE IsDocument(RemoveLayer(d, i))
  <2> DEFINE t == RemoveAt(d.layers, i)
  <2>1. IsList(t) /\ \A j \in DOMAIN t : \E k \in DOMAIN d.layers : t[j] = d.layers[k]
    BY <1>1, RemovedIs
  <2>2. RemoveLayer(d, i) = [d EXCEPT !.layers = t]
    BY DEF RemoveLayer
  <2> HIDE DEF t
  <2>3. \A j \in DOMAIN t : IsLayer(t[j])
    BY <1>1, <2>1
  <2> QED
    BY <1>6, <2>1, <2>2, <2>3
<1>9. ASSUME NEW i \in DOMAIN d.layers, i + 1 \in DOMAIN d.layers PROVE IsDocument(MoveLayer(d, i))
  <2> DEFINE s == [d.layers EXCEPT ![i] = d.layers[i + 1]]
             t == [s EXCEPT ![i + 1] = d.layers[i]]
  <2>1. IsList(s) /\ DOMAIN s = DOMAIN d.layers /\ \A j \in DOMAIN s : IsLayer(s[j])
    BY <1>1, <1>9, ExceptIs
  <2>2. MoveLayer(d, i) = [d EXCEPT !.layers = t]
    BY <1>1 DEF MoveLayer, IsObject, DocumentKeys
  <2> HIDE DEF s
  <2>3. IsList(t) /\ DOMAIN t = DOMAIN s /\ \A j \in DOMAIN t : IsLayer(t[j])
    BY <1>1, <1>9, <2>1, ExceptIs
  <2> HIDE DEF t
  <2> QED
    BY <1>6, <2>2, <2>3
<1>10. CASE EditsLayers
  BY <1>2, <1>3, <1>5, <1>7, <1>8, <1>9, <1>10 DEF EditsLayers, Edits, LayerIndexes, d
<1>11. CASE EditsEndpoints
  BY <1>3, <1>11 DEF EditsEndpoints, Edits, LayerIndexes, d
<1>12. CASE EditsMatches
  BY <1>4, <1>12 DEF EditsMatches, Edits, LayerIndexes, d
<1> QED
  BY <1>10, <1>11, <1>12


LEMMA GeneralEditsKeepShape ==
  ASSUME IsDocument(document), EditsGeneral
  PROVE  IsDocument(document')
<1>1. \A key \in DocumentKeys \ Lists : \A v :
        Replaces(document', document, key, v) => IsDocument(document')
  <2> SUFFICES ASSUME NEW key \in DocumentKeys \ Lists, NEW v, Replaces(document', document, key, v)
               PROVE  IsDocument(document')
    OBVIOUS
  <2>1. Differs(document', document, key, v)
    BY DocumentIs, FieldChanges
  <2> QED
    BY <2>1, OtherFieldKeepsShape
<1>2. \E key \in {"address", "allow_remote", "request_timeout_ms", "range_refresh_secs", "entry"} : \E v :
        Replaces(document', document, key, v)
  BY DEF EditsGeneral, Edits, Replaces
<1> QED
  BY <1>1, <1>2 DEF DocumentKeys, Lists

LEMMA OtherEditsKeepShape ==
  ASSUME IsDocument(document), EditsRuleSets \/ EditsPlugins \/ EditsOptimizers
  PROVE  IsDocument(document')
<1> DEFINE d == document
           keys == {"rule_sets", "plugins"}
<1>1. \A key \in keys : /\ IsList(d[key]) /\ key \in Lists \cap DocumentKeys /\ key # "layers"
  BY DocumentIs DEF Lists, DocumentKeys
<1>2. IsObject(d, DocumentKeys) /\ d.rule_sets = d["rule_sets"] /\ d.plugins = d["plugins"]
  BY DocumentIs
<1> HIDE DEF d
\* A list with an entry changed, ...
<1>3. ASSUME NEW key \in keys, NEW i \in DOMAIN d[key], NEW x, NEW e, ReplacesIn(e, d, key, i, x)
      PROVE  IsDocument(e)
  BY <1>1, <1>3, EntryKeepsShape DEF d
<1>4. ASSUME NEW key \in keys, NEW t, IsList(t), NEW e, Replaces(e, d, key, t)
      PROVE  IsDocument(e)
  <2>1. Differs(e, d, key, t)
    BY <1>1, <1>2, <1>4, FieldChanges
  <2> QED
    BY <1>1, <1>4, <2>1, ListKeepsShape DEF d
\* ... one entry more, or one less.
<1>5. ASSUME NEW key \in keys, NEW x, NEW e, Replaces(e, d, key, Append(d[key], x))
      PROVE  IsDocument(e)
  <2>1. IsList(Append(d[key], x))
    BY <1>1, AppendedIs DEF Extends
  <2> QED
    BY <1>4, <1>5, <2>1
<1>6. ASSUME NEW key \in keys, NEW i \in DOMAIN d[key], NEW e, Replaces(e, d, key, RemoveAt(d[key], i))
      PROVE  IsDocument(e)
  <2>1. IsList(RemoveAt(d[key], i))
    BY <1>1, RemovedIs
  <2> QED
    BY <1>4, <1>6, <2>1
\* Every edit is one of these.
<1>7. ASSUME NEW i \in DOMAIN d["rule_sets"], NEW key, NEW v
      PROVE  \E x : ReplacesIn(SetRuleSetField(d, i, key, v), d, "rule_sets", i, x)
  BY DEF SetRuleSetField, ReplacesIn
<1>8. ASSUME NEW i \in DOMAIN d["rule_sets"], NEW kind
      PROVE  \E x : ReplacesIn(SetRuleSetType(d, i, kind), d, "rule_sets", i, x)
  BY DEF SetRuleSetType, ReplacesIn
<1>9. ASSUME NEW i \in DOMAIN d["rule_sets"], NEW u, NEW p
      PROVE  \E x : ReplacesIn(SetRuleSetSource(d, i, u, p), d, "rule_sets", i, x)
  BY <1>7 DEF SetRuleSetSource
<1>10. ASSUME NEW kind
       PROVE  \E x : Replaces(AddRuleSet(d, kind), d, "rule_sets", Append(d["rule_sets"], x))
  BY DEF AddRuleSet, Replaces
<1>11. ASSUME NEW i
       PROVE  /\ Replaces(RemoveRuleSet(d, i), d, "rule_sets", RemoveAt(d["rule_sets"], i))
              /\ Replaces(RemovePlugin(d, i), d, "plugins", RemoveAt(d["plugins"], i))
  BY DEF RemoveRuleSet, RemovePlugin, Replaces
<1>12. \E x : Replaces(AddPlugin(d), d, "plugins", Append(d["plugins"], x))
  BY DEF AddPlugin, Replaces
<1>13. ASSUME NEW i \in DOMAIN d["plugins"], NEW key, NEW v
       PROVE  /\ \E x : ReplacesIn(SetPluginField(d, i, key, v), d, "plugins", i, x)
              /\ \E x : ReplacesIn(SetPreferred(d, i, key, v), d, "plugins", i, x)
              /\ \E x : ReplacesIn(SetOptimizer(d, i, key, v), d, "plugins", i, x)
              /\ \E x : ReplacesIn(SetOptimizerNumber(d, i, key, v), d, "plugins", i, x)
  BY DEF SetPluginField, SetPreferred, SetOptimizer, SetOptimizerNumber, ReplacesIn
<1>14. "rule_sets" \in keys /\ "plugins" \in keys
  OBVIOUS
<1> HIDE DEF keys
<1>15. CASE EditsRuleSets
  <2>1. \/ \E kind : document' = AddRuleSet(d, kind)
        \/ \E i \in DOMAIN d["rule_sets"] :
             \/ document' = RemoveRuleSet(d, i)
             \/ \E key, v : document' = SetRuleSetField(d, i, key, v)
             \/ \E kind : document' = SetRuleSetType(d, i, kind)
             \/ \E u, p : document' = SetRuleSetSource(d, i, u, p)
    BY <1>15 DEF EditsRuleSets, Edits, RuleIndexes, d
  <2> QED
    BY <2>1, <1>3, <1>5, <1>6, <1>7, <1>8, <1>9, <1>10, <1>11, <1>14
<1>16. CASE EditsPlugins \/ EditsOptimizers
  <2>1. \/ document' = AddPlugin(d)
        \/ \E i \in DOMAIN d["plugins"] :
             \/ document' = RemovePlugin(d, i)
             \/ \E key, v : \/ document' = SetPluginField(d, i, key, v)
                            \/ document' = SetPreferred(d, i, key, v)
                            \/ document' = SetOptimizer(d, i, key, v)
                            \/ document' = SetOptimizerNumber(d, i, key, v)
    BY <1>16 DEF EditsPlugins, EditsOptimizers, Edits, PluginIndexes, d
  <2> QED
    BY <2>1, <1>3, <1>5, <1>6, <1>11, <1>12, <1>13, <1>14
<1> QED
  BY <1>15, <1>16

\* The document, the file if it loads, and what is written are documents.
ShapeInv ==
  /\ IsDocument(document)
  /\ Loadable(file) => IsDocument(file)

LEMMA ShapeStep == SettingsInv /\ ShapeInv /\ [SettingsNext]_settings => ShapeInv'
<1> SUFFICES ASSUME SettingsInv, ShapeInv, [SettingsNext]_settings PROVE ShapeInv'
  OBVIOUS
<1> USE DEF ShapeInv, Loadable
<1>1. CASE Opens \/ Reloads
  BY <1>1, DefaultIsValid DEF Opens, Reloads, Shows
<1>2. CASE EditsGeneral \/ EditsLayers \/ EditsEndpoints \/ EditsMatches
             \/ EditsRuleSets \/ EditsPlugins \/ EditsOptimizers
  <2>1. IsDocument(document')
    BY <1>2, GeneralEditsKeepShape, LayerEditsKeepShape, OtherEditsKeepShape
  <2>2. file' = file
    BY <1>2 DEF EditsGeneral, EditsLayers, EditsEndpoints, EditsMatches, EditsRuleSets,
                EditsPlugins, EditsOptimizers, Edits
  <2> QED
    BY <2>1, <2>2
<1>3. CASE SaveStarts \/ Writes \/ WriteFails \/ RenameFails
  BY <1>3 DEF SaveStarts, Writes, WriteFails, RenameFails
<1>4. CASE Renames
  BY <1>4 DEF Renames, SettingsInv
<1>5. CASE Closes
  BY <1>5, DefaultIsValid DEF Closes
<1>6. CASE SomebodyElseWrites
  BY <1>6, FilesAreValid DEF SomebodyElseWrites
<1>7. CASE UNCHANGED settings
  BY <1>7 DEF settings
<1> QED
  BY <1>1, <1>2, <1>3, <1>4, <1>5, <1>6, <1>7 DEF SettingsNext


\* What each type removes and fills in.
TypeTable(kind) ==
  /\ kind \in {"udp", "tcp"} =>
       /\ Foreign(kind) = {"refresh_secs", "url", "server_name"}
       /\ LayerDefaults(kind) = [address |-> At("resolver", 53), timeout_ms |-> "some"]
       /\ DOMAIN LayerDefaults(kind) = {"address", "timeout_ms"}
  /\ kind = "doh" =>
       /\ Foreign(kind) = {"refresh_secs", "server_name"}
       /\ LayerDefaults(kind) =
            [address |-> At("resolver", 443), url |-> Url(TRUE, 443), timeout_ms |-> "some"]
       /\ DOMAIN LayerDefaults(kind) = {"address", "url", "timeout_ms"}
  /\ kind = "dot" =>
       /\ Foreign(kind) = {"refresh_secs", "url"}
       /\ LayerDefaults(kind) =
            [address |-> At("resolver", 853), server_name |-> "good", timeout_ms |-> "some"]
       /\ DOMAIN LayerDefaults(kind) = {"address", "server_name", "timeout_ms"}
  /\ kind = "local" =>
       /\ Foreign(kind) = {"address", "url", "server_name"}
       /\ LayerDefaults(kind) = [timeout_ms |-> "some", refresh_secs |-> "some"]
       /\ DOMAIN LayerDefaults(kind) = {"timeout_ms", "refresh_secs"}

LEMMA TypeTables ==
  ASSUME NEW kind \in Kinds
  PROVE  TypeTable(kind)
<1>1. CASE kind \in {"udp", "tcp"}
  BY <1>1 DEF Foreign, LayerDefaults, TypeTable
<1>2. CASE kind = "doh"
  BY <1>2 DEF Foreign, LayerDefaults, TypeTable
<1>3. CASE kind = "dot"
  BY <1>3 DEF Foreign, LayerDefaults, TypeTable
<1>4. CASE kind = "local"
  BY <1>4 DEF Foreign, LayerDefaults, TypeTable
<1> QED
  BY <1>1, <1>2, <1>3, <1>4 DEF Kinds, TypeTable

\* What is left of a layer whose type is changed.
Retypes(r, l, kind) ==
  /\ DOMAIN r = (DOMAIN l \ Foreign(kind)) \cup DOMAIN LayerDefaults(kind)
  /\ r["type"] = kind
  /\ \A k \in DOMAIN l \ Foreign(kind) : k # "type" => r[k] = l[k]
  /\ \A k \in DOMAIN LayerDefaults(kind) \ (DOMAIN l \ Foreign(kind)) :
       r[k] = LayerDefaults(kind)[k]

LEMMA RetypedIs ==
  ASSUME NEW l, IsLayer(l), NEW kind \in Kinds, NEW r, r = Retyped(l, kind)
  PROVE  Retypes(r, l, kind)
<1> DEFINE p == Put(l, "type", kind)
           q == Drop(p, Foreign(kind))
<1>1. "type" \in DOMAIN l /\ "type" \notin Foreign(kind)
  <2>1. "type" \notin Foreign(kind)
    BY DEF Foreign, Kinds
  <2> QED
    BY <2>1 DEF IsLayer, IsObject
<1>2. /\ DOMAIN p = DOMAIN l \cup {"type"} /\ p["type"] = kind
      /\ \A x \in DOMAIN l : x # "type" => p[x] = l[x]
  BY DEF Put
<1> HIDE DEF p
<1>3. /\ DOMAIN q = DOMAIN p \ Foreign(kind)
      /\ \A x \in DOMAIN p \ Foreign(kind) : q[x] = p[x]
  BY DropIs
<1>4. r = Defaulted(q, LayerDefaults(kind))
  BY DEF Retyped, p
<1> HIDE DEF q
<1>5. /\ DOMAIN r = DOMAIN q \cup DOMAIN LayerDefaults(kind)
      /\ \A x \in DOMAIN q : r[x] = q[x]
      /\ \A x \in DOMAIN LayerDefaults(kind) \ DOMAIN q : r[x] = LayerDefaults(kind)[x]
  BY <1>4 DEF Defaulted, Has
<1>6. DOMAIN q = DOMAIN l \ Foreign(kind)
  BY <1>1, <1>2, <1>3
<1> QED
  BY <1>1, <1>2, <1>3, <1>5, <1>6 DEF Retypes

\* Fields that a change of type may neither remove nor fill in.
Kept == {"tag", "match", "next", "fallback", "plugin"}

LEMMA RetypedKeeps ==
  ASSUME NEW l, IsLayer(l), NEW kind \in Kinds, NEW r, r = Retyped(l, kind)
  PROVE  \A k \in Kept : (Has(r, k) <=> Has(l, k)) /\ (Has(l, k) => r[k] = l[k])
<1>t. TypeTable(kind)
  BY TypeTables
<1>r. Retypes(r, l, kind)
  BY RetypedIs
<1>1. \A k \in Kept : k \notin Foreign(kind) /\ k \notin DOMAIN LayerDefaults(kind) /\ k # "type"
  <2>1. CASE kind \in {"udp", "tcp"}
    BY <2>1, <1>t DEF Kept, TypeTable
  <2>2. CASE kind = "doh"
    BY <2>2, <1>t DEF Kept, TypeTable
  <2>3. CASE kind = "dot"
    BY <2>3, <1>t DEF Kept, TypeTable
  <2>4. CASE kind = "local"
    BY <2>4, <1>t DEF Kept, TypeTable
  <2> QED
    BY <2>1, <2>2, <2>3, <2>4 DEF Kinds
<1> QED
  BY <1>1, <1>r DEF Has, Retypes

LEMMA RefusedIsForeign ==
  ASSUME NEW kind \in Kinds
  PROVE  Foreign(kind) = Refused(kind)
<1>1. CASE kind \in {"udp", "tcp"}
  BY <1>1 DEF Foreign, Refused
<1>2. CASE kind \notin {"udp", "tcp"}
  BY <1>2 DEF Foreign, Refused, Kinds
<1> QED
  BY <1>1, <1>2

\* A valid layer has no field but those of its type.
LEMMA OwnFields ==
  ASSUME NEW l, IsLayer(l), NEW a, NEW P, NEW R, LayerValid(l, a, P, R)
  PROVE  /\ Has(l, "url") => l.type = "doh" /\ l.url.usable
         /\ Has(l, "server_name") => l.type = "dot" /\ l.server_name = "good"
         /\ Has(l, "refresh_secs") => l.type = "local" /\ l.refresh_secs # "zero"
         /\ Has(l, "address") => l.type # "local" /\ l.address.port # 0
         /\ Has(l, "timeout_ms") => l.timeout_ms # "zero"
<1>1. l.type \in Kinds
  BY DEF IsLayer
<1>2. \A k \in Refused(l.type) : k \notin DOMAIN l
  BY DEF LayerValid
<1>3. /\ l.type = "dot" => l.server_name = "good"
      /\ l.type = "doh" => l.url.usable
      /\ l.type # "local" => l.address.port # 0
      /\ l.type = "local" => Get(l, "refresh_secs", "some") # "zero"
      /\ Get(l, "timeout_ms", "some") # "zero"
  BY DEF LayerValid, UsableUrl, NetworkValid
<1>4. /\ "url" \in DOMAIN l => l.type = "doh"
      /\ "server_name" \in DOMAIN l => l.type = "dot"
      /\ "refresh_secs" \in DOMAIN l => l.type = "local"
      /\ "address" \in DOMAIN l => l.type # "local"
  BY <1>1, <1>2 DEF Refused, Kinds
<1> QED
  BY <1>3, <1>4 DEF Has, Get

\* The exception: the address that is kept is in the way.
Obstructs(l, r, kind, listener) ==
  /\ kind # "local"
  /\ LET endpoint == EndpointOf(l, kind) IN
       \/ Overlap(listener, endpoint)
       \/ kind = "doh" /\ endpoint.port # r.url.port

LEMMA RetypedAddress ==
  ASSUME NEW l, IsLayer(l), NEW kind \in Kinds, NEW r, r = Retyped(l, kind)
  PROVE  /\ kind = "local" => ~Has(r, "address")
         /\ kind # "local" => Has(r, "address") /\ r.address = EndpointOf(l, kind)
<1>t. TypeTable(kind)
  BY TypeTables
<1>r. Retypes(r, l, kind)
  BY RetypedIs
<1>1. CASE kind = "local"
  <2>1. "address" \in Foreign(kind) /\ "address" \notin DOMAIN LayerDefaults(kind)
    BY <1>1, <1>t DEF TypeTable
  <2> QED
    BY <1>1, <2>1, <1>r DEF Has, Retypes
<1>2. CASE kind # "local"
  <2>1. "address" \notin Foreign(kind) /\ "address" \in DOMAIN LayerDefaults(kind)
    BY <1>2, <1>t DEF Kinds, TypeTable
  <2>2. /\ "address" \in DOMAIN r
        /\ "address" \in DOMAIN l => r["address"] = l["address"]
        /\ "address" \notin DOMAIN l => r["address"] = LayerDefaults(kind)["address"]
    BY <2>1, <1>r DEF Retypes
  <2> QED
    BY <1>2, <2>2 DEF EndpointOf, Get, Has
<1> QED
  BY <1>1, <1>2

LEMMA DefaultEndpoint ==
  ASSUME NEW kind \in Kinds, kind # "local"
  PROVE  LayerDefaults(kind).address.port # 0
<1>t. TypeTable(kind)
  BY TypeTables
<1>1. CASE kind \in {"udp", "tcp"}
  BY <1>t, <1>1 DEF TypeTable, At
<1>2. CASE kind = "doh"
  BY <1>t, <1>2 DEF TypeTable, At
<1>3. CASE kind = "dot"
  BY <1>t, <1>3 DEF TypeTable, At
<1> QED
  BY <1>1, <1>2, <1>3 DEF Kinds

LEMMA RetypedIsValid ==
  ASSUME NEW l, IsLayer(l), NEW kind \in Kinds, NEW r, r = Retyped(l, kind),
         NEW a, NEW P, NEW R, LayerValid(l, a, P, R), ~Obstructs(l, r, kind, a)
  PROVE  LayerValid(r, a, P, R)
<1>t. TypeTable(kind)
  BY TypeTables
<1>r. Retypes(r, l, kind)
  BY RetypedIs
<1> DEFINE new == LayerDefaults(kind)
<1>1. IsLayer(r) /\ r.type = kind
  BY <1>r, RetypedIsLayer DEF Retypes
<1>2. \A k \in Kept : (Has(r, k) <=> Has(l, k)) /\ (Has(l, k) => r[k] = l[k])
  BY RetypedKeeps
<1>3. Has(l, "match") /\ r.match = l.match
  BY <1>2 DEF IsLayer, IsObject, Has, Kept
<1>4. /\ MatchValid(r.match, R)
      /\ Filtered(r) => Has(r, "next")
      /\ Has(r, "plugin") => r.plugin \in P
  BY <1>2, <1>3 DEF LayerValid, Filtered, Kept
<1>5. DOMAIN r \cap Refused(r.type) = {}
  <2>1. DOMAIN new \cap Foreign(kind) = {}
    <3>1. CASE kind \in {"udp", "tcp"}
      BY <3>1, <1>t DEF TypeTable
    <3>2. CASE kind = "doh"
      BY <3>2, <1>t DEF TypeTable
    <3>3. CASE kind = "dot"
      BY <3>3, <1>t DEF TypeTable
    <3>4. CASE kind = "local"
      BY <3>4, <1>t DEF TypeTable
    <3> QED
      BY <3>1, <3>2, <3>3, <3>4 DEF Kinds
  <2> QED
    BY <1>1, <2>1, RefusedIsForeign, <1>r DEF Retypes
\* A field is the one the layer had or the default.
<1>6. \A k \in DOMAIN r : k # "type" =>
        \/ k \in DOMAIN l /\ r[k] = l[k]
        \/ k \in DOMAIN new /\ r[k] = new[k]
  BY <1>r DEF Retypes
<1>7. /\ "timeout_ms" \in DOMAIN new => new["timeout_ms"] = "some"
      /\ "refresh_secs" \in DOMAIN new => new["refresh_secs"] = "some"
      /\ "server_name" \in DOMAIN new => new["server_name"] = "good"
      /\ "url" \in DOMAIN new => new["url"].usable
  <2>1. CASE kind \in {"udp", "tcp"}
    BY <2>1, <1>t DEF TypeTable
  <2>2. CASE kind = "doh"
    BY <2>2, <1>t DEF Url, TypeTable
  <2>3. CASE kind = "dot"
    BY <2>3, <1>t DEF TypeTable
  <2>4. CASE kind = "local"
    BY <2>4, <1>t DEF TypeTable
  <2> QED
    BY <2>1, <2>2, <2>3, <2>4 DEF Kinds
<1>8. /\ kind = "dot" => "server_name" \in DOMAIN r
      /\ kind = "doh" => "url" \in DOMAIN r
  <2>1. DOMAIN new \subseteq DOMAIN r
    BY <1>r DEF Retypes
  <2> QED
    BY <2>1, <1>t DEF TypeTable
<1> HIDE DEF new
<1>9. /\ Has(l, "url") => l.url.usable
      /\ Has(l, "server_name") => l.server_name = "good"
      /\ Has(l, "refresh_secs") => l.refresh_secs # "zero"
      /\ Has(l, "timeout_ms") => l.timeout_ms # "zero"
      /\ Has(l, "address") => l.address.port # 0
  BY OwnFields
<1>10. Get(r, "timeout_ms", "some") # "zero" /\ Get(r, "refresh_secs", "some") # "zero"
  BY <1>6, <1>7, <1>9 DEF Get, Has
<1>11. /\ kind = "dot" => Has(r, "server_name") /\ r.server_name = "good"
       /\ kind = "doh" => UsableUrl(r)
  BY <1>6, <1>7, <1>8, <1>9 DEF Has, UsableUrl
<1>12. ASSUME kind # "local"
       PROVE  NetworkValid(r, a) /\ (kind = "doh" => r.url.port = r.address.port)
  <2>1. Has(r, "address") /\ r.address = EndpointOf(l, kind)
    BY <1>12, RetypedAddress
  <2>2. r.address.port # 0
    BY <1>9, <1>12, <2>1, DefaultEndpoint DEF EndpointOf, Get
  <2> QED
    BY <1>12, <2>1, <2>2 DEF Obstructs, NetworkValid
<1> QED
  BY <1>1, <1>4, <1>5, <1>10, <1>11, <1>12 DEF LayerValid


\* The edge of a layer is the field of the one entry with its tag.
LEMMA EdgeIs ==
  ASSUME NEW list, DistinctTags(list), NEW j \in DOMAIN list, NEW key
  PROVE  EdgeOf(list, list[j].tag, key) = IF Has(list[j], key) THEN list[j][key] ELSE None
<1>1. \A x \in Range(list) : x.tag = list[j].tag => x = list[j]
  BY DEF Range, DistinctTags
<1>2. list[j] \in Range(list)
  BY DEF Range
<1>3. (CHOOSE x \in Range(list) : x.tag = list[j].tag) = list[j]
  BY <1>1, <1>2
<1>4. (\E i \in DOMAIN list : list[i].tag = list[j].tag /\ Has(list[i], key)) <=> Has(list[j], key)
  BY DEF DistinctTags
<1> DEFINE chosen == CHOOSE x \in Range(list) : x.tag = list[j].tag
           has == \E i \in DOMAIN list : list[i].tag = list[j].tag /\ Has(list[i], key)
<1>5. EdgeOf(list, list[j].tag, key) = IF has THEN chosen[key] ELSE None
  BY Zenon DEF EdgeOf
<1>6. chosen = list[j] /\ (has <=> Has(list[j], key))
  BY <1>3, <1>4
<1> HIDE DEF chosen, has
<1> QED
  BY <1>5, <1>6

LEMMA NoEdge ==
  ASSUME NEW list, NEW l, l \notin Tags(list), NEW key
  PROVE  EdgeOf(list, l, key) = None
  BY DEF EdgeOf, Tags

Edges == {"next", "fallback"}
SameEdges(x, y) == \A key \in Edges : (Has(x, key) <=> Has(y, key)) /\ (Has(y, key) => x[key] = y[key])
NoEdges(x) == \A key \in Edges : ~Has(x, key)

LEMMA GraphIs ==
  ASSUME NEW s, NEW t, \A l \in Layers : \A key \in Edges : EdgeOf(s, l, key) = EdgeOf(t, l, key)
  PROVE  Graph(s) = Graph(t)
<1>1. \A l \in Layers : /\ EdgeOf(s, l, "next") = EdgeOf(t, l, "next")
                        /\ EdgeOf(s, l, "fallback") = EdgeOf(t, l, "fallback")
  BY DEF Edges
<1> QED
  BY <1>1 DEF Graph

\* An entry that keeps its tag and its edges leaves the graph alone, ...
Rewrites(t, s) ==
  /\ DOMAIN t = DOMAIN s
  /\ \A j \in DOMAIN s : t[j].tag = s[j].tag /\ SameEdges(t[j], s[j])

LEMMA RewrittenGraph ==
  ASSUME NEW s, DistinctTags(s), NEW t, Rewrites(t, s)
  PROVE  DistinctTags(t) /\ Tags(t) = Tags(s) /\ Graph(t) = Graph(s)
<1>1. DistinctTags(t) /\ Tags(t) = Tags(s)
  BY DEF DistinctTags, Tags, Rewrites
<1>2. ASSUME NEW l, NEW key \in Edges PROVE EdgeOf(t, l, key) = EdgeOf(s, l, key)
  <2>1. CASE l \in Tags(s)
    <3>1. PICK j \in DOMAIN s : l = s[j].tag
      BY <2>1 DEF Tags
    <3>2. EdgeOf(s, l, key) = IF Has(s[j], key) THEN s[j][key] ELSE None
      BY <3>1, EdgeIs
    <3>3. j \in DOMAIN t /\ l = t[j].tag
      BY <3>1 DEF Rewrites
    <3>4. EdgeOf(t, l, key) = IF Has(t[j], key) THEN t[j][key] ELSE None
      BY <1>1, <3>3, EdgeIs
    <3>5. (Has(t[j], key) <=> Has(s[j], key)) /\ (Has(s[j], key) => t[j][key] = s[j][key])
      BY <3>1 DEF Rewrites, SameEdges
    <3> QED
      BY <3>2, <3>4, <3>5
  <2>2. CASE l \notin Tags(s)
    BY <1>1, <2>2, NoEdge
  <2> QED
    BY <2>1, <2>2
<1> QED
  BY <1>1, <1>2, GraphIs

\* ... and so does one that is added without an edge: nobody pointed at its tag.
LEMMA ExtendedTags ==
  ASSUME NEW s, NEW t, NEW x, NEW n, Extends(t, s, x, n), DistinctTags(s), x.tag \notin Tags(s)
  PROVE  DistinctTags(t) /\ Tags(t) = Tags(s) \cup {x.tag}
  BY DEF Extends, DistinctTags, Tags

LEMMA ExtendedGraph ==
  ASSUME NEW s, NEW t, NEW x, NEW n, Extends(t, s, x, n), DistinctTags(s), x.tag \notin Tags(s),
         NoEdges(x)
  PROVE  Graph(t) = Graph(s)
<1>1. DistinctTags(t) /\ Tags(t) = Tags(s) \cup {x.tag}
  BY ExtendedTags
<1>2. ASSUME NEW l, NEW key \in Edges PROVE EdgeOf(t, l, key) = EdgeOf(s, l, key)
  <2>1. CASE l \in Tags(s)
    <3>1. PICK j \in DOMAIN s : l = s[j].tag
      BY <2>1 DEF Tags
    <3>2. EdgeOf(s, l, key) = IF Has(s[j], key) THEN s[j][key] ELSE None
      BY <3>1, EdgeIs
    <3>3. j \in DOMAIN t /\ t[j] = s[j]
      BY <3>1 DEF Extends
    <3>4. EdgeOf(t, l, key) = IF Has(t[j], key) THEN t[j][key] ELSE None
      BY <1>1, <3>1, <3>3, EdgeIs
    <3> QED
      BY <3>2, <3>3, <3>4
  <2>2. CASE l = x.tag
    <3>1. n \in DOMAIN t /\ t[n] = x /\ ~Has(x, key)
      BY DEF Extends, NoEdges
    <3>2. EdgeOf(t, l, key) = None
      BY <1>1, <2>2, <3>1, EdgeIs
    <3> QED
      BY <2>2, <3>2, NoEdge
  <2>3. CASE l \notin Tags(t)
    BY <1>1, <2>3, NoEdge
  <2> QED
    BY <1>1, <2>1, <2>2, <2>3
<1> QED
  BY <1>2, GraphIs

-----------------------------------------------------------------------------
\* More plugins and rule sets to name do not make a layer invalid.
LEMMA NamesGrow ==
  ASSUME NEW l, NEW a, NEW P, NEW R, NEW Q, NEW S, LayerValid(l, a, P, R), P \subseteq Q, R \subseteq S
  PROVE  LayerValid(l, a, Q, S)
<1>1. MatchValid(l.match, S)
  BY DEF LayerValid, MatchValid
<1> QED
  BY <1>1 DEF LayerValid

NewLayerFits(tag, kind, r) ==
  /\ DOMAIN r = {"tag", "type", "match"} \cup DOMAIN LayerDefaults(kind)
  /\ r.tag = tag /\ r.type = kind /\ r.match = NoMatch
  /\ \A k \in DOMAIN LayerDefaults(kind) : r[k] = LayerDefaults(kind)[k]

LEMMA NewLayerIs ==
  ASSUME NEW tag, NEW kind \in Kinds, NEW r, r = NewLayer(tag, kind)
  PROVE  NewLayerFits(tag, kind, r)
<1>t. TypeTable(kind)
  BY TypeTables
<1> DEFINE l == [tag |-> tag, type |-> kind, match |-> NoMatch]
<1>1. DOMAIN l = {"tag", "type", "match"} /\ l["tag"] = tag /\ l["type"] = kind /\ l["match"] = NoMatch
  OBVIOUS
<1>2. r = Defaulted(l, LayerDefaults(kind))
  BY DEF NewLayer
<1>3. \A k \in DOMAIN LayerDefaults(kind) : k \notin {"tag", "type", "match"}
  <2>1. CASE kind \in {"udp", "tcp"}
    BY <1>t, <2>1 DEF TypeTable
  <2>2. CASE kind = "doh"
    BY <1>t, <2>2 DEF TypeTable
  <2>3. CASE kind = "dot"
    BY <1>t, <2>3 DEF TypeTable
  <2>4. CASE kind = "local"
    BY <1>t, <2>4 DEF TypeTable
  <2> QED
    BY <2>1, <2>2, <2>3, <2>4 DEF Kinds
<1> HIDE DEF l
<1> QED
  BY <1>1, <1>2, <1>3 DEF Defaulted, Has, NewLayerFits

LEMMA NewLayerIsValid ==
  ASSUME NEW tag, NEW kind \in Kinds, NEW r, r = NewLayer(tag, kind), NEW a, NEW P, NEW R,
         kind # "local" => ~Overlap(a, LayerDefaults(kind).address)
  PROVE  /\ LayerValid(r, a, P, R) /\ NoEdges(r) /\ r.tag = tag
         /\ Has(r, "address") => r.address # Unparsable
<1>t. TypeTable(kind)
  BY TypeTables
<1>r. NewLayerFits(tag, kind, r)
  BY NewLayerIs
<1>m. MatchValid(r.match, R) /\ ~Filtered(r)
  BY <1>r DEF MatchValid, NoMatch, Filtered, NewLayerFits
<1>n. NoEdges(r) /\ ~Has(r, "plugin")
  <2>1. CASE kind \in {"udp", "tcp"}
    BY <1>t, <1>r, <2>1 DEF TypeTable, NewLayerFits, NoEdges, Edges, Has
  <2>2. CASE kind = "doh"
    BY <1>t, <1>r, <2>2 DEF TypeTable, NewLayerFits, NoEdges, Edges, Has
  <2>3. CASE kind = "dot"
    BY <1>t, <1>r, <2>3 DEF TypeTable, NewLayerFits, NoEdges, Edges, Has
  <2>4. CASE kind = "local"
    BY <1>t, <1>r, <2>4 DEF TypeTable, NewLayerFits, NoEdges, Edges, Has
  <2> QED
    BY <2>1, <2>2, <2>3, <2>4 DEF Kinds
<1>1. CASE kind \in {"udp", "tcp"}
  <2>1. DOMAIN r = {"tag", "type", "match", "address", "timeout_ms"}
    BY <1>t, <1>r, <1>1 DEF TypeTable, NewLayerFits
  <2>2. r["timeout_ms"] = "some" /\ r["address"] = At("resolver", 53) /\ r["type"] = kind
    BY <1>t, <1>r, <1>1 DEF TypeTable, NewLayerFits
  <2>3. LayerDefaults(kind).address = At("resolver", 53)
    BY <1>t, <1>1 DEF TypeTable
  <2>4. Refused(kind) = {"refresh_secs", "url", "server_name"}
    BY <1>1 DEF Refused
  <2>5. kind # "local" /\ kind # "doh" /\ kind # "dot"
    BY <1>1
  <2> QED
    BY <1>m, <1>n, <1>r, <2>1, <2>2, <2>3, <2>4, <2>5
       DEF NewLayerFits, LayerValid, Get, Has, NetworkValid, At, Unparsable
<1>2. CASE kind = "doh"
  <2>1. DOMAIN r = {"tag", "type", "match", "address", "url", "timeout_ms"}
    BY <1>t, <1>r, <1>2 DEF TypeTable, NewLayerFits
  <2>2. /\ r["timeout_ms"] = "some" /\ r["address"] = At("resolver", 443) /\ r["type"] = kind
        /\ r["url"] = Url(TRUE, 443)
    <3> DEFINE u == Url(TRUE, 443)
    <3>1. /\ LayerDefaults(kind) =
               [address |-> At("resolver", 443), url |-> u, timeout_ms |-> "some"]
          /\ DOMAIN LayerDefaults(kind) = {"address", "url", "timeout_ms"}
      BY <1>t, <1>2 DEF TypeTable
    <3> HIDE DEF u
    <3> QED
      <4>1. r["url"] = u /\ r["timeout_ms"] = "some" /\ r["address"] = At("resolver", 443)
        BY <1>r, <3>1 DEF NewLayerFits
      <4> QED
        BY <1>r, <1>2, <4>1 DEF NewLayerFits, u
  <2>3. LayerDefaults(kind).address = At("resolver", 443)
    BY <1>t, <1>2 DEF TypeTable
  <2> QED
    BY <1>m, <1>n, <1>r, <1>2, <2>1, <2>2, <2>3
       DEF NewLayerFits, LayerValid, Refused, Get, Has, NetworkValid, At, Unparsable, UsableUrl, Url
<1>3. CASE kind = "dot"
  <2>1. DOMAIN r = {"tag", "type", "match", "address", "server_name", "timeout_ms"}
    BY <1>t, <1>r, <1>3 DEF TypeTable, NewLayerFits
  <2>2. /\ r["timeout_ms"] = "some" /\ r["address"] = At("resolver", 853) /\ r["type"] = kind
        /\ r["server_name"] = "good"
    BY <1>t, <1>r, <1>3 DEF TypeTable, NewLayerFits
  <2>3. LayerDefaults(kind).address = At("resolver", 853)
    BY <1>t, <1>3 DEF TypeTable
  <2> QED
    BY <1>m, <1>n, <1>r, <1>3, <2>1, <2>2, <2>3
       DEF NewLayerFits, LayerValid, Refused, Get, Has, NetworkValid, At, Unparsable
<1>4. CASE kind = "local"
  <2>1. DOMAIN r = {"tag", "type", "match", "timeout_ms", "refresh_secs"}
    BY <1>t, <1>r, <1>4 DEF TypeTable, NewLayerFits
  <2>2. r["timeout_ms"] = "some" /\ r["refresh_secs"] = "some" /\ r["type"] = kind
    BY <1>t, <1>r, <1>4 DEF TypeTable, NewLayerFits
  <2> QED
    BY <1>m, <1>n, <1>r, <1>4, <2>1, <2>2 DEF NewLayerFits, LayerValid, Refused, Get, Has
<1> QED
  BY <1>1, <1>2, <1>3, <1>4 DEF Kinds


\* What Valid asks of the parts of a document that an edit of a list leaves alone.
GeneralValid(d) ==
  /\ d.address # Unparsable
  /\ d.allow_remote \/ d.address.host = "loopback"
  /\ d.range_refresh_secs # "zero" /\ d.request_timeout_ms # "zero"
PluginParses(plugin) ==
  /\ plugin.rewrite_ttl_secs # "huge"
  /\ plugin.optimizer.numbers["test_port"] # "huge"
  /\ "unparsable" \notin Range(plugin.preferred)
PluginsValid(plugins) ==
  /\ \A i \in DOMAIN plugins : PluginParses(plugins[i]) /\ PluginValid(plugins[i])
  /\ DistinctTags(plugins) /\ Blank \notin Tags(plugins)
RuleSetsValid(rules) ==
  /\ \A i \in DOMAIN rules : RuleSetValid(rules[i])
  /\ DistinctTags(rules) /\ Blank \notin Tags(rules)
LayersParse(layers, a) == \A i \in DOMAIN layers : Get(layers[i], "address", a) # Unparsable

LEMMA ValidIs ==
  ASSUME NEW d
  PROVE  Valid(d) <=> /\ GeneralValid(d)
                      /\ PluginsValid(d.plugins) /\ RuleSetsValid(d.rule_sets)
                      /\ LayersParse(d.layers, d.address)
                      /\ LayersValid(d.layers, d.address, Tags(d.plugins), Tags(d.rule_sets))
                      /\ d.entry \in Tags(d.layers)
<1>1. \A s : Range(s) = {s[i] : i \in DOMAIN s}
  BY DEF Range
<1> USE DEF GeneralValid, PluginParses, PluginsValid, RuleSetsValid, LayersParse
<1>2. (\A layer \in Range(d.layers) : Get(layer, "address", d.address) # Unparsable)
        <=> LayersParse(d.layers, d.address)
  BY <1>1
<1>3. /\ (\A plugin \in Range(d.plugins) : PluginParses(plugin))
           <=> (\A i \in DOMAIN d.plugins : PluginParses(d.plugins[i]))
      /\ (\A plugin \in Range(d.plugins) : PluginValid(plugin))
           <=> (\A i \in DOMAIN d.plugins : PluginValid(d.plugins[i]))
  <2> HIDE DEF PluginParses
  <2> QED
    BY <1>1
<1>4. (\A rule \in Range(d.rule_sets) : RuleSetValid(rule))
        <=> (\A i \in DOMAIN d.rule_sets : RuleSetValid(d.rule_sets[i]))
  BY <1>1
<1>5. Parses(d) <=> /\ d.address # Unparsable /\ LayersParse(d.layers, d.address)
                    /\ \A i \in DOMAIN d.plugins : PluginParses(d.plugins[i])
  <2>1. Parses(d) <=> /\ d.address # Unparsable
                      /\ \A layer \in Range(d.layers) : Get(layer, "address", d.address) # Unparsable
                      /\ \A plugin \in Range(d.plugins) : PluginParses(plugin)
    BY DEF Parses
  <2> HIDE DEF PluginParses, LayersParse
  <2> QED
    BY <1>2, <1>3, <2>1
<1> HIDE DEF PluginParses, LayersParse
<1> QED
  BY <1>3, <1>4, <1>5 DEF Valid

\* The layers that stay, and the references among them.
LayersLook(layers, a, P, R) ==
  /\ layers # << >>
  /\ Blank \notin Tags(layers) /\ DistinctTags(layers)
  /\ \A i \in DOMAIN layers :
       /\ LayerValid(layers[i], a, P, R)
       /\ \A key \in Edges : Has(layers[i], key) => layers[i][key] \in Tags(layers)

LEMMA LayersValidIs ==
  ASSUME NEW layers, NEW a, NEW P, NEW R
  PROVE  LayersValid(layers, a, P, R) <=> LayersLook(layers, a, P, R) /\ Acyclic(Graph(layers))
  BY DEF LayersValid, LayersLook, Range, Edges

LEMMA NotEmpty ==
  ASSUME NEW s, NEW i, i \in DOMAIN s
  PROVE  s # << >>
  OBVIOUS

\* A change of type.
LEMMA TypeChange ==
  ASSUME NEW d, IsDocument(d), Valid(d), NEW i \in DOMAIN d.layers, NEW kind \in Kinds,
         NEW e, e = SetLayerType(d, i, kind),
         ~Obstructs(d.layers[i], e.layers[i], kind, d.address)
  PROVE  Valid(e)
<1> DEFINE l == d.layers[i]
           r == Retyped(l, kind)
           P == Tags(d.plugins)
           R == Tags(d.rule_sets)
<1>1. IsLayer(l) /\ IsLayer(r) /\ IsObject(d, DocumentKeys)
  BY RetypedIsLayer, DocumentIs
<1>2. e = WithLayer(d, i, r)
  BY DEF SetLayerType, Retyped
<1> HIDE DEF r
<1>3. /\ Differs(e, d, "layers", e.layers)
      /\ DOMAIN e.layers = DOMAIN d.layers /\ e.layers[i] = r
      /\ \A j \in DOMAIN d.layers : j # i => e.layers[j] = d.layers[j]
  BY <1>1, <1>2, WithLayerIs
<1>4. /\ e.address = d.address /\ e.allow_remote = d.allow_remote /\ e.entry = d.entry
      /\ e.range_refresh_secs = d.range_refresh_secs /\ e.request_timeout_ms = d.request_timeout_ms
      /\ e.plugins = d.plugins /\ e.rule_sets = d.rule_sets
  BY <1>3 DEF Differs, DocumentKeys
<1>5. /\ GeneralValid(d) /\ PluginsValid(d.plugins) /\ RuleSetsValid(d.rule_sets)
      /\ LayersParse(d.layers, d.address) /\ d.entry \in Tags(d.layers)
      /\ LayersLook(d.layers, d.address, P, R) /\ Acyclic(Graph(d.layers))
  BY ValidIs, LayersValidIs
<1> HIDE DEF P, R
<1>6. LayerValid(l, d.address, P, R)
  BY <1>5 DEF LayersLook
<1> HIDE DEF l
<1>7. LayerValid(r, d.address, P, R)
  BY <1>1, <1>3, <1>6, RetypedIsValid DEF l, r
\* The tag and the edges stay.
<1>8. Has(l, "tag") /\ \A k \in Kept : (Has(r, k) <=> Has(l, k)) /\ (Has(l, k) => r[k] = l[k])
  BY <1>1, RetypedKeeps DEF r, IsLayer, IsObject, Has
<1>9. r.tag = l.tag /\ SameEdges(r, l)
  BY <1>8 DEF Kept, SameEdges, Edges
<1>10. Rewrites(e.layers, d.layers)
  BY <1>3, <1>9 DEF Rewrites, SameEdges, l
<1>11. DistinctTags(e.layers) /\ Tags(e.layers) = Tags(d.layers) /\ Graph(e.layers) = Graph(d.layers)
  <2>1. DistinctTags(d.layers)
    BY <1>5 DEF LayersLook
  <2> QED
    BY <1>10, <2>1, RewrittenGraph
\* The address is one, whoever it comes from.
<1>12. Get(r, "address", d.address) # Unparsable
  <2>1. CASE kind = "local"
    BY <1>1, <1>5, <2>1, RetypedAddress DEF r, Get, GeneralValid
  <2>2. CASE kind # "local"
    <3>1. Has(r, "address") /\ r.address = EndpointOf(l, kind)
      BY <1>1, <2>2, RetypedAddress DEF r
    <3>2. EndpointOf(l, kind) # Unparsable
      <4>1. Get(l, "address", d.address) # Unparsable
        BY <1>5 DEF LayersParse, l
      <4>2. LayerDefaults(kind).address # Unparsable
        BY <2>2, DefaultEndpoint DEF Unparsable, At
      <4> QED
        BY <4>1, <4>2 DEF EndpointOf, Get
    <3> QED
      BY <3>1, <3>2 DEF Get
  <2> QED
    BY <2>1, <2>2
<1>13. LayersParse(e.layers, d.address)
  BY <1>3, <1>5, <1>12 DEF LayersParse
<1>14. LayersLook(e.layers, d.address, P, R)
  <2>1. e.layers # << >>
    BY <1>3, NotEmpty
  <2>2. ASSUME NEW j \in DOMAIN e.layers PROVE LayerValid(e.layers[j], d.address, P, R)
    BY <1>3, <1>5, <1>7 DEF LayersLook
  <2>3. ASSUME NEW j \in DOMAIN e.layers, NEW key \in Edges, Has(e.layers[j], key)
        PROVE  e.layers[j][key] \in Tags(d.layers)
    BY <1>5, <1>10, <2>3 DEF LayersLook, Rewrites, SameEdges
  <2> QED
    BY <1>5, <1>11, <2>1, <2>2, <2>3 DEF LayersLook
<1> QED
  BY <1>4, <1>5, <1>11, <1>13, <1>14, ValidIs, LayersValidIs DEF P, R, GeneralValid


\* A document with one entry more in a list.
LEMMA Added ==
  ASSUME NEW d, IsDocument(d), NEW key \in Lists, NEW x, NEW e,
         Replaces(e, d, key, Append(d[key], x))
  PROVE  \E n : Extends(e[key], d[key], x, n) /\ Differs(e, d, key, e[key])
<1>1. IsObject(d, DocumentKeys) /\ IsList(d[key]) /\ key \in DocumentKeys
  BY DocumentIs DEF Lists, DocumentKeys
<1> DEFINE t == Append(d[key], x)
<1>2. PICK n : Extends(t, d[key], x, n)
  BY <1>1, AppendedIs
<1> HIDE DEF t
<1>3. Differs(e, d, key, t)
  BY <1>1, FieldChanges DEF t
<1>4. e[key] = t
  BY <1>3 DEF Differs
<1> QED
  BY <1>2, <1>3, <1>4

LEMMA LayerAdded ==
  ASSUME NEW d, IsDocument(d), Valid(d), NEW kind \in Kinds,
         HasFresh(NewLayers, d.layers), NEW e, e = AddLayer(d, kind),
         kind # "local" => ~Overlap(d.address, LayerDefaults(kind).address)
  PROVE  Valid(e)
<1> DEFINE tag == UniqueTag(NewLayers, d.layers)
           x == NewLayer(tag, kind)
           P == Tags(d.plugins)
           R == Tags(d.rule_sets)
           s == d.layers
           t == e.layers
<1>1. tag \in Layers \ Tags(s) /\ tag # Blank
  BY UniqueTagIs, TagsOK
<1>2. Replaces(e, d, "layers", Append(d["layers"], x)) /\ "layers" \in Lists
  BY DEF AddLayer, NewLayer, Replaces, Lists
<1> HIDE DEF tag
<1>3. /\ LayerValid(x, d.address, P, R) /\ NoEdges(x) /\ x.tag = tag
      /\ Has(x, "address") => x.address # Unparsable
  BY NewLayerIsValid
<1> HIDE DEF x
<1>4. PICK n : Extends(t, s, x, n) /\ Differs(e, d, "layers", t)
  BY <1>2, Added
<1>5. /\ e.address = d.address /\ e.allow_remote = d.allow_remote /\ e.entry = d.entry
      /\ e.range_refresh_secs = d.range_refresh_secs /\ e.request_timeout_ms = d.request_timeout_ms
      /\ e.plugins = d.plugins /\ e.rule_sets = d.rule_sets
  BY <1>4 DEF Differs, DocumentKeys
<1>6. /\ GeneralValid(d) /\ PluginsValid(d.plugins) /\ RuleSetsValid(d.rule_sets)
      /\ LayersParse(s, d.address) /\ d.entry \in Tags(s)
      /\ LayersLook(s, d.address, P, R) /\ Acyclic(Graph(s))
  BY ValidIs, LayersValidIs
<1> HIDE DEF P, R, s, t
<1>7. DistinctTags(s)
  BY <1>6 DEF LayersLook
<1>8. DistinctTags(t) /\ Tags(t) = Tags(s) \cup {tag} /\ Graph(t) = Graph(s)
  <2>1. x.tag \notin Tags(s)
    BY <1>1, <1>3
  <2>2. DistinctTags(t) /\ Tags(t) = Tags(s) \cup {x.tag}
    BY <1>4, <1>7, <2>1, ExtendedTags
  <2>3. Graph(t) = Graph(s)
    BY <1>3, <1>4, <1>7, <2>1, ExtendedGraph
  <2> QED
    BY <1>3, <2>2, <2>3
<1>9. DOMAIN t = DOMAIN s \cup {n} /\ t[n] = x /\ \A j \in DOMAIN s : t[j] = s[j]
  BY <1>4 DEF Extends
<1>10. LayersParse(t, d.address)
  <2>1. d.address # Unparsable
    BY <1>6 DEF GeneralValid
  <2> QED
    BY <1>3, <1>6, <1>9, <2>1 DEF LayersParse, Get
<1>11. LayersLook(t, d.address, P, R)
  <2>1. t # << >>
    BY <1>9, NotEmpty
  <2>2. \A j \in DOMAIN t : LayerValid(t[j], d.address, P, R)
    BY <1>3, <1>6, <1>9 DEF LayersLook
  <2>3. ASSUME NEW j \in DOMAIN t, NEW key \in Edges, Has(t[j], key)
        PROVE  t[j][key] \in Tags(t)
    BY <1>3, <1>6, <1>8, <1>9, <2>3 DEF LayersLook, NoEdges
  <2> QED
    BY <1>1, <1>6, <1>8, <2>1, <2>2, <2>3 DEF LayersLook
<1> QED
  BY <1>5, <1>6, <1>8, <1>10, <1>11, ValidIs, LayersValidIs DEF P, R, t, GeneralValid

\* More plugins or rule sets beside valid layers.
LEMMA LayersStayValid ==
  ASSUME NEW s, NEW a, NEW P, NEW R, NEW Q, NEW S,
         LayersValid(s, a, P, R), P \subseteq Q, R \subseteq S
  PROVE  LayersValid(s, a, Q, S)
<1>1. LayersLook(s, a, P, R) /\ Acyclic(Graph(s))
  BY LayersValidIs
<1>2. \A i \in DOMAIN s : LayerValid(s[i], a, Q, S)
  BY <1>1, NamesGrow DEF LayersLook
<1>3. LayersLook(s, a, Q, S)
  BY <1>1, <1>2 DEF LayersLook
<1> QED
  BY <1>1, <1>3, LayersValidIs

NewRuleSet(tag, kind) == Defaulted([tag |-> tag, type |-> kind], RuleSetDefaults(kind))

LEMMA NewRuleSetIsValid ==
  ASSUME NEW tag, NEW kind \in {"local", "remote"}
  PROVE  RuleSetValid(NewRuleSet(tag, kind)) /\ NewRuleSet(tag, kind).tag = tag
<1> DEFINE l == [tag |-> tag, type |-> kind]
           r == NewRuleSet(tag, kind)
<1>p. "path" # Blank
  BY TagsOK
<1>1. DOMAIN l = {"tag", "type"} /\ l["tag"] = tag /\ l["type"] = kind
  OBVIOUS
<1>2. r = Defaulted(l, RuleSetDefaults(kind))
  BY DEF NewRuleSet
<1> HIDE DEF l, r
<1>3. CASE kind = "remote"
  <2> DEFINE u == Url(TRUE, 443)
             o == [url |-> u, update_interval_secs |-> "some", timeout_ms |-> "some"]
  <2>1. RuleSetDefaults(kind) = o
    BY <1>3 DEF RuleSetDefaults
  <2>2. /\ DOMAIN o = {"url", "update_interval_secs", "timeout_ms"}
        /\ o["url"] = u /\ o["update_interval_secs"] = "some" /\ o["timeout_ms"] = "some"
    OBVIOUS
  <2>3. u.usable
    BY DEF Url
  <2> HIDE DEF u, o
  <2>4. /\ DOMAIN r = {"tag", "type", "url", "update_interval_secs", "timeout_ms"}
        /\ r["url"] = u /\ r["update_interval_secs"] = "some" /\ r["timeout_ms"] = "some"
        /\ r["tag"] = tag /\ r["type"] = kind
    BY <1>1, <1>2, <2>1, <2>2 DEF Defaulted, Has
  <2>5. RuleSetValid(r)
    BY <1>3, <2>3, <2>4 DEF RuleSetValid, Get, Has, UsableUrl
  <2> QED
    BY <2>4, <2>5 DEF r
<1>4. CASE kind = "local"
  <2> DEFINE o == [path |-> "path", update_interval_secs |-> "some"]
  <2>1. RuleSetDefaults(kind) = o
    BY <1>4 DEF RuleSetDefaults
  <2>2. /\ DOMAIN o = {"path", "update_interval_secs"}
        /\ o["path"] = "path" /\ o["update_interval_secs"] = "some"
    OBVIOUS
  <2> HIDE DEF o
  <2>4. /\ DOMAIN r = {"tag", "type", "path", "update_interval_secs"}
        /\ r["path"] = "path" /\ r["update_interval_secs"] = "some"
        /\ r["tag"] = tag /\ r["type"] = kind
    BY <1>1, <1>2, <2>1, <2>2 DEF Defaulted, Has
  <2>5. RuleSetValid(r)
    BY <1>p, <1>4, <2>4 DEF RuleSetValid, Get, Has
  <2> QED
    BY <2>4, <2>5 DEF r
<1> QED
  BY <1>3, <1>4

LEMMA RuleSetAdded ==
  ASSUME NEW d, IsDocument(d), Valid(d), NEW kind \in {"local", "remote"},
         HasFresh(NewRuleSets, d.rule_sets), NEW e, e = AddRuleSet(d, kind)
  PROVE  Valid(e)
<1> DEFINE tag == UniqueTag(NewRuleSets, d.rule_sets)
           x == NewRuleSet(tag, kind)
           s == d.rule_sets
           t == e.rule_sets
<1>1. tag \in RuleTags \ Tags(s) /\ tag # Blank
  BY UniqueTagIs, TagsOK
<1>2. Replaces(e, d, "rule_sets", Append(d["rule_sets"], x)) /\ "rule_sets" \in Lists
  BY DocumentIs DEF AddRuleSet, NewRuleSet, Replaces, Lists
<1> HIDE DEF tag
<1>3. RuleSetValid(x) /\ x.tag = tag
  BY NewRuleSetIsValid
<1> HIDE DEF x
<1>4. PICK n : Extends(t, s, x, n) /\ Differs(e, d, "rule_sets", t)
  BY <1>2, Added
<1>5. /\ e.address = d.address /\ e.allow_remote = d.allow_remote /\ e.entry = d.entry
      /\ e.range_refresh_secs = d.range_refresh_secs /\ e.request_timeout_ms = d.request_timeout_ms
      /\ e.plugins = d.plugins /\ e.layers = d.layers
  BY <1>4 DEF Differs, DocumentKeys
<1>6. /\ GeneralValid(d) /\ PluginsValid(d.plugins) /\ RuleSetsValid(s)
      /\ LayersParse(d.layers, d.address) /\ d.entry \in Tags(d.layers)
      /\ LayersValid(d.layers, d.address, Tags(d.plugins), Tags(s))
  BY ValidIs
<1> HIDE DEF s, t
<1>7. DistinctTags(t) /\ Tags(t) = Tags(s) \cup {tag}
  <2>1. x.tag \notin Tags(s) /\ DistinctTags(s)
    BY <1>1, <1>3, <1>6 DEF RuleSetsValid
  <2> QED
    BY <1>3, <1>4, <2>1, ExtendedTags
<1>8. RuleSetsValid(t)
  BY <1>1, <1>3, <1>4, <1>6, <1>7 DEF RuleSetsValid, Extends
<1>9. LayersValid(d.layers, d.address, Tags(d.plugins), Tags(t))
  BY <1>6, <1>7, LayersStayValid
<1> QED
  BY <1>5, <1>6, <1>8, <1>9, ValidIs DEF t, GeneralValid

LEMMA NewPluginIsValid ==
  ASSUME NEW tag
  PROVE  /\ PluginParses(DefaultPlugin(tag)) /\ PluginValid(DefaultPlugin(tag))
         /\ DefaultPlugin(tag).tag = tag
<1> DEFINE x == DefaultPlugin(tag)
<1>1. /\ x.rewrite_ttl_secs = "some" /\ x.tag = tag /\ x.preferred = << >>
      /\ x.optimizer.enabled = FALSE
      /\ x.optimizer.numbers = [key \in OptimizerNumbers |-> "some"]
  BY DEF DefaultPlugin
<1> HIDE DEF x
<1>2. "test_port" \in OptimizerNumbers
  BY DEF OptimizerNumbers
<1>3. x.optimizer.numbers["test_port"] = "some"
  BY <1>1, <1>2
<1>4. Range(x.preferred) = {}
  BY <1>1 DEF Range
<1>5. PluginParses(x) /\ PluginValid(x)
  BY <1>1, <1>3, <1>4 DEF PluginParses, PluginValid, OptimizerValid
<1> QED
  BY <1>1, <1>5 DEF x

LEMMA PluginAdded ==
  ASSUME NEW d, IsDocument(d), Valid(d),
         HasFresh(NewPlugins, d.plugins), NEW e, e = AddPlugin(d)
  PROVE  Valid(e)
<1> DEFINE tag == UniqueTag(NewPlugins, d.plugins)
           x == DefaultPlugin(tag)
           s == d.plugins
           t == e.plugins
<1>1. tag \in PluginTags \ Tags(s) /\ tag # Blank
  BY UniqueTagIs, TagsOK
<1>2. Replaces(e, d, "plugins", Append(d["plugins"], x)) /\ "plugins" \in Lists
  BY DocumentIs DEF AddPlugin, Replaces, Lists
<1> HIDE DEF tag
<1>3. PluginParses(x) /\ PluginValid(x) /\ x.tag = tag
  BY NewPluginIsValid
<1> HIDE DEF x
<1>4. PICK n : Extends(t, s, x, n) /\ Differs(e, d, "plugins", t)
  BY <1>2, Added
<1>5. /\ e.address = d.address /\ e.allow_remote = d.allow_remote /\ e.entry = d.entry
      /\ e.range_refresh_secs = d.range_refresh_secs /\ e.request_timeout_ms = d.request_timeout_ms
      /\ e.rule_sets = d.rule_sets /\ e.layers = d.layers
  BY <1>4 DEF Differs, DocumentKeys
<1>6. /\ GeneralValid(d) /\ PluginsValid(s) /\ RuleSetsValid(d.rule_sets)
      /\ LayersParse(d.layers, d.address) /\ d.entry \in Tags(d.layers)
      /\ LayersValid(d.layers, d.address, Tags(s), Tags(d.rule_sets))
  BY ValidIs
<1> HIDE DEF s, t
<1>7. DistinctTags(t) /\ Tags(t) = Tags(s) \cup {tag}
  <2>1. x.tag \notin Tags(s) /\ DistinctTags(s)
    BY <1>1, <1>3, <1>6 DEF PluginsValid
  <2> QED
    BY <1>3, <1>4, <2>1, ExtendedTags
<1>8. PluginsValid(t)
  BY <1>1, <1>3, <1>4, <1>6, <1>7 DEF PluginsValid, Extends
<1>9. LayersValid(d.layers, d.address, Tags(t), Tags(d.rule_sets))
  BY <1>6, <1>7, LayersStayValid
<1> QED
  BY <1>5, <1>6, <1>8, <1>9, ValidIs DEF t, GeneralValid


LEMMA TypeChangesStep ==
  ASSUME SettingsInv, SettingsInv', IsDocument(document)
  PROVE  TypeChangeKeeps
<1> SUFFICES ASSUME valid, NEW i \in DOMAIN document.layers, NEW kind \in Kinds,
                    document' = SetLayerType(document, i, kind),
                    ~Obstructs(document.layers[i], document'.layers[i], kind, document.address)
             PROVE  valid'
  BY DEF TypeChangeKeeps, LayerIndexes, InTheWay, Obstructs
<1>1. Valid(document)
  BY DEF SettingsInv
<1>2. Valid(document')
  BY <1>1, TypeChange
<1> QED
  BY <1>2 DEF SettingsInv

LEMMA AdditionsStep ==
  ASSUME SettingsInv, SettingsInv', IsDocument(document)
  PROVE  AdditionKeeps
<1> SUFFICES ASSUME valid PROVE AdditionKeeps
  BY DEF AdditionKeeps
<1>1. Valid(document) /\ (Valid(document') => valid')
  BY DEF SettingsInv
<1>2. ASSUME NEW kind \in Kinds, HasFresh(NewLayers, document.layers),
             document' = AddLayer(document, kind),
             ~(kind # "local" /\ Overlap(document.address, LayerDefaults(kind).address))
      PROVE  valid'
  BY <1>1, <1>2, LayerAdded
<1>3. ASSUME NEW kind \in {"local", "remote"}, HasFresh(NewRuleSets, document.rule_sets),
             document' = AddRuleSet(document, kind)
      PROVE  valid'
  BY <1>1, <1>3, RuleSetAdded
<1>4. ASSUME HasFresh(NewPlugins, document.plugins), document' = AddPlugin(document)
      PROVE  valid'
  BY <1>1, <1>4, PluginAdded
<1> QED
  BY <1>2, <1>3, <1>4 DEF AdditionKeeps

\* One click never makes a valid document invalid, whatever its layers, plugins
\* and rule sets are, unless an address that is kept is in the way.
THEOREM EditsKeepIt == SettingsSpec => EditsKeepValidity
<1>1. SettingsInit => ShapeInv
  BY DefaultIsValid, FilesAreValid DEF SettingsInit, ShapeInv, Loadable
<1>2. SettingsSpec => []ShapeInv
  BY <1>1, ShapeStep, SettingsInvariance, PTL DEF SettingsSpec
<1>3. SettingsInv /\ SettingsInv' /\ ShapeInv => TypeChangeKeeps /\ AdditionKeeps
  BY TypeChangesStep, AdditionsStep DEF ShapeInv
<1> QED
  BY <1>2, <1>3, SettingsInvariance, PTL DEF SettingsSpec, EditsKeepValidity
=============================================================================
