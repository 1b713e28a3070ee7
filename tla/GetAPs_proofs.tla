--------------------------- MODULE GetAPs_proofs ----------------------------
(***************************************************************************)
(* Proofs about GetAPs and GetAPsWithDiff, for every set of headers, every *)
(* set of rewritings and every list of rules: what get_APs keeps through   *)
(* all of its passes; that the pass of get_APs_simple_withdiff, which may  *)
(* stop early, is a pass of get_APs_simple, and that its result is the     *)
(* coarsest partition that keeps the match sets.                           *)
(***************************************************************************)
EXTENDS GetAPs, TLAPS

-----------------------------------------------------------------------------
(* Cutting partitions of the headers: facts for every set of headers and   *)
(* every set of match sets.                                                *)

\* The array starts as a partition, also if there are no headers.
LEMMA EverythingPartition == IsPartition(Everything)
BY DEF IsPartition, Everything

\* What is in the array after cuts.
LEMMA InRefine ==
  ASSUME NEW P, NEW S, NEW c
  PROVE  c \in Refine(P, S) <=> \E a \in P : \E h \in a : c = Cell(a, S, h)
BY DEF Refine

\* A cell is a part of its element and holds the header that names it.
LEMMA CellFacts ==
  ASSUME NEW a, NEW S, NEW h \in a
  PROVE  /\ h \in Cell(a, S, h)
         /\ Cell(a, S, h) \subseteq a
BY DEF Cell

\* Two cells of one element that share a header are the same.
LEMMA CellsDisjoint ==
  ASSUME NEW a, NEW S, NEW h \in a, NEW g \in a, NEW k,
         k \in Cell(a, S, h), k \in Cell(a, S, g)
  PROVE  Cell(a, S, h) = Cell(a, S, g)
BY DEF Cell

\* Cuts make a partition of a partition.
LEMMA RefinePartition ==
  ASSUME NEW P, NEW S, IsPartition(P)
  PROVE  IsPartition(Refine(P, S))
<1>1. {} \notin Refine(P, S)
  BY InRefine, CellFacts
<1>2. UNION Refine(P, S) = Headers
  <2>1. ASSUME NEW c \in Refine(P, S), NEW k \in c PROVE k \in Headers
    <3>1. PICK a \in P : \E h \in a : c = Cell(a, S, h)
      BY InRefine
    <3> QED
      BY <3>1, CellFacts DEF IsPartition
  <2>2. ASSUME NEW k \in Headers PROVE \E c \in Refine(P, S) : k \in c
    <3>1. PICK a \in P : k \in a
      BY DEF IsPartition
    <3>2. Cell(a, S, k) \in Refine(P, S) /\ k \in Cell(a, S, k)
      BY <3>1, InRefine, CellFacts
    <3> QED
      BY <3>2
  <2> QED
    BY <2>1, <2>2
<1>3. ASSUME NEW c \in Refine(P, S), NEW d \in Refine(P, S), NEW k, k \in c, k \in d
      PROVE  c = d
  <2>1a. PICK a \in P : \E h \in a : c = Cell(a, S, h)
    BY InRefine
  <2>1. PICK h \in a : c = Cell(a, S, h)
    BY <2>1a
  <2>2a. PICK b \in P : \E g \in b : d = Cell(b, S, g)
    BY InRefine
  <2>2. PICK g \in b : d = Cell(b, S, g)
    BY <2>2a
  <2>3. a = b
    BY <1>3, <2>1, <2>2, CellFacts DEF IsPartition
  <2> QED
    BY <1>3, <2>1, <2>2, <2>3, CellsDisjoint
<1>4. \A c, d \in Refine(P, S) : c \cap d # {} => c = d
  BY <1>3
<1> QED
  BY <1>1, <1>2, <1>4 DEF IsPartition

\* A set that the array is cut by is a union of elements afterwards.
LEMMA RefineCuts ==
  ASSUME NEW P, NEW S, NEW n \in S
  PROVE  IsUnion(Refine(P, S), n)
<1> SUFFICES ASSUME NEW c \in Refine(P, S), c \cap n # {} PROVE c \subseteq n
  BY DEF IsUnion
<1>1a. PICK a \in P : \E h \in a : c = Cell(a, S, h)
  BY InRefine
<1>1. PICK h \in a : c = Cell(a, S, h)
  BY <1>1a
<1> QED
  BY <1>1 DEF Cell

\* A union of elements stays one when the elements are cut.
LEMMA RefineKeeps ==
  ASSUME NEW P, NEW S, NEW n, IsUnion(P, n)
  PROVE  IsUnion(Refine(P, S), n)
<1> SUFFICES ASSUME NEW c \in Refine(P, S) PROVE c \subseteq n \/ c \cap n = {}
  BY DEF IsUnion
<1>1a. PICK a \in P : \E h \in a : c = Cell(a, S, h)
  BY InRefine
<1>1. PICK h \in a : c = Cell(a, S, h)
  BY <1>1a
<1> QED
  BY <1>1, CellFacts DEF IsUnion

\* A part of a union of elements.
LEMMA UnionOfParts ==
  ASSUME NEW P, IsPartition(P), NEW n, n \subseteq Headers
  PROVE  IsUnion(P, n) <=> n = UNION {a \in P : a \subseteq n}
BY DEF IsPartition, IsUnion

\* One cut is a refinement by one set.
LEMMA SplitRefines ==
  ASSUME NEW P, NEW n, {} \notin P
  PROVE  Split(P, n) = Refine(P, {n})
<1>1. ASSUME NEW c \in Split(P, n) PROVE c \in Refine(P, {n})
  <2>1. PICK a \in P : (c = a \cap n \/ c = a \ n) /\ c # {}
    BY DEF Split
  <2>2. PICK h : h \in c
    BY <2>1
  <2>3. c = Cell(a, {n}, h) /\ h \in a
    BY <2>1, <2>2 DEF Cell
  <2> QED
    BY <2>3, InRefine
<1>2. ASSUME NEW c \in Refine(P, {n}) PROVE c \in Split(P, n)
  <2>1a. PICK a \in P : \E h \in a : c = Cell(a, {n}, h)
    BY <1>2, InRefine
  <2>1. PICK h \in a : c = Cell(a, {n}, h)
    BY <2>1a
  <2>2. c = a \cap n \/ c = a \ n
    BY <2>1 DEF Cell
  <2>3. c # {}
    BY <2>1, CellFacts
  <2> QED
    BY <2>2, <2>3 DEF Split
<1> QED
  BY <1>1, <1>2

\* Cuts one after the other are cuts at once.
LEMMA RefineTwice ==
  ASSUME NEW P, NEW S, NEW T
  PROVE  Refine(Refine(P, S), T) = Refine(P, S \union T)
<1>1. ASSUME NEW a, NEW h \in a, NEW k \in Cell(a, S, h)
      PROVE  Cell(Cell(a, S, h), T, k) = Cell(a, S \union T, k)
  BY <1>1 DEF Cell
<1>2. ASSUME NEW c \in Refine(Refine(P, S), T) PROVE c \in Refine(P, S \union T)
  <2>1a. PICK b \in Refine(P, S) : \E k \in b : c = Cell(b, T, k)
    BY InRefine
  <2>1. PICK k \in b : c = Cell(b, T, k)
    BY <2>1a
  <2>2a. PICK a \in P : \E h \in a : b = Cell(a, S, h)
    BY InRefine
  <2>2. PICK h \in a : b = Cell(a, S, h)
    BY <2>2a
  <2>3. k \in Cell(a, S, h)
    BY <2>1, <2>2
  <2>4. c = Cell(a, S \union T, k)
    BY <1>1, <2>1, <2>2, <2>3
  <2>5. k \in a
    BY <2>3, CellFacts
  <2> QED
    BY <2>4, <2>5, InRefine
<1>3. ASSUME NEW c \in Refine(P, S \union T) PROVE c \in Refine(Refine(P, S), T)
  <2>1a. PICK a \in P : \E k \in a : c = Cell(a, S \union T, k)
    BY InRefine
  <2>1. PICK k \in a : c = Cell(a, S \union T, k)
    BY <2>1a
  <2>2. Cell(a, S, k) \in Refine(P, S) /\ k \in Cell(a, S, k)
    BY InRefine, CellFacts
  <2>3. c = Cell(Cell(a, S, k), T, k)
    BY <1>1, <2>1, <2>2
  <2> QED
    BY <2>2, <2>3, InRefine
<1> QED
  BY <1>2, <1>3

\* Before any cut the array is BDDONE.
LEMMA RefineNothing == Refine(Everything, {}) = Everything
<1>1. ASSUME NEW a, NEW h \in a PROVE Cell(a, {}, h) = a
  BY DEF Cell
<1>2. ASSUME NEW c PROVE c \in Refine(Everything, {}) <=> c \in Everything
  BY <1>1, InRefine DEF Everything
<1> QED
  BY <1>2

\* One cut more.
LEMMA SplitMore ==
  ASSUME NEW T, NEW n
  PROVE  Split(Refine(Everything, T), n) = Refine(Everything, T \union {n})
<1>1. {} \notin Refine(Everything, T)
  BY EverythingPartition, RefinePartition DEF IsPartition
<1>2. Split(Refine(Everything, T), n) = Refine(Refine(Everything, T), {n})
  BY <1>1, SplitRefines
<1> QED
  BY <1>2, RefineTwice

-----------------------------------------------------------------------------
(* The invariant of get_APs.                                               *)

\* The image that rule t makes of its part of an element.
Sent(t, a) == Image(rules[t].rw, a \cap rules[t].mf_in)

\* What is not closed yet is due: the inductive form of CutClosed.
CutDue ==
  \A t \in Transformers : \A a \in aps \ before[t] :
    IsUnion(aps, Sent(t, a)) \/ Sent(t, a) \in need

\* The inductive invariant.
IInv ==
  /\ TypeOK
  /\ Partition
  /\ RulesAreUnions
  /\ CutDue

-----------------------------------------------------------------------------
(* Images.                                                                 *)

\* An image of headers is a set of headers.
LEMMA ImageType ==
  ASSUME NEW f \in Rewrites, NEW b \in SUBSET Headers
  PROVE  Image(f, b) \in SUBSET Headers
BY RewritesAssumption DEF Image

\* The image of nothing is nothing, which every array has as a union.
LEMMA EmptyImage == ASSUME NEW f, NEW P PROVE IsUnion(P, Image(f, {}))
BY DEF Image, IsUnion

\* What a rule cuts by are sets of headers.
LEMMA FirstNeedType ==
  ASSUME TypeOK, NEW r \in 1 .. Len(rules)
  PROVE  FirstNeed(r) \subseteq SUBSET Headers
<1>1. rules[r] \in Rule
  BY DEF TypeOK
<1> QED
  BY <1>1, ImageType DEF FirstNeed, Rule

-----------------------------------------------------------------------------
(* The invariant.                                                          *)

\* Nothing is cut and nothing is due.
LEMMA InitInvariant == Init => IInv
<1> SUFFICES ASSUME Init PROVE IInv
  OBVIOUS
<1> USE DEF Init, Start
<1>1. TypeOK
  BY DEF TypeOK, Everything
<1>2. Partition
  BY EverythingPartition DEF Partition
<1>3. RulesAreUnions /\ CutDue
  BY DEF RulesAreUnions, CutDue, Transformers
<1> QED
  BY <1>1, <1>2, <1>3 DEF IInv

\* A new rule is due at once, and the array is as it was when it was taken.
LEMMA TakeStep == IInv /\ Take => IInv'
<1> SUFFICES ASSUME IInv, Take PROVE IInv'
  OBVIOUS
<1> USE DEF Take
<1>0. r_i \in Nat /\ r_i + 1 \in 1 .. Len(rules) /\ Len(rules) \in Nat
  BY DEF IInv, TypeOK
<1>1. TypeOK'
  <2>1. need' \subseteq SUBSET Headers
    BY <1>0, FirstNeedType DEF IInv
  <2>2. before' \in Seq(SUBSET SUBSET Headers) /\ Len(before') = r_i'
    BY <1>0 DEF IInv, TypeOK
  <2> QED
    BY <1>0, <2>1, <2>2 DEF IInv, TypeOK
<1>2. Partition'
  BY DEF IInv, Partition
<1>3. RulesAreUnions'
  <2> SUFFICES ASSUME NEW r \in 1 .. r_i + 1, NEW n \in FirstNeed(r)
               PROVE  IsUnion(aps, n) \/ n \in FirstNeed(r_i + 1)
    BY DEF RulesAreUnions, FirstNeed
  <2>1. CASE r = r_i + 1
    BY <2>1
  <2>2. CASE r \in 1 .. r_i
    BY <2>2 DEF IInv, RulesAreUnions
  <2> QED
    BY <1>0, <2>1, <2>2
<1>4. CutDue'
  <2> SUFFICES ASSUME NEW t \in 1 .. r_i + 1, rules[t].rw # NULL, NEW a \in aps \ before'[t]
               PROVE  IsUnion(aps, Sent(t, a)) \/ Sent(t, a) \in need'
    BY DEF CutDue, Transformers, Sent
  <2>1. CASE t = r_i + 1
    BY <1>0, <2>1 DEF IInv, TypeOK
  <2>2. CASE t \in 1 .. r_i
    <3>1. before'[t] = before[t]
      BY <1>0, <2>2 DEF IInv, TypeOK
    <3> QED
      BY <2>2, <3>1 DEF IInv, CutDue, Transformers
  <2> QED
    BY <1>0, <2>1, <2>2
<1> QED
  BY <1>1, <1>2, <1>3, <1>4 DEF IInv

\* A pass turns what is due into unions of elements and makes due what the new
\* parts are sent to.
LEMMA PassStep == IInv /\ Pass => IInv'
<1> SUFFICES ASSUME IInv, Pass PROVE IInv'
  OBVIOUS
<1> USE DEF Pass
<1>1. IsPartition(aps')
  BY RefinePartition DEF IInv, Partition
<1>2. aps' \subseteq SUBSET Headers
  BY <1>1 DEF IsPartition
<1>3. ASSUME NEW n, IsUnion(aps, n) \/ n \in need PROVE IsUnion(aps', n)
  BY <1>3, RefineKeeps, RefineCuts
<1>4. TypeOK'
  <2>1. need' \subseteq SUBSET Headers
    <3>1. ASSUME NEW a \in aps', NEW t \in Transformers
          PROVE  Sent(t, a) \in SUBSET Headers
      <4>1. rules[t] \in Rule /\ rules[t].rw # NULL
        BY DEF Transformers, IInv, TypeOK
      <4> QED
        BY <1>2, <4>1, ImageType DEF Rule, Sent
    <3>2. ASSUME NEW n \in need' PROVE n \in SUBSET Headers
      <4>1. PICK x \in Parts(aps') \X Transformers : n = Sent(x[2], x[1])
        BY DEF ImagesDue, Sent
      <4>2. x[1] \in aps' /\ x[2] \in Transformers
        BY DEF Parts
      <4> QED
        BY <3>1, <4>1, <4>2
    <3> QED
      BY <3>2
  <2> QED
    BY <1>2, <2>1 DEF IInv, TypeOK
<1>5. Partition'
  BY <1>1 DEF Partition
<1>6. RulesAreUnions'
  BY <1>3 DEF IInv, RulesAreUnions, FirstNeed
<1>7. CutDue'
  <2> SUFFICES ASSUME NEW t \in Transformers, NEW a \in aps' \ before[t]
               PROVE  IsUnion(aps', Sent(t, a)) \/ Sent(t, a) \in need'
    BY DEF CutDue, Transformers, Sent
  <2>1. CASE a \in aps
    BY <1>3, <2>1 DEF IInv, CutDue
  <2>2. CASE a \notin aps /\ a \cap rules[t].mf_in = {}
    BY <2>2, EmptyImage DEF Sent
  <2>3. CASE a \notin aps /\ a \cap rules[t].mf_in # {}
    <3>1. <<a, t>> \in {y \in Parts(aps') \X Transformers : y[1] \cap rules[y[2]].mf_in # {}}
      BY <2>3 DEF Parts
    <3> QED
      BY <3>1 DEF ImagesDue, Sent
  <2> QED
    BY <2>1, <2>2, <2>3
<1> QED
  BY <1>4, <1>5, <1>6, <1>7 DEF IInv

\* Every step keeps the invariant.
LEMMA NextInvariant == IInv /\ [Next]_vars => IInv'
<1> SUFFICES ASSUME IInv, [Next]_vars PROVE IInv'
  OBVIOUS
<1>1. CASE UNCHANGED vars
  BY <1>1 DEF vars, IInv, TypeOK, Partition, RulesAreUnions, FirstNeed, CutDue,
              Transformers, Sent
<1> QED
  BY <1>1, TakeStep, PassStep DEF Next

\* The invariant gives CutClosed between passes.
LEMMA InvCutClosed == IInv => CutClosed
BY DEF IInv, CutDue, CutClosed, Sent

-----------------------------------------------------------------------------
(* The theorems.                                                           *)

\* The array is a partition of the headers at any time: get_APs loses no header
\* and puts none into two elements, however often it cuts.
THEOREM StaysPartition == Spec => []Partition
<1>1. IInv => Partition
  BY DEF IInv
<1> QED
  BY <1>1, InitInvariant, NextInvariant, PTL DEF Spec

\* The match set of every rule taken, and its image, stay unions of elements
\* from the first pass on.
THEOREM RulesStayUnions == Spec => []RulesAreUnions
<1>1. IInv => RulesAreUnions
  BY DEF IInv
<1> QED
  BY <1>1, InitInvariant, NextInvariant, PTL DEF Spec

\* What was cut since a rewriting rule was taken is sent to unions of elements
\* whenever nothing is due.
THEOREM StaysCutClosed == Spec => []CutClosed
BY InvCutClosed, InitInvariant, NextInvariant, PTL DEF Spec

-----------------------------------------------------------------------------
(* Rules that rewrite nothing.                                             *)

\* No rule rewrites.
Plain == \A r \in 1 .. Len(rules) : rules[r].rw = NULL

\* The match sets of the rules 1 .. n.
MatchSetsOf(n) == {rules[r].mf_in : r \in 1 .. n}

\* At most the match set of the rule at hand is due.
PlainInv ==
  Plain => \/ need = {} /\ aps = Refine(Everything, MatchSetsOf(r_i))
           \/ /\ r_i > 0
              /\ need = {rules[r_i].mf_in}
              /\ aps = Refine(Everything, MatchSetsOf(r_i - 1))

\* No rule is taken at the start.
LEMMA PlainStart == Init => PlainInv
<1> SUFFICES ASSUME Init PROVE PlainInv
  OBVIOUS
<1>1. MatchSetsOf(r_i) = {}
  BY DEF Init, Start, MatchSetsOf
<1> QED
  BY <1>1, RefineNothing DEF Init, Start, PlainInv

\* A rule that rewrites nothing is one pass.
LEMMA PlainStep == IInv /\ PlainInv /\ [Next]_vars => PlainInv'
<1> SUFFICES ASSUME IInv, PlainInv, [Next]_vars, Plain PROVE PlainInv'
  BY DEF PlainInv, Plain, Next, Take, Pass, vars
<1>0. r_i \in 0 .. Len(rules) /\ Len(rules) \in Nat
  BY DEF IInv, TypeOK
<1>1. CASE UNCHANGED vars
  BY <1>1 DEF vars, PlainInv, Plain, MatchSetsOf
<1>2. CASE Take
  <2>1. need' = {rules[r_i + 1].mf_in}
    BY <1>0, <1>2 DEF Take, FirstNeed, Plain
  <2>2. r_i' = r_i + 1 /\ aps' = aps /\ rules' = rules /\ need = {}
    BY <1>2 DEF Take
  <2>3. aps = Refine(Everything, MatchSetsOf(r_i))
    BY <2>2 DEF PlainInv
  <2>4. r_i' > 0 /\ r_i' - 1 = r_i
    BY <1>0, <2>2
  <2>5. need' = {rules'[r_i'].mf_in}
    BY <2>1, <2>2
  <2>6. MatchSetsOf(r_i - 1)' = MatchSetsOf(r_i)
    BY <2>2, <2>4 DEF MatchSetsOf
  <2>7. aps' = Refine(Everything, MatchSetsOf(r_i - 1)')
    BY <2>2, <2>3, <2>6
  <2> QED
    BY <2>4, <2>5, <2>7 DEF PlainInv
<1>3. CASE Pass
  <2>1. /\ r_i > 0 /\ need = {rules[r_i].mf_in}
        /\ aps = Refine(Everything, MatchSetsOf(r_i - 1))
    BY <1>3 DEF Pass, PlainInv
  <2>2. MatchSetsOf(r_i - 1) \union {rules[r_i].mf_in} = MatchSetsOf(r_i)
    BY <1>0, <2>1 DEF MatchSetsOf
  <2>3. aps' = Refine(Everything, MatchSetsOf(r_i))
    BY <1>3, <2>1, <2>2, RefineTwice DEF Pass
  <2>4. Transformers = {}
    BY <1>0 DEF Transformers, Plain
  <2>5. need' = {}
    BY <1>3, <2>4 DEF Pass, ImagesDue
  <2> QED
    BY <1>3, <2>3, <2>5 DEF Pass, PlainInv, MatchSetsOf
<1> QED
  BY <1>1, <1>2, <1>3 DEF Next

\* Without rewriting get_APs computes, between rules, what get_APs_simple does:
\* the coarsest partition in which the match sets taken are unions of elements.
THEOREM PlainIsCoarsest ==
  Spec => [](Plain /\ need = {} => aps = Refine(Everything, MatchSetsOf(r_i)))
<1>1. PlainInv => (Plain /\ need = {} => aps = Refine(Everything, MatchSetsOf(r_i)))
  BY DEF PlainInv
<1> QED
  BY <1>1, PlainStart, PlainStep, InitInvariant, NextInvariant, PTL DEF Spec
-----------------------------------------------------------------------------
(* get_APs_simple_withdiff.                                                *)

VARIABLES
  out,          \* the new array of a pass
  in, notin,    \* what is left of the match set and of its complement
  scanning      \* a pass is under way

\* The same rules taken by get_APs_simple_withdiff.
W == INSTANCE GetAPsWithDiff

\* The operators that the two modules share.
LEMMA SameOperators ==
  /\ W!Everything = Everything /\ W!Rule = Rule
  /\ \A P, n : W!Split(P, n) = Split(P, n)
BY DEF W!Everything, Everything, W!Rule, Rule, W!Split, Split

\* The two arrays together are a partition of the headers, at any element.
Whole ==
  /\ IsPartition(out \union aps)
  /\ (UNION out) \cap (UNION aps) = {}
  /\ ~scanning => out = {}

\* The inductive invariant.
DiffInv == W!TypeOK /\ W!RestExact /\ Whole

-----------------------------------------------------------------------------
(* Cutting one element.                                                    *)

\* Cutting one element of a partition leaves a partition.
LEMMA CutOne ==
  ASSUME NEW P, IsPartition(P), NEW a \in P, NEW n
  PROVE  IsPartition((P \ {a}) \union ({a \cap n, a \ n} \ {{}}))
<1> DEFINE Q == (P \ {a}) \union ({a \cap n, a \ n} \ {{}})
<1>1. {} \notin Q
  BY DEF IsPartition
<1>2. UNION Q = Headers
  <2>1. ASSUME NEW c \in Q, NEW k \in c PROVE k \in Headers
    BY <2>1 DEF IsPartition
  <2>2. ASSUME NEW k \in Headers PROVE \E c \in Q : k \in c
    <3>1. PICK b \in P : k \in b
      BY DEF IsPartition
    <3>2. CASE b # a
      BY <3>1, <3>2
    <3>3. CASE b = a /\ k \in n
      <4>1. a \cap n \in Q /\ k \in a \cap n
        BY <3>1, <3>3
      <4> QED
        BY <4>1
    <3>4. CASE b = a /\ k \notin n
      <4>1. a \ n \in Q /\ k \in a \ n
        BY <3>1, <3>4
      <4> QED
        BY <4>1
    <3> QED
      BY <3>2, <3>3, <3>4
  <2> QED
    BY <2>1, <2>2
<1>3. ASSUME NEW c \in Q, NEW d \in Q, NEW k, k \in c, k \in d PROVE c = d
  BY <1>3 DEF IsPartition
<1>4. \A c, d \in Q : c \cap d # {} => c = d
  BY <1>3
<1> QED
  BY <1>1, <1>2, <1>4 DEF IsPartition

\* A cut of the array, element by element.
LEMMA SplitOne ==
  ASSUME NEW P, NEW a \in P, NEW n
  PROVE  W!Split(P, n) = ({a \cap n, a \ n} \ {{}}) \union W!Split(P \ {a}, n)
BY DEF W!Split

\* What is placed of an element are its two parts.
LEMMA PlacedIsSplit ==
  ASSUME DiffInv, scanning, NEW a \in aps
  PROVE  W!Placed(a) = {a \cap rules[r_i + 1].mf_in, a \ rules[r_i + 1].mf_in} \ {{}}
<1>1. a \subseteq UNION aps
  OBVIOUS
<1>2. a \cap in = a \cap rules[r_i + 1].mf_in
  BY <1>1 DEF DiffInv, W!RestExact
<1>3. a \cap notin = a \ rules[r_i + 1].mf_in
  BY <1>1 DEF DiffInv, W!RestExact
<1> QED
  BY <1>2, <1>3 DEF W!Placed

\* A pass ends with its last element, although it may end because the match set
\* and its complement are used up.
LEMMA LastIsLast ==
  ASSUME DiffInv, scanning, NEW a \in aps,
         W!UsedUp(W!Left(in, a), W!Left(notin, a)) \/ aps = {a}
  PROVE  aps = {a}
<1>1. CASE W!UsedUp(W!Left(in, a), W!Left(notin, a))
  <2>1. UNION aps \subseteq a
    BY <1>1 DEF DiffInv, W!RestExact, W!UsedUp, W!Left
  <2>2. ASSUME NEW b \in aps PROVE b = a
    <3>1. b # {} /\ b \subseteq a
      BY <2>1 DEF DiffInv, Whole, IsPartition
    <3>2. b \cap a # {}
      BY <3>1
    <3> QED
      BY <3>2 DEF DiffInv, Whole, IsPartition
  <2> QED
    BY <2>2
<1> QED
  BY <1>1

-----------------------------------------------------------------------------
(* The invariant.                                                          *)

\* The array starts as a partition, and no pass is under way.
LEMMA DiffInit == W!Init => DiffInv
<1> SUFFICES ASSUME W!Init PROVE DiffInv
  OBVIOUS
<1>1. W!TypeOK /\ W!RestExact
  <2>1. aps \subseteq SUBSET Headers
    BY DEF W!Init, W!Start, W!Everything
  <2>2. Len(rules) \in Nat
    BY DEF W!Init
  <2>3. ~scanning /\ scanning \in BOOLEAN
    BY DEF W!Init, W!Start
  <2>4. W!RestExact
    BY <2>3 DEF W!RestExact
  <2>5. rules \in Seq(W!Rule) /\ out = {} /\ in = {} /\ notin = {} /\ r_i = 0
    BY DEF W!Init, W!Start
  <2> QED
    BY <2>1, <2>2, <2>3, <2>4, <2>5 DEF W!TypeOK
<1>2. out \union aps = W!Everything
  BY DEF W!Init, W!Start
<1>3. Whole
  BY <1>2, EverythingPartition, SameOperators DEF W!Init, W!Start, Whole
<1> QED
  BY <1>1, <1>3 DEF DiffInv

\* A pass starts with all of the match set and all of its complement.
LEMMA StartStep == DiffInv /\ W!StartRule => DiffInv'
<1> SUFFICES ASSUME DiffInv, W!StartRule PROVE DiffInv'
  OBVIOUS
<1> USE DEF W!StartRule
<1>1. rules[r_i + 1] \in W!Rule /\ r_i + 1 \in 1 .. Len(rules)
  BY DEF DiffInv, W!TypeOK
<1>2. rules[r_i + 1].mf_in \subseteq Headers
  BY <1>1 DEF W!Rule
<1>3. W!TypeOK'
  BY <1>2 DEF DiffInv, W!TypeOK
<1>4. UNION aps = Headers
  <2>1. out \union aps = aps
    BY DEF DiffInv, Whole
  <2> QED
    BY <2>1 DEF DiffInv, Whole, IsPartition
<1>5. W!RestExact'
  BY <1>2, <1>4 DEF W!RestExact
<1>6. Whole'
  BY DEF DiffInv, Whole
<1> QED
  BY <1>3, <1>5, <1>6 DEF DiffInv

\* An element is cut in two, and what is left shrinks by it.
LEMMA ElementStep == ASSUME NEW a \in aps PROVE DiffInv /\ W!Element(a) => DiffInv'
<1> SUFFICES ASSUME DiffInv, W!Element(a) PROVE DiffInv'
  OBVIOUS
<1> DEFINE n == rules[r_i + 1].mf_in
           last == W!UsedUp(W!Left(in, a), W!Left(notin, a)) \/ aps = {a}
<1>1. scanning /\ r_i \in Nat /\ r_i < Len(rules) /\ Len(rules) \in Nat
  BY DEF W!Element, DiffInv, W!TypeOK
<1>2. W!Placed(a) = {a \cap n, a \ n} \ {{}}
  BY <1>1, PlacedIsSplit
<1>3. last => aps = {a}
  BY <1>1, LastIsLast
<1>4. a \notin out
  <2>1. a # {}
    BY DEF DiffInv, Whole, IsPartition
  <2> QED
    BY <2>1 DEF DiffInv, Whole
<1>5. a \in SUBSET Headers /\ W!Placed(a) \subseteq SUBSET Headers
  BY <1>2 DEF DiffInv, W!TypeOK
<1>6. ((out \union aps) \ {a}) \union W!Placed(a) = (aps \ {a}) \union (out \union W!Placed(a))
  BY <1>4
<1>7. IsPartition((aps \ {a}) \union (out \union W!Placed(a)))
  <2>1. IsPartition(out \union aps) /\ a \in out \union aps
    BY DEF DiffInv, Whole
  <2>2. IsPartition(((out \union aps) \ {a}) \union W!Placed(a))
    BY <1>2, <2>1, CutOne
  <2> QED
    BY <1>6, <2>2
<1>8. CASE last
  <2>1. /\ aps' = out \union W!Placed(a) /\ out' = {} /\ scanning' = FALSE
        /\ r_i' = r_i + 1 /\ rules' = rules
        /\ in' = W!Left(in, a) /\ notin' = W!Left(notin, a)
    BY <1>8 DEF W!Element
  <2>2. W!TypeOK'
    <3>1. in' \subseteq Headers /\ notin' \subseteq Headers
      BY <2>1 DEF DiffInv, W!TypeOK, W!Left
    <3>2. aps' \subseteq SUBSET Headers /\ out' \subseteq SUBSET Headers
      BY <1>5, <2>1 DEF DiffInv, W!TypeOK
    <3>3. r_i' \in 0 .. Len(rules)
      BY <1>1, <2>1
    <3> QED
      BY <2>1, <3>1, <3>2, <3>3 DEF DiffInv, W!TypeOK
  <2>3. out' \union aps' = (aps \ {a}) \union (out \union W!Placed(a))
    BY <1>3, <1>8, <2>1
  <2>4. Whole'
    BY <1>7, <2>1, <2>3 DEF Whole
  <2> QED
    BY <2>1, <2>2, <2>4 DEF DiffInv, W!RestExact
<1>9. CASE ~last
  <2>1. /\ aps' = aps \ {a} /\ out' = out \union W!Placed(a) /\ scanning' = TRUE
        /\ r_i' = r_i /\ rules' = rules
        /\ in' = W!Left(in, a) /\ notin' = W!Left(notin, a)
    BY <1>9 DEF W!Element
  <2>2. W!TypeOK'
    BY <1>1, <1>5, <2>1 DEF DiffInv, W!TypeOK, W!Left
  <2>3. IsPartition(out' \union aps')
    <3>1. out' \union aps' = (aps \ {a}) \union (out \union W!Placed(a))
      BY <2>1
    <3> QED
      BY <1>7, <3>1
  <2>4. \A b \in aps \ {a} : b \cap a = {}
    BY DEF DiffInv, Whole, IsPartition
  <2>5. UNION (aps \ {a}) = (UNION aps) \ a
    BY <2>4
  <2>6. (UNION out') \cap (UNION aps') = {}
    <3>1. UNION W!Placed(a) \subseteq a
      BY <1>2
    <3> QED
      BY <2>1, <2>5, <3>1 DEF DiffInv, Whole
  <2>7. Whole'
    BY <2>1, <2>3, <2>6 DEF Whole
  <2>8. W!RestExact'
    BY <1>1, <2>1, <2>5 DEF DiffInv, W!RestExact, W!Left
  <2> QED
    BY <2>2, <2>7, <2>8 DEF DiffInv
<1> QED
  BY <1>8, <1>9

\* Every step keeps the invariant.
LEMMA DiffNext == DiffInv /\ [W!Next]_(W!vars) => DiffInv'
<1> SUFFICES ASSUME DiffInv, [W!Next]_(W!vars) PROVE DiffInv'
  OBVIOUS
<1>1. CASE UNCHANGED W!vars
  BY <1>1 DEF W!vars, DiffInv, W!TypeOK, W!RestExact, Whole
<1> QED
  BY <1>1, StartStep, ElementStep DEF W!Next

-----------------------------------------------------------------------------
(* The theorems.                                                           *)

\* What is left of the match set and its complement is exactly what the
\* elements still to come hold of them.
THEOREM RestIsExact == W!Spec => []W!RestExact
<1>1. DiffInv => W!RestExact
  BY DEF DiffInv
<1> QED
  BY <1>1, DiffInit, DiffNext, PTL DEF W!Spec

\* The elements of the array are disjoint in the middle of every pass.
THEOREM StaysDisjoint == W!Spec => []W!Disjoint
<1>1. DiffInv => W!Disjoint
  BY DEF DiffInv, Whole, IsPartition, W!Disjoint
<1> QED
  BY <1>1, DiffInit, DiffNext, PTL DEF W!Spec

\* The start of a pass is the step of get_APs_simple.
LEMMA SimpleStart == DiffInv /\ W!StartRule => W!Simple!Take
<1> SUFFICES ASSUME DiffInv, W!StartRule PROVE W!Simple!Take
  OBVIOUS
<1>1. ~scanning /\ scanning' /\ out = {} /\ UNCHANGED <<rules, aps, out, r_i>> /\ r_i < Len(rules)
  BY DEF DiffInv, Whole, W!StartRule
<1>2. W!Split(aps, rules[r_i + 1].mf_in) = W!Simple!Split(aps, rules[r_i + 1].mf_in)
  BY DEF W!Split, W!Simple!Split
<1> QED
  BY <1>1, <1>2 DEF W!Simple!Take

\* Every element after it changes nothing that get_APs_simple sees.
LEMMA SimpleElement ==
  ASSUME NEW a \in aps PROVE DiffInv /\ W!Element(a) => UNCHANGED W!Simple!vars
<1> SUFFICES ASSUME DiffInv, W!Element(a) PROVE UNCHANGED W!Simple!vars
  OBVIOUS
<1> DEFINE n == rules[r_i + 1].mf_in
           last == W!UsedUp(W!Left(in, a), W!Left(notin, a)) \/ aps = {a}
<1>1. scanning /\ r_i \in Nat
  BY DEF W!Element, DiffInv, W!TypeOK
<1>2. W!Placed(a) = {a \cap n, a \ n} \ {{}}
  BY <1>1, PlacedIsSplit
<1>3. W!Split(aps, n) = W!Placed(a) \union W!Split(aps \ {a}, n)
  BY <1>2, SplitOne
<1>4. CASE last
  <2>1. aps = {a}
    BY <1>1, <1>4, LastIsLast
  <2>2. W!Split(aps \ {a}, n) = {}
    BY <2>1 DEF W!Split
  <2>3. /\ aps' = out \union W!Placed(a) /\ out' = {} /\ scanning' = FALSE
        /\ r_i' = r_i + 1 /\ rules' = rules
    BY <1>4 DEF W!Element
  <2> QED
    BY <1>1, <1>3, <2>2, <2>3 DEF W!Simple!vars
<1>5. CASE ~last
  <2>1. /\ aps' = aps \ {a} /\ out' = out \union W!Placed(a) /\ scanning' = TRUE
        /\ r_i' = r_i /\ rules' = rules
    BY <1>5 DEF W!Element
  <2> QED
    BY <1>1, <1>3, <2>1 DEF W!Simple!vars
<1> QED
  BY <1>4, <1>5

\* A step of get_APs_simple_withdiff is one of get_APs_simple, or none.
LEMMA StepsSimple == DiffInv /\ [W!Next]_(W!vars) => [W!Simple!Take]_(W!Simple!vars)
<1> SUFFICES ASSUME DiffInv, [W!Next]_(W!vars) PROVE [W!Simple!Take]_(W!Simple!vars)
  OBVIOUS
<1>1. CASE UNCHANGED W!vars
  BY <1>1 DEF W!vars, W!Simple!vars
<1> QED
  BY <1>1, SimpleStart, SimpleElement DEF W!Next

\* get_APs_simple_withdiff implements get_APs_simple: leaving a pass early never
\* drops an element, in whatever order the elements come.
THEOREM WithDiffImplementsSimple == W!Spec => W!ImplementsSimple
<1>1. W!Init => W!Simple!Init
  BY DEF W!Init, W!Start, W!Simple!Init, W!Simple!Start, W!Simple!Everything, W!Everything,
         W!Simple!Rule, W!Rule
<1> QED
  BY <1>1, StepsSimple, DiffInit, DiffNext, PTL DEF W!Spec, W!ImplementsSimple, W!Simple!Spec

\* The array as get_APs_simple sees it, and the rules that it has been cut by.
Seen == out \union (IF scanning THEN Split(aps, rules[r_i + 1].mf_in) ELSE aps)
SeenRules == IF scanning THEN r_i + 1 ELSE r_i

\* The array that get_APs_simple sees is the coarsest one for the rules taken.
Coarse == Seen = Refine(Everything, {rules[r].mf_in : r \in 1 .. SeenRules})

\* Nothing is taken at the start.
LEMMA CoarseStart == W!Init => Coarse
<1> SUFFICES ASSUME W!Init PROVE Coarse
  OBVIOUS
<1>1. Seen = Everything /\ 1 .. SeenRules = {}
  BY SameOperators DEF W!Init, W!Start, Seen, SeenRules
<1> QED
  BY <1>1, RefineNothing DEF Coarse

\* A pass cuts what get_APs_simple sees by one rule more.
LEMMA CoarseStep == DiffInv /\ Coarse /\ [W!Next]_(W!vars) => Coarse'
<1> SUFFICES ASSUME DiffInv, Coarse, [W!Next]_(W!vars) PROVE Coarse'
  OBVIOUS
<1>0. SeenRules \in Nat
  BY DEF DiffInv, W!TypeOK, SeenRules
<1>1. CASE UNCHANGED W!Simple!vars
  <2>1. Seen' = Seen /\ SeenRules' = SeenRules /\ rules' = rules
    BY <1>1 DEF W!Simple!vars, Seen, SeenRules, W!Split, Split
  <2> QED
    BY <2>1 DEF Coarse
<1>2. CASE W!Simple!Take
  <2>1. /\ Seen' = Split(Seen, rules[SeenRules + 1].mf_in)
        /\ SeenRules' = SeenRules + 1 /\ rules' = rules
    BY <1>2 DEF W!Simple!Take, Seen, SeenRules, Split, W!Split, W!Simple!Split
  <2>2. {rules[r].mf_in : r \in 1 .. SeenRules} \union {rules[SeenRules + 1].mf_in}
          = {rules[r].mf_in : r \in 1 .. SeenRules + 1}
    BY <1>0
  <2> QED
    BY <2>1, <2>2, SplitMore DEF Coarse
<1> QED
  BY <1>1, <1>2, StepsSimple

\* get_APs_simple_withdiff computes the coarsest partition of the headers in
\* which every match set taken is a union of elements.
THEOREM StaysCoarsest == W!Spec => []W!Simple!Coarsest
<1>1. Coarse => W!Simple!Coarsest
  BY DEF Coarse, Seen, SeenRules, W!Simple!Coarsest, W!Simple!Refine, Refine, W!Simple!Cell, Cell,
         W!Simple!Everything, Everything, W!Split, Split
<1> QED
  BY <1>1, CoarseStart, CoarseStep, DiffInit, DiffNext, PTL DEF W!Spec
=============================================================================
