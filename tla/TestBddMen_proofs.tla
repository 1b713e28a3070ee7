-------------------------- MODULE TestBddMen_proofs --------------------------
(***************************************************************************)
(* Proofs about the whole program of test_BDDMen.c: the two parsers, the   *)
(* generators of atomic predicates on what they parse, for every file of   *)
(* rules, every set of headers and every set of rewritings.                *)
(***************************************************************************)
EXTENDS TestBddMen, WellFoundedInduction, TLAPS

GP == INSTANCE GetAPs_proofs WITH rules <- Net

-----------------------------------------------------------------------------
(* Facts about cuts that GetAPs_proofs proves, for the definitions of      *)
(* AtomicPredicates that this module sees.                                 *)

\* Cuts are the same there.
LEMMA SameCuts ==
  /\ \A P, D : GP!Refine(P, D) = Refine(P, D)
  /\ \A P, n : GP!Split(P, n) = Split(P, n)
  /\ GP!Everything = Everything
BY DEF GP!Refine, Refine, GP!Cell, Cell, GP!Split, Split, GP!Everything, Everything

\* The array starts as a partition, also if there are no headers.
LEMMA EverythingPartition == IsPartition(Everything)
BY GP!EverythingPartition, RewritesAssumption
   DEF GP!IsPartition, IsPartition, GP!Everything, Everything

\* What is in the array after cuts.
LEMMA InRefine ==
  ASSUME NEW P, NEW D, NEW c
  PROVE  c \in Refine(P, D) <=> \E a \in P : \E h \in a : c = Cell(a, D, h)
BY DEF Refine

\* A cell is a part of its element and holds the header that names it.
LEMMA CellFacts ==
  ASSUME NEW a, NEW D, NEW h \in a
  PROVE  /\ h \in Cell(a, D, h)
         /\ Cell(a, D, h) \subseteq a
BY GP!CellFacts, RewritesAssumption DEF GP!Cell, Cell

\* Cuts make a partition of a partition.
LEMMA RefinePartition ==
  ASSUME NEW P, NEW D, IsPartition(P)
  PROVE  IsPartition(Refine(P, D))
BY GP!RefinePartition, SameCuts, RewritesAssumption DEF GP!IsPartition, IsPartition

\* A set that the array is cut by is a union of elements afterwards.
LEMMA RefineCuts ==
  ASSUME NEW P, NEW D, NEW n \in D
  PROVE  IsUnion(Refine(P, D), n)
BY GP!RefineCuts, SameCuts, RewritesAssumption DEF GP!IsUnion, IsUnion

\* A union of elements stays one when the elements are cut.
LEMMA RefineKeeps ==
  ASSUME NEW P, NEW D, NEW n, IsUnion(P, n)
  PROVE  IsUnion(Refine(P, D), n)
BY GP!RefineKeeps, SameCuts, RewritesAssumption DEF GP!IsUnion, IsUnion

\* One cut is a refinement by one set.
LEMMA SplitRefines ==
  ASSUME NEW P, NEW n, {} \notin P
  PROVE  Split(P, n) = Refine(P, {n})
BY GP!SplitRefines, SameCuts, RewritesAssumption

\* Cuts one after the other are cuts at once.
LEMMA RefineTwice ==
  ASSUME NEW P, NEW D, NEW T
  PROVE  Refine(Refine(P, D), T) = Refine(P, D \union T)
BY GP!RefineTwice, SameCuts, RewritesAssumption

\* Before any cut the array is BDDONE.
LEMMA RefineNothing == Refine(Everything, {}) = Everything
BY GP!RefineNothing, SameCuts, RewritesAssumption

\* One cut more.
LEMMA SplitMore ==
  ASSUME NEW T, NEW n
  PROVE  Split(Refine(Everything, T), n) = Refine(Everything, T \union {n})
BY GP!SplitMore, SameCuts, RewritesAssumption

\* The match sets of the merged rules 1 .. n.
NetSets(n) == {Net[k].mf_in : k \in 1 .. n}

\* No merged rule rewrites.
PlainNet == \A k \in 1 .. Len(Net) : Net[k].rw = NULL

-----------------------------------------------------------------------------
(* Lists of rules.                                                         *)

\* A header is matched on the ports L by one of the first n rules of a list.
Matched(list, n, L, h) == \E m \in 1 .. n : list[m].lks_in = L /\ h \in list[m].mf_in

\* Every nonempty set of positions has a smallest one.
LEMMA SmallestPosition ==
  ASSUME NEW T \in SUBSET Nat, T # {}
  PROVE  /\ Smallest(T) \in T
         /\ \A y \in T : Smallest(T) <= y
<1> DEFINE R == OpToRel(<, Nat)
<1>1. IsWellFoundedOn(R, Nat)
  BY NatLessThanWellFounded
<1>2. \A x, y \in Nat : y < x => <<y, x>> \in R
  BY DEF OpToRel
<1> HIDE DEF R
<1>3. PICK x \in T : \A y \in T : ~ (<<y, x>> \in R)
  BY <1>1, WFMin
<1>4. \A y \in T : ~ (y < x)
  BY <1>2, <1>3
<1>5. \A y \in T : x <= y
  BY <1>4
<1> QED
  BY <1>5 DEF Smallest

\* So has every set of positions of a list a largest one.
LEMMA LargestPosition ==
  ASSUME NEW n \in Nat, NEW T \in SUBSET (1 .. n), T # {}
  PROVE  \E x \in T : \A y \in T : y <= x
<1> DEFINE U == {n - x : x \in T}
<1>0. \A x \in T : x \in 1 .. n /\ n - x \in Nat
  OBVIOUS
<1>1. U \in SUBSET Nat /\ U # {}
  BY <1>0
<1>2. PICK u \in U : \A v \in U : u <= v
  BY <1>1, SmallestPosition
<1>3. PICK x \in T : u = n - x
  BY <1>2
<1>4. \A y \in T : n - x <= n - y
  BY <1>2, <1>3
<1>5. \A y \in T : y <= x
  BY <1>0, <1>4
<1> QED
  BY <1>5

\* What is left of a rule is what no rule of the list matches on its ports.
LEMMA InResidual ==
  ASSUME NEW list, NEW r, NEW n, NEW h
  PROVE  h \in Residual(list, r, n) <=> h \in r.mf_in /\ ~ Matched(list, n, r.lks_in, h)
BY DEF Residual, SameLinks, Matched

\* The output side of a rule is a set of headers.
LEMMA OutOfType ==
  ASSUME NEW f \in Rewrites \union {NULL}, NEW m \in SUBSET Headers
  PROVE  OutOf(f, m) \in SUBSET Headers
BY RewritesAssumption DEF OutOf, Image

\* Rewriting is done header by header.
LEMMA OutOfUnion ==
  ASSUME NEW f, NEW m, NEW n
  PROVE  OutOf(f, m \union n) = OutOf(f, m) \union OutOf(f, n)
<1>1. Image(f, m \union n) = Image(f, m) \union Image(f, n)
  BY DEF Image
<1> QED
  BY <1>1 DEF OutOf

\* A rule of the parsers with another match set and the output side that goes
\* with it.
LEMMA ChangedRule ==
  ASSUME NEW r \in JsonRule, NEW m \in SUBSET Headers
  PROVE  LET s == [r EXCEPT !.mf_in = m, !.mf_out = OutOf(r.rw, m)]
         IN  s \in JsonRule /\ SameAction(s, r) /\ s.mf_in = m
BY OutOfType DEF JsonRule, SameAction

-----------------------------------------------------------------------------
(* The merging parser.                                                     *)

\* No two merged rules have the same ports and action.
Distinct == \A j, k \in 1 .. Len(merged) : SameAction(merged[j], merged[k]) => j = k

\* After n rules of the file the merged rules match on every list of ports what
\* these rules match.
SameMatches(n) ==
  \A L \in Links : \A h \in Headers :
    Matched(merged, Len(merged), L, h) <=> Matched(given, n, L, h)

\* The loop over the merged rules is left at a merged rule, at its end, or with
\* nothing left to place.
LEMMA ChangesWhere ==
  ASSUME merged \in Seq(JsonRule), NEW r \in JsonRule
  PROVE  \/ /\ Changes(r) = Len(merged) + 1
            /\ \A j \in 1 .. Len(merged) : ~ SameAction(r, merged[j])
         \/ /\ Changes(r) = 0
            /\ \E j \in 1 .. Len(merged) : Residual(merged, r, j) = {}
         \/ /\ Changes(r) \in 1 .. Len(merged)
            /\ SameAction(r, merged[Changes(r)])
<1>0. Len(merged) \in Nat
  OBVIOUS
<1>1. CASE Stops(r) = {}
  BY <1>1 DEF Stops, Changes, SameAction, SameLinks
<1>2. CASE Stops(r) # {}
  <2>1. Stops(r) \in SUBSET Nat
    BY <1>0 DEF Stops
  <2>2. Smallest(Stops(r)) \in Stops(r)
    BY <1>2, <2>1, SmallestPosition
  <2> QED
    BY <1>0, <1>2, <2>2 DEF Stops, Changes
<1> QED
  BY <1>1, <1>2

\* What is left of a rule is a set of headers.
LEMMA ResidualType ==
  ASSUME NEW list, NEW r \in JsonRule, NEW n
  PROVE  Residual(list, r, n) \in SUBSET Headers
BY DEF Residual, JsonRule

\* One more rule of the file.
LEMMA ParseMergedStep ==
  ASSUME given \in Seq(JsonRule), merged \in Seq(JsonRule), Distinct,
         NEW n \in 0 .. Len(given), n < Len(given), SameMatches(n),
         ParseMerged(given[n + 1])
  PROVE  merged' \in Seq(JsonRule) /\ Distinct' /\ SameMatches(n + 1)'
<1> DEFINE r == given[n + 1]
<1>0. /\ Len(merged) \in Nat /\ n \in Nat /\ n + 1 \in 1 .. Len(given)
      /\ r \in JsonRule
      /\ given' = given
  BY DEF ParseMerged
<1>a. r.mf_in \in SUBSET Headers /\ r.lks_in \in Links /\ r.rw \in Rewrites \union {NULL}
  BY <1>0 DEF JsonRule
<1>1. ASSUME NEW L, NEW h
      PROVE  Matched(given, n + 1, L, h)
               <=> Matched(given, n, L, h) \/ (L = r.lks_in /\ h \in r.mf_in)
  BY <1>0 DEF Matched
<1>2. CASE Changes(r) = Len(merged) + 1 /\ \A j \in 1 .. Len(merged) : ~ SameAction(r, merged[j])
  <2> DEFINE left == Residual(merged, r, Len(merged))
             new == [r EXCEPT !.mf_in = left, !.mf_out = OutOf(r.rw, left)]
  <2>1. merged' = Append(merged, new)
    BY <1>0, <1>2 DEF ParseMerged, NewMerged
  <2>2. new \in JsonRule /\ SameAction(new, r) /\ new.mf_in = left
    BY <1>0, ResidualType, ChangedRule
  <2> HIDE DEF new
  <2>3. /\ merged' \in Seq(JsonRule) /\ Len(merged') = Len(merged) + 1
        /\ merged'[Len(merged) + 1] = new
        /\ \A j \in 1 .. Len(merged) : merged'[j] = merged[j]
    BY <1>0, <2>1, <2>2
  <2>4. Distinct'
    BY <1>0, <1>2, <2>2, <2>3 DEF Distinct, SameAction
  <2>5. SameMatches(n + 1)'
    <3> SUFFICES ASSUME NEW L \in Links, NEW h \in Headers
                 PROVE  Matched(merged', Len(merged'), L, h) <=> Matched(given, n + 1, L, h)
      BY <1>0 DEF SameMatches, Matched
    <3>1. Matched(merged', Len(merged'), L, h)
            <=> Matched(merged, Len(merged), L, h) \/ (new.lks_in = L /\ h \in new.mf_in)
      BY <1>0, <2>3 DEF Matched
    <3>2. h \in left <=> h \in r.mf_in /\ ~ Matched(merged, Len(merged), r.lks_in, h)
      BY InResidual
    <3> QED
      BY <1>1, <2>2, <3>1, <3>2 DEF SameMatches, SameAction
  <2> QED
    BY <2>3, <2>4, <2>5
<1>3. CASE Changes(r) = 0 /\ \E j \in 1 .. Len(merged) : Residual(merged, r, j) = {}
  <2>1. merged' = merged
    BY <1>3 DEF ParseMerged
  <2>2. PICK j \in 1 .. Len(merged) : Residual(merged, r, j) = {}
    BY <1>3
  <2>3. ASSUME NEW h \in r.mf_in PROVE Matched(merged, Len(merged), r.lks_in, h)
    <3>1. Matched(merged, j, r.lks_in, h)
      BY <2>2, InResidual
    <3> QED
      BY <1>0, <3>1 DEF Matched
  <2>4. SameMatches(n + 1)'
    <3> SUFFICES ASSUME NEW L \in Links, NEW h \in Headers
                 PROVE  Matched(merged, Len(merged), L, h) <=> Matched(given, n + 1, L, h)
      BY <1>0, <2>1 DEF SameMatches, Matched
    <3> QED
      BY <1>1, <2>3 DEF SameMatches
  <2> QED
    BY <2>1, <2>4 DEF Distinct, SameAction
<1>4. CASE Changes(r) \in 1 .. Len(merged) /\ SameAction(r, merged[Changes(r)])
  <2> DEFINE s == Changes(r)
             old == merged[s]
             left == Residual(merged, r, s)
             new == [old EXCEPT !.mf_in = @ \union left, !.mf_out = @ \union OutOf(r.rw, left)]
  <2>1. merged' = [merged EXCEPT ![s] = new]
    <3>1. merged' = MergeInto(s, r)
      BY <1>0, <1>4 DEF ParseMerged
    <3> HIDE DEF r, s
    <3> QED
      BY <3>1 DEF MergeInto
  <2>2. old \in JsonRule /\ left \in SUBSET Headers
    BY <1>0, <1>4, ResidualType
  <2>3. new = [old EXCEPT !.mf_in = old.mf_in \union left, !.mf_out = OutOf(old.rw, old.mf_in \union left)]
    <3>1. old.mf_out = OutOf(old.rw, old.mf_in) /\ old.rw = r.rw
      BY <1>4, <2>2 DEF JsonRule, SameAction
    <3>2. OutOf(old.rw, old.mf_in \union left) = old.mf_out \union OutOf(r.rw, left)
      BY <3>1, OutOfUnion
    <3> HIDE DEF old, left, r
    <3> QED
      BY <3>2
  <2>4. new \in JsonRule /\ SameAction(new, old) /\ new.mf_in = old.mf_in \union left
    <3>1. old.mf_in \union left \in SUBSET Headers
      BY <2>2 DEF JsonRule
    <3> HIDE DEF old, left, new
    <3> QED
      BY <2>2, <2>3, <3>1, ChangedRule
  <2> HIDE DEF new, s
  <2>5. /\ merged' \in Seq(JsonRule) /\ Len(merged') = Len(merged)
        /\ merged'[s] = new
        /\ \A j \in 1 .. Len(merged) : j # s => merged'[j] = merged[j]
    BY <1>0, <1>4, <2>1, <2>4 DEF s
  <2>6. Distinct'
    BY <1>0, <2>4, <2>5 DEF Distinct, SameAction
  <2>7. SameMatches(n + 1)'
    <3> SUFFICES ASSUME NEW L \in Links, NEW h \in Headers
                 PROVE  Matched(merged', Len(merged'), L, h) <=> Matched(given, n + 1, L, h)
      BY <1>0 DEF SameMatches, Matched
    <3>0. new.lks_in = old.lks_in /\ old.lks_in = r.lks_in
      BY <1>4, <2>4 DEF SameAction, s
    <3>1. Matched(merged', Len(merged'), L, h)
            <=> Matched(merged, Len(merged), L, h) \/ (r.lks_in = L /\ h \in left)
      BY <1>0, <1>4, <2>4, <2>5, <3>0 DEF Matched, s
    <3>2. h \in left <=> h \in r.mf_in /\ ~ Matched(merged, s, r.lks_in, h)
      BY InResidual
    <3>3. Matched(merged, s, r.lks_in, h) => Matched(merged, Len(merged), r.lks_in, h)
      BY <1>0, <1>4 DEF Matched, s
    <3> QED
      BY <1>1, <3>1, <3>2, <3>3 DEF SameMatches
  <2> QED
    BY <2>5, <2>6, <2>7
<1> QED
  BY <1>0, <1>2, <1>3, <1>4, ChangesWhere

-----------------------------------------------------------------------------
(* The conflict-free parser.                                               *)

\* A rule of which only the match set and the output side have been changed.
CutRule == [mf_in : SUBSET Headers, mf_out : SUBSET Headers, rw : Rewrites \union {NULL},
            lks_in : Links, lks_out : Links]

\* Every rule kept is that of the file, without the headers that rules before it
\* match on its ports.
NoconfRight ==
  \A k \in 1 .. Len(noconf) :
    /\ noconf[k].lks_in = given[k].lks_in
    /\ \A h : h \in noconf[k].mf_in
                <=> h \in given[k].mf_in /\ ~ Matched(given, k - 1, given[k].lks_in, h)

\* The rules kept match what the rules of the file match: the first rule of the
\* file that matches a header has lost nothing of it.
LEMMA NoconfMatches ==
  ASSUME noconf \in Seq(CutRule), NoconfRight, Len(noconf) <= Len(given), NEW L, NEW h
  PROVE  Matched(noconf, Len(noconf), L, h) <=> Matched(given, Len(noconf), L, h)
<1>0. Len(noconf) \in Nat
  OBVIOUS
<1>1. ASSUME Matched(noconf, Len(noconf), L, h) PROVE Matched(given, Len(noconf), L, h)
  BY <1>1 DEF Matched, NoconfRight
<1>2. ASSUME Matched(given, Len(noconf), L, h) PROVE Matched(noconf, Len(noconf), L, h)
  <2> DEFINE T == {m \in 1 .. Len(noconf) : given[m].lks_in = L /\ h \in given[m].mf_in}
             f == Smallest(T)
  <2>1. T \in SUBSET Nat /\ T # {}
    BY <1>0, <1>2 DEF Matched
  <2>2. f \in T /\ \A y \in T : f <= y
    BY <2>1, SmallestPosition
  <2> HIDE DEF f
  <2>3. ~ Matched(given, f - 1, L, h)
    <3> SUFFICES ASSUME NEW m \in 1 .. f - 1, given[m].lks_in = L, h \in given[m].mf_in
                 PROVE  FALSE
      BY DEF Matched
    <3>1. m \in T /\ m < f
      BY <1>0, <2>2
    <3> QED
      BY <1>0, <2>2, <3>1
  <2> QED
    BY <2>2, <2>3 DEF NoconfRight, Matched
<1> QED
  BY <1>1, <1>2

\* The output side that is kept is a set of headers, stale as it may be.
LEMMA StaleOutType ==
  ASSUME noconf \in Seq(CutRule), NEW r \in JsonRule,
         r.rw # NULL \/ \A j \in Rivals(r) : noconf[j].rw = NULL
  PROVE  StaleOut(r) \in SUBSET Headers
<1>0. Len(noconf) \in Nat
  OBVIOUS
<1>1. CASE Rivals(r) = {}
  BY <1>1 DEF StaleOut, JsonRule
<1>2. CASE Rivals(r) # {}
  <2> DEFINE last == CHOOSE j \in Rivals(r) : \A k \in Rivals(r) : k <= j
             left == Residual(noconf, r, last - 1)
  <2>1. Rivals(r) \in SUBSET (1 .. Len(noconf))
    BY DEF Rivals
  <2>2. last \in Rivals(r)
    BY <1>0, <1>2, <2>1, LargestPosition
  <2>3. left \in SUBSET Headers /\ r.rw \in Rewrites \union {NULL}
    BY ResidualType DEF JsonRule
  <2>4. StaleOut(r) = IF noconf[last].rw = NULL THEN left ELSE Image(r.rw, left)
    BY <1>2 DEF StaleOut
  <2> HIDE DEF last, left
  <2>5. noconf[last].rw # NULL => Image(r.rw, left) = OutOf(r.rw, left)
    BY <2>2 DEF OutOf
  <2> QED
    BY <2>3, <2>4, <2>5, OutOfType
<1> QED
  BY <1>1, <1>2

\* One more rule of the file.
LEMMA ParseNoconfStep ==
  ASSUME given \in Seq(JsonRule), noconf \in Seq(CutRule), NoconfRight,
         Len(noconf) < Len(given), ParseNoconf(given[Len(noconf) + 1])
  PROVE  /\ noconf' \in Seq(CutRule) /\ NoconfRight' /\ Len(noconf') <= Len(given)
         /\ UNCHANGED <<given, merged>>
         /\ crashed' \/ Len(noconf') = Len(noconf) + 1
<1> DEFINE n == Len(noconf)
           r == given[n + 1]
<1>0. n \in Nat /\ Len(given) \in Nat /\ n + 1 \in 1 .. Len(given) /\ r \in JsonRule
  OBVIOUS
<1>1. CASE r.rw = NULL /\ \E j \in Rivals(r) : noconf[j].rw # NULL
  BY <1>0, <1>1 DEF ParseNoconf, NoconfRight, Matched
<1>2. CASE r.rw # NULL \/ \A j \in Rivals(r) : noconf[j].rw = NULL
  <2> DEFINE new == [r EXCEPT !.mf_in = LeftOf(r), !.mf_out = StaleOut(r)]
  <2>1. noconf' = Append(noconf, new) /\ UNCHANGED <<given, merged, crashed>>
    BY <1>2 DEF ParseNoconf
  <2>2. new \in CutRule /\ new.lks_in = r.lks_in /\ new.mf_in = LeftOf(r)
    <3>1. StaleOut(r) \in SUBSET Headers /\ LeftOf(r) \in SUBSET Headers
      BY <1>0, <1>2, StaleOutType, ResidualType DEF LeftOf
    <3> HIDE DEF r
    <3> QED
      BY <1>0, <3>1 DEF JsonRule, CutRule
  <2> HIDE DEF new, r
  <2>3. /\ noconf' \in Seq(CutRule) /\ Len(noconf') = n + 1
        /\ noconf'[n + 1] = new
        /\ \A k \in 1 .. n : noconf'[k] = noconf[k]
    BY <1>0, <2>1, <2>2
  <2>4. \A h : h \in new.mf_in <=> h \in r.mf_in /\ ~ Matched(given, n, r.lks_in, h)
    BY <2>2, InResidual, NoconfMatches DEF LeftOf
  <2>5. NoconfRight'
    <3> SUFFICES ASSUME NEW k \in 1 .. n + 1
                 PROVE  /\ noconf'[k].lks_in = given[k].lks_in
                        /\ \A h : h \in noconf'[k].mf_in
                             <=> h \in given[k].mf_in /\ ~ Matched(given, k - 1, given[k].lks_in, h)
      BY <2>1, <2>3 DEF NoconfRight, Matched
    <3>1. CASE k = n + 1
      <4>1. k - 1 = n /\ given[k] = r
        BY <1>0, <3>1 DEF r
      <4> QED
        BY <2>2, <2>3, <2>4, <3>1, <4>1
    <3>2. CASE k \in 1 .. n
      BY <2>3, <3>2 DEF NoconfRight
    <3> QED
      BY <1>0, <3>1, <3>2
  <2> QED
    BY <1>0, <2>1, <2>3, <2>5
<1> QED
  BY <1>1, <1>2

-----------------------------------------------------------------------------
(* get_APs_bounding.                                                       *)

\* The rules whose match set the array has been cut by.
Settled == IF isfirst THEN r_i - 1 ELSE r_i

\* The rewritings of the rules 1 .. n whose match set an element lies in.
RewritingsOf(a, n) ==
  {Net[t].rw : t \in {u \in 1 .. n : Net[u].rw # NULL /\ a \subseteq Net[u].mf_in}}

\* The set that an element inside its match set is sent to by a rule has been cut
\* by, or is due.
ImageDue(t, a) ==
  \/ IsUnion(DOMAIN att, Image(Net[t].rw, a))
  \/ Image(Net[t].rw, a) \in need

\* The inductive invariant of get_APs_bounding.
BoundInv ==
  /\ r_i \in 0 .. Len(Net) /\ Len(Net) \in Nat
  /\ before \in Seq(SUBSET SUBSET Headers) /\ Len(before) = r_i
  /\ isfirst \in BOOLEAN
  /\ IsPartition(DOMAIN att)
  /\ isfirst => r_i > 0 /\ need = {Net[r_i].mf_in} /\ before[r_i] = DOMAIN att
  /\ \A t \in 1 .. Settled : IsUnion(DOMAIN att, Net[t].mf_in)
  /\ \A a \in DOMAIN att : att[a] = RewritingsOf(a, Settled)
  /\ \A t \in 1 .. r_i : \A a \in DOMAIN att \ before[t] :
       Net[t].rw # NULL /\ a \subseteq Net[t].mf_in => ImageDue(t, a)

\* Nothing is attached at the start.
LEMMA BoundStart == B!Start /\ Len(Net) \in Nat => BoundInv
<1> SUFFICES ASSUME B!Start, Len(Net) \in Nat PROVE BoundInv
  OBVIOUS
<1>1. DOMAIN att = Everything /\ \A a \in Everything : att[a] = {}
  BY DEF B!Start, B!Everything, Everything
<1>2. IsPartition(DOMAIN att)
  BY <1>1, EverythingPartition
<1>3. r_i = 0 /\ before = <<>> /\ isfirst = FALSE /\ Settled = 0
  BY DEF B!Start, Settled
<1>4. \A a : RewritingsOf(a, 0) = {}
  BY DEF RewritingsOf
<1>5. before \in Seq(SUBSET SUBSET Headers) /\ Len(before) = 0
  BY <1>3
<1>6. \A a \in DOMAIN att : att[a] = RewritingsOf(a, Settled)
  BY <1>1, <1>3, <1>4
<1>7. 1 .. r_i = {} /\ 1 .. Settled = {}
  BY <1>3
<1>8. Len(before) = r_i /\ r_i \in 0 .. Len(Net)
  BY <1>3
<1> HIDE DEF Settled, RewritingsOf, ImageDue, Net
<1> QED
  BY <1>2, <1>3, <1>5, <1>6, <1>7, <1>8 DEF BoundInv

\* The next rule; the array stays as it is.
LEMMA BoundTake == BoundInv /\ B!Take => BoundInv'
<1> SUFFICES ASSUME BoundInv, B!Take PROVE BoundInv'
  OBVIOUS
<1>1. /\ need = {} /\ r_i < Len(Net) /\ r_i' = r_i + 1
      /\ need' = {Net[r_i + 1].mf_in} /\ isfirst' = TRUE
      /\ before' = Append(before, DOMAIN att) /\ Net' = Net /\ att' = att
  BY DEF B!Take
<1>2. /\ r_i \in 0 .. Len(Net) /\ Len(Net) \in Nat
      /\ before \in Seq(SUBSET SUBSET Headers) /\ Len(before) = r_i
      /\ IsPartition(DOMAIN att) /\ ~isfirst
      /\ \A t \in 1 .. r_i : IsUnion(DOMAIN att, Net[t].mf_in)
      /\ \A a \in DOMAIN att : att[a] = RewritingsOf(a, r_i)
  BY <1>1 DEF BoundInv, Settled
<1>3. Settled' = r_i
  BY <1>1, <1>2 DEF Settled
<1>4. DOMAIN att \in SUBSET SUBSET Headers
  BY <1>2 DEF IsPartition
<1>5. /\ before' \in Seq(SUBSET SUBSET Headers) /\ Len(before') = r_i + 1
      /\ before'[r_i + 1] = DOMAIN att
      /\ \A t \in 1 .. r_i : before'[t] = before[t]
  BY <1>1, <1>2, <1>4
<1>7. ASSUME NEW t \in 1 .. r_i + 1, NEW a \in DOMAIN att \ before'[t],
             Net[t].rw # NULL, a \subseteq Net[t].mf_in
      PROVE  ImageDue(t, a)'
  <2>1. t \in 1 .. r_i
    BY <1>2, <1>5, <1>7
  <2>2. ImageDue(t, a)
    BY <1>5, <1>7, <2>1 DEF BoundInv
  <2> QED
    BY <1>1, <2>2 DEF ImageDue
<1>8. \A a \in DOMAIN att : att[a] = RewritingsOf(a, Settled)'
  BY <1>1, <1>2, <1>3 DEF RewritingsOf
<1>9. \A t \in 1 .. r_i' : \A a \in DOMAIN att' \ before'[t] :
        Net'[t].rw # NULL /\ a \subseteq Net'[t].mf_in => ImageDue(t, a)'
  BY <1>1, <1>7
<1>10. /\ r_i' \in 0 .. Len(Net') /\ Len(Net') \in Nat
       /\ isfirst' => r_i' > 0 /\ need' = {Net'[r_i'].mf_in} /\ before'[r_i'] = DOMAIN att'
       /\ \A t \in 1 .. Settled' : IsUnion(DOMAIN att', Net'[t].mf_in)
  BY <1>1, <1>2, <1>3, <1>5
<1> QED
  BY <1>1, <1>2, <1>5, <1>8, <1>9, <1>10 DEF BoundInv

\* An element of the new array lies in one element of the old one, and in the
\* same match sets.
LEMMA PartAttached ==
  ASSUME NEW P, IsPartition(P), NEW T, NEW a \in Refine(P, T), NEW n,
         \A t \in 1 .. n : IsUnion(P, Net[t].mf_in)
  PROVE  \E b \in P : /\ {c \in P : a \subseteq c} = {b}
                      /\ RewritingsOf(a, n) = RewritingsOf(b, n)
<1>1a. PICK b \in P : \E h \in b : a = Cell(b, T, h)
  BY InRefine
<1>1. PICK h \in b : a = Cell(b, T, h)
  BY <1>1a
<1>2. h \in a /\ a \subseteq b
  BY <1>1, CellFacts
<1>3. {c \in P : a \subseteq c} = {b}
  BY <1>2 DEF IsPartition
<1>4. \A t \in 1 .. n : a \subseteq Net[t].mf_in <=> b \subseteq Net[t].mf_in
  BY <1>2 DEF IsUnion
<1> HIDE DEF Net
<1>5. RewritingsOf(a, n) = RewritingsOf(b, n)
  BY <1>4 DEF RewritingsOf
<1> QED
  BY <1>3, <1>5

\* A pass.
LEMMA BoundPass == BoundInv /\ B!Pass => BoundInv'
<1> SUFFICES ASSUME BoundInv, B!Pass PROVE BoundInv'
  OBVIOUS
<1> DEFINE D == DOMAIN att
<1>0. \A P, T : B!Refine(P, T) = Refine(P, T)
  BY DEF B!Refine, Refine, B!Cell, Cell
<1>1. /\ att' = [a \in Refine(D, need) |-> B!Inherited(a) \union B!Attached(a)]
      /\ need' = B!ImagesDue(att') \union B!ImageOfWhole
      /\ isfirst' = FALSE /\ Net' = Net /\ r_i' = r_i /\ before' = before
  BY <1>0 DEF B!Pass
<1>2. /\ r_i \in 0 .. Len(Net) /\ Len(Net) \in Nat /\ Settled' = r_i
      /\ IsPartition(D)
  BY <1>1 DEF BoundInv, Settled
<1>3. DOMAIN att' = Refine(D, need)
  BY <1>1
<1>4. IsPartition(DOMAIN att')
  BY <1>2, <1>3, RefinePartition
<1>5. ASSUME NEW n, IsUnion(D, n) \/ n \in need PROVE IsUnion(DOMAIN att', n)
  BY <1>3, <1>5, RefineKeeps, RefineCuts
<1>6. \A t \in 1 .. r_i : IsUnion(DOMAIN att', Net[t].mf_in)
  <2> TAKE t \in 1 .. r_i
  <2>1. CASE t \in 1 .. Settled
    BY <1>5, <2>1 DEF BoundInv
  <2>2. CASE isfirst /\ t = r_i
    BY <1>5, <2>2 DEF BoundInv
  <2> QED
    BY <1>2, <2>1, <2>2 DEF Settled, BoundInv
<1>7. ASSUME NEW a \in DOMAIN att' PROVE att'[a] = RewritingsOf(a, r_i)
  <2>1. \A t \in 1 .. Settled : IsUnion(D, Net[t].mf_in)
    BY DEF BoundInv
  <2>2. PICK b \in D : /\ {c \in D : a \subseteq c} = {b}
                       /\ RewritingsOf(a, Settled) = RewritingsOf(b, Settled)
    BY <1>2, <1>3, <1>7, <2>1, PartAttached
  <2>3. B!Inherited(a) = att[b]
    BY <2>2 DEF B!Inherited
  <2>4. att[b] = RewritingsOf(a, Settled)
    BY <2>2 DEF BoundInv
  <2> HIDE DEF Net
  <2>5. RewritingsOf(a, Settled) \union B!Attached(a) = RewritingsOf(a, r_i)
    <3>1. CASE ~isfirst
      BY <3>1 DEF B!Attached, Settled
    <3>2. CASE isfirst
      <4>1. r_i > 0 /\ Settled = r_i - 1
        BY <3>2 DEF BoundInv, Settled
      <4>2. 1 .. r_i = (1 .. Settled) \union {r_i}
        BY <1>2, <4>1
      <4> HIDE DEF Settled
      <4> QED
        BY <3>2, <4>2 DEF RewritingsOf, B!Attached
    <3> QED
      BY <3>1, <3>2
  <2> QED
    BY <1>1, <1>3, <2>3, <2>4, <2>5
<1>8. ASSUME NEW t \in 1 .. r_i, NEW a \in DOMAIN att' \ before[t],
             Net[t].rw # NULL, a \subseteq Net[t].mf_in
      PROVE  ImageDue(t, a)'
  <2>1. CASE a \in D
    <3>1. ImageDue(t, a)
      BY <1>8, <2>1 DEF BoundInv
    <3> QED
      BY <1>1, <1>5, <3>1 DEF ImageDue
  <2>2. CASE a \notin D
    <3> HIDE DEF Net
    <3>1. Net[t].rw \in RewritingsOf(a, r_i)
      BY <1>8 DEF RewritingsOf
    <3>2. Net[t].rw \in att'[a]
      BY <1>7, <3>1
    <3>3. Image(Net[t].rw, a) \in B!ImagesDue(att')
      BY <2>2, <3>2 DEF B!ImagesDue, B!Image, Image
    <3> QED
      BY <1>1, <3>3 DEF ImageDue
  <2> QED
    BY <2>1, <2>2
<1>9. \A a \in DOMAIN att' : att'[a] = RewritingsOf(a, Settled)'
  BY <1>1, <1>2, <1>7 DEF RewritingsOf
<1>10. /\ r_i' \in 0 .. Len(Net') /\ Len(Net') \in Nat
       /\ before' \in Seq(SUBSET SUBSET Headers) /\ Len(before') = r_i'
       /\ isfirst' \in BOOLEAN /\ ~isfirst'
       /\ \A t \in 1 .. Settled' : IsUnion(DOMAIN att', Net'[t].mf_in)
  BY <1>1, <1>2, <1>6 DEF BoundInv
<1>11. \A t \in 1 .. r_i' : \A a \in DOMAIN att' \ before'[t] :
        Net'[t].rw # NULL /\ a \subseteq Net'[t].mf_in => ImageDue(t, a)'
  BY <1>1, <1>8
<1> QED
  BY <1>4, <1>9, <1>10, <1>11 DEF BoundInv

\* Without rewriting at most the match set of the rule at hand is due.
BoundPlain ==
  PlainNet => \/ need = {} /\ DOMAIN att = Refine(Everything, NetSets(r_i))
              \/ /\ r_i > 0 /\ need = {Net[r_i].mf_in}
                 /\ DOMAIN att = Refine(Everything, NetSets(r_i - 1))

\* No rule is taken at the start.
LEMMA BoundPlainStart == B!Start => BoundPlain
<1> SUFFICES ASSUME B!Start PROVE BoundPlain
  OBVIOUS
<1>1. DOMAIN att = Everything /\ need = {}
  BY DEF B!Start, B!Everything, Everything
<1>2. NetSets(r_i) = {}
  BY DEF B!Start, NetSets
<1> QED
  BY <1>1, <1>2, RefineNothing DEF BoundPlain

\* A rule that rewrites nothing makes its match set due.
LEMMA BoundPlainTake == BoundInv /\ BoundPlain /\ B!Take => BoundPlain'
<1> SUFFICES ASSUME BoundInv, BoundPlain, B!Take, PlainNet PROVE BoundPlain'
  BY DEF BoundPlain, PlainNet, B!Take
<1>1. /\ need = {} /\ r_i' = r_i + 1 /\ need' = {Net[r_i + 1].mf_in}
      /\ Net' = Net /\ att' = att /\ r_i \in Nat
  BY DEF B!Take, BoundInv
<1>2. DOMAIN att = Refine(Everything, NetSets(r_i))
  BY <1>1 DEF BoundPlain
<1>3. r_i' > 0 /\ r_i' - 1 = r_i
  BY <1>1
<1>4. NetSets(r_i - 1)' = NetSets(r_i)
  BY <1>1, <1>3 DEF NetSets
<1>5. need' = {Net'[r_i'].mf_in}
  BY <1>1
<1>6. DOMAIN att' = Refine(Everything, NetSets(r_i - 1)')
  BY <1>1, <1>2, <1>4
<1> QED
  BY <1>3, <1>5, <1>6 DEF BoundPlain

\* A pass for a rule that rewrites nothing is one cut.
LEMMA BoundPlainPass == BoundInv /\ BoundPlain /\ B!Pass => BoundPlain'
<1> SUFFICES ASSUME BoundInv, BoundPlain, B!Pass, PlainNet PROVE BoundPlain'
  BY DEF BoundPlain, PlainNet, B!Pass
<1>1. /\ r_i > 0 /\ need = {Net[r_i].mf_in}
      /\ DOMAIN att = Refine(Everything, NetSets(r_i - 1))
      /\ r_i \in 1 .. Len(Net) /\ Len(Net) \in Nat
  BY DEF B!Pass, BoundPlain, BoundInv
<1>2. /\ DOMAIN att' = Refine(DOMAIN att, need)
      /\ need' = B!ImagesDue(att') \union B!ImageOfWhole
      /\ Net' = Net /\ r_i' = r_i
  BY DEF B!Pass, B!Refine, Refine, B!Cell, Cell
<1>3. NetSets(r_i - 1) \union {Net[r_i].mf_in} = NetSets(r_i)
  BY <1>1 DEF NetSets
<1>4. DOMAIN att' = Refine(Everything, NetSets(r_i))
  BY <1>1, <1>2, <1>3, RefineTwice
<1>5. NetSets(r_i)' = NetSets(r_i)
  BY <1>2 DEF NetSets
<1>6. ASSUME NEW a \in DOMAIN att' PROVE att'[a] = {}
  <2>1. att'[a] = RewritingsOf(a, Settled)'
    BY <1>6, BoundPass DEF BoundInv
  <2>2. Settled' = r_i
    BY <1>2 DEF Settled, B!Pass
  <2>3. att'[a] = {Net[t].rw : t \in {u \in 1 .. r_i : Net[u].rw # NULL /\ a \subseteq Net[u].mf_in}}
    BY <1>2, <2>1, <2>2 DEF RewritingsOf
  <2> QED
    BY <1>1, <2>3 DEF PlainNet
<1>7. need' = {}
  BY <1>1, <1>2, <1>6 DEF B!ImagesDue, B!ImageOfWhole, PlainNet
<1> QED
  BY <1>2, <1>4, <1>5, <1>7 DEF BoundPlain

-----------------------------------------------------------------------------
(* get_APs_simple and _inc_APs.                                            *)

\* The invariant of get_APs_simple.
SimpleInv ==
  /\ r_i \in 0 .. Len(Net) /\ Len(Net) \in Nat
  /\ aps = Refine(Everything, NetSets(r_i))

\* The invariant of _inc_APs.
IncInv == IsPartition(aps) /\ \A k \in 1 .. Len(merged) : IsUnion(aps, merged[k].mf_in)

\* A pass of get_APs_simple is one cut more.
LEMMA SimpleStep == SimpleInv /\ S!Take => SimpleInv'
<1> SUFFICES ASSUME SimpleInv, S!Take PROVE SimpleInv'
  OBVIOUS
<1>1. /\ r_i < Len(Net) /\ aps' = Split(aps, Net[r_i + 1].mf_in)
      /\ r_i' = r_i + 1 /\ Net' = Net
  BY DEF S!Take, S!Split, Split
<1>2. NetSets(r_i) \union {Net[r_i + 1].mf_in} = NetSets(r_i)'
  BY <1>1 DEF SimpleInv, NetSets
<1>3. aps' = Refine(Everything, NetSets(r_i)')
  BY <1>1, <1>2, SplitMore DEF SimpleInv
<1> QED
  BY <1>1, <1>3 DEF SimpleInv

\* A rule of the file changes one merged rule at most, and the array is cut by
\* what this rule has become.
LEMMA IncStep ==
  ASSUME merged \in Seq(JsonRule), NEW r \in JsonRule, IncInv, ParseMerged(r),
         aps' = SplitBy(Changes(r))
  PROVE  IncInv'
<1>0. Len(merged) \in Nat
  OBVIOUS
<1>1. CASE Changes(r) = 0
  BY <1>1 DEF SplitBy, ParseMerged, IncInv
<1>2. CASE Changes(r) \in 1 .. Len(merged) + 1
  <2> DEFINE n == merged'[Changes(r)].mf_in
  <2>1. aps' = Refine(aps, {n})
    BY <1>0, <1>2, SplitRefines DEF SplitBy, IncInv, IsPartition
  <2>2. /\ \A k \in 1 .. Len(merged') : k = Changes(r) \/ k \in 1 .. Len(merged)
        /\ \A k \in 1 .. Len(merged) : k # Changes(r) => merged'[k] = merged[k]
    <3>1. CASE Changes(r) = Len(merged) + 1
      BY <1>0, <3>1 DEF ParseMerged, NewMerged
    <3>2. CASE Changes(r) \in 1 .. Len(merged)
      <4>1. merged' = MergeInto(Changes(r), r)
        BY <1>0, <3>2 DEF ParseMerged
      <4> DEFINE c == Changes(r)
      <4> HIDE DEF c
      <4>2. merged' = MergeInto(c, r) /\ c \in 1 .. Len(merged)
        BY <3>2, <4>1 DEF c
      <4>3. /\ DOMAIN merged' = DOMAIN merged /\ Len(merged') = Len(merged)
            /\ \A k \in 1 .. Len(merged) : k # c => merged'[k] = merged[k]
        BY <4>2 DEF MergeInto
      <4> QED
        BY <4>3 DEF c
    <3> QED
      BY <1>0, <1>2, <3>1, <3>2
  <2> HIDE DEF n
  <2>3. IsPartition(aps')
    BY <2>1, RefinePartition DEF IncInv
  <2>4. ASSUME NEW k \in 1 .. Len(merged') PROVE IsUnion(aps', merged'[k].mf_in)
    <3>1. CASE k = Changes(r)
      BY <2>1, <3>1, RefineCuts DEF n
    <3>2. CASE k # Changes(r)
      BY <2>1, <2>2, <3>2, RefineKeeps DEF IncInv
    <3> QED
      BY <3>1, <3>2
  <2> QED
    BY <2>3, <2>4 DEF IncInv
<1> QED
  BY <1>0, <1>1, <1>2, ChangesWhere

-----------------------------------------------------------------------------
(* The program.                                                            *)

\* The parsers.
ParseInv ==
  /\ given \in Seq(JsonRule) /\ merged \in Seq(JsonRule) /\ noconf \in Seq(CutRule)
  /\ i \in 0 .. Len(given)
  /\ Distinct /\ SameMatches(i)
  /\ NoconfRight /\ Len(noconf) <= Len(given)
  /\ Len(noconf) > 0 => i = Len(given)

\* The generators start on arrays of one element, after the parsers.
AtStart == G!Start /\ B!Start /\ W!Start

\* The generator that is compiled, once it runs.
GeneratorInv ==
  /\ which = "simple" => SimpleInv
  /\ which = "withdiff" => GP!DiffInv /\ GP!Coarse
  /\ which = "APs" => GP!IInv /\ GP!PlainInv
  /\ which = "bounding" => BoundInv /\ BoundPlain

Inv ==
  /\ ParseInv
  /\ which \in Generators
  /\ which = "inc" => IncInv
  /\ which # "inc" => IF Parsed THEN GeneratorInv ELSE AtStart

\* What the generators read of the merged rules.
LEMMA NetType ==
  ASSUME merged \in Seq(JsonRule)
  PROVE  /\ Net \in Seq(Rule) /\ Net \in Seq(GP!Rule) /\ Net \in Seq(GP!W!Rule)
         /\ Len(Net) = Len(merged) /\ Len(Net) \in Nat
<1>1. \A k \in 1 .. Len(merged) : [mf_in |-> merged[k].mf_in, rw |-> merged[k].rw] \in Rule
  BY DEF JsonRule, Rule
<1>2. Rule = GP!Rule /\ Rule = GP!W!Rule
  BY DEF Rule, GP!Rule, GP!W!Rule
<1>3. Net \in Seq(Rule) /\ Len(Net) = Len(merged)
  BY <1>1 DEF Net
<1> QED
  BY <1>2, <1>3

\* Every generator starts right.
LEMMA StartsRight == merged \in Seq(JsonRule) /\ AtStart => GeneratorInv
<1> SUFFICES ASSUME merged \in Seq(JsonRule), AtStart PROVE GeneratorInv
  OBVIOUS
<1>0. Net \in Seq(GP!Rule) /\ Net \in Seq(GP!W!Rule) /\ Len(Net) \in Nat
  BY NetType
<1>1. SimpleInv
  <2>1. NetSets(r_i) = {} /\ r_i = 0 /\ aps = Everything
    BY DEF AtStart, G!Start, G!Everything, Everything, NetSets
  <2> HIDE DEF Net
  <2> QED
    BY <1>0, <2>1, RefineNothing DEF SimpleInv
<1>2. GP!W!Init
  BY <1>0 DEF AtStart, W!Start, W!Everything, GP!W!Init, GP!W!Start, GP!W!Everything
<1>3. GP!Init
  BY <1>0 DEF AtStart, G!Start, G!Everything, GP!Init, GP!Start, GP!Everything
<1>4. GP!DiffInv /\ GP!Coarse
  BY <1>2, GP!DiffInit, GP!CoarseStart, RewritesAssumption
<1>5. GP!IInv /\ GP!PlainInv
  BY <1>3, GP!InitInvariant, GP!PlainStart, RewritesAssumption
<1>6. BoundInv /\ BoundPlain
  BY <1>0, BoundStart, BoundPlainStart DEF AtStart
<1> QED
  BY <1>1, <1>4, <1>5, <1>6 DEF GeneratorInv

\* The program starts right.
LEMMA InvInit == Init => Inv
<1> SUFFICES ASSUME Init PROVE Inv
  OBVIOUS
<1>1. given \in Seq(JsonRule) /\ merged = <<>> /\ noconf = <<>> /\ i = 0 /\ which \in Generators
  BY GivenRulesAssumption DEF Init, JInit
<1>2. AtStart
  BY DEF Init, AtStart
<1>3. GeneratorInv
  BY <1>1, <1>2, StartsRight
<1>4. Distinct /\ SameMatches(0) /\ NoconfRight
  BY <1>1 DEF Distinct, SameMatches, NoconfRight, Matched
<1>5. ParseInv
  BY <1>1, <1>4 DEF ParseInv
<1>6. IncInv
  BY <1>1, <1>2, EverythingPartition DEF AtStart, G!Start, G!Everything, Everything, IncInv
<1> QED
  BY <1>1, <1>2, <1>3, <1>5, <1>6 DEF Inv

\* The next rule of the file, with merging.
LEMMA InvParse == Inv /\ Parse => Inv'
<1> SUFFICES ASSUME Inv, Parse PROVE Inv'
  OBVIOUS
<1>0. /\ i < Len(given) /\ ParseMerged(given[i + 1]) /\ i' = i + 1
      /\ given' = given /\ noconf' = noconf /\ which' = which
      /\ given \in Seq(JsonRule) /\ merged \in Seq(JsonRule) /\ i \in 0 .. Len(given)
      /\ Len(given) \in Nat /\ Len(noconf) \in Nat /\ given[i + 1] \in JsonRule
  BY DEF Parse, ParseMerged, Inv, ParseInv
<1>n. PICK n \in 0 .. Len(given) : n = i
  BY <1>0
<1>1. merged' \in Seq(JsonRule) /\ Distinct' /\ SameMatches(n + 1)'
  <2>1. SameMatches(n) /\ Distinct /\ n < Len(given) /\ ParseMerged(given[n + 1])
    BY <1>0, <1>n DEF Inv, ParseInv
  <2> QED
    BY <1>0, <2>1, ParseMergedStep
<1>2. ParseInv'
  <2>1. NoconfRight'
    BY <1>0 DEF Inv, ParseInv, NoconfRight, Matched
  <2>2. SameMatches(i)'
    <3>1. i' = n + 1
      BY <1>0, <1>n
    <3> QED
      BY <1>1, <3>1 DEF SameMatches
  <2>3. ~ Len(noconf) > 0
    BY <1>0 DEF Inv, ParseInv
  <2> QED
    BY <1>0, <1>1, <2>1, <2>2, <2>3 DEF Inv, ParseInv
<1>3. which' = "inc" => IncInv'
  BY <1>0, IncStep DEF Inv, Parse
<1>4. ~Parsed /\ ~Parsed'
  BY <1>0 DEF Inv, ParseInv, Parsed
<1>5. which' # "inc" => AtStart'
  BY <1>0, <1>4 DEF Inv, Parse, AtStart, G!Start, B!Start, W!Start
<1> QED
  BY <1>0, <1>2, <1>3, <1>4, <1>5 DEF Inv

\* The next rule of the file, without conflicts.
LEMMA InvParseAgain == Inv /\ ParseAgain => Inv'
<1> SUFFICES ASSUME Inv, ParseAgain PROVE Inv'
  OBVIOUS
<1>0. /\ i = Len(given) /\ Len(noconf) < Len(given) /\ which # "inc"
      /\ ParseNoconf(given[Len(noconf) + 1])
      /\ UNCHANGED <<which, i, apvars>>
  BY DEF ParseAgain
<1>1. /\ noconf' \in Seq(CutRule) /\ NoconfRight' /\ Len(noconf') <= Len(given)
      /\ UNCHANGED <<given, merged>>
  BY <1>0, ParseNoconfStep DEF Inv, ParseInv
<1>2. ParseInv'
  BY <1>0, <1>1 DEF Inv, ParseInv, Distinct, SameMatches, Matched
<1>3. AtStart'
  BY <1>0 DEF Inv, Parsed, AtStart, G!Start, B!Start, W!Start, apvars
<1>4. (merged \in Seq(JsonRule) /\ AtStart => GeneratorInv)'
  BY StartsRight, PTL
<1> QED
  BY <1>0, <1>2, <1>3, <1>4 DEF Inv, ParseInv

\* The parsers are left alone by the generators.
LEMMA ParseInvKept == Inv /\ UNCHANGED <<jvars, which, i>> => ParseInv' /\ Net' = Net /\ Parsed' = Parsed
BY DEF Inv, jvars, ParseInv, Distinct, SameMatches, NoconfRight, Matched, Net, Parsed

\* A step of get_APs_simple.
LEMMA InvSimple == Inv /\ Simple => Inv'
<1> SUFFICES ASSUME Inv, Simple PROVE Inv'
  OBVIOUS
<1>1. ParseInv' /\ Parsed /\ Parsed' /\ which = "simple" /\ which' = which
  BY ParseInvKept DEF Simple
<1>2. SimpleInv'
  BY <1>1, SimpleStep DEF Simple, Inv, GeneratorInv
<1> QED
  BY <1>1, <1>2 DEF Inv, GeneratorInv

\* A step of get_APs_simple_withdiff is one of its module.
LEMMA InvWithDiff == Inv /\ WithDiff => Inv'
<1> SUFFICES ASSUME Inv, WithDiff PROVE Inv'
  OBVIOUS
<1>1. ParseInv' /\ Parsed /\ Parsed' /\ which = "withdiff" /\ which' = which
  BY ParseInvKept DEF WithDiff
<1>2. GP!W!Next
  BY DEF WithDiff, W!Next, GP!W!Next, W!StartRule, GP!W!StartRule, W!Element, GP!W!Element,
         W!UsedUp, GP!W!UsedUp, W!Left, GP!W!Left, W!Placed, GP!W!Placed
<1>3. GP!DiffInv' /\ GP!Coarse'
  BY <1>1, <1>2, GP!DiffNext, GP!CoarseStep, RewritesAssumption DEF Inv, GeneratorInv
<1> QED
  BY <1>1, <1>3 DEF Inv, GeneratorInv

\* A step of get_APs is one of its module.
LEMMA InvAPs == Inv /\ APs => Inv'
<1> SUFFICES ASSUME Inv, APs PROVE Inv'
  OBVIOUS
<1>1. ParseInv' /\ Parsed /\ Parsed' /\ which = "APs" /\ which' = which
  BY ParseInvKept DEF APs
<1>2. GP!Next
  BY DEF APs, G!Next, GP!Next, G!Take, GP!Take, G!Pass, GP!Pass, G!FirstNeed, GP!FirstNeed,
         G!ImagesDue, GP!ImagesDue, G!Parts, GP!Parts, G!Transformers, GP!Transformers,
         G!Image, GP!Image, G!Refine, GP!Refine, G!Cell, GP!Cell
<1>3. GP!IInv' /\ GP!PlainInv'
  BY <1>1, <1>2, GP!NextInvariant, GP!PlainStep, RewritesAssumption DEF Inv, GeneratorInv
<1> QED
  BY <1>1, <1>3 DEF Inv, GeneratorInv

\* A step of get_APs_bounding.
LEMMA InvBounding == Inv /\ Bounding => Inv'
<1> SUFFICES ASSUME Inv, Bounding PROVE Inv'
  OBVIOUS
<1>1. ParseInv' /\ Parsed /\ Parsed' /\ which = "bounding" /\ which' = which
  BY ParseInvKept DEF Bounding
<1>2. BoundInv' /\ BoundPlain'
  BY <1>1, BoundTake, BoundPass, BoundPlainTake, BoundPlainPass
     DEF Inv, GeneratorInv, Bounding, B!Next
<1> QED
  BY <1>1, <1>2 DEF Inv, GeneratorInv

\* Every step keeps the invariant.
LEMMA InvNext == Inv /\ [Step \/ Finished]_vars => Inv'
<1> SUFFICES ASSUME Inv, [Step \/ Finished]_vars PROVE Inv'
  OBVIOUS
<1>1. CASE UNCHANGED vars
  <2>1. /\ given' = given /\ merged' = merged /\ noconf' = noconf /\ which' = which /\ i' = i
        /\ aps' = aps /\ need' = need /\ r_i' = r_i /\ before' = before /\ att' = att
        /\ isfirst' = isfirst /\ out' = out /\ in' = in /\ notin' = notin /\ scanning' = scanning
    BY <1>1 DEF vars, jvars, apvars
  <2>2. ParseInv' /\ Parsed' = Parsed /\ Net' = Net
    BY <1>1, ParseInvKept DEF vars
  <2>3. AtStart' = AtStart
    BY <2>1 DEF AtStart, G!Start, B!Start, W!Start
  <2>4. (GP!DiffInv /\ GP!Coarse => GP!DiffInv' /\ GP!Coarse')
    BY <2>1, <2>2, GP!DiffNext, GP!CoarseStep, RewritesAssumption DEF GP!W!vars
  <2>5. (GP!IInv /\ GP!PlainInv => GP!IInv' /\ GP!PlainInv')
    BY <2>1, <2>2, GP!NextInvariant, GP!PlainStep, RewritesAssumption DEF GP!vars
  <2>6. (SimpleInv => SimpleInv') /\ (IncInv => IncInv')
    BY <2>1, <2>2 DEF SimpleInv, IncInv, NetSets
  <2>7. (BoundInv => BoundInv') /\ (BoundPlain => BoundPlain')
    BY <2>1, <2>2 DEF BoundInv, BoundPlain, NetSets, PlainNet, Settled, RewritingsOf, ImageDue
  <2> QED
    BY <2>1, <2>2, <2>3, <2>4, <2>5, <2>6, <2>7 DEF Inv, GeneratorInv
<1> QED
  BY <1>1, InvParse, InvParseAgain, InvSimple, InvWithDiff, InvAPs, InvBounding
     DEF Step, Finished

-----------------------------------------------------------------------------
(* The theorems.                                                           *)

\* The invariant of the program.
THEOREM ProgramInvariant == Spec => []Inv
BY InvInit, InvNext, PTL DEF Spec

\* A conflict-free rule matches exactly the headers that its rule decides.
THEOREM NoconfIsExact == Spec => []NoconfExact
<1>1. Inv => NoconfExact
  <2> SUFFICES ASSUME Inv, NEW k \in 1 .. Len(noconf)
               PROVE  noconf[k].mf_in = given[k].mf_in \ UNION {given[l].mf_in : l \in Before(k)}
    BY DEF NoconfExact
  <2>1. \A h : Matched(given, k - 1, given[k].lks_in, h)
                 <=> h \in UNION {given[l].mf_in : l \in Before(k)}
    BY DEF Matched, Before, SameLinks
  <2> QED
    BY <2>1 DEF Inv, ParseInv, NoconfRight
<1> QED
  BY <1>1, ProgramInvariant, PTL

\* Merging neither loses nor invents a header on any ports, leaves no two rules
\* of equal action, and keeps mf_out what the action makes of mf_in.
THEOREM MergedIsExact == Spec => []MergedExact
<1>1. Inv => MergedExact
  <2> SUFFICES ASSUME Inv PROVE MergedExact
    OBVIOUS
  <2> DEFINE same(list, n, L) == UNION {list[l].mf_in : l \in {m \in 1 .. n : list[m].lks_in = L}}
  <2>0. /\ given \in Seq(JsonRule) /\ merged \in Seq(JsonRule) /\ i \in 0 .. Len(given)
        /\ Len(given) \in Nat /\ Len(merged) \in Nat
    BY DEF Inv, ParseInv
  <2>1. ASSUME NEW k \in 1 .. i
        PROVE  same(merged, Len(merged), given[k].lks_in) = same(given, i, given[k].lks_in)
    <3>1. given[k].lks_in \in Links
      BY <2>0, <2>1 DEF JsonRule
    <3>2. ASSUME NEW list \in Seq(JsonRule), NEW n \in 0 .. Len(list), NEW L, NEW h
          PROVE  /\ h \in same(list, n, L) <=> Matched(list, n, L, h)
                 /\ Matched(list, n, L, h) => h \in Headers
      BY <3>2 DEF Matched, JsonRule
    <3> HIDE DEF same
    <3>3. \A h : h \in same(merged, Len(merged), given[k].lks_in)
                   <=> h \in same(given, i, given[k].lks_in)
      BY <2>0, <3>1, <3>2 DEF Inv, ParseInv, SameMatches
    <3> QED
      BY <3>3 DEF same
  <2>2. \A k \in 1 .. Len(merged) : merged[k].mf_out = OutOf(merged[k].rw, merged[k].mf_in)
    BY <2>0 DEF JsonRule
  <2>3. \A j, k \in 1 .. Len(merged) : SameAction(merged[j], merged[k]) => j = k
    BY DEF Inv, ParseInv, Distinct
  <2> QED
    BY <2>1, <2>2, <2>3 DEF MergedExact, SameLinks
<1> QED
  BY <1>1, ProgramInvariant, PTL

\* What get_APs has cut since a rewriting rule was taken is sent to unions of
\* elements whenever nothing is due, for the merged rules of every file.
THEOREM CutsAreClosed == Spec => []CutClosed
<1>1. Inv => CutClosed
  <2> SUFFICES ASSUME Inv, which = "APs" PROVE G!CutClosed
    BY DEF CutClosed
  <2>1. CASE Parsed
    <3>1. GP!CutClosed
      BY <2>1, GP!InvCutClosed, RewritesAssumption DEF Inv, GeneratorInv
    <3> QED
      BY <3>1 DEF G!CutClosed, GP!CutClosed, G!Transformers, GP!Transformers, G!IsUnion,
                  GP!IsUnion, G!Image, GP!Image
  <2>2. CASE ~Parsed
    BY <2>2 DEF Inv, AtStart, G!Start, G!CutClosed, G!Transformers
  <2> QED
    BY <2>1, <2>2
<1> QED
  BY <1>1, ProgramInvariant, PTL

\* The rewritings attached to an element are those of the rules whose match set
\* it lies in.
THEOREM AttachedIsExact == Spec => []AttachedExact
<1>1. Inv => AttachedExact
  <2> SUFFICES ASSUME Inv, which = "bounding" PROVE B!AttachedExact
    BY DEF AttachedExact
  <2>1. CASE Parsed
    BY <2>1 DEF Inv, GeneratorInv, BoundInv, Settled, RewritingsOf, B!AttachedExact
  <2>2. CASE ~Parsed
    <3>1. r_i = 0 /\ \A a \in DOMAIN att : att[a] = {}
      BY <2>2 DEF Inv, AtStart, B!Start
    <3> QED
      BY <3>1 DEF B!AttachedExact
  <2> QED
    BY <2>1, <2>2
<1> QED
  BY <1>1, ProgramInvariant, PTL

\* What get_APs_bounding has cut since a rewriting rule was taken is sent to
\* unions of elements whenever nothing is due.
THEOREM BoundingIsClosed == Spec => []BoundingClosed
<1>1. Inv => BoundingClosed
  <2> SUFFICES ASSUME Inv, which = "bounding" PROVE B!BoundingClosed
    BY DEF BoundingClosed
  <2>1. CASE Parsed
    BY <2>1 DEF Inv, GeneratorInv, BoundInv, ImageDue, B!BoundingClosed, B!IsUnion, IsUnion,
                B!Image, Image
  <2>2. CASE ~Parsed
    BY <2>2 DEF Inv, AtStart, B!Start, B!BoundingClosed
  <2> QED
    BY <2>1, <2>2
<1> QED
  BY <1>1, ProgramInvariant, PTL

\* A program that ends has a partition of the headers in which every merged rule
\* is a union of elements, and the coarsest one where nothing is rewritten.
THEOREM RulesAreKept == Spec => []RulesKept
<1> DEFINE Sets == {merged[k].mf_in : k \in 1 .. Len(merged)}
           Plainly == \A k \in 1 .. Len(merged) : merged[k].rw = NULL
<1>1. ASSUME Inv, Done
      PROVE  /\ IsPartition(Array)
             /\ \A k \in 1 .. Len(merged) : IsUnion(Array, merged[k].mf_in)
             /\ which \in {"simple", "withdiff"} \/ Plainly
                  => which = "inc" \/ Array = Refine(Everything, Sets)
  <2>0. /\ merged \in Seq(JsonRule) /\ Len(Net) = Len(merged) /\ Len(merged) \in Nat
        /\ \A k \in 1 .. Len(merged) : Net[k].mf_in = merged[k].mf_in /\ Net[k].rw = merged[k].rw
    BY <1>1 DEF Inv, ParseInv, Net
  <2>1. NetSets(Len(Net)) = Sets
    BY <2>0 DEF NetSets
  <2> HIDE DEF Net, Plainly
  <2>2. ASSUME Array = Refine(Everything, Sets)
        PROVE  IsPartition(Array) /\ \A k \in 1 .. Len(merged) : IsUnion(Array, merged[k].mf_in)
    BY <2>2, EverythingPartition, RefinePartition, RefineCuts
  <2> HIDE DEF Sets
  <2>3. CASE which = "inc"
    BY <1>1, <2>3 DEF Inv, IncInv, Array
  <2>4. CASE which = "simple"
    BY <1>1, <2>1, <2>2, <2>4 DEF Done, Inv, GeneratorInv, SimpleInv, Array
  <2>5. CASE which = "withdiff"
    <3>1. /\ GP!DiffInv /\ GP!Coarse /\ ~scanning /\ r_i = Len(Net)
      BY <1>1, <2>5 DEF Done, Inv, GeneratorInv
    <3>2. aps = Refine(Everything, NetSets(r_i))
      BY <3>1 DEF GP!DiffInv, GP!Whole, GP!Coarse, GP!Seen, GP!SeenRules, GP!Refine, Refine,
                  GP!Cell, Cell, GP!Everything, Everything, NetSets
    <3> QED
      BY <2>1, <2>2, <2>5, <3>1, <3>2 DEF Array
  <2>6. CASE which = "APs"
    <3>1. /\ GP!IInv /\ GP!PlainInv /\ need = {} /\ r_i = Len(Net)
      BY <1>1, <2>6 DEF Done, Inv, GeneratorInv
    <3>2. IsPartition(aps)
      BY <3>1 DEF GP!IInv, GP!Partition, GP!IsPartition, IsPartition
    <3>3. \A k \in 1 .. Len(merged) : IsUnion(aps, merged[k].mf_in)
      BY <2>0, <3>1 DEF GP!IInv, GP!RulesAreUnions, GP!FirstNeed, GP!IsUnion, IsUnion
    <3>4. Plainly => GP!Plain
      BY <2>0 DEF Plainly, GP!Plain
    <3>5. Plainly => aps = Refine(Everything, NetSets(r_i))
      BY <3>1, <3>4 DEF GP!PlainInv, GP!MatchSetsOf, GP!Refine, Refine, GP!Cell, Cell,
                        GP!Everything, Everything, NetSets
    <3> QED
      BY <2>1, <2>6, <3>1, <3>2, <3>3, <3>5 DEF Array
  <2>7. CASE which = "bounding"
    <3>1. /\ BoundInv /\ BoundPlain /\ need = {} /\ r_i = Len(Net)
      BY <1>1, <2>7 DEF Done, Inv, GeneratorInv
    <3>2. ~isfirst /\ Settled = Len(Net)
      BY <3>1 DEF BoundInv, Settled
    <3>3. \A k \in 1 .. Len(merged) : IsUnion(DOMAIN att, merged[k].mf_in)
      BY <2>0, <3>1, <3>2 DEF BoundInv
    <3>4. Plainly => DOMAIN att = Refine(Everything, NetSets(r_i))
      BY <2>0, <3>1 DEF BoundPlain, PlainNet, Plainly
    <3> QED
      BY <2>1, <2>7, <3>1, <3>3, <3>4 DEF Array, BoundInv
  <2> QED
    BY <1>1, <2>3, <2>4, <2>5, <2>6, <2>7 DEF Inv, Generators
<1>2. Inv => RulesKept
  BY <1>1 DEF RulesKept
<1> QED
  BY <1>2, ProgramInvariant, PTL
=============================================================================
