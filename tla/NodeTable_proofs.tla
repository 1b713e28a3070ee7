-------------------------- MODULE NodeTable_proofs --------------------------
(***************************************************************************)
(* Proofs about the BDD kernel and NodeTable, for every number of BDD      *)
(* variables, every size of the node table and every number of BDDs that   *)
(* the program holds.                                                      *)
(***************************************************************************)
EXTENDS NodeTable, FiniteSetTheorems, SequenceTheorems, WellFoundedInduction, TLAPS

-----------------------------------------------------------------------------
(* Numbers.                                                                *)

\* Every nonempty set of positions has a smallest one.
LEMMA SmallestPosition ==
  ASSUME NEW S \in SUBSET Nat, S # {}
  PROVE  \E x \in S : \A y \in S : x <= y
<1> DEFINE R == OpToRel(<, Nat)
<1>1. IsWellFoundedOn(R, Nat)
  BY NatLessThanWellFounded
<1>2. \A x, y \in Nat : y < x => <<y, x>> \in R
  BY DEF OpToRel
<1> HIDE DEF R
<1>3. PICK x \in S : \A y \in S : ~ (<<y, x>> \in R)
  BY <1>1, WFMin
<1>4. \A y \in S : ~ (y < x)
  BY <1>2, <1>3
<1> QED
  BY <1>3, <1>4

\* InOrder numbers the elements of a finite set from 1 on, in order.
LEMMA InOrderNumbers ==
  ASSUME NEW S \in SUBSET Nat, IsFiniteSet(S)
  PROVE  /\ Cardinality(S) \in Nat
         /\ DOMAIN InOrder(S) = 1 .. Cardinality(S)
         /\ \A k \in 1 .. Cardinality(S) : InOrder(S)[k] \in S
         /\ \A i \in S : \E k \in 1 .. Cardinality(S) : InOrder(S)[k] = i
         /\ \A k, l \in 1 .. Cardinality(S) : k < l => InOrder(S)[k] < InOrder(S)[l]
         /\ \A k, l \in 1 .. Cardinality(S) : InOrder(S)[k] = InOrder(S)[l] => k = l
<1> DEFINE n == Cardinality(S)
           Below_(i) == {x \in S : x < i}
           Rank == [i \in S |-> Cardinality(Below_(i))]
           f == InOrder(S)
<1>1. n \in Nat
  BY FS_CardinalityType
<1>2. \A i \in S : /\ IsFiniteSet(Below_(i)) /\ Rank[i] \in 0 .. n - 1
                   /\ Rank[i] \in Nat
  <2> TAKE i \in S
  <2>1. /\ IsFiniteSet(S \ {i}) /\ Cardinality(S \ {i}) = n - 1
    BY FS_RemoveElement
  <2>2. Below_(i) \in SUBSET (S \ {i})
    OBVIOUS
  <2>3. /\ IsFiniteSet(Below_(i)) /\ Cardinality(Below_(i)) <= n - 1
        /\ Cardinality(Below_(i)) \in Nat
    <3> HIDE DEF Below_, n
    <3> QED
      BY <2>1, <2>2, FS_Subset, FS_CardinalityType
  <2> QED
    BY <1>1, <2>3
<1>3. \A i, j_ \in S : i < j_ => Rank[i] < Rank[j_]
  <2> SUFFICES ASSUME NEW i \in S, NEW m \in S, i < m PROVE Rank[i] < Rank[m]
    OBVIOUS
  <2>1. IsFiniteSet(Below_(m)) /\ Cardinality(Below_(m)) \in Nat
    BY <1>2
  <2>2. /\ IsFiniteSet(Below_(m) \ {i})
        /\ Cardinality(Below_(m) \ {i}) = Cardinality(Below_(m)) - 1
    <3>1. i \in Below_(m)
      OBVIOUS
    <3> HIDE DEF Below_
    <3> QED
      BY <2>1, <3>1, FS_RemoveElement
  <2>3. Below_(i) \in SUBSET (Below_(m) \ {i})
    <3>1. \A x \in S : x < i => x < m /\ x # i
      OBVIOUS
    <3> QED
      BY <3>1
  <2>4. Cardinality(Below_(i)) <= Cardinality(Below_(m)) - 1
    <3> HIDE DEF Below_
    <3> QED
      BY <2>2, <2>3, FS_Subset
  <2> QED
    BY <1>2, <2>1, <2>4
<1>4. \A i, m \in S : Rank[i] = Rank[m] => i = m
  <2> SUFFICES ASSUME NEW i \in S, NEW m \in S, Rank[i] = Rank[m] PROVE i = m
    OBVIOUS
  <2>1. ~ (Rank[i] < Rank[m]) /\ ~ (Rank[m] < Rank[i])
    BY <1>2
  <2>2. ~ (i < m) /\ ~ (m < i)
    BY <1>3, <2>1
  <2> QED
    BY <2>2
<1>5. \A k \in 0 .. n - 1 : \E i \in S : Rank[i] = k
  <2>1. Rank \in Injection(S, 0 .. n - 1)
    <3>1. Rank \in [S -> 0 .. n - 1]
      BY <1>2
    <3> QED
      BY <1>4, <3>1 DEF Injection, IsInjective
  <2>2. IsFiniteSet(0 .. n - 1) /\ Cardinality(0 .. n - 1) = n
    <3>1. n - 1 \in Int /\ 0 \in Int /\ n - 1 - 0 + 1 = n /\ (0 > n - 1 => n = 0)
      BY <1>1
    <3> HIDE DEF n
    <3> QED
      BY <3>1, FS_Interval
  <2>3. Rank \in Surjection(S, 0 .. n - 1)
    <3> HIDE DEF Rank
    <3> QED
      BY <2>1, <2>2, FS_Injection
  <2> QED
    BY <2>3 DEF Surjection
<1>6. \A k \in 1 .. n : f[k] \in S /\ Rank[f[k]] = k - 1
  <2> TAKE k \in 1 .. n
  <2>1. PICK i \in S : Rank[i] = k - 1
    BY <1>1, <1>5
  <2>2. f[k] = CHOOSE m \in S : Cardinality(Below_(m)) = k - 1
    BY DEF InOrder
  <2> QED
    BY <2>1, <2>2
<1>7. DOMAIN f = 1 .. n
  BY DEF InOrder
<1>8. \A i \in S : \E k \in 1 .. n : f[k] = i
  <2> TAKE i \in S
  <2>1. PICK k \in 1 .. n : k - 1 = Rank[i]
    <3>1. Rank[i] + 1 \in 1 .. n /\ (Rank[i] + 1) - 1 = Rank[i]
      BY <1>1, <1>2
    <3> QED
      BY <3>1
  <2>2. f[k] \in S /\ Rank[f[k]] = Rank[i]
    BY <1>6, <2>1
  <2>3. f[k] = i
    <3> HIDE DEF f, Rank
    <3> QED
      BY <1>4, <2>2
  <2> QED
    BY <2>3
<1>9. \A k, l \in 1 .. n : k < l => f[k] < f[l]
  <2> SUFFICES ASSUME NEW k \in 1 .. n, NEW l \in 1 .. n, k < l PROVE f[k] < f[l]
    OBVIOUS
  <2>1. Rank[f[k]] < Rank[f[l]]
    BY <1>1, <1>6
  <2>2. f[k] \in S /\ f[l] \in S /\ f[k] \in Nat /\ f[l] \in Nat
    BY <1>6
  <2>3. ~ (f[l] < f[k]) /\ f[k] # f[l]
    <3> HIDE DEF f, Rank
    <3>1. Rank[f[k]] \in Nat /\ Rank[f[l]] \in Nat
      BY <1>2, <2>2
    <3> QED
      BY <1>3, <2>1, <2>2, <3>1
  <2> HIDE DEF f
  <2> QED
    BY <2>2, <2>3
<1>10. \A k, l \in 1 .. n : f[k] = f[l] => k = l
  <2> SUFFICES ASSUME NEW k \in 1 .. n, NEW l \in 1 .. n, f[k] = f[l] PROVE k = l
    OBVIOUS
  <2>1. k - 1 = l - 1
    BY <1>6
  <2> QED
    BY <1>1, <2>1
<1> HIDE DEF f, n
<1> QED
  BY <1>1, <1>6, <1>7, <1>8, <1>9, <1>10 DEF f, n

\* Induction over the numbers up to N.
LEMMA UpTo ==
  ASSUME NEW N \in Nat, NEW S, 0 \in S, \A i \in 0 .. N - 1 : i \in S => i + 1 \in S
  PROVE  \A i \in 0 .. N : i \in S
<1> SUFFICES ASSUME (0 .. N) \ S # {} PROVE FALSE
  OBVIOUS
<1>1. PICK x \in (0 .. N) \ S : \A y \in (0 .. N) \ S : x <= y
  <2>1. (0 .. N) \ S \in SUBSET Nat
    OBVIOUS
  <2> QED
    BY <2>1, SmallestPosition
<1>2. x \in 1 .. N
  BY <1>1
<1>3. x - 1 \in S
  BY <1>1, <1>2
<1>4. x - 1 \in 0 .. N - 1 /\ (x - 1) + 1 = x
  BY <1>2
<1> QED
  BY <1>1, <1>3, <1>4

-----------------------------------------------------------------------------
(* What a table looks like.                                                *)

\* The nodes of BDDs: node 2 is the mark of an MTBDD's terminals.
BddNodes(t) == Used(t) \ {2}

\* Two constants, and a mark, in the first three slots.
Constants(t) ==
  /\ {0, 1, 2} \subseteq Used(t)
  /\ t.node[0].level = VarNum /\ t.node[1].level = VarNum
  /\ \A n \in {0, 1, 2} : t.node[n].low = t.node[n].high

\* Node n tests a variable, its sons are different BDDs that lie below it, and it
\* hangs in the chain where bdd_makenode looks for it.
Proper(t, n) ==
  /\ t.node[n].level \in Levels
  /\ t.node[n].low # t.node[n].high
  /\ \A son \in {t.node[n].low, t.node[n].high} :
       son \in BddNodes(t) /\ t.node[n].level < t.node[son].level
  /\ t.node[n].chain = Hash(t, t.node[n].level, t.node[n].low, t.node[n].high)

\* Nodes n and m are the same in their tables.
Same(t, n, u, m) ==
  /\ u.node[m].level = t.node[n].level
  /\ u.node[m].low = t.node[n].low
  /\ u.node[m].high = t.node[n].high

\* No two nodes are the same.
Unique(t) ==
  \A n, m \in Used(t) : n >= 3 /\ m >= 3 /\ Same(t, n, t, m) => n = m

\* No slot is lost or free twice, and nothing refers to a free one.
FreeSlots(t) ==
  /\ Entries(t.free) = Slots(t) \ Used(t)
  /\ \A i, j \in DOMAIN t.free : t.free[i] = t.free[j] => i = j
  /\ \A n \in DOMAIN t.node : n \notin Used(t) => t.node[n] = FreeSlot

\* A table of the kernel.
Shape(t) ==
  /\ t \in Tables
  /\ Constants(t)
  /\ \A n \in Used(t) : n >= 3 => Proper(t, n)
  /\ Unique(t)
  /\ FreeSlots(t)

\* What a table's fields are.
LEMMA TableFields ==
  ASSUME NEW t \in Tables
  PROVE  /\ t.size \in Nat /\ InitSize <= t.size /\ t.size <= MaxSize
         /\ t.node \in [0 .. MaxSize - 1 -> Nodes]
         /\ t.free \in Seq(Nat) /\ t.stack \in Seq(Nat)
         /\ Slots(t) \subseteq DOMAIN t.node /\ Slots(t) \subseteq Nat
         /\ Used(t) \subseteq Slots(t)
         /\ \A n \in DOMAIN t.node : /\ t.node[n] \in Nodes
                                     /\ t.node[n].level \in 0 .. VarNum
                                     /\ t.node[n].low \in Nat \union {-1}
                                     /\ t.node[n].high \in Nat \union {-1}
                                     /\ t.node[n].refcou \in 0 .. MaxRef
                                     /\ t.node[n].chain \in Nat \union {-1}
         /\ t.stopped \in BOOLEAN /\ t.wild \in BOOLEAN
<1>1. /\ t.size \in InitSize .. MaxSize
      /\ t.node \in [0 .. MaxSize - 1 -> Nodes]
      /\ t.free \in Seq(Nat) /\ t.stack \in Seq(Nat)
      /\ t.stopped \in BOOLEAN /\ t.wild \in BOOLEAN
  BY DEF Tables
<1>2. /\ InitSize \in Nat /\ MaxSize \in Nat
  BY SizeAssumption
<1>3. \A n \in 0 .. MaxSize - 1 : t.node[n] \in Nodes
  BY <1>1
<1>4. \A x \in Nodes : /\ x.level \in 0 .. VarNum
                      /\ x.low \in Nat \union {-1} /\ x.high \in Nat \union {-1}
                      /\ x.refcou \in 0 .. MaxRef /\ x.chain \in Nat \union {-1}
  BY DEF Nodes
<1>5. DOMAIN t.node = 0 .. MaxSize - 1
  BY <1>1
<1>6. Slots(t) \subseteq DOMAIN t.node /\ Slots(t) \subseteq Nat /\ Used(t) \subseteq Slots(t)
  BY <1>1, <1>2, <1>5 DEF Slots, Used
<1> QED
  BY <1>1, <1>2, <1>3, <1>4, <1>5, <1>6

\* Every nonempty set of a table's nodes has a deepest one.
LEMMA Deepest ==
  ASSUME NEW t \in Tables, NEW S \in SUBSET Used(t), S # {}
  PROVE  \E n \in S : \A m \in S : t.node[m].level <= t.node[n].level
<1> DEFINE T == {VarNum - t.node[n].level : n \in S}
<1>1. \A n \in S : t.node[n].level \in 0 .. VarNum
  BY TableFields
<1>2. VarNum \in Nat
  BY SizeAssumption
<1>3. T \in SUBSET Nat /\ T # {}
  BY <1>1, <1>2
<1>4. PICK x \in T : \A y \in T : x <= y
  <2> HIDE DEF T
  <2> QED
    BY <1>3, SmallestPosition
<1>5. PICK n \in S : x = VarNum - t.node[n].level
  BY <1>4
<1>6. ASSUME NEW m \in S PROVE t.node[m].level <= t.node[n].level
  <2>1. x <= VarNum - t.node[m].level
    BY <1>4
  <2>2. t.node[m].level \in Int /\ t.node[n].level \in Int
    BY <1>1
  <2> QED
    BY <1>2, <1>5, <2>1, <2>2
<1> QED
  BY <1>6

-----------------------------------------------------------------------------
(* What a collection marks.                                                *)

\* The nodes of S and their sons.
WithSons(t, S) == S \union UNION {SonsOf(t, n) : n \in S}

\* f counts the generations of nodes that are reached from roots, up to k.
Generations(f, t, roots, k) ==
  f = [i \in 0 .. k |-> IF i = 0 THEN roots
                        ELSE WithSons(t, f[i - 1])]

\* There is such a function for every k.
LEMMA GenerationsExist ==
  ASSUME NEW t, NEW roots, NEW k \in Nat
  PROVE  \E f : Generations(f, t, roots, k)
<1> DEFINE Step(S) == WithSons(t, S)
           Bad == {i \in Nat : ~ \E f : Generations(f, t, roots, i)}
<1>1. ASSUME NEW i \in Nat, NEW f, Generations(f, t, roots, i)
      PROVE  \E g : Generations(g, t, roots, i + 1)
  <2> DEFINE g == [j \in 0 .. i + 1 |-> IF j <= i THEN f[j] ELSE Step(f[i])]
  <2>0. f = [j \in 0 .. i |-> IF j = 0 THEN roots ELSE Step(f[j - 1])]
    BY <1>1 DEF Generations
  <2>1. ASSUME NEW j \in 0 .. i + 1
        PROVE  g[j] = IF j = 0 THEN roots ELSE Step(g[j - 1])
    <3> HIDE DEF Step
    <3>1. CASE j = 0
      BY <2>0, <3>1
    <3>2. CASE j \in 1 .. i
      <4>1. g[j - 1] = f[j - 1] /\ g[j] = f[j]
        BY <3>2
      <4>2. f[j] = Step(f[j - 1])
        BY <2>0, <3>2
      <4> QED
        BY <3>2, <4>1, <4>2
    <3>3. CASE j = i + 1
      <4>1. g[j - 1] = f[i] /\ g[j] = Step(f[i])
        BY <3>3
      <4> QED
        BY <3>3, <4>1
    <3> QED
      BY <3>1, <3>2, <3>3
  <2>2. g = [j \in 0 .. i + 1 |-> IF j = 0 THEN roots ELSE Step(g[j - 1])]
    <3> HIDE DEF Step
    <3> QED
      BY <2>1
  <2> QED
    BY <2>2 DEF Generations
<1>2. Bad = {}
  <2> SUFFICES ASSUME Bad # {} PROVE FALSE
    OBVIOUS
  <2>1. PICK i \in Bad : \A j \in Bad : i <= j
    <3>1. Bad \in SUBSET Nat
      OBVIOUS
    <3> HIDE DEF Bad
    <3> QED
      BY <3>1, SmallestPosition
  <2>2. Generations([j \in 0 .. 0 |-> roots], t, roots, 0)
    BY DEF Generations
  <2>3. i \in Nat /\ i # 0
    BY <2>2
  <2>4. i - 1 \in Nat /\ (i - 1) + 1 = i /\ ~ (i <= i - 1)
    BY <2>3
  <2>5. PICK f : Generations(f, t, roots, i - 1)
    BY <2>1, <2>4
  <2>6. \E g : Generations(g, t, roots, (i - 1) + 1)
    BY <1>1, <2>4, <2>5
  <2> QED
    BY <2>4, <2>6
<1> QED
  BY <1>2

\* What Reached counts.
LEMMA ReachedIs ==
  ASSUME NEW t, NEW roots, t.size \in Nat
  PROVE  \E f : Generations(f, t, roots, t.size) /\ Reached(t, roots) = f[t.size]
<1> DEFINE g == CHOOSE f : Generations(f, t, roots, t.size)
<1>1. Generations(g, t, roots, t.size)
  BY GenerationsExist
<1>2. Reached(t, roots) = g[t.size]
  BY DEF Reached, Generations, WithSons
<1> QED
  BY <1>1, <1>2

\* What the generations are from one to the next.
LEMMA GenerationSteps ==
  ASSUME NEW t, NEW roots, NEW N \in Nat, NEW f, Generations(f, t, roots, N)
  PROVE  /\ f[0] = roots
         /\ \A i \in 0 .. N - 1 : f[i + 1] = WithSons(t, f[i])
<1> DEFINE Step(S) == WithSons(t, S)
<1>1. f = [i \in 0 .. N |-> IF i = 0 THEN roots ELSE Step(f[i - 1])]
  BY DEF Generations
<1>2. f[0] = roots
  BY <1>1
<1>3. ASSUME NEW i \in 0 .. N - 1 PROVE f[i + 1] = Step(f[i])
  <2>1. i + 1 \in 0 .. N /\ i + 1 # 0 /\ (i + 1) - 1 = i
    OBVIOUS
  <2> HIDE DEF Step
  <2> QED
    BY <1>1, <2>1
<1> QED
  BY <1>2, <1>3

\* The sons of a node of a table.
LEMMA SonsBelow ==
  ASSUME NEW t, Shape(t), NEW n \in Used(t), NEW m \in SonsOf(t, n)
  PROVE  /\ n >= 3 /\ m \in BddNodes(t) /\ t.node[n].level < t.node[m].level
         /\ m \in {t.node[n].low, t.node[n].high}
<1>1. n >= 3 /\ m \in {t.node[n].low, t.node[n].high}
  <2>1. n \in Nat
    BY TableFields DEF Shape
  <2> QED
    BY <2>1 DEF SonsOf
<1> QED
  BY <1>1 DEF Shape, Proper

\* The sons of an inner node are its two branches: a BDD has no value nodes below it.
LEMMA InnerSons ==
  ASSUME NEW t, Shape(t), NEW n \in Used(t), n >= 3
  PROVE  SonsOf(t, n) = {t.node[n].low, t.node[n].high}
<1>1. t.node[n].low \in BddNodes(t)
  BY DEF Shape, Proper
<1>2. n \in Nat /\ t.node[n].low \in Nat /\ t.node[n].low # 2
  BY <1>1, TableFields DEF Shape, BddNodes
<1> QED
  BY <1>2 DEF SonsOf

\* Reached is the least set with the roots that is closed under sons.
LEMMA ReachedFacts ==
  ASSUME NEW t, Shape(t), NEW roots \in SUBSET Used(t)
  PROVE  /\ roots \subseteq Reached(t, roots)
         /\ \A n \in Reached(t, roots) : SonsOf(t, n) \subseteq Reached(t, roots)
         /\ \A K : roots \subseteq K /\ (\A n \in K : SonsOf(t, n) \subseteq K) =>
                     Reached(t, roots) \subseteq K
         /\ Reached(t, roots) \subseteq Used(t)
<1>0. PICK N : N = t.size
  OBVIOUS
<1>1. /\ N \in Nat /\ VarNum < N /\ VarNum \in Nat
      /\ \A n \in Used(t) : t.node[n].level \in 0 .. VarNum
  BY <1>0, TableFields, SizeAssumption DEF Shape
<1>2. PICK f : Generations(f, t, roots, N) /\ Reached(t, roots) = f[N]
  BY <1>0, <1>1, ReachedIs
<1>3. f[0] = roots /\ \A i \in 0 .. N - 1 : f[i + 1] = WithSons(t, f[i])
  BY <1>1, <1>2, GenerationSteps
<1>31. \A i : /\ f[i] \subseteq WithSons(t, f[i])
              /\ \A n \in f[i] : SonsOf(t, n) \subseteq WithSons(t, f[i])
  BY DEF WithSons
<1>4. ASSUME NEW K, roots \subseteq K, \A n \in K : SonsOf(t, n) \subseteq K
      PROVE  \A i \in 0 .. N : f[i] \subseteq K
  <2> DEFINE S == {i \in 0 .. N : f[i] \subseteq K}
  <2>1. 0 \in S
    BY <1>1, <1>3, <1>31, <1>4
  <2>2. ASSUME NEW i \in 0 .. N - 1, f[i] \subseteq K PROVE f[i + 1] \subseteq K
    <3>1. f[i + 1] = WithSons(t, f[i])
      BY <1>3
    <3> QED
      BY <1>4, <2>2, <3>1 DEF WithSons
  <2>3. \A i \in 0 .. N - 1 : i \in S => i + 1 \in S
    BY <1>1, <2>2
  <2> QED
    BY <1>1, <2>1, <2>3, UpTo
<1>5. \A n \in Used(t) : SonsOf(t, n) \subseteq Used(t)
  BY SonsBelow DEF BddNodes
<1>6. \A i \in 0 .. N : f[i] \subseteq Used(t)
  BY <1>4, <1>5
<1>7. \A i \in 0 .. N : \A j \in 0 .. i : f[j] \subseteq f[i]
  <2> DEFINE S == {i \in 0 .. N : \A j \in 0 .. i : f[j] \subseteq f[i]}
  <2>1. 0 \in S
    BY <1>1
  <2>2. ASSUME NEW i \in 0 .. N - 1, i \in S PROVE i + 1 \in S
    <3>1. f[i] \subseteq f[i + 1]
      BY <1>3, <1>31
    <3>2. \A j \in 0 .. i + 1 : j \in 0 .. i \/ j = i + 1
      BY <1>1
    <3>3. i + 1 \in 0 .. N
      BY <1>1
    <3> QED
      BY <2>2, <3>1, <3>2, <3>3
  <2> QED
    BY <1>1, <2>1, <2>2, UpTo
<1>8. \A i \in 0 .. N : \A n \in f[i] : \E j \in 0 .. i : n \in f[j] /\ j <= t.node[n].level
  <2> DEFINE Early(n, i) == \E j \in 0 .. i : n \in f[j] /\ j <= t.node[n].level
             S == {i \in 0 .. N : \A n \in f[i] : Early(n, i)}
  <2>1. 0 \in S
    <3>1. ASSUME NEW n \in f[0] PROVE 0 <= t.node[n].level
      BY <1>1, <1>6
    <3> QED
      BY <1>1, <3>1
  <2>2. ASSUME NEW i \in 0 .. N - 1, i \in S PROVE i + 1 \in S
    <3>1. ASSUME NEW n \in f[i + 1] PROVE Early(n, i + 1)
      <4>1. CASE n \in f[i]
        <5>1. PICK j \in 0 .. i : n \in f[j] /\ j <= t.node[n].level
          BY <2>2, <4>1
        <5>2. j \in 0 .. i + 1
          BY <1>1
        <5> QED
          BY <5>1, <5>2
      <4>2. CASE n \notin f[i]
        <5>1. PICK m \in f[i] : n \in SonsOf(t, m)
          <6>1. n \in WithSons(t, f[i])
            BY <1>3, <3>1
          <6> QED
            BY <4>2, <6>1 DEF WithSons
        <5>2. PICK j \in 0 .. i : m \in f[j] /\ j <= t.node[m].level
          BY <2>2, <5>1
        <5>3. m \in Used(t) /\ n \in Used(t) /\ t.node[m].level < t.node[n].level
          <6>1. i \in 0 .. N
            BY <1>1
          <6>2. m \in Used(t)
            BY <1>6, <5>1, <6>1
          <6> QED
            BY <5>1, <6>2, SonsBelow DEF BddNodes
        <5>4. j + 1 <= t.node[n].level
          BY <1>1, <5>2, <5>3
        <5>5. n \in f[j + 1]
          <6>1. j \in 0 .. N - 1
            BY <1>1
          <6> QED
            BY <1>3, <1>31, <5>1, <5>2, <6>1
        <5>6. j + 1 \in 0 .. i + 1
          BY <1>1
        <5> QED
          BY <5>4, <5>5, <5>6
      <4> QED
        BY <4>1, <4>2
    <3>2. i + 1 \in 0 .. N
      BY <1>1
    <3> QED
      BY <3>1, <3>2
  <2> QED
    BY <1>1, <2>1, <2>2, UpTo
<1>9. ASSUME NEW n \in f[N], NEW m \in SonsOf(t, n) PROVE m \in f[N]
  <2>1. PICK j \in 0 .. N : n \in f[j] /\ j <= t.node[n].level
    BY <1>1, <1>8, <1>9
  <2>2. n \in Used(t) /\ m \in Used(t) /\ t.node[n].level < t.node[m].level
    BY <1>1, <1>6, <1>9, SonsBelow DEF BddNodes
  <2>3. j \in 0 .. N - 1 /\ j + 1 \in 0 .. N
    BY <1>1, <2>1, <2>2
  <2>4. m \in f[j + 1]
    BY <1>3, <1>31, <1>9, <2>1, <2>3
  <2> QED
    BY <1>1, <1>7, <2>3, <2>4
<1>10. N \in 0 .. N /\ 0 \in 0 .. N
  BY <1>1
<1>11. roots \subseteq f[N] /\ f[N] \subseteq Used(t)
  BY <1>3, <1>6, <1>7, <1>10
<1>12. \A K : roots \subseteq K /\ (\A n \in K : SonsOf(t, n) \subseteq K) => f[N] \subseteq K
  BY <1>4, <1>10
<1> QED
  BY <1>2, <1>9, <1>11, <1>12


\* The stack only names BDDs that are there.
StackUsed(t) == Entries(t.stack) \subseteq BddNodes(t)

\* What a collection keeps: what the stack and the references name, and all that
\* lies below it.
LEMMA MarkedFacts ==
  ASSUME NEW t, Shape(t), StackUsed(t)
  PROVE  /\ Entries(t.stack) \subseteq Marked(t) /\ Referenced(t) \subseteq Marked(t)
         /\ \A n \in Marked(t) : SonsOf(t, n) \subseteq Marked(t)
         /\ \A K : /\ Entries(t.stack) \subseteq K /\ Referenced(t) \subseteq K
                   /\ \A n \in K : SonsOf(t, n) \subseteq K
                   => Marked(t) \subseteq K
         /\ Marked(t) \subseteq Used(t)
<1> DEFINE roots == Entries(t.stack) \union Referenced(t)
<1>1. Referenced(t) \subseteq Used(t)
  <2>1. \A n \in Slots(t) : n \notin Used(t) => t.node[n].refcou = 0
    BY TableFields DEF Shape, FreeSlots, FreeSlot, Node
  <2> QED
    BY <2>1 DEF Referenced
<1>2. roots \in SUBSET Used(t)
  BY <1>1 DEF StackUsed, BddNodes
<1>3. Marked(t) = Reached(t, roots)
  BY DEF Marked
<1>4. Entries(t.stack) \subseteq roots /\ Referenced(t) \subseteq roots
  OBVIOUS
<1>5. \A K : Entries(t.stack) \subseteq K /\ Referenced(t) \subseteq K => roots \subseteq K
  OBVIOUS
<1> HIDE DEF roots
<1>6. /\ roots \subseteq Reached(t, roots)
      /\ \A n \in Reached(t, roots) : SonsOf(t, n) \subseteq Reached(t, roots)
      /\ \A K : roots \subseteq K /\ (\A n \in K : SonsOf(t, n) \subseteq K) =>
                  Reached(t, roots) \subseteq K
      /\ Reached(t, roots) \subseteq Used(t)
  BY <1>2, ReachedFacts
<1> QED
  BY <1>3, <1>4, <1>5, <1>6

-----------------------------------------------------------------------------
(* What the nodes stand for.                                               *)

\* The headers of a node that tests no variable.
Ends(m) == IF m = 1 THEN Headers ELSE {}

\* Node m tests a variable.
Inner(t, m) == m \in Used(t) /\ m >= 3

\* D is what the nodes stand for.
DenotedBy(D, t) ==
  D = [m \in Slots(t) |->
         IF m < 3 \/ m \notin Used(t) THEN IF m = 1 THEN Headers ELSE {}
         ELSE Branch(t.node[m].level, D[t.node[m].low], D[t.node[m].high])]

\* The sons of an inner node.
LEMMA InnerFacts ==
  ASSUME NEW t, Shape(t), NEW m, Inner(t, m)
  PROVE  /\ m \in Slots(t) /\ m \in Nat /\ t.node[m].level \in Levels
         /\ t.node[m].low # t.node[m].high
         /\ \A son \in {t.node[m].low, t.node[m].high} :
              /\ son \in BddNodes(t) /\ son \in Used(t) /\ son \in Slots(t) /\ son \in Nat
              /\ t.node[son].level \in 0 .. VarNum
              /\ t.node[m].level < t.node[son].level
<1>1. Proper(t, m)
  BY DEF Inner, Shape
<1>2. t \in Tables
  BY DEF Shape
<1>3. \A n \in Used(t) : n \in Slots(t) /\ n \in Nat /\ t.node[n].level \in 0 .. VarNum
  BY <1>2, TableFields
<1> QED
  BY <1>1, <1>3 DEF Inner, Proper, BddNodes

\* A table in order has a meaning for every node: levels grow on the way down, so that
\* it can be built from the lowest level up.
LEMMA DenotedExists ==
  ASSUME NEW t, Shape(t)
  PROVE  \E D : DenotedBy(D, t)
<1> DEFINE Below(D, m) == Branch(t.node[m].level, D[t.node[m].low], D[t.node[m].high])
           Deep(D, k) == /\ D = [m \in Slots(t) |-> D[m]]
                         /\ \A m \in Slots(t) : ~ Inner(t, m) => D[m] = Ends(m)
                         /\ \A m \in Slots(t) : Inner(t, m) /\ t.node[m].level >= VarNum - k
                              => D[m] = Below(D, m)
           S == {k \in 0 .. VarNum : \E D : Deep(D, k)}
<1>1. VarNum \in Nat
  BY SizeAssumption
<1>2. 0 \in S
  <2> DEFINE E == [m \in Slots(t) |-> Ends(m)]
  <2>1. \A m \in Slots(t) : Inner(t, m) => ~ (t.node[m].level >= VarNum - 0)
    BY <1>1, InnerFacts DEF Levels
  <2>2. Deep(E, 0)
    BY <2>1
  <2>3. 0 \in 0 .. VarNum
    BY <1>1
  <2> HIDE DEF E, Deep
  <2> QED
    BY <2>2, <2>3
<1>3. ASSUME NEW k \in 0 .. VarNum - 1, NEW D, Deep(D, k)
      PROVE  \E E : Deep(E, k + 1)
  <2> DEFINE New(m) == Inner(t, m) /\ t.node[m].level = VarNum - (k + 1)
             E == [m \in Slots(t) |-> IF New(m) THEN Below(D, m) ELSE D[m]]
  <2>1. \A m \in Slots(t) : ~ Inner(t, m) => E[m] = Ends(m)
    BY <1>3
  <2>2. ASSUME NEW m \in Slots(t), Inner(t, m), t.node[m].level >= VarNum - (k + 1)
        PROVE  E[m] = Below(E, m)
    <3>1. \A son \in {t.node[m].low, t.node[m].high} : son \in Slots(t) /\ ~ New(son)
      <4>1. \A son \in {t.node[m].low, t.node[m].high} :
              /\ son \in Slots(t) /\ t.node[son].level \in 0 .. VarNum
              /\ t.node[m].level < t.node[son].level
        BY <2>2, InnerFacts
      <4>2. t.node[m].level \in Levels
        BY <2>2, InnerFacts
      <4> QED
        BY <1>1, <2>2, <4>1, <4>2 DEF Levels
    <3>2. \A son \in {t.node[m].low, t.node[m].high} : E[son] = D[son]
      BY <3>1
    <3>3. Below(E, m) = Below(D, m)
      BY <3>2
    <3>4. E[m] = Below(D, m)
      <4>1. CASE New(m)
        BY <4>1
      <4>2. CASE ~ New(m)
        <5>1. t.node[m].level >= VarNum - k
          <6>1. t.node[m].level \in Levels
            BY <2>2, InnerFacts
          <6> QED
            BY <1>1, <2>2, <4>2, <6>1 DEF Levels
        <5>2. D[m] = Below(D, m)
          BY <1>3, <2>2, <5>1
        <5> QED
          BY <4>2, <5>2
      <4> QED
        BY <4>1, <4>2
    <3> QED
      BY <3>3, <3>4
  <2>3. E = [m \in Slots(t) |-> E[m]]
    OBVIOUS
  <2> HIDE DEF E, Below
  <2> QED
    BY <2>1, <2>2, <2>3
<1>4. \A k \in 0 .. VarNum - 1 : k \in S => k + 1 \in S
  <2> HIDE DEF Deep
  <2> QED
    BY <1>1, <1>3
<1>5. \A k \in 0 .. VarNum : k \in S
  <2> HIDE DEF S
  <2> QED
    BY <1>1, <1>2, <1>4, UpTo
<1>6. PICK D : Deep(D, VarNum)
  BY <1>1, <1>5
<1>7. \A m \in Slots(t) : D[m] = IF m < 3 \/ m \notin Used(t) THEN Ends(m) ELSE Below(D, m)
  <2>1. ASSUME NEW m \in Slots(t), ~ (m < 3 \/ m \notin Used(t)) PROVE D[m] = Below(D, m)
    <3>1. Inner(t, m)
      BY <2>1, TableFields DEF Inner, Shape
    <3>2. t.node[m].level >= VarNum - VarNum
      BY <1>1, <3>1, InnerFacts DEF Levels
    <3> QED
      BY <1>6, <3>1, <3>2
  <2>2. ASSUME NEW m \in Slots(t), m < 3 \/ m \notin Used(t) PROVE D[m] = Ends(m)
    <3>1. ~ Inner(t, m)
      BY <2>2, TableFields DEF Inner, Shape
    <3> QED
      BY <1>6, <3>1
  <2> HIDE DEF Below
  <2> QED
    BY <2>1, <2>2
<1>8. D = [m \in Slots(t) |-> D[m]]
  BY <1>6
<1>9. D = [m \in Slots(t) |->
             IF m < 3 \/ m \notin Used(t) THEN Ends(m) ELSE Below(D, m)]
  <2> HIDE DEF Deep, Below
  <2> QED
    BY <1>7, <1>8
<1> QED
  BY <1>9 DEF DenotedBy, Ends

\* What a node stands for, from what its sons stand for.
LEMMA DenotesFacts ==
  ASSUME NEW t, Shape(t)
  PROVE  /\ Denotes(t, 0) = {} /\ Denotes(t, 1) = Headers /\ Denotes(t, 2) = {}
         /\ \A n \in Used(t) : n >= 3 =>
              Denotes(t, n) = Branch(t.node[n].level, Denotes(t, t.node[n].low),
                                     Denotes(t, t.node[n].high))
         /\ \A n \in Used(t) : Denotes(t, n) \subseteq Headers
<1> DEFINE D == CHOOSE D : DenotedBy(D, t)
<1>1. DenotedBy(D, t)
  BY DenotedExists
<1>2. \A n : Denotes(t, n) = D[n]
  BY DEF Denotes, DenotedBy
<1> HIDE DEF D
<1>3. /\ {0, 1, 2} \subseteq Slots(t)
      /\ \A n \in Used(t) : n \in Slots(t) /\ n \in Nat
  BY TableFields DEF Shape, Constants
<1>4. D[0] = {} /\ D[1] = Headers /\ D[2] = {}
  BY <1>1, <1>3 DEF DenotedBy
<1>5. \A n \in Used(t) : n >= 3 =>
        D[n] = Branch(t.node[n].level, D[t.node[n].low], D[t.node[n].high])
  <2> SUFFICES ASSUME NEW n \in Used(t), n >= 3
               PROVE  D[n] = Branch(t.node[n].level, D[t.node[n].low], D[t.node[n].high])
    OBVIOUS
  <2>1. n \in Slots(t) /\ ~ (n < 3 \/ n \notin Used(t))
    BY <1>3
  <2> QED
    BY <1>1, <2>1, Zenon DEF DenotedBy
<1>6. \A n \in Used(t) : D[n] \subseteq Headers
  <2> DEFINE Bad == {n \in Used(t) : ~ (D[n] \subseteq Headers)}
  <2> SUFFICES ASSUME Bad # {} PROVE FALSE
    OBVIOUS
  <2>1. PICK n \in Bad : \A m \in Bad : t.node[m].level <= t.node[n].level
    <3>1. Bad \in SUBSET Used(t) /\ t \in Tables
      BY DEF Shape
    <3> HIDE DEF Bad
    <3> QED
      BY <3>1, Deepest
  <2>2. CASE n < 3
    <3>1. n \in {0, 1, 2}
      BY <1>3, <2>2
    <3> QED
      BY <1>4, <3>1
  <2>3. CASE n >= 3
    <3>1. Inner(t, n)
      BY <2>3 DEF Inner
    <3>2. \A son \in {t.node[n].low, t.node[n].high} :
            /\ son \in Used(t) /\ t.node[son].level \in 0 .. VarNum
            /\ t.node[n].level < t.node[son].level
      BY <3>1, InnerFacts
    <3>3. t.node[n].level \in Levels
      BY <3>1, InnerFacts
    <3>4. \A son \in {t.node[n].low, t.node[n].high} : son \notin Bad
      <4> HIDE DEF Bad
      <4> QED
        BY <2>1, <3>2, <3>3 DEF Levels
    <3>5. D[t.node[n].low] \subseteq Headers /\ D[t.node[n].high] \subseteq Headers
      BY <3>2, <3>4
    <3> QED
      BY <1>5, <2>3, <3>5 DEF Branch
  <2> QED
    BY <1>3, <2>2, <2>3
<1> QED
  BY <1>2, <1>4, <1>5, <1>6


\* Nodes that are the same in two tables, with all that lies below them, stand for
\* the same headers.
LEMMA DenotesSame ==
  ASSUME NEW t, NEW u, Shape(t), Shape(u), NEW K \in SUBSET Used(t),
         \A n \in K : n >= 3 => n \in Used(u) /\ Same(t, n, u, n),
         \A n \in K : SonsOf(t, n) \subseteq K
  PROVE  \A n \in K : Denotes(u, n) = Denotes(t, n)
<1> DEFINE Bad == {n \in K : Denotes(u, n) # Denotes(t, n)}
<1> SUFFICES ASSUME Bad # {} PROVE FALSE
  OBVIOUS
<1>1. PICK n \in Bad : \A m \in Bad : t.node[m].level <= t.node[n].level
  <2>1. Bad \in SUBSET Used(t) /\ t \in Tables
    BY DEF Shape
  <2> HIDE DEF Bad
  <2> QED
    BY <2>1, Deepest
<1>2. n \in Used(t) /\ n \in Nat
  BY TableFields DEF Shape
<1>3. CASE n < 3
  <2>1. n \in {0, 1, 2}
    BY <1>2, <1>3
  <2> QED
    BY <2>1, DenotesFacts
<1>4. CASE n >= 3
  <2>1. Inner(t, n) /\ n \in Used(u)
    BY <1>2, <1>4 DEF Inner
  <2>2. SonsOf(t, n) = {t.node[n].low, t.node[n].high}
    BY <1>2, <1>4, InnerSons
  <2>3. \A son \in {t.node[n].low, t.node[n].high} :
          /\ son \in K /\ t.node[son].level \in 0 .. VarNum
          /\ t.node[n].level < t.node[son].level
    BY <2>1, <2>2, InnerFacts
  <2>4. t.node[n].level \in Levels
    BY <2>1, InnerFacts
  <2>5. \A son \in {t.node[n].low, t.node[n].high} : Denotes(u, son) = Denotes(t, son)
    <3>1. \A son \in {t.node[n].low, t.node[n].high} : son \notin Bad
      <4> HIDE DEF Bad
      <4> QED
        BY <1>1, <2>3, <2>4, SizeAssumption DEF Levels
    <3> QED
      BY <2>3, <3>1
  <2>6. Denotes(t, n) = Branch(t.node[n].level, Denotes(t, t.node[n].low),
                               Denotes(t, t.node[n].high))
    BY <1>2, <1>4, DenotesFacts
  <2>7. Denotes(u, n) = Branch(u.node[n].level, Denotes(u, u.node[n].low),
                               Denotes(u, u.node[n].high))
    BY <1>4, <2>1, DenotesFacts
  <2>8. /\ u.node[n].level = t.node[n].level
        /\ u.node[n].low = t.node[n].low /\ u.node[n].high = t.node[n].high
    BY <1>1, <1>4 DEF Same
  <2>9. Denotes(u, n) = Denotes(t, n)
    BY <2>5, <2>6, <2>7, <2>8
  <2> QED
    BY <1>1, <2>9
<1> QED
  BY <1>2, <1>3, <1>4

\* Any one bit of a header can be chosen, and the others kept.
LEMMA SetBit ==
  ASSUME NEW h \in Headers, NEW level \in Levels, NEW b \in {0, 1}
  PROVE  \E g \in Headers : /\ Bit(g, level) = b
                            /\ \A j \in Levels \ {level} : Bit(g, j) = Bit(h, j)
<1> DEFINE bits == [j \in Levels |-> IF j = level THEN b ELSE Bit(h, j)]
<1>1. bits \in [Levels -> {0, 1}]
  BY BitsAssumption
<1>2. PICK g \in Headers : \A j \in Levels : Bit(g, j) = bits[j]
  <2> HIDE DEF bits
  <2> QED
    BY <1>1, BitsAssumption
<1>3. Bit(g, level) = b /\ \A j \in Levels \ {level} : Bit(g, j) = Bit(h, j)
  BY <1>2
<1> QED
  BY <1>3

\* Headers h and g have the same bits from a level on.
Agree(h, g, level) == \A j \in Levels : level <= j => Bit(h, j) = Bit(g, j)

\* What a branch takes from either side, header by header.
LEMMA BranchFacts ==
  ASSUME NEW level \in Levels, NEW S \in SUBSET Headers, NEW T \in SUBSET Headers
  PROVE  /\ Branch(level, S, T) \subseteq Headers
         /\ \A h \in Headers : Bit(h, level) = 0 => (h \in Branch(level, S, T) <=> h \in S)
         /\ \A h \in Headers : Bit(h, level) = 1 => (h \in Branch(level, S, T) <=> h \in T)
         /\ \A h \in Headers : Bit(h, level) = 0 \/ Bit(h, level) = 1
<1>1. \A h \in Headers : Bit(h, level) \in {0, 1}
  BY BitsAssumption
<1> QED
  BY <1>1 DEF Branch

\* What a node stands for says nothing of the levels above the node.
LEMMA Independent ==
  ASSUME NEW t, Shape(t), NEW n \in Used(t), NEW h \in Headers, NEW g \in Headers,
         Agree(h, g, t.node[n].level)
  PROVE  h \in Denotes(t, n) <=> g \in Denotes(t, n)
<1> DEFINE Good(m) == \A x, y \in Headers : Agree(x, y, t.node[m].level) =>
                        (x \in Denotes(t, m) <=> y \in Denotes(t, m))
           Bad == {m \in Used(t) : ~ Good(m)}
<1> SUFFICES ASSUME Bad # {} PROVE FALSE
  OBVIOUS
<1>1. PICK m \in Bad : \A k \in Bad : t.node[k].level <= t.node[m].level
  <2>1. Bad \in SUBSET Used(t) /\ t \in Tables
    BY DEF Shape
  <2> HIDE DEF Bad
  <2> QED
    BY <2>1, Deepest
<1>2. m \in Used(t) /\ m \in Nat /\ ~ Good(m)
  BY TableFields DEF Shape
<1>3. CASE m < 3
  <2>1. m \in {0, 1, 2}
    BY <1>2, <1>3
  <2>2. Good(m)
    BY <2>1, DenotesFacts
  <2> QED
    BY <1>2, <2>2
<1>4. CASE m >= 3
  <2> DEFINE low == t.node[m].low
             high == t.node[m].high
             level == t.node[m].level
  <2>1. Inner(t, m)
    BY <1>2, <1>4 DEF Inner
  <2>2. level \in Levels
    BY <2>1, InnerFacts
  <2>3. \A son \in {low, high} :
          /\ son \in Used(t) /\ t.node[son].level \in 0 .. VarNum
          /\ level < t.node[son].level
    BY <2>1, InnerFacts
  <2>4. \A son \in {low, high} : Good(son)
    <3>1. \A son \in {low, high} : son \notin Bad
      <4> HIDE DEF Bad
      <4> QED
        BY <1>1, <2>2, <2>3, SizeAssumption DEF Levels
    <3> HIDE DEF Good
    <3> QED
      BY <2>3, <3>1
  <2>5. Denotes(t, m) = Branch(level, Denotes(t, low), Denotes(t, high))
    BY <1>2, <1>4, DenotesFacts
  <2>6. Denotes(t, low) \in SUBSET Headers /\ Denotes(t, high) \in SUBSET Headers
    BY <2>3, DenotesFacts
  <2>7. ASSUME NEW x \in Headers, NEW y \in Headers, Agree(x, y, level)
        PROVE  x \in Denotes(t, m) <=> y \in Denotes(t, m)
    <3>1. Bit(x, level) = Bit(y, level)
      BY <2>2, <2>7 DEF Agree, Levels
    <3>2. \A son \in {low, high} : Agree(x, y, t.node[son].level)
      BY <2>2, <2>3, <2>7 DEF Agree, Levels
    <3>3. \A son \in {low, high} : x \in Denotes(t, son) <=> y \in Denotes(t, son)
      BY <2>4, <3>2
    <3> HIDE DEF low, high, level
    <3>4. Bit(x, level) = 0 \/ Bit(x, level) = 1
      BY <2>2, BitsAssumption
    <3> QED
      BY <2>2, <2>5, <2>6, <3>1, <3>3, <3>4, BranchFacts
  <2> QED
    BY <1>2, <2>7
<1> QED
  BY <1>2, <1>3, <1>4

\* Two nodes whose branches agree stand for the same headers on each side.
LEMMA HalvesEqual ==
  ASSUME NEW t, Shape(t), NEW level \in Levels, NEW a \in Used(t), NEW b \in Used(t),
         level < t.node[a].level, level < t.node[b].level, NEW v \in {0, 1}, NEW w \in {0, 1},
         \A h, g \in Headers :
           /\ Bit(h, level) = v /\ Bit(g, level) = w
           /\ \A j \in Levels \ {level} : Bit(h, j) = Bit(g, j)
           => (h \in Denotes(t, a) <=> g \in Denotes(t, b))
  PROVE  Denotes(t, a) = Denotes(t, b)
<1>1. Denotes(t, a) \subseteq Headers /\ Denotes(t, b) \subseteq Headers
  BY DenotesFacts
<1>2. t.node[a].level \in Nat /\ t.node[b].level \in Nat /\ level \in Nat
  BY TableFields, SizeAssumption DEF Shape, Levels
<1>3. ASSUME NEW h \in Headers PROVE h \in Denotes(t, a) <=> h \in Denotes(t, b)
  <2>1. PICK x \in Headers : Bit(x, level) = v /\ \A j \in Levels \ {level} : Bit(x, j) = Bit(h, j)
    BY SetBit
  <2>2. PICK y \in Headers : Bit(y, level) = w /\ \A j \in Levels \ {level} : Bit(y, j) = Bit(h, j)
    BY SetBit
  <2>3. x \in Denotes(t, a) <=> y \in Denotes(t, b)
    BY <2>1, <2>2
  <2>4. Agree(h, x, t.node[a].level) /\ Agree(h, y, t.node[b].level)
    BY <1>2, <2>1, <2>2 DEF Agree, Levels
  <2> QED
    BY <2>3, <2>4, Independent
<1> QED
  BY <1>1, <1>3

\* There is one node for each function.
LEMMA OneNode ==
  ASSUME NEW t, Shape(t), NEW n0 \in BddNodes(t), NEW m0 \in BddNodes(t),
         Denotes(t, n0) = Denotes(t, m0)
  PROVE  n0 = m0
<1> DEFINE Twins(n, m) == /\ n \in BddNodes(t) /\ m \in BddNodes(t) /\ n # m
                          /\ Denotes(t, n) = Denotes(t, m)
           Bad == {n \in Used(t) : \E m \in Used(t) : /\ Twins(n, m)
                                                      /\ t.node[n].level <= t.node[m].level}
<1> SUFFICES ASSUME n0 # m0 PROVE FALSE
  OBVIOUS
<1>1. \A n \in Used(t) : n \in Nat /\ t.node[n].level \in 0 .. VarNum
  BY TableFields DEF Shape
<1>2. \A n, m \in Used(t) : Twins(n, m) => n \in Bad \/ m \in Bad
  <2> SUFFICES ASSUME NEW n \in Used(t), NEW m \in Used(t), Twins(n, m)
               PROVE  n \in Bad \/ m \in Bad
    OBVIOUS
  <2>1. Twins(m, n)
    OBVIOUS
  <2>2. t.node[n].level <= t.node[m].level \/ t.node[m].level <= t.node[n].level
    BY <1>1
  <2> HIDE DEF Twins
  <2> QED
    BY <2>1, <2>2
<1>3. Bad # {}
  <2>1. Twins(n0, m0) /\ n0 \in Used(t) /\ m0 \in Used(t)
    BY DEF BddNodes
  <2> HIDE DEF Bad
  <2> QED
    BY <1>2, <2>1
<1>4. PICK n \in Bad : \A m \in Bad : t.node[m].level <= t.node[n].level
  <2>1. Bad \in SUBSET Used(t) /\ t \in Tables
    BY DEF Shape
  <2> HIDE DEF Bad
  <2> QED
    BY <1>3, <2>1, Deepest
<1>5. PICK m \in Used(t) : Twins(n, m) /\ t.node[n].level <= t.node[m].level
  OBVIOUS
<1> DEFINE level == t.node[n].level
<1>6. \A x, y \in BddNodes(t) :
        level < t.node[x].level /\ level < t.node[y].level
        /\ Denotes(t, x) = Denotes(t, y) => x = y
  <2> SUFFICES ASSUME NEW x \in BddNodes(t), NEW y \in BddNodes(t), x # y,
                      level < t.node[x].level, level < t.node[y].level,
                      Denotes(t, x) = Denotes(t, y)
               PROVE  FALSE
    OBVIOUS
  <2>1. x \in Used(t) /\ y \in Used(t) /\ n \in Used(t) /\ Twins(x, y)
    BY DEF BddNodes
  <2>2. x \in Bad \/ y \in Bad
    BY <1>2, <2>1
  <2> HIDE DEF Bad
  <2> QED
    BY <1>1, <1>4, <2>1, <2>2
<1>7. n \in Used(t) /\ n # 2 /\ m # 2 /\ n \in Nat /\ m \in Nat /\ level \in 0 .. VarNum
  BY <1>1, <1>5 DEF BddNodes
<1>8. CASE n < 3
  <2>1. n \in {0, 1} /\ level = VarNum
    BY <1>7, <1>8 DEF Shape, Constants
  <2>2. ~ Inner(t, m)
    BY <1>1, <1>5, <2>1, InnerFacts, SizeAssumption DEF Levels
  <2>3. m \in {0, 1}
    BY <1>5, <1>7, <2>2 DEF Inner
  <2>4. Headers # {}
    <3>1. [j \in Levels |-> 0] \in [Levels -> {0, 1}]
      OBVIOUS
    <3> QED
      BY <3>1, BitsAssumption
  <2> QED
    BY <1>5, <2>1, <2>3, <2>4, DenotesFacts
<1>9. CASE n >= 3
  <2> DEFINE low == t.node[n].low
             high == t.node[n].high
  <2>1. Inner(t, n)
    BY <1>7, <1>9 DEF Inner
  <2>2. level \in Levels /\ low # high
    BY <2>1, InnerFacts
  <2>3. \A son \in {low, high} :
          /\ son \in Used(t) /\ son \in BddNodes(t) /\ level < t.node[son].level
    BY <2>1, InnerFacts
  <2>4. Denotes(t, n) = Branch(level, Denotes(t, low), Denotes(t, high))
    BY <1>7, <1>9, DenotesFacts
  <2>5. Denotes(t, low) \in SUBSET Headers /\ Denotes(t, high) \in SUBSET Headers
    BY <2>3, DenotesFacts
  <2>6. /\ \A h \in Headers : Bit(h, level) = 0 => (h \in Denotes(t, n) <=> h \in Denotes(t, low))
        /\ \A h \in Headers : Bit(h, level) = 1 => (h \in Denotes(t, n) <=> h \in Denotes(t, high))
    <3> HIDE DEF low, high, level
    <3> QED
      BY <2>2, <2>4, <2>5, BranchFacts
  <2>7. CASE level < t.node[m].level
    <3>1. ASSUME NEW h \in Headers, NEW g \in Headers,
                 Bit(h, level) = 0, Bit(g, level) = 1,
                 \A j \in Levels \ {level} : Bit(h, j) = Bit(g, j)
          PROVE  h \in Denotes(t, low) <=> g \in Denotes(t, high)
      <4>1. Agree(h, g, t.node[m].level)
        BY <1>1, <1>7, <2>2, <2>7, <3>1 DEF Agree, Levels
      <4>2. h \in Denotes(t, m) <=> g \in Denotes(t, m)
        BY <1>5, <4>1, Independent
      <4> QED
        BY <1>5, <2>6, <3>1, <4>2
    <3>2. Denotes(t, low) = Denotes(t, high)
      <4> HIDE DEF low, high, level
      <4> QED
        BY <2>2, <2>3, <3>1, HalvesEqual
    <3> HIDE DEF low, high, level
    <3> QED
      BY <1>6, <2>2, <2>3, <3>2
  <2>8. CASE level = t.node[m].level
    <3> DEFINE low2 == t.node[m].low
               high2 == t.node[m].high
    <3>1. m >= 3
      <4>1. m \notin {0, 1}
        BY <2>2, <2>8, SizeAssumption DEF Shape, Constants, Levels
      <4> QED
        BY <1>7, <4>1
    <3>2. Inner(t, m)
      BY <1>5, <3>1 DEF Inner
    <3>3. \A son \in {low2, high2} :
            /\ son \in Used(t) /\ son \in BddNodes(t) /\ level < t.node[son].level
      BY <2>8, <3>2, InnerFacts
    <3>4. Denotes(t, m) = Branch(level, Denotes(t, low2), Denotes(t, high2))
      BY <1>5, <2>8, <3>1, DenotesFacts
    <3>5. Denotes(t, low2) \in SUBSET Headers /\ Denotes(t, high2) \in SUBSET Headers
      BY <3>3, DenotesFacts
    <3>6. /\ \A h \in Headers : Bit(h, level) = 0 => (h \in Denotes(t, m) <=> h \in Denotes(t, low2))
          /\ \A h \in Headers : Bit(h, level) = 1 => (h \in Denotes(t, m) <=> h \in Denotes(t, high2))
      <4> HIDE DEF low2, high2, level
      <4> QED
        BY <2>2, <3>4, <3>5, BranchFacts
    <3> HIDE DEF low, high, low2, high2, level
    <3>7. \A h, g \in Headers : /\ \A j \in Levels : Bit(h, j) = Bit(g, j)
                              => \A x \in Used(t) : h \in Denotes(t, x) <=> g \in Denotes(t, x)
      BY Independent DEF Agree
    <3>8. Denotes(t, low) = Denotes(t, low2)
      <4>1. ASSUME NEW h \in Headers, NEW g \in Headers,
                   Bit(h, level) = 0, Bit(g, level) = 0,
                   \A j \in Levels \ {level} : Bit(h, j) = Bit(g, j)
            PROVE  h \in Denotes(t, low) <=> g \in Denotes(t, low2)
        <5>1. \A j \in Levels : Bit(h, j) = Bit(g, j)
          BY <4>1
        <5>2. h \in Denotes(t, n) <=> g \in Denotes(t, n)
          BY <1>7, <3>7, <5>1
        <5> QED
          BY <1>5, <2>6, <3>6, <4>1, <5>2
      <4> QED
        BY <2>2, <2>3, <3>3, <4>1, HalvesEqual
    <3>9. Denotes(t, high) = Denotes(t, high2)
      <4>1. ASSUME NEW h \in Headers, NEW g \in Headers,
                   Bit(h, level) = 1, Bit(g, level) = 1,
                   \A j \in Levels \ {level} : Bit(h, j) = Bit(g, j)
            PROVE  h \in Denotes(t, high) <=> g \in Denotes(t, high2)
        <5>1. \A j \in Levels : Bit(h, j) = Bit(g, j)
          BY <4>1
        <5>2. h \in Denotes(t, n) <=> g \in Denotes(t, n)
          BY <1>7, <3>7, <5>1
        <5> QED
          BY <1>5, <2>6, <3>6, <4>1, <5>2
      <4> QED
        BY <2>2, <2>3, <3>3, <4>1, HalvesEqual
    <3>10. low = low2 /\ high = high2
      BY <1>6, <2>3, <3>3, <3>8, <3>9
    <3>11. Same(t, n, t, m)
      BY <2>8, <3>10 DEF Same, low, high, low2, high2, level
    <3> QED
      BY <1>5, <1>7, <1>9, <3>1, <3>11 DEF Shape, Unique
  <2> QED
    BY <1>1, <1>5, <1>7, <2>7, <2>8
<1> QED
  BY <1>7, <1>8, <1>9


-----------------------------------------------------------------------------
(* Tables that hold what another one holds.                                *)

\* Table u still has what a collection of t would keep, with the same references.
Keeps(t, u) ==
  /\ \A n \in DOMAIN t.node : u.node[n].refcou = t.node[n].refcou
  /\ \A n \in Marked(t) : n \in Used(u) /\ Same(t, n, u, n)

\* The cache tells the truth about nodes that are there, and no result lies above
\* both of its operands.
CacheOk(t) ==
  \A e \in t.cache :
    /\ {e.l, e.r, e.res} \subseteq BddNodes(t)
    /\ \/ t.node[e.l].level <= t.node[e.res].level
       \/ t.node[e.r].level <= t.node[e.res].level
    /\ Denotes(t, e.res) = Meaning(Denotes(t, e.l), Denotes(t, e.r), e.op)

\* A table in the middle of an operation of a program that runs.
Live(t) ==
  /\ Shape(t)
  /\ ~ t.stopped /\ ~ t.wild
  /\ StackUsed(t)
  /\ CacheOk(t)

\* Marked nodes stay marked and stand for the same headers.
LEMMA KeepsFacts ==
  ASSUME NEW t, NEW u, Shape(t), Shape(u), StackUsed(t), StackUsed(u), Keeps(t, u),
         Entries(t.stack) \subseteq Entries(u.stack)
  PROVE  /\ Marked(t) \subseteq Marked(u)
         /\ \A n \in Marked(t) : Denotes(u, n) = Denotes(t, n)
<1>1. /\ Entries(t.stack) \subseteq Marked(t) /\ Referenced(t) \subseteq Marked(t)
      /\ \A n \in Marked(t) : SonsOf(t, n) \subseteq Marked(t)
      /\ Marked(t) \subseteq Used(t)
      /\ \A K : /\ Entries(t.stack) \subseteq K /\ Referenced(t) \subseteq K
                /\ \A n \in K : SonsOf(t, n) \subseteq K
                => Marked(t) \subseteq K
  BY MarkedFacts
<1>2. /\ Entries(u.stack) \subseteq Marked(u) /\ Referenced(u) \subseteq Marked(u)
      /\ \A n \in Marked(u) : SonsOf(u, n) \subseteq Marked(u)
  BY MarkedFacts
<1>3. \A n \in Marked(t) : SonsOf(u, n) = SonsOf(t, n)
  BY DEF Keeps, Same, SonsOf
<1>4. Referenced(t) \subseteq Referenced(u)
  <2> SUFFICES ASSUME NEW n \in Referenced(t) PROVE n \in Referenced(u)
    OBVIOUS
  <2>1. n \in Marked(t) /\ n \in DOMAIN t.node /\ t.node[n].refcou > 0
    BY <1>1, TableFields DEF Referenced, Shape
  <2>2. n \in Slots(u) /\ u.node[n].refcou > 0
    BY <2>1, TableFields DEF Keeps, Shape
  <2> QED
    BY <2>2 DEF Referenced
<1>5. Marked(t) \subseteq Marked(t) \intersect Marked(u)
  <2> DEFINE K == Marked(t) \intersect Marked(u)
  <2>1. Entries(t.stack) \subseteq K /\ Referenced(t) \subseteq K
    BY <1>1, <1>2, <1>4
  <2>2. \A n \in K : SonsOf(t, n) \subseteq K
    BY <1>1, <1>2, <1>3
  <2> HIDE DEF K
  <2>3. Marked(t) \subseteq K
    BY <1>1, <2>1, <2>2
  <2> QED
    BY <2>3 DEF K
<1>6. \A n \in Marked(t) : Denotes(u, n) = Denotes(t, n)
  <2>1. \A n \in Marked(t) : n >= 3 => n \in Used(u) /\ Same(t, n, u, n)
    BY DEF Keeps
  <2> QED
    BY <1>1, <2>1, DenotesSame
<1> QED
  BY <1>5, <1>6

\* Keeping what is marked over two changes of the table.
LEMMA KeepsTransitive ==
  ASSUME NEW t, NEW u, NEW v, Shape(t), Shape(u), Keeps(t, u), Keeps(u, v),
         Marked(t) \subseteq Marked(u)
  PROVE  Keeps(t, v)
<1>1. DOMAIN t.node = DOMAIN u.node
  BY TableFields DEF Shape
<1> QED
  BY <1>1 DEF Keeps, Same

\* Tables that differ in references, stack and caches have the same nodes.
SameNodes(t, u) ==
  /\ u.size = t.size /\ u.free = t.free
  /\ \A n \in Used(t) : Same(t, n, u, n) /\ u.node[n].chain = t.node[n].chain
  /\ \A n \in DOMAIN t.node : n \notin Used(t) => u.node[n] = t.node[n]

\* Such a table is in order if the other is, and its nodes mean the same.
LEMMA SameNodesFacts ==
  ASSUME NEW t, NEW u, Shape(t), u \in Tables, SameNodes(t, u)
  PROVE  /\ Shape(u)
         /\ Used(u) = Used(t) /\ BddNodes(u) = BddNodes(t)
         /\ \A n \in Used(t) : Denotes(u, n) = Denotes(t, n) /\ SonsOf(u, n) = SonsOf(t, n)
         /\ u.cache = t.cache /\ CacheOk(t) => CacheOk(u)
<1>1. /\ Slots(u) = Slots(t) /\ Slots(t) \subseteq DOMAIN t.node /\ DOMAIN u.node = DOMAIN t.node
      /\ Used(t) \subseteq Slots(t)
  BY TableFields DEF Shape, SameNodes, Slots
<1>2. Used(u) = Used(t)
  BY <1>1 DEF Used, SameNodes, Same
<1>3. BddNodes(u) = BddNodes(t)
  BY <1>2 DEF BddNodes
<1>4. Constants(u)
  BY <1>2 DEF Constants, SameNodes, Same, Shape
<1>5. \A n \in Used(u) : n >= 3 => Proper(u, n)
  <2> SUFFICES ASSUME NEW n \in Used(u), n >= 3 PROVE Proper(u, n)
    OBVIOUS
  <2>1. Proper(t, n) /\ Same(t, n, u, n) /\ u.node[n].chain = t.node[n].chain
    BY <1>2 DEF Shape, SameNodes
  <2>2. \A m \in BddNodes(t) : u.node[m].level = t.node[m].level
    BY DEF BddNodes, SameNodes, Same
  <2>3. u.size = t.size
    BY DEF SameNodes
  <2> QED
    BY <1>3, <2>1, <2>2, <2>3 DEF Proper, Same, Hash
<1>6. Unique(u)
  BY <1>2 DEF Unique, Shape, SameNodes, Same
<1>7. FreeSlots(u)
  BY <1>1, <1>2 DEF FreeSlots, Shape, SameNodes
<1>8. Shape(u)
  BY <1>4, <1>5, <1>6, <1>7 DEF Shape
<1>9. \A n \in Used(t) : SonsOf(u, n) = SonsOf(t, n) /\ SonsOf(t, n) \subseteq Used(t)
  <2>1. \A n \in Used(t) : SonsOf(t, n) \subseteq Used(t)
    BY SonsBelow DEF BddNodes
  <2> QED
    BY <2>1 DEF SonsOf, SameNodes, Same
<1>10. \A n \in Used(t) : Denotes(u, n) = Denotes(t, n)
  <2>1. \A n \in Used(t) : n >= 3 => n \in Used(u) /\ Same(t, n, u, n)
    BY <1>2 DEF SameNodes
  <2> QED
    BY <1>8, <1>9, <2>1, DenotesSame
<1>11. u.cache = t.cache /\ CacheOk(t) => CacheOk(u)
  <2> SUFFICES ASSUME CacheOk(t), NEW e \in t.cache
               PROVE  /\ {e.l, e.r, e.res} \subseteq BddNodes(u)
                      /\ \/ u.node[e.l].level <= u.node[e.res].level
                         \/ u.node[e.r].level <= u.node[e.res].level
                      /\ Denotes(u, e.res) = Meaning(Denotes(u, e.l), Denotes(u, e.r), e.op)
    BY DEF CacheOk
  <2>1. {e.l, e.r, e.res} \subseteq BddNodes(t)
    BY DEF CacheOk
  <2>2. \A n \in {e.l, e.r, e.res} :
          Denotes(u, n) = Denotes(t, n) /\ u.node[n].level = t.node[n].level
    BY <1>10, <2>1 DEF BddNodes, SameNodes, Same
  <2> QED
    BY <1>3, <2>1, <2>2 DEF CacheOk
<1> QED
  BY <1>2, <1>3, <1>8, <1>9, <1>10, <1>11

-----------------------------------------------------------------------------
(* Collection, growth, bdd_makenode.                                       *)

\* A chain is a number.
LEMMA HashType ==
  ASSUME NEW t, t.size \in Nat \ {0}, NEW level \in Nat, NEW low \in Nat, NEW high \in Nat
  PROVE  Hash(t, level, low, high) \in Nat
BY DEF Hash

\* The list of the free slots of a set.
LEMMA InOrderList ==
  ASSUME NEW S \in SUBSET Nat, IsFiniteSet(S)
  PROVE  /\ InOrder(S) \in Seq(Nat)
         /\ Entries(InOrder(S)) = S
         /\ \A i, j \in DOMAIN InOrder(S) : InOrder(S)[i] = InOrder(S)[j] => i = j
<1> DEFINE f == InOrder(S)
           n == Cardinality(S)
<1>1. /\ n \in Nat /\ DOMAIN f = 1 .. n
      /\ \A k \in 1 .. n : f[k] \in S
      /\ \A i \in S : \E k \in 1 .. n : f[k] = i
      /\ \A k, l \in 1 .. n : f[k] = f[l] => k = l
  BY InOrderNumbers
<1>2. f = [k \in 1 .. n |-> f[k]]
  <2> DEFINE Place(k) == CHOOSE i \in S : Cardinality({x \in S : x < i}) = k - 1
  <2>1. f = [k \in 1 .. n |-> Place(k)]
    BY DEF InOrder
  <2> HIDE DEF f, n, Place
  <2> QED
    BY <2>1
<1> HIDE DEF f, n
<1>3. f \in [1 .. n -> Nat]
  BY <1>1, <1>2
<1>4. f \in Seq(Nat)
  BY <1>1, <1>3, SeqDef
<1>5. Entries(f) = S
  <2>1. \A x \in Entries(f) : x \in S
    BY <1>1 DEF Entries
  <2>2. \A x \in S : x \in Entries(f)
    BY <1>1 DEF Entries
  <2> QED
    BY <2>1, <2>2
<1> QED
  BY <1>1, <1>4, <1>5 DEF f

\* A table whose nodes are a closed part of those of t, with what a collection of t
\* would keep, and whose other slots are free.
LEMMA SweptFacts ==
  ASSUME NEW t, Live(t), NEW u \in Tables, NEW K \in SUBSET Used(t),
         {0, 1, 2} \subseteq K, Marked(t) \subseteq K,
         \A n \in K : SonsOf(t, n) \subseteq K,
         t.size <= u.size, u.stack = t.stack, u.cache = {},
         u.stopped = t.stopped, u.wild = t.wild,
         u.free = InOrder(Slots(u) \ K),
         \A n \in K : Same(t, n, u, n) /\ u.node[n].refcou = t.node[n].refcou,
         \A n \in K : n >= 3 => u.node[n].chain = Hash(u, u.node[n].level, u.node[n].low, u.node[n].high),
         \A n \in DOMAIN t.node : n \notin K => u.node[n] = FreeSlot
  PROVE  Live(u) /\ Keeps(t, u) /\ Used(u) = K
<1>0. Shape(t) /\ StackUsed(t) /\ t \in Tables
  BY DEF Live, Shape
<1>1. /\ Slots(t) \subseteq Slots(u) /\ DOMAIN u.node = DOMAIN t.node
      /\ Slots(u) \subseteq DOMAIN u.node /\ Slots(u) \subseteq Nat
      /\ \A n \in Used(t) : n \in Nat /\ n \in Slots(t) /\ n \in DOMAIN t.node
      /\ u.size \in Nat
  BY <1>0, TableFields DEF Slots
<1>2. Used(u) = K
  <2>1. \A n \in K : n \in Slots(u) /\ t.node[n].low # -1
    BY <1>1 DEF Used
  <2>2. \A n \in K : u.node[n].low # -1
    BY <2>1 DEF Same
  <2>3. \A n \in Slots(u) : n \notin K => u.node[n].low = -1
    BY <1>1 DEF FreeSlot, Node
  <2> QED
    BY <2>1, <2>2, <2>3 DEF Used
<1>3. Constants(u)
  BY <1>0, <1>2 DEF Constants, Same, Shape
<1>4. ASSUME NEW n \in K, n >= 3 PROVE Proper(u, n)
  <2>1. SonsOf(t, n) = {t.node[n].low, t.node[n].high}
    BY <1>0, <1>4, InnerSons
  <2>2. Proper(t, n)
    BY <1>0, <1>4 DEF Shape
  <2>3. \A son \in {t.node[n].low, t.node[n].high} :
          son \in BddNodes(u) /\ u.node[son].level = t.node[son].level
    BY <1>2, <2>1, <2>2 DEF BddNodes, Proper, Same
  <2>4. Same(t, n, u, n)
    OBVIOUS
  <2> QED
    BY <1>4, <2>2, <2>3, <2>4 DEF Proper, Same
<1>5. Unique(u)
  BY <1>0, <1>2 DEF Unique, Shape, Same
<1>6. FreeSlots(u)
  <2> DEFINE F == Slots(u) \ K
  <2>1. F \in SUBSET Nat /\ IsFiniteSet(F)
    <3>1. IsFiniteSet(0 .. u.size - 1)
      <4>1. 0 \in Int /\ u.size - 1 \in Int
        BY <1>1
      <4> QED
        BY <4>1, FS_Interval
    <3>2. F \in SUBSET (0 .. u.size - 1)
      BY DEF Slots
    <3> HIDE DEF F
    <3>3. IsFiniteSet(F)
      BY <3>1, <3>2, FS_Subset
    <3> QED
      BY <1>1, <3>2, <3>3
  <2>2. u.free = InOrder(F)
    OBVIOUS
  <2>3. Entries(u.free) = Slots(u) \ Used(u)
    <3> HIDE DEF F
    <3>1. Entries(u.free) = F
      BY <2>1, <2>2, InOrderList
    <3> QED
      BY <1>2, <3>1 DEF F
  <2>4. \A i, j \in DOMAIN u.free : u.free[i] = u.free[j] => i = j
    <3> HIDE DEF F
    <3> QED
      BY <2>1, <2>2, InOrderList
  <2>5. \A n \in DOMAIN u.node : n \notin Used(u) => u.node[n] = FreeSlot
    BY <1>1, <1>2
  <2> QED
    BY <2>3, <2>4, <2>5 DEF FreeSlots
<1>7. Shape(u)
  BY <1>2, <1>3, <1>4, <1>5, <1>6 DEF Shape
<1>8. /\ Entries(t.stack) \subseteq Marked(t) /\ Referenced(t) \subseteq Marked(t)
  BY <1>0, MarkedFacts
<1>9. Keeps(t, u)
  <2>1. \A n \in DOMAIN t.node : u.node[n].refcou = t.node[n].refcou
    <3> SUFFICES ASSUME NEW n \in DOMAIN t.node, n \notin K PROVE u.node[n].refcou = t.node[n].refcou
      OBVIOUS
    <3>1. u.node[n].refcou = 0
      BY DEF FreeSlot, Node
    <3>2. n \notin Referenced(t)
      BY <1>8
    <3>3. t.node[n].refcou = 0
      <4>1. t.node[n].refcou \in Nat
        <5>1. t.node[n].refcou \in 0 .. MaxRef
          BY <1>0, TableFields
        <5> QED
          BY <5>1, SizeAssumption
      <4>2. n \notin Slots(t) => t.node[n].refcou = 0
        BY <1>0, <1>1 DEF Used, Shape, FreeSlots, FreeSlot, Node
      <4> QED
        BY <3>2, <4>1, <4>2 DEF Referenced
    <3> QED
      BY <3>1, <3>3
  <2> QED
    BY <1>2, <2>1 DEF Keeps
<1>10. StackUsed(u)
  BY <1>0, <1>2, <1>8 DEF StackUsed, BddNodes
<1> QED
  BY <1>2, <1>7, <1>9, <1>10 DEF Live, CacheOk


\* A node of a table, put back into a chain, is a node.
LEMMA RechainFacts ==
  ASSUME NEW t \in Tables, NEW w, w.node = t.node, w.size \in Nat \ {0}, NEW n \in Used(t),
         t.node[n].high \in Nat
  PROVE  /\ Rechain(w, n) \in Nodes
         /\ Rechain(w, n).level = t.node[n].level
         /\ Rechain(w, n).low = t.node[n].low /\ Rechain(w, n).high = t.node[n].high
         /\ Rechain(w, n).refcou = t.node[n].refcou
         /\ Rechain(w, n).chain = Hash(w, t.node[n].level, t.node[n].low, t.node[n].high)
<1> DEFINE x == t.node[n]
           hash == Hash(w, x.level, x.low, x.high)
<1>1. x \in Nodes /\ x.level \in Nat /\ x.low \in Nat
  <2>1. n \in Slots(t) /\ n \in DOMAIN t.node
    BY TableFields
  <2>2. x \in Nodes /\ x.level \in 0 .. VarNum /\ x.low \in Nat \union {-1}
    BY <2>1, TableFields
  <2>3. x.low # -1
    BY DEF Used
  <2> QED
    BY <2>2, <2>3
<1>2. hash \in Nat
  <2> HIDE DEF x
  <2> QED
    BY <1>1, HashType DEF x
<1>3. Rechain(w, n) = [x EXCEPT !.chain = hash]
  BY DEF Rechain
<1> HIDE DEF x, hash
<1>4. /\ Rechain(w, n) \in Nodes
      /\ Rechain(w, n).level = x.level /\ Rechain(w, n).low = x.low
      /\ Rechain(w, n).high = x.high /\ Rechain(w, n).refcou = x.refcou
      /\ Rechain(w, n).chain = hash
  BY <1>1, <1>2, <1>3 DEF Nodes
<1> QED
  BY <1>4 DEF x, hash

\* The fields of a used node are numbers.
LEMMA UsedFields ==
  ASSUME NEW t, Shape(t), NEW n \in Used(t)
  PROVE  /\ n \in Slots(t) /\ n \in DOMAIN t.node /\ n \in Nat
         /\ t.node[n].level \in 0 .. VarNum
         /\ t.node[n].low \in Nat /\ t.node[n].high \in Nat
<1>1. /\ n \in Slots(t) /\ n \in DOMAIN t.node /\ n \in Nat
      /\ t.node[n].level \in 0 .. VarNum
      /\ t.node[n].low \in Nat \union {-1} /\ t.node[n].low # -1
  BY TableFields DEF Shape, Used
<1>2. t.node[n].high \in Nat
  <2>1. CASE n < 3
    <3>1. n \in {0, 1, 2}
      BY <1>1, <2>1
    <3> QED
      BY <1>1, <3>1 DEF Shape, Constants
  <2>2. CASE n >= 3
    BY <2>2, InnerFacts DEF Inner
  <2> QED
    BY <1>1, <2>1, <2>2
<1> QED
  BY <1>1, <1>2

\* bdd_gbc: every marked node stays in its slot with its meaning, no node is new, and the
\* caches are empty.
LEMMA CollectFacts ==
  ASSUME NEW t, Live(t)
  PROVE  LET u == Collect(t)
         IN  /\ Live(u) /\ Keeps(t, u) /\ u.stack = t.stack /\ u.cache = {}
             /\ \A n \in Used(u) : n \in Used(t) /\ Same(t, n, u, n)
<1> DEFINE kept == Marked(t) \intersect Used(t)
           swept == {n \in Slots(t) : n >= 3 /\ n \notin kept}
           K == {0, 1, 2} \union Marked(t)
           node == [n \in DOMAIN t.node |->
                      IF n \in swept THEN FreeSlot
                      ELSE IF n \in kept /\ n >= 3 THEN Rechain(t, n) ELSE t.node[n]]
           u == Collect(t)
<1>0. Shape(t) /\ StackUsed(t) /\ t \in Tables /\ {0, 1, 2} \subseteq Used(t)
  BY DEF Live, Shape, Constants
<1>1. /\ Marked(t) \subseteq Used(t)
      /\ \A n \in Marked(t) : SonsOf(t, n) \subseteq Marked(t)
  BY <1>0, MarkedFacts
<1>2. /\ t.size \in Nat \ {0} /\ DOMAIN t.node = 0 .. MaxSize - 1
      /\ \A n \in DOMAIN t.node : t.node[n] \in Nodes
      /\ t.size \in InitSize .. MaxSize
      /\ Slots(t) \subseteq Nat
  <2>1. InitSize \in Nat /\ InitSize > 0 /\ MaxSize \in Nat
    BY SizeAssumption
  <2> QED
    BY <1>0, <2>1, TableFields
<1>3. \A n \in Used(t) : /\ n \in Slots(t) /\ n \in DOMAIN t.node /\ n \in Nat
                        /\ t.node[n].level \in 0 .. VarNum
                        /\ t.node[n].low \in Nat /\ t.node[n].high \in Nat
  BY <1>0, UsedFields
<1>4. u = [t EXCEPT !.node = node, !.free = InOrder(swept),
                    !.cache = {}, !.memo = {}, !.misc = {}, !.collected = TRUE]
  BY DEF Collect
<1>5. \A n \in Used(t) : /\ Rechain(t, n) \in Nodes
                        /\ Rechain(t, n).level = t.node[n].level
                        /\ Rechain(t, n).low = t.node[n].low /\ Rechain(t, n).high = t.node[n].high
                        /\ Rechain(t, n).refcou = t.node[n].refcou
                        /\ Rechain(t, n).chain = Hash(t, t.node[n].level, t.node[n].low, t.node[n].high)
  BY <1>0, <1>2, <1>3, RechainFacts
<1>6. FreeSlot \in Nodes
  BY SizeAssumption DEF FreeSlot, Node, Nodes
<1>7. node \in [0 .. MaxSize - 1 -> Nodes]
  BY <1>2, <1>5, <1>6
<1>8. swept \in SUBSET Nat /\ IsFiniteSet(swept)
  <2>1. IsFiniteSet(0 .. t.size - 1)
    <3>1. 0 \in Int /\ t.size - 1 \in Int
      BY <1>2
    <3> QED
      BY <3>1, FS_Interval
  <2>2. swept \in SUBSET (0 .. t.size - 1)
    BY DEF Slots
  <2> HIDE DEF swept
  <2>3. IsFiniteSet(swept)
    BY <2>1, <2>2, FS_Subset
  <2> QED
    BY <1>2, <2>2, <2>3
<1>9. InOrder(swept) \in Seq(Nat)
  <2> HIDE DEF swept
  <2> QED
    BY <1>8, InOrderList
<1>10. /\ u \in Tables /\ u.node = node /\ u.free = InOrder(swept) /\ u.cache = {}
       /\ u.size = t.size /\ u.stack = t.stack
       /\ u.stopped = t.stopped /\ u.wild = t.wild
  <2> HIDE DEF node, swept, u
  <2> QED
    BY <1>0, <1>4, <1>7, <1>9 DEF Tables
<1>11. K \in SUBSET Used(t) /\ {0, 1, 2} \subseteq K /\ Marked(t) \subseteq K
  BY <1>0, <1>1
<1>12. \A n \in K : SonsOf(t, n) \subseteq K
  <2>1. \A n \in {0, 1, 2} : SonsOf(t, n) = {}
    BY DEF SonsOf
  <2> QED
    BY <1>1, <2>1
<1>13. swept = Slots(u) \ K
  <2>1. Slots(u) = Slots(t)
    BY <1>10 DEF Slots
  <2> QED
    BY <1>1, <1>2, <2>1
<1>14. \A n \in K : /\ n \in DOMAIN t.node /\ n \notin swept
                    /\ n >= 3 => n \in kept
  BY <1>1, <1>3, <1>11
<1>15. ASSUME NEW n \in K
       PROVE  /\ Same(t, n, u, n) /\ u.node[n].refcou = t.node[n].refcou
              /\ n >= 3 => u.node[n].chain = Hash(u, u.node[n].level, u.node[n].low, u.node[n].high)
  <2>1. u.size = t.size /\ n \in Nat
    BY <1>3, <1>10, <1>11
  <2>2. CASE n < 3
    <3>1. u.node[n] = t.node[n]
      <4>1. n \in DOMAIN t.node /\ n \notin swept /\ ~ (n >= 3) /\ u.node = node
        <5> HIDE DEF swept, kept, K, node, u
        <5>1. n \in DOMAIN t.node /\ n \notin swept
          BY <1>14
        <5>2. ~ (n >= 3)
          BY <2>1, <2>2
        <5> QED
          BY <1>10, <5>1, <5>2
      <4> HIDE DEF swept, kept, u
      <4> QED
        BY <4>1
    <3> QED
      BY <2>1, <2>2, <3>1 DEF Same
  <2>3. CASE n >= 3
    <3>1. u.node[n] = Rechain(t, n) /\ n \in Used(t)
      BY <1>10, <1>11, <1>14, <2>1, <2>3
    <3> QED
      BY <1>5, <2>1, <3>1 DEF Same, Hash
  <2> QED
    BY <2>1, <2>2, <2>3
<1>16. \A n \in DOMAIN t.node : n \notin K => u.node[n] = FreeSlot
  <2> SUFFICES ASSUME NEW n \in DOMAIN t.node, n \notin K PROVE u.node[n] = FreeSlot
    OBVIOUS
  <2>1. CASE n \in Slots(t)
    <3>1. n \in swept
      BY <1>2, <2>1
    <3> QED
      BY <1>10, <3>1
  <2>2. CASE n \notin Slots(t)
    <3>1. u.node[n] = t.node[n]
      BY <1>1, <1>3, <1>10, <2>2
    <3> QED
      BY <1>0, <1>3, <2>2, <3>1 DEF Shape, FreeSlots
  <2> QED
    BY <2>1, <2>2
<1>17. Live(u) /\ Keeps(t, u) /\ Used(u) = K
  <2>1. t.size <= u.size
    BY <1>2, <1>10
  <2> HIDE DEF K, u, swept, node, kept
  <2> QED
    BY <1>10, <1>11, <1>12, <1>13, <1>15, <1>16, <2>1, SweptFacts
<1> QED
  BY <1>10, <1>11, <1>15, <1>17

\* bdd_noderesize: the nodes stay, in chains of the new size, and the new slots are free.
LEMMA GrowFacts ==
  ASSUME NEW t, Live(t), t.cache = {}, t.size < MaxSize
  PROVE  LET u == Grow(t)
         IN  /\ Live(u) /\ Keeps(t, u) /\ u.stack = t.stack /\ u.cache = {}
             /\ \A n \in Used(u) : n \in Used(t) /\ Same(t, n, u, n)
<1> DEFINE K == Used(t)
           wide == [t EXCEPT !.size = Wider(t)]
           node == [n \in DOMAIN t.node |->
                      IF n >= 2 /\ n \in Used(wide) THEN Rechain(wide, n) ELSE t.node[n]]
           free == InOrder(Slots(wide) \ Used(wide))
           u == Grow(t)
<1>0. Shape(t) /\ StackUsed(t) /\ t \in Tables /\ {0, 1, 2} \subseteq Used(t)
  BY DEF Live, Shape, Constants
<1>1. /\ Marked(t) \subseteq Used(t)
  BY <1>0, MarkedFacts
<1>2. /\ t.size \in Nat \ {0} /\ DOMAIN t.node = 0 .. MaxSize - 1
      /\ \A n \in DOMAIN t.node : t.node[n] \in Nodes
      /\ t.size \in InitSize .. MaxSize
      /\ InitSize \in Nat /\ MaxSize \in Nat /\ Growth \in Nat /\ Growth > 0
  <2>1. InitSize \in Nat /\ InitSize > 0 /\ MaxSize \in Nat /\ Growth \in Nat /\ Growth > 0
    BY SizeAssumption
  <2> QED
    BY <1>0, <2>1, TableFields
<1>3. \A n \in Used(t) : /\ n \in Slots(t) /\ n \in DOMAIN t.node /\ n \in Nat
                        /\ t.node[n].level \in 0 .. VarNum
                        /\ t.node[n].low \in Nat /\ t.node[n].high \in Nat
  BY <1>0, UsedFields
<1>4. Wider(t) \in InitSize .. MaxSize /\ t.size < Wider(t)
  BY <1>2 DEF Wider
<1>5. /\ wide \in Tables /\ wide.size = Wider(t) /\ wide.node = t.node /\ wide.stack = t.stack
      /\ wide.cache = t.cache /\ wide.stopped = t.stopped /\ wide.wild = t.wild
  BY <1>0, <1>4 DEF Tables
<1>6. u = [wide EXCEPT !.node = node, !.free = free]
  BY <1>5 DEF Grow
<1>7. Slots(wide) = 0 .. Wider(t) - 1 /\ Slots(t) \subseteq Slots(wide)
  BY <1>2, <1>4, <1>5 DEF Slots
<1>8. Used(wide) = Used(t)
  <2>1. \A n \in Slots(wide) : n \in DOMAIN t.node
    BY <1>2, <1>4, <1>7
  <2>2. \A n \in Slots(wide) : n \notin Slots(t) => t.node[n].low = -1
    BY <1>0, <1>3, <2>1 DEF Shape, FreeSlots, FreeSlot, Node
  <2> QED
    BY <1>5, <1>7, <2>2 DEF Used
<1>9. \A n \in Used(t) :
        /\ Rechain(wide, n) \in Nodes
        /\ Rechain(wide, n).level = t.node[n].level
        /\ Rechain(wide, n).low = t.node[n].low /\ Rechain(wide, n).high = t.node[n].high
        /\ Rechain(wide, n).refcou = t.node[n].refcou
        /\ Rechain(wide, n).chain = Hash(wide, t.node[n].level, t.node[n].low, t.node[n].high)
  <2>1. wide.size \in Nat \ {0}
    BY <1>2, <1>4, <1>5
  <2> HIDE DEF wide
  <2> QED
    BY <1>0, <1>3, <1>5, <2>1, RechainFacts
<1>10. node \in [0 .. MaxSize - 1 -> Nodes]
  <2> HIDE DEF wide
  <2> QED
    BY <1>2, <1>8, <1>9
<1>11. free \in Seq(Nat)
  <2> DEFINE F == Slots(wide) \ Used(wide)
  <2>1. IsFiniteSet(0 .. Wider(t) - 1) /\ 0 .. Wider(t) - 1 \subseteq Nat
    <3>1. 0 \in Int /\ Wider(t) - 1 \in Int
      BY <1>2, <1>4
    <3> QED
      BY <3>1, FS_Interval
  <2>2. F \in SUBSET (0 .. Wider(t) - 1)
    BY <1>7
  <2> HIDE DEF F
  <2>3. IsFiniteSet(F) /\ F \in SUBSET Nat
    BY <2>1, <2>2, FS_Subset
  <2>4. InOrder(F) \in Seq(Nat)
    BY <2>3, InOrderList
  <2> QED
    BY <2>4 DEF F
<1>12. /\ u \in Tables /\ u.node = node /\ u.free = free /\ u.cache = {}
       /\ u.size = Wider(t) /\ u.stack = t.stack
       /\ u.stopped = t.stopped /\ u.wild = t.wild
  <2> HIDE DEF node, free, u, wide
  <2> QED
    BY <1>5, <1>6, <1>10, <1>11 DEF Tables
<1>13. \A n \in K : SonsOf(t, n) \subseteq K
  BY <1>0, SonsBelow DEF BddNodes
<1>14. free = InOrder(Slots(u) \ K)
  <2>1. Slots(u) = Slots(wide)
    BY <1>5, <1>12 DEF Slots
  <2> HIDE DEF wide, u
  <2> QED
    BY <1>8, <2>1
<1>15. ASSUME NEW n \in K
       PROVE  /\ Same(t, n, u, n) /\ u.node[n].refcou = t.node[n].refcou
              /\ n >= 3 => u.node[n].chain = Hash(u, u.node[n].level, u.node[n].low, u.node[n].high)
  <2>1. u.size = wide.size /\ n \in Nat /\ n \in DOMAIN t.node
    BY <1>3, <1>5, <1>12
  <2> HIDE DEF wide, u
  <2>2. CASE n < 2
    <3>1. u.node[n] = t.node[n]
      BY <1>12, <2>1, <2>2
    <3> QED
      BY <2>1, <2>2, <3>1 DEF Same
  <2>3. CASE n >= 2
    <3>1. u.node[n] = Rechain(wide, n)
      BY <1>8, <1>12, <2>1, <2>3
    <3> QED
      BY <1>9, <2>1, <3>1 DEF Same, Hash
  <2> QED
    BY <2>1, <2>2, <2>3
<1>16. \A n \in DOMAIN t.node : n \notin K => u.node[n] = FreeSlot
  <2> SUFFICES ASSUME NEW n \in DOMAIN t.node, n \notin K PROVE u.node[n] = FreeSlot
    OBVIOUS
  <2>1. u.node[n] = t.node[n]
    <3> HIDE DEF wide, u
    <3> QED
      BY <1>8, <1>12
  <2>2. t.node[n] = FreeSlot
    BY <1>0 DEF Shape, FreeSlots
  <2> QED
    BY <2>1, <2>2
<1>17. Live(u) /\ Keeps(t, u) /\ Used(u) = K
  <2>1. t.size <= u.size
    BY <1>2, <1>4, <1>12
  <2>2. K \in SUBSET Used(t)
    OBVIOUS
  <2> HIDE DEF K, u, free, node
  <2> QED
    BY <1>0, <1>1, <1>12, <1>13, <1>14, <1>15, <1>16, <2>1, <2>2, SweptFacts DEF K
<1> QED
  BY <1>12, <1>15, <1>17


\* A table keeps what it has.
LEMMA KeepsItself ==
  ASSUME NEW t, Live(t)
  PROVE  Keeps(t, t)
BY MarkedFacts DEF Live, Keeps, Same

\* What bdd_makenode does before it takes a slot: nothing, a collection, or both.
LEMMA RefillFacts ==
  ASSUME NEW t, Live(t)
  PROVE  LET u == Refill(t)
         IN  /\ Live(u) /\ Keeps(t, u) /\ u.stack = t.stack
             /\ \A n \in Used(u) : n \in Used(t) /\ Same(t, n, u, n)
<1> DEFINE c == Collect(t)
           g == Grow(c)
<1>1. CASE t.free # <<>>
  <2>1. Refill(t) = t
    BY <1>1 DEF Refill
  <2>2. Keeps(t, t)
    BY KeepsItself
  <2> QED
    BY <2>1, <2>2 DEF Same
<1>2. CASE t.free = <<>>
  <2>1. /\ Live(c) /\ Keeps(t, c) /\ c.stack = t.stack /\ c.cache = {}
        /\ \A n \in Used(c) : n \in Used(t) /\ Same(t, n, c, n)
    BY CollectFacts
  <2>2. Refill(t) = Widen(c)
    BY <1>2 DEF Refill
  <2> HIDE DEF c
  <2>3. CASE Crowded(c) /\ c.size < MaxSize
    <3>1. /\ Live(g) /\ Keeps(c, g) /\ g.stack = c.stack
          /\ \A n \in Used(g) : n \in Used(c) /\ Same(c, n, g, n)
      BY <2>1, <2>3, GrowFacts
    <3>2. Refill(t) = g
      BY <2>2, <2>3 DEF Widen
    <3> HIDE DEF g
    <3>3. Marked(t) \subseteq Marked(c)
      BY <2>1, KeepsFacts DEF Live
    <3>4. Keeps(t, g)
      BY <2>1, <3>1, <3>3, KeepsTransitive DEF Live
    <3>5. \A n \in Used(g) : n \in Used(t) /\ Same(t, n, g, n)
      BY <2>1, <3>1 DEF Same
    <3> QED
      BY <2>1, <3>1, <3>2, <3>4, <3>5
  <2>4. CASE ~ (Crowded(c) /\ c.size < MaxSize)
    <3>1. Refill(t) = c
      BY <2>2, <2>4 DEF Widen
    <3> QED
      BY <2>1, <3>1
  <2> QED
    BY <2>3, <2>4
<1> QED
  BY <1>1, <1>2

\* What bdd_makenode gets when the node it wants is not there yet.
LEMMA EnterFacts ==
  ASSUME NEW t, Live(t), NEW level \in Levels, NEW low \in BddNodes(t), NEW high \in BddNodes(t),
         low # high, level < t.node[low].level, level < t.node[high].level,
         \A n \in Used(t) : n >= 3 =>
           ~ (t.node[n].level = level /\ t.node[n].low = low /\ t.node[n].high = high)
  PROVE  LET done == Enter(t, level, low, high)
             u == done.t
         IN  /\ Shape(u) /\ ~ u.wild /\ done.res \in Nat /\ u.stack = t.stack
             /\ \/ u.stopped
                \/ /\ Live(u) /\ Keeps(t, u)
                   /\ done.res \in BddNodes(u) /\ u.node[done.res].level = level
                   /\ Denotes(u, done.res) = Branch(level, Denotes(t, low), Denotes(t, high))
<1> DEFINE done == Enter(t, level, low, high)
           u == done.t
<1>0. Shape(t) /\ StackUsed(t) /\ t \in Tables /\ {0, 1, 2} \subseteq Used(t) /\ CacheOk(t)
      /\ ~ t.wild
  BY DEF Live, Shape, Constants
<1>1. CASE t.free = <<>>
  <2>1. done = [t |-> [t EXCEPT !.stopped = TRUE], res |-> 0]
    BY <1>1 DEF Enter
  <2>2. u = [t EXCEPT !.stopped = TRUE] /\ done.res = 0
    BY <2>1
  <2>3. u \in Tables /\ SameNodes(t, u) /\ u.wild = t.wild /\ u.stopped /\ u.stack = t.stack
    BY <1>0, <2>2 DEF Tables, SameNodes, Same
  <2> HIDE DEF u
  <2>4. Shape(u)
    BY <1>0, <2>3, SameNodesFacts
  <2> QED
    BY <1>0, <2>2, <2>3, <2>4 DEF u
<1>2. CASE t.free # <<>>
  <2> DEFINE h == Head(t.free)
             hash == Hash(t, level, low, high)
             new == Node(level, low, high, t.node[h].refcou, hash)
             node == [t.node EXCEPT ![h] = new]
  <2>1. done = [t |-> [t EXCEPT !.node = node, !.free = Tail(@)], res |-> h]
    BY <1>0, <1>2 DEF Enter, Tables
  <2>2. /\ t.free \in Seq(Nat) /\ h \in Nat /\ Tail(t.free) \in Seq(Nat)
        /\ 1 \in DOMAIN t.free /\ h = t.free[1] /\ Len(t.free) \in Nat \ {0}
        /\ DOMAIN t.free = 1 .. Len(t.free)
        /\ DOMAIN Tail(t.free) = 1 .. Len(t.free) - 1
        /\ \A i \in 1 .. Len(t.free) - 1 : Tail(t.free)[i] = t.free[i + 1]
    <3>1. t.free \in Seq(Nat)
      BY <1>0 DEF Tables
    <3> QED
      BY <1>2, <3>1
  <2>3. /\ Entries(t.free) = Slots(t) \ Used(t)
        /\ \A i, j \in DOMAIN t.free : t.free[i] = t.free[j] => i = j
        /\ \A n \in DOMAIN t.node : n \notin Used(t) => t.node[n] = FreeSlot
    BY <1>0 DEF Shape, FreeSlots
  <2>4. h \in Slots(t) /\ h \notin Used(t)
    <3>1. h \in Entries(t.free)
      BY <2>2 DEF Entries
    <3> QED
      BY <2>3, <3>1
  <2>5. h >= 3
    <3>1. h # 0 /\ h # 1 /\ h # 2
      BY <1>0, <2>4
    <3> QED
      BY <2>2, <3>1
  <2>6. /\ t.node \in [0 .. MaxSize - 1 -> Nodes] /\ Slots(t) \subseteq DOMAIN t.node
        /\ t.size \in Nat \ {0} /\ Slots(t) \subseteq Nat
    <3>1. InitSize \in Nat /\ InitSize > 0
      BY SizeAssumption
    <3> QED
      BY <1>0, <3>1, TableFields
  <2>7. level \in Nat /\ low \in Nat /\ high \in Nat /\ low \in Used(t) /\ high \in Used(t)
        /\ low \in Slots(t) /\ high \in Slots(t) /\ level \in 0 .. VarNum
    <3>1. low \in Used(t) /\ high \in Used(t) /\ level \in Nat /\ level \in 0 .. VarNum
      BY SizeAssumption DEF BddNodes, Levels
    <3> QED
      BY <1>0, <3>1, UsedFields
  <2>8. hash \in Nat
    BY <2>6, <2>7, HashType
  <2>9. t.node[h] = FreeSlot /\ h \in DOMAIN t.node
    BY <2>3, <2>4, <2>6
  <2>10. /\ new \in Nodes /\ new.level = level /\ new.low = low /\ new.high = high
         /\ new.refcou = 0 /\ new.chain = hash
    <3> HIDE DEF hash, h
    <3>1. t.node[h].refcou = 0
      BY <2>9 DEF FreeSlot, Node
    <3>2. 0 \in 0 .. MaxRef
      BY SizeAssumption
    <3> QED
      BY <2>7, <2>8, <3>1, <3>2 DEF Node, Nodes
  <2> HIDE DEF new, h, hash
  <2>11. node \in [0 .. MaxSize - 1 -> Nodes] /\ node[h] = new
         /\ \A n \in DOMAIN t.node : n # h => node[n] = t.node[n]
    BY <2>6, <2>9, <2>10
  <2>12. /\ u \in Tables /\ u.node = node /\ u.free = Tail(t.free) /\ u.size = t.size
         /\ u.stack = t.stack /\ u.cache = t.cache /\ u.stopped = t.stopped /\ u.wild = t.wild
         /\ done.res = h
    <3> HIDE DEF node, done
    <3> QED
      BY <1>0, <2>1, <2>2, <2>11 DEF Tables
  <2> HIDE DEF node, u, done
  <2>13. Slots(u) = Slots(t) /\ DOMAIN u.node = DOMAIN t.node
    BY <2>6, <2>11, <2>12 DEF Slots
  <2>14. Used(u) = Used(t) \union {h}
    <3>1. \A n \in Slots(t) : n \in Used(u) <=> n \in Used(t) \/ n = h
      <4>1. new.low # -1
        BY <2>7, <2>10
      <4> QED
        BY <2>6, <2>11, <2>12, <2>13, <4>1 DEF Used
    <3>2. Used(u) \subseteq Slots(t) /\ Used(t) \subseteq Slots(t)
      BY <2>13 DEF Used
    <3> QED
      BY <2>4, <3>1, <3>2
  <2>15. \A n \in Used(t) : n # h /\ n \in DOMAIN t.node /\ u.node[n] = t.node[n]
    BY <1>0, <2>4, <2>11, <2>12, UsedFields
  <2>16. BddNodes(t) \subseteq BddNodes(u) /\ h \in BddNodes(u)
    BY <2>5, <2>14 DEF BddNodes
  <2>17. Constants(u)
    BY <1>0, <2>14, <2>15 DEF Constants, Shape
  <2>18. u.node[h] = new
    BY <2>11, <2>12
  <2>19. ASSUME NEW n \in Used(u), n >= 3 PROVE Proper(u, n)
    <3>1. CASE n = h
      <4>1. u.node[low].level = t.node[low].level /\ u.node[high].level = t.node[high].level
        BY <2>7, <2>15
      <4>2. hash = Hash(u, level, low, high)
        BY <2>12 DEF Hash, hash
      <4> QED
        BY <2>10, <2>16, <2>18, <3>1, <4>1, <4>2 DEF Proper
    <3>2. CASE n # h
      <4>1. Proper(t, n) /\ n \in Used(t)
        BY <1>0, <2>14, <2>19, <3>2 DEF Shape
      <4>2. \A m \in BddNodes(t) : u.node[m].level = t.node[m].level
        BY <2>15 DEF BddNodes
      <4>3. u.node[n] = t.node[n] /\ u.size = t.size
        BY <2>12, <2>15, <4>1
      <4> QED
        BY <2>16, <4>1, <4>2, <4>3 DEF Proper, Hash
    <3> QED
      BY <3>1, <3>2
  <2>20. Unique(u)
    <3> SUFFICES ASSUME NEW n \in Used(u), NEW m \in Used(u), n >= 3, m >= 3, Same(u, n, u, m)
                 PROVE  n = m
      BY DEF Unique
    <3>1. CASE n # h /\ m # h
      BY <1>0, <2>14, <2>15, <3>1 DEF Same, Shape, Unique
    <3>2. CASE n = h /\ m # h
      BY <2>10, <2>14, <2>15, <2>18, <3>2 DEF Same
    <3>3. CASE n # h /\ m = h
      BY <2>10, <2>14, <2>15, <2>18, <3>3 DEF Same
    <3> QED
      BY <3>1, <3>2, <3>3
  <2>21. FreeSlots(u)
    <3>1. \A n \in DOMAIN u.node : n \notin Used(u) => u.node[n] = FreeSlot
      BY <2>3, <2>11, <2>12, <2>13, <2>14
    <3>2. \A i, j \in DOMAIN u.free : u.free[i] = u.free[j] => i = j
      <4> SUFFICES ASSUME NEW i \in DOMAIN u.free, NEW j \in DOMAIN u.free, u.free[i] = u.free[j]
                   PROVE  i = j
        OBVIOUS
      <4>1. i \in 1 .. Len(t.free) - 1 /\ j \in 1 .. Len(t.free) - 1
        BY <2>2, <2>12
      <4>2. i + 1 \in DOMAIN t.free /\ j + 1 \in DOMAIN t.free
        BY <2>2, <4>1
      <4>3. u.free[i] = t.free[i + 1] /\ u.free[j] = t.free[j + 1]
        BY <2>2, <2>12, <4>1
      <4>4. i + 1 = j + 1
        BY <2>3, <4>2, <4>3
      <4> QED
        BY <4>1, <4>4
    <3>3. ASSUME NEW x PROVE x \in Entries(u.free) <=> x \in Entries(t.free) /\ x # h
      <4>1. ASSUME x \in Entries(u.free) PROVE x \in Entries(t.free) /\ x # h
        <5>1. PICK i \in DOMAIN u.free : x = u.free[i]
          BY <4>1 DEF Entries
        <5>2. i \in 1 .. Len(t.free) - 1 /\ i + 1 \in DOMAIN t.free /\ x = t.free[i + 1] /\ i + 1 # 1
          BY <2>2, <2>12, <5>1
        <5>3. x # h
          BY <2>2, <2>3, <5>2
        <5> QED
          BY <5>2, <5>3 DEF Entries
      <4>2. ASSUME x \in Entries(t.free), x # h PROVE x \in Entries(u.free)
        <5>1. PICK i \in DOMAIN t.free : x = t.free[i]
          BY <4>2 DEF Entries
        <5>2. i - 1 \in 1 .. Len(t.free) - 1 /\ (i - 1) + 1 = i
          BY <2>2, <4>2, <5>1
        <5>3. i - 1 \in DOMAIN u.free /\ u.free[i - 1] = x
          BY <2>2, <2>12, <5>1, <5>2
        <5> QED
          BY <5>3 DEF Entries
      <4> QED
        BY <4>1, <4>2
    <3>4. Entries(u.free) = Slots(u) \ Used(u)
      BY <2>3, <2>13, <2>14, <3>3
    <3> QED
      BY <3>1, <3>2, <3>4 DEF FreeSlots
  <2>22. Shape(u)
    BY <2>12, <2>17, <2>19, <2>20, <2>21 DEF Shape
  <2>23. \A n \in Used(t) : Denotes(u, n) = Denotes(t, n)
    <3>1. \A n \in Used(t) : n >= 3 => n \in Used(u) /\ Same(t, n, u, n)
      BY <2>14, <2>15 DEF Same
    <3>2. \A n \in Used(t) : SonsOf(t, n) \subseteq Used(t)
      BY <1>0, SonsBelow DEF BddNodes
    <3> QED
      BY <1>0, <2>22, <3>1, <3>2, DenotesSame
  <2>24. CacheOk(u)
    <3> SUFFICES ASSUME NEW e \in t.cache
                 PROVE  /\ {e.l, e.r, e.res} \subseteq BddNodes(u)
                        /\ \/ u.node[e.l].level <= u.node[e.res].level
                           \/ u.node[e.r].level <= u.node[e.res].level
                        /\ Denotes(u, e.res) = Meaning(Denotes(u, e.l), Denotes(u, e.r), e.op)
      BY <2>12 DEF CacheOk
    <3>1. {e.l, e.r, e.res} \subseteq BddNodes(t)
      BY <1>0 DEF CacheOk
    <3>2. \A n \in {e.l, e.r, e.res} : Denotes(u, n) = Denotes(t, n) /\ u.node[n] = t.node[n]
      BY <2>15, <2>23, <3>1 DEF BddNodes
    <3> QED
      BY <1>0, <2>16, <3>1, <3>2 DEF CacheOk
  <2>25. Live(u)
    <3>1. StackUsed(u)
      BY <1>0, <2>12, <2>16 DEF StackUsed
    <3> QED
      BY <2>12, <2>22, <2>24, <3>1 DEF Live
  <2>26. Keeps(t, u)
    <3>1. \A n \in DOMAIN t.node : u.node[n].refcou = t.node[n].refcou
      <4>1. FreeSlot.refcou = 0
        BY DEF FreeSlot, Node
      <4> QED
        BY <2>9, <2>10, <2>11, <2>12, <4>1
    <3>2. Marked(t) \subseteq Used(t)
      BY <1>0, MarkedFacts
    <3> QED
      BY <2>14, <2>15, <3>1, <3>2 DEF Keeps, Same
  <2>27. Denotes(u, h) = Branch(level, Denotes(t, low), Denotes(t, high))
    <3>1. Denotes(u, h) = Branch(u.node[h].level, Denotes(u, u.node[h].low), Denotes(u, u.node[h].high))
      BY <2>5, <2>14, <2>22, DenotesFacts
    <3>2. Denotes(u, low) = Denotes(t, low) /\ Denotes(u, high) = Denotes(t, high)
      BY <2>7, <2>23
    <3> QED
      BY <2>10, <2>18, <3>1, <3>2
  <2>28. u.node[h].level = level
    BY <2>10, <2>18
  <2> QED
    BY <2>2, <2>12, <2>16, <2>22, <2>25, <2>26, <2>27, <2>28, <1>0 DEF u, done
<1> QED
  BY <1>1, <1>2

\* What bdd_makenode returns when both sons are protected.
LEMMA MakeNodeFacts ==
  ASSUME NEW t, Live(t), NEW level \in Levels, NEW low \in BddNodes(t), NEW high \in BddNodes(t),
         low \in Marked(t), high \in Marked(t),
         level < t.node[low].level, level < t.node[high].level
  PROVE  LET done == MakeNode(t, level, low, high)
             u == done.t
         IN  /\ Shape(u) /\ ~ u.wild /\ done.res \in Nat /\ u.stack = t.stack
             /\ \/ u.stopped
                \/ /\ Live(u) /\ Keeps(t, u)
                   /\ done.res \in BddNodes(u) /\ level <= u.node[done.res].level
                   /\ Denotes(u, done.res) = Branch(level, Denotes(t, low), Denotes(t, high))
<1> DEFINE done == MakeNode(t, level, low, high)
           u == done.t
           found == Found(t, level, low, high)
           w == Refill(t)
           Fine(x, res) ==
             /\ Live(x) /\ Keeps(t, x)
             /\ res \in BddNodes(x) /\ level <= x.node[res].level
             /\ Denotes(x, res) = Branch(level, Denotes(t, low), Denotes(t, high))
<1>0. /\ Shape(t) /\ StackUsed(t) /\ t \in Tables /\ ~ t.wild
      /\ low \in Used(t) /\ high \in Used(t) /\ low # 2 /\ high # 2
      /\ level \in Nat
  BY SizeAssumption DEF Live, Shape, BddNodes, Levels
<1>1. Keeps(t, t)
  BY KeepsItself
<1>2. Denotes(t, low) \in SUBSET Headers /\ Denotes(t, high) \in SUBSET Headers
  BY <1>0, DenotesFacts
<1>3. \A n \in Used(t) : n \in Nat /\ t.node[n].level \in Nat
  BY <1>0, UsedFields
<1>4. CASE low = high
  <2>1. done = [t |-> t, res |-> low]
    BY <1>0, <1>4 DEF MakeNode
  <2>2. Denotes(t, low) = Branch(level, Denotes(t, low), Denotes(t, high))
    <3>1. \A h \in Headers : Bit(h, level) = 0 \/ Bit(h, level) = 1
      BY BitsAssumption
    <3> QED
      BY <1>2, <1>4, <3>1 DEF Branch
  <2>3. Fine(t, low)
    BY <1>0, <1>1, <1>3, <2>2
  <2> HIDE DEF done, Fine
  <2>4. u = t /\ done.res = low
    BY <2>1
  <2> HIDE DEF u
  <2> QED
    BY <1>0, <1>3, <2>3, <2>4 DEF u, done, Fine
<1>5. CASE low # high /\ found # {}
  <2> DEFINE n == CHOOSE n \in found : TRUE
  <2>1. done = [t |-> t, res |-> n]
    BY <1>5 DEF MakeNode
  <2>2. /\ n \in Used(t) /\ t.node[n].level = level /\ t.node[n].low = low /\ t.node[n].high = high
    <3>1. n \in found
      BY <1>5
    <3> HIDE DEF n
    <3> QED
      BY <3>1 DEF Found
  <2> HIDE DEF n
  <2>3. n >= 3 /\ n # 2
    <3>1. n \notin {0, 1, 2}
      BY <1>0, <1>5, <2>2 DEF Shape, Constants
    <3> QED
      BY <1>3, <2>2, <3>1
  <2>4. Denotes(t, n) = Branch(level, Denotes(t, low), Denotes(t, high))
    BY <1>0, <2>2, <2>3, DenotesFacts
  <2>5. Fine(t, n)
    BY <1>0, <1>1, <2>2, <2>3, <2>4 DEF BddNodes
  <2> HIDE DEF done, Fine
  <2>6. u = t /\ done.res = n
    BY <2>1
  <2> HIDE DEF u
  <2> QED
    BY <1>0, <1>3, <2>2, <2>5, <2>6 DEF u, done, Fine
<1>6. CASE low # high /\ found = {}
  <2>1. done = Enter(w, level, low, high)
    BY <1>6 DEF MakeNode
  <2>2. /\ Live(w) /\ Keeps(t, w) /\ w.stack = t.stack
        /\ \A n \in Used(w) : n \in Used(t) /\ Same(t, n, w, n)
    BY RefillFacts
  <2> HIDE DEF w
  <2>3. low \in Used(w) /\ high \in Used(w) /\ Same(t, low, w, low) /\ Same(t, high, w, high)
    BY <2>2 DEF Keeps
  <2>4. /\ Marked(t) \subseteq Marked(w)
        /\ Denotes(w, low) = Denotes(t, low) /\ Denotes(w, high) = Denotes(t, high)
    BY <1>0, <2>2, KeepsFacts DEF Live
  <2>5. \A n \in Used(w) : n >= 3 =>
          ~ (w.node[n].level = level /\ w.node[n].low = low /\ w.node[n].high = high)
    <3> SUFFICES ASSUME NEW n \in Used(w), n >= 3,
                        w.node[n].level = level /\ w.node[n].low = low /\ w.node[n].high = high
                 PROVE  FALSE
      OBVIOUS
    <3>1. n \in Used(t) /\ t.node[n].level = level /\ t.node[n].low = low /\ t.node[n].high = high
      BY <2>2 DEF Same
    <3>2. t.node[n].chain = Hash(t, level, low, high)
      BY <1>0, <3>1 DEF Shape, Proper
    <3> QED
      BY <1>6, <3>1, <3>2 DEF Found
  <2>6. low \in BddNodes(w) /\ high \in BddNodes(w)
        /\ level < w.node[low].level /\ level < w.node[high].level
    BY <1>0, <2>3 DEF BddNodes, Same
  <2>7. /\ Shape(u) /\ ~ u.wild /\ done.res \in Nat /\ u.stack = w.stack
        /\ \/ u.stopped
           \/ /\ Live(u) /\ Keeps(w, u)
              /\ done.res \in BddNodes(u) /\ u.node[done.res].level = level
              /\ Denotes(u, done.res) = Branch(level, Denotes(w, low), Denotes(w, high))
    <3> HIDE DEF done
    <3> QED
      BY <1>6, <2>1, <2>2, <2>5, <2>6, EnterFacts
  <2> HIDE DEF done, u
  <2>8. CASE u.stopped
    BY <2>2, <2>7, <2>8 DEF u, done
  <2>9. CASE ~ u.stopped
    <3>1. Keeps(t, u)
      BY <1>0, <2>2, <2>4, <2>7, <2>9, KeepsTransitive DEF Live
    <3>2. Fine(u, done.res)
      BY <1>0, <2>2, <2>4, <2>7, <2>9, <3>1
    <3> HIDE DEF Fine
    <3> QED
      BY <2>2, <2>7, <3>2 DEF u, done, Fine
  <2> QED
    BY <2>8, <2>9
<1> QED
  BY <1>4, <1>5, <1>6


-----------------------------------------------------------------------------
(* What one level of bdd_apply gives the level above it.                   *)

\* Live tables of which the second keeps what is marked in the first, and protects
\* all that the first protects.
Follows(t, u) ==
  /\ Live(t) /\ Live(u) /\ Keeps(t, u)
  /\ Entries(t.stack) \subseteq Entries(u.stack)

\* What is marked before is there afterwards, at its level and with its meaning.
LEMMA FollowsFacts ==
  ASSUME NEW t, NEW u, Follows(t, u)
  PROVE  /\ Marked(t) \subseteq Marked(u)
         /\ \A n \in Marked(t) :
              /\ n \in Used(t) /\ n \in Used(u)
              /\ u.node[n].level = t.node[n].level
              /\ Denotes(u, n) = Denotes(t, n)
<1>1. Shape(t) /\ Shape(u) /\ StackUsed(t) /\ StackUsed(u) /\ Keeps(t, u)
      /\ Entries(t.stack) \subseteq Entries(u.stack)
  BY DEF Follows, Live
<1>2. Marked(t) \subseteq Used(t)
  BY <1>1, MarkedFacts
<1>3. Marked(t) \subseteq Marked(u) /\ \A n \in Marked(t) : Denotes(u, n) = Denotes(t, n)
  BY <1>1, KeepsFacts
<1> QED
  BY <1>1, <1>2, <1>3 DEF Keeps, Same

\* One call after another.
LEMMA FollowsTransitive ==
  ASSUME NEW t, NEW u, NEW v, Follows(t, u), Follows(u, v)
  PROVE  Follows(t, v)
<1>1. Marked(t) \subseteq Marked(u)
  BY FollowsFacts
<1>2. Keeps(t, v)
  BY <1>1, KeepsTransitive DEF Follows, Live
<1> QED
  BY <1>2 DEF Follows

\* PUSHREF of a result.
LEMMA PushFacts ==
  ASSUME NEW done, Shape(done.t), done.res \in Nat
  PROVE  LET u == Push(done)
         IN  /\ Shape(u) /\ u.stopped = done.t.stopped /\ u.wild = done.t.wild
             /\ u.stack = Append(done.t.stack, done.res)
             /\ u.node = done.t.node /\ Used(u) = Used(done.t)
             /\ \A n \in Used(u) : Denotes(u, n) = Denotes(done.t, n)
             /\ Live(done.t) /\ done.res \in BddNodes(done.t) =>
                  /\ Follows(done.t, u) /\ done.res \in Marked(u)
<1> DEFINE t == done.t
           u == Push(done)
<1>1. t \in Tables /\ t.stack \in Seq(Nat)
  BY DEF Shape, Tables
<1>2. u = [t EXCEPT !.stack = Append(t.stack, done.res)]
  BY <1>1 DEF Push, Tables
<1> HIDE DEF u, t
<1>3. Append(t.stack, done.res) \in Seq(Nat)
  BY <1>1
<1>4. /\ u \in Tables /\ u.stack = Append(t.stack, done.res) /\ u.node = t.node
      /\ u.size = t.size /\ u.free = t.free /\ u.cache = t.cache
      /\ u.stopped = t.stopped /\ u.wild = t.wild
  BY <1>1, <1>2, <1>3 DEF Tables
<1>5. SameNodes(t, u)
  BY <1>4 DEF SameNodes, Same
<1>6. /\ Shape(u) /\ Used(u) = Used(t) /\ BddNodes(u) = BddNodes(t)
      /\ \A n \in Used(t) : Denotes(u, n) = Denotes(t, n)
      /\ CacheOk(t) => CacheOk(u)
  BY <1>4, <1>5, SameNodesFacts DEF t
<1>7. Entries(u.stack) = Entries(t.stack) \union {done.res}
  <2>1. /\ DOMAIN t.stack = 1 .. Len(t.stack) /\ Len(t.stack) \in Nat
        /\ DOMAIN u.stack = 1 .. Len(t.stack) + 1
        /\ \A i \in 1 .. Len(t.stack) : u.stack[i] = t.stack[i]
        /\ u.stack[Len(t.stack) + 1] = done.res
    BY <1>1, <1>4
  <2>2. \A x \in Entries(u.stack) : x \in Entries(t.stack) \/ x = done.res
    BY <2>1 DEF Entries
  <2>3. \A x \in Entries(t.stack) : x \in Entries(u.stack)
    BY <2>1 DEF Entries
  <2>4. done.res \in Entries(u.stack)
    BY <2>1 DEF Entries
  <2> QED
    BY <2>2, <2>3, <2>4
<1>8. ASSUME Live(t), done.res \in BddNodes(t)
      PROVE  Follows(t, u) /\ done.res \in Marked(u)
  <2>1. StackUsed(u)
    BY <1>6, <1>7, <1>8 DEF StackUsed, Live
  <2>2. Live(u)
    BY <1>4, <1>6, <1>8, <2>1 DEF Live
  <2>3. Keeps(t, u)
    <3>1. Marked(t) \subseteq Used(t)
      BY <1>8, MarkedFacts DEF Live
    <3> QED
      BY <1>4, <1>6, <3>1 DEF Keeps, Same
  <2>4. done.res \in Marked(u)
    BY <1>6, <1>7, <2>1, MarkedFacts
  <2> QED
    BY <1>7, <1>8, <2>2, <2>3, <2>4 DEF Follows
<1> QED
  BY <1>4, <1>6, <1>8 DEF t, u

\* POPREF and the new entry of the cache.
LEMMA RememberFacts ==
  ASSUME NEW done, Shape(done.t), done.res \in Nat, NEW l \in Nat, NEW r \in Nat, NEW op \in Ops,
         Len(done.t.stack) >= 2
  PROVE  LET after == Remember(done, l, r, op)
             u == after.t
         IN  /\ after.res = done.res /\ Shape(u)
             /\ u.stopped = done.t.stopped /\ u.wild = done.t.wild
             /\ u.stack = SubSeq(done.t.stack, 1, Len(done.t.stack) - 2)
             /\ u.node = done.t.node /\ Used(u) = Used(done.t) /\ BddNodes(u) = BddNodes(done.t)
             /\ \A n \in Used(u) : Denotes(u, n) = Denotes(done.t, n)
             /\ CacheOk(done.t)
                /\ {l, r, done.res} \subseteq BddNodes(done.t)
                /\ \/ done.t.node[l].level <= done.t.node[done.res].level
                   \/ done.t.node[r].level <= done.t.node[done.res].level
                /\ Denotes(done.t, done.res) = Meaning(Denotes(done.t, l), Denotes(done.t, r), op)
                => CacheOk(u)
<1> DEFINE t == done.t
           after == Remember(done, l, r, op)
           u == after.t
           e == [l |-> l, r |-> r, op |-> op, res |-> done.res]
           stack == SubSeq(t.stack, 1, Len(t.stack) - 2)
<1>1. t \in Tables /\ t.stack \in Seq(Nat)
  BY DEF Shape, Tables
<1>2. /\ u = [t EXCEPT !.stack = stack, !.cache = t.cache \union {e}]
      /\ after.res = done.res
  <2>1. after = [t |-> [PopRef2(t) EXCEPT !.cache = @ \union {e}], res |-> done.res]
    BY DEF Remember
  <2>2. PopRef2(t) = [t EXCEPT !.stack = stack]
    BY <1>1 DEF PopRef2, Tables
  <2>3. [PopRef2(t) EXCEPT !.cache = @ \union {e}]
          = [t EXCEPT !.stack = stack, !.cache = t.cache \union {e}]
    <3> HIDE DEF t, stack, e
    <3> QED
      BY <1>1, <2>2 DEF Tables
  <2> HIDE DEF after, stack, e, t
  <2> QED
    BY <2>1, <2>3
<1> HIDE DEF after, u, t, stack, e
<1>3. stack \in Seq(Nat)
  <2>1. Len(t.stack) \in Nat
    BY <1>1
  <2> QED
    BY <1>1, <2>1 DEF stack
<1>4. e \in [l : Nat, r : Nat, op : Ops, res : Nat]
  BY DEF e
<1>5. /\ u \in Tables /\ u.stack = stack /\ u.node = t.node
      /\ u.size = t.size /\ u.free = t.free /\ u.cache = t.cache \union {e}
      /\ u.stopped = t.stopped /\ u.wild = t.wild
  BY <1>1, <1>2, <1>3, <1>4 DEF Tables
<1>6. SameNodes(t, u)
  BY <1>5 DEF SameNodes, Same
<1>7. /\ Shape(u) /\ Used(u) = Used(t) /\ BddNodes(u) = BddNodes(t)
      /\ \A n \in Used(t) : Denotes(u, n) = Denotes(t, n)
  BY <1>5, <1>6, SameNodesFacts DEF t
<1>8. ASSUME CacheOk(t), {l, r, done.res} \subseteq BddNodes(t),
             \/ t.node[l].level <= t.node[done.res].level
             \/ t.node[r].level <= t.node[done.res].level,
             Denotes(t, done.res) = Meaning(Denotes(t, l), Denotes(t, r), op)
      PROVE  CacheOk(u)
  <2> SUFFICES ASSUME NEW x \in u.cache
               PROVE  /\ {x.l, x.r, x.res} \subseteq BddNodes(u)
                      /\ \/ u.node[x.l].level <= u.node[x.res].level
                         \/ u.node[x.r].level <= u.node[x.res].level
                      /\ Denotes(u, x.res) = Meaning(Denotes(u, x.l), Denotes(u, x.r), x.op)
    BY DEF CacheOk
  <2>1. /\ {x.l, x.r, x.res} \subseteq BddNodes(t)
        /\ \/ t.node[x.l].level <= t.node[x.res].level
           \/ t.node[x.r].level <= t.node[x.res].level
        /\ Denotes(t, x.res) = Meaning(Denotes(t, x.l), Denotes(t, x.r), x.op)
    <3>1. CASE x \in t.cache
      BY <1>8, <3>1 DEF CacheOk
    <3>2. CASE x = e
      <4>1. x.l = l /\ x.r = r /\ x.op = op /\ x.res = done.res
        BY <3>2 DEF e
      <4> QED
        BY <1>8, <4>1
    <3> QED
      BY <1>5, <3>1, <3>2
  <2>2. \A n \in {x.l, x.r, x.res} : Denotes(u, n) = Denotes(t, n)
    BY <1>7, <2>1 DEF BddNodes
  <2> QED
    BY <1>5, <1>7, <2>1, <2>2
<1> QED
  BY <1>2, <1>5, <1>7, <1>8 DEF t, u, after, stack

-----------------------------------------------------------------------------
(* The cases of bdd_apply.                                                 *)

\* An operation on two branches is done branch by branch.
LEMMA BranchMeaning ==
  ASSUME NEW level \in Levels, NEW a0 \in SUBSET Headers, NEW a1 \in SUBSET Headers,
         NEW b0 \in SUBSET Headers, NEW b1 \in SUBSET Headers, NEW op \in Ops
  PROVE  Meaning(Branch(level, a0, a1), Branch(level, b0, b1), op)
           = Branch(level, Meaning(a0, b0, op), Meaning(a1, b1, op))
<1>1. CASE op = "and"
  BY <1>1 DEF Meaning, Branch
<1>2. CASE op = "or"
  BY <1>2 DEF Meaning, Branch
<1>3. CASE op = "diff"
  BY <1>3 DEF Meaning, Branch
<1> QED
  BY <1>1, <1>2, <1>3 DEF Ops

\* The three operators give sets of headers.
LEMMA MeaningType ==
  ASSUME NEW a \in SUBSET Headers, NEW b \in SUBSET Headers, NEW op \in Ops
  PROVE  Meaning(a, b, op) \in SUBSET Headers
BY DEF Meaning, Ops

\* The son of n for one value of the variable of a level, or n itself.
Half(t, n, level, b) ==
  IF t.node[n].level # level THEN n ELSE IF b = 0 THEN t.node[n].low ELSE t.node[n].high

\* A half is marked with its node and below the level, and the halves are the node.
LEMMA HalfFacts ==
  ASSUME NEW t, Live(t), NEW n \in BddNodes(t), n \in Marked(t), NEW level \in Levels,
         level <= t.node[n].level
  PROVE  /\ \A b \in {0, 1} : LET m == Half(t, n, level, b)
                              IN  /\ m \in BddNodes(t) /\ m \in Marked(t) /\ m \in Nat
                                  /\ level < t.node[m].level
         /\ Denotes(t, n) = Branch(level, Denotes(t, Half(t, n, level, 0)),
                                   Denotes(t, Half(t, n, level, 1)))
<1>0. /\ Shape(t) /\ StackUsed(t) /\ n \in Used(t) /\ n # 2 /\ level \in Nat
      /\ VarNum \in Nat /\ level < VarNum
  BY SizeAssumption DEF Live, BddNodes, Levels
<1>1. n \in Nat /\ t.node[n].level \in 0 .. VarNum
  BY <1>0, UsedFields
<1>2. Denotes(t, n) \in SUBSET Headers
  BY <1>0, DenotesFacts
<1>3. CASE t.node[n].level # level
  <2>1. Half(t, n, level, 0) = n /\ Half(t, n, level, 1) = n
    BY <1>3 DEF Half
  <2>2. level < t.node[n].level
    BY <1>0, <1>1, <1>3
  <2>3. Denotes(t, n) = Branch(level, Denotes(t, n), Denotes(t, n))
    <3>1. \A h \in Headers : Bit(h, level) = 0 \/ Bit(h, level) = 1
      BY BitsAssumption
    <3> QED
      BY <1>2, <3>1 DEF Branch
  <2> QED
    BY <1>1, <2>1, <2>2, <2>3
<1>4. CASE t.node[n].level = level
  <2>1. n >= 3
    <3>1. n \notin {0, 1}
      BY <1>0, <1>4 DEF Shape, Constants
    <3> QED
      BY <1>0, <1>1, <3>1
  <2>2. Inner(t, n)
    BY <1>0, <2>1 DEF Inner
  <2>3. /\ Half(t, n, level, 0) = t.node[n].low /\ Half(t, n, level, 1) = t.node[n].high
    BY <1>4 DEF Half
  <2>4. SonsOf(t, n) = {t.node[n].low, t.node[n].high} /\ SonsOf(t, n) \subseteq Marked(t)
    BY <1>0, <2>1, InnerSons, MarkedFacts
  <2>5. \A son \in {t.node[n].low, t.node[n].high} :
          /\ son \in BddNodes(t) /\ son \in Nat /\ level < t.node[son].level
    BY <1>0, <1>4, <2>2, InnerFacts
  <2>6. Denotes(t, n) = Branch(level, Denotes(t, t.node[n].low), Denotes(t, t.node[n].high))
    BY <1>0, <1>4, <2>1, DenotesFacts
  <2> QED
    BY <2>3, <2>4, <2>5, <2>6
<1> QED
  BY <1>3, <1>4

\* The cases that need no recursion.
LEMMA EasyFacts ==
  ASSUME NEW t, Shape(t), NEW l \in BddNodes(t), NEW r \in BddNodes(t), NEW op \in Ops
  PROVE  /\ \A n \in Easy(l, r, op) :
              /\ n \in BddNodes(t)
              /\ t.node[l].level <= t.node[n].level \/ t.node[r].level <= t.node[n].level
              /\ Denotes(t, n) = Meaning(Denotes(t, l), Denotes(t, r), op)
         /\ Easy(l, r, op) = {} => \/ t.node[l].level < VarNum
                                   \/ t.node[r].level < VarNum
<1>1. /\ l \in Used(t) /\ r \in Used(t) /\ l # 2 /\ r # 2
      /\ {0, 1} \subseteq BddNodes(t)
      /\ t.node[0].level = VarNum /\ t.node[1].level = VarNum
  BY DEF BddNodes, Shape, Constants
<1>2. /\ l \in Nat /\ r \in Nat
      /\ t.node[l].level \in 0 .. VarNum /\ t.node[r].level \in 0 .. VarNum
      /\ VarNum \in Nat
  BY <1>1, UsedFields, SizeAssumption
<1>3. /\ Denotes(t, 0) = {} /\ Denotes(t, 1) = Headers
      /\ Denotes(t, l) \subseteq Headers /\ Denotes(t, r) \subseteq Headers
  BY <1>1, DenotesFacts
<1>4. ASSUME NEW n \in Easy(l, r, op) PROVE n \in {l, r, 0, 1}
  BY <1>4 DEF Easy, Ops
<1>5. ASSUME NEW n \in Easy(l, r, op)
      PROVE  Denotes(t, n) = Meaning(Denotes(t, l), Denotes(t, r), op)
  <2>1. CASE op = "and"
    BY <1>3, <1>5, <2>1 DEF Easy, Meaning
  <2>2. CASE op = "or"
    BY <1>3, <1>5, <2>2 DEF Easy, Meaning
  <2>3. CASE op = "diff"
    BY <1>3, <1>5, <2>3 DEF Easy, Meaning
  <2> QED
    BY <2>1, <2>2, <2>3 DEF Ops
<1>6. ASSUME t.node[l].level >= VarNum, t.node[r].level >= VarNum PROVE Easy(l, r, op) # {}
  <2>1. ~ Inner(t, l) /\ ~ Inner(t, r)
    BY <1>2, <1>6, InnerFacts DEF Levels
  <2>2. l \in {0, 1} /\ r \in {0, 1}
    BY <1>1, <1>2, <2>1 DEF Inner
  <2> QED
    BY <2>2 DEF Easy, Ops
<1>7. \A n \in Easy(l, r, op) :
        t.node[l].level <= t.node[n].level \/ t.node[r].level <= t.node[n].level
  BY <1>1, <1>2, <1>4
<1> QED
  BY <1>1, <1>2, <1>4, <1>5, <1>6, <1>7


-----------------------------------------------------------------------------
(* bdd_apply, level by level.                                              *)

\* One layer of ApplyAt, from the layer below.
Layer(below, k) ==
  [c \in Calls |->
     IF k = 0 THEN [t |-> [c.t EXCEPT !.wild = TRUE], res |-> 0]
     ELSE ApplyRec(below, c.t, c.l, c.r, c.op)]

\* The layers up to k.
Layers(f, k) == f = [i \in 0 .. k |-> Layer(f[i - 1], i)]

\* There is a function with the layers of ApplyAt, one built on the other.
LEMMA LayersExist ==
  ASSUME NEW k \in Nat
  PROVE  \E f : Layers(f, k)
<1> DEFINE Bad == {i \in Nat : ~ \E f : Layers(f, i)}
<1>0. \A x, y : Layer(x, 0) = Layer(y, 0)
  BY DEF Layer
<1>1. ASSUME NEW i \in Nat, NEW f, Layers(f, i)
      PROVE  \E g : Layers(g, i + 1)
  <2> DEFINE g == [j \in 0 .. i + 1 |-> IF j <= i THEN f[j] ELSE Layer(f[i], i + 1)]
  <2>0. f = [j \in 0 .. i |-> Layer(f[j - 1], j)]
    BY <1>1 DEF Layers
  <2>1. ASSUME NEW j \in 0 .. i + 1 PROVE g[j] = Layer(g[j - 1], j)
    <3>1. CASE j = 0
      <4>1. g[0] = f[0] /\ f[0] = Layer(f[0 - 1], 0)
        BY <2>0
      <4>2. Layer(f[0 - 1], 0) = Layer(g[0 - 1], 0)
        BY <1>0
      <4> QED
        BY <3>1, <4>1, <4>2
    <3>2. CASE j \in 1 .. i
      <4>1. g[j - 1] = f[j - 1] /\ g[j] = f[j]
        BY <3>2
      <4>2. f[j] = Layer(f[j - 1], j)
        BY <2>0, <3>2
      <4> QED
        BY <4>1, <4>2
    <3>3. CASE j = i + 1
      <4>1. g[j - 1] = f[i] /\ g[j] = Layer(f[i], i + 1)
        BY <3>3
      <4> QED
        BY <3>3, <4>1
    <3> QED
      BY <3>1, <3>2, <3>3
  <2>2. g = [j \in 0 .. i + 1 |-> Layer(g[j - 1], j)]
    BY <2>1
  <2> QED
    BY <2>2 DEF Layers
<1>2. Bad = {}
  <2> SUFFICES ASSUME Bad # {} PROVE FALSE
    OBVIOUS
  <2>1. PICK i \in Bad : \A j \in Bad : i <= j
    <3>1. Bad \in SUBSET Nat
      OBVIOUS
    <3> HIDE DEF Bad
    <3> QED
      BY <3>1, SmallestPosition
  <2>2. \E f : Layers(f, 0)
    <3> DEFINE f == [j \in 0 .. 0 |-> Layer({}, 0)]
    <3>1. \A j \in 0 .. 0 : Layer(f[j - 1], j) = Layer({}, 0)
      <4>1. \A j \in 0 .. 0 : j = 0
        OBVIOUS
      <4> QED
        BY <1>0, <4>1
    <3>2. f = [j \in 0 .. 0 |-> Layer(f[j - 1], j)]
      BY <3>1
    <3> QED
      BY <3>2 DEF Layers
  <2>3. i \in Nat /\ i # 0
    BY <2>2
  <2>4. i - 1 \in Nat /\ (i - 1) + 1 = i /\ ~ (i <= i - 1)
    BY <2>3
  <2>5. PICK f : Layers(f, i - 1)
    BY <2>1, <2>4
  <2>6. \E g : Layers(g, (i - 1) + 1)
    BY <1>1, <2>4, <2>5
  <2> QED
    BY <2>4, <2>6
<1> QED
  BY <1>2

\* The layers of ApplyAt.
LEMMA ApplyAtIs == Layers(ApplyAt, VarNum + 1)
<1>1. VarNum + 1 \in Nat
  BY SizeAssumption
<1>2. \E f : Layers(f, VarNum + 1)
  BY <1>1, LayersExist
<1>3. ApplyAt = CHOOSE f : Layers(f, VarNum + 1)
  BY Zenon DEF ApplyAt, Layers, Layer
<1> QED
  BY <1>2, <1>3

\* A call of a layer.
Call(k, t, l, r, op) == ApplyAt[k][[t |-> t, l |-> l, r |-> r, op |-> op]]

\* A call with k + 1 levels left is apply_rec on calls with k.
LEMMA CallIs ==
  ASSUME NEW k \in 0 .. VarNum, NEW t \in Tables, NEW l \in Nat, NEW r \in Nat, NEW op \in Ops
  PROVE  Call(k + 1, t, l, r, op) = ApplyRec(ApplyAt[k], t, l, r, op)
<1> DEFINE c == [t |-> t, l |-> l, r |-> r, op |-> op]
           Rec(below, d) == ApplyRec(below, d.t, d.l, d.r, d.op)
<1>1. k + 1 \in 0 .. VarNum + 1 /\ k + 1 # 0 /\ (k + 1) - 1 = k
  BY SizeAssumption
<1>2. ApplyAt = [i \in 0 .. VarNum + 1 |-> Layer(ApplyAt[i - 1], i)]
  BY ApplyAtIs DEF Layers
<1>3. ApplyAt[k + 1] = Layer(ApplyAt[k], k + 1)
  BY <1>1, <1>2
<1>4. c \in Calls
  BY DEF Calls
<1>5. Layer(ApplyAt[k], k + 1)[c] = Rec(ApplyAt[k], c)
  <2> HIDE DEF c, Rec
  <2>1. Layer(ApplyAt[k], k + 1)
          = [d \in Calls |-> IF k + 1 = 0 THEN [t |-> [d.t EXCEPT !.wild = TRUE], res |-> 0]
                             ELSE Rec(ApplyAt[k], d)]
    BY Zenon DEF Layer, Rec
  <2> QED
    BY <1>1, <1>4, <2>1
<1>6. Rec(ApplyAt[k], c) = ApplyRec(ApplyAt[k], t, l, r, op)
  BY Zenon DEF c, Rec
<1> QED
  BY <1>3, <1>5, <1>6 DEF Call

\* The program ends in the middle of the recursion.
LEMMA StoppedCall ==
  ASSUME NEW k \in 0 .. VarNum, NEW t \in Tables, NEW l \in Nat, NEW r \in Nat, NEW op \in Ops,
         t.stopped
  PROVE  Call(k + 1, t, l, r, op) = [t |-> t, res |-> 0]
<1>1. Call(k + 1, t, l, r, op) = ApplyRec(ApplyAt[k], t, l, r, op)
  BY CallIs
<1> QED
  BY <1>1, Zenon DEF ApplyRec

\* What the recursion owes its caller.
Right(t, l, r, op, done) ==
  /\ Shape(done.t) /\ ~ done.t.wild /\ done.res \in Nat
  /\ \/ done.t.stopped
     \/ /\ Live(done.t) /\ Keeps(t, done.t) /\ done.t.stack = t.stack
        /\ done.res \in BddNodes(done.t)
        /\ \/ t.node[l].level <= done.t.node[done.res].level
           \/ t.node[r].level <= done.t.node[done.res].level
        /\ Denotes(done.t, done.res) = Meaning(Denotes(t, l), Denotes(t, r), op)

\* Operands that are protected.
Ready(t, l, r) ==
  /\ Live(t)
  /\ {l, r} \subseteq BddNodes(t) /\ {l, r} \subseteq Marked(t)

\* Layer k does what it owes for the nodes of the lowest k - 1 levels and the
\* constants.
LayerRight(k) ==
  \A t, l, r : \A op \in Ops :
    /\ Ready(t, l, r)
    /\ t.node[l].level >= VarNum + 1 - k /\ t.node[r].level >= VarNum + 1 - k
    => Right(t, l, r, op, Call(k, t, l, r, op))


\* The level of a call, and the table with one result and with both on the stack.
Top(t, l, r) ==
  IF t.node[l].level <= t.node[r].level THEN t.node[l].level ELSE t.node[r].level

OneDone(k, t, l, r, op) ==
  Push(Call(k, t, Half(t, l, Top(t, l, r), 0), Half(t, r, Top(t, l, r), 0), op))

BothDone(k, t, l, r, op) ==
  Push(Call(k, OneDone(k, t, l, r, op), Half(t, l, Top(t, l, r), 1),
            Half(t, r, Top(t, l, r), 1), op))

\* What a call does, when its operands are there.
CallOut(k, t, l, r, op) ==
  /\ Easy(l, r, op) # {} =>
       \E n \in Easy(l, r, op) : Call(k + 1, t, l, r, op) = [t |-> t, res |-> n]
  /\ Easy(l, r, op) = {} /\ Cached(t, l, r, op) # {} =>
       \E e \in Cached(t, l, r, op) : Call(k + 1, t, l, r, op) = [t |-> t, res |-> e.res]
  /\ Easy(l, r, op) = {} /\ Cached(t, l, r, op) = {} =>
       Call(k + 1, t, l, r, op) = Combine(BothDone(k, t, l, r, op), Top(t, l, r), l, r, op)

\* ... and it does so.
LEMMA CallCases ==
  ASSUME NEW k \in 0 .. VarNum, NEW t \in Tables, NEW l \in Nat, NEW r \in Nat, NEW op \in Ops,
         ~ t.stopped, ~ t.wild, {l, r} \subseteq Used(t)
  PROVE  CallOut(k, t, l, r, op)
<1>1. Call(k + 1, t, l, r, op) = ApplyRec(ApplyAt[k], t, l, r, op)
  BY CallIs
<1>2. Call(k + 1, t, l, r, op)
        = IF Easy(l, r, op) # {}
            THEN [t |-> t, res |-> CHOOSE n \in Easy(l, r, op) : TRUE]
          ELSE IF Cached(t, l, r, op) # {}
            THEN [t |-> t, res |-> (CHOOSE e \in Cached(t, l, r, op) : TRUE).res]
          ELSE Combine(BothDone(k, t, l, r, op), Top(t, l, r), l, r, op)
  BY <1>1, Zenon DEF ApplyRec, Half, Call, Top, OneDone, BothDone
<1>3. CASE Easy(l, r, op) # {}
  <2> DEFINE n == CHOOSE n \in Easy(l, r, op) : TRUE
  <2>1. n \in Easy(l, r, op)
    BY <1>3
  <2>2. Call(k + 1, t, l, r, op) = [t |-> t, res |-> n]
    BY <1>2, <1>3
  <2> HIDE DEF n
  <2> QED
    BY <1>3, <2>1, <2>2 DEF CallOut
<1>4. CASE Easy(l, r, op) = {} /\ Cached(t, l, r, op) # {}
  <2> DEFINE e == CHOOSE e \in Cached(t, l, r, op) : TRUE
  <2>1. e \in Cached(t, l, r, op)
    BY <1>4
  <2>2. Call(k + 1, t, l, r, op) = [t |-> t, res |-> e.res]
    BY <1>2, <1>4
  <2> HIDE DEF e
  <2> QED
    BY <1>4, <2>1, <2>2 DEF CallOut
<1>5. CASE Easy(l, r, op) = {} /\ Cached(t, l, r, op) = {}
  BY <1>2, <1>5 DEF CallOut
<1> QED
  BY <1>3, <1>4, <1>5

\* The end of a call: both results are on the stack.
LEMMA CombineFacts ==
  ASSUME NEW t, NEW both, NEW l, NEW r, NEW op \in Ops, NEW level \in Levels,
         NEW res0, NEW res1,
         Ready(t, l, r), Follows(t, both), t.stack \in Seq(Nat),
         both.stack = Append(Append(t.stack, res0), res1),
         {res0, res1} \subseteq BddNodes(both), {res0, res1} \subseteq Marked(both),
         level < both.node[res0].level, level < both.node[res1].level,
         level = t.node[l].level \/ level = t.node[r].level,
         Branch(level, Denotes(both, res0), Denotes(both, res1))
           = Meaning(Denotes(t, l), Denotes(t, r), op)
  PROVE  Right(t, l, r, op, Combine(both, level, l, r, op))
<1> DEFINE made == MakeNode(both, level, res0, res1)
           done == Remember(made, l, r, op)
           m == made.t
           u == done.t
<1>0. /\ Live(t) /\ Live(both) /\ Shape(t) /\ Shape(both) /\ StackUsed(t)
      /\ ~ both.stopped /\ ~ both.wild
      /\ l \in BddNodes(t) /\ r \in BddNodes(t) /\ l \in Marked(t) /\ r \in Marked(t)
      /\ l \in Used(t) /\ r \in Used(t) /\ l # 2 /\ r # 2
  BY DEF Ready, Follows, Live, BddNodes
<1>1. res0 \in Used(both) /\ res1 \in Used(both) /\ l \in Nat /\ r \in Nat
      /\ res0 \in Nat /\ res1 \in Nat
  BY <1>0, UsedFields DEF BddNodes
<1>2. /\ Len(t.stack) \in Nat
      /\ both.stack \in Seq(Nat) /\ Len(both.stack) = Len(t.stack) + 2
      /\ both.stack[Len(t.stack) + 1] = res0 /\ both.stack[Len(t.stack) + 2] = res1
      /\ SubSeq(both.stack, 1, Len(both.stack) - 2) = t.stack
  <2>1. /\ Len(t.stack) \in Nat /\ Append(t.stack, res0) \in Seq(Nat)
        /\ Len(Append(t.stack, res0)) = Len(t.stack) + 1
    BY <1>1
  <2>2. /\ both.stack \in Seq(Nat) /\ Len(both.stack) = Len(t.stack) + 2
        /\ both.stack[Len(t.stack) + 1] = res0 /\ both.stack[Len(t.stack) + 2] = res1
    BY <1>1, <2>1
  <2>3. SubSeq(both.stack, 1, Len(both.stack) - 2) = t.stack
    <3> DEFINE s == SubSeq(both.stack, 1, Len(t.stack))
    <3>1. s \in Seq(Nat) /\ Len(s) = Len(t.stack)
          /\ \A i \in 1 .. Len(t.stack) : s[i] = both.stack[i]
      BY <2>1, <2>2
    <3>2. \A i \in 1 .. Len(t.stack) : both.stack[i] = t.stack[i]
      BY <2>1
    <3>3. s = t.stack
      <4> HIDE DEF s
      <4> QED
        BY <2>1, <3>1, <3>2, SeqEqual
    <3>4. Len(both.stack) - 2 = Len(t.stack)
      BY <2>1, <2>2
    <3> QED
      BY <3>3, <3>4
  <2> QED
    BY <2>1, <2>2, <2>3
<1>3. ReadRef(both, 2) = res0 /\ ReadRef(both, 1) = res1
  BY <1>2 DEF ReadRef
<1>4. Combine(both, level, l, r, op) = done
  BY <1>0, <1>3 DEF Combine
<1>5. /\ Shape(m) /\ ~ m.wild /\ made.res \in Nat /\ m.stack = both.stack
      /\ \/ m.stopped
         \/ /\ Live(m) /\ Keeps(both, m)
            /\ made.res \in BddNodes(m) /\ level <= m.node[made.res].level
            /\ Denotes(m, made.res) = Branch(level, Denotes(both, res0), Denotes(both, res1))
  <2> HIDE DEF made
  <2> QED
    BY <1>0, MakeNodeFacts DEF made
<1>6. Len(m.stack) >= 2 /\ SubSeq(m.stack, 1, Len(m.stack) - 2) = t.stack
  <2>1. m.stack = both.stack
    BY <1>5
  <2> HIDE DEF m
  <2> QED
    BY <1>2, <2>1
<1>7. /\ done.res = made.res /\ Shape(u)
      /\ u.stopped = m.stopped /\ u.wild = m.wild
      /\ u.stack = SubSeq(m.stack, 1, Len(m.stack) - 2)
      /\ u.node = m.node /\ Used(u) = Used(m) /\ BddNodes(u) = BddNodes(m)
      /\ \A n \in Used(u) : Denotes(u, n) = Denotes(m, n)
      /\ CacheOk(m)
         /\ {l, r, made.res} \subseteq BddNodes(m)
         /\ \/ m.node[l].level <= m.node[made.res].level
            \/ m.node[r].level <= m.node[made.res].level
         /\ Denotes(m, made.res) = Meaning(Denotes(m, l), Denotes(m, r), op)
         => CacheOk(u)
  <2> HIDE DEF made
  <2> QED
    BY <1>1, <1>5, <1>6, RememberFacts
<1> HIDE DEF made, done, m, u
<1>8. CASE m.stopped
  <2>1. Right(t, l, r, op, done)
    BY <1>5, <1>7, <1>8 DEF Right, u
  <2> QED
    BY <1>4, <2>1
<1>9. CASE ~ m.stopped
  <2>1. /\ Live(m) /\ Keeps(both, m) /\ m.stack = both.stack
        /\ made.res \in BddNodes(m) /\ level <= m.node[made.res].level
        /\ Denotes(m, made.res) = Meaning(Denotes(t, l), Denotes(t, r), op)
    BY <1>5, <1>9
  <2>2. Follows(both, m)
    BY <1>0, <2>1 DEF Follows
  <2>3. Follows(t, m)
    BY <2>2, FollowsTransitive
  <2>4. \A n \in Marked(t) :
          /\ n \in Used(m) /\ m.node[n].level = t.node[n].level
          /\ Denotes(m, n) = Denotes(t, n)
    BY <2>3, FollowsFacts
  <2>5. {l, r, made.res} \subseteq BddNodes(m)
    BY <1>0, <2>1, <2>4 DEF BddNodes
  <2>6. \/ m.node[l].level <= m.node[made.res].level
        \/ m.node[r].level <= m.node[made.res].level
    BY <1>0, <2>1, <2>4
  <2>7. CacheOk(u)
    BY <1>0, <1>7, <2>1, <2>4, <2>5, <2>6 DEF Live
  <2>8. u.stack = t.stack
    BY <1>6, <1>7
  <2>9. Keeps(t, u)
    <3>1. Keeps(t, m)
      BY <2>3 DEF Follows
    <3> QED
      BY <1>7, <3>1 DEF Keeps, Same
  <2>10. StackUsed(u)
    <3>1. Entries(t.stack) \subseteq Marked(t)
      BY <1>0, MarkedFacts
    <3>2. Entries(t.stack) \subseteq BddNodes(t)
      BY <1>0 DEF StackUsed
    <3> QED
      BY <1>7, <2>4, <2>8, <3>1, <3>2 DEF StackUsed, BddNodes
  <2>11. Live(u)
    BY <1>5, <1>7, <1>9, <2>7, <2>10 DEF Live
  <2>12. /\ \/ t.node[l].level <= u.node[done.res].level
            \/ t.node[r].level <= u.node[done.res].level
         /\ Denotes(u, done.res) = Meaning(Denotes(t, l), Denotes(t, r), op)
         /\ done.res \in BddNodes(u) /\ done.res \in Nat
    <3>1. done.res \in Used(u)
      BY <1>7, <2>1 DEF BddNodes
    <3> QED
      BY <1>0, <1>5, <1>7, <2>1, <2>4, <2>6, <3>1
  <2>13. Right(t, l, r, op, done)
    BY <1>5, <1>7, <2>8, <2>9, <2>11, <2>12 DEF Right, u
  <2> QED
    BY <1>4, <2>13
<1> QED
  BY <1>8, <1>9


\* An answer that is at hand.
LEMMA AtHand ==
  ASSUME NEW t, NEW l, NEW r, NEW op \in Ops, Live(t), NEW n \in BddNodes(t),
         \/ t.node[l].level <= t.node[n].level
         \/ t.node[r].level <= t.node[n].level,
         Denotes(t, n) = Meaning(Denotes(t, l), Denotes(t, r), op)
  PROVE  Right(t, l, r, op, [t |-> t, res |-> n])
<1>1. Keeps(t, t)
  BY KeepsItself
<1>2. Shape(t) /\ ~ t.wild
  BY DEF Live
<1>3. n \in Nat
  BY <1>2, UsedFields DEF BddNodes
<1> QED
  BY <1>1, <1>2, <1>3 DEF Right

\* From one layer to the next.
LEMMA NextLayer ==
  ASSUME NEW k \in 0 .. VarNum, LayerRight(k)
  PROVE  LayerRight(k + 1)
<1> SUFFICES ASSUME NEW t, NEW l, NEW r, NEW op \in Ops, Ready(t, l, r),
                    t.node[l].level >= VarNum + 1 - (k + 1),
                    t.node[r].level >= VarNum + 1 - (k + 1)
             PROVE  Right(t, l, r, op, Call(k + 1, t, l, r, op))
  BY DEF LayerRight
<1> DEFINE level == Top(t, l, r)
           l0 == Half(t, l, level, 0)
           r0 == Half(t, r, level, 0)
           l1 == Half(t, l, level, 1)
           r1 == Half(t, r, level, 1)
           first == Call(k, t, l0, r0, op)
           low == Push(first)
           second == Call(k, low, l1, r1, op)
           both == Push(second)
           call == Call(k + 1, t, l, r, op)
<1>0. /\ Live(t) /\ Shape(t) /\ StackUsed(t) /\ t \in Tables /\ ~ t.stopped /\ ~ t.wild
      /\ l \in BddNodes(t) /\ r \in BddNodes(t) /\ l \in Marked(t) /\ r \in Marked(t)
      /\ l \in Used(t) /\ r \in Used(t) /\ CacheOk(t)
  BY DEF Ready, Live, Shape, BddNodes
<1>1. /\ l \in Nat /\ r \in Nat /\ VarNum \in Nat
      /\ t.node[l].level \in 0 .. VarNum /\ t.node[r].level \in 0 .. VarNum
  BY <1>0, UsedFields, SizeAssumption
<1>2. /\ Easy(l, r, op) # {} => \E n \in Easy(l, r, op) : call = [t |-> t, res |-> n]
      /\ Easy(l, r, op) = {} /\ Cached(t, l, r, op) # {} =>
           \E e \in Cached(t, l, r, op) : call = [t |-> t, res |-> e.res]
      /\ Easy(l, r, op) = {} /\ Cached(t, l, r, op) = {} =>
           call = Combine(both, level, l, r, op)
  <2>1. k \in 0 .. VarNum /\ {l, r} \subseteq Used(t)
    BY <1>0
  <2>2. t \in Tables /\ l \in Nat /\ r \in Nat /\ ~ t.stopped /\ ~ t.wild
    BY <1>0, <1>1
  <2>3. both = BothDone(k, t, l, r, op)
    BY DEF OneDone, BothDone
  <2> HIDE DEF both
  <2> QED
    BY <2>1, <2>2, <2>3, CallCases DEF CallOut
<1> HIDE DEF call
<1>3. CASE Easy(l, r, op) # {}
  <2>1. PICK n \in Easy(l, r, op) : call = [t |-> t, res |-> n]
    BY <1>2, <1>3
  <2>3. /\ n \in BddNodes(t)
        /\ t.node[l].level <= t.node[n].level \/ t.node[r].level <= t.node[n].level
        /\ Denotes(t, n) = Meaning(Denotes(t, l), Denotes(t, r), op)
    BY <1>0, <2>1, EasyFacts
  <2>4. Right(t, l, r, op, call)
    BY <1>0, <2>1, <2>3, AtHand
  <2> QED
    BY <2>4 DEF call
<1>4. CASE Easy(l, r, op) = {} /\ Cached(t, l, r, op) # {}
  <2>1. PICK e \in Cached(t, l, r, op) : call = [t |-> t, res |-> e.res]
    BY <1>2, <1>4
  <2>3. e \in t.cache /\ e.l = l /\ e.r = r /\ e.op = op
    BY <2>1 DEF Cached
  <2>4. /\ e.res \in BddNodes(t)
        /\ t.node[l].level <= t.node[e.res].level \/ t.node[r].level <= t.node[e.res].level
        /\ Denotes(t, e.res) = Meaning(Denotes(t, l), Denotes(t, r), op)
    BY <1>0, <2>3 DEF CacheOk
  <2>5. Right(t, l, r, op, call)
    BY <1>0, <2>1, <2>4, AtHand
  <2> QED
    BY <2>5 DEF call
<1>5. CASE Easy(l, r, op) = {} /\ Cached(t, l, r, op) = {}
  <2>1. call = Combine(both, level, l, r, op)
    BY <1>2, <1>5
  <2>2. t.node[l].level < VarNum \/ t.node[r].level < VarNum
    BY <1>0, <1>5, EasyFacts
  <2>3. /\ level \in Levels /\ level <= t.node[l].level /\ level <= t.node[r].level
        /\ level = t.node[l].level \/ level = t.node[r].level
        /\ level >= VarNum + 1 - (k + 1)
    BY <1>1, <2>2 DEF Levels, Top
  <2>4. k \in 1 .. VarNum /\ k - 1 \in 0 .. VarNum /\ (k - 1) + 1 = k
    BY <1>1, <2>3 DEF Levels
  <2> HIDE DEF level
  <2>5. /\ l0 \in BddNodes(t) /\ l0 \in Marked(t) /\ l0 \in Nat /\ level < t.node[l0].level
        /\ l1 \in BddNodes(t) /\ l1 \in Marked(t) /\ l1 \in Nat /\ level < t.node[l1].level
        /\ Denotes(t, l) = Branch(level, Denotes(t, l0), Denotes(t, l1))
    BY <1>0, <2>3, HalfFacts
  <2>6. /\ r0 \in BddNodes(t) /\ r0 \in Marked(t) /\ r0 \in Nat /\ level < t.node[r0].level
        /\ r1 \in BddNodes(t) /\ r1 \in Marked(t) /\ r1 \in Nat /\ level < t.node[r1].level
        /\ Denotes(t, r) = Branch(level, Denotes(t, r0), Denotes(t, r1))
    BY <1>0, <2>3, HalfFacts
  <2> HIDE DEF l0, l1, r0, r1
  <2>7. \A n \in BddNodes(t) : t.node[n].level \in 0 .. VarNum /\ n \in Used(t) /\ n # 2
    BY <1>0, UsedFields DEF BddNodes
  <2>8. \A n \in {l0, l1, r0, r1} : t.node[n].level >= VarNum + 1 - k
    BY <1>1, <2>3, <2>5, <2>6, <2>7 DEF Levels
  <2>9. Right(t, l0, r0, op, first)
    <3>1. Ready(t, l0, r0)
      BY <1>0, <2>5, <2>6 DEF Ready
    <3> QED
      BY <2>8, <3>1 DEF LayerRight
  <2> HIDE DEF first
  <2>10. /\ Shape(first.t) /\ ~ first.t.wild /\ first.res \in Nat
    BY <2>9 DEF Right
  <2>11. /\ Shape(low) /\ low.stopped = first.t.stopped /\ low.wild = first.t.wild
         /\ low.stack = Append(first.t.stack, first.res)
         /\ low.node = first.t.node /\ Used(low) = Used(first.t)
         /\ \A n \in Used(low) : Denotes(low, n) = Denotes(first.t, n)
         /\ Live(first.t) /\ first.res \in BddNodes(first.t) =>
              Follows(first.t, low) /\ first.res \in Marked(low)
    BY <2>10, PushFacts
  <2>12. low \in Tables /\ ~ low.wild
    BY <2>10, <2>11 DEF Shape
  <2> HIDE DEF low
  <2>13. CASE first.t.stopped
    <3>1. second = [t |-> low, res |-> 0]
      <4>1. Call((k - 1) + 1, low, l1, r1, op) = [t |-> low, res |-> 0]
        <5>1. low.stopped
          BY <2>11, <2>13
        <5> QED
          BY <2>4, <2>5, <2>6, <2>12, <5>1, StoppedCall
      <4> QED
        BY <2>4, <4>1
    <3>2. second.t = low /\ second.res = 0
      BY <3>1
    <3> HIDE DEF second
    <3>3. /\ Shape(both) /\ both.stopped = low.stopped /\ both.wild = low.wild
      BY <2>11, <3>2, PushFacts
    <3> HIDE DEF both
    <3>4. call = [t |-> both, res |-> 0]
      BY <2>1, <2>11, <2>13, <3>3 DEF Combine
    <3>5. Right(t, l, r, op, call)
      BY <2>11, <2>12, <2>13, <3>3, <3>4 DEF Right
    <3> QED
      BY <3>5 DEF call
  <2>14. CASE ~ first.t.stopped
    <3>1. /\ Live(first.t) /\ Keeps(t, first.t) /\ first.t.stack = t.stack
          /\ first.res \in BddNodes(first.t)
          /\ \/ t.node[l0].level <= first.t.node[first.res].level
             \/ t.node[r0].level <= first.t.node[first.res].level
          /\ Denotes(first.t, first.res) = Meaning(Denotes(t, l0), Denotes(t, r0), op)
      BY <2>9, <2>14 DEF Right
    <3>2. Follows(t, first.t) /\ Follows(first.t, low) /\ first.res \in Marked(low)
      BY <1>0, <2>11, <3>1 DEF Follows
    <3>3. Follows(t, low) /\ Live(low)
      BY <3>2, FollowsTransitive DEF Follows
    <3>4. /\ Marked(t) \subseteq Marked(low)
          /\ \A n \in Marked(t) : /\ n \in Used(low) /\ low.node[n].level = t.node[n].level
                                  /\ Denotes(low, n) = Denotes(t, n)
      BY <3>3, FollowsFacts
    <3>5. Ready(low, l1, r1)
      BY <2>5, <2>6, <2>7, <3>3, <3>4 DEF Ready, BddNodes
    <3>6. low.node[l1].level >= VarNum + 1 - k /\ low.node[r1].level >= VarNum + 1 - k
      BY <2>5, <2>6, <2>8, <3>4
    <3>7. Right(low, l1, r1, op, second)
      BY <3>5, <3>6 DEF LayerRight
    <3> HIDE DEF second
    <3>8. Shape(second.t) /\ ~ second.t.wild /\ second.res \in Nat
      BY <3>7 DEF Right
    <3>9. /\ Shape(both) /\ both.stopped = second.t.stopped /\ both.wild = second.t.wild
          /\ both.stack = Append(second.t.stack, second.res)
          /\ both.node = second.t.node /\ Used(both) = Used(second.t)
          /\ \A n \in Used(both) : Denotes(both, n) = Denotes(second.t, n)
          /\ Live(second.t) /\ second.res \in BddNodes(second.t) =>
               Follows(second.t, both) /\ second.res \in Marked(both)
      BY <3>8, PushFacts
    <3> HIDE DEF both
    <3>10. CASE second.t.stopped
      <4>1. call = [t |-> both, res |-> 0]
        BY <2>1, <3>9, <3>10 DEF Combine
      <4>2. Right(t, l, r, op, call)
        BY <3>8, <3>9, <3>10, <4>1 DEF Right
      <4> QED
        BY <4>2 DEF call
    <3>11. CASE ~ second.t.stopped
      <4>1. /\ Live(second.t) /\ Keeps(low, second.t) /\ second.t.stack = low.stack
            /\ second.res \in BddNodes(second.t)
            /\ \/ low.node[l1].level <= second.t.node[second.res].level
               \/ low.node[r1].level <= second.t.node[second.res].level
            /\ Denotes(second.t, second.res) = Meaning(Denotes(low, l1), Denotes(low, r1), op)
        BY <3>7, <3>11 DEF Right
      <4>2. /\ Follows(low, second.t) /\ Follows(second.t, both)
            /\ second.res \in Marked(both)
        BY <3>3, <3>9, <4>1 DEF Follows
      <4>3. Follows(low, both)
        BY <4>2, FollowsTransitive
      <4>4. Follows(t, both)
        BY <3>3, <4>3, FollowsTransitive
      <4>5. /\ first.res \in Marked(both) /\ first.res \in Used(both)
            /\ both.node[first.res].level = first.t.node[first.res].level
            /\ Denotes(both, first.res) = Denotes(first.t, first.res)
        <5>1. /\ first.res \in Used(low) /\ first.res \in Marked(both) /\ first.res \in Used(both)
              /\ both.node[first.res].level = low.node[first.res].level
              /\ Denotes(both, first.res) = Denotes(low, first.res)
          BY <3>2, <4>3, FollowsFacts
        <5> QED
          BY <2>11, <5>1
      <4>6. /\ second.res \in Marked(both) /\ second.res \in Used(both)
            /\ both.node[second.res].level = second.t.node[second.res].level
            /\ Denotes(both, second.res) = Denotes(second.t, second.res)
        BY <3>9, <4>1, <4>2 DEF BddNodes
      <4>7. level < both.node[first.res].level /\ level < both.node[second.res].level
        <5>1. /\ t.node[l0].level \in Nat /\ t.node[r0].level \in Nat
              /\ t.node[l1].level \in Nat /\ t.node[r1].level \in Nat /\ level \in Nat
          BY <1>1, <2>3, <2>5, <2>6, <2>7 DEF Levels
        <5>2. /\ low.node[l1].level = t.node[l1].level /\ low.node[r1].level = t.node[r1].level
          BY <2>5, <2>6, <3>4
        <5>3. both.node[first.res].level \in Nat /\ both.node[second.res].level \in Nat
          BY <3>9, <4>5, <4>6, UsedFields
        <5> QED
          BY <2>5, <2>6, <3>1, <4>1, <4>5, <4>6, <5>1, <5>2, <5>3
      <4>8. {first.res, second.res} \subseteq BddNodes(both)
        BY <3>1, <4>1, <4>5, <4>6 DEF BddNodes
      <4>9. Branch(level, Denotes(both, first.res), Denotes(both, second.res))
              = Meaning(Denotes(t, l), Denotes(t, r), op)
        <5>1. Denotes(both, first.res) = Meaning(Denotes(t, l0), Denotes(t, r0), op)
          BY <3>1, <4>5
        <5>2. Denotes(both, second.res) = Meaning(Denotes(t, l1), Denotes(t, r1), op)
          BY <2>5, <2>6, <3>4, <4>1, <4>6
        <5>3. /\ Denotes(t, l0) \in SUBSET Headers /\ Denotes(t, l1) \in SUBSET Headers
              /\ Denotes(t, r0) \in SUBSET Headers /\ Denotes(t, r1) \in SUBSET Headers
          BY <1>0, <2>5, <2>6, <2>7, DenotesFacts
        <5> QED
          BY <2>3, <2>5, <2>6, <5>1, <5>2, <5>3, BranchMeaning
      <4>10. both.stack = Append(Append(t.stack, first.res), second.res)
        BY <2>11, <3>1, <3>9, <4>1
      <4>11. t.stack \in Seq(Nat)
        BY <1>0, TableFields
      <4>12. Right(t, l, r, op, Combine(both, level, l, r, op))
        BY <2>3, <4>4, <4>5, <4>6, <4>7, <4>8, <4>9, <4>10, <4>11, CombineFacts
      <4> QED
        BY <2>1, <4>12 DEF call
    <3> QED
      BY <3>10, <3>11
  <2> QED
    BY <2>13, <2>14
<1> QED
  BY <1>3, <1>4, <1>5


\* apply_rec is right at every depth.
LEMMA AllLayersRight == LayerRight(VarNum + 1)
<1> DEFINE S == {k \in 0 .. VarNum + 1 : LayerRight(k)}
<1>1. VarNum \in Nat
  BY SizeAssumption
<1>2. LayerRight(0)
  <2> SUFFICES ASSUME NEW t, NEW l, NEW r, NEW op \in Ops, Ready(t, l, r),
                      t.node[l].level >= VarNum + 1 - 0
               PROVE  FALSE
    BY DEF LayerRight
  <2>1. Shape(t) /\ l \in Used(t)
    BY DEF Ready, Live, BddNodes
  <2>2. t.node[l].level \in 0 .. VarNum
    BY <2>1, UsedFields
  <2> QED
    BY <1>1, <2>2
<1>3. \A k \in 0 .. VarNum : k \in S => k + 1 \in S
  BY <1>1, NextLayer
<1>4. VarNum + 1 \in Nat /\ 0 \in S /\ \A k \in 0 .. (VarNum + 1) - 1 : k \in S => k + 1 \in S
  BY <1>1, <1>2, <1>3
<1>5. \A k \in 0 .. VarNum + 1 : k \in S
  <2> HIDE DEF S
  <2> QED
    BY <1>4, UpTo
<1> QED
  BY <1>1, <1>5

\* What u has kept of the nodes of t that have a reference.
HoldsRefs(t, u) ==
  /\ \A n \in DOMAIN t.node : u.node[n].refcou = t.node[n].refcou
  /\ \A n \in Used(t) : t.node[n].refcou > 0 =>
       n \in Used(u) /\ Same(t, n, u, n) /\ Denotes(u, n) = Denotes(t, n)

\* bdd_apply computes the operation, and keeps whatever has a reference.
LEMMA ApplyFacts ==
  ASSUME NEW t, Live(t), NEW l \in BddNodes(t), NEW r \in BddNodes(t), NEW op \in Ops,
         t.node[l].refcou > 0, t.node[r].refcou > 0
  PROVE  LET done == Apply(t, l, r, op)
             u == done.t
         IN  /\ Shape(u) /\ ~ u.wild /\ done.res \in Nat
             /\ \/ u.stopped
                \/ /\ Live(u) /\ HoldsRefs(t, u) /\ done.res \in BddNodes(u)
                   /\ Denotes(u, done.res) = Meaning(Denotes(t, l), Denotes(t, r), op)
<1> DEFINE w == [t EXCEPT !.stack = <<>>]
           done == Apply(t, l, r, op)
           u == done.t
<1>0. /\ Shape(t) /\ t \in Tables /\ CacheOk(t) /\ ~ t.stopped /\ ~ t.wild
      /\ l \in Used(t) /\ r \in Used(t)
  BY DEF Live, Shape, BddNodes
<1>1. done = Call(VarNum + 1, w, l, r, op)
  BY <1>0 DEF Apply, Call
<1>2. /\ w \in Tables /\ w.node = t.node /\ w.size = t.size /\ w.free = t.free
      /\ w.cache = t.cache /\ w.stopped = t.stopped /\ w.wild = t.wild /\ w.stack = <<>>
  <2>1. <<>> \in Seq(Nat)
    OBVIOUS
  <2> DEFINE none == <<>>
  <2> HIDE DEF none
  <2>2. none \in Seq(Nat)
    BY <2>1 DEF none
  <2>3. w = [t EXCEPT !.stack = none]
    BY DEF none
  <2> HIDE DEF w
  <2>4. w \in Tables
    BY <1>0, <2>2, <2>3 DEF Tables
  <2>5. /\ w.node = t.node /\ w.size = t.size /\ w.free = t.free
        /\ w.cache = t.cache /\ w.stopped = t.stopped /\ w.wild = t.wild /\ w.stack = none
    BY <1>0, <2>3 DEF Tables
  <2> QED
    BY <2>4, <2>5 DEF none
<1> HIDE DEF w, done, u
<1>3. SameNodes(t, w)
  BY <1>2 DEF SameNodes, Same
<1>4. /\ Shape(w) /\ Used(w) = Used(t) /\ BddNodes(w) = BddNodes(t) /\ CacheOk(w)
      /\ \A n \in Used(t) : Denotes(w, n) = Denotes(t, n)
  BY <1>0, <1>2, <1>3, SameNodesFacts
<1>5. Live(w) /\ StackUsed(w)
  <2>1. Entries(w.stack) = {}
    BY <1>2 DEF Entries
  <2> QED
    BY <1>0, <1>2, <1>4, <2>1 DEF Live, StackUsed
<1>6. \A n \in Used(t) : n \in Nat /\ n \in Slots(w) /\ n \in DOMAIN t.node
                        /\ t.node[n].level \in 0 .. VarNum
  BY <1>0, <1>4, UsedFields
<1>7. Referenced(w) \subseteq Marked(w) /\ Marked(w) \subseteq Used(w)
  BY <1>4, <1>5, MarkedFacts
<1>8. \A n \in Used(t) : t.node[n].refcou > 0 => n \in Marked(w)
  BY <1>2, <1>6, <1>7 DEF Referenced
<1>9. Ready(w, l, r)
  BY <1>0, <1>4, <1>5, <1>8 DEF Ready
<1>10. Right(w, l, r, op, done)
  <2>1. w.node[l].level >= VarNum + 1 - (VarNum + 1) /\ w.node[r].level >= VarNum + 1 - (VarNum + 1)
    BY <1>0, <1>2, <1>6, SizeAssumption
  <2> QED
    BY <1>1, <1>9, <2>1, AllLayersRight DEF LayerRight
<1>11. CASE u.stopped
  BY <1>10, <1>11 DEF Right, u, done
<1>12. CASE ~ u.stopped
  <2>1. /\ Live(u) /\ Keeps(w, u) /\ u.stack = w.stack
        /\ done.res \in BddNodes(u)
        /\ Denotes(u, done.res) = Meaning(Denotes(w, l), Denotes(w, r), op)
    BY <1>10, <1>12 DEF Right, u
  <2>2. Follows(w, u)
    BY <1>5, <2>1 DEF Follows
  <2>3. \A n \in Marked(w) : Denotes(u, n) = Denotes(w, n)
    BY <2>2, FollowsFacts
  <2>4. HoldsRefs(t, u)
    BY <1>2, <1>4, <1>8, <2>1, <2>3 DEF HoldsRefs, Keeps, Same
  <2>5. Denotes(u, done.res) = Meaning(Denotes(t, l), Denotes(t, r), op)
    BY <1>0, <1>4, <2>1
  <2> QED
    BY <1>10, <2>1, <2>4, <2>5 DEF Right, u, done
<1> QED
  BY <1>11, <1>12

-----------------------------------------------------------------------------
(* bdd_addref and bdd_delref.                                              *)

\* A new reference count of a node that is there.
LEMMA CountFacts ==
  ASSUME NEW t, Live(t), NEW n \in Used(t), NEW c \in 0 .. MaxRef
  PROVE  LET u == [t EXCEPT !.node[n].refcou = c]
         IN  /\ Live(u) /\ Used(u) = Used(t) /\ BddNodes(u) = BddNodes(t)
             /\ DOMAIN u.node = DOMAIN t.node /\ u.node[n].refcou = c
             /\ \A m \in DOMAIN t.node : m # n => u.node[m].refcou = t.node[m].refcou
             /\ \A m \in Used(t) : Same(t, m, u, m) /\ Denotes(u, m) = Denotes(t, m)
<1> DEFINE u == [t EXCEPT !.node[n].refcou = c]
           x == [t.node[n] EXCEPT !.refcou = c]
           node == [t.node EXCEPT ![n] = x]
<1>0. /\ Shape(t) /\ t \in Tables /\ CacheOk(t) /\ ~ t.stopped /\ ~ t.wild /\ StackUsed(t)
  BY DEF Live, Shape
<1>1. /\ t.node \in [0 .. MaxSize - 1 -> Nodes] /\ n \in DOMAIN t.node /\ t.node[n] \in Nodes
  <2>1. t.node \in [0 .. MaxSize - 1 -> Nodes] /\ n \in DOMAIN t.node
    BY <1>0, TableFields, UsedFields
  <2> QED
    BY <2>1
<1>2. /\ x \in Nodes /\ x.refcou = c /\ x.level = t.node[n].level
      /\ x.low = t.node[n].low /\ x.high = t.node[n].high /\ x.chain = t.node[n].chain
  BY <1>1 DEF Nodes
<1> HIDE DEF x
<1>3. node \in [0 .. MaxSize - 1 -> Nodes] /\ node[n] = x
      /\ \A m \in DOMAIN t.node : m # n => node[m] = t.node[m]
  BY <1>1, <1>2
<1>4. u = [t EXCEPT !.node = node]
  BY <1>0 DEF Tables, x
<1> HIDE DEF node, u
<1>5. /\ u \in Tables /\ u.node = node /\ u.size = t.size /\ u.free = t.free
      /\ u.cache = t.cache /\ u.stopped = t.stopped /\ u.wild = t.wild /\ u.stack = t.stack
  BY <1>0, <1>3, <1>4 DEF Tables
<1>6. \A m \in DOMAIN t.node : Same(t, m, u, m) /\ u.node[m].chain = t.node[m].chain
  <2> SUFFICES ASSUME NEW m \in DOMAIN t.node
               PROVE  Same(t, m, u, m) /\ u.node[m].chain = t.node[m].chain
    OBVIOUS
  <2>1. CASE m = n
    BY <1>2, <1>3, <1>5, <2>1 DEF Same
  <2>2. CASE m # n
    BY <1>3, <1>5, <2>2 DEF Same
  <2> QED
    BY <2>1, <2>2
<1>7. SameNodes(t, u)
  <2>1. \A m \in Used(t) : m \in DOMAIN t.node
    BY <1>0, UsedFields
  <2> QED
    BY <1>3, <1>5, <1>6, <2>1 DEF SameNodes
<1>8. /\ Shape(u) /\ Used(u) = Used(t) /\ BddNodes(u) = BddNodes(t) /\ CacheOk(u)
      /\ \A m \in Used(t) : Denotes(u, m) = Denotes(t, m)
  BY <1>0, <1>5, <1>7, SameNodesFacts
<1>9. Live(u)
  BY <1>0, <1>5, <1>8 DEF Live, StackUsed
<1>10. \A m \in Used(t) : Same(t, m, u, m)
  BY <1>7 DEF SameNodes
<1>11. DOMAIN u.node = DOMAIN t.node
  BY <1>1, <1>3, <1>5
<1> QED
  BY <1>2, <1>3, <1>5, <1>8, <1>9, <1>10, <1>11 DEF u

\* The count of slot m after bdd_delref(n) and after bdd_addref(n).
Fewer(c) == IF c # MaxRef THEN c - 1 ELSE c
More(c) == IF c < MaxRef THEN c + 1 ELSE c

\* Tables with the same nodes but other counts.
Recounted(t, u) ==
  /\ Live(u) /\ Used(u) = Used(t) /\ BddNodes(u) = BddNodes(t)
  /\ DOMAIN u.node = DOMAIN t.node
  /\ \A m \in Used(t) : Same(t, m, u, m) /\ Denotes(u, m) = Denotes(t, m)

\* bdd_delref changes the count of its node and nothing else.
LEMMA DelRefFacts ==
  ASSUME NEW t, Live(t), NEW n \in BddNodes(t), n >= 3 => t.node[n].refcou > 0
  PROVE  LET u == DelRef(t, n)
         IN  /\ Recounted(t, u)
             /\ \A m \in DOMAIN t.node : m >= 3 =>
                  u.node[m].refcou = IF m = n THEN Fewer(t.node[m].refcou) ELSE t.node[m].refcou
             /\ \A m \in DOMAIN t.node : t.node[m].refcou = MaxRef => u.node[m].refcou = MaxRef
<1>0. /\ n \in Used(t) /\ n # 2 /\ n \in Nat /\ n \in DOMAIN t.node
      /\ DOMAIN t.node \subseteq Int /\ t.node[n].refcou \in 0 .. MaxRef /\ MaxRef \in Nat
  <2>1. Shape(t) /\ t \in Tables /\ n \in Used(t)
    BY DEF Live, Shape, BddNodes
  <2>2. n \in DOMAIN t.node /\ n \in Nat
    BY <2>1, UsedFields
  <2>3. t.node \in [0 .. MaxSize - 1 -> Nodes] /\ t.node[n].refcou \in 0 .. MaxRef
    BY <2>1, <2>2, TableFields
  <2> QED
    BY <2>1, <2>2, <2>3, SizeAssumption DEF BddNodes
<1>1. CASE n < 2
  <2>1. DelRef(t, n) = t
    BY <1>1 DEF DelRef
  <2>2. \A m \in DOMAIN t.node : m >= 3 => m # n
    BY <1>0, <1>1
  <2> QED
    BY <2>1, <2>2 DEF Recounted, Same
<1>2. CASE n >= 3
  <2> DEFINE c == Fewer(t.node[n].refcou)
             u == [t EXCEPT !.node[n].refcou = c]
  <2>1. c \in 0 .. MaxRef
    BY <1>0, <1>2 DEF Fewer
  <2>2. DelRef(t, n) = u
    <3>1. ~ (n < 2) /\ ~ (n \notin Used(t) \/ t.node[n].refcou = 0)
      BY <1>0, <1>2
    <3> QED
      BY <3>1 DEF DelRef, Fewer
  <2> HIDE DEF c
  <2>3. /\ Live(u) /\ Used(u) = Used(t) /\ BddNodes(u) = BddNodes(t)
        /\ DOMAIN u.node = DOMAIN t.node /\ u.node[n].refcou = c
        /\ \A m \in DOMAIN t.node : m # n => u.node[m].refcou = t.node[m].refcou
        /\ \A m \in Used(t) : Same(t, m, u, m) /\ Denotes(u, m) = Denotes(t, m)
    BY SMTT(20), <1>0, <2>1, CountFacts
  <2> HIDE DEF u
  <2>4. t.node[n].refcou = MaxRef => c = MaxRef
    BY DEF c, Fewer
  <2> QED
    BY <2>2, <2>3, <2>4 DEF Recounted, c
<1> QED
  BY <1>0, <1>1, <1>2

\* bdd_addref changes the count of its node and nothing else.
LEMMA AddRefFacts ==
  ASSUME NEW t, Live(t), NEW n \in BddNodes(t)
  PROVE  LET u == AddRef(t, n)
         IN  /\ Recounted(t, u)
             /\ \A m \in DOMAIN t.node : m >= 3 =>
                  u.node[m].refcou = IF m = n THEN More(t.node[m].refcou) ELSE t.node[m].refcou
             /\ \A m \in DOMAIN t.node : t.node[m].refcou = MaxRef => u.node[m].refcou = MaxRef
<1>0. /\ n \in Used(t) /\ n # 2 /\ n \in Nat /\ n \in DOMAIN t.node
      /\ DOMAIN t.node \subseteq Int /\ t.node[n].refcou \in 0 .. MaxRef /\ MaxRef \in Nat
  <2>1. Shape(t) /\ t \in Tables /\ n \in Used(t)
    BY DEF Live, Shape, BddNodes
  <2>2. n \in DOMAIN t.node /\ n \in Nat
    BY <2>1, UsedFields
  <2>3. t.node \in [0 .. MaxSize - 1 -> Nodes] /\ t.node[n].refcou \in 0 .. MaxRef
    BY <2>1, <2>2, TableFields
  <2> QED
    BY <2>1, <2>2, <2>3, SizeAssumption DEF BddNodes
<1>1. CASE n < 2
  <2>1. AddRef(t, n) = t
    BY <1>1 DEF AddRef
  <2>2. \A m \in DOMAIN t.node : m >= 3 => m # n
    BY <1>0, <1>1
  <2> QED
    BY <2>1, <2>2 DEF Recounted, Same
<1>2. CASE n >= 3
  <2> DEFINE c == More(t.node[n].refcou)
             u == [t EXCEPT !.node[n].refcou = c]
  <2>1. c \in 0 .. MaxRef
    BY <1>0, <1>2 DEF More
  <2>2. AddRef(t, n) = u
    <3>1. ~ (n < 2) /\ ~ (n \notin Used(t))
      BY <1>0, <1>2
    <3> QED
      BY <3>1 DEF AddRef, More
  <2> HIDE DEF c
  <2>3. /\ Live(u) /\ Used(u) = Used(t) /\ BddNodes(u) = BddNodes(t)
        /\ DOMAIN u.node = DOMAIN t.node /\ u.node[n].refcou = c
        /\ \A m \in DOMAIN t.node : m # n => u.node[m].refcou = t.node[m].refcou
        /\ \A m \in Used(t) : Same(t, m, u, m) /\ Denotes(u, m) = Denotes(t, m)
    BY SMTT(20), <1>0, <2>1, CountFacts
  <2> HIDE DEF u
  <2>4. t.node[n].refcou = MaxRef => c = MaxRef
    BY <1>0 DEF c, More
  <2> QED
    BY <2>2, <2>3, <2>4 DEF Recounted, c
<1> QED
  BY <1>0, <1>1, <1>2


-----------------------------------------------------------------------------
(* The table at the start.                                                 *)

\* The constants and the variables are there for ever.
Pinned(t) ==
  /\ t.node[0].refcou = MaxRef /\ t.node[1].refcou = MaxRef
  /\ \A v \in Levels :
       /\ VarNode(v) \in BddNodes(t)
       /\ t.node[VarNode(v)].level = v
       /\ t.node[VarNode(v)].low = 0 /\ t.node[VarNode(v)].high = 1
       /\ t.node[VarNode(v)].refcou = MaxRef

\* The slots of bdd_ithvar and bdd_nithvar: b is 0 in the first and 1 in the second.
VarSlot(v, b) == Node(v, b, 1 - b, MaxRef, Hash([size |-> InitSize], v, b, 1 - b))

\* What the slots hold at the start.
LEMMA InitSlots ==
  /\ InitTable.node \in [0 .. MaxSize - 1 -> Nodes]
  /\ InitTable.node[0] = Node(VarNum, 0, 0, MaxRef, -1)
  /\ InitTable.node[1] = Node(VarNum, 0, 0, MaxRef, -1)
  /\ InitTable.node[2] = Node(0, 0, 0, MaxRef, -1)
  /\ \A n \in 3 .. 2 + 2 * VarNum : \E v \in Levels, b \in {0, 1} :
       n = 3 + 2 * v + b /\ InitTable.node[n] = VarSlot(v, b)
  /\ \A n \in 3 + 2 * VarNum .. MaxSize - 1 : InitTable.node[n] = FreeSlot
<1> DEFINE First(n) == LET v == (n - 3) \div 2
                           b == IF n = VarNode(v) THEN 0 ELSE 1
                       IN  Node(v, b, 1 - b, MaxRef, Hash([size |-> InitSize], v, b, 1 - b))
           node == [n \in 0 .. MaxSize - 1 |->
                      IF n \in {0, 1, 2}
                        THEN Node(IF n = 2 THEN 0 ELSE VarNum, 0, 0, MaxRef, -1)
                      ELSE IF n < 3 + 2 * VarNum THEN First(n) ELSE FreeSlot]
<1>0. /\ VarNum \in Nat \ {0} /\ InitSize \in Nat /\ MaxSize \in Nat /\ MaxRef \in Nat
      /\ 3 + 2 * VarNum <= InitSize /\ InitSize <= MaxSize
  BY SizeAssumption
<1>1. InitTable.node = node
  BY DEF InitTable
<1>2. \A n \in 0 .. MaxSize - 1 :
        node[n] = IF n \in {0, 1, 2}
                    THEN Node(IF n = 2 THEN 0 ELSE VarNum, 0, 0, MaxRef, -1)
                  ELSE IF n < 3 + 2 * VarNum THEN First(n) ELSE FreeSlot
  <2> HIDE DEF First
  <2> QED
    OBVIOUS
<1>3. ASSUME NEW n \in 3 .. 2 + 2 * VarNum
      PROVE  \E v \in Levels, b \in {0, 1} : n = 3 + 2 * v + b /\ First(n) = VarSlot(v, b)
  <2> DEFINE v == (n - 3) \div 2
             b == IF n = VarNode(v) THEN 0 ELSE 1
  <2>1. v \in Levels /\ (n = 3 + 2 * v \/ n = 3 + 2 * v + 1)
    BY <1>0 DEF Levels
  <2>2. First(n) = VarSlot(v, b)
    BY DEF VarSlot
  <2> HIDE DEF First
  <2>3. v \in Int
    BY <1>0, <2>1 DEF Levels
  <2>4. b \in {0, 1} /\ n = 3 + 2 * v + b
    <3> HIDE DEF v
    <3> QED
      BY <2>1, <2>3 DEF VarNode
  <2> HIDE DEF v, b
  <2> QED
    BY <2>1, <2>2, <2>4
<1>4. \A v \in Levels, b \in {0, 1} : VarSlot(v, b) \in Nodes
  <2> SUFFICES ASSUME NEW v \in Levels, NEW b \in {0, 1} PROVE VarSlot(v, b) \in Nodes
    OBVIOUS
  <2> DEFINE chain == Hash([size |-> InitSize], v, b, 1 - b)
  <2>1. v \in 0 .. VarNum /\ v \in Nat /\ b \in Nat /\ 1 - b \in Nat
    BY <1>0 DEF Levels
  <2>2. chain \in Nat
    <3>1. [size |-> InitSize].size \in Nat \ {0}
      BY <1>0
    <3> QED
      BY <2>1, <3>1, HashType
  <2> HIDE DEF chain
  <2>3. VarSlot(v, b) = Node(v, b, 1 - b, MaxRef, chain)
    BY DEF VarSlot, chain
  <2> QED
    BY <1>0, <2>1, <2>2, <2>3 DEF Node, Nodes
<1>5. /\ Node(VarNum, 0, 0, MaxRef, -1) \in Nodes /\ Node(0, 0, 0, MaxRef, -1) \in Nodes
      /\ FreeSlot \in Nodes
  BY <1>0 DEF Node, Nodes, FreeSlot
<1>6. /\ node[0] = Node(VarNum, 0, 0, MaxRef, -1)
      /\ node[1] = Node(VarNum, 0, 0, MaxRef, -1)
      /\ node[2] = Node(0, 0, 0, MaxRef, -1)
  BY <1>0, <1>2
<1>7. \A n \in 3 .. 2 + 2 * VarNum : node[n] = First(n)
  <2> HIDE DEF First, node
  <2> QED
    BY <1>0, <1>2
<1>8. \A n \in 3 + 2 * VarNum .. MaxSize - 1 : node[n] = FreeSlot
  <2> HIDE DEF First, node
  <2> QED
    BY <1>0, <1>2
<1> HIDE DEF First
<1>9. \A n \in 3 .. 2 + 2 * VarNum : node[n] \in Nodes
  BY <1>3, <1>4, <1>7
<1>10. \A n \in 0 .. MaxSize - 1 : node[n] \in Nodes
  <2> SUFFICES ASSUME NEW n \in 0 .. MaxSize - 1 PROVE node[n] \in Nodes
    OBVIOUS
  <2>1. n \in {0, 1, 2} \/ n \in 3 .. 2 + 2 * VarNum \/ n \in 3 + 2 * VarNum .. MaxSize - 1
    BY <1>0
  <2> HIDE DEF node
  <2> QED
    BY <1>5, <1>6, <1>8, <1>9, <2>1
<1>11. node \in [0 .. MaxSize - 1 -> Nodes]
  BY <1>10
<1> HIDE DEF node
<1> QED
  BY <1>1, <1>3, <1>6, <1>7, <1>8, <1>11

\* The table at the start is one that the operations can work on.
LEMMA InitFacts == Live(InitTable) /\ Pinned(InitTable)
<1> DEFINE t == InitTable
           K == 0 .. 2 + 2 * VarNum
           rest == 3 + 2 * VarNum .. InitSize - 1
<1>0. /\ VarNum \in Nat \ {0} /\ InitSize \in Nat /\ MaxSize \in Nat /\ MaxRef \in Nat
      /\ 3 + 2 * VarNum <= InitSize /\ InitSize <= MaxSize
  BY SizeAssumption
<1>1. /\ t.size = InitSize /\ t.free = InOrder(rest) /\ t.stack = <<>> /\ t.cache = {}
      /\ t.memo = {} /\ t.misc = {} /\ t.collected = FALSE
      /\ t.stopped = FALSE /\ t.wild = FALSE
  BY DEF InitTable
<1>2. /\ rest \in SUBSET Nat /\ IsFiniteSet(rest)
  BY <1>0, FS_Interval
<1>3. /\ t.free \in Seq(Nat) /\ Entries(t.free) = rest
      /\ \A i, j \in DOMAIN t.free : t.free[i] = t.free[j] => i = j
  <2> HIDE DEF rest, t
  <2> QED
    BY <1>1, <1>2, InOrderList
<1>4. t \in Tables
  <2>1. t = [size |-> t.size, node |-> t.node, free |-> t.free, stack |-> t.stack,
             cache |-> t.cache, memo |-> t.memo, misc |-> t.misc,
             collected |-> t.collected, stopped |-> t.stopped, wild |-> t.wild]
    BY DEF InitTable
  <2>2. t.node \in [0 .. MaxSize - 1 -> Nodes]
    BY InitSlots
  <2>3. t.size \in InitSize .. MaxSize
    BY <1>0, <1>1
  <2>4. <<>> \in Seq(Nat)
    OBVIOUS
  <2> HIDE DEF t
  <2> QED
    BY <1>1, <1>3, <2>1, <2>2, <2>3, <2>4 DEF Tables
<1> HIDE DEF t
<1>5. /\ t.node[0].level = VarNum /\ t.node[0].low = 0 /\ t.node[0].high = 0
      /\ t.node[0].refcou = MaxRef
      /\ t.node[1].level = VarNum /\ t.node[1].low = 0 /\ t.node[1].high = 0
      /\ t.node[1].refcou = MaxRef
      /\ t.node[2].low = 0 /\ t.node[2].high = 0
  BY InitSlots DEF Node, t
<1>6. \A n \in 3 .. 2 + 2 * VarNum : \E v \in Levels, b \in {0, 1} :
        /\ n = 3 + 2 * v + b
        /\ t.node[n].level = v /\ t.node[n].low = b /\ t.node[n].high = 1 - b
        /\ t.node[n].refcou = MaxRef /\ t.node[n].chain = Hash(t, v, b, 1 - b)
  <2> SUFFICES ASSUME NEW n \in 3 .. 2 + 2 * VarNum
               PROVE  \E v \in Levels, b \in {0, 1} :
                        /\ n = 3 + 2 * v + b
                        /\ t.node[n].level = v /\ t.node[n].low = b /\ t.node[n].high = 1 - b
                        /\ t.node[n].refcou = MaxRef /\ t.node[n].chain = Hash(t, v, b, 1 - b)
    OBVIOUS
  <2>1. PICK v \in Levels, b \in {0, 1} : n = 3 + 2 * v + b /\ t.node[n] = VarSlot(v, b)
    BY InitSlots DEF t
  <2>2. Hash([size |-> InitSize], v, b, 1 - b) = Hash(t, v, b, 1 - b)
    BY <1>1 DEF Hash
  <2>3. /\ t.node[n].level = v /\ t.node[n].low = b /\ t.node[n].high = 1 - b
        /\ t.node[n].refcou = MaxRef /\ t.node[n].chain = Hash(t, v, b, 1 - b)
    BY <2>1, <2>2 DEF VarSlot, Node
  <2> QED
    BY <2>1, <2>3
<1>7. \A n \in 3 + 2 * VarNum .. MaxSize - 1 : t.node[n] = FreeSlot
  BY InitSlots DEF t
<1>8. Slots(t) = 0 .. InitSize - 1 /\ DOMAIN t.node = 0 .. MaxSize - 1
  <2>1. DOMAIN t.node = 0 .. MaxSize - 1
    BY InitSlots DEF t
  <2> QED
    BY <1>1, <2>1 DEF Slots
<1>9. Used(t) = K
  <2>1. ASSUME NEW n \in K PROVE n \in Used(t)
    <3>1. n \in Slots(t)
      BY <1>0, <1>8
    <3>2. n \in {0, 1, 2} \/ n \in 3 .. 2 + 2 * VarNum
      BY <1>0
    <3>3. t.node[n].low \in {0, 1}
      BY <1>5, <1>6, <3>2
    <3> QED
      BY <3>1, <3>3 DEF Used
  <2>2. ASSUME NEW n \in Used(t) PROVE n \in K
    <3>1. n \in Slots(t) /\ t.node[n].low # -1
      BY DEF Used
    <3>2. n \in K \/ n \in 3 + 2 * VarNum .. MaxSize - 1
      BY <1>0, <1>8, <3>1
    <3>3. FreeSlot.low = -1
      BY DEF FreeSlot, Node
    <3> QED
      BY <1>7, <3>1, <3>2, <3>3
  <2> QED
    BY <2>1, <2>2
<1>10. Constants(t)
  <2>1. {0, 1, 2} \subseteq Used(t)
    BY <1>0, <1>9
  <2> QED
    BY <1>5, <2>1 DEF Constants
<1>11. ASSUME NEW n \in Used(t), n >= 3 PROVE Proper(t, n)
  <2>1. n \in 3 .. 2 + 2 * VarNum
    BY <1>9, <1>11
  <2>2. PICK v \in Levels, b \in {0, 1} :
          /\ n = 3 + 2 * v + b
          /\ t.node[n].level = v /\ t.node[n].low = b /\ t.node[n].high = 1 - b
          /\ t.node[n].refcou = MaxRef /\ t.node[n].chain = Hash(t, v, b, 1 - b)
    BY <1>6, <2>1
  <2>3. {b, 1 - b} = {0, 1} /\ b # 1 - b
    BY <2>2
  <2>4. v < VarNum
    BY <1>0 DEF Levels
  <2>5. \A son \in {0, 1} : son \in BddNodes(t) /\ t.node[son].level = VarNum
    BY <1>5, <1>10 DEF Constants, BddNodes
  <2> QED
    BY <2>2, <2>3, <2>4, <2>5 DEF Proper
<1>12. Unique(t)
  <2> SUFFICES ASSUME NEW n \in Used(t), NEW m \in Used(t), n >= 3, m >= 3, Same(t, n, t, m)
               PROVE  n = m
    BY DEF Unique
  <2>1. n \in 3 .. 2 + 2 * VarNum /\ m \in 3 .. 2 + 2 * VarNum
    BY <1>9
  <2>2. PICK v \in Levels, b \in {0, 1} :
          n = 3 + 2 * v + b /\ t.node[n].level = v /\ t.node[n].low = b
    BY <1>6, <2>1
  <2>3. PICK w \in Levels, c \in {0, 1} :
          m = 3 + 2 * w + c /\ t.node[m].level = w /\ t.node[m].low = c
    BY <1>6, <2>1
  <2> QED
    BY <2>2, <2>3 DEF Same
<1>13. FreeSlots(t)
  <2>1. rest = Slots(t) \ Used(t)
    <3>1. Slots(t) = 0 .. InitSize - 1
      BY <1>8
    <3> QED
      BY <1>0, <1>9, <3>1
  <2>2. \A n \in DOMAIN t.node : n \notin Used(t) => t.node[n] = FreeSlot
    <3>1. \A n \in DOMAIN t.node : n \notin K => n \in 3 + 2 * VarNum .. MaxSize - 1
      BY <1>0, <1>8
    <3> HIDE DEF K
    <3> QED
      BY <1>7, <1>9, <3>1
  <2> QED
    BY <1>3, <2>1, <2>2 DEF FreeSlots
<1>14. Shape(t)
  BY <1>4, <1>10, <1>11, <1>12, <1>13 DEF Shape
<1>15. Live(t)
  BY <1>1, <1>14 DEF Live, StackUsed, CacheOk, Entries
<1>16. Pinned(t)
  <2> SUFFICES ASSUME NEW v \in Levels
               PROVE  /\ VarNode(v) \in BddNodes(t)
                      /\ t.node[VarNode(v)].level = v
                      /\ t.node[VarNode(v)].low = 0 /\ t.node[VarNode(v)].high = 1
                      /\ t.node[VarNode(v)].refcou = MaxRef
    BY <1>5 DEF Pinned
  <2>1. /\ v \in Nat /\ VarNode(v) \in 3 .. 2 + 2 * VarNum /\ VarNode(v) # 2
        /\ VarNode(v) = 3 + 2 * v
    BY <1>0 DEF Levels, VarNode
  <2>2. PICK w \in Levels, c \in {0, 1} :
          /\ VarNode(v) = 3 + 2 * w + c
          /\ t.node[VarNode(v)].level = w
          /\ t.node[VarNode(v)].low = c /\ t.node[VarNode(v)].high = 1 - c
          /\ t.node[VarNode(v)].refcou = MaxRef
    BY <1>6, <2>1
  <2>3. w = v /\ c = 0 /\ 1 - c = 1
    <3>1. w \in Int
      BY <1>0 DEF Levels
    <3> QED
      BY <2>1, <2>2, <3>1
  <2>4. VarNode(v) \in Used(t)
    <3>1. 3 .. 2 + 2 * VarNum \subseteq K
      BY <1>0
    <3> QED
      BY <1>9, <2>1, <3>1
  <2> QED
    BY <2>1, <2>2, <2>3, <2>4 DEF BddNodes
<1> QED
  BY <1>15, <1>16 DEF t

-----------------------------------------------------------------------------
(* The inductive invariant of a program that holds BDDs.                   *)

\* No node has fewer references than variables that hold it, short of a count that
\* has reached MAXREF and stays.
Counted(t, held) ==
  \A n \in DOMAIN t.node : n >= 3 =>
    \/ t.node[n].refcou = MaxRef
    \/ Cardinality({k \in Roots : held[k] = n}) <= t.node[n].refcou

\* What the program holds while it runs.
Holding(t, held, meant) ==
  /\ Live(t) /\ Pinned(t) /\ Counted(t, held)
  /\ \A k \in Roots : held[k] \in BddNodes(t) /\ Denotes(t, held[k]) = meant[k]

\* The inductive invariant. Once the error handler has stopped the program the stored
\* nodes are still in order, but nothing is said of the variables it has left.
IInv ==
  /\ Shape(tab) /\ ~ tab.wild
  /\ root \in [Roots -> Nat] /\ val \in [Roots -> SUBSET Headers]
  /\ ~ tab.stopped => Holding(tab, root, val)

\* What is held has a reference.
LEMMA HeldReferenced ==
  ASSUME NEW t, NEW held \in [Roots -> Nat], NEW meant, Holding(t, held, meant),
         NEW k \in Roots
  PROVE  /\ held[k] \in BddNodes(t) /\ Denotes(t, held[k]) = meant[k]
         /\ t.node[held[k]].refcou > 0
<1>1. /\ held[k] \in BddNodes(t) /\ Denotes(t, held[k]) = meant[k]
      /\ Shape(t) /\ Pinned(t) /\ Counted(t, held)
  BY DEF Holding, Live
<1>2. held[k] \in DOMAIN t.node /\ held[k] \in Nat /\ held[k] # 2
      /\ t.node[held[k]].refcou \in 0 .. MaxRef /\ MaxRef \in Nat \ {0}
  <2>1. held[k] \in Used(t) /\ held[k] # 2
    BY <1>1 DEF BddNodes
  <2>2. held[k] \in DOMAIN t.node /\ held[k] \in Nat
    BY <1>1, <2>1, UsedFields
  <2> QED
    BY <1>1, <2>1, <2>2, TableFields, SizeAssumption DEF Shape
<1>3. CASE held[k] < 3
  <2>1. held[k] = 0 \/ held[k] = 1
    BY <1>2, <1>3
  <2>2. t.node[held[k]].refcou = MaxRef
    BY <1>1, <2>1 DEF Pinned
  <2> QED
    BY <1>1, <1>2, <2>2
<1>4. CASE held[k] >= 3
  <2> DEFINE H == {j \in Roots : held[j] = held[k]}
  <2>1. IsFiniteSet(H) /\ H # {}
    <3>1. H \in SUBSET Roots /\ k \in H
      OBVIOUS
    <3> HIDE DEF H
    <3> QED
      BY <3>1, OpsAssumption, FS_Subset
  <2>2. Cardinality(H) \in Nat /\ Cardinality(H) # 0
    <3> HIDE DEF H
    <3> QED
      BY <2>1, FS_EmptySet, FS_CardinalityType
  <2>3. t.node[held[k]].refcou = MaxRef \/ Cardinality(H) <= t.node[held[k]].refcou
    BY <1>1, <1>2, <1>4 DEF Counted
  <2> HIDE DEF H
  <2> QED
    BY <1>1, <1>2, <2>2, <2>3
<1> QED
  BY <1>2, <1>3, <1>4

\* The operands of the program are the BDDs of their sets, and referenced.
LEMMA OperandFacts ==
  ASSUME IInv, ~ tab.stopped, NEW a \in Operands
  PROVE  /\ a[1] \in BddNodes(tab) /\ Denotes(tab, a[1]) = a[2]
         /\ a[2] \in SUBSET Headers /\ tab.node[a[1]].refcou > 0
<1>0. /\ Holding(tab, root, val) /\ Shape(tab) /\ Pinned(tab)
      /\ root \in [Roots -> Nat] /\ val \in [Roots -> SUBSET Headers]
  BY DEF IInv, Holding
<1>1. CASE \E k \in Roots : a = <<root[k], val[k]>>
  <2>1. PICK k \in Roots : a = <<root[k], val[k]>>
    BY <1>1
  <2> QED
    BY <1>0, <2>1, HeldReferenced
<1>2. CASE \E v \in Levels : a = <<VarNode(v), {h \in Headers : Bit(h, v) = 1}>>
  <2>1. PICK v \in Levels : a = <<VarNode(v), {h \in Headers : Bit(h, v) = 1}>>
    BY <1>2
  <2>2. /\ VarNode(v) \in BddNodes(tab) /\ VarNode(v) \in Used(tab) /\ VarNode(v) >= 3
        /\ tab.node[VarNode(v)].level = v /\ tab.node[VarNode(v)].low = 0
        /\ tab.node[VarNode(v)].high = 1 /\ tab.node[VarNode(v)].refcou > 0
    <3>1. VarNode(v) >= 3
      BY DEF VarNode, Levels
    <3> QED
      BY <1>0, <3>1, SizeAssumption DEF Pinned, BddNodes
  <2>3. Denotes(tab, VarNode(v)) = Branch(v, {}, Headers)
    BY <1>0, <2>2, DenotesFacts
  <2>4. Branch(v, {}, Headers) = {h \in Headers : Bit(h, v) = 1}
    BY DEF Branch
  <2> QED
    BY <2>1, <2>2, <2>3, <2>4
<1> QED
  BY <1>1, <1>2 DEF Operands

\* The counts of u are those of t with node n given up, and with node n taken.
GivesUp(t, u, n) ==
  \A m \in DOMAIN t.node : m >= 3 =>
    u.node[m].refcou = IF m = n THEN Fewer(t.node[m].refcou) ELSE t.node[m].refcou
Takes(t, u, n) ==
  \A m \in DOMAIN t.node : m >= 3 =>
    u.node[m].refcou = IF m = n THEN More(t.node[m].refcou) ELSE t.node[m].refcou

\* The counts when a variable gives up its node for another.
LEMMA CountedUpdate ==
  ASSUME NEW old \in Tables, NEW mid \in Tables, NEW new \in Tables,
         NEW before \in [Roots -> Nat], Counted(old, before),
         NEW var \in Roots, NEW node0 \in Nat,
         GivesUp(old, mid, before[var]), Takes(mid, new, node0)
  PROVE  Counted(new, [before EXCEPT ![var] = node0])
<1> DEFINE after == [before EXCEPT ![var] = node0]
<1>0. DOMAIN mid.node = DOMAIN old.node /\ DOMAIN new.node = DOMAIN old.node
  BY TableFields
<1>4. \A j \in Roots : after[j] = IF j = var THEN node0 ELSE before[j]
  OBVIOUS
<1> HIDE DEF after
<1> DEFINE H(m) == {j \in Roots : before[j] = m}
           H2(m) == {j \in Roots : after[j] = m}
<1> SUFFICES ASSUME NEW m \in DOMAIN old.node, m >= 3
             PROVE  \/ new.node[m].refcou = MaxRef
                    \/ Cardinality(H2(m)) <= new.node[m].refcou
  BY <1>0 DEF Counted, after
<1>1. /\ old.node[m].refcou \in 0 .. MaxRef /\ MaxRef \in Nat
      /\ old.node[m].refcou = MaxRef \/ Cardinality(H(m)) <= old.node[m].refcou
  <2>1. old.node[m].refcou \in 0 .. MaxRef
    BY TableFields
  <2> QED
    BY <2>1, SizeAssumption DEF Counted
<1>2. IsFiniteSet(H(m)) /\ Cardinality(H(m)) \in Nat
  <2>1. H(m) \in SUBSET Roots
    OBVIOUS
  <2> HIDE DEF H
  <2> QED
    BY <2>1, OpsAssumption, FS_Subset, FS_CardinalityType
<1>3. /\ mid.node[m].refcou = (IF m = before[var] THEN Fewer(old.node[m].refcou) ELSE old.node[m].refcou)
      /\ new.node[m].refcou = IF m = node0 THEN More(mid.node[m].refcou) ELSE mid.node[m].refcou
  BY <1>0 DEF GivesUp, Takes
<1>5. CASE m = before[var] /\ m = node0
  <2>1. H2(m) = H(m)
    <3> QED
      BY <1>4, <1>5
  <2>2. var \in H(m)
    BY <1>5
  <2>3. Cardinality(H(m)) # 0
    <3> HIDE DEF H
    <3> QED
      BY <1>2, <2>2, FS_EmptySet
  <2> HIDE DEF H, H2
  <2> QED
    BY <1>1, <1>2, <1>3, <1>5, <2>1, <2>3 DEF Fewer, More
<1>6. CASE m = before[var] /\ m # node0
  <2>1. H2(m) = H(m) \ {var} /\ var \in H(m)
    <3>1. var \in H(m)
      BY <1>6
    <3> QED
      BY <1>4, <1>6, <3>1
  <2> HIDE DEF H, H2
  <2>2. Cardinality(H2(m)) = Cardinality(H(m)) - 1
    BY <1>2, <2>1, FS_RemoveElement
  <2>3. Cardinality(H(m)) # 0
    BY <1>2, <2>1, FS_EmptySet
  <2> QED
    BY <1>1, <1>2, <1>3, <1>6, <2>2, <2>3 DEF Fewer
<1>7. CASE m # before[var] /\ m = node0
  <2>1. H2(m) = H(m) \union {var} /\ var \notin H(m)
    <3>1. var \notin H(m)
      BY <1>7
    <3> QED
      BY <1>4, <1>7, <3>1
  <2> HIDE DEF H, H2
  <2>2. Cardinality(H2(m)) = Cardinality(H(m)) + 1
    BY <1>2, <2>1, FS_AddElement
  <2> QED
    BY <1>1, <1>2, <1>3, <1>7, <2>2 DEF More
<1>8. CASE m # before[var] /\ m # node0
  <2>1. H2(m) = H(m)
    <3> QED
      BY <1>4, <1>8
  <2> HIDE DEF H, H2
  <2> QED
    BY <1>1, <1>3, <1>8, <2>1
<1> QED
  BY <1>5, <1>6, <1>7, <1>8

\* x = bdd_apply(...); bdd_delref(old x); bdd_addref(x) leaves the program with what
\* it held and the result, or ends it.
LEMMA UpdateHolds ==
  ASSUME NEW t, NEW held \in [Roots -> Nat], NEW meant \in [Roots -> SUBSET Headers],
         Holding(t, held, meant), NEW k \in Roots, NEW op \in Ops,
         NEW l \in BddNodes(t), NEW r \in BddNodes(t),
         t.node[l].refcou > 0, t.node[r].refcou > 0,
         NEW u, NEW res, u = Apply(t, l, r, op).t, res = Apply(t, l, r, op).res,
         ~ u.stopped
  PROVE  Holding(AddRef(DelRef(u, held[k]), res), [held EXCEPT ![k] = res],
                 [meant EXCEPT ![k] = Meaning(Denotes(t, l), Denotes(t, r), op)])
<1> DEFINE held2 == [held EXCEPT ![k] = res]
           meant2 == [meant EXCEPT ![k] = Meaning(Denotes(t, l), Denotes(t, r), op)]
           d == DelRef(u, held[k])
           z == AddRef(d, res)
<1>0. Live(t) /\ Shape(t) /\ t \in Tables /\ Pinned(t) /\ Counted(t, held) /\ MaxRef > 0
  BY SizeAssumption DEF Holding, Live, Shape
<1>1. /\ Live(u) /\ HoldsRefs(t, u) /\ res \in BddNodes(u) /\ res \in Nat
      /\ Denotes(u, res) = Meaning(Denotes(t, l), Denotes(t, r), op)
  BY <1>0, ApplyFacts
<1>2. u \in Tables /\ DOMAIN u.node = DOMAIN t.node
  <2>1. u \in Tables
    BY <1>1 DEF Live, Shape
  <2> QED
    BY <1>0, <2>1, TableFields
<1>3. ASSUME NEW j \in Roots
      PROVE  /\ held[j] \in BddNodes(u) /\ Denotes(u, held[j]) = meant[j]
             /\ u.node[held[j]].refcou > 0
  <2>1. /\ held[j] \in BddNodes(t) /\ Denotes(t, held[j]) = meant[j]
        /\ t.node[held[j]].refcou > 0
    BY HeldReferenced
  <2>2. held[j] \in Used(t) /\ held[j] # 2 /\ held[j] \in DOMAIN t.node
    BY <1>0, <2>1, UsedFields DEF BddNodes
  <2> QED
    BY <1>1, <2>1, <2>2 DEF HoldsRefs, BddNodes
<1>4. Pinned(u)
  <2>1. 0 \in DOMAIN t.node /\ 1 \in DOMAIN t.node
    BY <1>0, UsedFields DEF Shape, Constants
  <2>2. ASSUME NEW v \in Levels
        PROVE  /\ VarNode(v) \in BddNodes(u)
               /\ u.node[VarNode(v)].level = v
               /\ u.node[VarNode(v)].low = 0 /\ u.node[VarNode(v)].high = 1
               /\ u.node[VarNode(v)].refcou = MaxRef
    <3>1. /\ VarNode(v) \in BddNodes(t)
          /\ t.node[VarNode(v)].level = v
          /\ t.node[VarNode(v)].low = 0 /\ t.node[VarNode(v)].high = 1
          /\ t.node[VarNode(v)].refcou = MaxRef
      BY <1>0 DEF Pinned
    <3>2. VarNode(v) \in Used(t) /\ VarNode(v) # 2 /\ VarNode(v) \in DOMAIN t.node
      BY <1>0, <3>1, UsedFields DEF BddNodes
    <3>3. t.node[VarNode(v)].refcou > 0
      BY <1>0, <3>1
    <3> QED
      BY <1>1, <3>1, <3>2, <3>3 DEF HoldsRefs, Same, BddNodes
  <2> QED
    BY <1>0, <1>1, <2>1, <2>2 DEF Pinned, HoldsRefs
<1>5. Counted(u, held)
  BY <1>0, <1>1, <1>2 DEF Counted, HoldsRefs
<1>6. /\ Recounted(u, d)
      /\ \A m \in DOMAIN u.node : m >= 3 =>
           d.node[m].refcou = IF m = held[k] THEN Fewer(u.node[m].refcou) ELSE u.node[m].refcou
      /\ \A m \in DOMAIN u.node : u.node[m].refcou = MaxRef => d.node[m].refcou = MaxRef
  BY <1>1, <1>3, DelRefFacts
<1> HIDE DEF d
<1>7. Live(d) /\ BddNodes(d) = BddNodes(u) /\ Used(d) = Used(u) /\ DOMAIN d.node = DOMAIN u.node
  BY <1>6 DEF Recounted
<1>8. /\ Recounted(d, z)
      /\ \A m \in DOMAIN d.node : m >= 3 =>
           z.node[m].refcou = IF m = res THEN More(d.node[m].refcou) ELSE d.node[m].refcou
      /\ \A m \in DOMAIN d.node : d.node[m].refcou = MaxRef => z.node[m].refcou = MaxRef
  BY <1>1, <1>7, AddRefFacts
<1> HIDE DEF z
<1>9. /\ Live(z) /\ BddNodes(z) = BddNodes(u)
      /\ \A m \in Used(u) : Same(u, m, z, m) /\ Denotes(z, m) = Denotes(u, m)
  BY <1>6, <1>7, <1>8 DEF Recounted, Same
<1>10. Counted(z, held2)
  <2>1. GivesUp(u, d, held[k])
    BY <1>6 DEF GivesUp
  <2>2. Takes(d, z, res)
    BY <1>8 DEF Takes
  <2>3. u \in Tables /\ d \in Tables /\ z \in Tables /\ res \in Nat
    BY <1>1, <1>2, <1>7, <1>9 DEF Live, Shape
  <2> QED
    BY <1>5, <2>1, <2>2, <2>3, CountedUpdate
<1>11. Pinned(z)
  <2>1. 0 \in DOMAIN u.node /\ 1 \in DOMAIN u.node /\ Shape(u)
    BY <1>1, UsedFields DEF Live, Shape, Constants
  <2>2. /\ u.node[0].refcou = MaxRef /\ u.node[1].refcou = MaxRef
    BY <1>4 DEF Pinned
  <2>3. z.node[0].refcou = MaxRef /\ z.node[1].refcou = MaxRef
    BY <1>6, <1>7, <1>8, <2>1, <2>2
  <2>4. ASSUME NEW v \in Levels
        PROVE  /\ VarNode(v) \in BddNodes(z)
               /\ z.node[VarNode(v)].level = v
               /\ z.node[VarNode(v)].low = 0 /\ z.node[VarNode(v)].high = 1
               /\ z.node[VarNode(v)].refcou = MaxRef
    <3>1. /\ VarNode(v) \in BddNodes(u)
          /\ u.node[VarNode(v)].level = v
          /\ u.node[VarNode(v)].low = 0 /\ u.node[VarNode(v)].high = 1
          /\ u.node[VarNode(v)].refcou = MaxRef
      BY <1>4 DEF Pinned
    <3>2. VarNode(v) \in Used(u) /\ VarNode(v) \in DOMAIN u.node
      BY <2>1, <3>1, UsedFields DEF BddNodes
    <3>3. z.node[VarNode(v)].refcou = MaxRef
      BY <1>6, <1>7, <1>8, <3>1, <3>2
    <3> QED
      BY <1>9, <3>1, <3>2, <3>3 DEF Same
  <2> QED
    BY <2>3, <2>4 DEF Pinned
<1>12. ASSUME NEW j \in Roots
       PROVE  held2[j] \in BddNodes(z) /\ Denotes(z, held2[j]) = meant2[j]
  <2>1. CASE j = k
    <3>1. held2[j] = res /\ meant2[j] = Meaning(Denotes(t, l), Denotes(t, r), op)
      BY <2>1
    <3>2. res \in Used(u)
      BY <1>1 DEF BddNodes
    <3> QED
      BY <1>1, <1>9, <3>1, <3>2
  <2>2. CASE j # k
    <3>1. held2[j] = held[j] /\ meant2[j] = meant[j]
      BY <2>2
    <3>2. held[j] \in Used(u)
      BY <1>3 DEF BddNodes
    <3> QED
      BY <1>3, <1>9, <3>1, <3>2
  <2> QED
    BY <2>1, <2>2
<1> HIDE DEF held2, meant2
<1>13. Holding(z, held2, meant2)
  BY <1>9, <1>10, <1>11, <1>12 DEF Holding
<1> QED
  BY <1>13 DEF held2, meant2, z, d

\* The program starts with the invariant.
LEMMA InitIInv == Init => IInv
<1> SUFFICES ASSUME Init PROVE IInv
  OBVIOUS
<1>1. /\ tab = InitTable /\ root \in [Roots -> Nat] /\ val \in [Roots -> SUBSET Headers]
      /\ \A k \in Roots : root[k] = 0 /\ val[k] = {}
  BY DEF Init
<1>2. Live(tab) /\ Pinned(tab) /\ Shape(tab)
  BY <1>1, InitFacts DEF Live
<1>3. Counted(tab, root)
  <2> SUFFICES ASSUME NEW n \in DOMAIN tab.node, n >= 3
               PROVE  Cardinality({k \in Roots : root[k] = n}) <= tab.node[n].refcou
    BY DEF Counted
  <2>1. {k \in Roots : root[k] = n} = {}
    <3>1. n # 0
      BY TableFields, <1>2 DEF Shape
    <3> QED
      BY <1>1, <3>1
  <2>2. tab.node[n].refcou \in 0 .. MaxRef
    BY TableFields, <1>2 DEF Shape
  <2> QED
    BY <2>1, <2>2, FS_EmptySet, SizeAssumption
<1>4. 0 \in BddNodes(tab) /\ Denotes(tab, 0) = {}
  BY <1>2, DenotesFacts DEF BddNodes, Shape, Constants
<1> QED
  BY <1>1, <1>2, <1>3, <1>4 DEF IInv, Holding, Live

\* Every operation keeps the invariant.
LEMMA NextIInv == IInv /\ [Next]_vars => IInv'
<1> SUFFICES ASSUME IInv, [Next]_vars PROVE IInv'
  OBVIOUS
<1>1. CASE UNCHANGED vars
  BY <1>1 DEF IInv, vars
<1>2. CASE Next
  <2>1. PICK k \in Roots, a \in Operands, b \in Operands, op \in Ops : Update(k, a, b, op)
    BY <1>2 DEF Next
  <2> DEFINE done == Apply(tab, a[1], b[1], op)
             set == Meaning(a[2], b[2], op)
  <2>2. /\ ~ tab.stopped
        /\ tab' = (IF done.t.stopped \/ done.t.wild THEN done.t
                   ELSE AddRef(DelRef(done.t, root[k]), done.res))
        /\ root' = [root EXCEPT ![k] = done.res]
        /\ val' = [val EXCEPT ![k] = set]
    BY <2>1 DEF Update
  <2>3. /\ Holding(tab, root, val) /\ Live(tab)
        /\ root \in [Roots -> Nat] /\ val \in [Roots -> SUBSET Headers]
    BY <2>2 DEF IInv, Holding
  <2>4. /\ a[1] \in BddNodes(tab) /\ Denotes(tab, a[1]) = a[2]
        /\ a[2] \in SUBSET Headers /\ tab.node[a[1]].refcou > 0
        /\ b[1] \in BddNodes(tab) /\ Denotes(tab, b[1]) = b[2]
        /\ b[2] \in SUBSET Headers /\ tab.node[b[1]].refcou > 0
    BY <2>2, OperandFacts
  <2>5. Shape(done.t) /\ ~ done.t.wild /\ done.res \in Nat
    BY <2>3, <2>4, ApplyFacts
  <2>6. set \in SUBSET Headers
    BY <2>4, MeaningType
  <2>7. root' \in [Roots -> Nat] /\ val' \in [Roots -> SUBSET Headers]
    <3> HIDE DEF done, set
    <3> QED
      BY <2>2, <2>3, <2>5, <2>6
  <2>8. CASE done.t.stopped
    <3>1. tab' = done.t
      BY <2>2, <2>8
    <3> HIDE DEF done, set
    <3> QED
      BY <2>5, <2>7, <2>8, <3>1 DEF IInv
  <2>9. CASE ~ done.t.stopped
    <3>1. tab' = AddRef(DelRef(done.t, root[k]), done.res)
      BY <2>2, <2>5, <2>9
    <3>2. PICK u : u = done.t
      OBVIOUS
    <3>3. PICK res : res = done.res
      OBVIOUS
    <3>4. Holding(AddRef(DelRef(u, root[k]), res), [root EXCEPT ![k] = res],
                  [val EXCEPT ![k] = set])
      BY <2>3, <2>4, <2>9, <3>2, <3>3, UpdateHolds
    <3>5. Holding(tab', root', val')
      <4> HIDE DEF done, set
      <4> QED
        BY <2>2, <3>1, <3>2, <3>3, <3>4
    <3>6. Shape(tab') /\ ~ tab'.wild
      BY <3>5 DEF Holding, Live
    <3> HIDE DEF done, set
    <3> QED
      BY <2>7, <3>5, <3>6 DEF IInv
  <2> QED
    BY <2>8, <2>9
<1> QED
  BY <1>1, <1>2

\* The inductive invariant holds in every state of the program.
THEOREM Invariance == Spec => []IInv
<1> QED
  BY InitIInv, NextIInv, PTL DEF Spec

\* What the program holds stays what it computed.
THEOREM HeldIntactHolds == Spec => []HeldIntact
<1>1. IInv => HeldIntact
  <2> SUFFICES ASSUME IInv, ~ tab.stopped PROVE HeldIntact
    BY DEF HeldIntact
  <2>1. Holding(tab, root, val) /\ Shape(tab) /\ ~ tab.wild
    BY DEF IInv
  <2>2. WellFormed(tab)
    BY <2>1 DEF WellFormed, Shape, Proper, BddNodes
  <2> QED
    BY <2>1, <2>2 DEF HeldIntact, Holding, BddNodes
<1> QED
  BY <1>1, Invariance, PTL

\* A used node other than the mark stands for a set of headers of its own.
THEOREM CanonicalHolds == Spec => []Canonical
<1>1. IInv => Canonical
  <2> SUFFICES ASSUME IInv PROVE Canonical
    OBVIOUS
  <2> DEFINE nodes == BddNodes(tab)
             f == [n \in nodes |-> Denotes(tab, n)]
             sets == {Denotes(tab, n) : n \in nodes}
  <2>1. Shape(tab)
    BY DEF IInv
  <2>2. IsFiniteSet(nodes)
    <3>1. Slots(tab) \in SUBSET Slots(tab) /\ nodes \in SUBSET Slots(tab)
      BY DEF BddNodes, Used
    <3>2. IsFiniteSet(Slots(tab))
      <4>1. 0 \in Int /\ tab.size - 1 \in Int
        BY <2>1, TableFields DEF Shape
      <4> QED
        BY <4>1, FS_Interval DEF Slots
    <3> HIDE DEF nodes
    <3> QED
      BY <3>1, <3>2, FS_Subset
  <2>3. f \in Bijection(nodes, sets)
    <3>1. f \in [nodes -> sets] /\ \A s \in sets : \E n \in nodes : f[n] = s
      OBVIOUS
    <3>2. \A n, m \in nodes : f[n] = f[m] => n = m
      <4> SUFFICES ASSUME NEW n \in nodes, NEW m \in nodes, f[n] = f[m] PROVE n = m
        OBVIOUS
      <4>1. Denotes(tab, n) = Denotes(tab, m)
        OBVIOUS
      <4> QED
        BY <2>1, <4>1, OneNode
    <3> HIDE DEF f, sets, nodes
    <3> QED
      BY <3>1, <3>2 DEF Bijection, Injection, IsInjective, Surjection
  <2>4. Cardinality(sets) = Cardinality(nodes)
    <3> HIDE DEF f, sets, nodes
    <3> QED
      BY <2>2, <2>3, FS_Bijection DEF ExistsBijection
  <2> QED
    BY <2>4 DEF Canonical, BddNodes
<1> QED
  BY <1>1, Invariance, PTL

\* Every entry of the apply cache names nodes that are there, and is true of them.
THEOREM CacheSoundHolds == Spec => []CacheSound
<1>1. IInv => CacheSound
  BY DEF IInv, Holding, Live, CacheOk, CacheSound, BddNodes
<1> QED
  BY <1>1, Invariance, PTL

\* The free list holds every slot that is not used, once.
THEOREM FreeExactHolds == Spec => []FreeExact
<1>1. IInv => FreeExact
  <2> SUFFICES ASSUME IInv PROVE FreeExact
    OBVIOUS
  <2> DEFINE free == tab.free
             S == Slots(tab) \ Used(tab)
  <2>1. /\ free \in Seq(Nat) /\ Entries(free) = S
        /\ \A i, j \in DOMAIN free : free[i] = free[j] => i = j
    BY TableFields DEF IInv, Shape, FreeSlots
  <2>2. Len(free) \in Nat /\ DOMAIN free = 1 .. Len(free) /\ free \in [1 .. Len(free) -> S]
    <3> HIDE DEF free, S
    <3>1. Len(free) \in Nat /\ DOMAIN free = 1 .. Len(free) /\ free \in [1 .. Len(free) -> Nat]
      BY <2>1, LenProperties
    <3> QED
      BY <2>1, <3>1 DEF Entries
  <2>3. free \in Bijection(1 .. Len(free), S)
    <3> HIDE DEF free, S
    <3>1. \A s \in S : \E i \in 1 .. Len(free) : free[i] = s
      BY <2>1, <2>2 DEF Entries
    <3> QED
      BY <2>1, <2>2, <3>1 DEF Bijection, Injection, IsInjective, Surjection
  <2>4. Cardinality(S) = Len(free)
    <3> HIDE DEF free, S
    <3>1. IsFiniteSet(1 .. Len(free)) /\ Cardinality(1 .. Len(free)) = Len(free)
      <4>1. 1 \in Int /\ Len(free) \in Int /\ (1 > Len(free) => Len(free) = 0)
            /\ Len(free) - 1 + 1 = Len(free)
        BY <2>2
      <4> QED
        BY <4>1, FS_Interval
    <3> QED
      BY <2>3, <3>1, FS_Bijection DEF ExistsBijection
  <2> QED
    BY <2>1, <2>4 DEF FreeExact
<1> QED
  BY <1>1, Invariance, PTL

=============================================================================
