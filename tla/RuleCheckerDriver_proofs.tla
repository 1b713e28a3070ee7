---------------------- MODULE RuleCheckerDriver_proofs ----------------------
(***************************************************************************)
(* Proofs about RuleChecker and its driver, for every set of headers and   *)
(* every match function: in any order of insertions and removals bdd_hit   *)
(* and the overrides are right, and in the order of the driver the probes  *)
(* are complete at rest.                                                   *)
(***************************************************************************)
EXTENDS RuleCheckerDriver, FiniteSetTheorems, WellFoundedInduction, TLAPS

-----------------------------------------------------------------------------
(* Numbers in order, and the probe arrays made with them.                  *)

\* Every nonempty set of positions has a smallest one.
LEMMA SmallestPosition ==
  ASSUME NEW S \in SUBSET Nat, S # {}
  PROVE  \E x \in S : \A y \in S : x <= y
<1> DEFINE R == OpToRel(<, Nat)
<1>1. IsWellFoundedOn(R, Nat)
  BY NatLessThanWellFounded
<1>2. \A x, y \in Nat : y < x => <<y, x>> \in R
  BY DEF OpToRel
<1> HIDE DEF R
<1>3. PICK x \in S : \A y \in S : ~ (<<y, x>> \in R)
  BY <1>1, WFMin
<1>4. \A y \in S : ~ (y < x)
  BY <1>2, <1>3
<1> QED
  BY <1>3, <1>4

\* InOrder numbers the elements of a finite set from 1 on, in order.
LEMMA InOrderNumbers ==
  ASSUME NEW S \in SUBSET Nat, IsFiniteSet(S)
  PROVE  /\ Cardinality(S) \in Nat
         /\ DOMAIN InOrder(S) = 1 .. Cardinality(S)
         /\ \A k \in 1 .. Cardinality(S) : InOrder(S)[k] \in S
         /\ \A i \in S : \E k \in 1 .. Cardinality(S) : InOrder(S)[k] = i
         /\ \A k, l \in 1 .. Cardinality(S) : k < l => InOrder(S)[k] < InOrder(S)[l]
         /\ \A k, l \in 1 .. Cardinality(S) : InOrder(S)[k] = InOrder(S)[l] => k = l
<1> DEFINE n == Cardinality(S)
           Below_(i) == {x \in S : x < i}
           Rank == [i \in S |-> Cardinality(Below_(i))]
           f == InOrder(S)
<1>1. n \in Nat
  BY FS_CardinalityType
<1>2. \A i \in S : /\ IsFiniteSet(Below_(i)) /\ Rank[i] \in 0 .. n - 1
                   /\ Rank[i] \in Nat
  <2> TAKE i \in S
  <2>1. /\ IsFiniteSet(S \ {i}) /\ Cardinality(S \ {i}) = n - 1
    BY FS_RemoveElement
  <2>2. Below_(i) \in SUBSET (S \ {i})
    OBVIOUS
  <2>3. /\ IsFiniteSet(Below_(i)) /\ Cardinality(Below_(i)) <= n - 1
        /\ Cardinality(Below_(i)) \in Nat
    <3> HIDE DEF Below_, n
    <3> QED
      BY <2>1, <2>2, FS_Subset, FS_CardinalityType
  <2> QED
    BY <1>1, <2>3
<1>3. \A i, j_ \in S : i < j_ => Rank[i] < Rank[j_]
  <2> SUFFICES ASSUME NEW i \in S, NEW m \in S, i < m PROVE Rank[i] < Rank[m]
    OBVIOUS
  <2>1. IsFiniteSet(Below_(m)) /\ Cardinality(Below_(m)) \in Nat
    BY <1>2
  <2>2. /\ IsFiniteSet(Below_(m) \ {i})
        /\ Cardinality(Below_(m) \ {i}) = Cardinality(Below_(m)) - 1
    <3>1. i \in Below_(m)
      OBVIOUS
    <3> HIDE DEF Below_
    <3> QED
      BY <2>1, <3>1, FS_RemoveElement
  <2>3. Below_(i) \in SUBSET (Below_(m) \ {i})
    <3>1. \A x \in S : x < i => x < m /\ x # i
      OBVIOUS
    <3> QED
      BY <3>1
  <2>4. Cardinality(Below_(i)) <= Cardinality(Below_(m)) - 1
    <3> HIDE DEF Below_
    <3> QED
      BY <2>2, <2>3, FS_Subset
  <2> QED
    BY <1>2, <2>1, <2>4
<1>4. \A i, m \in S : Rank[i] = Rank[m] => i = m
  <2> SUFFICES ASSUME NEW i \in S, NEW m \in S, Rank[i] = Rank[m] PROVE i = m
    OBVIOUS
  <2>1. ~ (Rank[i] < Rank[m]) /\ ~ (Rank[m] < Rank[i])
    BY <1>2
  <2>2. ~ (i < m) /\ ~ (m < i)
    BY <1>3, <2>1
  <2> QED
    BY <2>2
<1>5. \A k \in 0 .. n - 1 : \E i \in S : Rank[i] = k
  <2>1. Rank \in Injection(S, 0 .. n - 1)
    <3>1. Rank \in [S -> 0 .. n - 1]
      BY <1>2
    <3> QED
      BY <1>4, <3>1 DEF Injection, IsInjective
  <2>2. IsFiniteSet(0 .. n - 1) /\ Cardinality(0 .. n - 1) = n
    <3>1. n - 1 \in Int /\ 0 \in Int /\ n - 1 - 0 + 1 = n /\ (0 > n - 1 => n = 0)
      BY <1>1
    <3> HIDE DEF n
    <3> QED
      BY <3>1, FS_Interval
  <2>3. Rank \in Surjection(S, 0 .. n - 1)
    <3> HIDE DEF Rank
    <3> QED
      BY <2>1, <2>2, FS_Injection
  <2> QED
    BY <2>3 DEF Surjection
<1>6. \A k \in 1 .. n : f[k] \in S /\ Rank[f[k]] = k - 1
  <2> TAKE k \in 1 .. n
  <2>1. PICK i \in S : Rank[i] = k - 1
    BY <1>1, <1>5
  <2>2. f[k] = CHOOSE m \in S : Cardinality(Below_(m)) = k - 1
    BY DEF InOrder
  <2> QED
    BY <2>1, <2>2
<1>7. DOMAIN f = 1 .. n
  BY DEF InOrder
<1>8. \A i \in S : \E k \in 1 .. n : f[k] = i
  <2> TAKE i \in S
  <2>1. PICK k \in 1 .. n : k - 1 = Rank[i]
    <3>1. Rank[i] + 1 \in 1 .. n /\ (Rank[i] + 1) - 1 = Rank[i]
      BY <1>1, <1>2
    <3> QED
      BY <3>1
  <2>2. f[k] \in S /\ Rank[f[k]] = Rank[i]
    BY <1>6, <2>1
  <2>3. f[k] = i
    <3> HIDE DEF f, Rank
    <3> QED
      BY <1>4, <2>2
  <2> QED
    BY <2>3
<1>9. \A k, l \in 1 .. n : k < l => f[k] < f[l]
  <2> SUFFICES ASSUME NEW k \in 1 .. n, NEW l \in 1 .. n, k < l PROVE f[k] < f[l]
    OBVIOUS
  <2>1. Rank[f[k]] < Rank[f[l]]
    BY <1>1, <1>6
  <2>2. f[k] \in S /\ f[l] \in S /\ f[k] \in Nat /\ f[l] \in Nat
    BY <1>6
  <2>3. ~ (f[l] < f[k]) /\ f[k] # f[l]
    <3> HIDE DEF f, Rank
    <3>1. Rank[f[k]] \in Nat /\ Rank[f[l]] \in Nat
      BY <1>2, <2>2
    <3> QED
      BY <1>3, <2>1, <2>2, <3>1
  <2> HIDE DEF f
  <2> QED
    BY <2>2, <2>3
<1>10. \A k, l \in 1 .. n : f[k] = f[l] => k = l
  <2> SUFFICES ASSUME NEW k \in 1 .. n, NEW l \in 1 .. n, f[k] = f[l] PROVE k = l
    OBVIOUS
  <2>1. k - 1 = l - 1
    BY <1>6
  <2> QED
    BY <1>1, <2>1
<1> HIDE DEF f, n
<1> QED
  BY <1>1, <1>6, <1>7, <1>8, <1>9, <1>10 DEF f, n

\* Some probe of the array holds header h under override o.
Has(pbs, o, h) == \E i \in DOMAIN pbs : pbs[i].override = o /\ h \in pbs[i].bdd_mf

\* A probe array has one probe for each override, and none of a rule is empty.
WellFormed(pbs) ==
  /\ pbs \in Seq(Probe)
  /\ \A i, k \in DOMAIN pbs : pbs[i].override = pbs[k].override => i = k
  /\ \A i \in DOMAIN pbs : pbs[i].override # NULL => pbs[i].bdd_mf # {}

\* No probe of the array is empty.
Filled(pbs) == \A i \in DOMAIN pbs : pbs[i].bdd_mf # {}

\* What is in an array is the union of its probes.
LEMMA UnionHas ==
  ASSUME NEW pbs
  PROVE  UnionOf(pbs) = {h \in UnionOf(pbs) : \E o : Has(pbs, o, h)}
         /\ \A o, h : Has(pbs, o, h) => h \in UnionOf(pbs)
BY DEF UnionOf, Has

\* The types of an array of probes.
LEMMA ProbeTypes ==
  ASSUME NEW pbs \in Seq(Probe)
  PROVE  /\ Len(pbs) \in Nat
         /\ DOMAIN pbs = 1 .. Len(pbs)
         /\ \A i \in DOMAIN pbs : /\ pbs[i] \in Probe
                                  /\ pbs[i].override \in Rules \union {NULL}
                                  /\ pbs[i].bdd_mf \in SUBSET Headers
                                  /\ \A h \in pbs[i].bdd_mf : h \in Headers
<1>1. \A i \in DOMAIN pbs : pbs[i] \in Probe
  OBVIOUS
<1> QED
  BY <1>1 DEF Probe

\* Kept keeps the probes with the indices of K, each once.
LEMMA KeptProbes ==
  ASSUME NEW pbs \in Seq(Probe), NEW K \in SUBSET DOMAIN pbs
  PROVE  /\ Kept(pbs, K) \in Seq(Probe)
         /\ \A k \in DOMAIN Kept(pbs, K) : \E i \in K : Kept(pbs, K)[k] = pbs[i]
         /\ \A i \in K : \E k \in DOMAIN Kept(pbs, K) : Kept(pbs, K)[k] = pbs[i]
         /\ (\A i, k \in K : pbs[i].override = pbs[k].override => i = k) =>
              \A i, k \in DOMAIN Kept(pbs, K) :
                Kept(pbs, K)[i].override = Kept(pbs, K)[k].override => i = k
<1> DEFINE n == Cardinality(K)
           new == Kept(pbs, K)
           f == InOrder(K)
<1>1. Len(pbs) \in Nat /\ DOMAIN pbs = 1 .. Len(pbs)
  OBVIOUS
<1>2. K \in SUBSET Nat /\ IsFiniteSet(K)
  <2>1. IsFiniteSet(1 .. Len(pbs))
    BY <1>1, FS_Interval
  <2> QED
    BY <1>1, <2>1, FS_Subset
<1>3. /\ n \in Nat
      /\ \A k \in 1 .. n : f[k] \in K
      /\ \A i \in K : \E k \in 1 .. n : f[k] = i
      /\ \A k, l \in 1 .. n : f[k] = f[l] => k = l
  BY <1>2, InOrderNumbers
<1>4. DOMAIN new = 1 .. n /\ \A k \in 1 .. n : new[k] = pbs[f[k]]
  BY DEF Kept
<1>5. new \in Seq(Probe)
  <2>1. \A k \in 1 .. n : pbs[f[k]] \in Probe
    BY <1>3
  <2>2. new = [k \in 1 .. n |-> pbs[f[k]]]
    BY DEF Kept
  <2> HIDE DEF n, f, new
  <2> QED
    BY <1>3, <2>1, <2>2
<1> HIDE DEF n, f, new
<1>6. \A k \in DOMAIN new : \E i \in K : new[k] = pbs[i]
  BY <1>3, <1>4
<1>7. \A i \in K : \E k \in DOMAIN new : new[k] = pbs[i]
  BY <1>3, <1>4
<1>8. ASSUME \A i, k \in K : pbs[i].override = pbs[k].override => i = k
      PROVE  \A i, k \in DOMAIN new : new[i].override = new[k].override => i = k
  <2> SUFFICES ASSUME NEW i \in 1 .. n, NEW k \in 1 .. n,
                      new[i].override = new[k].override
               PROVE  i = k
    BY <1>4
  <2>1. f[i] = f[k]
    BY <1>3, <1>4, <1>8
  <2> QED
    BY <1>3, <2>1
<1> QED
  BY <1>5, <1>6, <1>7, <1>8 DEF new

\* The probes of Kept hold what the probes with the indices of K hold.
LEMMA KeptHas ==
  ASSUME NEW pbs \in Seq(Probe), NEW K \in SUBSET DOMAIN pbs, NEW o, NEW h
  PROVE  Has(Kept(pbs, K), o, h) <=>
           \E i \in K : pbs[i].override = o /\ h \in pbs[i].bdd_mf
BY KeptProbes DEF Has

\* A well-formed array without some of its probes is well-formed.
LEMMA KeptWellFormed ==
  ASSUME NEW pbs \in Seq(Probe), NEW K \in SUBSET DOMAIN pbs,
         \A i, k \in K : pbs[i].override = pbs[k].override => i = k,
         \A i \in K : pbs[i].override # NULL => pbs[i].bdd_mf # {}
  PROVE  WellFormed(Kept(pbs, K))
<1>1. \A k \in DOMAIN Kept(pbs, K) : \E i \in K : Kept(pbs, K)[k] = pbs[i]
  BY KeptProbes
<1>2. \A k \in DOMAIN Kept(pbs, K) :
        Kept(pbs, K)[k].override # NULL => Kept(pbs, K)[k].bdd_mf # {}
  BY <1>1
<1> QED
  BY <1>2, KeptProbes DEF WellFormed

\* One more probe at the end.
LEMMA AppendProbe ==
  ASSUME NEW pbs, WellFormed(pbs), NEW pb \in Probe,
         \A i \in DOMAIN pbs : pbs[i].override # pb.override,
         pb.override # NULL => pb.bdd_mf # {}
  PROVE  /\ WellFormed(Append(pbs, pb))
         /\ \A o, h : Has(Append(pbs, pb), o, h) <=>
                        Has(pbs, o, h) \/ (pb.override = o /\ h \in pb.bdd_mf)
         /\ Filled(pbs) /\ pb.bdd_mf # {} => Filled(Append(pbs, pb))
<1> DEFINE new == Append(pbs, pb)
           n == Len(pbs)
<1>1. pbs \in Seq(Probe) /\ n \in Nat /\ DOMAIN pbs = 1 .. n
  BY DEF WellFormed
<1>2. /\ new \in Seq(Probe) /\ DOMAIN new = 1 .. (n + 1)
      /\ new[n + 1] = pb /\ \A i \in 1 .. n : new[i] = pbs[i]
  BY <1>1
<1>3. \A i \in 1 .. (n + 1) : i \in 1 .. n \/ i = n + 1
  BY <1>1
<1>4. 1 .. n \subseteq 1 .. (n + 1) /\ n + 1 \in 1 .. (n + 1)
  BY <1>1
<1> HIDE DEF new, n
<1>5. \A i, k \in DOMAIN new : new[i].override = new[k].override => i = k
  BY <1>1, <1>2, <1>3 DEF WellFormed
<1>6. \A i \in DOMAIN new : new[i].override # NULL => new[i].bdd_mf # {}
  BY <1>1, <1>2, <1>3 DEF WellFormed
<1>7. \A o, h : Has(new, o, h) <=>
                  Has(pbs, o, h) \/ (pb.override = o /\ h \in pb.bdd_mf)
  BY <1>1, <1>2, <1>3, <1>4 DEF Has
<1>8. Filled(pbs) /\ pb.bdd_mf # {} => Filled(new)
  BY <1>1, <1>2, <1>3 DEF Filled
<1> QED
  BY <1>2, <1>5, <1>6, <1>7, <1>8 DEF WellFormed, new

\* One more probe at the front.
LEMMA PrependProbe ==
  ASSUME NEW pbs, WellFormed(pbs), NEW pb \in Probe,
         \A i \in DOMAIN pbs : pbs[i].override # pb.override,
         pb.override # NULL => pb.bdd_mf # {}
  PROVE  /\ WellFormed(<<pb>> \o pbs)
         /\ \A o, h : Has(<<pb>> \o pbs, o, h) <=>
                        Has(pbs, o, h) \/ (pb.override = o /\ h \in pb.bdd_mf)
         /\ Filled(pbs) /\ pb.bdd_mf # {} => Filled(<<pb>> \o pbs)
<1> DEFINE new == <<pb>> \o pbs
           n == Len(pbs)
<1>1. pbs \in Seq(Probe) /\ n \in Nat /\ DOMAIN pbs = 1 .. n
  BY DEF WellFormed
<1>2. /\ new \in Seq(Probe) /\ DOMAIN new = 1 .. (n + 1)
      /\ new[1] = pb /\ \A i \in 1 .. n : new[i + 1] = pbs[i]
  BY <1>1
<1>3. \A i \in 1 .. (n + 1) : i = 1 \/ \E k \in 1 .. n : i = k + 1
  <2> TAKE i \in 1 .. (n + 1)
  <2>1. i # 1 => i - 1 \in 1 .. n /\ i = (i - 1) + 1
    BY <1>1
  <2> QED
    BY <2>1
<1>4. 1 \in 1 .. (n + 1) /\ \A k \in 1 .. n : k + 1 \in 1 .. (n + 1)
  BY <1>1
<1> HIDE DEF new, n
<1>5. \A i \in DOMAIN new : \/ i = 1 /\ new[i] = pb
                           \/ \E k \in DOMAIN pbs : i = k + 1 /\ new[i] = pbs[k]
  <2> TAKE i \in DOMAIN new
  <2>1. CASE i = 1
    BY <1>2, <2>1
  <2>2. CASE \E k \in 1 .. n : i = k + 1
    <3>1. PICK k \in 1 .. n : i = k + 1
      BY <2>2
    <3>2. new[i] = pbs[k]
      BY <1>2, <3>1
    <3> QED
      BY <1>1, <3>1, <3>2
  <2> QED
    BY <1>2, <1>3, <2>1, <2>2
<1>6. \A k \in DOMAIN pbs : \E i \in DOMAIN new : new[i] = pbs[k]
  BY <1>1, <1>2, <1>4
<1>7. 1 \in DOMAIN new /\ new[1] = pb
  BY <1>2, <1>4
<1>8. \A i, k \in DOMAIN new : new[i].override = new[k].override => i = k
  BY <1>5 DEF WellFormed
<1>9. \A i \in DOMAIN new : new[i].override # NULL => new[i].bdd_mf # {}
  BY <1>5 DEF WellFormed
<1>10. \A o, h : Has(new, o, h) <=>
                  Has(pbs, o, h) \/ (pb.override = o /\ h \in pb.bdd_mf)
  BY <1>5, <1>6, <1>7 DEF Has
<1>11. Filled(pbs) /\ pb.bdd_mf # {} => Filled(new)
  BY <1>5 DEF Filled
<1> QED
  BY <1>2, <1>8, <1>9, <1>10, <1>11 DEF WellFormed, new

-----------------------------------------------------------------------------
(* Who decides a header, and who would decide it next.                     *)

\* Rules are positions, and the null pointer is none.
LEMMA NullNotRule == NULL \notin Rules /\ Rules \subseteq Nat
BY RulesAssumption

\* Rule r decides header h among the rules of S.
First(mf, S, r, h) ==
  r \in S /\ h \in mf[r] /\ \A x \in S : h \in mf[x] => r <= x

\* Rule o, or no rule, decides h among the rules of S other than r.
IsNext(mf, S, r, o, h) ==
  IF o = NULL THEN \A x \in S \ {r} : h \notin mf[x] ELSE First(mf, S \ {r}, o, h)

\* Best finds the rule that decides a header, NULL if there is none.
LEMMA BestIsFirst ==
  ASSUME NEW mf, NEW S \in SUBSET Rules, NEW h
  PROVE  /\ \A r \in S : Best(mf, S, h) = r <=> First(mf, S, r, h)
         /\ Best(mf, S, h) = NULL <=> \A x \in S : h \notin mf[x]
         /\ Best(mf, S, h) \in S \union {NULL}
<1> DEFINE M == Matching(mf, S, h)
<1>1. M \in SUBSET Nat /\ M \subseteq S /\ \A x : x \in M <=> x \in S /\ h \in mf[x]
  BY NullNotRule DEF Matching
<1>2. CASE M = {}
  BY <1>1, <1>2, NullNotRule DEF Best, First
<1>3. CASE M # {}
  <2>1. PICK b \in M : \A x \in M : b <= x
    <3> HIDE DEF M
    <3> QED
      BY <1>1, <1>3, SmallestPosition
  <2>2. \A c \in M : (\A x \in M : c <= x) => c = b
    BY <1>1, <2>1
  <2>3. Best(mf, S, h) = b
    BY <1>3, <2>1, <2>2 DEF Best
  <2>4. b \in S /\ b # NULL /\ h \in mf[b]
    BY <1>1, NullNotRule
  <2>5. \A r \in S : First(mf, S, r, h) <=> r = b
    <3> TAKE r \in S
    <3>1. First(mf, S, r, h) => r \in M /\ \A x \in M : r <= x
      BY <1>1 DEF First
    <3>2. First(mf, S, b, h)
      BY <1>1, <2>1, <2>4 DEF First
    <3> HIDE DEF M
    <3> QED
      BY <2>2, <3>1, <3>2
  <2> QED
    BY <2>3, <2>4, <2>5
<1> QED
  BY <1>2, <1>3

\* The same for the rule that would decide a header next.
LEMMA BestWithoutIsNext ==
  ASSUME NEW mf, NEW S \in SUBSET Rules, NEW r, NEW h
  PROVE  \A o \in Rules \union {NULL} :
           BestWithout(mf, S, r, h) = o <=> IsNext(mf, S, r, o, h)
<1>1. S \ {r} \in SUBSET Rules
  OBVIOUS
<1>2. /\ \A o \in S \ {r} : BestWithout(mf, S, r, h) = o <=> First(mf, S \ {r}, o, h)
      /\ BestWithout(mf, S, r, h) = NULL <=> \A x \in S \ {r} : h \notin mf[x]
      /\ BestWithout(mf, S, r, h) \in (S \ {r}) \union {NULL}
  BY <1>1, BestIsFirst DEF BestWithout
<1>3. \A o \in Rules : o \notin S \ {r} => ~ First(mf, S \ {r}, o, h)
  BY DEF First
<1>4. TAKE o \in Rules \union {NULL}
<1>5. CASE o = NULL
  BY <1>2, <1>5 DEF IsNext
<1>6. CASE o # NULL
  BY <1>2, <1>3, <1>6 DEF IsNext
<1> QED
  BY <1>5, <1>6

\* There is always exactly one rule, or none, that would decide a header next.
LEMMA NextExists ==
  ASSUME NEW mf, NEW S \in SUBSET Rules, NEW r, NEW h
  PROVE  \E o \in S \union {NULL} : IsNext(mf, S, r, o, h)
<1>1. S \ {r} \in SUBSET Rules
  OBVIOUS
<1>2. BestWithout(mf, S, r, h) \in S \union {NULL}
  BY <1>1, BestIsFirst DEF BestWithout
<1> QED
  BY <1>2, BestWithoutIsNext

LEMMA NextUnique ==
  ASSUME NEW mf, NEW S \in SUBSET Rules, NEW r, NEW h,
         NEW o \in Rules \union {NULL}, NEW u \in Rules \union {NULL},
         IsNext(mf, S, r, o, h), IsNext(mf, S, r, u, h)
  PROVE  o = u
BY BestWithoutIsNext

-----------------------------------------------------------------------------
(* What each operation makes of the probe array of one rule.               *)

\* The types that every lemma about the arrays needs.
Typed == mf_in \in [Rules -> SUBSET Headers] /\ pbset \in [Rules -> ProbeSet \union {NULL}]

LEMMA TypedProbeSet ==
  ASSUME Typed, NEW x \in Rules, pbset[x] # NULL
  PROVE  /\ pbset[x] \in ProbeSet
         /\ pbset[x].bdd_hit \in SUBSET Headers
         /\ pbset[x].probes \in Seq(Probe)
         /\ Hit(x) = pbset[x].bdd_hit
BY DEF Typed, ProbeSet, Hit

\* InsertAbove moves to r what r would decide next, and loses nothing.
LEMMA InsertAboveArray ==
  ASSUME Typed, NEW r \in Rules, NEW x \in Rules, pbset[x] # NULL,
         WellFormed(pbset[x].probes),
         \A i \in DOMAIN pbset[x].probes : pbset[x].probes[i].override # r
  PROVE  /\ InsertAbove(r, x) \in ProbeSet
         /\ InsertAbove(r, x).bdd_hit = pbset[x].bdd_hit
         /\ WellFormed(InsertAbove(r, x).probes)
         /\ Filled(pbset[x].probes) => Filled(InsertAbove(r, x).probes)
         /\ \A o, h : Has(InsertAbove(r, x).probes, o, h) <=>
              \/ Has(pbset[x].probes, o, h) /\ ~ (h \in mf_in[r] /\ (o = NULL \/ o >= r))
              \/ /\ o = r /\ h \in mf_in[r]
                 /\ \E u : Has(pbset[x].probes, u, h) /\ (u = NULL \/ u >= r)
<1> DEFINE pbs    == pbset[x].probes
           given  == {i \in DOMAIN pbs : Yields(pbs[i], r)}
           left   == [i \in DOMAIN pbs |->
                        IF i \in given THEN [pbs[i] EXCEPT !.bdd_mf = @ \ mf_in[r]] ELSE pbs[i]]
           kept   == {i \in DOMAIN pbs : i \in given => left[i].bdd_mf # {}}
           newpb  == [bdd_mf |-> UNION {pbs[i].bdd_mf \intersect mf_in[r] : i \in given},
                      override |-> r]
           new == InsertAbove(r, x)
<1>1. pbset[x] \in ProbeSet /\ pbs \in Seq(Probe) /\ mf_in[r] \in SUBSET Headers
  BY TypedProbeSet DEF Typed
<1>2. /\ Len(pbs) \in Nat /\ DOMAIN pbs = 1 .. Len(pbs)
      /\ \A i \in DOMAIN pbs : /\ pbs[i] \in Probe
                               /\ pbs[i].override \in Rules \union {NULL}
                               /\ pbs[i].bdd_mf \in SUBSET Headers
  BY <1>1, ProbeTypes
<1>3. \A i \in DOMAIN pbs : i \in given <=>
         /\ pbs[i].override = NULL \/ pbs[i].override >= r
         /\ pbs[i].bdd_mf \intersect mf_in[r] # {}
  BY DEF Yields
<1>4. CASE given = {}
  <2>1. new = pbset[x]
    BY <1>4 DEF InsertAbove
  <2>2. \A o, h : Has(pbs, o, h) /\ h \in mf_in[r] => ~ (o = NULL \/ o >= r)
    BY <1>3, <1>4 DEF Has
  <2> QED
    BY <1>1, <2>1, <2>2
<1>5. CASE given # {}
  <2>1. new = [pbset[x] EXCEPT !.probes = Append(Kept(left, kept), newpb)]
    BY <1>5 DEF InsertAbove
  <2>2. \A i \in DOMAIN pbs :
          /\ left[i] \in Probe
          /\ left[i].override = pbs[i].override
          /\ i \in given => left[i].bdd_mf = pbs[i].bdd_mf \ mf_in[r]
          /\ i \notin given => left[i].bdd_mf = pbs[i].bdd_mf
    <3> TAKE i \in DOMAIN pbs
    <3>1. pbs[i] \in Probe
      BY <1>2
    <3>2. CASE i \in given
      <4>1. left[i] = [pbs[i] EXCEPT !.bdd_mf = pbs[i].bdd_mf \ mf_in[r]]
        BY <3>2
      <4> HIDE DEF left, given, pbs
      <4> QED
        BY <3>1, <3>2, <4>1 DEF Probe
    <3>3. CASE i \notin given
      <4>1. left[i] = pbs[i]
        BY <3>3
      <4> HIDE DEF left, given, pbs
      <4> QED
        BY <3>1, <3>3, <4>1
    <3> QED
      BY <3>2, <3>3
  <2>3. left \in Seq(Probe) /\ DOMAIN left = DOMAIN pbs
    <3>1. left = [i \in 1 .. Len(pbs) |-> left[i]]
      BY <1>2
    <3>2. \A i \in 1 .. Len(pbs) : left[i] \in Probe
      BY <1>2, <2>2
    <3> HIDE DEF left, pbs
    <3> QED
      BY <1>2, <3>1, <3>2
  <2>4. newpb \in Probe /\ newpb.override = r
        /\ newpb.bdd_mf = UNION {pbs[i].bdd_mf \intersect mf_in[r] : i \in given}
    <3>1. newpb.bdd_mf \in SUBSET Headers
      BY <1>1
    <3> QED
      BY <3>1 DEF Probe
  <2>5. newpb.bdd_mf # {}
    BY <1>3, <1>5, <2>4
  <2>6. kept \in SUBSET DOMAIN pbs
    OBVIOUS
  <2>7. \A i \in kept : (i \in given => left[i].bdd_mf # {})
    OBVIOUS
  <2>8. \A i \in DOMAIN pbs : i \notin kept => i \in given /\ left[i].bdd_mf = {}
    OBVIOUS
  <2> HIDE DEF pbs, given, left, kept, newpb, new
  <2>9. WellFormed(Kept(left, kept))
    <3>1. \A i, k \in kept : left[i].override = left[k].override => i = k
      BY <2>2, <2>6 DEF WellFormed, pbs
    <3>2. \A i \in kept : left[i].override # NULL => left[i].bdd_mf # {}
      BY <2>2, <2>6, <2>7 DEF WellFormed, pbs
    <3> QED
      BY <2>3, <2>6, <3>1, <3>2, KeptWellFormed
  <2>10. \A k \in DOMAIN Kept(left, kept) : \E i \in kept : Kept(left, kept)[k] = left[i]
    BY <2>3, <2>6, KeptProbes
  <2>11. \A k \in DOMAIN Kept(left, kept) : Kept(left, kept)[k].override # newpb.override
    BY <2>2, <2>4, <2>6, <2>10 DEF pbs
  <2>12. Filled(pbs) => Filled(Kept(left, kept))
    BY <2>2, <2>6, <2>7, <2>10 DEF Filled
  <2>13. /\ WellFormed(Append(Kept(left, kept), newpb))
         /\ \A o, h : Has(Append(Kept(left, kept), newpb), o, h) <=>
              Has(Kept(left, kept), o, h) \/ (newpb.override = o /\ h \in newpb.bdd_mf)
         /\ Filled(pbs) => Filled(Append(Kept(left, kept), newpb))
    BY <2>4, <2>5, <2>9, <2>11, <2>12, AppendProbe
  <2>14. /\ new \in ProbeSet /\ new.bdd_hit = pbset[x].bdd_hit
         /\ new.probes = Append(Kept(left, kept), newpb)
    <3>1. Append(Kept(left, kept), newpb) \in Seq(Probe)
      BY <2>13 DEF WellFormed
    <3> QED
      BY <1>1, <2>1, <3>1 DEF ProbeSet
  <2>15. \A o, h : Has(Kept(left, kept), o, h) <=>
            Has(pbs, o, h) /\ ~ (h \in mf_in[r] /\ (o = NULL \/ o >= r))
    <3> TAKE o, h
    <3>1. Has(Kept(left, kept), o, h) <=>
            \E i \in kept : left[i].override = o /\ h \in left[i].bdd_mf
      BY <2>3, <2>6, KeptHas
    <3>2. ASSUME NEW i \in kept, left[i].override = o, h \in left[i].bdd_mf
          PROVE  Has(pbs, o, h) /\ ~ (h \in mf_in[r] /\ (o = NULL \/ o >= r))
      BY <1>3, <2>2, <2>6, <3>2 DEF Has
    <3>3. ASSUME NEW i \in DOMAIN pbs, pbs[i].override = o, h \in pbs[i].bdd_mf,
                 ~ (h \in mf_in[r] /\ (o = NULL \/ o >= r))
          PROVE  i \in kept /\ left[i].override = o /\ h \in left[i].bdd_mf
      BY <1>3, <2>2, <2>8, <3>3
    <3> QED
      BY <3>1, <3>2, <3>3 DEF Has
  <2>16. \A o, h : (newpb.override = o /\ h \in newpb.bdd_mf) <=>
            /\ o = r /\ h \in mf_in[r]
            /\ \E u : Has(pbs, u, h) /\ (u = NULL \/ u >= r)
    <3> TAKE o, h
    <3>1. h \in newpb.bdd_mf <=> \E i \in given : h \in pbs[i].bdd_mf /\ h \in mf_in[r]
      BY <2>4
    <3>2. given \subseteq DOMAIN pbs
      BY DEF given
    <3> QED
      BY <1>3, <2>4, <3>1, <3>2 DEF Has
  <2>17. \A o, h : Has(new.probes, o, h) <=>
            \/ Has(pbs, o, h) /\ ~ (h \in mf_in[r] /\ (o = NULL \/ o >= r))
            \/ /\ o = r /\ h \in mf_in[r]
               /\ \E u : Has(pbs, u, h) /\ (u = NULL \/ u >= r)
    <3> TAKE o, h
    <3>1. Has(new.probes, o, h) <=>
            Has(Kept(left, kept), o, h) \/ (newpb.override = o /\ h \in newpb.bdd_mf)
      BY <2>13, <2>14
    <3> QED
      BY <2>15, <2>16, <3>1
  <2> QED
    BY <2>13, <2>14, <2>17 DEF new, pbs
<1> QED
  BY <1>4, <1>5

\* InsertBelow takes from x what r decides, and may lose more only where a probe
\* of x becomes empty.
LEMMA InsertBelowArray ==
  ASSUME Typed, NEW r \in Rules, NEW x \in Rules, pbset[x] # NULL,
         WellFormed(pbset[x].probes)
  PROVE  /\ InsertBelow(r, x) \in ProbeSet \union {NULL}
         /\ InsertBelow(r, x) = NULL <=> pbset[x].bdd_hit \ HitOf(r) = {}
         /\ InsertBelow(r, x) # NULL =>
              /\ InsertBelow(r, x).bdd_hit = pbset[x].bdd_hit \ HitOf(r)
              /\ WellFormed(InsertBelow(r, x).probes)
              /\ Filled(InsertBelow(r, x).probes)
              /\ \A o, h : Has(InsertBelow(r, x).probes, o, h) =>
                             Has(pbset[x].probes, o, h) /\ h \notin mf_in[r]
              /\ (\A i \in DOMAIN pbset[x].probes :
                     pbset[x].probes[i].bdd_mf \ mf_in[r] # {}) =>
                   \A o, h : Has(pbset[x].probes, o, h) /\ h \notin mf_in[r] =>
                              Has(InsertBelow(r, x).probes, o, h)
<1> DEFINE pbs  == pbset[x].probes
           left == [i \in DOMAIN pbs |-> [pbs[i] EXCEPT !.bdd_mf = @ \ mf_in[r]]]
           emptied == {i \in DOMAIN pbs : left[i].bdd_mf = {}}
           firstEmpty == CHOOSE i \in emptied : \A k \in emptied : i <= k
           hit  == pbset[x].bdd_hit \ HitOf(r)
           rest == IF emptied = {} THEN left ELSE SubSeq(left, 1, firstEmpty - 1)
           new  == InsertBelow(r, x)
<1>1. new = IF hit = {} THEN NULL ELSE [bdd_hit |-> hit, probes |-> rest]
  BY DEF InsertBelow
<1>2. CASE hit = {}
  BY <1>1, <1>2
<1>3. CASE hit # {}
  <2>1. /\ pbset[x].bdd_hit \in SUBSET Headers
        /\ pbs \in Seq(Probe) /\ mf_in[r] \in SUBSET Headers
    BY TypedProbeSet DEF Typed
  <2>2. /\ Len(pbs) \in Nat /\ DOMAIN pbs = 1 .. Len(pbs)
        /\ \A i \in DOMAIN pbs : /\ pbs[i] \in Probe
                                 /\ pbs[i].override \in Rules \union {NULL}
                                 /\ pbs[i].bdd_mf \in SUBSET Headers
    BY <2>1, ProbeTypes
  <2>3. \A i \in DOMAIN pbs : /\ left[i] \in Probe
                              /\ left[i].override = pbs[i].override
                              /\ left[i].bdd_mf = pbs[i].bdd_mf \ mf_in[r]
    <3> TAKE i \in DOMAIN pbs
    <3>1. pbs[i] \in Probe
      BY <2>2
    <3>2. left[i] = [pbs[i] EXCEPT !.bdd_mf = pbs[i].bdd_mf \ mf_in[r]]
      OBVIOUS
    <3> HIDE DEF left, pbs
    <3> QED
      BY <3>1, <3>2 DEF Probe
  <2>4. left \in Seq(Probe) /\ DOMAIN left = DOMAIN pbs /\ Len(left) = Len(pbs)
    <3>1. left = [i \in 1 .. Len(pbs) |-> left[i]]
      BY <2>2
    <3>2. \A i \in 1 .. Len(pbs) : left[i] \in Probe
      BY <2>2, <2>3
    <3> HIDE DEF left, pbs
    <3> QED
      BY <2>2, <3>1, <3>2
  <2>5. \A i \in DOMAIN pbs : i \in emptied <=> left[i].bdd_mf = {}
    OBVIOUS
  <2>6. emptied # {} => /\ firstEmpty \in emptied
                        /\ \A k \in emptied : firstEmpty <= k
    <3>1. emptied \in SUBSET Nat
      BY <2>2
    <3> HIDE DEF emptied
    <3> QED
      BY <3>1, SmallestPosition
  <2>7. emptied \subseteq 1 .. Len(pbs)
    BY <2>2
  <2> HIDE DEF left, emptied, firstEmpty
  <2>8. /\ rest \in Seq(Probe)
        /\ DOMAIN rest \subseteq DOMAIN left
        /\ \A i \in DOMAIN rest : rest[i] = left[i] /\ i \notin emptied
        /\ emptied = {} => rest = left
    <3>1. CASE emptied = {}
      BY <2>4, <3>1
    <3>2. CASE emptied # {}
      <4>1. firstEmpty \in 1 .. Len(pbs)
        BY <2>6, <2>7, <3>2
      <4>2. rest = SubSeq(left, 1, firstEmpty - 1)
        BY <3>2
      <4>3. /\ rest \in Seq(Probe)
            /\ DOMAIN rest = 1 .. (firstEmpty - 1)
            /\ \A i \in 1 .. (firstEmpty - 1) : rest[i] = left[i]
        <5> HIDE DEF rest, pbs
        <5> QED
          BY <2>2, <2>4, <4>1, <4>2
      <4>4. 1 .. (firstEmpty - 1) \subseteq 1 .. Len(pbs)
        BY <2>2, <4>1
      <4>5. \A i \in 1 .. (firstEmpty - 1) : i \notin emptied
        <5>1. \A i \in 1 .. (firstEmpty - 1) : ~ (firstEmpty <= i)
          BY <2>2, <4>1
        <5> QED
          BY <2>6, <3>2, <5>1
      <4> HIDE DEF rest, pbs
      <4> QED
        BY <2>2, <2>4, <3>2, <4>3, <4>4, <4>5
    <3> QED
      BY <3>1, <3>2
  <2> HIDE DEF pbs, rest, hit
  <2>9. WellFormed(rest)
    BY <2>3, <2>4, <2>5, <2>8 DEF WellFormed, pbs
  <2>10. Filled(rest)
    BY <2>4, <2>5, <2>8 DEF Filled
  <2>11. \A o, h : Has(rest, o, h) => Has(pbs, o, h) /\ h \notin mf_in[r]
    BY <2>3, <2>4, <2>8 DEF Has
  <2>12. ASSUME \A i \in DOMAIN pbs : pbs[i].bdd_mf \ mf_in[r] # {}
         PROVE  \A o, h : Has(pbs, o, h) /\ h \notin mf_in[r] => Has(rest, o, h)
    <3>1. emptied = {}
      BY <2>3, <2>5, <2>7, <2>2, <2>12
    <3> QED
      BY <2>3, <2>4, <2>8, <3>1 DEF Has
  <2>13. /\ new = [bdd_hit |-> hit, probes |-> rest]
         /\ new.bdd_hit = hit /\ new.probes = rest /\ new \in ProbeSet
    <3>1. hit \in SUBSET Headers
      BY <2>1 DEF hit
    <3> QED
      BY <1>1, <1>3, <2>8, <3>1 DEF ProbeSet
  <2>14. new # NULL
    BY <2>13, NullAssumption
  <2> QED
    BY <1>3, <2>9, <2>10, <2>11, <2>12, <2>13, <2>14 DEF pbs, hit
<1> QED
  BY <1>2, <1>3

\* RemoveAbove moves to no override what r would have decided next.
LEMMA RemoveAboveArray ==
  ASSUME Typed, NEW r \in Rules, NEW x \in Rules, pbset[x] # NULL,
         WellFormed(pbset[x].probes)
  PROVE  /\ RemoveAbove(r, x) \in ProbeSet
         /\ RemoveAbove(r, x).bdd_hit = pbset[x].bdd_hit
         /\ WellFormed(RemoveAbove(r, x).probes)
         /\ Filled(pbset[x].probes) => Filled(RemoveAbove(r, x).probes)
         /\ pbset[x].bdd_hit \intersect mf_in[r] = {} => RemoveAbove(r, x) = pbset[x]
         /\ pbset[x].bdd_hit \intersect mf_in[r] # {} =>
              \A o, h : Has(RemoveAbove(r, x).probes, o, h) <=>
                \/ o \notin {r, NULL} /\ Has(pbset[x].probes, o, h)
                \/ o = NULL /\ (Has(pbset[x].probes, r, h) \/ Has(pbset[x].probes, NULL, h))
<1> DEFINE pbs    == pbset[x].probes
           merged == {i \in DOMAIN pbs : pbs[i].override \in {r, NULL}}
           null   == [bdd_mf |-> UNION {pbs[i].bdd_mf : i \in merged}, override |-> NULL]
           kept   == Kept(pbs, DOMAIN pbs \ merged)
           hasNull == \E i \in DOMAIN pbs : pbs[i].override = NULL
           new == RemoveAbove(r, x)
<1>1. pbset[x] \in ProbeSet /\ pbs \in Seq(Probe)
  BY TypedProbeSet
<1>2. /\ Len(pbs) \in Nat /\ DOMAIN pbs = 1 .. Len(pbs)
      /\ \A i \in DOMAIN pbs : /\ pbs[i] \in Probe
                               /\ pbs[i].override \in Rules \union {NULL}
                               /\ pbs[i].bdd_mf \in SUBSET Headers
  BY <1>1, ProbeTypes
<1>3. CASE pbset[x].bdd_hit \intersect mf_in[r] = {}
  <2>1. new = pbset[x]
    BY <1>3 DEF RemoveAbove
  <2> QED
    BY <1>1, <1>3, <2>1
<1>4. CASE pbset[x].bdd_hit \intersect mf_in[r] # {}
  <2>1. new = [pbset[x] EXCEPT !.probes =
                 IF hasNull \/ null.bdd_mf # {} THEN <<null>> \o kept ELSE kept]
    BY <1>4 DEF RemoveAbove
  <2>2. /\ merged \in SUBSET DOMAIN pbs
        /\ DOMAIN pbs \ merged \in SUBSET DOMAIN pbs
        /\ \A i \in DOMAIN pbs : i \in merged <=> pbs[i].override \in {r, NULL}
    OBVIOUS
  <2>3. null \in Probe /\ null.override = NULL
        /\ null.bdd_mf = UNION {pbs[i].bdd_mf : i \in merged}
    <3>1. null.bdd_mf \in SUBSET Headers
      BY <1>2
    <3> QED
      BY <3>1 DEF Probe
  <2>4. hasNull <=> \E i \in DOMAIN pbs : pbs[i].override = NULL
    OBVIOUS
  <2> DEFINE K == DOMAIN pbs \ merged
  <2>5. K \in SUBSET DOMAIN pbs /\ kept = Kept(pbs, K)
        /\ \A i \in DOMAIN pbs : i \in K <=> pbs[i].override \notin {r, NULL}
    OBVIOUS
  <2> HIDE DEF pbs, merged, null, kept, hasNull, K, new
  <2>6. WellFormed(kept)
    BY <1>1, <2>5, KeptWellFormed DEF WellFormed, pbs
  <2>7. \A k \in DOMAIN kept : \E i \in K : kept[k] = pbs[i]
    BY <1>1, <2>5, KeptProbes
  <2>8. \A k \in DOMAIN kept : kept[k].override # null.override
    BY <2>3, <2>5, <2>7
  <2>9. Filled(pbs) => Filled(kept)
    BY <2>5, <2>7 DEF Filled
  <2>10. \A o, h : Has(kept, o, h) <=> o \notin {r, NULL} /\ Has(pbs, o, h)
    <3> TAKE o, h
    <3>1. Has(kept, o, h) <=> \E i \in K : pbs[i].override = o /\ h \in pbs[i].bdd_mf
      BY <1>1, <2>5, KeptHas
    <3> QED
      BY <2>5, <3>1 DEF Has
  <2>11. \A h : h \in null.bdd_mf <=> Has(pbs, r, h) \/ Has(pbs, NULL, h)
    BY <2>2, <2>3 DEF Has
  <2>12. /\ WellFormed(<<null>> \o kept)
         /\ \A o, h : Has(<<null>> \o kept, o, h) <=>
              Has(kept, o, h) \/ (null.override = o /\ h \in null.bdd_mf)
         /\ Filled(kept) /\ null.bdd_mf # {} => Filled(<<null>> \o kept)
    BY <2>3, <2>6, <2>8, PrependProbe
  <2>13. Filled(pbs) /\ hasNull => null.bdd_mf # {}
    BY <2>2, <2>3, <2>4 DEF Filled
  <2>14. /\ new \in ProbeSet /\ new.bdd_hit = pbset[x].bdd_hit
         /\ new.probes = IF hasNull \/ null.bdd_mf # {} THEN <<null>> \o kept ELSE kept
    <3>1. (IF hasNull \/ null.bdd_mf # {} THEN <<null>> \o kept ELSE kept) \in Seq(Probe)
      BY <2>6, <2>12 DEF WellFormed
    <3> QED
      BY <1>1, <2>1, <3>1 DEF ProbeSet
  <2>15. WellFormed(new.probes) /\ (Filled(pbs) => Filled(new.probes))
    BY <2>6, <2>9, <2>12, <2>13, <2>14
  <2>16. \A o, h : Has(new.probes, o, h) <=>
                \/ o \notin {r, NULL} /\ Has(pbs, o, h)
                \/ o = NULL /\ (Has(pbs, r, h) \/ Has(pbs, NULL, h))
    <3> TAKE o, h
    <3>1. CASE hasNull \/ null.bdd_mf # {}
      <4>1. Has(new.probes, o, h) <=>
              Has(kept, o, h) \/ (null.override = o /\ h \in null.bdd_mf)
        BY <2>12, <2>14, <3>1
      <4> QED
        BY <2>3, <2>10, <2>11, <4>1
    <3>2. CASE ~ hasNull /\ null.bdd_mf = {}
      <4>1. new.probes = kept
        BY <2>14, <3>2
      <4>2. ~ Has(pbs, r, h) /\ ~ Has(pbs, NULL, h)
        BY <2>11, <3>2
      <4> QED
        BY <2>10, <4>1, <4>2
    <3> QED
      BY <3>1, <3>2
  <2> QED
    BY <1>4, <2>14, <2>15, <2>16 DEF new, pbs
<1> QED
  BY <1>3, <1>4

\* ProbeOver finds the probe over rt, if there is one.
LEMMA ProbeOverFinds ==
  ASSUME NEW pbs, WellFormed(pbs), NEW rt
  PROVE  \/ ProbeOver(pbs, rt) = 0 /\ \A i \in DOMAIN pbs : pbs[i].override # rt
         \/ ProbeOver(pbs, rt) \in DOMAIN pbs /\ pbs[ProbeOver(pbs, rt)].override = rt
<1> DEFINE over == {i \in DOMAIN pbs : pbs[i].override = rt}
<1>1. DOMAIN pbs \subseteq Nat
  BY DEF WellFormed
<1>2. CASE over = {}
  BY <1>2 DEF ProbeOver
<1>3. CASE over # {}
  <2>1. PICK i \in over : TRUE
    BY <1>3
  <2>2. \A k \in over : k = i
    BY <2>1 DEF WellFormed
  <2>3. i \in over /\ \A k \in over : k <= i
    BY <1>1, <2>1, <2>2
  <2>4. ProbeOver(pbs, rt) = CHOOSE m \in over : \A k \in over : k <= m
    BY <1>3 DEF ProbeOver
  <2>5. ProbeOver(pbs, rt) \in over
    <3> HIDE DEF over
    <3> QED
      BY <2>3, <2>4
  <2> QED
    BY <2>5
<1> QED
  BY <1>2, <1>3

\* Resplit moves to rt what rt would now decide next, and loses nothing.
LEMMA ResplitArray ==
  ASSUME Typed, NEW x \in Rules, NEW rt \in Rules, NEW insc \in SUBSET Headers,
         pbset[x] # NULL, WellFormed(pbset[x].probes)
  PROVE  /\ Resplit(x, rt, insc) \in ProbeSet
         /\ Resplit(x, rt, insc).bdd_hit = pbset[x].bdd_hit
         /\ WellFormed(Resplit(x, rt, insc).probes)
         /\ Filled(pbset[x].probes) => Filled(Resplit(x, rt, insc).probes)
         /\ \A o, h : Has(Resplit(x, rt, insc).probes, o, h) <=>
              \/ /\ Has(pbset[x].probes, o, h)
                 /\ ~ (o = NULL /\ h \in pbset[x].bdd_hit /\ h \in insc)
              \/ /\ o = rt /\ h \in pbset[x].bdd_hit /\ h \in insc
                 /\ Has(pbset[x].probes, NULL, h)
<1> DEFINE pbs    == pbset[x].probes
           region == pbset[x].bdd_hit \intersect insc
           moved  == UNION {pbs[i].bdd_mf \intersect region :
                              i \in {m \in DOMAIN pbs : pbs[m].override = NULL}}
           target == ProbeOver(pbs, rt)
           left   == [i \in DOMAIN pbs |->
                        IF pbs[i].override = NULL
                          THEN [pbs[i] EXCEPT !.bdd_mf = @ \ region]
                        ELSE IF i = target
                          THEN [pbs[i] EXCEPT !.bdd_mf = @ \union moved]
                        ELSE pbs[i]]
           K      == {i \in DOMAIN left : left[i].override # NULL \/ left[i].bdd_mf # {}}
           kept   == Kept(left, K)
           newpb  == [bdd_mf |-> moved, override |-> rt]
           new    == Resplit(x, rt, insc)
<1>1. /\ pbset[x] \in ProbeSet /\ pbs \in Seq(Probe)
      /\ region \in SUBSET Headers /\ rt # NULL
  BY TypedProbeSet, NullNotRule
<1>2. /\ Len(pbs) \in Nat /\ DOMAIN pbs = 1 .. Len(pbs)
      /\ \A i \in DOMAIN pbs : /\ pbs[i] \in Probe
                               /\ pbs[i].override \in Rules \union {NULL}
                               /\ pbs[i].bdd_mf \in SUBSET Headers
  BY <1>1, ProbeTypes
<1>3. \A h : h \in moved <=> h \in region /\ Has(pbs, NULL, h)
  BY DEF Has
<1>4. CASE moved = {}
  <2>1. new = pbset[x]
    BY <1>4 DEF Resplit
  <2>2. \A h \in region : ~ Has(pbs, NULL, h)
    <3> HIDE DEF moved, region, pbs
    <3> QED
      BY <1>3, <1>4
  <2> QED
    BY <1>1, <2>1, <2>2
<1>5. CASE moved # {}
  <2>1. new = [pbset[x] EXCEPT !.probes = IF target = 0 THEN Append(kept, newpb) ELSE kept]
    BY <1>5 DEF Resplit
  <2>2. moved \in SUBSET Headers
    BY <1>1
  <2>3. \/ target = 0 /\ \A i \in DOMAIN pbs : pbs[i].override # rt
        \/ target \in DOMAIN pbs /\ pbs[target].override = rt
    BY ProbeOverFinds
  <2>4. target = 0 => target \notin DOMAIN pbs
    BY <1>2
  <2>5. \A i \in DOMAIN pbs :
          /\ left[i] \in Probe
          /\ left[i].override = pbs[i].override
          /\ pbs[i].override = NULL => left[i].bdd_mf = pbs[i].bdd_mf \ region
          /\ pbs[i].override # NULL /\ i = target =>
               left[i].bdd_mf = pbs[i].bdd_mf \union moved
          /\ pbs[i].override # NULL /\ i # target => left[i].bdd_mf = pbs[i].bdd_mf
    <3> TAKE i \in DOMAIN pbs
    <3>1. pbs[i] \in Probe
      BY <1>2
    <3>2. left[i] = IF pbs[i].override = NULL
                      THEN [pbs[i] EXCEPT !.bdd_mf = pbs[i].bdd_mf \ region]
                    ELSE IF i = target
                      THEN [pbs[i] EXCEPT !.bdd_mf = pbs[i].bdd_mf \union moved]
                    ELSE pbs[i]
      OBVIOUS
    <3> HIDE DEF left, pbs, moved, region, target
    <3> QED
      BY <2>2, <3>1, <3>2 DEF Probe
  <2>6. left \in Seq(Probe) /\ DOMAIN left = DOMAIN pbs
    <3>1. left = [i \in 1 .. Len(pbs) |-> left[i]]
      BY <1>2
    <3>2. \A i \in 1 .. Len(pbs) : left[i] \in Probe
      BY <1>2, <2>5
    <3> HIDE DEF left, pbs
    <3> QED
      BY <1>2, <3>1, <3>2
  <2>7. /\ K \in SUBSET DOMAIN left
        /\ \A i \in DOMAIN left : i \in K <=> left[i].override # NULL \/ left[i].bdd_mf # {}
    OBVIOUS
  <2>8. newpb \in Probe /\ newpb.override = rt /\ newpb.bdd_mf = moved
    BY <2>2 DEF Probe
  <2> HIDE DEF pbs, region, moved, target, left, K, newpb, new
  <2>9. \A i, k \in K : left[i].override = left[k].override => i = k
    BY <2>5, <2>6, <2>7 DEF WellFormed, pbs
  <2>10. \A i \in K : left[i].bdd_mf # {}
    <3> TAKE i \in K
    <3>1. CASE pbs[i].override = NULL
      BY <2>5, <2>6, <2>7, <3>1
    <3>2. CASE pbs[i].override # NULL
      <4>1. pbs[i].bdd_mf # {}
        BY <2>6, <2>7, <3>2 DEF WellFormed, pbs
      <4> QED
        BY <2>5, <2>6, <2>7, <3>2, <4>1
    <3> QED
      BY <3>1, <3>2
  <2>11. WellFormed(kept)
    BY <2>6, <2>7, <2>9, <2>10, KeptWellFormed DEF kept
  <2>12. \A k \in DOMAIN kept : \E i \in K : kept[k] = left[i]
    BY <2>6, <2>7, KeptProbes DEF kept
  <2>13. Filled(kept)
    BY <2>10, <2>12 DEF Filled
  <2>14. \A o, h : Has(kept, o, h) <=>
            \/ Has(pbs, o, h) /\ ~ (o = NULL /\ h \in region)
            \/ o = rt /\ target # 0 /\ h \in moved
    <3> TAKE o, h
    <3>1. Has(kept, o, h) <=> \E i \in K : left[i].override = o /\ h \in left[i].bdd_mf
      BY <2>6, <2>7, KeptHas DEF kept
    <3>2. ASSUME NEW i \in K, left[i].override = o, h \in left[i].bdd_mf
          PROVE  \/ Has(pbs, o, h) /\ ~ (o = NULL /\ h \in region)
                 \/ o = rt /\ target # 0 /\ h \in moved
      BY <1>1, <2>3, <2>4, <2>5, <2>6, <2>7, <3>2 DEF Has
    <3>3. ASSUME NEW i \in DOMAIN pbs, pbs[i].override = o, h \in pbs[i].bdd_mf,
                 ~ (o = NULL /\ h \in region)
          PROVE  i \in K /\ left[i].override = o /\ h \in left[i].bdd_mf
      BY <2>5, <2>6, <2>7, <3>3
    <3>4. ASSUME o = rt, target # 0, h \in moved
          PROVE  target \in K /\ left[target].override = o /\ h \in left[target].bdd_mf
      BY <1>1, <2>3, <2>5, <2>6, <2>7, <3>4
    <3> QED
      BY <3>1, <3>2, <3>3, <3>4 DEF Has
  <2>15. ASSUME target = 0
         PROVE  /\ WellFormed(Append(kept, newpb))
                /\ \A o, h : Has(Append(kept, newpb), o, h) <=>
                      Has(kept, o, h) \/ (newpb.override = o /\ h \in newpb.bdd_mf)
                /\ Filled(kept) /\ newpb.bdd_mf # {} => Filled(Append(kept, newpb))
    <3>1. \A k \in DOMAIN kept : kept[k].override # newpb.override
      BY <2>3, <2>4, <2>5, <2>6, <2>7, <2>8, <2>12, <2>15
    <3> QED
      BY <1>5, <2>8, <2>11, <3>1, AppendProbe
  <2>16. /\ new \in ProbeSet /\ new.bdd_hit = pbset[x].bdd_hit
         /\ new.probes = IF target = 0 THEN Append(kept, newpb) ELSE kept
    <3>1. (IF target = 0 THEN Append(kept, newpb) ELSE kept) \in Seq(Probe)
      BY <2>11, <2>15 DEF WellFormed
    <3> QED
      BY <1>1, <2>1, <3>1 DEF ProbeSet
  <2>17. WellFormed(new.probes) /\ Filled(new.probes)
    BY <1>5, <2>8, <2>11, <2>13, <2>15, <2>16
  <2>18. \A o, h : Has(new.probes, o, h) <=>
            \/ Has(pbs, o, h) /\ ~ (o = NULL /\ h \in region)
            \/ o = rt /\ h \in region /\ Has(pbs, NULL, h)
    <3> TAKE o, h
    <3>1. Has(new.probes, o, h) <=> Has(kept, o, h) \/ (target = 0 /\ o = rt /\ h \in moved)
      BY <2>8, <2>15, <2>16
    <3> QED
      BY <1>3, <2>14, <3>1
  <2>19. \A h : h \in region <=> h \in pbset[x].bdd_hit /\ h \in insc
    BY DEF region
  <2> QED
    BY <2>16, <2>17, <2>18, <2>19 DEF new, pbs
<1> QED
  BY <1>4, <1>5

\* The probes of a new rule split what it decides by the lower rules that lose it.
LEMMA OwnProbesArray ==
  ASSUME Typed, NEW r \in Rules, net \in SUBSET Rules, IsFiniteSet(net)
  PROVE  /\ WellFormed(OwnProbes(r))
         /\ HitOf(r) # {} => Filled(OwnProbes(r))
         /\ Losers(r) = {} => DOMAIN OwnProbes(r) # {}
         /\ \A o, h : Has(OwnProbes(r), o, h) <=>
              /\ h \in HitOf(r)
              /\ \/ /\ o \in Losers(r) /\ h \in Hit(o)
                    /\ \A y \in Losers(r) : y < o => h \notin Hit(y)
                 \/ o = NULL /\ \A y \in Losers(r) : h \notin Hit(y)
<1> DEFINE L == Losers(r)
           n == Cardinality(L)
           order == InOrder(L)
           part(x) == (HitOf(r) \ UNION {Hit(y) : y \in {z \in L : z < x}}) \intersect Hit(x)
           rest == HitOf(r) \ UNION {Hit(y) : y \in L}
           all == [k \in DOMAIN order |-> [bdd_mf |-> part(order[k]), override |-> order[k]]]
           K == {i \in DOMAIN all : all[i].bdd_mf # {}}
           over == Kept(all, K)
           last == [bdd_mf |-> rest, override |-> NULL]
           new == OwnProbes(r)
<1>1. /\ L \in SUBSET net /\ IsFiniteSet(L) /\ L \in SUBSET Nat /\ L \in SUBSET Rules
      /\ \A x \in L : Hit(x) \intersect HitOf(r) # {}
  <2>1. L \in SUBSET net
    BY DEF Losers, Below
  <2>2. IsFiniteSet(L)
    <3> HIDE DEF L
    <3> QED
      BY <2>1, FS_Subset
  <2> QED
    BY <2>1, <2>2, NullNotRule DEF Losers
<1>2. HitOf(r) \in SUBSET Headers
  BY DEF HitOf, Typed
<1>3. /\ n \in Nat /\ DOMAIN order = 1 .. n
      /\ \A k \in 1 .. n : order[k] \in L
      /\ \A x \in L : \E k \in 1 .. n : order[k] = x
      /\ \A k, l \in 1 .. n : order[k] = order[l] => k = l
  <2> HIDE DEF L
  <2> QED
    BY <1>1, InOrderNumbers
<1>4. /\ DOMAIN all = 1 .. n
      /\ \A k \in 1 .. n : /\ all[k].override = order[k]
                            /\ all[k].bdd_mf = part(order[k])
                            /\ all[k] = [bdd_mf |-> part(order[k]), override |-> order[k]]
  BY <1>3
<1>5. new = IF L # {} /\ rest = {} THEN over ELSE Append(over, last)
  BY DEF OwnProbes, NonEmpty
<1>6. \A x \in L : \A h : h \in part(x) <=>
         /\ h \in HitOf(r) /\ h \in Hit(x)
         /\ \A y \in L : y < x => h \notin Hit(y)
  OBVIOUS
<1>7. \A h : h \in rest <=> h \in HitOf(r) /\ \A y \in L : h \notin Hit(y)
  OBVIOUS
<1>8. K \in SUBSET DOMAIN all /\ \A k \in DOMAIN all : k \in K <=> all[k].bdd_mf # {}
  OBVIOUS
<1>9. last.bdd_mf = rest /\ last.override = NULL /\ last \in Probe
  BY <1>2 DEF Probe
<1>10. all \in Seq(Probe)
  <2>1. \A k \in 1 .. n : all[k] \in Probe
    <3> TAKE k \in 1 .. n
    <3>1. part(order[k]) \in SUBSET Headers /\ order[k] \in Rules
      <4>1. part(order[k]) \subseteq HitOf(r)
        OBVIOUS
      <4> HIDE DEF part, order
      <4> QED
        BY <1>1, <1>2, <1>3, <4>1
    <3> HIDE DEF part, order, all
    <3> QED
      BY <1>4, <3>1 DEF Probe
  <2>2. all = [k \in 1 .. n |-> all[k]]
    BY <1>4
  <2> HIDE DEF all, n
  <2> QED
    BY <1>3, <2>1, <2>2
<1> HIDE DEF L, n, order, part, rest, all, K, last, new
<1>11. \A i, k \in K : all[i].override = all[k].override => i = k
  BY <1>3, <1>4, <1>8
<1>12. WellFormed(over)
  BY <1>8, <1>10, <1>11, KeptWellFormed
<1>13. \A k \in DOMAIN over : \E i \in K : over[k] = all[i]
  BY <1>8, <1>10, KeptProbes
<1>14. Filled(over)
  BY <1>8, <1>13 DEF Filled
<1>15. \A k \in DOMAIN over : over[k].override # last.override
  <2>1. \A i \in K : all[i].override \in Rules
    BY <1>1, <1>3, <1>4, <1>8
  <2> QED
    BY <1>9, <1>13, <2>1, NullNotRule
<1>16. \A o, h : Has(over, o, h) <=> o \in L /\ h \in part(o)
  <2> TAKE o, h
  <2>1. Has(over, o, h) <=> \E i \in K : all[i].override = o /\ h \in all[i].bdd_mf
    BY <1>8, <1>10, KeptHas
  <2>2. ASSUME NEW i \in K, all[i].override = o, h \in all[i].bdd_mf
        PROVE  o \in L /\ h \in part(o)
    BY <1>3, <1>4, <1>8, <2>2
  <2>3. ASSUME o \in L, h \in part(o)
        PROVE  \E i \in K : all[i].override = o /\ h \in all[i].bdd_mf
    <3>1. PICK i \in 1 .. n : order[i] = o
      BY <1>3, <2>3
    <3>2. all[i].override = o /\ all[i].bdd_mf = part(o)
      BY <1>4, <3>1
    <3> QED
      BY <1>4, <1>8, <2>3, <3>2
  <2> QED
    BY <2>1, <2>2, <2>3
<1>17. /\ WellFormed(Append(over, last))
       /\ \A o, h : Has(Append(over, last), o, h) <=>
             Has(over, o, h) \/ (last.override = o /\ h \in last.bdd_mf)
       /\ Filled(over) /\ last.bdd_mf # {} => Filled(Append(over, last))
  BY <1>9, <1>12, <1>15, AppendProbe
<1>18. WellFormed(new)
  BY <1>5, <1>12, <1>17
<1>19. HitOf(r) # {} => Filled(new)
  BY <1>5, <1>7, <1>9, <1>14, <1>17
<1>20. \A o, h : Has(new, o, h) <=> (o \in L /\ h \in part(o)) \/ (o = NULL /\ h \in rest)
  <2> TAKE o, h
  <2>1. CASE L # {} /\ rest = {}
    BY <1>5, <1>16, <2>1
  <2>2. CASE ~ (L # {} /\ rest = {})
    <3>1. Has(new, o, h) <=> Has(over, o, h) \/ (last.override = o /\ h \in last.bdd_mf)
      BY <1>5, <1>17, <2>2
    <3> QED
      BY <1>9, <1>16, <3>1
  <2> QED
    BY <2>1, <2>2
<1>21. \A o, h : Has(new, o, h) <=>
         /\ h \in HitOf(r)
         /\ \/ /\ o \in L /\ h \in Hit(o)
               /\ \A y \in L : y < o => h \notin Hit(y)
            \/ o = NULL /\ \A y \in L : h \notin Hit(y)
  BY <1>6, <1>7, <1>20
<1>22. L = {} => DOMAIN new # {}
  <2>1. Len(over) \in Nat /\ DOMAIN Append(over, last) = 1 .. Len(over) + 1
    BY <1>9, <1>12 DEF WellFormed
  <2>2. 1 \in 1 .. Len(over) + 1
    BY <2>1
  <2> QED
    BY <1>5, <2>1, <2>2
<1> QED
  BY <1>18, <1>19, <1>21, <1>22 DEF new, L

-----------------------------------------------------------------------------
(* The inductive invariant.                                                *)

\* TypeOK, and what it leaves open about probe sets.
Types ==
  /\ Typed
  /\ net \in SUBSET Rules /\ IsFiniteSet(net)
  /\ todo \in SUBSET net
  /\ removed \in Rules \union {NULL}
  /\ (todo = {}) <=> (removed = NULL)
  /\ \A r \in Rules \ net : pbset[r] = NULL

Arrays == \A x \in net : pbset[x] # NULL => WellFormed(pbset[x].probes)

\* The second loop of UpdateProbesRemove has visited the rules above the ones
\* that are left.
TodoIsRest == \A y \in todo : removed < y /\ \A x \in net \ todo : x < y

\* bdd_hit is exact, but for what the removed rule leaves to the rules that the
\* loop has still to visit.
HitsSoFar ==
  \A x \in net :
    /\ \A h : h \in Hit(x) <=>
          First(mf_in, net, x, h) /\ (x \in todo => h \notin mf_in[removed])
    /\ mf_in[x] # {} => (pbset[x] = NULL <=> Hit(x) = {})

\* Override o of header h at rule x is right, or NULL as long as the rule that
\* takes the place of the removed one has not been visited.
OverrideSoFar(x, o, h) ==
  IF o = NULL
    THEN \/ IsNext(mf_in, net, x, NULL, h)
         \/ h \in mf_in[removed] /\ \E y \in todo : IsNext(mf_in, net, x, y, h)
    ELSE IsNext(mf_in, net, x, o, h) /\ ~ (h \in mf_in[removed] /\ o \in todo)

OverridesSoFar ==
  \A x \in net : pbset[x] # NULL =>
    \A o, h : Has(pbset[x].probes, o, h) => h \in Hit(x) /\ OverrideSoFar(x, o, h)

IInv == Types /\ Arrays /\ TodoIsRest /\ HitsSoFar /\ OverridesSoFar

LEMMA InitInvariant == Init => IInv
<1> SUFFICES ASSUME Init PROVE IInv
  OBVIOUS
<1>1. IsFiniteSet({})
  BY FS_EmptySet
<1>2. pbset \in [Rules -> ProbeSet \union {NULL}]
  BY DEF Init
<1> QED
  BY <1>1, <1>2 DEF Init, IInv, Types, Typed, Arrays, TodoIsRest, HitsSoFar, OverridesSoFar

\* What an added rule changes for the rules that decide.
LEMMA FirstWith ==
  ASSUME NEW mf, NEW S \in SUBSET Rules, NEW r \in Rules, r \notin S
  PROVE  /\ \A x \in S : \A h : First(mf, S \union {r}, x, h) <=>
                              First(mf, S, x, h) /\ ~ (h \in mf[r] /\ r < x)
         /\ \A h : First(mf, S \union {r}, r, h) <=>
                   h \in mf[r] /\ \A x \in S : x < r => h \notin mf[x]
<1> USE NullNotRule
<1>1. ASSUME NEW x \in S, NEW h
      PROVE  First(mf, S \union {r}, x, h) <=>
               First(mf, S, x, h) /\ ~ (h \in mf[r] /\ r < x)
  <2>1. x \in Nat /\ r \in Nat /\ x # r
    OBVIOUS
  <2>2. x <= r <=> ~ (r < x)
    BY <2>1
  <2> QED
    BY <2>2 DEF First
<1>2. ASSUME NEW h
      PROVE  First(mf, S \union {r}, r, h) <=>
               h \in mf[r] /\ \A x \in S : x < r => h \notin mf[x]
  <2>1. \A x \in S : r <= x <=> ~ (x < r)
    OBVIOUS
  <2>2. r <= r
    OBVIOUS
  <2> QED
    BY <2>1, <2>2 DEF First
<1> QED
  BY <1>1, <1>2

\* What an added rule changes for the rules that would decide next.
LEMMA NextWith ==
  ASSUME NEW mf, NEW S \in SUBSET Rules, NEW r \in Rules, r \notin S,
         NEW x \in S, NEW h, NEW o \in Rules \union {NULL}, IsNext(mf, S, x, o, h)
  PROVE  IF h \in mf[r] /\ (o = NULL \/ o >= r)
           THEN IsNext(mf, S \union {r}, x, r, h)
           ELSE IsNext(mf, S \union {r}, x, o, h)
<1> DEFINE T == S \ {x}
<1>1. T \in SUBSET Rules /\ r \notin T /\ (S \union {r}) \ {x} = T \union {r}
  OBVIOUS
<1>2. /\ \A y \in T : First(mf, T \union {r}, y, h) <=>
                       First(mf, T, y, h) /\ ~ (h \in mf[r] /\ r < y)
      /\ First(mf, T \union {r}, r, h) <=>
           h \in mf[r] /\ \A y \in T : y < r => h \notin mf[y]
  <2> HIDE DEF T
  <2> QED
    BY <1>1, FirstWith
<1>3. o # NULL => o \in T /\ o # r /\ o \in Nat /\ First(mf, T, o, h)
  BY <1>1, NullNotRule DEF IsNext, First
<1>4. o = NULL => \A y \in T : h \notin mf[y]
  BY DEF IsNext
<1>5. r \in Nat /\ r # NULL
  BY NullNotRule
<1>6. CASE h \in mf[r] /\ (o = NULL \/ o >= r)
  <2>1. \A y \in T : y < r => h \notin mf[y]
    <3>1. CASE o = NULL
      BY <1>4, <3>1
    <3>2. CASE o # NULL
      <4>1. \A y \in T : h \in mf[y] => o <= y
        BY <1>3, <3>2 DEF First
      <4>2. \A y \in T : y \in Nat
        BY <1>1, NullNotRule
      <4>3. \A y \in T : y < r => ~ (o <= y)
        BY <1>3, <1>5, <1>6, <3>2, <4>2
      <4> QED
        BY <4>1, <4>3
    <3> QED
      BY <3>1, <3>2
  <2>2. First(mf, T \union {r}, r, h)
    BY <1>2, <1>6, <2>1
  <2> QED
    BY <1>1, <1>5, <1>6, <2>2 DEF IsNext
<1>7. CASE ~ (h \in mf[r] /\ (o = NULL \/ o >= r))
  <2>1. CASE o = NULL
    BY <1>1, <1>4, <1>7, <2>1 DEF IsNext
  <2>2. CASE o # NULL
    <3>1. ~ (h \in mf[r] /\ r < o)
      BY <1>3, <1>5, <1>7, <2>2
    <3>2. First(mf, T \union {r}, o, h)
      BY <1>2, <1>3, <2>2, <3>1
    <3> QED
      BY <1>1, <1>7, <2>2, <3>2 DEF IsNext
  <2> QED
    BY <2>1, <2>2
<1> QED
  BY <1>6, <1>7

\* Where no removal is under way, the invariant says what it should say.
LEMMA AtRestInv ==
  ASSUME IInv, todo = {}
  PROVE  /\ \A x \in net : \A h : h \in Hit(x) <=> First(mf_in, net, x, h)
         /\ \A x \in net : mf_in[x] # {} => (pbset[x] = NULL <=> Hit(x) = {})
         /\ \A x \in net : pbset[x] # NULL =>
              /\ WellFormed(pbset[x].probes)
              /\ \A o, h : Has(pbset[x].probes, o, h) =>
                   /\ o \in Rules \union {NULL} /\ h \in Hit(x)
                   /\ IsNext(mf_in, net, x, o, h)
<1>1. \A x \in net : \A h : h \in Hit(x) <=> First(mf_in, net, x, h)
  BY DEF IInv, HitsSoFar
<1>2. \A x \in net : mf_in[x] # {} => (pbset[x] = NULL <=> Hit(x) = {})
  BY DEF IInv, HitsSoFar
<1>3. ASSUME NEW x \in net, pbset[x] # NULL
      PROVE  /\ WellFormed(pbset[x].probes)
             /\ \A o, h : Has(pbset[x].probes, o, h) =>
                  /\ o \in Rules \union {NULL} /\ h \in Hit(x)
                  /\ IsNext(mf_in, net, x, o, h)
  <2>1. WellFormed(pbset[x].probes)
    BY <1>3 DEF IInv, Arrays
  <2>2. ASSUME NEW o, NEW h, Has(pbset[x].probes, o, h)
        PROVE  /\ o \in Rules \union {NULL} /\ h \in Hit(x)
               /\ IsNext(mf_in, net, x, o, h)
    <3>1. o \in Rules \union {NULL}
      BY <2>1, <2>2, ProbeTypes DEF WellFormed, Has
    <3>2. h \in Hit(x) /\ OverrideSoFar(x, o, h)
      BY <1>3, <2>2 DEF IInv, OverridesSoFar
    <3> QED
      BY <3>1, <3>2 DEF OverrideSoFar
  <2> QED
    BY <2>1, <2>2
<1> QED
  BY <1>1, <1>2, <1>3

\* A rule below a new rule r loses what r matches of its headers.
LEMMA LoserLosesMatch ==
  ASSUME IInv, todo = {}, NEW r \in Rules, r \notin net
  PROVE  \A x \in net : \A h : r < x /\ h \in Hit(x) => (h \in mf_in[r] <=> h \in HitOf(r))
<1> SUFFICES ASSUME NEW x \in net, NEW h, r < x, h \in Hit(x)
             PROVE  h \in mf_in[r] <=> h \in HitOf(r)
  OBVIOUS
<1>1. \A y \in net : y \in Nat /\ r \in Nat /\ x \in Nat
  BY NullNotRule DEF IInv, Types
<1>2. \A y \in net : h \in mf_in[y] => x <= y
  BY AtRestInv DEF First
<1>3. \A y \in net : y < r => ~ (x <= y)
  BY <1>1
<1> QED
  BY <1>2, <1>3 DEF HitOf, Above

\* No probe has an override that is not in the net.
LEMMA NoProbeOverNew ==
  ASSUME IInv, todo = {}, NEW r \in Rules, r \notin net,
         NEW x \in net, pbset[x] # NULL
  PROVE  \A i \in DOMAIN pbset[x].probes : pbset[x].probes[i].override # r
<1> SUFFICES ASSUME NEW i \in DOMAIN pbset[x].probes, pbset[x].probes[i].override = r
             PROVE  FALSE
  OBVIOUS
<1>1. PICK h : h \in pbset[x].probes[i].bdd_mf
  BY AtRestInv, NullNotRule DEF WellFormed
<1>2. IsNext(mf_in, net, x, r, h)
  BY <1>1, AtRestInv DEF Has
<1> QED
  BY <1>2, NullNotRule DEF IsNext, First

\* The insertion of a rule keeps the invariant.
LEMMA InsertStep ==
  ASSUME IInv, NEW r \in Rules, UpdateProbesInsert(r)
  PROVE  IInv'
<1> DEFINE N == net \union {r}
           Good(x) ==
             /\ pbset'[x] \in ProbeSet \union {NULL}
             /\ \A h : h \in Hit(x)' <=> First(mf_in, N, x, h)
             /\ mf_in[x] # {} => (pbset'[x] = NULL <=> Hit(x)' = {})
             /\ pbset'[x] # NULL =>
                  /\ WellFormed(pbset'[x].probes)
                  /\ \A o, h : Has(pbset'[x].probes, o, h) =>
                       First(mf_in, N, x, h) /\ IsNext(mf_in, N, x, o, h)
<1>1. /\ todo = {} /\ todo' = {} /\ r \notin net /\ net' = N
      /\ mf_in' = mf_in /\ removed' = removed
  BY DEF UpdateProbesInsert
<1>2. /\ Typed /\ net \in SUBSET Rules /\ IsFiniteSet(net) /\ N \in SUBSET Rules
      /\ mf_in[r] \in SUBSET Headers /\ \A x \in net : x \in Nat /\ x # r
      /\ r \in Nat /\ r # NULL
  BY <1>1, NullNotRule DEF IInv, Types, Typed
<1>3. \A x \in Rules : pbset'[x] =
         IF x = r THEN OwnProbeSet(r)
         ELSE IF x \in Above(r) /\ pbset[x] # NULL THEN InsertAbove(r, x)
         ELSE IF x \in Losers(r) THEN InsertBelow(r, x)
         ELSE pbset[x]
  BY DEF UpdateProbesInsert
<1>4. /\ \A x \in net : \A h : h \in Hit(x) <=> First(mf_in, net, x, h)
      /\ \A x \in net : mf_in[x] # {} => (pbset[x] = NULL <=> Hit(x) = {})
      /\ \A x \in net : pbset[x] # NULL =>
           /\ WellFormed(pbset[x].probes)
           /\ \A o, h : Has(pbset[x].probes, o, h) =>
                /\ o \in Rules \union {NULL} /\ h \in Hit(x)
                /\ IsNext(mf_in, net, x, o, h)
  BY <1>1, AtRestInv
<1>5. /\ \A x \in net : \A h : First(mf_in, N, x, h) <=>
                             First(mf_in, net, x, h) /\ ~ (h \in mf_in[r] /\ r < x)
      /\ \A h : First(mf_in, N, r, h) <=>
                 h \in mf_in[r] /\ \A x \in net : x < r => h \notin mf_in[x]
  BY <1>1, <1>2, FirstWith
<1>6. \A h : h \in HitOf(r) <=> First(mf_in, N, r, h)
  BY <1>5 DEF HitOf, Above
<1>7. /\ Above(r) = {x \in net : x < r}
      /\ Losers(r) = {x \in net : x > r /\ Hit(x) \intersect HitOf(r) # {}}
  BY DEF Above, Losers, Below
<1>8. \A x \in net : \A h : r < x /\ h \in Hit(x) => (h \in mf_in[r] <=> h \in HitOf(r))
  BY <1>1, LoserLosesMatch
<1>9. \A x \in net : pbset[x] # NULL =>
         \A i \in DOMAIN pbset[x].probes : pbset[x].probes[i].override # r
  BY <1>1, NoProbeOverNew
<1>10. \A x \in net : \A o, h : o \in Rules \union {NULL} /\ IsNext(mf_in, net, x, o, h) =>
          IF h \in mf_in[r] /\ (o = NULL \/ o >= r)
            THEN IsNext(mf_in, N, x, r, h) ELSE IsNext(mf_in, N, x, o, h)
  BY <1>1, <1>2, NextWith
<1>11. Good(r)
  <2>1. /\ WellFormed(OwnProbes(r))
        /\ \A o, h : Has(OwnProbes(r), o, h) <=>
              /\ h \in HitOf(r)
              /\ \/ /\ o \in Losers(r) /\ h \in Hit(o)
                    /\ \A y \in Losers(r) : y < o => h \notin Hit(y)
                 \/ o = NULL /\ \A y \in Losers(r) : h \notin Hit(y)
    BY <1>2, OwnProbesArray
  <2>2. pbset'[r] = IF HitOf(r) = {} /\ Above(r) # {} THEN NULL
                    ELSE [bdd_hit |-> HitOf(r), probes |-> OwnProbes(r)]
    BY <1>3 DEF OwnProbeSet
  <2>3. [bdd_hit |-> HitOf(r), probes |-> OwnProbes(r)] \in ProbeSet
    <3>1. HitOf(r) \in SUBSET Headers
      BY <1>2 DEF HitOf
    <3> QED
      BY <2>1, <3>1 DEF ProbeSet, WellFormed
  <2>4. pbset'[r] \in ProbeSet \union {NULL} /\ Hit(r)' = HitOf(r)
    BY <2>2, <2>3, NullAssumption DEF Hit
  <2>5. mf_in[r] # {} => (pbset'[r] = NULL <=> Hit(r)' = {})
    <3>1. Above(r) = {} => HitOf(r) = mf_in[r]
      BY DEF HitOf
    <3> QED
      BY <2>2, <2>3, <2>4, <3>1, NullAssumption
  <2>6. ASSUME NEW o, NEW h, Has(OwnProbes(r), o, h)
        PROVE  First(mf_in, N, r, h) /\ IsNext(mf_in, N, r, o, h)
    <3>1. N \ {r} = net
      BY <1>1
    <3>2. h \in HitOf(r)
      BY <2>1, <2>6
    <3>3. CASE o \in Losers(r) /\ h \in Hit(o)
      <4>1. o \in net /\ o # NULL
        BY <1>2, <1>7, <3>3, NullNotRule
      <4> QED
        BY <1>4, <1>6, <3>1, <3>2, <3>3, <4>1 DEF IsNext
    <3>4. CASE o = NULL /\ \A y \in Losers(r) : h \notin Hit(y)
      <4>1. ASSUME NEW x \in net, h \in mf_in[x] PROVE FALSE
        <5>1. Best(mf_in, net, h) # NULL /\ Best(mf_in, net, h) \in net \union {NULL}
          BY <1>2, <4>1, BestIsFirst
        <5>2. PICK y \in net : y = Best(mf_in, net, h)
          BY <5>1
        <5>3. First(mf_in, net, y, h)
          BY <1>2, <5>2, BestIsFirst
        <5>4. ~ (y < r) /\ y > r
          BY <1>2, <1>5, <1>6, <3>2, <5>3 DEF First
        <5>5. y \in Losers(r) /\ h \in Hit(y)
          BY <1>4, <1>7, <3>2, <5>3, <5>4
        <5> QED
          BY <3>4, <5>5
      <4> QED
        BY <1>6, <3>1, <3>2, <3>4, <4>1 DEF IsNext
    <3> QED
      BY <2>1, <2>6, <3>3, <3>4
  <2>7. pbset'[r] # NULL => pbset'[r].probes = OwnProbes(r)
    BY <2>2
  <2> QED
    BY <1>6, <2>1, <2>4, <2>5, <2>6, <2>7
<1>12. ASSUME NEW x \in net, x < r, pbset[x] # NULL PROVE Good(x)
  <2>1. pbset'[x] = InsertAbove(r, x) /\ x \in Rules
    BY <1>2, <1>3, <1>7, <1>12
  <2>2. /\ InsertAbove(r, x) \in ProbeSet
        /\ InsertAbove(r, x).bdd_hit = pbset[x].bdd_hit
        /\ WellFormed(InsertAbove(r, x).probes)
        /\ \A o, h : Has(InsertAbove(r, x).probes, o, h) <=>
              \/ Has(pbset[x].probes, o, h) /\ ~ (h \in mf_in[r] /\ (o = NULL \/ o >= r))
              \/ /\ o = r /\ h \in mf_in[r]
                 /\ \E u : Has(pbset[x].probes, u, h) /\ (u = NULL \/ u >= r)
    BY <1>2, <1>4, <1>9, <1>12, <2>1, InsertAboveArray
  <2>3. Hit(x)' = Hit(x) /\ pbset'[x] # NULL
    BY <1>12, <2>1, <2>2, NullAssumption DEF Hit
  <2>4. ~ (r < x)
    BY <1>2, <1>12
  <2>5. \A h : First(mf_in, N, x, h) <=> First(mf_in, net, x, h)
    BY <1>5, <2>4
  <2>6. ASSUME NEW o, NEW h, Has(InsertAbove(r, x).probes, o, h)
        PROVE  First(mf_in, N, x, h) /\ IsNext(mf_in, N, x, o, h)
    <3>1. CASE Has(pbset[x].probes, o, h) /\ ~ (h \in mf_in[r] /\ (o = NULL \/ o >= r))
      <4>1. o \in Rules \union {NULL} /\ h \in Hit(x) /\ IsNext(mf_in, net, x, o, h)
        BY <1>4, <1>12, <3>1
      <4> QED
        BY <1>4, <1>10, <2>5, <3>1, <4>1
    <3>2. ASSUME o = r, h \in mf_in[r],
                 NEW u, Has(pbset[x].probes, u, h), u = NULL \/ u >= r
          PROVE  First(mf_in, N, x, h) /\ IsNext(mf_in, N, x, o, h)
      <4>1. u \in Rules \union {NULL} /\ h \in Hit(x) /\ IsNext(mf_in, net, x, u, h)
        BY <1>4, <1>12, <3>2
      <4> QED
        BY <1>4, <1>10, <2>5, <3>2, <4>1
    <3> QED
      BY <2>2, <2>6, <3>1, <3>2
  <2> QED
    BY <1>4, <1>12, <2>1, <2>2, <2>3, <2>5, <2>6
<1>13. ASSUME NEW x \in Losers(r) PROVE Good(x)
  <2>1. /\ x \in net /\ x \in Rules /\ r < x /\ x # r /\ x \notin Above(r)
        /\ pbset[x] # NULL
    BY <1>2, <1>7, <1>13 DEF Hit
  <2>2. pbset'[x] = InsertBelow(r, x)
    BY <1>3, <1>13, <2>1
  <2>3. /\ InsertBelow(r, x) \in ProbeSet \union {NULL}
        /\ InsertBelow(r, x) = NULL <=> pbset[x].bdd_hit \ HitOf(r) = {}
        /\ InsertBelow(r, x) # NULL =>
              /\ InsertBelow(r, x).bdd_hit = pbset[x].bdd_hit \ HitOf(r)
              /\ WellFormed(InsertBelow(r, x).probes)
              /\ \A o, h : Has(InsertBelow(r, x).probes, o, h) =>
                             Has(pbset[x].probes, o, h) /\ h \notin mf_in[r]
    BY <1>2, <1>4, <2>1, InsertBelowArray
  <2>4. Hit(x) = pbset[x].bdd_hit /\ Hit(x)' = Hit(x) \ HitOf(r)
    BY <2>1, <2>2, <2>3 DEF Hit
  <2>5. \A h : First(mf_in, N, x, h) <=> First(mf_in, net, x, h) /\ h \notin mf_in[r]
    BY <1>5, <2>1
  <2>6. \A h : h \in Hit(x)' <=> First(mf_in, N, x, h)
    BY <1>4, <1>8, <2>1, <2>4, <2>5
  <2>7. ASSUME InsertBelow(r, x) # NULL, NEW o, NEW h, Has(InsertBelow(r, x).probes, o, h)
        PROVE  First(mf_in, N, x, h) /\ IsNext(mf_in, N, x, o, h)
    <3>1. Has(pbset[x].probes, o, h) /\ h \notin mf_in[r]
      BY <2>3, <2>7
    <3>2. o \in Rules \union {NULL} /\ h \in Hit(x) /\ IsNext(mf_in, net, x, o, h)
      BY <1>4, <2>1, <3>1
    <3> QED
      BY <1>4, <1>10, <2>1, <2>5, <3>1, <3>2
  <2> QED
    BY <2>2, <2>3, <2>4, <2>6, <2>7
<1>14. ASSUME NEW x \in net, ~ (x < r /\ pbset[x] # NULL), x \notin Losers(r) PROVE Good(x)
  <2>1. pbset'[x] = pbset[x] /\ x \in Rules /\ pbset[x] \in ProbeSet \union {NULL}
    BY <1>2, <1>3, <1>7, <1>14 DEF Typed
  <2>2. Hit(x)' = Hit(x)
    BY <2>1 DEF Hit
  <2>3. r < x \/ (x < r /\ pbset[x] = NULL)
    BY <1>2, <1>14
  <2>4. r < x => \A h \in Hit(x) : h \notin mf_in[r]
    BY <1>2, <1>7, <1>8, <1>14
  <2>5. \A h : h \in Hit(x) <=> First(mf_in, N, x, h)
    <3>1. x < r => ~ (r < x)
      BY <1>2
    <3> QED
      BY <1>4, <1>5, <2>3, <2>4, <3>1
  <2>6. ASSUME pbset[x] # NULL, NEW o, NEW h, Has(pbset[x].probes, o, h)
        PROVE  First(mf_in, N, x, h) /\ IsNext(mf_in, N, x, o, h)
    <3>1. o \in Rules \union {NULL} /\ h \in Hit(x) /\ IsNext(mf_in, net, x, o, h)
      BY <1>4, <2>6
    <3>2. h \notin mf_in[r]
      BY <2>3, <2>4, <2>6, <3>1
    <3> QED
      BY <1>10, <2>5, <3>1, <3>2
  <2> QED
    BY <1>4, <2>1, <2>2, <2>5, <2>6
<1>15. \A x \in net' : Good(x)
  BY <1>1, <1>11, <1>12, <1>13, <1>14
<1>16. \A x \in Rules \ net' : pbset'[x] = pbset[x] /\ pbset[x] = NULL
  <2>1. \A x \in Rules \ net : pbset[x] = NULL
    BY DEF IInv, Types
  <2> QED
    BY <1>1, <1>3, <1>7, <2>1
<1>17. Types'
  <2>1. pbset' = [x \in Rules |-> pbset'[x]]
    BY DEF UpdateProbesInsert
  <2>2. \A x \in Rules : pbset'[x] \in ProbeSet \union {NULL}
    BY <1>15, <1>16
  <2>3. pbset' \in [Rules -> ProbeSet \union {NULL}]
    BY <2>1, <2>2
  <2>4. IsFiniteSet(N)
    BY <1>2, FS_AddElement
  <2>5. removed = NULL
    BY <1>1 DEF IInv, Types
  <2> QED
    BY <1>1, <1>2, <1>16, <2>3, <2>4, <2>5 DEF Types, Typed
<1>18. Arrays' /\ TodoIsRest' /\ HitsSoFar'
  BY <1>1, <1>15 DEF Arrays, TodoIsRest, HitsSoFar
<1>19. OverridesSoFar'
  <2> SUFFICES ASSUME NEW x \in net', pbset'[x] # NULL, NEW o, NEW h,
                      Has(pbset'[x].probes, o, h)
               PROVE  h \in Hit(x)' /\ OverrideSoFar(x, o, h)'
    BY DEF OverridesSoFar
  <2>1. h \in Hit(x)' /\ IsNext(mf_in, N, x, o, h)
    BY <1>15
  <2> QED
    BY <1>1, <2>1 DEF OverrideSoFar
<1> QED
  BY <1>17, <1>18, <1>19 DEF IInv

\* What the removal of rule r leaves to a rule that would decide next: r's own
\* place goes to a rule below r, or to none.
LEMMA NextLeft ==
  ASSUME NEW mf, NEW S \in SUBSET Rules, NEW r \in Rules, r \notin S,
         NEW x \in S, NEW h, NEW o \in Rules \union {NULL},
         IsNext(mf, S \union {r}, x, o, h)
  PROVE  IF o = r
           THEN /\ h \in mf[r]
                /\ \/ IsNext(mf, S, x, NULL, h)
                   \/ \E y \in S : y > r /\ IsNext(mf, S, x, y, h)
           ELSE IsNext(mf, S, x, o, h) /\ ~ (h \in mf[r] /\ (o = NULL \/ o >= r))
<1>1. PICK u \in S \union {NULL} : IsNext(mf, S, x, u, h)
  BY NextExists
<1>2. u \in Rules \union {NULL} /\ S \union {r} \in SUBSET Rules /\ r # NULL /\ r \in Nat
  BY NullNotRule
<1>3. IF h \in mf[r] /\ (u = NULL \/ u >= r)
        THEN IsNext(mf, S \union {r}, x, r, h)
        ELSE IsNext(mf, S \union {r}, x, u, h)
  BY <1>1, <1>2, NextWith
<1>4. CASE h \in mf[r] /\ (u = NULL \/ u >= r)
  <2>1. o = r
    BY <1>2, <1>3, <1>4, NextUnique
  <2>2. u # NULL => u \in S /\ u > r
    BY <1>2, <1>4, NullNotRule
  <2> QED
    BY <1>1, <1>4, <2>1, <2>2
<1>5. CASE ~ (h \in mf[r] /\ (u = NULL \/ u >= r))
  <2>1. o = u
    BY <1>2, <1>3, <1>5, NextUnique
  <2>2. o # r
    BY <1>1, <1>2, <2>1
  <2> QED
    BY <1>1, <1>5, <2>1, <2>2
<1> QED
  BY <1>4, <1>5

\* Taking a rule out, with the loop over the rules above it, keeps the invariant.
LEMMA RemoveStep ==
  ASSUME IInv, NEW r \in Rules, UpdateProbesRemove(r)
  PROVE  IInv'
<1> DEFINE S == net \ {r}
           T == {x \in net : x > r}
           Right(x, o, h) ==
             IF o = NULL
               THEN \/ IsNext(mf_in, S, x, NULL, h)
                    \/ h \in mf_in[r] /\ \E y \in T : IsNext(mf_in, S, x, y, h)
               ELSE IsNext(mf_in, S, x, o, h) /\ ~ (h \in mf_in[r] /\ o \in T)
           Good(x) ==
             /\ pbset'[x] \in ProbeSet \union {NULL}
             /\ Hit(x)' = Hit(x)
             /\ pbset'[x] = NULL <=> pbset[x] = NULL
             /\ pbset'[x] # NULL =>
                  /\ WellFormed(pbset'[x].probes)
                  /\ \A o, h : Has(pbset'[x].probes, o, h) => h \in Hit(x) /\ Right(x, o, h)
<1>1. /\ todo = {} /\ todo' = T /\ r \in net /\ net' = S /\ mf_in' = mf_in
      /\ removed' = IF T = {} THEN NULL ELSE r
  BY DEF UpdateProbesRemove, Below
<1>2. /\ Typed /\ net \in SUBSET Rules /\ IsFiniteSet(net) /\ S \in SUBSET Rules
      /\ net = S \union {r} /\ r \notin S
      /\ mf_in[r] \in SUBSET Headers /\ \A x \in S : x \in Nat /\ x # r /\ x \in net
      /\ r \in Nat /\ r # NULL
  BY <1>1, NullNotRule DEF IInv, Types, Typed
<1>3. \A x \in Rules : pbset'[x] =
         IF x = r THEN NULL
         ELSE IF x \in net /\ x < r /\ pbset[x] # NULL THEN RemoveAbove(r, x)
         ELSE pbset[x]
  BY DEF UpdateProbesRemove, Above
<1>4. /\ \A x \in net : \A h : h \in Hit(x) <=> First(mf_in, net, x, h)
      /\ \A x \in net : mf_in[x] # {} => (pbset[x] = NULL <=> Hit(x) = {})
      /\ \A x \in net : pbset[x] # NULL =>
           /\ WellFormed(pbset[x].probes)
           /\ \A o, h : Has(pbset[x].probes, o, h) =>
                /\ o \in Rules \union {NULL} /\ h \in Hit(x)
                /\ IsNext(mf_in, net, x, o, h)
  BY <1>1, AtRestInv
<1>5. T \in SUBSET S /\ \A x \in S : x \in T <=> r < x
  BY <1>2
<1>6. \A x \in S : \A h : First(mf_in, net, x, h) <=>
                        First(mf_in, S, x, h) /\ ~ (h \in mf_in[r] /\ r < x)
  <2> HIDE DEF S
  <2> QED
    BY <1>2, FirstWith
<1>7. \A x \in S : \A o, h : o \in Rules \union {NULL} /\ IsNext(mf_in, net, x, o, h) =>
         IF o = r
           THEN /\ h \in mf_in[r]
                /\ \/ IsNext(mf_in, S, x, NULL, h)
                   \/ \E y \in S : y > r /\ IsNext(mf_in, S, x, y, h)
           ELSE IsNext(mf_in, S, x, o, h) /\ ~ (h \in mf_in[r] /\ (o = NULL \/ o >= r))
  <2> HIDE DEF S
  <2> QED
    BY <1>2, NextLeft
<1>8. ASSUME NEW x \in S, pbset[x] # NULL, NEW o, NEW h, Has(pbset[x].probes, o, h)
      PROVE  /\ h \in Hit(x)
             /\ IF o = r THEN h \in mf_in[r] /\ x < r /\ Right(x, NULL, h)
                ELSE Right(x, o, h)
  <2>1. o \in Rules \union {NULL} /\ h \in Hit(x) /\ IsNext(mf_in, net, x, o, h)
    BY <1>2, <1>4, <1>8
  <2>2. CASE o = r
    <3>1. /\ h \in mf_in[r]
          /\ \/ IsNext(mf_in, S, x, NULL, h)
             \/ \E y \in S : y > r /\ IsNext(mf_in, S, x, y, h)
      <4> HIDE DEF S
      <4> QED
        BY <1>7, <2>1, <2>2
    <3>2. ~ (r < x) /\ x < r
      <4>1. First(mf_in, net, x, h)
        BY <1>2, <1>4, <2>1
      <4>2. ~ (r < x)
        BY <1>6, <3>1, <4>1
      <4> QED
        BY <1>2, <4>2
    <3> QED
      BY <1>2, <1>5, <2>1, <2>2, <3>1, <3>2
  <2>3. CASE o # r
    <3>1. IsNext(mf_in, S, x, o, h) /\ ~ (h \in mf_in[r] /\ (o = NULL \/ o >= r))
      <4> HIDE DEF S
      <4> QED
        BY <1>7, <2>1, <2>3
    <3>2. o \in T => o >= r
      BY <1>2
    <3> QED
      BY <2>1, <2>3, <3>1, <3>2
  <2> QED
    BY <2>2, <2>3
<1>9. ASSUME NEW x \in S, ~ (x < r /\ pbset[x] # NULL) PROVE Good(x)
  <2>1. pbset'[x] = pbset[x] /\ pbset[x] \in ProbeSet \union {NULL}
    BY <1>2, <1>3, <1>9 DEF Typed
  <2>2. Hit(x)' = Hit(x)
    BY <2>1 DEF Hit
  <2>3. ASSUME pbset[x] # NULL, NEW o, NEW h, Has(pbset[x].probes, o, h)
        PROVE  h \in Hit(x) /\ Right(x, o, h)
    <3> HIDE DEF Right
    <3> QED
      BY <1>8, <1>9, <2>3
  <2> HIDE DEF Right
  <2> QED
    BY <1>2, <1>4, <2>1, <2>2, <2>3
<1>10. ASSUME NEW x \in S, x < r, pbset[x] # NULL PROVE Good(x)
  <2> DEFINE new == RemoveAbove(r, x)
  <2>1. pbset'[x] = new /\ x \in Rules /\ x \in net /\ WellFormed(pbset[x].probes)
    BY <1>2, <1>3, <1>4, <1>10
  <2>2. /\ new \in ProbeSet /\ new.bdd_hit = pbset[x].bdd_hit
        /\ WellFormed(new.probes)
        /\ pbset[x].bdd_hit \intersect mf_in[r] = {} => new = pbset[x]
        /\ pbset[x].bdd_hit \intersect mf_in[r] # {} =>
             \A o, h : Has(new.probes, o, h) <=>
               \/ o \notin {r, NULL} /\ Has(pbset[x].probes, o, h)
               \/ o = NULL /\ (Has(pbset[x].probes, r, h) \/ Has(pbset[x].probes, NULL, h))
    BY <1>2, <1>10, <2>1, RemoveAboveArray
  <2>3. pbset'[x] # NULL /\ Hit(x) = pbset[x].bdd_hit /\ Hit(x)' = Hit(x)
    BY <1>10, <2>1, <2>2, NullAssumption DEF Hit
  <2> HIDE DEF new, Right
  <2>4. ASSUME NEW o, NEW h, Has(new.probes, o, h)
        PROVE  h \in Hit(x) /\ Right(x, o, h)
    <3>1. CASE pbset[x].bdd_hit \intersect mf_in[r] = {}
      <4>1. Has(pbset[x].probes, o, h)
        BY <2>2, <2>4, <3>1
      <4>2. h \in Hit(x) /\ (o = r => h \in mf_in[r])
        BY <1>8, <1>10, <4>1
      <4>3. o # r
        BY <2>3, <3>1, <4>2
      <4> QED
        BY <1>8, <1>10, <4>1, <4>3
    <3>2. CASE pbset[x].bdd_hit \intersect mf_in[r] # {}
      <4>1. CASE o \notin {r, NULL} /\ Has(pbset[x].probes, o, h)
        BY <1>8, <1>10, <4>1
      <4>2. CASE o = NULL /\ Has(pbset[x].probes, r, h)
        BY <1>8, <1>10, <4>2
      <4>3. CASE o = NULL /\ Has(pbset[x].probes, NULL, h)
        BY <1>2, <1>8, <1>10, <4>3
      <4> QED
        BY <2>2, <2>4, <3>2, <4>1, <4>2, <4>3
    <3> QED
      BY <3>1, <3>2
  <2> QED
    BY <1>10, <2>1, <2>2, <2>3, <2>4
<1>11. \A x \in net' : Good(x)
  BY <1>1, <1>9, <1>10
<1> HIDE DEF Good
<1>12. \A x \in Rules \ net' : pbset'[x] = NULL
  <2>1. \A x \in Rules \ net : pbset[x] = NULL
    BY DEF IInv, Types
  <2> QED
    BY <1>1, <1>3, <2>1
<1>13. Types'
  <2>1. pbset' = [x \in Rules |-> pbset'[x]]
    BY DEF UpdateProbesRemove
  <2>2. \A x \in Rules : pbset'[x] \in ProbeSet \union {NULL}
    BY <1>11, <1>12 DEF Good
  <2>3. pbset' \in [Rules -> ProbeSet \union {NULL}]
    BY <2>1, <2>2
  <2>4. IsFiniteSet(S)
    BY <1>2, FS_RemoveElement
  <2> QED
    BY <1>1, <1>2, <1>5, <1>12, <2>3, <2>4 DEF Types, Typed
<1>14. Arrays'
  BY <1>11 DEF Arrays, Good
<1>15. TodoIsRest'
  <2>1. ASSUME NEW y \in T PROVE r < y /\ \A x \in S \ T : x < y
    <3>1. \A x \in S \ T : ~ (x > r) /\ x \in Nat
      BY <1>2
    <3> QED
      BY <1>2, <2>1, <3>1
  <2> QED
    BY <1>1, <2>1 DEF TodoIsRest
<1>16. HitsSoFar'
  <2> SUFFICES ASSUME NEW x \in S
               PROVE  /\ \A h : h \in Hit(x)' <=>
                            First(mf_in, S, x, h) /\ (x \in T => h \notin mf_in[removed'])
                      /\ mf_in[x] # {} => (pbset'[x] = NULL <=> Hit(x)' = {})
    BY <1>1 DEF HitsSoFar
  <2>1. Hit(x)' = Hit(x) /\ (pbset'[x] = NULL <=> pbset[x] = NULL)
    BY <1>1, <1>11 DEF Good
  <2>2. x \in T => removed' = r
    BY <1>1
  <2>3. x \in net /\ (x \in T <=> r < x)
    BY <1>2
  <2> HIDE DEF T, S
  <2>4. \A h : h \in Hit(x) <=> First(mf_in, S, x, h) /\ ~ (h \in mf_in[r] /\ x \in T)
    BY <1>4, <1>6, <2>3
  <2>5. mf_in[x] # {} => (pbset'[x] = NULL <=> Hit(x)' = {})
    BY <1>4, <2>1, <2>3
  <2> QED
    BY <2>1, <2>2, <2>4, <2>5
<1>17. OverridesSoFar'
  <2> SUFFICES ASSUME NEW x \in S, pbset'[x] # NULL, NEW o, NEW h,
                      Has(pbset'[x].probes, o, h)
               PROVE  h \in Hit(x)' /\ OverrideSoFar(x, o, h)'
    BY <1>1 DEF OverridesSoFar
  <2>1. h \in Hit(x)' /\ Right(x, o, h)
    <3> HIDE DEF T, S, Right
    <3> QED
      BY <1>1, <1>11 DEF Good
  <2>2. T # {} => mf_in[removed'] = mf_in[r]
    BY <1>1
  <2>3. OverrideSoFar(x, o, h)' <=>
          IF o = NULL
            THEN \/ IsNext(mf_in, S, x, NULL, h)
                 \/ h \in mf_in[removed'] /\ \E y \in T : IsNext(mf_in, S, x, y, h)
            ELSE IsNext(mf_in, S, x, o, h) /\ ~ (h \in mf_in[removed'] /\ o \in T)
    BY <1>1 DEF OverrideSoFar
  <2>4. Right(x, o, h) <=>
          IF o = NULL
            THEN \/ IsNext(mf_in, S, x, NULL, h)
                 \/ h \in mf_in[r] /\ \E y \in T : IsNext(mf_in, S, x, y, h)
            ELSE IsNext(mf_in, S, x, o, h) /\ ~ (h \in mf_in[r] /\ o \in T)
    OBVIOUS
  <2> HIDE DEF T, S, Right
  <2>5. Right(x, o, h) => OverrideSoFar(x, o, h)'
    <3>1. CASE T = {}
      BY <2>3, <2>4, <3>1
    <3>2. CASE T # {}
      BY <2>2, <2>3, <2>4, <3>2
    <3> QED
      BY <3>1, <3>2
  <2> QED
    BY <2>1, <2>5
<1> QED
  BY <1>13, <1>14, <1>15, <1>16, <1>17 DEF IInv

\* The headers that no higher rule decides and that rt and the removed rule match
\* are the ones that the removed rule leaves to rt.
LEMMA Uncovered ==
  ASSUME NEW mf, NEW S \in SUBSET Rules, NEW rt \in S, NEW h, h \in mf[rt],
         \A x \in S : x < rt => ~ First(mf, S, x, h)
  PROVE  First(mf, S, rt, h)
<1>1. Best(mf, S, h) \in S \union {NULL} /\ Best(mf, S, h) # NULL
  BY BestIsFirst
<1>2. PICK b \in S : First(mf, S, b, h)
  BY <1>1, BestIsFirst
<1>3. b \in Nat /\ rt \in Nat /\ ~ (b < rt) /\ b <= rt
  BY <1>2, NullNotRule DEF First
<1>4. b = rt
  BY <1>3
<1> QED
  BY <1>2, <1>4

\* Visiting a rule below the removed one keeps the invariant.
LEMMA UncoverStep ==
  ASSUME IInv, NEW rt \in Rules, Uncover(rt)
  PROVE  IInv'
<1> DEFINE q == removed
           T == todo \ {rt}
           insc == mf_in[q] \intersect mf_in[rt]
           diff == insc \ UNION {Hit(x) : x \in Above(rt)}
           own == IF diff = {} THEN pbset[rt]
                  ELSE IF pbset[rt] # NULL THEN [pbset[rt] EXCEPT !.bdd_hit = @ \union diff]
                  ELSE [bdd_hit |-> diff,
                        probes |-> <<[bdd_mf |-> diff, override |-> NULL]>>]
           Right(x, o, h) ==
             IF o = NULL
               THEN \/ IsNext(mf_in, net, x, NULL, h)
                    \/ h \in mf_in[q] /\ \E y \in T : IsNext(mf_in, net, x, y, h)
               ELSE IsNext(mf_in, net, x, o, h) /\ ~ (h \in mf_in[q] /\ o \in T)
           Good(x) ==
             /\ pbset'[x] \in ProbeSet \union {NULL}
             /\ \A h : h \in Hit(x)' <=>
                   First(mf_in, net, x, h) /\ (x \in T => h \notin mf_in[q])
             /\ mf_in[x] # {} => (pbset'[x] = NULL <=> Hit(x)' = {})
             /\ pbset'[x] # NULL =>
                  /\ WellFormed(pbset'[x].probes)
                  /\ \A o, h : Has(pbset'[x].probes, o, h) => h \in Hit(x)' /\ Right(x, o, h)
<1>1. /\ rt \in todo /\ todo' = T /\ net' = net /\ mf_in' = mf_in
      /\ removed' = IF T = {} THEN NULL ELSE q
      /\ \A x \in todo : rt <= x
  BY DEF Uncover
<1>2. /\ Typed /\ net \in SUBSET Rules /\ IsFiniteSet(net) /\ todo \in SUBSET net
      /\ rt \in net /\ rt # NULL /\ rt \in Nat
      /\ q \in Rules /\ mf_in[q] \in SUBSET Headers /\ mf_in[rt] \in SUBSET Headers
  <2>1. removed # NULL
    BY <1>1 DEF IInv, Types
  <2> QED
    BY <1>1, <2>1, NullNotRule DEF IInv, Types, Typed
<1>3. \A x \in Rules : pbset'[x] =
         IF x = rt THEN own
         ELSE IF x \in net /\ x < rt /\ pbset[x] # NULL THEN Resplit(x, rt, insc)
         ELSE pbset[x]
  BY DEF Uncover, Above
<1>4. /\ \A x \in net : x \in T \/ x = rt \/ (x < rt /\ x \notin todo)
      /\ \A x \in T : x \in net /\ rt < x
      /\ \A x \in net : x < rt => x # rt /\ x \notin todo
  <2>1. \A x \in net : x \in Nat
    BY <1>2, NullNotRule
  <2>2. \A x \in net \ todo : x < rt
    BY <1>1 DEF IInv, TodoIsRest
  <2> QED
    BY <1>1, <1>2, <2>1, <2>2
<1>5. /\ \A x \in net : \A h : h \in Hit(x) <=>
            First(mf_in, net, x, h) /\ (x \in todo => h \notin mf_in[q])
      /\ \A x \in net : mf_in[x] # {} => (pbset[x] = NULL <=> Hit(x) = {})
      /\ \A x \in net : pbset[x] # NULL =>
           /\ WellFormed(pbset[x].probes)
           /\ \A o, h : Has(pbset[x].probes, o, h) => h \in Hit(x) /\ OverrideSoFar(x, o, h)
  BY DEF IInv, HitsSoFar, OverridesSoFar, Arrays
<1>6. \A h : h \in diff <=> h \in mf_in[q] /\ First(mf_in, net, rt, h)
  <2> TAKE h
  <2>1. h \in diff <=> h \in insc /\ \A x \in Above(rt) : ~ First(mf_in, net, x, h)
    BY <1>4, <1>5 DEF Above
  <2>2. ASSUME h \in insc, \A x \in Above(rt) : ~ First(mf_in, net, x, h)
        PROVE  First(mf_in, net, rt, h)
    BY <1>2, <2>2, Uncovered DEF Above
  <2>3. ASSUME First(mf_in, net, rt, h)
        PROVE  h \in mf_in[rt] /\ \A x \in Above(rt) : ~ First(mf_in, net, x, h)
    <3>1. \A x \in net : First(mf_in, net, x, h) => rt <= x
      BY <2>3 DEF First
    <3>2. \A x \in net : x \in Nat
      BY <1>2, NullNotRule
    <3>3. \A x \in Nat : x < rt => ~ (rt <= x)
      BY <1>2
    <3> QED
      BY <2>3, <3>1, <3>2, <3>3 DEF Above, First
  <2> HIDE DEF diff
  <2> QED
    BY <2>1, <2>2, <2>3
<1>7. \A x \in net : \A y, h : IsNext(mf_in, net, x, y, h) /\ y # NULL =>
         /\ y # x /\ y \in net /\ h \in mf_in[y]
         /\ \A z \in net \ {x} : h \in mf_in[z] => y <= z
  BY DEF IsNext, First
<1>8. ASSUME NEW x \in net, NEW o, NEW h, OverrideSoFar(x, o, h),
             ~ (o = NULL /\ h \in mf_in[q] /\ IsNext(mf_in, net, x, rt, h))
      PROVE  Right(x, o, h)
  BY <1>8 DEF OverrideSoFar
<1> HIDE DEF Right
<1>9. Good(rt)
  <2>1. \A h : First(mf_in, net, rt, h) <=> h \in Hit(rt) \/ h \in diff
    BY <1>1, <1>2, <1>5, <1>6
  <2>2. ASSUME pbset[rt] # NULL, NEW o, NEW h, Has(pbset[rt].probes, o, h)
        PROVE  h \in Hit(rt) /\ Right(rt, o, h)
    <3>1. h \in Hit(rt) /\ OverrideSoFar(rt, o, h)
      BY <1>2, <1>5, <2>2
    <3>2. ~ IsNext(mf_in, net, rt, rt, h)
      BY <1>2, <1>7
    <3> QED
      BY <1>2, <1>8, <3>1, <3>2
  <2>3. pbset'[rt] = own
    BY <1>3
  <2>4. rt \notin T /\ diff \in SUBSET Headers
    BY <1>2
  <2>5. pbset[rt] \in ProbeSet \union {NULL}
    BY <1>2 DEF Typed
  <2>6. CASE diff = {}
    <3>1. pbset'[rt] = pbset[rt] /\ Hit(rt)' = Hit(rt)
      BY <2>3, <2>6 DEF Hit
    <3> QED
      BY <1>2, <1>5, <2>1, <2>2, <2>4, <2>5, <2>6, <3>1
  <2>7. CASE diff # {} /\ pbset[rt] # NULL
    <3>1. pbset'[rt] = [pbset[rt] EXCEPT !.bdd_hit = @ \union diff]
      BY <2>3, <2>7
    <3> HIDE DEF diff
    <3>2. /\ pbset'[rt] \in ProbeSet /\ pbset'[rt].probes = pbset[rt].probes
          /\ pbset'[rt].bdd_hit = pbset[rt].bdd_hit \union diff
      BY <2>4, <2>5, <2>7, <3>1 DEF ProbeSet
    <3>3. pbset'[rt] # NULL /\ Hit(rt)' = Hit(rt) \union diff
      BY <2>7, <3>2, NullAssumption DEF Hit
    <3> QED
      BY <1>2, <1>5, <2>1, <2>2, <2>4, <2>7, <3>2, <3>3
  <2>8. CASE diff # {} /\ pbset[rt] = NULL
    <3> DEFINE pb == [bdd_mf |-> diff, override |-> NULL]
    <3>1. pbset'[rt] = [bdd_hit |-> diff, probes |-> <<pb>>]
      BY <2>3, <2>8
    <3>2. pb \in Probe /\ pb.override = NULL /\ pb.bdd_mf = diff
      BY <2>4 DEF Probe
    <3>3. /\ <<pb>> \in Seq(Probe) /\ DOMAIN <<pb>> = {1} /\ <<pb>>[1] = pb
      <4> HIDE DEF pb
      <4> QED
        BY <3>2
    <3>4. WellFormed(<<pb>>)
      <4> HIDE DEF pb
      <4> QED
        BY <3>2, <3>3 DEF WellFormed
    <3>5. \A o, h : Has(<<pb>>, o, h) <=> o = NULL /\ h \in diff
      <4> HIDE DEF pb, diff
      <4> QED
        BY <3>2, <3>3 DEF Has
    <3>6. /\ pbset'[rt] \in ProbeSet /\ pbset'[rt].probes = <<pb>>
          /\ pbset'[rt].bdd_hit = diff
      <4> HIDE DEF pb, diff
      <4> QED
        BY <2>4, <3>1, <3>3 DEF ProbeSet
    <3> HIDE DEF pb, diff
    <3>7. pbset'[rt] # NULL /\ Hit(rt)' = diff /\ Hit(rt) = {}
      BY <2>8, <3>6, NullAssumption DEF Hit
    <3>8. ASSUME NEW h \in diff PROVE Right(rt, NULL, h)
      <4>1. PICK u \in net \union {NULL} : IsNext(mf_in, net, rt, u, h)
        BY <1>2, NextExists
      <4>2. CASE u = NULL
        BY <4>1, <4>2 DEF Right
      <4>3. CASE u # NULL
        <5>1. u \in net /\ u # rt /\ h \in mf_in[u]
          BY <1>2, <1>7, <4>1, <4>3
        <5>2. rt <= u /\ h \in mf_in[q]
          BY <1>6, <3>8, <5>1 DEF First
        <5>3. ~ (u < rt)
          BY <1>2, <5>1, <5>2, NullNotRule
        <5>4. u \in T
          BY <1>4, <5>1, <5>3
        <5> QED
          BY <4>1, <5>2, <5>4 DEF Right
      <4> QED
        BY <4>2, <4>3
    <3> QED
      BY <2>1, <2>4, <2>8, <3>4, <3>5, <3>6, <3>7, <3>8
  <2> QED
    BY <2>6, <2>7, <2>8
<1>10. ASSUME NEW x \in net, x < rt, pbset[x] # NULL PROVE Good(x)
  <2> DEFINE new == Resplit(x, rt, insc)
  <2>1. /\ pbset'[x] = new /\ x \in Rules /\ WellFormed(pbset[x].probes)
        /\ x \notin todo /\ x \notin T /\ x # rt
    BY <1>2, <1>3, <1>4, <1>5, <1>10
  <2>2. /\ new \in ProbeSet /\ new.bdd_hit = pbset[x].bdd_hit
        /\ WellFormed(new.probes)
        /\ \A o, h : Has(new.probes, o, h) <=>
              \/ /\ Has(pbset[x].probes, o, h)
                 /\ ~ (o = NULL /\ h \in pbset[x].bdd_hit /\ h \in insc)
              \/ /\ o = rt /\ h \in pbset[x].bdd_hit /\ h \in insc
                 /\ Has(pbset[x].probes, NULL, h)
    <3>1. insc \in SUBSET Headers
      BY <1>2
    <3> HIDE DEF insc
    <3> QED
      BY <1>2, <1>10, <2>1, <3>1, ResplitArray
  <2>3. pbset'[x] # NULL /\ Hit(x) = pbset[x].bdd_hit /\ Hit(x)' = Hit(x)
    BY <1>10, <2>1, <2>2, NullAssumption DEF Hit
  <2> HIDE DEF new
  <2>4. ASSUME NEW o, NEW h, Has(new.probes, o, h)
        PROVE  h \in Hit(x) /\ Right(x, o, h)
    <3>1. CASE /\ Has(pbset[x].probes, o, h)
               /\ ~ (o = NULL /\ h \in pbset[x].bdd_hit /\ h \in insc)
      <4>1. h \in Hit(x) /\ OverrideSoFar(x, o, h)
        BY <1>5, <1>10, <3>1
      <4>2. ~ (o = NULL /\ h \in mf_in[q] /\ IsNext(mf_in, net, x, rt, h))
        BY <1>2, <1>7, <2>3, <3>1, <4>1
      <4> QED
        BY <1>8, <4>1, <4>2
    <3>2. CASE o = rt /\ h \in insc /\ Has(pbset[x].probes, NULL, h)
      <4>1. h \in Hit(x) /\ OverrideSoFar(x, NULL, h)
        BY <1>5, <1>10, <3>2
      <4>2. ~ IsNext(mf_in, net, x, NULL, h)
        BY <1>2, <2>1, <3>2 DEF IsNext
      <4>3. PICK y \in todo : IsNext(mf_in, net, x, y, h)
        BY <4>1, <4>2 DEF OverrideSoFar
      <4>4. y # NULL /\ y \in Nat
        BY <1>2, NullNotRule
      <4>5. y <= rt /\ rt <= y
        BY <1>1, <1>2, <1>7, <2>1, <3>2, <4>3, <4>4
      <4>6. y = rt
        BY <1>2, <4>4, <4>5
      <4>7. rt \notin T
        OBVIOUS
      <4> QED
        BY <1>2, <3>2, <4>1, <4>3, <4>6, <4>7 DEF Right
    <3> QED
      BY <2>2, <2>4, <3>1, <3>2
  <2> HIDE DEF T
  <2> QED
    BY <1>5, <1>10, <2>1, <2>2, <2>3, <2>4
<1>11. ASSUME NEW x \in net, x # rt, ~ (x < rt /\ pbset[x] # NULL) PROVE Good(x)
  <2>1. pbset'[x] = pbset[x] /\ pbset[x] \in ProbeSet \union {NULL}
    BY <1>2, <1>3, <1>11 DEF Typed
  <2>2. Hit(x)' = Hit(x)
    BY <2>1 DEF Hit
  <2>3. x \in todo <=> x \in T
    BY <1>11
  <2>4. x \in T \/ pbset[x] = NULL
    BY <1>4, <1>11
  <2>5. ASSUME pbset[x] # NULL, NEW o, NEW h, Has(pbset[x].probes, o, h)
        PROVE  h \in Hit(x) /\ Right(x, o, h)
    <3>1. h \in Hit(x) /\ OverrideSoFar(x, o, h)
      BY <1>5, <2>5
    <3>2. h \notin mf_in[q]
      BY <1>5, <2>3, <2>4, <2>5, <3>1
    <3> QED
      BY <1>8, <3>1, <3>2
  <2> HIDE DEF T
  <2> QED
    BY <1>5, <2>1, <2>2, <2>3, <2>5
<1>12. \A x \in net' : Good(x)
  BY <1>1, <1>9, <1>10, <1>11
<1> HIDE DEF Good, own, diff, insc
<1>13. \A x \in Rules \ net' : pbset'[x] = NULL
  <2>1. \A x \in Rules \ net : pbset[x] = NULL
    BY DEF IInv, Types
  <2> QED
    BY <1>1, <1>2, <1>3, <2>1
<1>14. Types'
  <2>1. pbset' = [x \in Rules |-> pbset'[x]]
    BY DEF Uncover
  <2>2. \A x \in Rules : pbset'[x] \in ProbeSet \union {NULL}
    BY <1>12, <1>13 DEF Good
  <2>3. pbset' \in [Rules -> ProbeSet \union {NULL}]
    BY <2>1, <2>2
  <2>4. T \in SUBSET net /\ removed' \in Rules \union {NULL} /\ (T = {} <=> removed' = NULL)
    BY <1>1, <1>2, NullNotRule
  <2> HIDE DEF T
  <2> QED
    BY <1>1, <1>2, <1>13, <2>3, <2>4 DEF Types, Typed
<1>15. Arrays'
  BY <1>12 DEF Arrays, Good
<1>16. TodoIsRest'
  <2>1. ASSUME NEW y \in T PROVE removed' < y /\ \A x \in net \ T : x < y
    <3>1. removed' = q /\ q < y
      BY <1>1, <2>1 DEF IInv, TodoIsRest
    <3>2. \A x \in net : x \in Nat
      BY <1>2, NullNotRule
    <3>3. ASSUME NEW x \in net \ T PROVE x < y
      <4>1. rt < y /\ (x = rt \/ x < rt)
        BY <1>4, <2>1, <3>3
      <4>2. x \in Nat /\ y \in Nat /\ rt \in Nat
        BY <1>2, <2>1, <3>2, <3>3
      <4> QED
        BY <4>1, <4>2
    <3> QED
      BY <3>1, <3>3
  <2> QED
    BY <1>1, <2>1 DEF TodoIsRest
<1>17. HitsSoFar'
  <2> SUFFICES ASSUME NEW x \in net
               PROVE  /\ \A h : h \in Hit(x)' <=>
                            First(mf_in, net, x, h) /\ (x \in T => h \notin mf_in[removed'])
                      /\ mf_in[x] # {} => (pbset'[x] = NULL <=> Hit(x)' = {})
    BY <1>1 DEF HitsSoFar
  <2>1. x \in T => removed' = q
    BY <1>1
  <2> HIDE DEF T
  <2> QED
    BY <1>1, <1>12, <2>1 DEF Good
<1>18. OverridesSoFar'
  <2> SUFFICES ASSUME NEW x \in net, pbset'[x] # NULL, NEW o, NEW h,
                      Has(pbset'[x].probes, o, h)
               PROVE  h \in Hit(x)' /\ OverrideSoFar(x, o, h)'
    BY <1>1 DEF OverridesSoFar
  <2>1. h \in Hit(x)' /\ Right(x, o, h)
    BY <1>1, <1>12 DEF Good
  <2>2. OverrideSoFar(x, o, h)' <=>
          IF o = NULL
            THEN \/ IsNext(mf_in, net, x, NULL, h)
                 \/ h \in mf_in[removed'] /\ \E y \in T : IsNext(mf_in, net, x, y, h)
            ELSE IsNext(mf_in, net, x, o, h) /\ ~ (h \in mf_in[removed'] /\ o \in T)
    BY <1>1 DEF OverrideSoFar
  <2>3. T # {} => mf_in[removed'] = mf_in[q]
    BY <1>1
  <2> HIDE DEF T
  <2>4. CASE T = {}
    BY <2>1, <2>2, <2>4 DEF Right
  <2>5. CASE T # {}
    BY <2>1, <2>2, <2>3, <2>5 DEF Right
  <2> QED
    BY <2>4, <2>5
<1> QED
  BY <1>14, <1>15, <1>16, <1>17, <1>18 DEF IInv

LEMMA NextInvariant == IInv /\ [Next]_vars => IInv'
<1> SUFFICES ASSUME IInv, [Next]_vars PROVE IInv'
  OBVIOUS
<1>1. ASSUME NEW r \in Rules, UpdateProbesInsert(r) PROVE IInv'
  BY <1>1, InsertStep
<1>2. ASSUME NEW r \in Rules, UpdateProbesRemove(r) PROVE IInv'
  BY <1>2, RemoveStep
<1>3. ASSUME NEW r \in Rules, Uncover(r) PROVE IInv'
  BY <1>3, UncoverStep
<1>4. CASE UNCHANGED vars
  <2>1. /\ mf_in' = mf_in /\ net' = net /\ pbset' = pbset
        /\ removed' = removed /\ todo' = todo
    BY <1>4 DEF vars
  <2> QED
    BY <2>1 DEF IInv, Types, Typed, Arrays, TodoIsRest, HitsSoFar, OverridesSoFar,
                OverrideSoFar, Hit
<1> QED
  BY <1>1, <1>2, <1>3, <1>4 DEF Next

\* In any order of insertions and removals, and between the two loops of a
\* removal, the invariant holds.
THEOREM Invariant == Spec => []IInv
BY InitInvariant, NextInvariant, PTL DEF Spec

-----------------------------------------------------------------------------
(* What the invariant says of the properties.                              *)

LEMMA InvTypes == IInv => TypeOK
<1> SUFFICES ASSUME IInv PROVE TypeOK
  OBVIOUS
<1>1. ASSUME NEW r \in net, pbset[r] # NULL
      PROVE  /\ pbset[r].bdd_hit \subseteq Headers
             /\ pbset[r].probes \in Seq(Probe)
             /\ \A i, k \in DOMAIN pbset[r].probes :
                  pbset[r].probes[i].override = pbset[r].probes[k].override => i = k
  <2>1. Typed /\ r \in Rules /\ WellFormed(pbset[r].probes)
    BY <1>1 DEF IInv, Types, Arrays
  <2> QED
    BY <1>1, <2>1, TypedProbeSet DEF WellFormed
<1> QED
  BY <1>1 DEF IInv, Types, Typed, TypeOK

LEMMA InvHits == IInv => HitExact
<1> SUFFICES ASSUME IInv, todo = {}, NEW r \in net
             PROVE  /\ Hit(r) = Decides(r)
                    /\ mf_in[r] # {} => (pbset[r] = NULL <=> Decides(r) = {})
  BY DEF HitExact
<1>1. net \in SUBSET Rules
  BY DEF IInv, Types
<1>2. \A h : h \in Decides(r) <=> First(mf_in, net, r, h)
  BY <1>1, BestIsFirst DEF Decides, First
<1>3. Hit(r) = Decides(r)
  BY <1>2, AtRestInv
<1> QED
  BY <1>3, AtRestInv

LEMMA InvProbes == IInv => ProbesSound
<1> SUFFICES ASSUME IInv, todo = {}, NEW r \in net, pbset[r] # NULL,
                    NEW i \in DOMAIN pbset[r].probes, NEW h \in pbset[r].probes[i].bdd_mf
             PROVE  h \in Decides(r) /\ pbset[r].probes[i].override = NextBelow(r, h)
  BY DEF ProbesSound
<1>1. net \in SUBSET Rules
  BY DEF IInv, Types
<1>2. Has(pbset[r].probes, pbset[r].probes[i].override, h)
  BY DEF Has
<1>3. /\ pbset[r].probes[i].override \in Rules \union {NULL} /\ h \in Hit(r)
      /\ IsNext(mf_in, net, r, pbset[r].probes[i].override, h)
  BY <1>2, AtRestInv
<1>4. h \in Decides(r)
  BY <1>3, InvHits DEF HitExact
<1> QED
  BY <1>1, <1>3, <1>4, BestWithoutIsNext DEF NextBelow

\* The state of RuleChecker keeps its types, and a probe set never has two probes
\* for the same override (UpdateProbesInsert and UpdateProbesRemove).
THEOREM TypeCorrect == Spec => []TypeOK
BY Invariant, InvTypes, PTL

\* Whenever no removal is under way, bdd_hit is exactly what the rule decides,
\* whatever the order of UpdateProbesInsert and UpdateProbesRemove.
THEOREM HitIsExact == Spec => []HitExact
BY Invariant, InvHits, PTL

\* Whenever no removal is under way, each header of a probe is decided by the
\* probe's rule, and next by the probe's override.
THEOREM ProbesAreSound == Spec => []ProbesSound
BY Invariant, InvProbes, PTL

-----------------------------------------------------------------------------
(* Which headers have a probe.                                             *)

\* No probe of a rule that matches anything is empty.
NoneEmpty == \A x \in net : mf_in[x] # {} /\ pbset[x] # NULL => Filled(pbset[x].probes)

\* Rule x holds header h in one of its probes.
Held(x, h) == \E o : Has(pbset[x].probes, o, h)

\* Rule x holds everything it decides.
Full(x) == pbset[x] # NULL => \A h \in Hit(x) : Held(x, h)

\* Rule x holds what it decides and r does not match, or decides only what r
\* matches: inserting r above x then leaves no gap.
Owing(x, r) ==
  pbset[x] # NULL =>
    Hit(x) \subseteq mf_in[r] \/ \A h \in Hit(x) : Held(x, h) <=> h \notin mf_in[r]

\* An insertion closes the gaps below it and makes none.
LEMMA InsertHeld ==
  ASSUME IInv, NoneEmpty, NEW r \in Rules, UpdateProbesInsert(r)
  PROVE  /\ NoneEmpty'
         /\ Full(r)'
         /\ \A x \in net : x < r /\ Full(x) => Full(x)'
         /\ \A x \in net : r < x /\ Owing(x, r) => Full(x)'
<1>1. /\ todo = {} /\ r \notin net /\ net' = net \union {r} /\ mf_in' = mf_in
      /\ pbset' = [x \in Rules |->
                     IF x = r THEN OwnProbeSet(r)
                     ELSE IF x \in Above(r) /\ pbset[x] # NULL THEN InsertAbove(r, x)
                     ELSE IF x \in Losers(r) THEN InsertBelow(r, x)
                     ELSE pbset[x]]
  BY DEF UpdateProbesInsert
<1>2. /\ Typed /\ net \in SUBSET Rules /\ IsFiniteSet(net)
      /\ r \in Nat /\ r # NULL /\ \A x \in net : x \in Nat /\ x # r /\ x \in Rules
  BY <1>1, NullNotRule DEF IInv, Types
<1>3. /\ \A x \in net : \A h : h \in Hit(x) <=> First(mf_in, net, x, h)
      /\ \A x \in net : pbset[x] # NULL =>
           /\ WellFormed(pbset[x].probes)
           /\ \A o, h : Has(pbset[x].probes, o, h) => h \in Hit(x)
  BY <1>1, AtRestInv
<1>4. /\ Above(r) = {x \in net : x < r}
      /\ Losers(r) = {x \in net : x > r /\ Hit(x) \intersect HitOf(r) # {}}
  BY DEF Above, Losers, Below
<1>5. Full(r)' /\ (mf_in[r] # {} /\ pbset'[r] # NULL => Filled(pbset'[r].probes))
  <2>1. /\ HitOf(r) # {} => Filled(OwnProbes(r))
        /\ \A o, h : Has(OwnProbes(r), o, h) <=>
              /\ h \in HitOf(r)
              /\ \/ /\ o \in Losers(r) /\ h \in Hit(o)
                    /\ \A y \in Losers(r) : y < o => h \notin Hit(y)
                 \/ o = NULL /\ \A y \in Losers(r) : h \notin Hit(y)
    BY <1>2, OwnProbesArray
  <2>2. pbset'[r] = IF HitOf(r) = {} /\ Above(r) # {} THEN NULL
                    ELSE [bdd_hit |-> HitOf(r), probes |-> OwnProbes(r)]
    BY <1>1 DEF OwnProbeSet
  <2>3. pbset'[r] # NULL => pbset'[r].probes = OwnProbes(r) /\ Hit(r)' = HitOf(r)
    BY <2>2 DEF Hit
  <2>4. ASSUME NEW h \in HitOf(r) PROVE \E o : Has(OwnProbes(r), o, h)
    <3> DEFINE G == {y \in Losers(r) : h \in Hit(y)}
    <3>1. CASE G = {}
      <4>1. Has(OwnProbes(r), NULL, h)
        BY <2>1, <2>4, <3>1
      <4> QED
        BY <4>1
    <3>2. CASE G # {}
      <4>1. G \in SUBSET Nat
        BY <1>2, <1>4
      <4>2. PICK o \in G : \A y \in G : o <= y
        <5> HIDE DEF G
        <5> QED
          BY <3>2, <4>1, SmallestPosition
      <4>3. \A y \in Losers(r) : y < o => h \notin Hit(y)
        <5> SUFFICES ASSUME NEW y \in G, y < o PROVE FALSE
          OBVIOUS
        <5>1. o <= y /\ o \in Nat /\ y \in Nat
          BY <4>1, <4>2
        <5> QED
          BY <5>1
      <4>4. Has(OwnProbes(r), o, h)
        BY <2>1, <2>4, <4>2, <4>3
      <4> QED
        BY <4>4
    <3> QED
      BY <3>1, <3>2
  <2>5. Full(r)'
    BY <2>3, <2>4 DEF Full, Held
  <2>6. mf_in[r] # {} /\ pbset'[r] # NULL => HitOf(r) # {}
    <3>1. Above(r) = {} => HitOf(r) = mf_in[r]
      BY DEF HitOf
    <3> QED
      BY <2>2, <3>1
  <2> QED
    BY <2>1, <2>3, <2>5, <2>6
<1>6. ASSUME NEW x \in net, x < r, pbset[x] # NULL
      PROVE  /\ Full(x) => Full(x)'
             /\ Filled(pbset[x].probes) => Filled(pbset'[x].probes)
  <2>1. pbset'[x] = InsertAbove(r, x)
    BY <1>1, <1>2, <1>4, <1>6
  <2>2. \A i \in DOMAIN pbset[x].probes : pbset[x].probes[i].override # r
    BY <1>1, <1>6, NoProbeOverNew
  <2>3. /\ InsertAbove(r, x).bdd_hit = pbset[x].bdd_hit
        /\ InsertAbove(r, x) # NULL
        /\ Filled(pbset[x].probes) => Filled(InsertAbove(r, x).probes)
        /\ \A o, h : Has(InsertAbove(r, x).probes, o, h) <=>
              \/ Has(pbset[x].probes, o, h) /\ ~ (h \in mf_in[r] /\ (o = NULL \/ o >= r))
              \/ /\ o = r /\ h \in mf_in[r]
                 /\ \E u : Has(pbset[x].probes, u, h) /\ (u = NULL \/ u >= r)
    BY <1>2, <1>3, <1>6, <2>2, InsertAboveArray, NullAssumption
  <2>4. Hit(x)' = Hit(x)
    BY <1>6, <2>1, <2>3 DEF Hit
  <2>5. ASSUME NEW h, Held(x, h) PROVE Held(x, h)'
    <3>1. PICK o : Has(pbset[x].probes, o, h)
      BY <2>5 DEF Held
    <3>2. Has(pbset'[x].probes, o, h) \/ Has(pbset'[x].probes, r, h)
      BY <2>1, <2>3, <3>1
    <3> QED
      BY <3>2 DEF Held
  <2> QED
    BY <1>6, <2>1, <2>3, <2>4, <2>5 DEF Full
<1>7. ASSUME NEW x \in Losers(r)
      PROVE  /\ Owing(x, r) /\ Filled(pbset[x].probes) => Full(x)'
             /\ pbset'[x] # NULL => Filled(pbset'[x].probes)
             /\ mf_in[x] # {}
  <2>1. /\ x \in net /\ r < x /\ x # r /\ x \notin Above(r) /\ pbset[x] # NULL
        /\ Hit(x) # {} /\ Hit(x) = pbset[x].bdd_hit
    <3>1. x \in net /\ x > r /\ Hit(x) # {}
      BY <1>4, <1>7
    <3>2. x \in Nat /\ r \in Nat /\ x # r /\ r < x /\ ~ (x < r)
      BY <1>2, <3>1
    <3> QED
      BY <1>4, <3>1, <3>2 DEF Hit
  <2>2. pbset'[x] = InsertBelow(r, x)
    BY <1>1, <1>2, <1>7, <2>1
  <2>3. /\ InsertBelow(r, x) = NULL <=> pbset[x].bdd_hit \ HitOf(r) = {}
        /\ InsertBelow(r, x) # NULL =>
              /\ InsertBelow(r, x).bdd_hit = pbset[x].bdd_hit \ HitOf(r)
              /\ Filled(InsertBelow(r, x).probes)
              /\ (\A i \in DOMAIN pbset[x].probes :
                     pbset[x].probes[i].bdd_mf \ mf_in[r] # {}) =>
                   \A o, h : Has(pbset[x].probes, o, h) /\ h \notin mf_in[r] =>
                              Has(InsertBelow(r, x).probes, o, h)
    BY <1>2, <1>3, <2>1, InsertBelowArray
  <2>4. \A h \in Hit(x) : h \in mf_in[r] <=> h \in HitOf(r)
    BY <1>1, <2>1, LoserLosesMatch
  <2>5. ASSUME Owing(x, r), Filled(pbset[x].probes), pbset'[x] # NULL, NEW h \in Hit(x)'
        PROVE  Held(x, h)'
    <3>1. Hit(x)' = Hit(x) \ HitOf(r)
      BY <2>1, <2>2, <2>3, <2>5 DEF Hit
    <3>2. h \in Hit(x) /\ h \notin mf_in[r]
      BY <2>4, <2>5, <3>1
    <3>3. \A g \in Hit(x) : Held(x, g) <=> g \notin mf_in[r]
      BY <2>1, <2>5, <3>2 DEF Owing
    <3>4. ASSUME NEW i \in DOMAIN pbset[x].probes
          PROVE  pbset[x].probes[i].bdd_mf \ mf_in[r] # {}
      <4>1. PICK g : g \in pbset[x].probes[i].bdd_mf
        BY <2>5 DEF Filled
      <4>2. Has(pbset[x].probes, pbset[x].probes[i].override, g)
        BY <4>1 DEF Has
      <4>3. g \in Hit(x) /\ Held(x, g)
        BY <1>3, <2>1, <4>2 DEF Held
      <4> QED
        BY <3>3, <4>1, <4>3
    <3>5. PICK o : Has(pbset[x].probes, o, h)
      BY <3>2, <3>3 DEF Held
    <3>6. Has(pbset'[x].probes, o, h)
      BY <2>2, <2>3, <2>5, <3>2, <3>4, <3>5
    <3> QED
      BY <3>6 DEF Held
  <2>6. mf_in[x] # {}
    BY <1>3, <2>1 DEF First
  <2> QED
    BY <2>2, <2>3, <2>5, <2>6 DEF Full
<1>8. ASSUME NEW x \in net, ~ (x < r /\ pbset[x] # NULL), x \notin Losers(r)
      PROVE  /\ pbset'[x] = pbset[x]
             /\ x < r => Full(x)'
             /\ r < x /\ Owing(x, r) => Full(x)'
  <2>1. pbset'[x] = pbset[x]
    BY <1>1, <1>2, <1>4, <1>8
  <2>2. Hit(x)' = Hit(x) /\ \A h : Held(x, h)' <=> Held(x, h)
    BY <2>1 DEF Hit, Held
  <2>3. ASSUME r < x, NEW h \in Hit(x) PROVE h \notin mf_in[r]
    BY <1>1, <1>2, <1>4, <1>8, <2>3, LoserLosesMatch
  <2>4. r < x /\ Owing(x, r) => Full(x)'
    BY <2>1, <2>2, <2>3 DEF Full, Owing
  <2> QED
    BY <1>8, <2>1, <2>4 DEF Full
<1>9. NoneEmpty'
  <2> SUFFICES ASSUME NEW x \in net', mf_in[x] # {}, pbset'[x] # NULL
               PROVE  Filled(pbset'[x].probes)
    BY <1>1 DEF NoneEmpty
  <2>1. CASE x = r
    BY <1>5, <2>1
  <2>2. CASE x \in net /\ x < r /\ pbset[x] # NULL
    BY <1>6, <2>2 DEF NoneEmpty
  <2>3. CASE x \in Losers(r)
    BY <1>7, <2>3
  <2>4. CASE x \in net /\ ~ (x < r /\ pbset[x] # NULL) /\ x \notin Losers(r)
    BY <1>8, <2>4 DEF NoneEmpty
  <2> QED
    BY <1>1, <2>1, <2>2, <2>3, <2>4
<1>10. \A x \in net : x < r /\ Full(x) => Full(x)'
  <2> SUFFICES ASSUME NEW x \in net, x < r, Full(x) PROVE Full(x)'
    OBVIOUS
  <2>1. x \notin Losers(r)
    BY <1>2, <1>4
  <2> QED
    BY <1>6, <1>8, <2>1
<1>11. \A x \in net : r < x /\ Owing(x, r) => Full(x)'
  <2> SUFFICES ASSUME NEW x \in net, r < x, Owing(x, r) PROVE Full(x)'
    OBVIOUS
  <2>1. ~ (x < r)
    BY <1>2
  <2>2. CASE x \in Losers(r)
    <3>1. pbset[x] # NULL
      BY <1>4, <2>2 DEF Hit
    <3> QED
      BY <1>7, <2>2, <3>1 DEF NoneEmpty
  <2> QED
    BY <1>8, <2>1, <2>2
<1> QED
  BY <1>5, <1>9, <1>10, <1>11

\* A removal loses nothing above it, and owes what it matches below.
LEMMA RemoveHeld ==
  ASSUME IInv, NoneEmpty, NEW r \in Rules, UpdateProbesRemove(r)
  PROVE  /\ NoneEmpty'
         /\ \A x \in net : x < r /\ Full(x) => Full(x)'
         /\ \A x \in net : r < x /\ Full(x) => Owing(x, r)'
<1>1. /\ todo = {} /\ r \in net /\ net' = net \ {r} /\ mf_in' = mf_in
      /\ pbset' = [x \in Rules |->
                     IF x = r THEN NULL
                     ELSE IF x \in Above(r) /\ pbset[x] # NULL THEN RemoveAbove(r, x)
                     ELSE pbset[x]]
  BY DEF UpdateProbesRemove
<1>2. /\ Typed /\ r \in Nat /\ r # NULL
      /\ \A x \in net : x \in Nat /\ x \in Rules
      /\ \A x \in net : x < r => x # r
      /\ \A x \in net : r < x => x # r /\ ~ (x < r)
  <2>1. Typed /\ r \in Nat /\ r # NULL /\ \A x \in net : x \in Nat /\ x \in Rules
    BY <1>1, NullNotRule DEF IInv, Types
  <2> QED
    BY <2>1
<1>3. /\ \A x \in net : \A h : h \in Hit(x) <=> First(mf_in, net, x, h)
      /\ \A x \in net : pbset[x] # NULL =>
           /\ WellFormed(pbset[x].probes)
           /\ \A o, h : Has(pbset[x].probes, o, h) => h \in Hit(x)
  BY <1>1, AtRestInv
<1>4. ASSUME NEW x \in net, x < r, pbset[x] # NULL
      PROVE  /\ Full(x) => Full(x)'
             /\ Filled(pbset[x].probes) => Filled(pbset'[x].probes)
  <2>1. pbset'[x] = RemoveAbove(r, x)
    BY <1>1, <1>2, <1>4 DEF Above
  <2>2. /\ RemoveAbove(r, x).bdd_hit = pbset[x].bdd_hit
        /\ RemoveAbove(r, x) # NULL
        /\ Filled(pbset[x].probes) => Filled(RemoveAbove(r, x).probes)
        /\ pbset[x].bdd_hit \intersect mf_in[r] = {} => RemoveAbove(r, x) = pbset[x]
        /\ pbset[x].bdd_hit \intersect mf_in[r] # {} =>
             \A o, h : Has(RemoveAbove(r, x).probes, o, h) <=>
               \/ o \notin {r, NULL} /\ Has(pbset[x].probes, o, h)
               \/ o = NULL /\ (Has(pbset[x].probes, r, h) \/ Has(pbset[x].probes, NULL, h))
    BY <1>2, <1>3, <1>4, RemoveAboveArray, NullAssumption
  <2>3. Hit(x)' = Hit(x)
    BY <1>4, <2>1, <2>2 DEF Hit
  <2>4. ASSUME NEW h, Held(x, h) PROVE Held(x, h)'
    <3>1. PICK o : Has(pbset[x].probes, o, h)
      BY <2>4 DEF Held
    <3>2. Has(pbset'[x].probes, o, h) \/ Has(pbset'[x].probes, NULL, h)
      BY <2>1, <2>2, <3>1
    <3> QED
      BY <3>2 DEF Held
  <2> QED
    BY <1>4, <2>1, <2>2, <2>3, <2>4 DEF Full
<1>5. ASSUME NEW x \in net, x # r, ~ (x < r /\ pbset[x] # NULL)
      PROVE  /\ pbset'[x] = pbset[x]
             /\ Hit(x)' = Hit(x) /\ \A h : Held(x, h)' <=> Held(x, h)
  <2>1. pbset'[x] = pbset[x]
    BY <1>1, <1>2, <1>5 DEF Above
  <2> QED
    BY <2>1 DEF Hit, Held
<1>6. NoneEmpty'
  <2> SUFFICES ASSUME NEW x \in net, x # r, mf_in[x] # {}, pbset'[x] # NULL
               PROVE  Filled(pbset'[x].probes)
    BY <1>1 DEF NoneEmpty
  <2> QED
    BY <1>4, <1>5 DEF NoneEmpty
<1>7. \A x \in net : x < r /\ Full(x) => Full(x)'
  <2> SUFFICES ASSUME NEW x \in net, x < r, Full(x) PROVE Full(x)'
    OBVIOUS
  <2>1. CASE pbset[x] # NULL
    BY <1>4, <2>1
  <2>2. CASE pbset[x] = NULL
    <3>1. pbset'[x] = NULL
      BY <1>2, <1>5, <2>2
    <3> QED
      BY <3>1 DEF Full
  <2> QED
    BY <2>1, <2>2
<1>8. \A x \in net : r < x /\ Full(x) => Owing(x, r)'
  <2> SUFFICES ASSUME NEW x \in net, r < x, Full(x) PROVE Owing(x, r)'
    OBVIOUS
  <2>1. /\ pbset'[x] = pbset[x] /\ Hit(x)' = Hit(x) /\ mf_in' = mf_in
        /\ \A h : Held(x, h)' <=> Held(x, h)
    BY <1>1, <1>2, <1>5
  <2>2. ASSUME NEW h \in Hit(x) PROVE h \notin mf_in[r]
    <3>1. First(mf_in, net, x, h)
      BY <1>3, <2>2
    <3>2. ~ (x <= r)
      BY <1>2
    <3> QED
      BY <1>1, <3>1, <3>2 DEF First
  <2> QED
    BY <2>1, <2>2 DEF Full, Owing
<1> QED
  BY <1>6, <1>7, <1>8

\* Visiting the rules below a removed rule q neither closes nor widens a gap.
LEMMA UncoverHeld ==
  ASSUME IInv, NoneEmpty, NEW rt \in Rules, Uncover(rt), NEW q, q = removed
  PROVE  /\ NoneEmpty'
         /\ \A x \in net : x < q /\ Full(x) => Full(x)'
         /\ \A x \in net : q < x /\ Owing(x, q) => Owing(x, q)'
<1> DEFINE insc == mf_in[q] \intersect mf_in[rt]
           diff == insc \ UNION {Hit(x) : x \in Above(rt)}
           own == IF diff = {} THEN pbset[rt]
                  ELSE IF pbset[rt] # NULL THEN [pbset[rt] EXCEPT !.bdd_hit = @ \union diff]
                  ELSE [bdd_hit |-> diff,
                        probes |-> <<[bdd_mf |-> diff, override |-> NULL]>>]
<1>1. /\ rt \in todo /\ net' = net /\ mf_in' = mf_in
      /\ pbset' = [x \in Rules |->
                     IF x = rt THEN own
                     ELSE IF x \in Above(rt) /\ pbset[x] # NULL THEN Resplit(x, rt, insc)
                     ELSE pbset[x]]
  BY DEF Uncover
<1>2. /\ Typed /\ rt \in net /\ q < rt /\ q \in Nat /\ rt \in Nat
      /\ \A x \in net : x \in Nat /\ x \in Rules
      /\ \A x \in net : x < q => x # rt
      /\ insc \in SUBSET Headers
  <2>1. /\ Typed /\ rt \in net /\ q < rt /\ removed # NULL
        /\ \A x \in net : x \in Nat /\ x \in Rules
    BY <1>1, NullNotRule DEF IInv, Types, TodoIsRest
  <2>2. q \in Rules
    BY <2>1 DEF IInv, Types
  <2>3. q \in Nat /\ rt \in Nat /\ mf_in[q] \in SUBSET Headers
    BY <2>1, <2>2, NullNotRule DEF Typed
  <2>4. ~ (rt < q)
    BY <2>1, <2>3
  <2> QED
    BY <2>1, <2>3, <2>4
<1>3. /\ \A h : h \in Hit(rt) => h \notin mf_in[q]
      /\ \A x \in net : pbset[x] # NULL =>
           /\ WellFormed(pbset[x].probes)
           /\ \A o, h : Has(pbset[x].probes, o, h) => h \in Hit(x)
  <2>1. \A h : h \in Hit(rt) => h \notin mf_in[q]
    BY <1>1, <1>2 DEF IInv, HitsSoFar
  <2> QED
    BY <2>1 DEF IInv, Arrays, OverridesSoFar
<1>4. ASSUME NEW x \in net, x \in Above(rt), pbset[x] # NULL, x # rt
      PROVE  /\ pbset'[x] # NULL
             /\ Filled(pbset[x].probes) => Filled(pbset'[x].probes)
             /\ Hit(x)' = Hit(x)
             /\ \A h : Held(x, h)' <=> Held(x, h)
  <2>1. pbset'[x] = Resplit(x, rt, insc)
    BY <1>1, <1>2, <1>4
  <2> HIDE DEF insc
  <2>2. /\ Resplit(x, rt, insc).bdd_hit = pbset[x].bdd_hit
        /\ Resplit(x, rt, insc) # NULL
        /\ Filled(pbset[x].probes) => Filled(Resplit(x, rt, insc).probes)
        /\ \A o, h : Has(Resplit(x, rt, insc).probes, o, h) <=>
              \/ /\ Has(pbset[x].probes, o, h)
                 /\ ~ (o = NULL /\ h \in pbset[x].bdd_hit /\ h \in insc)
              \/ /\ o = rt /\ h \in pbset[x].bdd_hit /\ h \in insc
                 /\ Has(pbset[x].probes, NULL, h)
    BY <1>2, <1>3, <1>4, ResplitArray, NullAssumption
  <2>3. Hit(x)' = Hit(x)
    BY <1>4, <2>1, <2>2 DEF Hit
  <2>4. ASSUME NEW h, Held(x, h) PROVE Held(x, h)'
    <3>1. PICK o : Has(pbset[x].probes, o, h)
      BY <2>4 DEF Held
    <3>2. Has(pbset'[x].probes, o, h) \/ Has(pbset'[x].probes, rt, h)
      BY <2>1, <2>2, <3>1
    <3> QED
      BY <3>2 DEF Held
  <2>5. ASSUME NEW h, Held(x, h)' PROVE Held(x, h)
    <3>1. PICK o : Has(pbset'[x].probes, o, h)
      BY <2>5 DEF Held
    <3>2. Has(pbset[x].probes, o, h) \/ Has(pbset[x].probes, NULL, h)
      BY <2>1, <2>2, <3>1
    <3> QED
      BY <3>2 DEF Held
  <2> QED
    BY <2>1, <2>2, <2>3, <2>4, <2>5
<1>5. ASSUME NEW x \in net, x # rt, ~ (x \in Above(rt) /\ pbset[x] # NULL)
      PROVE  /\ pbset'[x] = pbset[x] /\ Hit(x)' = Hit(x)
             /\ \A h : Held(x, h)' <=> Held(x, h)
  <2>1. pbset'[x] = pbset[x]
    <3> HIDE DEF own, insc
    <3> QED
      BY <1>1, <1>2, <1>5
  <2> QED
    BY <2>1 DEF Hit, Held
<1>6. /\ mf_in[rt] # {} /\ pbset'[rt] # NULL => Filled(pbset'[rt].probes)
      /\ Owing(rt, q) => Owing(rt, q)'
  <2>1. pbset'[rt] = own /\ diff \in SUBSET mf_in[q]
    BY <1>1, <1>2
  <2>2. CASE diff = {}
    <3>1. pbset'[rt] = pbset[rt]
      BY <2>1, <2>2
    <3>2. Hit(rt)' = Hit(rt) /\ \A h : Held(rt, h)' <=> Held(rt, h)
      BY <3>1 DEF Hit, Held
    <3> HIDE DEF own, diff, insc
    <3> QED
      BY <1>1, <1>2, <3>1, <3>2 DEF NoneEmpty, Owing
  <2>3. CASE diff # {} /\ pbset[rt] # NULL
    <3>1. pbset'[rt] = [pbset[rt] EXCEPT !.bdd_hit = @ \union diff]
      BY <2>1, <2>3
    <3>2. pbset[rt] \in ProbeSet /\ Hit(rt) = pbset[rt].bdd_hit
      BY <1>2, <2>3, TypedProbeSet
    <3> HIDE DEF diff, own, insc
    <3>3. /\ pbset'[rt].probes = pbset[rt].probes
          /\ pbset'[rt].bdd_hit = Hit(rt) \union diff
      BY <3>1, <3>2 DEF ProbeSet
    <3>4. pbset'[rt] # NULL => Hit(rt)' = Hit(rt) \union diff
      BY <3>3 DEF Hit
    <3>5. \A h : Held(rt, h)' <=> Held(rt, h)
      BY <3>3 DEF Held
    <3>6. ASSUME Owing(rt, q), pbset'[rt] # NULL PROVE Owing(rt, q)'
      <4>1. CASE Hit(rt) \subseteq mf_in[q]
        BY <1>1, <2>1, <3>4, <3>6, <4>1 DEF Owing
      <4>2. CASE \A h \in Hit(rt) : Held(rt, h) <=> h \notin mf_in[q]
        <5>1. ASSUME NEW h \in Hit(rt) \union diff
              PROVE  Held(rt, h) <=> h \notin mf_in[q]
          <6>1. CASE h \in Hit(rt)
            BY <4>2, <6>1
          <6>2. CASE h \in diff /\ h \notin Hit(rt)
            BY <1>2, <1>3, <2>1, <2>3, <6>2 DEF Held
          <6> QED
            BY <5>1, <6>1, <6>2
        <5> QED
          BY <1>1, <3>4, <3>5, <3>6, <5>1 DEF Owing
      <4> QED
        BY <2>3, <3>6, <4>1, <4>2 DEF Owing
    <3>7. Owing(rt, q) => Owing(rt, q)'
      BY <3>6 DEF Owing
    <3> QED
      BY <1>2, <2>3, <3>3, <3>7 DEF NoneEmpty
  <2>4. CASE diff # {} /\ pbset[rt] = NULL
    <3> DEFINE pb == [bdd_mf |-> diff, override |-> NULL]
    <3>1. pbset'[rt] = [bdd_hit |-> diff, probes |-> <<pb>>]
      BY <2>1, <2>4
    <3>2. pb.bdd_mf = diff
      OBVIOUS
    <3>3. Filled(<<pb>>)
      <4> HIDE DEF pb, diff
      <4>1. DOMAIN <<pb>> = {1} /\ <<pb>>[1] = pb
        OBVIOUS
      <4> QED
        BY <2>4, <3>2, <4>1 DEF Filled
    <3> HIDE DEF pb, diff, own, insc
    <3>4. pbset'[rt] # NULL => pbset'[rt].probes = <<pb>> /\ Hit(rt)' = diff
      BY <3>1 DEF Hit
    <3> QED
      BY <1>1, <2>1, <3>3, <3>4 DEF Owing
  <2> QED
    BY <2>2, <2>3, <2>4
<1> HIDE DEF own, diff, insc
<1>7. NoneEmpty'
  <2> SUFFICES ASSUME NEW x \in net, mf_in[x] # {}, pbset'[x] # NULL
               PROVE  Filled(pbset'[x].probes)
    BY <1>1 DEF NoneEmpty
  <2> QED
    BY <1>4, <1>5, <1>6 DEF NoneEmpty
<1>8. ASSUME NEW x \in net, x # rt
      PROVE  (Full(x) => Full(x)') /\ (Owing(x, q) => Owing(x, q)')
  <2>1. /\ pbset'[x] # NULL => pbset[x] # NULL
        /\ Hit(x)' = Hit(x) /\ \A h : Held(x, h)' <=> Held(x, h)
    BY <1>4, <1>5, <1>8
  <2> QED
    BY <1>1, <2>1 DEF Full, Owing
<1> QED
  BY <1>2, <1>6, <1>7, <1>8

-----------------------------------------------------------------------------
(* Rules that match nothing.                                               *)

\* A rule that matches nothing decides nothing, and its probes are empty.
LEMMA IdleEmpty ==
  ASSUME IInv, NEW x \in net, mf_in[x] = {}
  PROVE  /\ Hit(x) = {}
         /\ pbset[x] # NULL => \A i \in DOMAIN pbset[x].probes : pbset[x].probes[i].bdd_mf = {}
<1>1. Hit(x) = {}
  BY DEF IInv, HitsSoFar, First
<1>2. ASSUME pbset[x] # NULL, NEW i \in DOMAIN pbset[x].probes,
             NEW h \in pbset[x].probes[i].bdd_mf
      PROVE  FALSE
  <2>1. Has(pbset[x].probes, pbset[x].probes[i].override, h)
    BY DEF Has
  <2> QED
    BY <1>1, <1>2, <2>1 DEF IInv, OverridesSoFar
<1> QED
  BY <1>1, <1>2

\* Inserting a rule leaves such rules alone; inserting such a rule gives it a
\* probe set only if there is no rule above it.
LEMMA InsertIdle ==
  ASSUME IInv, NEW r \in Rules, UpdateProbesInsert(r)
  PROVE  /\ \A x \in net : mf_in[x] = {} => pbset'[x] = pbset[x]
         /\ mf_in[r] = {} =>
              IF \E x \in net : x < r THEN pbset'[r] = NULL
              ELSE pbset'[r] # NULL /\ DOMAIN pbset'[r].probes # {}
<1>1. /\ r \notin net /\ Typed /\ net \in SUBSET Rules /\ IsFiniteSet(net) /\ todo = {}
  BY DEF UpdateProbesInsert, IInv, Types
<1>2. /\ Above(r) = {x \in net : x < r}
      /\ Losers(r) = {x \in net : x > r /\ Hit(x) \intersect HitOf(r) # {}}
  BY DEF Above, Losers, Below
<1>3. pbset' = [x \in Rules |->
                  IF x = r THEN OwnProbeSet(r)
                  ELSE IF x \in Above(r) /\ pbset[x] # NULL THEN InsertAbove(r, x)
                  ELSE IF x \in Losers(r) THEN InsertBelow(r, x)
                  ELSE pbset[x]]
  BY DEF UpdateProbesInsert
<1>4. ASSUME NEW x \in net, mf_in[x] = {} PROVE pbset'[x] = pbset[x]
  <2>1. x # r /\ x \in Rules /\ x \notin Losers(r)
    BY <1>1, <1>2, <1>4, IdleEmpty
  <2>2. pbset[x] # NULL => InsertAbove(r, x) = pbset[x]
    BY <1>4, IdleEmpty DEF InsertAbove, Yields
  <2> QED
    BY <1>3, <2>1, <2>2
<1>5. ASSUME mf_in[r] = {}
      PROVE  IF \E x \in net : x < r THEN pbset'[r] = NULL
             ELSE pbset'[r] # NULL /\ DOMAIN pbset'[r].probes # {}
  <2>1. HitOf(r) = {} /\ Losers(r) = {}
    BY <1>2, <1>5 DEF HitOf
  <2>2. WellFormed(OwnProbes(r)) /\ DOMAIN OwnProbes(r) # {}
    BY <1>1, <2>1, OwnProbesArray
  <2>3. pbset'[r] = IF Above(r) # {} THEN NULL
                    ELSE [bdd_hit |-> {}, probes |-> OwnProbes(r)]
    BY <1>3, <2>1 DEF OwnProbeSet
  <2>4. [bdd_hit |-> {}, probes |-> OwnProbes(r)] \in ProbeSet
    BY <2>2 DEF ProbeSet, WellFormed
  <2> QED
    BY <1>2, <2>2, <2>3, <2>4, NullAssumption
<1> QED
  BY <1>4, <1>5

\* The other operations leave them alone, too.
LEMMA RemoveIdle ==
  ASSUME IInv, NEW r \in Rules, UpdateProbesRemove(r)
  PROVE  \A x \in net : x # r /\ mf_in[x] = {} => pbset'[x] = pbset[x]
<1> SUFFICES ASSUME NEW x \in net, x # r, mf_in[x] = {} PROVE pbset'[x] = pbset[x]
  OBVIOUS
<1>1. x \in Rules
  BY DEF IInv, Types
<1>2. pbset[x] # NULL => RemoveAbove(r, x) = pbset[x]
  <2>1. pbset[x] # NULL => pbset[x].bdd_hit = {}
    BY IdleEmpty DEF Hit
  <2> QED
    BY <2>1 DEF RemoveAbove
<1> QED
  BY <1>1, <1>2 DEF UpdateProbesRemove

LEMMA UncoverIdle ==
  ASSUME IInv, NEW rt \in Rules, Uncover(rt)
  PROVE  \A x \in net : mf_in[x] = {} => pbset'[x] = pbset[x]
<1> SUFFICES ASSUME NEW x \in net, mf_in[x] = {} PROVE pbset'[x] = pbset[x]
  OBVIOUS
<1> DEFINE insc == mf_in[removed] \intersect mf_in[rt]
           diff == insc \ UNION {Hit(y) : y \in Above(rt)}
           own == IF diff = {} THEN pbset[rt]
                  ELSE IF pbset[rt] # NULL THEN [pbset[rt] EXCEPT !.bdd_hit = @ \union diff]
                  ELSE [bdd_hit |-> diff,
                        probes |-> <<[bdd_mf |-> diff, override |-> NULL]>>]
<1>1. x \in Rules
  BY DEF IInv, Types
<1>2. pbset[x] # NULL => Resplit(x, rt, insc) = pbset[x]
  <2>1. pbset[x] # NULL => pbset[x].bdd_hit = {}
    BY IdleEmpty DEF Hit
  <2> HIDE DEF insc
  <2> QED
    BY <2>1 DEF Resplit
<1>3. x = rt => own = pbset[x]
  OBVIOUS
<1>4. pbset' = [y \in Rules |->
                  IF y = rt THEN own
                  ELSE IF y \in Above(rt) /\ pbset[y] # NULL THEN Resplit(y, rt, insc)
                  ELSE pbset[y]]
  BY DEF Uncover
<1> HIDE DEF own, insc, diff
<1> QED
  BY <1>1, <1>2, <1>3, <1>4

-----------------------------------------------------------------------------
(* The order of the driver.                                                *)

\* While rules are inserted in list order, nothing is below a new rule; after
\* that each rule goes out and comes back before the next one goes out.
InOrderOfList ==
  /\ phase \in {"insert", "remove", "readd"}
  /\ j \in 0 .. NRules
  /\ phase = "insert" => net = {x \in Rules : x < j} /\ todo = {} /\ \A x \in net : Full(x)
  /\ phase = "remove" => net = Rules /\ todo = {} /\ \A x \in net : Full(x)
  /\ phase = "readd" =>
       /\ j \in Rules /\ net = Rules \ {j}
       /\ todo # {} => removed = j
       /\ \A x \in net : x < j => Full(x)
       /\ \A x \in net : j < x => Owing(x, j)

\* A rule that matches nothing has no probe set, but for the first one.
IdleRules ==
  \A x \in net : mf_in[x] = {} =>
    IF x = 0 THEN pbset[x] # NULL /\ DOMAIN pbset[x].probes # {} ELSE pbset[x] = NULL

DriverInv == IInv /\ NoneEmpty /\ InOrderOfList /\ IdleRules

LEMMA DriverInit == DInit => DriverInv
<1> SUFFICES ASSUME DInit PROVE DriverInv
  OBVIOUS
<1>1. IInv /\ net = {} /\ todo = {}
  BY InitInvariant DEF DInit, Init
<1>2. \A x \in Rules : ~ (x < 0)
  BY NullNotRule
<1>3. 0 \in 0 .. NRules
  BY NRulesAssumption
<1> QED
  BY <1>1, <1>2, <1>3 DEF DInit, DriverInv, NoneEmpty, InOrderOfList, IdleRules

\* A rule is inserted where no rule is above it only if it is the first one.
LEMMA IdleInsert ==
  ASSUME IInv, IdleRules, NEW r \in Rules, UpdateProbesInsert(r),
         r # 0 => \E x \in net : x < r
  PROVE  IdleRules'
<1>1. /\ net' = net \union {r} /\ mf_in' = mf_in
      /\ \A x \in net : x \in Nat /\ ~ (x < 0)
  BY NullNotRule DEF UpdateProbesInsert, IInv, Types
<1>2. /\ \A x \in net : mf_in[x] = {} => pbset'[x] = pbset[x]
      /\ mf_in[r] = {} =>
           IF \E x \in net : x < r THEN pbset'[r] = NULL
           ELSE pbset'[r] # NULL /\ DOMAIN pbset'[r].probes # {}
  BY InsertIdle
<1>3. ASSUME mf_in[r] = {}
      PROVE  IF r = 0 THEN pbset'[r] # NULL /\ DOMAIN pbset'[r].probes # {} ELSE pbset'[r] = NULL
  BY <1>1, <1>2, <1>3
<1>4. ASSUME NEW x \in net, mf_in[x] = {}
      PROVE  IF x = 0 THEN pbset'[x] # NULL /\ DOMAIN pbset'[x].probes # {} ELSE pbset'[x] = NULL
  BY <1>2, <1>4 DEF IdleRules
<1> QED
  BY <1>1, <1>3, <1>4 DEF IdleRules

LEMMA DriverIdle == DriverInv /\ [DNext]_dvars => IdleRules'
<1> SUFFICES ASSUME DriverInv, [DNext]_dvars PROVE IdleRules'
  OBVIOUS
<1> USE DEF DriverInv
<1>1. /\ \A x \in Rules : x \in Nat /\ x < NRules
      /\ \A r \in Rules : r # 0 => 0 \in Rules /\ 0 < r
  BY NRulesAssumption
<1>2. CASE InsertForall
  <2>1. /\ j \in Rules /\ UpdateProbesInsert(j) /\ net = {x \in Rules : x < j}
    BY <1>2, NRulesAssumption DEF InsertForall, InOrderOfList
  <2>2. j # 0 => \E x \in net : x < j
    BY <1>1, <2>1
  <2> QED
    BY <2>1, <2>2, IdleInsert
<1>3. CASE RemoveOne
  <2>1. j \in Rules /\ UpdateProbesRemove(j)
    BY <1>3, NRulesAssumption DEF RemoveOne, InOrderOfList
  <2>2. net' = net \ {j} /\ mf_in' = mf_in
    BY <2>1 DEF UpdateProbesRemove
  <2> QED
    BY <2>1, <2>2, RemoveIdle DEF IdleRules
<1>4. CASE UncoverOne
  <2>1. PICK rt \in Rules : Uncover(rt)
    BY <1>4 DEF UncoverOne
  <2>2. net' = net /\ mf_in' = mf_in
    BY <2>1 DEF Uncover
  <2> QED
    BY <2>1, <2>2, UncoverIdle DEF IdleRules
<1>5. CASE ReaddOne
  <2>1. /\ j \in Rules /\ UpdateProbesInsert(j) /\ net = Rules \ {j}
    BY <1>5 DEF ReaddOne, InOrderOfList
  <2>2. j # 0 => \E x \in net : x < j
    BY <1>1, <2>1
  <2> QED
    BY <2>1, <2>2, IdleInsert
<1>6. CASE UNCHANGED vars
  BY <1>6 DEF vars, IdleRules
<1> QED
  BY <1>2, <1>3, <1>4, <1>5, <1>6 DEF DNext, StartReadd, Finished, dvars

LEMMA DriverNext == DriverInv /\ [DNext]_dvars => DriverInv'
<1> SUFFICES ASSUME DriverInv, [DNext]_dvars PROVE DriverInv'
  OBVIOUS
<1>0. IdleRules'
  BY DriverIdle
<1> USE DEF DriverInv
<1>1. \A x \in Rules : x \in Nat /\ x < NRules
  BY NRulesAssumption
<1>2. \A x \in net : x \in Rules
  BY DEF IInv, Types
<1>3. CASE InsertForall
  <2>1. /\ phase = "insert" /\ j < NRules /\ j' = j + 1 /\ phase' = phase
        /\ UpdateProbesInsert(j)
        /\ net = {x \in Rules : x < j} /\ todo = {} /\ \A x \in net : Full(x)
        /\ j \in 0 .. NRules
    BY <1>3 DEF InsertForall, InOrderOfList
  <2>2. j \in Rules /\ j + 1 \in 0 .. NRules
    BY <2>1, NRulesAssumption
  <2> PICK k \in Rules : k = j
    BY <2>2
  <2>3. IInv'
    BY <2>1, InsertStep
  <2>4. NoneEmpty' /\ Full(k)' /\ \A x \in net : Full(x)'
    <3>1. UpdateProbesInsert(k)
      BY <2>1
    <3>2. /\ NoneEmpty' /\ Full(k)'
          /\ \A x \in net : x < k /\ Full(x) => Full(x)'
      BY <3>1, InsertHeld
    <3> QED
      BY <2>1, <3>2
  <2>5. net' = net \union {j} /\ todo' = {}
    BY <2>1 DEF UpdateProbesInsert
  <2>6. net' = {x \in Rules : x < j + 1}
    <3>1. \A x \in Rules : x < j + 1 <=> x < j \/ x = j
      BY <1>1, <2>1
    <3> QED
      BY <2>1, <2>2, <2>5, <3>1
  <2>7. \A x \in net' : Full(x)'
    BY <2>4, <2>5
  <2> QED
    BY <1>0, <2>1, <2>2, <2>3, <2>4, <2>5, <2>6, <2>7 DEF InOrderOfList
<1>4. CASE StartReadd
  <2>1. /\ phase = "insert" /\ j = NRules /\ phase' = "remove" /\ j' = 0
        /\ net' = net /\ todo' = todo /\ removed' = removed
        /\ pbset' = pbset /\ mf_in' = mf_in
    BY <1>4 DEF StartReadd, vars
  <2>2. IInv'
    BY <2>1, NextInvariant DEF vars
  <2>3. NoneEmpty'
    BY <2>1 DEF NoneEmpty
  <2>4. /\ net = {x \in Rules : x < j} /\ todo = {} /\ \A x \in net : Full(x)
    BY <2>1 DEF InOrderOfList
  <2>5. net' = Rules
    BY <1>1, <2>1, <2>4
  <2>6. \A x \in net' : Full(x)'
    BY <2>1, <2>4 DEF Full, Held, Hit
  <2>7. 0 \in 0 .. NRules
    BY NRulesAssumption
  <2> QED
    BY <1>0, <2>1, <2>2, <2>3, <2>4, <2>5, <2>6, <2>7 DEF InOrderOfList
<1>5. CASE RemoveOne
  <2>1. /\ phase = "remove" /\ j < NRules /\ j' = j /\ phase' = "readd"
        /\ UpdateProbesRemove(j)
        /\ net = Rules /\ todo = {} /\ \A x \in net : Full(x)
        /\ j \in 0 .. NRules
    BY <1>5 DEF RemoveOne, InOrderOfList
  <2>2. j \in Rules
    BY <2>1, NRulesAssumption
  <2> PICK k \in Rules : k = j
    BY <2>2
  <2>3. IInv'
    BY <2>1, RemoveStep
  <2>4. /\ NoneEmpty'
        /\ \A x \in net : x < k => Full(x)'
        /\ \A x \in net : k < x => Owing(x, k)'
    <3>1. UpdateProbesRemove(k)
      BY <2>1
    <3> QED
      BY <2>1, <3>1, RemoveHeld
  <2>5. net' = net \ {j} /\ (todo' # {} => removed' = j)
    BY <2>1 DEF UpdateProbesRemove
  <2>6. j' = k
    BY <2>1
  <2> QED
    BY <1>0, <2>1, <2>2, <2>3, <2>4, <2>5, <2>6 DEF InOrderOfList
<1>6. CASE UncoverOne
  <2>1. PICK rt \in Rules : Uncover(rt)
    BY <1>6 DEF UncoverOne
  <2>2. /\ phase = "readd" /\ phase' = phase /\ j' = j
        /\ j \in Rules /\ net = Rules \ {j} /\ (todo # {} => removed = j)
        /\ \A x \in net : x < j => Full(x)
        /\ \A x \in net : j < x => Owing(x, j)
        /\ j \in 0 .. NRules
    BY <1>6 DEF UncoverOne, InOrderOfList
  <2>3. /\ rt \in todo /\ net' = net /\ todo' = todo \ {rt}
        /\ (todo' # {} => removed' = removed)
    BY <2>1 DEF Uncover
  <2> PICK k \in Rules : k = j
    BY <2>2
  <2>4. k = removed
    BY <2>2, <2>3
  <2>5. IInv'
    BY <2>1, UncoverStep
  <2>6. /\ NoneEmpty'
        /\ \A x \in net : x < k /\ Full(x) => Full(x)'
        /\ \A x \in net : k < x /\ Owing(x, k) => Owing(x, k)'
    BY <2>1, <2>4, UncoverHeld
  <2>7. /\ j' = k
        /\ \A x \in net : x < k => Full(x)'
        /\ \A x \in net : k < x => Owing(x, k)'
    BY <2>2, <2>6
  <2> QED
    BY <1>0, <2>2, <2>3, <2>4, <2>5, <2>6, <2>7 DEF InOrderOfList
<1>7. CASE ReaddOne
  <2>1. /\ phase = "readd" /\ phase' = "remove" /\ j' = j + 1 /\ todo = {}
        /\ UpdateProbesInsert(j)
        /\ j \in Rules /\ net = Rules \ {j}
        /\ \A x \in net : x < j => Full(x)
        /\ \A x \in net : j < x => Owing(x, j)
    BY <1>7 DEF ReaddOne, InOrderOfList
  <2> PICK k \in Rules : k = j
    BY <2>1
  <2>2. IInv'
    BY <2>1, InsertStep
  <2>3. /\ NoneEmpty' /\ Full(k)'
        /\ \A x \in net : x < k => Full(x)'
        /\ \A x \in net : k < x => Full(x)'
    <3>1. UpdateProbesInsert(k)
      BY <2>1
    <3> QED
      BY <2>1, <3>1, InsertHeld
  <2>4. net' = net \union {j} /\ todo' = {}
    BY <2>1 DEF UpdateProbesInsert
  <2>5. \A x \in net : x < k \/ k < x
    BY <1>1, <2>1
  <2>6. \A x \in net' : Full(x)'
    BY <2>1, <2>3, <2>4, <2>5
  <2>7. net' = Rules /\ j + 1 \in 0 .. NRules
    BY <2>1, <2>4, NRulesAssumption
  <2> QED
    BY <1>0, <2>1, <2>2, <2>3, <2>4, <2>6, <2>7 DEF InOrderOfList
<1>8. CASE UNCHANGED dvars
  <2>1. /\ net' = net /\ todo' = todo /\ removed' = removed /\ pbset' = pbset
        /\ mf_in' = mf_in /\ phase' = phase /\ j' = j
    BY <1>8 DEF dvars, vars
  <2>2. IInv'
    BY <2>1, NextInvariant DEF vars
  <2> QED
    BY <1>0, <2>1, <2>2 DEF NoneEmpty, InOrderOfList, Full, Owing, Held, Hit
<1> QED
  BY <1>3, <1>4, <1>5, <1>6, <1>7, <1>8 DEF DNext, Finished

\* The invariant of the program's own order of calls.
THEOREM DriverInvariant == DSpec => []DriverInv
BY DriverInit, DriverNext, PTL DEF DSpec

LEMMA InvComplete == DriverInv => RestComplete
<1> SUFFICES ASSUME DriverInv, RestPoint, todo = {}, NEW r \in net, pbset[r] # NULL
             PROVE  UnionOf(pbset[r].probes) = pbset[r].bdd_hit
  BY DEF RestComplete, ProbesComplete
<1>1. Full(r) /\ IInv
  BY DEF DriverInv, InOrderOfList, RestPoint
<1>2. Hit(r) = pbset[r].bdd_hit
  BY DEF Hit
<1>3. \A h \in pbset[r].bdd_hit : Held(r, h)
  BY <1>1, <1>2 DEF Full
<1>4. \A o, h : Has(pbset[r].probes, o, h) => h \in Hit(r)
  BY <1>1, AtRestInv
<1>5. \A h : h \in UnionOf(pbset[r].probes) <=> \E o : Has(pbset[r].probes, o, h)
  BY UnionHas
<1> QED
  BY <1>2, <1>3, <1>4, <1>5 DEF Held

\* In the order of the program (UpdateProbesInsert_forall, then
\* UpdateProbes_remove_then_readd) every header that a rule decides is in one of
\* its probes whenever all rules are in the net.
THEOREM RestIsComplete == DSpec => []RestComplete
BY DriverInvariant, InvComplete, PTL

-----------------------------------------------------------------------------
(* What the probes are when all rules are in the net.                      *)

AllIn == DriverInv /\ RestPoint /\ net = Rules

\* The pairs of a rule and the rule that would decide next, for all headers.
AllPairs ==
  {t \in Rules \X (Rules \union {NULL}) :
     \E h \in Headers : First(mf_in, Rules, t[1], h) /\ IsNext(mf_in, Rules, t[1], t[2], h)}

\* The probes that count_RuleChecker_result counts.
AllProbes ==
  {p \in Rules \X (1 .. Cardinality(Rules) + 1) :
     pbset[p[1]] # NULL /\ p[2] \in DOMAIN pbset[p[1]].probes}

OverrideOf(p) == pbset[p[1]].probes[p[2]].override
MatchOf(p) == pbset[p[1]].probes[p[2]].bdd_mf

LEMMA RulesFinite == IsFiniteSet(Rules) /\ Cardinality(Rules) \in Nat
<1>1. 0 \in Int /\ NRules - 1 \in Int
  BY NRulesAssumption
<1> QED
  BY <1>1, FS_Interval, FS_CardinalityType, NRulesAssumption

\* A probe array has at most one probe for each rule and one for no rule.
LEMMA ArrayBound ==
  ASSUME NEW pbs, WellFormed(pbs)
  PROVE  \A i \in DOMAIN pbs : i \in 1 .. Cardinality(Rules) + 1
<1> DEFINE O == Rules \union {NULL}
           f == [i \in DOMAIN pbs |-> pbs[i].override]
<1>1. /\ Len(pbs) \in Nat /\ DOMAIN pbs = 1 .. Len(pbs)
      /\ \A i \in DOMAIN pbs : pbs[i].override \in O
  BY ProbeTypes DEF WellFormed
<1>2. f \in Injection(DOMAIN pbs, O)
  <2>1. f \in [DOMAIN pbs -> O]
    BY <1>1
  <2>2. \A i, k \in DOMAIN pbs : f[i] = f[k] => i = k
    BY DEF WellFormed
  <2> HIDE DEF f, O
  <2> QED
    BY <2>1, <2>2 DEF Injection, IsInjective
<1>3. IsFiniteSet(O) /\ Cardinality(O) = Cardinality(Rules) + 1
  BY RulesFinite, NullNotRule, FS_AddElement
<1>4. Cardinality(DOMAIN pbs) <= Cardinality(Rules) + 1
  <2> HIDE DEF f, O
  <2> QED
    BY <1>2, <1>3, FS_Injection
<1>5. Cardinality(1 .. Len(pbs)) = Len(pbs)
  <2>1. Cardinality(1 .. Len(pbs)) = IF 1 > Len(pbs) THEN 0 ELSE Len(pbs) - 1 + 1
    BY <1>1, FS_Interval
  <2> QED
    BY <1>1, <2>1
<1>6. Len(pbs) <= Cardinality(Rules) + 1
  BY <1>1, <1>4, <1>5
<1> QED
  BY <1>1, <1>6, RulesFinite

\* Each probe holds exactly the headers that its rule decides and its override
\* would decide next, and there is a probe for each such pair.
LEMMA ProbesAreTests ==
  ASSUME AllIn
  PROVE  /\ \A p \in AllProbes :
              /\ OverrideOf(p) \in Rules \union {NULL}
              /\ \A h : h \in MatchOf(p) <=>
                   /\ h \in Headers /\ First(mf_in, Rules, p[1], h)
                   /\ IsNext(mf_in, Rules, p[1], OverrideOf(p), h)
         /\ \A p, u \in AllProbes : p[1] = u[1] /\ OverrideOf(p) = OverrideOf(u) => p = u
         /\ \A t \in AllPairs : \E p \in AllProbes :
              p[1] = t[1] /\ OverrideOf(p) = t[2] /\ MatchOf(p) # {}
<1>1. /\ IInv /\ todo = {} /\ net = Rules /\ \A x \in Rules : Full(x)
      /\ mf_in \in [Rules -> SUBSET Headers]
  <2>1. IInv /\ InOrderOfList /\ net = Rules /\ RestPoint
    BY DEF AllIn, DriverInv
  <2> QED
    BY <2>1 DEF InOrderOfList, RestPoint, IInv, Types, Typed
<1>2. /\ \A x \in Rules : \A h : h \in Hit(x) <=> First(mf_in, Rules, x, h)
      /\ \A x \in Rules : pbset[x] # NULL =>
           /\ WellFormed(pbset[x].probes)
           /\ \A o, h : Has(pbset[x].probes, o, h) =>
                /\ o \in Rules \union {NULL} /\ h \in Hit(x)
                /\ IsNext(mf_in, Rules, x, o, h)
  BY <1>1, AtRestInv
<1>3. \A x \in Rules : \A h : First(mf_in, Rules, x, h) =>
        /\ h \in Headers /\ pbset[x] # NULL
        /\ \E o : Has(pbset[x].probes, o, h)
  <2> SUFFICES ASSUME NEW x \in Rules, NEW h, First(mf_in, Rules, x, h)
               PROVE  /\ h \in Headers /\ pbset[x] # NULL
                      /\ \E o : Has(pbset[x].probes, o, h)
    OBVIOUS
  <2>1. h \in mf_in[x] /\ h \in Hit(x)
    BY <1>2 DEF First
  <2>2. pbset[x] # NULL
    BY <2>1 DEF Hit
  <2>3. Held(x, h)
    BY <1>1, <2>1, <2>2 DEF Full
  <2> QED
    BY <1>1, <2>1, <2>2, <2>3 DEF Held
<1>4. \A p \in AllProbes : /\ p[1] \in Rules /\ pbset[p[1]] # NULL
                           /\ p[2] \in DOMAIN pbset[p[1]].probes
                           /\ p = <<p[1], p[2]>>
  BY DEF AllProbes
<1>5. ASSUME NEW p \in AllProbes
      PROVE  OverrideOf(p) \in Rules \union {NULL}
  <2>1. WellFormed(pbset[p[1]].probes)
    BY <1>2, <1>4
  <2> QED
    BY <1>4, <2>1, ProbeTypes DEF WellFormed, OverrideOf
<1>6. ASSUME NEW p \in AllProbes, NEW u \in AllProbes, p[1] = u[1], OverrideOf(p) = OverrideOf(u)
      PROVE  p = u
  <2>1. WellFormed(pbset[p[1]].probes)
    BY <1>2, <1>4
  <2>2. p[2] = u[2]
    BY <1>4, <1>6, <2>1 DEF WellFormed, OverrideOf
  <2> QED
    BY <1>4, <1>6, <2>2
<1>7. ASSUME NEW p \in AllProbes, NEW h \in MatchOf(p)
      PROVE  /\ h \in Headers /\ First(mf_in, Rules, p[1], h)
             /\ IsNext(mf_in, Rules, p[1], OverrideOf(p), h)
  <2>1. Has(pbset[p[1]].probes, OverrideOf(p), h)
    BY <1>4, <1>7 DEF Has, OverrideOf, MatchOf
  <2> QED
    BY <1>2, <1>3, <1>4, <2>1
<1>8. ASSUME NEW p \in AllProbes, NEW h, First(mf_in, Rules, p[1], h),
             IsNext(mf_in, Rules, p[1], OverrideOf(p), h)
      PROVE  h \in MatchOf(p)
  <2>1. PICK o : Has(pbset[p[1]].probes, o, h)
    BY <1>3, <1>4, <1>8
  <2>2. o \in Rules \union {NULL} /\ IsNext(mf_in, Rules, p[1], o, h)
    BY <1>2, <1>4, <2>1
  <2>3. o = OverrideOf(p)
    BY <1>5, <1>8, <2>2, NextUnique
  <2>4. PICK i \in DOMAIN pbset[p[1]].probes :
           pbset[p[1]].probes[i].override = o /\ h \in pbset[p[1]].probes[i].bdd_mf
    BY <2>1 DEF Has
  <2>5. i = p[2]
    BY <1>2, <1>4, <2>3, <2>4 DEF WellFormed, OverrideOf
  <2> QED
    BY <2>4, <2>5 DEF MatchOf
<1>9. ASSUME NEW t \in AllPairs
      PROVE  \E p \in AllProbes : p[1] = t[1] /\ OverrideOf(p) = t[2] /\ MatchOf(p) # {}
  <2>1. PICK h \in Headers : First(mf_in, Rules, t[1], h) /\ IsNext(mf_in, Rules, t[1], t[2], h)
    BY DEF AllPairs
  <2>2. t[1] \in Rules /\ t[2] \in Rules \union {NULL}
    BY DEF AllPairs
  <2>3. pbset[t[1]] # NULL /\ \E o : Has(pbset[t[1]].probes, o, h)
    BY <1>3, <2>1, <2>2
  <2>4. PICK o : Has(pbset[t[1]].probes, o, h)
    BY <2>3
  <2>5. o \in Rules \union {NULL} /\ IsNext(mf_in, Rules, t[1], o, h)
    BY <1>2, <2>2, <2>3, <2>4
  <2>6. o = t[2]
    BY <2>1, <2>2, <2>5, NextUnique
  <2>7. PICK i \in DOMAIN pbset[t[1]].probes :
           pbset[t[1]].probes[i].override = o /\ h \in pbset[t[1]].probes[i].bdd_mf
    BY <2>4 DEF Has
  <2>8. WellFormed(pbset[t[1]].probes)
    BY <1>2, <2>2, <2>3
  <2>9. i \in 1 .. Cardinality(Rules) + 1
    BY <2>7, <2>8, ArrayBound
  <2>10. <<t[1], i>> \in AllProbes
    BY <2>2, <2>3, <2>7, <2>9 DEF AllProbes
  <2>11. OverrideOf(<<t[1], i>>) = t[2] /\ h \in MatchOf(<<t[1], i>>)
    BY <2>6, <2>7 DEF OverrideOf, MatchOf
  <2> QED
    BY <2>10, <2>11
<1> QED
  BY <1>5, <1>6, <1>7, <1>8, <1>9

\* There are as many probes as pairs, and one more if the first rule matches
\* nothing: it keeps one empty probe.
LEMMA ProbeCount ==
  ASSUME AllIn
  PROVE  /\ IsFiniteSet(AllPairs)
         /\ Cardinality(AllProbes) =
              Cardinality(AllPairs) + (IF 0 \in Rules /\ mf_in[0] = {} THEN 1 ELSE 0)
<1> DEFINE F == {p \in AllProbes : MatchOf(p) # {}}
           f == [p \in F |-> <<p[1], OverrideOf(p)>>]
<1>1. /\ \A p \in AllProbes :
            /\ OverrideOf(p) \in Rules \union {NULL}
            /\ \A h : h \in MatchOf(p) <=>
                 /\ h \in Headers /\ First(mf_in, Rules, p[1], h)
                 /\ IsNext(mf_in, Rules, p[1], OverrideOf(p), h)
      /\ \A p, u \in AllProbes : p[1] = u[1] /\ OverrideOf(p) = OverrideOf(u) => p = u
      /\ \A t \in AllPairs : \E p \in AllProbes :
            p[1] = t[1] /\ OverrideOf(p) = t[2] /\ MatchOf(p) # {}
  BY ProbesAreTests
<1>2. \A p \in AllProbes : p[1] \in Rules /\ pbset[p[1]] # NULL
                           /\ p[2] \in DOMAIN pbset[p[1]].probes /\ p = <<p[1], p[2]>>
  BY DEF AllProbes
<1>3. IsFiniteSet(AllProbes)
  <2>1. IsFiniteSet(1 .. Cardinality(Rules) + 1)
    BY RulesFinite, FS_Interval
  <2>2. IsFiniteSet(Rules \X (1 .. Cardinality(Rules) + 1))
    BY <2>1, RulesFinite, FS_Product
  <2> QED
    BY <2>2, FS_Subset DEF AllProbes
<1>4. f \in Bijection(F, AllPairs)
  <2>1. \A p \in F : <<p[1], OverrideOf(p)>> \in AllPairs
    <3> TAKE p \in F
    <3>1. PICK h : h \in MatchOf(p)
      OBVIOUS
    <3>2. /\ h \in Headers /\ First(mf_in, Rules, p[1], h)
          /\ IsNext(mf_in, Rules, p[1], OverrideOf(p), h)
      BY <1>1, <3>1
    <3> QED
      BY <1>1, <1>2, <3>2 DEF AllPairs
  <2>2. f \in [F -> AllPairs]
    BY <2>1
  <2>3. \A p, u \in F : f[p] = f[u] => p = u
    <3> SUFFICES ASSUME NEW p \in F, NEW u \in F, f[p] = f[u] PROVE p = u
      OBVIOUS
    <3>1. p[1] = u[1] /\ OverrideOf(p) = OverrideOf(u)
      OBVIOUS
    <3> QED
      BY <1>1, <3>1
  <2>4. \A t \in AllPairs : \E p \in F : f[p] = t
    <3> TAKE t \in AllPairs
    <3>1. PICK p \in AllProbes : p[1] = t[1] /\ OverrideOf(p) = t[2] /\ MatchOf(p) # {}
      BY <1>1
    <3>2. t = <<t[1], t[2]>>
      BY DEF AllPairs
    <3>3. p \in F /\ f[p] = t
      BY <3>1, <3>2
    <3> QED
      BY <3>3
  <2> HIDE DEF F, f
  <2> QED
    BY <2>2, <2>3, <2>4 DEF Bijection, Injection, Surjection, IsInjective
<1>5. IsFiniteSet(F) /\ IsFiniteSet(AllPairs) /\ Cardinality(AllPairs) = Cardinality(F)
  <2>1. F \in SUBSET AllProbes
    OBVIOUS
  <2> HIDE DEF F, f
  <2>2. IsFiniteSet(F)
    BY <1>3, <2>1, FS_Subset
  <2>3. ExistsBijection(F, AllPairs)
    BY <1>4 DEF ExistsBijection
  <2> QED
    BY <2>2, <2>3, FS_Bijection
<1>6. DriverInv /\ net = Rules /\ IInv /\ NoneEmpty /\ IdleRules
  BY DEF AllIn, DriverInv
<1>7. \A p \in AllProbes \ F : p[1] = 0 /\ 0 \in Rules /\ mf_in[0] = {}
  <2> SUFFICES ASSUME NEW p \in AllProbes, MatchOf(p) = {}
               PROVE  p[1] = 0 /\ 0 \in Rules /\ mf_in[0] = {}
    OBVIOUS
  <2>1. mf_in[p[1]] = {}
    BY <1>2, <1>6 DEF NoneEmpty, Filled, MatchOf
  <2>2. p[1] = 0
    BY <1>2, <1>6, <2>1 DEF IdleRules
  <2> QED
    BY <1>2, <2>1, <2>2
<1>8. CASE ~ (0 \in Rules /\ mf_in[0] = {})
  <2>1. AllProbes = F
    BY <1>7, <1>8
  <2> HIDE DEF F, f
  <2>2. Cardinality(F) \in Nat
    BY <1>5, FS_CardinalityType
  <2> QED
    BY <1>5, <1>8, <2>1, <2>2
<1>9. CASE 0 \in Rules /\ mf_in[0] = {}
  <2>1. pbset[0] # NULL /\ DOMAIN pbset[0].probes # {}
    BY <1>6, <1>9 DEF IdleRules
  <2>2. PICK i : i \in DOMAIN pbset[0].probes
    BY <2>1
  <2>3. WellFormed(pbset[0].probes)
    BY <1>6, <1>9, <2>1 DEF IInv, Arrays
  <2>4. \A k \in DOMAIN pbset[0].probes : pbset[0].probes[k].bdd_mf = {}
    BY <1>6, <1>9, <2>1, IdleEmpty
  <2>5. \A k \in DOMAIN pbset[0].probes : k = i
    BY <2>2, <2>3, <2>4 DEF WellFormed
  <2>6. i \in 1 .. Cardinality(Rules) + 1
    BY <2>2, <2>3, ArrayBound
  <2>7. <<0, i>> \in AllProbes
    BY <1>9, <2>1, <2>2, <2>6 DEF AllProbes
  <2>8. MatchOf(<<0, i>>) = {}
    BY <2>2, <2>4 DEF MatchOf
  <2>9. \A p \in AllProbes \ F : p = <<0, i>>
    <3> TAKE p \in AllProbes \ F
    <3>1. p[1] = 0 /\ p[2] \in DOMAIN pbset[0].probes /\ p = <<p[1], p[2]>>
      BY <1>2, <1>7
    <3> QED
      BY <2>5, <3>1
  <2>10. AllProbes = F \union {<<0, i>>} /\ <<0, i>> \notin F
    BY <2>7, <2>8, <2>9
  <2> HIDE DEF F, f
  <2> QED
    BY <1>5, <1>9, <2>10, FS_AddElement
<1> QED
  BY <1>5, <1>8, <1>9
=============================================================================
