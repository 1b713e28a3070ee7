------------------------- MODULE MtbddDriver_proofs -------------------------
(***************************************************************************)
(* Proofs about MtbddTable and its driver, for every set of headers and    *)
(* every match function: first the table by itself, in any order of        *)
(* updates (nothing of that part is about the driver or cites              *)
(* NRulesAssumption), then the driver, which is a use of the table and in  *)
(* whose order of updates every pair names the two highest rules and every *)
(* self_bdd is the region of its terminal.                                 *)
(***************************************************************************)
EXTENDS MtbddDriver, WellFoundedInduction, TLAPS

-----------------------------------------------------------------------------
(* The table.                                                              *)

\* Every nonempty set of positions has a smallest one.
LEMMA SmallestPosition ==
  ASSUME NEW S \in SUBSET Nat, S # {}
  PROVE  \E x \in S : \A y \in S : x <= y
<1> DEFINE R == OpToRel(<, Nat)
<1>1. IsWellFoundedOn(R, Nat)
  BY NatLessThanWellFounded
<1>2. \A x, y \in Nat : y < x => <<y, x>> \in R
  BY DEF OpToRel
<1> HIDE DEF R
<1>3. PICK x \in S : \A y \in S : ~ (<<y, x>> \in R)
  BY <1>1, WFMin
<1>4. \A y \in S : ~ (y < x)
  BY <1>2, <1>3
<1>5. S \subseteq Nat
  OBVIOUS
<1>6. \A y \in S : x <= y
  BY <1>4, <1>5
<1> QED
  BY <1>6

\* Best is NULL when no rule matches.
LEMMA BestNone ==
  ASSUME NEW mf, NEW S, NEW h, Matching(mf, S, h) = {}
  PROVE  Best(mf, S, h) = NULL
BY DEF Best

\* Best is the only matching rule that is below no other.
LEMMA BestIs ==
  ASSUME NEW mf, NEW S \in SUBSET Rules, NEW h,
         NEW r \in Matching(mf, S, h),
         \A x \in Matching(mf, S, h) : r <= x
  PROVE  Best(mf, S, h) = r
<1>1. Matching(mf, S, h) \subseteq Nat
  BY RulesAssumption DEF Matching
<1>2. \A c \in Matching(mf, S, h) :
        (\A x \in Matching(mf, S, h) : c <= x) => c = r
  BY <1>1
<1> QED
  BY <1>2 DEF Best

-----------------------------------------------------------------------------
(* The inductive invariant.                                                *)

IInv ==
  /\ TypeOK
  /\ TopLive
  /\ CoverComplete
  /\ CoverDescends
  /\ ReaddPending

\* The null pointer is no rule, and rules are positions.
LEMMA NullNotRule == NULL \notin Rules /\ Rules \subseteq Nat
BY RulesAssumption

\* A leaf names one rule, BDDZERO none.
LEMMA LeafFacts ==
  ASSUME NEW r
  PROVE  /\ Rh(Leaf(r)) = r
         /\ Rl(Leaf(r)) = NULL
         /\ Rh(Zero) = NULL
         /\ Rl(Zero) = NULL
BY DEF Leaf, Zero, Rh, Rl

\* The rule that decides a header after r has been added to its terminal is the
\* higher of r and the rule that decided it before.
LEMMA AddTerminalTop ==
  ASSUME NEW r \in Rules, NEW v \in Terminal,
         v # Zero => Rh(v) \in Rules
  PROVE  /\ AddTerminal(v, r) \in Terminal
         /\ AddTerminal(v, r) # Zero
         /\ Rh(AddTerminal(v, r)) \in Rules
         /\ v = Zero => Rh(AddTerminal(v, r)) = r
         /\ v # Zero /\ Rh(v) <= r => Rh(AddTerminal(v, r)) = Rh(v)
         /\ v # Zero /\ Rh(v) > r => Rh(AddTerminal(v, r)) = r
<1> USE RulesAssumption
<1>1. CASE v = Zero
  <2>1. AddTerminal(v, r) = Leaf(r)
    BY <1>1 DEF AddTerminal
  <2> QED
    BY <1>1, <2>1 DEF Leaf, Terminal, Rh, Zero
<1>2. CASE v # Zero /\ v = Leaf(r)
  <2>1. AddTerminal(v, r) = Leaf(r)
    BY <1>2 DEF AddTerminal
  <2> QED
    BY <1>2, <2>1 DEF Leaf, Terminal, Rh, Zero
<1>3. CASE v \notin {Zero, Leaf(r)} /\ Joins(v, r)
  <2>1. AddTerminal(v, r) = JoinOf(v, r)
    BY <1>3 DEF AddTerminal
  <2>2. Rh(v) \in Rules
    BY <1>3
  <2>3. Rh(v) \in Nat /\ r \in Nat
    BY <2>2, NullNotRule
  <2>4. CASE Rh(v) <= r
    <3>1. AddTerminal(v, r) = <<Rh(v), r>>
      BY <2>1, <2>4 DEF JoinOf
    <3>2. ~ (Rh(v) > r)
      BY <2>3, <2>4
    <3> QED
      BY <1>3, <2>2, <2>4, <3>1, <3>2 DEF Terminal, Rh, Zero
  <2>5. CASE ~ (Rh(v) <= r)
    <3>1. AddTerminal(v, r) = <<r, Rh(v)>>
      BY <2>1, <2>5 DEF JoinOf
    <3> QED
      BY <1>3, <2>2, <2>5, <3>1 DEF Terminal, Rh, Zero
  <2> QED
    BY <2>4, <2>5
<1>4. CASE v \notin {Zero, Leaf(r)} /\ ~ Joins(v, r)
  <2>1. AddTerminal(v, r) = v
    BY <1>4 DEF AddTerminal
  <2>2. Rh(v) \in Rules /\ ~ (Rh(v) > r)
    BY <1>4 DEF Joins
  <2> QED
    BY <1>4, <2>1, <2>2
<1> QED
  BY <1>1, <1>2, <1>3, <1>4

\* A pair made by adding r names the higher rule first.
LEMMA AddTerminalDescends ==
  ASSUME NEW r \in Rules, NEW v \in Terminal,
         v # Zero => Rh(v) \in Rules /\ Rh(v) # r,
         Rl(v) # NULL => Rh(v) < Rl(v),
         Rl(AddTerminal(v, r)) # NULL
  PROVE  Rh(AddTerminal(v, r)) < Rl(AddTerminal(v, r))
<1>1. v # Zero /\ v # Leaf(r)
  BY LeafFacts DEF AddTerminal
<1>2. Rh(v) \in Nat /\ r \in Nat /\ Rh(v) # r
  BY <1>1, NullNotRule
<1>3. CASE ~ Joins(v, r)
  BY <1>1, <1>3 DEF AddTerminal
<1>4. CASE Joins(v, r) /\ Rh(v) <= r
  <2>1. AddTerminal(v, r) = <<Rh(v), r>>
    BY <1>1, <1>4 DEF AddTerminal, JoinOf
  <2>2. Rh(v) < r
    BY <1>2, <1>4
  <2> QED
    BY <2>1, <2>2 DEF Rh, Rl
<1>5. CASE Joins(v, r) /\ ~ (Rh(v) <= r)
  <2>1. AddTerminal(v, r) = <<r, Rh(v)>>
    BY <1>1, <1>5 DEF AddTerminal, JoinOf
  <2>2. r < Rh(v)
    BY <1>2, <1>5
  <2> QED
    BY <2>1, <2>2 DEF Rh, Rl
<1> QED
  BY <1>3, <1>4, <1>5

-----------------------------------------------------------------------------
(* What one call of mtbdd_r_add_1tb does.                                  *)

\* The terminals: r decides the headers of m where nothing higher did.
LEMMA AddRuleTerminals ==
  ASSUME NEW r \in Rules, NEW m \in SUBSET Headers,
         TypeOK, TopLive, AddRule(r, m)
  PROVE  /\ mtbdd' \in [Headers -> Terminal]
         /\ \A h \in Headers \ m : mtbdd'[h] = mtbdd[h]
         /\ \A h \in m :
              /\ mtbdd'[h] = AddTerminal(mtbdd[h], r)
              /\ mtbdd'[h] # Zero
              /\ Rh(mtbdd'[h]) \in Rules
              /\ mtbdd[h] = Zero => Rh(mtbdd'[h]) = r
              /\ mtbdd[h] # Zero /\ Rh(mtbdd[h]) <= r => Rh(mtbdd'[h]) = Rh(mtbdd[h])
              /\ mtbdd[h] # Zero /\ Rh(mtbdd[h]) > r => Rh(mtbdd'[h]) = r
<1>1. \A h \in Headers : mtbdd[h] \in Terminal
  BY DEF TypeOK
<1>2. \A h \in Headers : mtbdd[h] # Zero => Rh(mtbdd[h]) \in Rules
  BY DEF TopLive, Live
<1>3. mtbdd' = [h \in Headers |->
                  IF h \in m THEN AddTerminal(mtbdd[h], r) ELSE mtbdd[h]]
  BY DEF AddRule
<1>4. \A h \in Headers \ m : mtbdd'[h] = mtbdd[h]
  BY <1>3
<1>5. ASSUME NEW h \in m
      PROVE  /\ mtbdd'[h] = AddTerminal(mtbdd[h], r)
             /\ mtbdd'[h] \in Terminal
             /\ mtbdd'[h] # Zero
             /\ Rh(mtbdd'[h]) \in Rules
             /\ mtbdd[h] = Zero => Rh(mtbdd'[h]) = r
             /\ mtbdd[h] # Zero /\ Rh(mtbdd[h]) <= r => Rh(mtbdd'[h]) = Rh(mtbdd[h])
             /\ mtbdd[h] # Zero /\ Rh(mtbdd[h]) > r => Rh(mtbdd'[h]) = r
  <2>1. mtbdd'[h] = AddTerminal(mtbdd[h], r)
    BY <1>3
  <2>2. mtbdd[h] \in Terminal /\ (mtbdd[h] # Zero => Rh(mtbdd[h]) \in Rules)
    BY <1>1, <1>2
  <2> QED
    BY <2>1, <2>2, AddTerminalTop
<1>6. mtbdd' \in [Headers -> Terminal]
  <2>1. \A h \in Headers : mtbdd'[h] \in Terminal
    BY <1>1, <1>4, <1>5
  <2> QED
    BY <1>3, <2>1
<1> QED
  BY <1>4, <1>5, <1>6

\* The covering: it grows by exactly the pairs of rules that meet in m.
LEMMA AddRuleCovering ==
  ASSUME NEW r \in Rules, NEW m \in SUBSET Headers,
         TypeOK, TopLive, AddRule(r, m)
  PROVE  /\ covering' \in [Rules -> SUBSET Rules]
         /\ \A a \in Rules : covering[a] \subseteq covering'[a]
         /\ \A h \in m : mtbdd[h] # Zero =>
              /\ Rh(mtbdd[h]) < r => r \in covering'[Rh(mtbdd[h])]
              /\ Rh(mtbdd[h]) > r => Rh(mtbdd[h]) \in covering'[r]
         /\ \A a \in Rules : \A b \in covering'[a] :
              \/ b \in covering[a]
              \/ \E h \in m :
                   /\ mtbdd[h] # Zero
                   /\ \/ a = Rh(mtbdd[h]) /\ b = r /\ Rh(mtbdd[h]) <= r
                      \/ a = r /\ b = Rh(mtbdd[h]) /\ Rh(mtbdd[h]) > r
<1>1. covering' = [a \in Rules |->
         covering[a] \union
           {b \in Rules : \E v \in Touched(r, m) :
              \/ a = Rh(v) /\ b = r /\ Rh(v) <= r
              \/ a = r /\ b = Rh(v) /\ Rh(v) > r}]
  BY DEF AddRule, AddCovering
<1>2. covering \in [Rules -> SUBSET Rules]
  BY DEF TypeOK
<1>3. covering' \in [Rules -> SUBSET Rules]
  BY <1>1, <1>2
<1>4. \A a \in Rules : covering[a] \subseteq covering'[a]
  BY <1>1
<1>5. ASSUME NEW h \in m, mtbdd[h] # Zero
      PROVE  /\ Rh(mtbdd[h]) < r => r \in covering'[Rh(mtbdd[h])]
             /\ Rh(mtbdd[h]) > r => Rh(mtbdd[h]) \in covering'[r]
  <2>1. Rh(mtbdd[h]) \in Rules
    BY <1>5 DEF TopLive, Live
  <2>2. Rh(mtbdd[h]) \in Nat /\ r \in Nat
    BY <2>1, NullNotRule
  <2>3. CASE Rh(mtbdd[h]) # r
    <3>1. mtbdd[h] \in Touched(r, m)
      BY <1>5, <2>3, LeafFacts DEF Touched
    <3> QED
      BY <1>1, <2>1, <2>2, <3>1
  <2>4. CASE Rh(mtbdd[h]) = r
    BY <2>2, <2>4
  <2> QED
    BY <2>3, <2>4
<1>6. ASSUME NEW a \in Rules, NEW b \in covering'[a], b \notin covering[a]
      PROVE  \E h \in m :
                   /\ mtbdd[h] # Zero
                   /\ \/ a = Rh(mtbdd[h]) /\ b = r /\ Rh(mtbdd[h]) <= r
                      \/ a = r /\ b = Rh(mtbdd[h]) /\ Rh(mtbdd[h]) > r
  <2>1. PICK v \in Touched(r, m) :
              \/ a = Rh(v) /\ b = r /\ Rh(v) <= r
              \/ a = r /\ b = Rh(v) /\ Rh(v) > r
    BY <1>1, <1>6
  <2>2. PICK h \in m : v = mtbdd[h] /\ v # Zero
    BY <2>1 DEF Touched
  <2> QED
    BY <2>1, <2>2
<1> QED
  BY <1>3, <1>4, <1>5, <1>6

\* The self sets: a terminal only gains headers that it or a terminal it is
\* made from already had.
LEMMA AddRuleSelf ==
  ASSUME NEW r \in Rules, NEW m \in SUBSET Headers,
         TypeOK, TopLive, AddRule(r, m)
  PROVE  /\ self_bdd' \in [Terminal -> SUBSET Headers]
         /\ \A t \in Terminal : \A h \in self_bdd'[t] :
              \/ h \in self_bdd[t]
              \/ \E v \in Terminal :
                   /\ Rh(v) \in Rules
                   /\ JoinOf(v, r) = t
                   /\ h \in self_bdd[v]
                   /\ h \in self_bdd[Leaf(r)]
<1>1. PICK lowFirst \in BOOLEAN : self_bdd' = AddSelf(r, m, lowFirst)
  BY DEF AddRule
<1> DEFINE joined == {v \in Touched(r, m) : Joins(v, r)}
           lost(t) == IF t \in joined THEN Claims(t, r, m, lowFirst) ELSE {}
           gained(t) == UNION {Claims(v, r, m, lowFirst) :
                                 v \in {u \in joined : JoinOf(u, r) = t}}
<1>2. self_bdd' = [t \in Terminal |->
         IF t = Leaf(r)
           THEN self_bdd[t] \ UNION {self_bdd[v] : v \in Touched(r, m)}
           ELSE (self_bdd[t] \ lost(t)) \union gained(t)]
  BY <1>1 DEF AddSelf
<1>3. \A v \in Touched(r, m) : v \in Terminal /\ Rh(v) \in Rules
  BY DEF Touched, TypeOK, TopLive, Live
<1>4. \A v : Claims(v, r, m, lowFirst) \subseteq self_bdd[v] \intersect self_bdd[Leaf(r)]
  BY DEF Claims
<1>5. \A t \in Terminal : \A h \in gained(t) :
        \E v \in Terminal : /\ Rh(v) \in Rules
                            /\ JoinOf(v, r) = t
                            /\ h \in self_bdd[v]
                            /\ h \in self_bdd[Leaf(r)]
  BY <1>3, <1>4
<1> HIDE DEF gained, lost, joined
<1>6. \A t \in Terminal : \A h \in self_bdd'[t] : h \in self_bdd[t] \/ h \in gained(t)
  BY <1>2
<1>7. \A t \in Terminal : self_bdd[t] \subseteq Headers
  BY DEF TypeOK
<1>8. \A t \in Terminal : gained(t) \subseteq Headers
  BY <1>5, <1>7
<1>9. \A t \in Terminal : self_bdd'[t] \subseteq Headers
  BY <1>6, <1>7, <1>8
<1>10. self_bdd' \in [Terminal -> SUBSET Headers]
  BY <1>2, <1>9
<1> QED
  BY <1>5, <1>6, <1>10

-----------------------------------------------------------------------------
(* The invariant holds initially and is kept by every operation.           *)

\* The empty table satisfies the invariant.
LEMMA InitInvariant == Init => IInv
<1> SUFFICES ASSUME Init PROVE IInv
  OBVIOUS
<1> USE DEF Init
<1>1. Live = {}
  BY DEF Live
<1>2. TypeOK
  <2>1. mtbdd \in [Headers -> Terminal]
    BY DEF Terminal, Zero
  <2>2. self_bdd \in [Terminal -> SUBSET Headers]
    <3>1. \A v \in Terminal :
            (IF Rh(v) \in Rules /\ Rl(v) = NULL THEN mf_in[Rh(v)] ELSE {}) \subseteq Headers
      OBVIOUS
    <3> QED
      BY <3>1
  <2> QED
    BY <2>1, <2>2, NullNotRule DEF TypeOK
<1>3. TopLive
  BY DEF TopLive
<1>4. CoverComplete
  BY <1>1 DEF CoverComplete
<1>5. CoverDescends
  BY LeafFacts DEF CoverDescends
<1>6. ReaddPending
  BY DEF ReaddPending
<1> QED
  BY <1>2, <1>3, <1>4, <1>5, <1>6 DEF IInv

\* Between two updates the deciding rule of a header is the highest live rule
\* that matches it.  A live matching rule that decides nothing is covered by a
\* higher live matching rule; the highest of them has no such rule above it.
LEMMA TopIsHighest ==
  ASSUME IInv, readd = {}, NEW h \in Headers, NEW y \in Live, h \in mf_in[y]
  PROVE  mtbdd[h] # Zero /\ Rh(mtbdd[h]) \in Live /\ Rh(mtbdd[h]) <= y
<1> DEFINE S == {r \in Live : h \in mf_in[r]}
<1>1. S \subseteq Nat /\ S # {} /\ S \subseteq Live
  BY NullNotRule DEF Live
<1>2. PICK x \in S : \A z \in S : x <= z
  BY <1>1, SmallestPosition
<1>3. Covered(x, h)
  BY <1>2 DEF IInv, CoverComplete
<1>4. ~ \E w \in Live : w < x /\ h \in mf_in[w]
  <2> SUFFICES ASSUME NEW w \in Live, w < x, h \in mf_in[w] PROVE FALSE
    OBVIOUS
  <2>1. w \in S /\ w \in Nat /\ x \in Nat
    BY <1>1
  <2> QED
    BY <1>2, <2>1
<1>5. Rh(mtbdd[h]) = x
  BY <1>3, <1>4 DEF Covered
<1>6. x \in Rules /\ x # NULL
  BY NullNotRule DEF Live
<1>7. mtbdd[h] # Zero
  BY <1>5, <1>6, LeafFacts
<1> QED
  BY <1>1, <1>2, <1>5, <1>7

\* What an insertion of r in the headers m keeps, when r is in the table
\* afterwards and decides no header of m before.
LEMMA AddRuleKeeps ==
  ASSUME NEW r \in Rules, NEW m \in SUBSET Headers,
         IInv, AddRule(r, m),
         mf_in' = mf_in, m \subseteq mf_in[r], Live' = Live \union {r},
         \A h \in m : mtbdd[h] # Zero => Rh(mtbdd[h]) # r
  PROVE  /\ TopLive'
         /\ CoverDescends'
         /\ \A y \in Live : \A h \in mf_in[y] :
              Rh(mtbdd[h]) = y =>
                \/ Rh(mtbdd'[h]) = y
                \/ \E w \in Live' : w < y /\ h \in mf_in[w] /\ y \in covering'[w]
         /\ \A h \in m :
                \/ Rh(mtbdd'[h]) = r
                \/ \E w \in Live' : w < r /\ h \in mf_in[w] /\ r \in covering'[w]
         /\ \A a \in Rules : \A b \in covering'[a] : b \in covering[a] \/ b \in Live'
<1> USE DEF IInv
<1>1. /\ \A h \in Headers \ m : mtbdd'[h] = mtbdd[h]
      /\ \A h \in m :
           /\ mtbdd'[h] = AddTerminal(mtbdd[h], r)
           /\ mtbdd[h] = Zero => Rh(mtbdd'[h]) = r
           /\ mtbdd[h] # Zero /\ Rh(mtbdd[h]) <= r => Rh(mtbdd'[h]) = Rh(mtbdd[h])
           /\ mtbdd[h] # Zero /\ Rh(mtbdd[h]) > r => Rh(mtbdd'[h]) = r
  BY AddRuleTerminals
<1>2. /\ \A h \in m : mtbdd[h] # Zero =>
           /\ Rh(mtbdd[h]) < r => r \in covering'[Rh(mtbdd[h])]
           /\ Rh(mtbdd[h]) > r => Rh(mtbdd[h]) \in covering'[r]
      /\ \A a \in Rules : \A b \in covering'[a] :
           \/ b \in covering[a]
           \/ \E h \in m :
                /\ mtbdd[h] # Zero
                /\ \/ a = Rh(mtbdd[h]) /\ b = r /\ Rh(mtbdd[h]) <= r
                   \/ a = r /\ b = Rh(mtbdd[h]) /\ Rh(mtbdd[h]) > r
  BY AddRuleCovering
<1>3. \A h \in Headers : mtbdd[h] # Zero =>
        Rh(mtbdd[h]) \in Live /\ h \in mf_in[Rh(mtbdd[h])]
  BY DEF TopLive
<1>4. Live \subseteq Nat /\ r \in Nat /\ Live \subseteq Rules
  BY NullNotRule DEF Live
<1>5. TopLive'
  <2>1. ASSUME NEW h \in Headers, mtbdd'[h] # Zero
        PROVE  Rh(mtbdd'[h]) \in Live' /\ h \in mf_in[Rh(mtbdd'[h])]
    <3>1. CASE h \notin m
      BY <1>1, <1>3, <2>1, <3>1
    <3>2. CASE h \in m /\ Rh(mtbdd'[h]) = r
      BY <3>2
    <3>3. CASE h \in m /\ Rh(mtbdd'[h]) # r
      <4>1. mtbdd[h] # Zero
        BY <1>1, <3>3
      <4>2. Rh(mtbdd[h]) \in Nat
        BY <1>3, <1>4, <4>1
      <4>3. Rh(mtbdd'[h]) = Rh(mtbdd[h])
        BY <1>1, <1>4, <3>3, <4>1, <4>2
      <4> QED
        BY <1>3, <4>1, <4>3
    <3> QED
      BY <3>1, <3>2, <3>3
  <2> QED
    BY <2>1 DEF TopLive
<1>6. CoverDescends'
  <2>1. ASSUME NEW a \in Rules, NEW b \in covering'[a] PROVE a < b
    <3>1. CASE b \in covering[a]
      BY <3>1 DEF CoverDescends
    <3>2. CASE b \notin covering[a]
      <4>1. PICK h \in m :
                /\ mtbdd[h] # Zero
                /\ \/ a = Rh(mtbdd[h]) /\ b = r /\ Rh(mtbdd[h]) <= r
                   \/ a = r /\ b = Rh(mtbdd[h]) /\ Rh(mtbdd[h]) > r
        BY <1>2, <3>2
      <4>2. Rh(mtbdd[h]) \in Nat /\ Rh(mtbdd[h]) # r
        BY <1>3, <1>4, <4>1
      <4> QED
        BY <1>4, <4>1, <4>2
    <3> QED
      BY <3>1, <3>2
  <2>2. ASSUME NEW h \in Headers, Rl(mtbdd'[h]) # NULL
        PROVE  Rh(mtbdd'[h]) < Rl(mtbdd'[h])
    <3>1. mtbdd[h] \in Terminal
      BY DEF TypeOK
    <3>2. Rl(mtbdd[h]) # NULL => Rh(mtbdd[h]) < Rl(mtbdd[h])
      BY DEF CoverDescends
    <3>3. CASE h \notin m
      BY <1>1, <2>2, <3>2, <3>3
    <3>4. CASE h \in m
      <4>1. mtbdd[h] # Zero => Rh(mtbdd[h]) \in Rules /\ Rh(mtbdd[h]) # r
        BY <1>3, <1>4, <3>4
      <4> QED
        BY <1>1, <2>2, <3>1, <3>2, <3>4, <4>1, AddTerminalDescends
    <3> QED
      BY <3>3, <3>4
  <2> QED
    BY <2>1, <2>2 DEF CoverDescends
<1>7. ASSUME NEW y \in Live, NEW h \in mf_in[y], Rh(mtbdd[h]) = y
      PROVE  \/ Rh(mtbdd'[h]) = y
             \/ \E w \in Live' : w < y /\ h \in mf_in[w] /\ y \in covering'[w]
  <2>1. h \in Headers /\ mtbdd[h] # Zero /\ y \in Nat
    BY <1>4, <1>7, LeafFacts, NullNotRule DEF TypeOK
  <2>2. CASE h \notin m
    BY <1>1, <1>7, <2>1, <2>2
  <2>3. CASE h \in m /\ y <= r
    BY <1>1, <1>7, <2>1, <2>3
  <2>4. CASE h \in m /\ ~ (y <= r)
    <3>1. y > r
      BY <1>4, <2>1, <2>4
    <3>2. y \in covering'[r]
      BY <1>2, <1>7, <2>1, <2>4, <3>1
    <3>3. r \in Live' /\ r < y /\ h \in mf_in[r]
      BY <1>4, <2>1, <2>4, <3>1
    <3> QED
      BY <3>2, <3>3
  <2> QED
    BY <2>2, <2>3, <2>4
<1>8. ASSUME NEW h \in m
      PROVE  \/ Rh(mtbdd'[h]) = r
             \/ \E w \in Live' : w < r /\ h \in mf_in[w] /\ r \in covering'[w]
  <2>1. CASE mtbdd[h] = Zero
    BY <1>1, <2>1
  <2>2. CASE mtbdd[h] # Zero /\ Rh(mtbdd[h]) > r
    BY <1>1, <2>2
  <2>3. CASE mtbdd[h] # Zero /\ ~ (Rh(mtbdd[h]) > r)
    <3>1. Rh(mtbdd[h]) \in Live /\ h \in mf_in[Rh(mtbdd[h])]
      BY <1>3, <2>3
    <3>2. Rh(mtbdd[h]) \in Nat /\ Rh(mtbdd[h]) # r
      BY <1>4, <2>3, <3>1
    <3>3. Rh(mtbdd[h]) < r
      BY <1>4, <2>3, <3>2
    <3>4. Rh(mtbdd[h]) \in Live'
      BY <3>1
    <3> QED
      BY <1>2, <2>3, <3>1, <3>3, <3>4
  <2> QED
    BY <2>1, <2>2, <2>3
<1>9. \A a \in Rules : \A b \in covering'[a] : b \in covering[a] \/ b \in Live'
  BY <1>2, <1>3
<1> QED
  BY <1>5, <1>6, <1>7, <1>8, <1>9

\* Inserting a rule keeps the invariant.
LEMMA InsertStep ==
  ASSUME IInv, NEW r \in Rules, Insert(r)
  PROVE  IInv'
<1> DEFINE m == mf_in[r]
<1>1. /\ readd = {} /\ readd' = {} /\ removed' = removed
      /\ mf_in' = mf_in
      /\ type' = [type EXCEPT ![r] = "BS"]
      /\ AddRule(r, m)
      /\ type[r] = "BS" => m = {}
  BY DEF Insert
<1>2. TypeOK /\ TopLive /\ CoverComplete /\ CoverDescends /\ ReaddPending
  BY DEF IInv
<1>3. m \in SUBSET Headers
  BY <1>2 DEF TypeOK
<1>4. /\ type' \in [Rules -> {"new", "BS", "RM"}]
      /\ Live' = Live \union {r}
      /\ \A x \in Rules \ {r} : type'[x] = type[x]
  BY <1>1, <1>2 DEF TypeOK, Live
<1>5. \A h \in m : mtbdd[h] # Zero => Rh(mtbdd[h]) # r
  <2>1. CASE r \in Live
    BY <1>1, <2>1 DEF Live
  <2>2. CASE r \notin Live
    BY <1>2, <1>3, <2>2 DEF TopLive
  <2> QED
    BY <2>1, <2>2
<1> HIDE DEF m
<1>6. /\ TopLive'
      /\ CoverDescends'
      /\ \A y \in Live : \A h \in mf_in[y] :
           Rh(mtbdd[h]) = y =>
             \/ Rh(mtbdd'[h]) = y
             \/ \E w \in Live' : w < y /\ h \in mf_in[w] /\ y \in covering'[w]
      /\ \A h \in m :
             \/ Rh(mtbdd'[h]) = r
             \/ \E w \in Live' : w < r /\ h \in mf_in[w] /\ r \in covering'[w]
      /\ \A a \in Rules : \A b \in covering'[a] : b \in covering[a] \/ b \in Live'
  <2>1. m \subseteq mf_in[r]
    BY DEF m
  <2> QED
    BY <1>1, <1>3, <1>4, <1>5, <2>1, AddRuleKeeps
<1>7. /\ mtbdd' \in [Headers -> Terminal]
      /\ covering' \in [Rules -> SUBSET Rules]
      /\ self_bdd' \in [Terminal -> SUBSET Headers]
      /\ \A a \in Rules : covering[a] \subseteq covering'[a]
  BY <1>1, <1>2, <1>3, AddRuleTerminals, AddRuleCovering, AddRuleSelf
<1>8. TypeOK'
  BY <1>1, <1>2, <1>4, <1>7 DEF TypeOK
<1>9. CoverComplete'
  <2>1. ASSUME NEW y \in Live', NEW h \in mf_in[y]
        PROVE  \/ Rh(mtbdd'[h]) = y
               \/ \E w \in Live' : w < y /\ h \in mf_in[w] /\ y \in covering'[w]
    <3>1. CASE y = r
      BY <1>6, <3>1 DEF m
    <3>2. CASE y \in Live
      <4>1. Covered(y, h)
        BY <1>2, <3>2 DEF CoverComplete
      <4>2. CASE Rh(mtbdd[h]) = y
        BY <1>6, <3>2, <4>2
      <4>3. CASE \E w \in Live : w < y /\ h \in mf_in[w] /\ y \in covering[w]
        BY <1>4, <1>7, <4>3 DEF Live
      <4> QED
        BY <1>1, <4>1, <4>2, <4>3 DEF Covered
    <3> QED
      BY <1>4, <3>1, <3>2
  <2> QED
    BY <1>1, <2>1 DEF CoverComplete, Covered
<1>10. ReaddPending'
  <2>1. \A a \in Rules : \A b \in covering'[a] : type'[b] # "new"
    BY <1>1, <1>2, <1>4, <1>6, <1>7 DEF ReaddPending, Live, TypeOK
  <2> QED
    BY <1>1, <2>1 DEF ReaddPending
<1> QED
  BY <1>6, <1>8, <1>9, <1>10 DEF IInv

\* Putting a hidden rule back keeps the invariant.
LEMMA ReaddStep ==
  ASSUME IInv, NEW x \in Rules, Readd(x)
  PROVE  IInv'
<1> DEFINE m == VirtualMf(removed, x)
<1>1. /\ x \in readd /\ readd' = readd \ {x}
      /\ removed' = IF readd' = {} THEN NULL ELSE removed
      /\ mf_in' = mf_in /\ type' = type
      /\ AddRule(x, m)
  BY DEF Readd, RestOfLoop
<1>2. TypeOK /\ TopLive /\ CoverComplete /\ CoverDescends /\ ReaddPending
  BY DEF IInv
<1>3. /\ removed \in Rules /\ readd \subseteq Live
      /\ \A h \in mf_in[removed] : Rh(mtbdd[h]) \notin readd
  BY <1>1, <1>2 DEF TypeOK, ReaddPending
<1>4. m \in SUBSET Headers /\ m \subseteq mf_in[x] /\ m \subseteq mf_in[removed]
  BY <1>2, <1>3 DEF TypeOK, VirtualMf
<1>5. \A h \in mf_in[removed] \intersect mf_in[x] : h \in m
  BY DEF VirtualMf
<1>6. Live' = Live \union {x} /\ Live' = Live
  BY <1>1, <1>3 DEF Live
<1>7. \A h \in m : mtbdd[h] # Zero => Rh(mtbdd[h]) # x
  BY <1>1, <1>3, <1>4
<1> HIDE DEF m
<1>8. /\ TopLive'
      /\ CoverDescends'
      /\ \A y \in Live : \A h \in mf_in[y] :
           Rh(mtbdd[h]) = y =>
             \/ Rh(mtbdd'[h]) = y
             \/ \E w \in Live' : w < y /\ h \in mf_in[w] /\ y \in covering'[w]
      /\ \A h \in m :
             \/ Rh(mtbdd'[h]) = x
             \/ \E w \in Live' : w < x /\ h \in mf_in[w] /\ x \in covering'[w]
      /\ \A a \in Rules : \A b \in covering'[a] : b \in covering[a] \/ b \in Live'
  BY <1>1, <1>4, <1>6, <1>7, AddRuleKeeps
<1>9. /\ mtbdd' \in [Headers -> Terminal]
      /\ covering' \in [Rules -> SUBSET Rules]
      /\ self_bdd' \in [Terminal -> SUBSET Headers]
      /\ \A a \in Rules : covering[a] \subseteq covering'[a]
      /\ \A h \in Headers \ m : mtbdd'[h] = mtbdd[h]
      /\ \A h \in m : mtbdd'[h] # Zero =>
           Rh(mtbdd'[h]) = x \/ (mtbdd[h] # Zero /\ Rh(mtbdd'[h]) = Rh(mtbdd[h]))
  <2>1. /\ mtbdd' \in [Headers -> Terminal]
        /\ covering' \in [Rules -> SUBSET Rules]
        /\ self_bdd' \in [Terminal -> SUBSET Headers]
        /\ \A a \in Rules : covering[a] \subseteq covering'[a]
        /\ \A h \in Headers \ m : mtbdd'[h] = mtbdd[h]
    BY <1>1, <1>2, <1>4, AddRuleTerminals, AddRuleCovering, AddRuleSelf
  <2>2. \A h \in m :
              /\ mtbdd[h] = Zero => Rh(mtbdd'[h]) = x
              /\ mtbdd[h] # Zero /\ Rh(mtbdd[h]) <= x => Rh(mtbdd'[h]) = Rh(mtbdd[h])
              /\ mtbdd[h] # Zero /\ Rh(mtbdd[h]) > x => Rh(mtbdd'[h]) = x
    BY <1>1, <1>2, <1>4, AddRuleTerminals
  <2>3. \A h \in m : mtbdd[h] # Zero => Rh(mtbdd[h]) \in Nat
    BY <1>2, <1>4, NullNotRule DEF TopLive, Live
  <2>4. x \in Nat
    BY NullNotRule
  <2>5. ASSUME NEW h \in m, mtbdd'[h] # Zero
        PROVE  Rh(mtbdd'[h]) = x \/ (mtbdd[h] # Zero /\ Rh(mtbdd'[h]) = Rh(mtbdd[h]))
    <3>1. CASE mtbdd[h] = Zero
      BY <2>2, <3>1
    <3>2. CASE mtbdd[h] # Zero /\ Rh(mtbdd[h]) <= x
      BY <2>2, <3>2
    <3>3. CASE mtbdd[h] # Zero /\ Rh(mtbdd[h]) > x
      BY <2>2, <3>3
    <3> QED
      BY <2>3, <2>4, <3>1, <3>2, <3>3
  <2> QED
    BY <2>1, <2>5
<1>10. TypeOK'
  BY <1>1, <1>2, <1>3, <1>9, NullNotRule DEF TypeOK
<1>11. CoverComplete'
  <2>1. ASSUME NEW y \in Live, NEW h \in mf_in[y]
        PROVE  \/ Rh(mtbdd'[h]) = y
               \/ y \in readd' /\ h \in mf_in[removed]
               \/ \E w \in Live' : w < y /\ h \in mf_in[w] /\ y \in covering'[w]
    <3>1. Covered(y, h)
      BY <1>2 DEF CoverComplete
    <3>2. CASE Rh(mtbdd[h]) = y
      BY <1>8, <3>2
    <3>3. CASE y \in readd /\ h \in mf_in[removed] /\ y # x
      BY <1>1, <3>3
    <3>4. CASE y \in readd /\ h \in mf_in[removed] /\ y = x
      BY <1>5, <1>8, <3>4
    <3>5. CASE \E w \in Live : w < y /\ h \in mf_in[w] /\ y \in covering[w]
      BY <1>6, <1>9, <3>5 DEF Live
    <3> QED
      BY <3>1, <3>2, <3>3, <3>4, <3>5 DEF Covered
  <2>2. readd' # {} => removed' = removed
    BY <1>1
  <2> QED
    BY <1>1, <1>6, <2>1, <2>2 DEF CoverComplete, Covered
<1>12. ReaddPending'
  <2>1. \A a \in Rules : \A b \in covering'[a] : type'[b] # "new"
    BY <1>1, <1>2, <1>6, <1>8 DEF ReaddPending, Live
  <2>2. ASSUME readd' # {}
        PROVE  /\ type'[removed'] = "RM"
               /\ readd' \subseteq Live'
               /\ \A h \in mf_in'[removed'] : Rh(mtbdd'[h]) \notin readd'
    <3>1. removed' = removed /\ type'[removed] = "RM" /\ readd' \subseteq Live'
      BY <1>1, <1>2, <1>3, <1>6, <2>2 DEF ReaddPending
    <3>2. ASSUME NEW h \in mf_in[removed], Rh(mtbdd'[h]) \in readd'
          PROVE  FALSE
      <4>1. h \in Headers
        BY <1>2, <1>3 DEF TypeOK
      <4>2. Rh(mtbdd'[h]) # x /\ Rh(mtbdd'[h]) \in readd
        BY <1>1, <3>2
      <4>3. Rh(mtbdd'[h]) # NULL
        BY <1>3, <4>2, NullNotRule DEF Live
      <4>4. mtbdd'[h] # Zero
        BY <4>3, LeafFacts
      <4>5. Rh(mtbdd'[h]) = Rh(mtbdd[h])
        BY <1>9, <4>1, <4>2, <4>4
      <4> QED
        BY <1>3, <4>2, <4>5
    <3> QED
      BY <1>1, <3>1, <3>2
  <2> QED
    BY <2>1, <2>2 DEF ReaddPending
<1> QED
  BY <1>8, <1>10, <1>11, <1>12 DEF IInv

\* Taking a rule out keeps the invariant: the rules it hid are waiting.
LEMMA RemoveStep ==
  ASSUME IInv, NEW r \in Rules, Remove(r)
  PROVE  IInv'
<1>1. /\ readd = {} /\ type[r] = "BS"
      /\ readd' = {x \in covering[r] : type[x] # "RM"}
      /\ removed' = IF readd' = {} THEN NULL ELSE r
      /\ type' = [type EXCEPT ![r] = "RM"]
      /\ mtbdd' = [h \in Headers |->
                     IF h \in mf_in[r] THEN RemoveTerminal(mtbdd[h], r) ELSE mtbdd[h]]
      /\ mf_in' = mf_in
  BY DEF Remove, ReaddRules
<1>2. TypeOK /\ TopLive /\ CoverComplete /\ CoverDescends /\ ReaddPending
  BY DEF IInv
<1>3. r \in Live /\ mf_in[r] \subseteq Headers
  BY <1>1, <1>2 DEF Live, TypeOK
<1>4. /\ type' \in [Rules -> {"new", "BS", "RM"}]
      /\ type'[r] = "RM"
      /\ \A x \in Rules \ {r} : type'[x] = type[x]
      /\ Live' = Live \ {r}
  BY <1>1, <1>2 DEF TypeOK, Live
<1>5. readd' \subseteq Live' /\ \A x \in readd' : r < x
  <2>1. ASSUME NEW x \in readd' PROVE x \in Live /\ r < x
    <3>1. x \in covering[r] /\ x \in Rules /\ type[x] # "RM" /\ type[x] # "new"
      BY <1>1, <1>2 DEF TypeOK, ReaddPending
    <3> QED
      BY <1>2, <3>1 DEF TypeOK, Live, CoverDescends
  <2>2. r \in Nat
    BY NullNotRule
  <2> QED
    BY <1>4, <2>1, <2>2
<1>6. \A h \in mf_in[r] :
        mtbdd[h] # Zero /\ Rh(mtbdd[h]) \in Live /\ Rh(mtbdd[h]) <= r
  BY <1>1, <1>3, TopIsHighest
<1>7. \A h \in Headers :
        \/ mtbdd'[h] = Zero /\ Rh(mtbdd[h]) = r
        \/ mtbdd'[h] = mtbdd[h] /\ (h \in mf_in[r] => Rh(mtbdd[h]) # r)
  BY <1>1 DEF RemoveTerminal
<1>8. /\ covering' \in [Rules -> SUBSET Rules]
      /\ \A a \in Rules : covering'[a] \subseteq covering[a]
      /\ \A a \in Rules \ {r} : covering[a] \ {r} \subseteq covering'[a]
  <2>1. covering' = [a \in Rules |->
                    IF a = r THEN {}
                    ELSE IF \E h \in mf_in[r] : Rh(mtbdd[h]) = a /\ a < r
                      THEN covering[a] \ {r}
                      ELSE covering[a]]
    BY DEF Remove
  <2>2. covering \in [Rules -> SUBSET Rules]
    BY <1>2 DEF TypeOK
  <2>3. \A a \in Rules : covering'[a] \subseteq covering[a]
    BY <2>1
  <2>4. \A a \in Rules \ {r} : covering[a] \ {r} \subseteq covering'[a]
    BY <2>1
  <2>5. covering' \in [Rules -> SUBSET Rules]
    BY <2>1, <2>2
  <2> QED
    BY <2>3, <2>4, <2>5
<1>9. TypeOK'
  <2>1. mtbdd' \in [Headers -> Terminal]
    <3>1. \A h \in Headers : mtbdd'[h] \in Terminal
      BY <1>2, <1>7 DEF TypeOK, Terminal, Zero
    <3> QED
      BY <1>1, <3>1
  <2>2. self_bdd' \in [Terminal -> SUBSET Headers]
    <3>1. self_bdd' = [v \in Terminal |->
                    IF v = Leaf(r) THEN mf_in[r]
                    ELSE IF \E x \in readd' : v = Leaf(x)
                      THEN self_bdd[v] \union VirtualMf(r, Rh(v))
                      ELSE self_bdd[v]]
      BY DEF Remove
    <3>2. \A v : VirtualMf(r, Rh(v)) \subseteq Headers
      BY <1>3 DEF VirtualMf
    <3>3. \A v \in Terminal : self_bdd'[v] \subseteq Headers
      BY <1>2, <1>3, <3>1, <3>2 DEF TypeOK
    <3> QED
      BY <3>1, <3>3
  <2>3. readd' \subseteq Rules
    BY <1>5 DEF Live
  <2>4. removed' \in Rules \union {NULL} /\ ((readd' = {}) <=> (removed' = NULL))
    BY <1>1, NullNotRule
  <2>5. mf_in' \in [Rules -> SUBSET Headers]
    BY <1>1, <1>2 DEF TypeOK
  <2> QED
    BY <1>4, <1>8, <2>1, <2>2, <2>3, <2>4, <2>5 DEF TypeOK
<1>10. TopLive'
  <2>1. ASSUME NEW h \in Headers, mtbdd'[h] # Zero
        PROVE  Rh(mtbdd'[h]) \in Live' /\ h \in mf_in[Rh(mtbdd'[h])]
    <3>1. mtbdd'[h] = mtbdd[h] /\ (h \in mf_in[r] => Rh(mtbdd[h]) # r)
      BY <1>7, <2>1
    <3>2. Rh(mtbdd[h]) \in Live /\ h \in mf_in[Rh(mtbdd[h])]
      BY <1>2, <2>1, <3>1 DEF TopLive
    <3> QED
      BY <1>4, <3>1, <3>2
  <2> QED
    BY <1>1, <2>1 DEF TopLive
<1>11. CoverComplete'
  <2>1. ASSUME NEW y \in Live', NEW h \in mf_in[y]
        PROVE  \/ Rh(mtbdd'[h]) = y
               \/ y \in readd' /\ h \in mf_in[removed']
               \/ \E w \in Live' : w < y /\ h \in mf_in[w] /\ y \in covering'[w]
    <3>1. y \in Live /\ y # r /\ y \in Rules /\ h \in Headers
      BY <1>2, <1>4 DEF Live, TypeOK
    <3>2. Covered(y, h)
      BY <1>2, <3>1 DEF CoverComplete
    <3>3. CASE Rh(mtbdd[h]) = y
      BY <1>7, <3>1, <3>3
    <3>4. CASE \E w \in Live : w # r /\ w < y /\ h \in mf_in[w] /\ y \in covering[w]
      BY <1>4, <1>8, <3>1, <3>4 DEF Live
    <3>5. CASE h \in mf_in[r] /\ y \in covering[r]
      <4>1. y \in readd'
        BY <1>1, <3>1, <3>5 DEF Live
      <4>2. removed' = r
        BY <1>1, <4>1
      <4> QED
        BY <3>5, <4>1, <4>2
    <3> QED
      BY <1>1, <3>2, <3>3, <3>4, <3>5 DEF Covered
  <2> QED
    BY <1>1, <2>1 DEF CoverComplete, Covered
<1>12. CoverDescends'
  <2>1. \A a \in Rules : \A b \in covering'[a] : a < b
    BY <1>2, <1>8 DEF CoverDescends
  <2>2. \A h \in Headers : Rl(mtbdd'[h]) # NULL => Rh(mtbdd'[h]) < Rl(mtbdd'[h])
    BY <1>2, <1>7, LeafFacts DEF CoverDescends
  <2> QED
    BY <2>1, <2>2 DEF CoverDescends
<1>13. ReaddPending'
  <2>1. \A a \in Rules : \A b \in covering'[a] : type'[b] # "new"
    BY <1>2, <1>4, <1>8 DEF ReaddPending, TypeOK
  <2>2. ASSUME readd' # {}, NEW h \in mf_in[r], Rh(mtbdd'[h]) \in readd'
        PROVE  FALSE
    <3>1. mtbdd'[h] # Zero
      BY <1>5, <2>2, LeafFacts, NullNotRule DEF Live
    <3>2. Rh(mtbdd'[h]) = Rh(mtbdd[h])
      BY <1>3, <1>7, <3>1
    <3>3. Rh(mtbdd[h]) <= r /\ r < Rh(mtbdd[h])
      BY <1>5, <1>6, <2>2, <3>2
    <3>4. r \in Nat /\ Rh(mtbdd[h]) \in Nat
      BY <1>6, NullNotRule DEF Live
    <3> QED
      BY <3>3, <3>4
  <2> QED
    BY <1>1, <1>4, <1>5, <2>1, <2>2 DEF ReaddPending
<1> QED
  BY <1>9, <1>10, <1>11, <1>12, <1>13 DEF IInv

\* Every step, and every stutter, keeps the invariant.
LEMMA NextInvariant == IInv /\ [Next]_vars => IInv'
<1> SUFFICES ASSUME IInv, [Next]_vars PROVE IInv'
  OBVIOUS
<1>1. ASSUME NEW r \in Rules, Insert(r) PROVE IInv'
  BY <1>1, InsertStep
<1>2. ASSUME NEW r \in Rules, Remove(r) PROVE IInv'
  BY <1>2, RemoveStep
<1>3. ASSUME NEW r \in Rules, Readd(r) PROVE IInv'
  BY <1>3, ReaddStep
<1>4. CASE UNCHANGED vars
  BY <1>4 DEF vars, IInv, TypeOK, TopLive, CoverComplete, Covered, CoverDescends,
              ReaddPending, Live
<1>5. ASSUME NEW r \in Rules, RemoveNothing(r) PROVE IInv'
  BY <1>4, <1>5 DEF RemoveNothing
<1> QED
  BY <1>1, <1>2, <1>3, <1>4, <1>5 DEF Next

-----------------------------------------------------------------------------
(* Theorems.                                                               *)

\* The inductive invariant holds in every reachable state.
THEOREM Invariant == Spec => []IInv
BY InitInvariant, NextInvariant, PTL DEF Spec

\* Every variable stays in its type, for any rules and headers.
THEOREM TypeCorrect == Spec => []TypeOK
<1>1. IInv => TypeOK
  BY DEF IInv
<1> QED
  BY <1>1, Invariant, PTL

\* No live rule is ever lost from the covering records, whatever the order of
\* insertions and removals.
THEOREM CoverIsComplete == Spec => []CoverComplete
<1>1. IInv => CoverComplete
  BY DEF IInv
<1> QED
  BY <1>1, Invariant, PTL

\* A header never leads to a rule that is not in the table or does not match
\* it, not even while a removal is putting hidden rules back.
THEOREM TopIsLive == Spec => []TopLive
<1>1. IInv => TopLive
  BY DEF IInv
<1> QED
  BY <1>1, Invariant, PTL

\* covering and the pairs only ever lead downwards: no rule hides itself or a
\* higher one, and no pair names one rule twice.
THEOREM CoverAlwaysDescends == Spec => []CoverDescends
<1>1. IInv => CoverDescends
  BY DEF IInv
<1> QED
  BY <1>1, Invariant, PTL

\* The deciding rule of a header is the highest-priority live rule.
LEMMA InvariantTop == IInv => TopCorrect
<1> SUFFICES ASSUME IInv, readd = {}, NEW h \in Headers
             PROVE  Rh(mtbdd[h]) = Best(mf_in, Live, h)
  BY DEF TopCorrect
<1>1. Live \subseteq Rules
  BY DEF Live
<1>2. CASE Matching(mf_in, Live, h) = {}
  <2>1. mtbdd[h] = Zero
    BY <1>2 DEF IInv, TopLive, Matching
  <2> QED
    BY <1>2, <2>1, BestNone, LeafFacts
<1>3. CASE Matching(mf_in, Live, h) # {}
  <2>1. \A y \in Matching(mf_in, Live, h) :
          mtbdd[h] # Zero /\ Rh(mtbdd[h]) <= y
    BY TopIsHighest DEF Matching
  <2>2. Rh(mtbdd[h]) \in Matching(mf_in, Live, h)
    BY <1>3, <2>1 DEF IInv, TopLive, Matching
  <2> QED
    BY <1>1, <2>1, <2>2, BestIs
<1> QED
  BY <1>2, <1>3

\* Between two updates every header leads to its highest-priority live rule.
THEOREM TopIsCorrect == Spec => []TopCorrect
BY Invariant, InvariantTop, PTL

\* The error branch of mtbdd_maketnode_mtbdd_1tb_r_remove is dead code.
THEOREM NeverReports == Spec => []RemovalNeverReports
<1>1. IInv => RemovalNeverReports
  <2> SUFFICES ASSUME IInv, readd = {}, NEW r \in Live, NEW h \in mf_in[r]
               PROVE  mtbdd[h] # Zero /\ Rh(mtbdd[h]) <= r
    BY DEF RemovalNeverReports
  <2>1. h \in Headers
    BY DEF IInv, TypeOK, Live
  <2> QED
    BY <2>1, TopIsHighest
<1> QED
  BY <1>1, Invariant, PTL

-----------------------------------------------------------------------------
(* The headers recorded for a terminal.                                    *)

\* Adding a rule records no header that one of a terminal's rules does not
\* match: a pair only takes headers that both of its leaves recorded.
LEMMA AddRuleKeepsSelf ==
  ASSUME NEW r \in Rules, NEW m \in SUBSET Headers,
         TypeOK, TopLive, SelfWithin, AddRule(r, m), mf_in' = mf_in
  PROVE  SelfWithin'
<1>1. SUFFICES ASSUME NEW t \in Terminal, NEW h \in self_bdd'[t]
               PROVE  /\ Rh(t) \in Rules => h \in mf_in[Rh(t)]
                      /\ Rh(t) \in Rules /\ Rl(t) \in Rules => h \in mf_in[Rl(t)]
  BY DEF SelfWithin
<1>2. CASE h \in self_bdd[t]
  BY <1>2 DEF SelfWithin
<1>3. CASE h \notin self_bdd[t]
  <2>1. PICK v \in Terminal :
          /\ Rh(v) \in Rules
          /\ JoinOf(v, r) = t
          /\ h \in self_bdd[v]
          /\ h \in self_bdd[Leaf(r)]
    BY <1>3, AddRuleSelf
  <2>2. h \in mf_in[Rh(v)]
    BY <2>1 DEF SelfWithin
  <2>3. Leaf(r) \in Terminal /\ Rh(Leaf(r)) = r
    BY LeafFacts DEF Leaf, Terminal
  <2>4. h \in mf_in[r]
    BY <2>1, <2>3 DEF SelfWithin
  <2>5. \/ Rh(t) = Rh(v) /\ Rl(t) = r
        \/ Rh(t) = r /\ Rl(t) = Rh(v)
    BY <2>1 DEF JoinOf, Rh, Rl
  <2> QED
    BY <2>2, <2>4, <2>5
<1> QED
  BY <1>2, <1>3

\* A packet drawn from self_bdd exercises both rules of the terminal, whatever
\* the order of the updates.
THEOREM SelfIsWithin == Spec => []SelfWithin
<1>1. Init => SelfWithin
  BY NullNotRule DEF Init, SelfWithin
<1>2. IInv /\ SelfWithin /\ [Next]_vars => SelfWithin'
  <2> SUFFICES ASSUME IInv, SelfWithin, [Next]_vars PROVE SelfWithin'
    OBVIOUS
  <2>1. TypeOK /\ TopLive /\ ReaddPending
    BY DEF IInv
  <2>2. ASSUME NEW r \in Rules, Insert(r) PROVE SelfWithin'
    <3>1. mf_in[r] \in SUBSET Headers
      BY <2>1 DEF TypeOK
    <3> QED
      BY <2>1, <2>2, <3>1, AddRuleKeepsSelf DEF Insert
  <2>3. ASSUME NEW x \in Rules, Readd(x) PROVE SelfWithin'
    <3>1. VirtualMf(removed, x) \in SUBSET Headers
      BY <2>1 DEF TypeOK, VirtualMf
    <3> QED
      BY <2>1, <2>3, <3>1, AddRuleKeepsSelf DEF Readd
  <2>4. ASSUME NEW r \in Rules, Remove(r) PROVE SelfWithin'
    <3>1. mf_in' = mf_in /\
          self_bdd' = [v \in Terminal |->
                    IF v = Leaf(r) THEN mf_in[r]
                    ELSE IF \E x \in readd' : v = Leaf(x)
                      THEN self_bdd[v] \union VirtualMf(r, Rh(v))
                      ELSE self_bdd[v]]
      BY <2>4 DEF Remove
    <3>2. ASSUME NEW v \in Terminal
          PROVE  /\ Rh(v) \in Rules => self_bdd'[v] \subseteq mf_in[Rh(v)]
                 /\ Rh(v) \in Rules /\ Rl(v) \in Rules => self_bdd'[v] \subseteq mf_in[Rl(v)]
      <4>1. CASE v = Leaf(r)
        BY <3>1, <4>1, LeafFacts, NullNotRule
      <4>2. CASE v # Leaf(r) /\ \E x \in readd' : v = Leaf(x)
        BY <3>1, <4>2, LeafFacts, NullNotRule DEF SelfWithin, VirtualMf
      <4>3. CASE v # Leaf(r) /\ ~ \E x \in readd' : v = Leaf(x)
        BY <3>1, <4>3 DEF SelfWithin
      <4> QED
        BY <4>1, <4>2, <4>3
    <3> QED
      BY <3>1, <3>2 DEF SelfWithin
  <2>5. CASE UNCHANGED vars
    BY <2>5 DEF vars, SelfWithin
  <2>6. ASSUME NEW r \in Rules, RemoveNothing(r) PROVE SelfWithin'
    BY <2>5, <2>6 DEF RemoveNothing
  <2> QED
    BY <2>2, <2>3, <2>4, <2>5, <2>6 DEF Next
<1> QED
  BY <1>1, <1>2, Invariant, PTL DEF Spec

-----------------------------------------------------------------------------
(* The MTBDD table implements the flow table.                              *)

\* FlowTable's winner, as MtbddTable gives it.
Winner ==
  [h \in Headers |-> IF readd = {} THEN Rh(mtbdd[h]) ELSE Best(mf_in, Installed, h)]

WinnerCorrect == Winner = Table!Decide(mf_in, Installed)

\* The winner is always the one that FlowTable decides for the rules in force.
LEMMA WinnerDecides == IInv => WinnerCorrect
<1> SUFFICES ASSUME IInv PROVE Winner = Table!Decide(mf_in, Installed)
  BY DEF WinnerCorrect
<1>1. \A S, h : Table!Best(mf_in, S, h) = Best(mf_in, S, h)
  BY DEF Table!Best, Table!Matching, Best, Matching
<1>2. readd = {} => \A h \in Headers : Rh(mtbdd[h]) = Best(mf_in, Installed, h)
  BY InvariantTop DEF TopCorrect, Installed
<1> QED
  BY <1>1, <1>2 DEF Winner, Table!Decide

\* The empty MTBDD is the empty flow table.
LEMMA ImplementsInit == Init => Table!Init
<1> SUFFICES ASSUME Init PROVE Table!Init
  OBVIOUS
<1>1. Installed = {}
  BY DEF Init, Installed, Live
<1>2. Winner = Table!Decide(mf_in, Installed)
  BY InitInvariant, WinnerDecides DEF WinnerCorrect
<1> QED
  BY <1>1, <1>2 DEF Init, Table!Init, Winner

\* Every step of the table installs one rule, withdraws one or stutters.
LEMMA ImplementsStep ==
  IInv /\ IInv' /\ [Next]_vars => [Table!Next]_(Table!vars)
<1> SUFFICES ASSUME IInv, IInv', [Next]_vars PROVE [Table!Next]_(Table!vars)
  OBVIOUS
<1>1. Winner = Table!Decide(mf_in, Installed)
  BY WinnerDecides DEF WinnerCorrect
<1>2. Winner' = Table!Decide(mf_in, Installed)'
  <2>1. WinnerCorrect'
    BY WinnerDecides, PTL
  <2> QED
    BY <2>1 DEF WinnerCorrect
<1>3. ASSUME mf_in' = mf_in, Installed' = Installed
      PROVE  UNCHANGED Table!vars
  BY <1>1, <1>2, <1>3 DEF Table!vars, Winner, Table!Decide
<1>4. ASSUME NEW r \in Rules, mf_in' = mf_in,
             r \notin Installed, Installed' = Installed \union {r}
      PROVE  Table!Next
  BY <1>2, <1>4 DEF Table!Next, Table!Install, Winner
<1>5. ASSUME NEW r \in Rules, mf_in' = mf_in,
             r \in Installed, Installed' = Installed \ {r}
      PROVE  Table!Next
  BY <1>2, <1>5 DEF Table!Next, Table!Withdraw, Winner
<1>6. TypeOK /\ ReaddPending
  BY DEF IInv
<1>7. ASSUME NEW r \in Rules, Insert(r) PROVE [Table!Next]_(Table!vars)
  <2>1. readd = {} /\ readd' = {} /\ mf_in' = mf_in
    BY <1>7 DEF Insert
  <2>2. Live' = Live \union {r}
    BY <1>6, <1>7 DEF Insert, Live, TypeOK
  <2>3. Installed = Live /\ Installed' = Live \union {r}
    BY <2>1, <2>2 DEF Installed
  <2>4. CASE r \in Live
    BY <1>3, <2>1, <2>3, <2>4
  <2>5. CASE r \notin Live
    BY <1>4, <2>1, <2>3, <2>5
  <2> QED
    BY <2>4, <2>5
<1>8. ASSUME NEW r \in Rules, Remove(r) PROVE [Table!Next]_(Table!vars)
  <2>1. /\ readd = {} /\ mf_in' = mf_in
        /\ removed' = IF readd' = {} THEN NULL ELSE r
    BY <1>8 DEF Remove
  <2>2. r \in Live /\ Live' = Live \ {r}
    BY <1>6, <1>8 DEF Remove, Live, TypeOK
  <2>3. Installed = Live /\ Installed' = IF readd' = {} THEN Live \ {r} ELSE Live
    BY <2>1, <2>2 DEF Installed
  <2>4. CASE readd' = {}
    BY <1>5, <2>1, <2>2, <2>3, <2>4
  <2>5. CASE readd' # {}
    BY <1>3, <2>1, <2>3, <2>5
  <2> QED
    BY <2>4, <2>5
<1>9. ASSUME NEW x \in Rules, Readd(x) PROVE [Table!Next]_(Table!vars)
  <2>1. /\ readd # {} /\ mf_in' = mf_in
        /\ removed' = IF readd' = {} THEN NULL ELSE removed
    BY <1>9 DEF Readd
  <2>2. removed \in Rules /\ removed \notin Live
    BY <1>6, <2>1 DEF ReaddPending, Live, TypeOK
  <2>3. Live' = Live
    BY <1>9 DEF Readd, Live
  <2>4. CASE readd' = {}
    <3>1. Installed = Live \union {removed} /\ Installed' = Installed \ {removed}
      BY <2>1, <2>2, <2>3, <2>4 DEF Installed
    <3> QED
      BY <1>5, <2>1, <2>2, <3>1
  <2>5. CASE readd' # {}
    <3>1. Installed' = Installed
      BY <2>1, <2>3, <2>5 DEF Installed
    <3> QED
      BY <1>3, <2>1, <3>1
  <2> QED
    BY <2>4, <2>5
<1>10. CASE UNCHANGED vars
  BY <1>3, <1>10 DEF vars, Installed, Live
<1>11. ASSUME NEW r \in Rules, RemoveNothing(r) PROVE [Table!Next]_(Table!vars)
  BY <1>10, <1>11 DEF RemoveNothing
<1> QED
  BY <1>7, <1>8, <1>9, <1>10, <1>11 DEF Next

\* The switch's MTBDD, updated in place through its covering records, behaves
\* as the flow table: a removal withdraws one rule and shows no header a rule
\* other than the best one left, however many rules have to be put back.
THEOREM MtbddImplementsFlowTable == Spec => Implements
BY ImplementsInit, ImplementsStep, Invariant, PTL DEF Spec, Implements, Table!Spec

-----------------------------------------------------------------------------
(* Pairs.                                                                  *)

\* Terminal v is the exact pair of header h for the rules S: BDDZERO when none
\* matches, else the highest rule that matches and the next one, if any.
Exact(mf, v, S, h) ==
  /\ v = Zero => Matching(mf, S, h) = {}
  /\ v # Zero =>
       /\ Rh(v) \in Matching(mf, S, h)
       /\ \A y \in Matching(mf, S, h) : Rh(v) <= y
       /\ \A y \in Matching(mf, S, h) \ {Rh(v)} : Rl(v) # NULL /\ Rl(v) <= y
       /\ Rl(v) # NULL => Rl(v) \in Matching(mf, S, h) \ {Rh(v)}

ExactAt(S) == \A h \in Headers : Exact(mf_in, mtbdd[h], S, h)

\* How to show that a pair is exact.
LEMMA ExactIf ==
  ASSUME NEW mf, NEW S, NEW h, NEW v, NEW M, M = Matching(mf, S, h),
         v # Zero, Rh(v) \in M, \A y \in M : Rh(v) <= y,
         \A y \in M \ {Rh(v)} : Rl(v) # NULL /\ Rl(v) <= y,
         Rl(v) # NULL => Rl(v) \in M \ {Rh(v)}
  PROVE  Exact(mf, v, S, h)
BY DEF Exact

\* An exact pair names the rule that would decide the header next.
LEMMA ExactNamesNext ==
  ASSUME NEW mf, NEW S \in SUBSET Rules, NEW h, NEW v,
         v # Zero, Exact(mf, v, S, h)
  PROVE  Rl(v) = BestWithout(mf, S, Rh(v), h)
<1>1. Matching(mf, S \ {Rh(v)}, h) = Matching(mf, S, h) \ {Rh(v)}
  BY DEF Matching
<1>2. CASE Rl(v) = NULL
  <2>1. Matching(mf, S \ {Rh(v)}, h) = {}
    BY <1>1, <1>2 DEF Exact
  <2> QED
    BY <1>2, <2>1, BestNone DEF BestWithout
<1>3. CASE Rl(v) # NULL
  <2>1. /\ Rl(v) \in Matching(mf, S \ {Rh(v)}, h)
        /\ \A y \in Matching(mf, S \ {Rh(v)}, h) : Rl(v) <= y
    BY <1>1, <1>3 DEF Exact
  <2>2. S \ {Rh(v)} \in SUBSET Rules
    OBVIOUS
  <2>3. Best(mf, S \ {Rh(v)}, h) = Rl(v)
    BY <2>1, <2>2, BestIs
  <2> QED
    BY <2>3 DEF BestWithout
<1> QED
  BY <1>2, <1>3

\* Adding a rule below both rules of a pair leaves the pair as it is.
LEMMA AddBelowPair ==
  ASSUME NEW r \in Rules, NEW v \in Terminal, v # Zero,
         Rh(v) \in Rules, Rh(v) < r, Rl(v) \in Rules, Rl(v) <= r
  PROVE  AddTerminal(v, r) = v
<1>1. Rh(v) \in Nat /\ Rl(v) \in Nat /\ r \in Nat /\ Rl(v) # NULL
  BY NullNotRule
<1>2. v # Leaf(r)
  BY <1>1, LeafFacts
<1>3. ~ Joins(v, r)
  BY <1>1 DEF Joins
<1> QED
  BY <1>2, <1>3 DEF AddTerminal

\* A rule below all rules of S, added to an exact pair, makes an exact pair.
LEMMA AddLowestExact ==
  ASSUME NEW mf, NEW S \in SUBSET Rules, NEW h,
         NEW v \in Terminal, NEW r \in Rules,
         h \in mf[r], Exact(mf, v, S, h), \A y \in S : y < r
  PROVE  Exact(mf, AddTerminal(v, r), S \union {r}, h)
<1> DEFINE M == Matching(mf, S, h)
           M2 == Matching(mf, S \union {r}, h)
<1>1. M2 = M \union {r} /\ M \subseteq S
  BY DEF Matching
<1>2. S \subseteq Nat /\ r \in Nat /\ r # NULL /\ r \notin S
  BY NullNotRule
<1>3. CASE v = Zero
  <2>1. M2 = {r}
    BY <1>1, <1>3 DEF Exact
  <2>2. AddTerminal(v, r) = Leaf(r)
    BY <1>3 DEF AddTerminal
  <2>3. Leaf(r) # Zero
    BY <1>2 DEF Leaf, Zero
  <2> QED
    BY <1>2, <2>1, <2>2, <2>3, LeafFacts DEF Exact
<1>4. CASE v # Zero
  <2>1. /\ Rh(v) \in M
        /\ \A y \in M : Rh(v) <= y
        /\ \A y \in M \ {Rh(v)} : Rl(v) # NULL /\ Rl(v) <= y
        /\ Rl(v) # NULL => Rl(v) \in M \ {Rh(v)}
    BY <1>4 DEF Exact
  <2>2. Rh(v) \in S /\ Rh(v) < r /\ Rh(v) \in Nat
    BY <1>1, <1>2, <2>1
  <2> HIDE DEF M, M2
  <2>3. CASE Rl(v) = NULL
    <3>1. M = {Rh(v)}
      BY <2>1, <2>3
    <3>2. v # Leaf(r)
      BY <1>2, <2>2, LeafFacts
    <3>3. AddTerminal(v, r) = <<Rh(v), r>>
      BY <1>2, <1>4, <2>2, <2>3, <3>2 DEF AddTerminal, Joins, JoinOf
    <3>4. Rh(AddTerminal(v, r)) = Rh(v) /\ Rl(AddTerminal(v, r)) = r
      BY <3>3 DEF Rh, Rl
    <3>5. AddTerminal(v, r) # Zero
      BY <1>2, <2>2, <3>4, LeafFacts
    <3>6. M2 = {Rh(v), r} /\ Rh(v) # r /\ Rh(v) <= r
      <4>1. M2 = {Rh(v), r}
        BY <1>1, <3>1
      <4> QED
        BY <1>2, <2>2, <4>1
    <3>7. \A y \in M2 : Rh(v) <= y
      BY <1>2, <2>2, <3>6
    <3>8. \A y \in M2 \ {Rh(v)} : y = r /\ r <= y
      BY <1>2, <3>6
    <3>9. Rl(AddTerminal(v, r)) \in M2 \ {Rh(v)}
      BY <3>4, <3>6
    <3> QED
      BY <1>2, <3>4, <3>5, <3>6, <3>7, <3>8, <3>9, ExactIf DEF M2
  <2>4. CASE Rl(v) # NULL
    <3>1. Rl(v) \in S /\ Rl(v) < r /\ Rl(v) \in Nat
      BY <1>1, <1>2, <2>1, <2>4
    <3>2. AddTerminal(v, r) = v
      <4>1. Rh(v) \in Rules /\ Rl(v) \in Rules /\ Rl(v) <= r
        BY <1>2, <2>2, <3>1
      <4> QED
        BY <1>4, <2>2, <4>1, AddBelowPair
    <3>3. Rh(v) <= r /\ Rl(v) <= r /\ Rl(v) \in M2 \ {Rh(v)}
      <4>1. Rh(v) <= r /\ Rl(v) <= r
        BY <1>2, <2>2, <3>1
      <4> QED
        BY <1>1, <2>1, <2>4, <4>1
    <3>4. \A y \in M2 : Rh(v) <= y
      BY <1>1, <2>1, <3>3
    <3>5. \A y \in M2 \ {Rh(v)} : Rl(v) <= y
      BY <1>1, <2>1, <3>3
    <3> QED
      BY <1>1, <1>4, <2>1, <2>4, <3>2, <3>3, <3>4, <3>5, ExactIf DEF M2
  <2> QED
    BY <2>3, <2>4
<1> QED
  BY <1>3, <1>4

\* The highest rule of a header, put back on top of the rule that decided in
\* its absence, makes an exact pair.
LEMMA AddHighestExact ==
  ASSUME NEW mf, NEW S \in SUBSET Rules, NEW h,
         NEW v \in Terminal, NEW r \in Rules,
         h \in mf[r], r \notin S,
         \A y \in Matching(mf, S, h) : r <= y,
         v = Zero => Matching(mf, S, h) = {},
         v # Zero => /\ Rh(v) \in Matching(mf, S, h)
                     /\ \A y \in Matching(mf, S, h) : Rh(v) <= y
  PROVE  Exact(mf, AddTerminal(v, r), S \union {r}, h)
<1> DEFINE M == Matching(mf, S, h)
           M2 == Matching(mf, S \union {r}, h)
<1>1. M2 = M \union {r} /\ M \subseteq S
  BY DEF Matching
<1>2. S \subseteq Nat /\ r \in Nat /\ r # NULL
  BY NullNotRule
<1>3. CASE v = Zero
  <2>1. M2 = {r}
    BY <1>1, <1>3
  <2>2. AddTerminal(v, r) = Leaf(r)
    BY <1>3 DEF AddTerminal
  <2>3. Leaf(r) # Zero
    BY <1>2 DEF Leaf, Zero
  <2> QED
    BY <1>2, <2>1, <2>2, <2>3, LeafFacts DEF Exact
<1>4. CASE v # Zero
  <2>1. Rh(v) \in S /\ Rh(v) \in M
    BY <1>1, <1>4
  <2>2. Rh(v) \in Nat /\ Rh(v) > r /\ Rh(v) # NULL
    <3>1. Rh(v) # r /\ r <= Rh(v)
      BY <2>1
    <3>2. Rh(v) \in Nat /\ Rh(v) # NULL
      BY <2>1, NullNotRule
    <3> QED
      BY <1>2, <3>1, <3>2
  <2>3. v # Leaf(r)
    BY <2>1, LeafFacts
  <2>4. AddTerminal(v, r) = <<r, Rh(v)>>
    BY <1>2, <1>4, <2>2, <2>3 DEF AddTerminal, Joins, JoinOf
  <2>5. Rh(AddTerminal(v, r)) = r /\ Rl(AddTerminal(v, r)) = Rh(v)
    BY <2>4 DEF Rh, Rl
  <2>6. AddTerminal(v, r) # Zero
    BY <1>2, <2>5, LeafFacts
  <2>7. \A y \in M2 : r <= y
    BY <1>1, <1>2
  <2>8. \A y \in M2 \ {r} : Rh(v) <= y
    BY <1>1, <1>4
  <2>9. Rh(v) \in M2 \ {r}
    BY <1>1, <2>1
  <2> QED
    BY <1>1, <2>2, <2>5, <2>6, <2>7, <2>8, <2>9, ExactIf
<1> QED
  BY <1>3, <1>4

\* A rule below a rule that is exact but not highest at h changes nothing at h.
LEMMA AddBelowExact ==
  ASSUME NEW mf, NEW h, NEW v \in Terminal, NEW r \in Rules, NEW x \in Rules,
         Exact(mf, v, Rules, h), h \in mf[r], r <= x,
         \E y \in Matching(mf, Rules, h) : y < r
  PROVE  AddTerminal(v, x) = v
<1> DEFINE M == Matching(mf, Rules, h)
<1>1. M \subseteq Rules /\ r \in M
  BY DEF Matching
<1>2. v # Zero
  BY <1>1 DEF Exact
<1>3. /\ Rh(v) \in M
      /\ \A y \in M : Rh(v) <= y
      /\ \A y \in M \ {Rh(v)} : Rl(v) # NULL /\ Rl(v) <= y
      /\ Rl(v) # NULL => Rl(v) \in M \ {Rh(v)}
  BY <1>2 DEF Exact
<1> HIDE DEF M
<1>4. M \subseteq Nat /\ r \in Nat /\ x \in Nat /\ Rh(v) \in Nat
  BY <1>1, <1>3, NullNotRule
<1>5. PICK y \in M : y < r
  BY DEF M
<1>6. Rh(v) < r
  <2>1. Rh(v) <= y /\ y \in Nat
    BY <1>3, <1>4
  <2> QED
    BY <1>4, <1>5, <2>1
<1>7. r \in M \ {Rh(v)}
  BY <1>1, <1>4, <1>6
<1>8. Rl(v) # NULL /\ Rl(v) <= r /\ Rl(v) \in M
  BY <1>3, <1>7
<1>9. Rl(v) \in Nat /\ Rl(v) \in Rules /\ Rh(v) \in Rules
  BY <1>1, <1>3, <1>4, <1>8
<1>10. Rh(v) < x /\ Rl(v) <= x
  BY <1>4, <1>6, <1>8, <1>9
<1> QED
  BY <1>2, <1>9, <1>10, AddBelowPair

-----------------------------------------------------------------------------
(* The inductive invariant of the driver, one part per loop.               *)

\* The rules before r_i are in the table.
BuildInv ==
  phase = "build" =>
    /\ readd = {}
    /\ Live = {r \in Rules : r < r_i}
    /\ ExactAt(Live)

\* All rules are in the table.
RemoveInv ==
  phase = "remove" =>
    /\ readd = {}
    /\ Live = Rules
    /\ ExactAt(Rules)

\* Rule r_i is out, unless it matches nothing.  Where it decided, the pair is
\* being repaired; elsewhere the pair still counts r_i, as it will again.
InsertInv ==
  phase = "insert" =>
    /\ r_i \in Rules
    /\ readd # {} => removed = r_i
    /\ \A x \in readd : r_i < x
    /\ mf_in[r_i] = {} => readd = {} /\ Live = Rules
    /\ mf_in[r_i] # {} => Live = Rules \ {r_i}
    /\ \A h \in Headers :
         \/ h \in mf_in[r_i] /\ \A y \in Matching(mf_in, Rules, h) : r_i <= y
         \/ Exact(mf_in, mtbdd[h], Rules, h)

DriverInv ==
  /\ IInv
  /\ phase \in {"build", "remove", "insert"}
  /\ r_i \in 0 .. NRules
  /\ BuildInv
  /\ RemoveInv
  /\ InsertInv

\* A loop variable below the number of rules is a rule.
LEMMA LoopRule == r_i \in 0 .. NRules /\ r_i < NRules => r_i \in Rules
BY NRulesAssumption

\* Every step of the driver is a step of the table.
LEMMA DriverStep == DriverInv /\ [DNext]_dvars => [Next]_vars
<1> SUFFICES ASSUME DriverInv, [DNext]_dvars PROVE [Next]_vars
  OBVIOUS
<1>1. r_i < NRules => r_i \in Rules
  BY LoopRule DEF DriverInv
<1>2. phase = "insert" => r_i \in Rules
  BY DEF DriverInv, InsertInv
<1>3. CASE Build
  BY <1>1, <1>3 DEF Build, Next
<1>4. CASE RemoveOne
  BY <1>1, <1>4 DEF RemoveOne, Next
<1>5. CASE ReaddHidden
  BY <1>5 DEF ReaddHidden, Next
<1>6. CASE InsertOne
  BY <1>2, <1>6 DEF InsertOne, Next
<1>7. CASE UNCHANGED vars
  BY <1>7
<1> QED
  BY <1>3, <1>4, <1>5, <1>6, <1>7 DEF DNext, StartReadd, Finished, dvars

\* The empty table is where the build loop starts.
LEMMA DriverInit == DInit => DriverInv
<1> SUFFICES ASSUME DInit PROVE DriverInv
  OBVIOUS
<1>1. IInv /\ Live = {} /\ readd = {}
  BY InitInvariant DEF DInit, Init, Live
<1>2. {r \in Rules : r < r_i} = {}
  <2>1. r_i = 0 /\ \A r \in Nat : ~ (r < 0)
    BY DEF DInit
  <2> QED
    BY <2>1, NullNotRule
<1>3. ExactAt(Live)
  BY <1>1 DEF ExactAt, Exact, Matching, DInit, Init
<1>4. BuildInv
  BY <1>1, <1>2, <1>3 DEF BuildInv
<1> QED
  BY <1>1, <1>4, NRulesAssumption DEF DriverInv, RemoveInv, InsertInv, DInit

\* What Insert does to the pairs and to the set of live rules.
LEMMA InsertPairs ==
  ASSUME NEW r \in Rules, IInv, Insert(r)
  PROVE  /\ readd = {} /\ readd' = {} /\ mf_in' = mf_in
         /\ Live' = Live \union {r}
         /\ \A h \in Headers \ mf_in[r] : mtbdd'[h] = mtbdd[h]
         /\ \A h \in mf_in[r] : mtbdd'[h] = AddTerminal(mtbdd[h], r)
<1>1. mf_in[r] \in SUBSET Headers /\ type \in [Rules -> {"new", "BS", "RM"}]
  BY DEF IInv, TypeOK
<1>2. /\ \A h \in Headers \ mf_in[r] : mtbdd'[h] = mtbdd[h]
      /\ \A h \in mf_in[r] : mtbdd'[h] = AddTerminal(mtbdd[h], r)
  BY <1>1, AddRuleTerminals DEF Insert, IInv
<1> QED
  BY <1>1, <1>2 DEF Insert, Live

\* The build loop: rule r_i is below all rules that are in the table.
LEMMA BuildStep == DriverInv /\ IInv' /\ Build => DriverInv'
<1> SUFFICES ASSUME DriverInv, IInv', Build PROVE DriverInv'
  OBVIOUS
<1>1. /\ phase = "build" /\ phase' = "build" /\ r_i \in Rules
      /\ r_i' = r_i + 1 /\ r_i' \in 0 .. NRules /\ Insert(r_i) /\ IInv
  BY LoopRule, NRulesAssumption DEF DriverInv, Build
<1>2. Live = {r \in Rules : r < r_i} /\ ExactAt(Live)
  BY <1>1 DEF DriverInv, BuildInv
<1>3. /\ readd' = {} /\ mf_in' = mf_in
      /\ Live' = Live \union {r_i}
      /\ \A h \in Headers \ mf_in[r_i] : mtbdd'[h] = mtbdd[h]
      /\ \A h \in mf_in[r_i] : mtbdd'[h] = AddTerminal(mtbdd[h], r_i)
  BY <1>1, InsertPairs
<1>4. Live' = {r \in Rules : r < r_i'}
  <2>1. Rules \subseteq Nat
    BY NullNotRule
  <2>2. \A r \in Rules : r < r_i + 1 <=> r < r_i \/ r = r_i
    BY <1>1, <2>1
  <2> QED
    BY <1>1, <1>2, <1>3, <2>2
<1>5. ASSUME NEW h \in Headers PROVE Exact(mf_in, mtbdd'[h], Live', h)
  <2>1. mtbdd[h] \in Terminal /\ Exact(mf_in, mtbdd[h], Live, h)
    BY <1>1, <1>2 DEF IInv, TypeOK, ExactAt
  <2>2. CASE h \in mf_in[r_i]
    <3>1. Live \in SUBSET Rules /\ \A y \in Live : y < r_i
      BY <1>2
    <3>2. Exact(mf_in, AddTerminal(mtbdd[h], r_i), Live \union {r_i}, h)
      BY <1>1, <2>1, <2>2, <3>1, AddLowestExact
    <3> QED
      BY <1>3, <2>2, <3>2
  <2>3. CASE h \notin mf_in[r_i]
    <3>1. Matching(mf_in, Live', h) = Matching(mf_in, Live, h)
      BY <1>3, <2>3 DEF Matching
    <3>2. mtbdd'[h] = mtbdd[h]
      BY <1>3, <2>3
    <3> QED
      BY <2>1, <3>1, <3>2 DEF Exact
  <2> QED
    BY <2>2, <2>3
<1>6. BuildInv'
  BY <1>3, <1>4, <1>5 DEF BuildInv, ExactAt
<1> QED
  BY <1>1, <1>6 DEF DriverInv, RemoveInv, InsertInv

\* The second loop starts with every rule in the table.
LEMMA StartStep == DriverInv /\ IInv' /\ StartReadd => DriverInv'
<1> SUFFICES ASSUME DriverInv, IInv', StartReadd PROVE DriverInv'
  OBVIOUS
<1>1. /\ phase = "build" /\ r_i = NRules /\ phase' = "remove" /\ r_i' = 0
      /\ UNCHANGED vars
  BY DEF StartReadd
<1>2. readd = {} /\ Live = {r \in Rules : r < r_i} /\ ExactAt(Live)
  BY <1>1 DEF DriverInv, BuildInv
<1>3. Live = Rules
  BY <1>1, <1>2, NRulesAssumption
<1>4. Live' = Live /\ readd' = readd /\ mf_in' = mf_in /\ mtbdd' = mtbdd
  BY <1>1 DEF vars, Live
<1>5. RemoveInv'
  BY <1>2, <1>3, <1>4 DEF RemoveInv, ExactAt
<1> QED
  BY <1>1, <1>5, NRulesAssumption DEF DriverInv, BuildInv, InsertInv

\* A removal clears the headers that r_i decided and leaves the other pairs.
LEMMA RemoveOneStep == DriverInv /\ IInv' /\ RemoveOne => DriverInv'
<1> SUFFICES ASSUME DriverInv, IInv', RemoveOne PROVE DriverInv'
  OBVIOUS
<1>1. /\ phase = "remove" /\ phase' = "insert" /\ r_i \in Rules /\ r_i' = r_i
      /\ RemoveNothing(r_i) \/ Remove(r_i)
      /\ IInv /\ r_i \in 0 .. NRules
  BY LoopRule DEF DriverInv, RemoveOne
<1>2. readd = {} /\ Live = Rules /\ ExactAt(Rules)
  BY <1>1 DEF DriverInv, RemoveInv
<1>3. CASE RemoveNothing(r_i)
  <2>1. /\ mf_in[r_i] = {} /\ Live' = Live /\ readd' = readd
        /\ mf_in' = mf_in /\ mtbdd' = mtbdd
    BY <1>3 DEF RemoveNothing, vars, Live
  <2>2. InsertInv'
    BY <1>1, <1>2, <2>1 DEF InsertInv, ExactAt
  <2> QED
    BY <1>1, <2>2 DEF DriverInv, BuildInv, RemoveInv
<1>4. CASE Remove(r_i)
  <2>1. /\ mf_in[r_i] # {} /\ mf_in' = mf_in /\ readd' = ReaddRules(r_i)
        /\ removed' = IF readd' = {} THEN NULL ELSE r_i
        /\ type' = [type EXCEPT ![r_i] = "RM"]
        /\ mtbdd' = [h \in Headers |->
                 IF h \in mf_in[r_i] THEN RemoveTerminal(mtbdd[h], r_i) ELSE mtbdd[h]]
    BY <1>4 DEF Remove
  <2>2. Live' = Rules \ {r_i}
    BY <1>1, <1>2, <2>1 DEF Live, IInv, TypeOK
  <2>3. \A x \in readd' : r_i < x
    BY <1>1, <2>1 DEF ReaddRules, IInv, CoverDescends
  <2>4. ASSUME NEW h \in Headers,
               ~ (h \in mf_in[r_i] /\ \A y \in Matching(mf_in, Rules, h) : r_i <= y)
        PROVE  Exact(mf_in, mtbdd'[h], Rules, h)
    <3>1. Exact(mf_in, mtbdd[h], Rules, h)
      BY <1>2 DEF ExactAt
    <3>2. CASE h \notin mf_in[r_i]
      BY <2>1, <3>1, <3>2
    <3>3. CASE h \in mf_in[r_i]
      <4>1. r_i \in Matching(mf_in, Rules, h)
        BY <1>1, <3>3 DEF Matching
      <4>2. \A y \in Matching(mf_in, Rules, h) : Rh(mtbdd[h]) <= y
        BY <3>1, <4>1 DEF Exact
      <4>3. Rh(mtbdd[h]) # r_i
        BY <2>4, <3>3, <4>2
      <4>4. mtbdd'[h] = mtbdd[h]
        BY <2>1, <4>3 DEF RemoveTerminal
      <4> QED
        BY <3>1, <4>4
    <3> QED
      BY <3>2, <3>3
  <2>5. InsertInv'
    BY <1>1, <2>1, <2>2, <2>3, <2>4 DEF InsertInv
  <2> QED
    BY <1>1, <2>5 DEF DriverInv, BuildInv, RemoveInv
<1> QED
  BY <1>1, <1>3, <1>4

\* A hidden rule that is put back only changes headers that r_i decided.
LEMMA ReaddHiddenStep == DriverInv /\ IInv' /\ ReaddHidden => DriverInv'
<1> SUFFICES ASSUME DriverInv, IInv', ReaddHidden PROVE DriverInv'
  OBVIOUS
<1>1. /\ phase = "insert" /\ phase' = "insert" /\ r_i' = r_i
      /\ IInv /\ r_i \in 0 .. NRules
  BY DEF DriverInv, ReaddHidden
<1>2. PICK x \in Rules : Readd(x)
  BY DEF ReaddHidden
<1>3. /\ r_i \in Rules
      /\ readd # {} => removed = r_i
      /\ \A z \in readd : r_i < z
      /\ mf_in[r_i] = {} => readd = {} /\ Live = Rules
      /\ mf_in[r_i] # {} => Live = Rules \ {r_i}
      /\ \A h \in Headers :
           \/ h \in mf_in[r_i] /\ \A y \in Matching(mf_in, Rules, h) : r_i <= y
           \/ Exact(mf_in, mtbdd[h], Rules, h)
  BY <1>1 DEF DriverInv, InsertInv
<1>4. /\ x \in readd /\ readd' = readd \ {x} /\ mf_in' = mf_in /\ type' = type
      /\ removed' = IF readd' = {} THEN NULL ELSE removed
      /\ removed = r_i /\ r_i < x /\ mf_in[r_i] # {} /\ Live = Rules \ {r_i}
      /\ AddRule(x, VirtualMf(removed, x))
  BY <1>2, <1>3 DEF Readd, RestOfLoop
<1>5. VirtualMf(r_i, x) = mf_in[r_i] \intersect mf_in[x]
  BY DEF VirtualMf
<1>6. /\ \A h \in Headers \ VirtualMf(r_i, x) : mtbdd'[h] = mtbdd[h]
      /\ \A h \in VirtualMf(r_i, x) : mtbdd'[h] = AddTerminal(mtbdd[h], x)
  <2>1. VirtualMf(r_i, x) \in SUBSET Headers
    BY <1>1, <1>3, <1>5 DEF IInv, TypeOK
  <2> QED
    BY <1>1, <1>4, <2>1, AddRuleTerminals DEF IInv
<1>7. ASSUME NEW h \in Headers,
             ~ (h \in mf_in[r_i] /\ \A y \in Matching(mf_in, Rules, h) : r_i <= y)
      PROVE  Exact(mf_in, mtbdd'[h], Rules, h)
  <2>1. Exact(mf_in, mtbdd[h], Rules, h) /\ mtbdd[h] \in Terminal
    BY <1>1, <1>3, <1>7 DEF IInv, TypeOK
  <2>2. CASE h \notin VirtualMf(r_i, x)
    BY <1>6, <2>1, <2>2
  <2>3. CASE h \in VirtualMf(r_i, x)
    <3>1. h \in mf_in[r_i] /\ Matching(mf_in, Rules, h) \subseteq Nat /\ r_i \in Nat
      BY <1>3, <1>5, <2>3, NullNotRule DEF Matching
    <3>2. \E y \in Matching(mf_in, Rules, h) : y < r_i
      BY <1>7, <3>1
    <3>3. r_i <= x
      BY <1>4, <3>1, NullNotRule
    <3>4. AddTerminal(mtbdd[h], x) = mtbdd[h]
      BY <1>3, <2>1, <3>1, <3>2, <3>3, AddBelowExact
    <3> QED
      BY <1>6, <2>1, <2>3, <3>4
  <2> QED
    BY <2>2, <2>3
<1>8. Live' = Live
  BY <1>4 DEF Live
<1>9. InsertInv'
  BY <1>1, <1>3, <1>4, <1>7, <1>8 DEF InsertInv
<1> QED
  BY <1>1, <1>9 DEF DriverInv, BuildInv, RemoveInv

\* Putting r_i back repairs the pairs of the headers that it decides: the rule
\* that decided them in its absence becomes the second one.
LEMMA InsertOneStep == DriverInv /\ IInv' /\ InsertOne => DriverInv'
<1> SUFFICES ASSUME DriverInv, IInv', InsertOne PROVE DriverInv'
  OBVIOUS
<1>1. /\ phase = "insert" /\ phase' = "remove" /\ r_i' = r_i + 1
      /\ IInv /\ Insert(r_i)
  BY DEF DriverInv, InsertOne
<1>2. /\ r_i \in Rules
      /\ mf_in[r_i] = {} => Live = Rules
      /\ mf_in[r_i] # {} => Live = Rules \ {r_i}
      /\ \A h \in Headers :
           \/ h \in mf_in[r_i] /\ \A y \in Matching(mf_in, Rules, h) : r_i <= y
           \/ Exact(mf_in, mtbdd[h], Rules, h)
  BY <1>1 DEF DriverInv, InsertInv
<1>3. /\ readd = {} /\ readd' = {} /\ mf_in' = mf_in
      /\ Live' = Live \union {r_i}
      /\ \A h \in Headers \ mf_in[r_i] : mtbdd'[h] = mtbdd[h]
      /\ \A h \in mf_in[r_i] : mtbdd'[h] = AddTerminal(mtbdd[h], r_i)
  BY <1>1, <1>2, InsertPairs
<1>4. Live' = Rules
  BY <1>2, <1>3
<1>5. r_i' \in 0 .. NRules
  BY <1>1, <1>2, NRulesAssumption
<1>6. ASSUME NEW h \in Headers PROVE Exact(mf_in, mtbdd'[h], Rules, h)
  <2>1. mtbdd[h] \in Terminal
    BY <1>1 DEF IInv, TypeOK
  <2>2. CASE h \notin mf_in[r_i]
    BY <1>2, <1>3, <2>2
  <2>3. CASE h \in mf_in[r_i] /\ \A y \in Matching(mf_in, Rules, h) : r_i <= y
    <3>1. Live = Rules \ {r_i} /\ Live \in SUBSET Rules /\ Live \union {r_i} = Rules
      BY <1>2, <2>3
    <3>2. \A y \in Matching(mf_in, Live, h) : r_i <= y
      BY <2>3, <3>1 DEF Matching
    <3>3. mtbdd[h] = Zero => Matching(mf_in, Live, h) = {}
      BY <1>1, <1>3, TopIsHighest DEF Matching
    <3>4. mtbdd[h] # Zero =>
            /\ Rh(mtbdd[h]) \in Matching(mf_in, Live, h)
            /\ \A y \in Matching(mf_in, Live, h) : Rh(mtbdd[h]) <= y
      <4>1. mtbdd[h] # Zero => Rh(mtbdd[h]) \in Matching(mf_in, Live, h)
        BY <1>1 DEF Matching, IInv, TopLive
      <4>2. \A y \in Matching(mf_in, Live, h) : Rh(mtbdd[h]) <= y
        BY <1>1, <1>3, TopIsHighest DEF Matching
      <4> QED
        BY <4>1, <4>2
    <3>5. Exact(mf_in, AddTerminal(mtbdd[h], r_i), Live \union {r_i}, h)
      BY <1>2, <2>1, <2>3, <3>1, <3>2, <3>3, <3>4, AddHighestExact
    <3> QED
      BY <1>3, <2>3, <3>1, <3>5
  <2>4. CASE h \in mf_in[r_i] /\ ~ \A y \in Matching(mf_in, Rules, h) : r_i <= y
    <3>1. Exact(mf_in, mtbdd[h], Rules, h)
      BY <1>2, <2>4
    <3>2. Matching(mf_in, Rules, h) \subseteq Nat /\ r_i \in Nat
      BY <1>2, NullNotRule DEF Matching
    <3>3. \E y \in Matching(mf_in, Rules, h) : y < r_i
      BY <2>4, <3>2
    <3>4. AddTerminal(mtbdd[h], r_i) = mtbdd[h]
      <4>1. r_i <= r_i
        BY <3>2
      <4> QED
        BY <1>2, <2>1, <2>4, <3>1, <3>3, <4>1, AddBelowExact
    <3> QED
      BY <1>3, <2>4, <3>1, <3>4
  <2> QED
    BY <2>2, <2>3, <2>4
<1>7. RemoveInv'
  BY <1>3, <1>4, <1>6 DEF RemoveInv, ExactAt
<1> QED
  BY <1>1, <1>5, <1>7 DEF DriverInv, BuildInv, InsertInv

\* The driver keeps its invariant.
LEMMA DriverNext == DriverInv /\ [DNext]_dvars => DriverInv'
<1> SUFFICES ASSUME DriverInv, [DNext]_dvars PROVE DriverInv'
  OBVIOUS
<1>1. IInv'
  BY DriverStep, NextInvariant DEF DriverInv
<1>2. CASE UNCHANGED dvars
  BY <1>1, <1>2 DEF dvars, vars, DriverInv, BuildInv, RemoveInv, InsertInv,
                    ExactAt, Live
<1> QED
  BY <1>1, <1>2, BuildStep, StartStep, RemoveOneStep, ReaddHiddenStep,
     InsertOneStep DEF DNext, Finished

-----------------------------------------------------------------------------
(* The theorems.                                                           *)

\* The invariant of the driver, from which the theorems below follow.
THEOREM DriverInvariant == DSpec => []DriverInv
BY DriverInit, DriverNext, PTL DEF DSpec

\* build_network_by_update_rules and test_remove_then_readd_rules only use the
\* table as Spec allows, so that every theorem about the table holds of them.
THEOREM DriverUsesTable == DSpec => Spec
<1>1. DInit => Init
  BY DEF DInit
<1> QED
  BY <1>1, DriverStep, DriverInvariant, PTL DEF DSpec, Spec

\* The invariant makes every pair exact where no update is under way.
LEMMA InvNamesPairs == DriverInv => PairExact
<1> SUFFICES ASSUME DriverInv, AtRest, NEW h \in Headers, mtbdd[h] # Zero
             PROVE  Rl(mtbdd[h]) = BestWithout(mf_in, Live, Rh(mtbdd[h]), h)
  BY DEF PairExact
<1>1. ExactAt(Live)
  BY DEF DriverInv, AtRest, BuildInv, RemoveInv
<1>2. Live \in SUBSET Rules
  BY DEF Live
<1> QED
  BY <1>1, <1>2, ExactNamesNext DEF ExactAt

\* In the driver's order of updates every pair at rest names the rule that
\* decides the header and the one that would decide it next.
THEOREM PairsAreExact == DSpec => []PairExact
BY InvNamesPairs, DriverInvariant, PTL

-----------------------------------------------------------------------------
(* Self sets.                                                              *)

\* Inserting r in the headers m joins r to the pair of h.
JoinedAt(r, m, h) == h \in m /\ mtbdd[h] \notin {Zero, Leaf(r)} /\ Joins(mtbdd[h], r)

\* Where the self sets of the terminals that are met are their regions, each
\* self set loses and gains exactly what its region loses and gains, in
\* whichever order the terminals are met.
LEMMA AddSelfExact ==
  ASSUME NEW r \in Rules, NEW m \in SUBSET Headers, TypeOK, TopLive, AddRule(r, m),
         \A h \in m : mtbdd[h] \notin {Zero, Leaf(r)} => self_bdd[mtbdd[h]] = Region(mtbdd[h]),
         self_bdd[Leaf(r)] = Region(Leaf(r)) \union m
  PROVE  /\ self_bdd'[Leaf(r)] = Region(Leaf(r))'
         /\ \A t \in Terminal : t # Leaf(r) =>
              self_bdd'[t] = {h \in self_bdd[t] : ~ (mtbdd[h] = t /\ JoinedAt(r, m, h))}
                               \union {h \in m : JoinedAt(r, m, h) /\ JoinOf(mtbdd[h], r) = t}
         /\ \A t \in Terminal : t # Leaf(r) /\ Rh(t) \in Rules =>
              Region(t)' = {h \in Region(t) : ~ (mtbdd[h] = t /\ JoinedAt(r, m, h))}
                             \union {h \in m : JoinedAt(r, m, h) /\ JoinOf(mtbdd[h], r) = t}
<1>1. PICK lowFirst \in BOOLEAN : self_bdd' = AddSelf(r, m, lowFirst)
  BY DEF AddRule
<1> DEFINE joined == {v \in Touched(r, m) : Joins(v, r)}
           lost(t) == IF t \in joined THEN Claims(t, r, m, lowFirst) ELSE {}
           gained(t) == UNION {Claims(v, r, m, lowFirst) :
                                 v \in {u \in joined : JoinOf(u, r) = t}}
<1>2. self_bdd' = [t \in Terminal |->
         IF t = Leaf(r)
           THEN self_bdd[t] \ UNION {self_bdd[v] : v \in Touched(r, m)}
           ELSE (self_bdd[t] \ lost(t)) \union gained(t)]
  BY <1>1 DEF AddSelf
<1>3. /\ \A v : v \in Touched(r, m) <=> v \notin {Zero, Leaf(r)} /\ \E h \in m : mtbdd[h] = v
      /\ \A v \in Touched(r, m) : v \in Terminal /\ self_bdd[v] = Region(v)
  <2>1. \A v : v \in Touched(r, m) <=> v \notin {Zero, Leaf(r)} /\ \E h \in m : mtbdd[h] = v
    BY DEF Touched
  <2> QED
    BY <2>1 DEF TypeOK
<1>4. Leaf(r) \in Terminal
  BY DEF Leaf, Terminal
<1>5. \A v, h : h \in Region(v) <=> h \in Headers /\ mtbdd[h] = v
  BY DEF Region
<1>6. \A v : ~ MetBefore(v, v, m, lowFirst)
  BY HeadersAssumption DEF MetBefore
<1>7. \A v \in Touched(r, m) : \A h : h \in Claims(v, r, m, lowFirst) <=> h \in m /\ mtbdd[h] = v
  <2> SUFFICES ASSUME NEW v \in Touched(r, m), NEW h
               PROVE  h \in Claims(v, r, m, lowFirst) <=> h \in m /\ mtbdd[h] = v
    OBVIOUS
  <2>1. v # Leaf(r) /\ self_bdd[v] = Region(v)
    BY <1>3
  <2>2. h \in self_bdd[v] /\ h \in self_bdd[Leaf(r)] <=> h \in m /\ mtbdd[h] = v
    BY <1>5, <2>1
  <2>3. \A w \in Touched(r, m) : h \in self_bdd[w] /\ h \in self_bdd[v] => w = v
    BY <1>3, <1>5
  <2> QED
    BY <1>6, <2>2, <2>3 DEF Claims
<1>8. \A t, h : h \in lost(t) <=> mtbdd[h] = t /\ JoinedAt(r, m, h)
  <2> TAKE t, h
  <2>1. t \in joined <=> t \in Touched(r, m) /\ Joins(t, r)
    OBVIOUS
  <2>2. CASE t \in joined
    <3>1. h \in lost(t) <=> h \in m /\ mtbdd[h] = t
      BY <1>7, <2>1, <2>2
    <3> QED
      BY <1>3, <2>1, <2>2, <3>1 DEF JoinedAt
  <2>3. CASE t \notin joined
    BY <1>3, <2>1, <2>3 DEF JoinedAt
  <2> QED
    BY <2>2, <2>3
<1>9. \A t, h : h \in gained(t) <=> h \in m /\ JoinedAt(r, m, h) /\ JoinOf(mtbdd[h], r) = t
  <2> TAKE t, h
  <2>1. h \in gained(t) <=> \E v \in Touched(r, m) :
          Joins(v, r) /\ JoinOf(v, r) = t /\ h \in Claims(v, r, m, lowFirst)
    OBVIOUS
  <2> QED
    BY <1>3, <1>7, <2>1 DEF JoinedAt
<1> HIDE DEF joined, lost, gained
<1>10. \A h \in Headers : mtbdd'[h] =
          IF JoinedAt(r, m, h) THEN JoinOf(mtbdd[h], r)
          ELSE IF h \in m /\ mtbdd[h] = Zero THEN Leaf(r) ELSE mtbdd[h]
  BY DEF AddRule, AddTerminal, JoinedAt
<1>11. \A h \in Headers : JoinedAt(r, m, h) => JoinOf(mtbdd[h], r) # Leaf(r)
  <2> TAKE h \in Headers
  <2>1. mtbdd[h] # Zero => Rh(mtbdd[h]) \in Rules
    BY DEF TopLive, Live
  <2>2. JoinedAt(r, m, h) => Rl(JoinOf(mtbdd[h], r)) # NULL
    BY <2>1, NullNotRule DEF JoinedAt, JoinOf, Rl
  <2> QED
    BY <2>2, LeafFacts
<1>12. \A v, h : h \in Region(v)' <=> h \in Headers /\ mtbdd'[h] = v
  BY DEF Region
<1>13. Zero # Leaf(r)
  BY NullNotRule DEF Zero, Leaf
<1>14. self_bdd'[Leaf(r)] = Region(Leaf(r))'
  <2>1. \A h : h \in self_bdd'[Leaf(r)] <=>
           (h \in Region(Leaf(r)) \/ h \in m) /\ \A v \in Touched(r, m) : h \notin self_bdd[v]
    BY <1>2, <1>4
  <2>2. \A h \in Headers : (\E v \in Touched(r, m) : h \in self_bdd[v]) <=> mtbdd[h] \in Touched(r, m)
    BY <1>3, <1>5
  <2>3. \A h : h \in self_bdd'[Leaf(r)] <=>
           h \in Headers /\ (mtbdd[h] = Leaf(r) \/ (h \in m /\ mtbdd[h] = Zero))
    BY <1>3, <1>5, <2>1, <2>2
  <2>4. \A h : h \in Region(Leaf(r))' <=>
           h \in Headers /\ (mtbdd[h] = Leaf(r) \/ (h \in m /\ mtbdd[h] = Zero))
    BY <1>10, <1>11, <1>12, <1>13 DEF JoinedAt
  <2>5. self_bdd'[Leaf(r)] \subseteq Headers /\ Region(Leaf(r))' \subseteq Headers
    BY <2>3, <2>4
  <2> QED
    BY <2>3, <2>4, <2>5
<1>15. ASSUME NEW t \in Terminal, t # Leaf(r)
       PROVE  self_bdd'[t] = {h \in self_bdd[t] : ~ (mtbdd[h] = t /\ JoinedAt(r, m, h))}
                               \union {h \in m : JoinedAt(r, m, h) /\ JoinOf(mtbdd[h], r) = t}
  <2>1. self_bdd'[t] = (self_bdd[t] \ lost(t)) \union gained(t)
    BY <1>2, <1>15
  <2> QED
    BY <1>8, <1>9, <2>1
<1>16. ASSUME NEW t \in Terminal, t # Leaf(r), Rh(t) \in Rules
       PROVE  Region(t)' = {h \in Region(t) : ~ (mtbdd[h] = t /\ JoinedAt(r, m, h))}
                             \union {h \in m : JoinedAt(r, m, h) /\ JoinOf(mtbdd[h], r) = t}
  <2>1. t # Zero
    BY <1>16, LeafFacts, NullNotRule
  <2>2. \A h \in Headers : mtbdd'[h] = t <=>
           \/ mtbdd[h] = t /\ ~ JoinedAt(r, m, h)
           \/ JoinedAt(r, m, h) /\ JoinOf(mtbdd[h], r) = t
    BY <1>10, <1>16, <2>1 DEF JoinedAt
  <2>3. \A h : h \in Region(t)' <=> h \in Headers /\
           (\/ mtbdd[h] = t /\ ~ JoinedAt(r, m, h)
            \/ JoinedAt(r, m, h) /\ JoinOf(mtbdd[h], r) = t)
    BY <1>12, <2>2
  <2> QED
    BY <1>5, <2>3 DEF JoinedAt
<1> QED
  BY <1>14, <1>15, <1>16

\* The headers for which v is the exact pair when all rules are in the table.
ExactRegion(v) == {h \in Headers : Exact(mf_in, v, Rules, h)}

\* The self sets in each loop.  Where they are not regions they are ahead of
\* them: the leaf of a rule that waits holds the headers it is to be put back
\* in, and the pairs under a rule that is out keep the headers they will have
\* again.
SelfInv ==
  /\ phase = "build" => \A v \in Terminal :
       /\ Rh(v) \in Live => self_bdd[v] = Region(v)
       /\ Rh(v) \in Rules \ Live =>
            self_bdd[v] = IF Rl(v) = NULL THEN mf_in[Rh(v)] ELSE {}
  /\ phase = "remove" => \A v \in Terminal : Rh(v) \in Rules => self_bdd[v] = Region(v)
  /\ phase = "insert" => \A v \in Terminal :
       /\ Rh(v) \in Rules \ {r_i} =>
            self_bdd[v] = Region(v) \union
              (IF Rl(v) = NULL /\ Rh(v) \in readd THEN VirtualMf(r_i, Rh(v)) ELSE {})
       /\ Rh(v) = r_i =>
            self_bdd[v] = IF Rl(v) = NULL THEN mf_in[r_i] ELSE ExactRegion(v)

\* A terminal without a second rule is a leaf.
LEMMA LeafOnly == \A v \in Terminal : Rl(v) = NULL => v = Leaf(Rh(v))
BY DEF Terminal, Rl, Rh, Leaf

\* A header has one exact pair.
LEMMA ExactUnique ==
  ASSUME NEW mf, NEW h, NEW v \in Terminal, NEW w \in Terminal,
         Exact(mf, v, Rules, h), Exact(mf, w, Rules, h)
  PROVE  v = w
<1> DEFINE O == Rules \union {NULL}
<1>1. PICK a \in O, b \in O : v = <<a, b>>
  BY DEF Terminal
<1>2. PICK c \in O, d \in O : w = <<c, d>>
  BY DEF Terminal
<1>3. /\ Matching(mf, Rules, h) \subseteq Nat /\ NULL \notin Matching(mf, Rules, h)
  BY NullNotRule DEF Matching
<1>4. /\ v = Zero => Matching(mf, Rules, h) = {}
      /\ v # Zero =>
           /\ a \in Matching(mf, Rules, h)
           /\ \A y \in Matching(mf, Rules, h) : a <= y
           /\ \A y \in Matching(mf, Rules, h) \ {a} : b # NULL /\ b <= y
           /\ b # NULL => b \in Matching(mf, Rules, h) \ {a}
  BY <1>1 DEF Exact, Rh, Rl
<1>5. /\ w = Zero => Matching(mf, Rules, h) = {}
      /\ w # Zero =>
           /\ c \in Matching(mf, Rules, h)
           /\ \A y \in Matching(mf, Rules, h) : c <= y
           /\ \A y \in Matching(mf, Rules, h) \ {c} : d # NULL /\ d <= y
           /\ d # NULL => d \in Matching(mf, Rules, h) \ {c}
  BY <1>2 DEF Exact, Rh, Rl
<1>6. CASE v = Zero \/ w = Zero
  BY <1>4, <1>5, <1>6
<1>7. CASE v # Zero /\ w # Zero
  <2>1. a = c
    BY <1>3, <1>4, <1>5, <1>7
  <2>2. b = d
    BY <1>3, <1>4, <1>5, <1>7, <2>1
  <2> QED
    BY <1>1, <1>2, <2>1, <2>2
<1> QED
  BY <1>6, <1>7

\* When all pairs are exact, the region of a terminal is fixed by the rules.
LEMMA ExactRegions ==
  TypeOK /\ ExactAt(Rules) => \A v \in Terminal : Region(v) = ExactRegion(v)
<1> SUFFICES ASSUME TypeOK, ExactAt(Rules), NEW v \in Terminal
             PROVE  Region(v) = ExactRegion(v)
  OBVIOUS
<1>1. \A h \in Headers : mtbdd[h] = v <=> Exact(mf_in, v, Rules, h)
  BY ExactUnique DEF ExactAt, TypeOK
<1> QED
  BY <1>1 DEF Region, ExactRegion

\* Inserting a rule keeps the self sets that are regions, and makes its leaf one.
LEMMA AddKeepsRegions ==
  ASSUME NEW r \in Rules, NEW m \in SUBSET Headers, TypeOK, TopLive, AddRule(r, m),
         \A h \in m : mtbdd[h] \notin {Zero, Leaf(r)} => self_bdd[mtbdd[h]] = Region(mtbdd[h]),
         self_bdd[Leaf(r)] = Region(Leaf(r)) \union m
  PROVE  /\ self_bdd'[Leaf(r)] = Region(Leaf(r))'
         /\ \A t \in Terminal : Rh(t) \in Rules /\ self_bdd[t] = Region(t) =>
              self_bdd'[t] = Region(t)'
         /\ \A t \in Terminal :
              /\ Rh(t) \in Rules /\ t # Leaf(r)
              /\ \A h \in m : JoinedAt(r, m, h) => mtbdd[h] # t /\ JoinOf(mtbdd[h], r) # t
              => self_bdd'[t] = self_bdd[t] /\ Region(t)' = Region(t)
<1>1. /\ self_bdd'[Leaf(r)] = Region(Leaf(r))'
      /\ \A t \in Terminal : t # Leaf(r) =>
           self_bdd'[t] = {h \in self_bdd[t] : ~ (mtbdd[h] = t /\ JoinedAt(r, m, h))}
                            \union {h \in m : JoinedAt(r, m, h) /\ JoinOf(mtbdd[h], r) = t}
      /\ \A t \in Terminal : t # Leaf(r) /\ Rh(t) \in Rules =>
           Region(t)' = {h \in Region(t) : ~ (mtbdd[h] = t /\ JoinedAt(r, m, h))}
                          \union {h \in m : JoinedAt(r, m, h) /\ JoinOf(mtbdd[h], r) = t}
  BY AddSelfExact
<1>2. \A t \in Terminal : Rh(t) \in Rules /\ self_bdd[t] = Region(t) =>
        self_bdd'[t] = Region(t)'
  BY <1>1
<1>3. ASSUME NEW t \in Terminal, Rh(t) \in Rules, t # Leaf(r),
             \A h \in m : JoinedAt(r, m, h) => mtbdd[h] # t /\ JoinOf(mtbdd[h], r) # t
      PROVE  self_bdd'[t] = self_bdd[t] /\ Region(t)' = Region(t)
  <2>1. \A h : JoinedAt(r, m, h) => h \in m
    BY DEF JoinedAt
  <2>2. {h \in m : JoinedAt(r, m, h) /\ JoinOf(mtbdd[h], r) = t} = {}
    BY <1>3
  <2>3. {h \in self_bdd[t] : ~ (mtbdd[h] = t /\ JoinedAt(r, m, h))} = self_bdd[t]
    BY <1>3, <2>1
  <2>4. {h \in Region(t) : ~ (mtbdd[h] = t /\ JoinedAt(r, m, h))} = Region(t)
    BY <1>3, <2>1
  <2> QED
    BY <1>1, <1>3, <2>2, <2>3, <2>4
<1> QED
  BY <1>1, <1>2, <1>3

\* The two rules of a joined pair are the rule that decided and the new one.
LEMMA JoinNames ==
  ASSUME NEW r \in Rules, NEW v
  PROVE  /\ Rh(JoinOf(v, r)) \in {r, Rh(v)}
         /\ Rh(v) \in Rules => Rl(JoinOf(v, r)) # NULL
BY NullNotRule DEF JoinOf, Rh, Rl

LEMMA SelfInit == DInit => SelfInv
<1> SUFFICES ASSUME DInit PROVE SelfInv
  OBVIOUS
<1>1. Live = {}
  BY DEF DInit, Init, Live
<1>2. \A v \in Terminal : Rh(v) \in Rules =>
        self_bdd[v] = IF Rl(v) = NULL THEN mf_in[Rh(v)] ELSE {}
  BY DEF DInit, Init
<1> QED
  BY <1>1, <1>2 DEF SelfInv, DInit

LEMMA SelfBuildStep == DriverInv /\ SelfInv /\ Build => SelfInv'
<1> SUFFICES ASSUME DriverInv, SelfInv, Build PROVE SelfInv'
  OBVIOUS
<1>1. /\ phase = "build" /\ phase' = "build" /\ r_i \in Rules /\ Insert(r_i)
      /\ IInv /\ TypeOK /\ TopLive
  BY LoopRule DEF DriverInv, IInv, Build
<1>2. PICK r \in Rules : r = r_i
  BY <1>1
<1>3. PICK m : m = mf_in[r]
  OBVIOUS
<1>4. m \in SUBSET Headers /\ AddRule(r, m) /\ mf_in' = mf_in
  BY <1>1, <1>2, <1>3 DEF TypeOK, Insert
<1>5. Live' = Live \union {r} /\ r \notin Live
  <2>1. Live = {x \in Rules : x < r_i}
    BY <1>1 DEF DriverInv, BuildInv
  <2> QED
    BY <1>1, <1>2, <2>1, InsertPairs, NullNotRule
<1>6. /\ \A v \in Terminal : Rh(v) \in Live => self_bdd[v] = Region(v)
      /\ \A v \in Terminal : Rh(v) \in Rules \ Live =>
            self_bdd[v] = IF Rl(v) = NULL THEN mf_in[Rh(v)] ELSE {}
  BY <1>1 DEF SelfInv
<1>7. \A h \in Headers : mtbdd[h] \in Terminal /\ (mtbdd[h] # Zero => Rh(mtbdd[h]) \in Live)
  BY <1>1 DEF TypeOK, TopLive
<1>8. Leaf(r) \in Terminal /\ Rh(Leaf(r)) = r /\ Rl(Leaf(r)) = NULL
  BY LeafFacts DEF Leaf, Terminal
<1>9. \A v \in Terminal : Rh(v) \in Rules \ Live => Region(v) = {}
  BY <1>7, LeafFacts, NullNotRule DEF Region
<1>10. self_bdd[Leaf(r)] = Region(Leaf(r)) \union m
  BY <1>3, <1>5, <1>6, <1>8, <1>9
<1>11. \A h \in m : mtbdd[h] \notin {Zero, Leaf(r)} => self_bdd[mtbdd[h]] = Region(mtbdd[h])
  BY <1>4, <1>6, <1>7
<1>12. /\ self_bdd'[Leaf(r)] = Region(Leaf(r))'
       /\ \A t \in Terminal : Rh(t) \in Rules /\ self_bdd[t] = Region(t) =>
            self_bdd'[t] = Region(t)'
       /\ \A t \in Terminal :
            /\ Rh(t) \in Rules /\ t # Leaf(r)
            /\ \A h \in m : JoinedAt(r, m, h) => mtbdd[h] # t /\ JoinOf(mtbdd[h], r) # t
            => self_bdd'[t] = self_bdd[t] /\ Region(t)' = Region(t)
  BY <1>1, <1>4, <1>10, <1>11, AddKeepsRegions
<1>13. ASSUME NEW v \in Terminal, Rh(v) \in Live'
       PROVE  self_bdd'[v] = Region(v)'
  <2>1. CASE Rh(v) \in Live
    BY <1>6, <1>12, <2>1 DEF Live
  <2>2. CASE Rh(v) = r /\ Rl(v) = NULL
    BY <1>12, <2>2, LeafOnly
  <2>3. CASE Rh(v) = r /\ Rl(v) # NULL
    BY <1>5, <1>6, <1>9, <1>12, <2>3
  <2> QED
    BY <1>5, <1>13, <2>1, <2>2, <2>3
<1>14. ASSUME NEW v \in Terminal, Rh(v) \in Rules, Rh(v) \notin Live'
       PROVE  self_bdd'[v] = IF Rl(v) = NULL THEN mf_in[Rh(v)] ELSE {}
  <2>1. Rh(v) # r /\ Rh(v) \notin Live
    BY <1>5, <1>14
  <2>2. \A h \in m : JoinedAt(r, m, h) => mtbdd[h] # v /\ JoinOf(mtbdd[h], r) # v
    BY <1>4, <1>7, <2>1, JoinNames DEF JoinedAt
  <2>3. self_bdd'[v] = self_bdd[v]
    BY <1>8, <1>12, <1>14, <2>1, <2>2
  <2> QED
    BY <1>6, <1>14, <2>1, <2>3
<1> QED
  BY <1>1, <1>4, <1>13, <1>14 DEF SelfInv

LEMMA SelfStartStep == DriverInv /\ SelfInv /\ StartReadd => SelfInv'
<1> SUFFICES ASSUME DriverInv, SelfInv, StartReadd PROVE SelfInv'
  OBVIOUS
<1>1. phase = "build" /\ r_i = NRules /\ phase' = "remove" /\ UNCHANGED vars
  BY DEF StartReadd
<1>2. Live = Rules
  <2>1. Live = {r \in Rules : r < r_i}
    BY <1>1 DEF DriverInv, BuildInv
  <2> QED
    BY <1>1, <2>1, NRulesAssumption
<1>3. \A v : Region(v)' = Region(v)
  BY <1>1 DEF Region, vars
<1>4. \A v \in Terminal : Rh(v) \in Rules => self_bdd[v] = Region(v)
  BY <1>1, <1>2 DEF SelfInv
<1> QED
  BY <1>1, <1>3, <1>4 DEF SelfInv, vars

LEMMA SelfRemoveStep == DriverInv /\ SelfInv /\ RemoveOne => SelfInv'
<1> SUFFICES ASSUME DriverInv, SelfInv, RemoveOne PROVE SelfInv'
  OBVIOUS
<1>1. /\ phase = "remove" /\ phase' = "insert" /\ r_i \in Rules /\ r_i' = r_i
      /\ RemoveNothing(r_i) \/ Remove(r_i)
      /\ IInv /\ TypeOK /\ TopLive
  BY LoopRule DEF DriverInv, IInv, RemoveOne
<1>2. /\ readd = {} /\ ExactAt(Rules)
      /\ \A v \in Terminal : Rh(v) \in Rules => self_bdd[v] = Region(v)
  BY <1>1 DEF DriverInv, RemoveInv, SelfInv
<1>3. \A v \in Terminal : Region(v) = ExactRegion(v)
  BY <1>1, <1>2, ExactRegions
<1>4. PICK r \in Rules : r = r_i
  BY <1>1
<1>5. mf_in' = mf_in /\ r_i' = r
  BY <1>1, <1>4 DEF RemoveNothing, Remove, vars
<1>6. \A v : ExactRegion(v)' = ExactRegion(v) /\ \A x : VirtualMf(r, x)' = VirtualMf(r, x)
  BY <1>5 DEF ExactRegion, Exact, Matching, VirtualMf
<1>7. CASE RemoveNothing(r)
  <2>1. mf_in[r] = {} /\ readd' = {} /\ mtbdd' = mtbdd /\ self_bdd' = self_bdd
    BY <1>2, <1>7 DEF RemoveNothing, vars
  <2>2. \A v : Region(v)' = Region(v)
    BY <2>1 DEF Region
  <2>3. \A v \in Terminal : Rh(v) = r /\ Rl(v) = NULL => self_bdd[v] = {}
    <3> SUFFICES ASSUME NEW v \in Terminal, Rh(v) = r, NEW h \in Headers, mtbdd[h] = v
                 PROVE  FALSE
      BY <1>2 DEF Region
    <3>1. v # Zero
      BY LeafFacts, NullNotRule
    <3> QED
      BY <1>1, <2>1, <3>1 DEF TopLive
  <2> QED
    BY <1>1, <1>2, <1>3, <1>4, <1>5, <1>6, <2>1, <2>2, <2>3 DEF SelfInv
<1>8. CASE Remove(r)
  <2>1. /\ mtbdd' = [h \in Headers |->
                       IF h \in mf_in[r] THEN RemoveTerminal(mtbdd[h], r) ELSE mtbdd[h]]
        /\ self_bdd' = [v \in Terminal |->
                    IF v = Leaf(r) THEN mf_in[r]
                    ELSE IF \E x \in readd' : v = Leaf(x)
                      THEN self_bdd[v] \union VirtualMf(r, Rh(v))
                      ELSE self_bdd[v]]
    BY <1>8 DEF Remove
  <2>2. \A v \in Terminal : Rh(v) \in Rules \ {r} => Region(v)' = Region(v)
    <3> SUFFICES ASSUME NEW v \in Terminal, Rh(v) \in Rules \ {r}, NEW h \in Headers
                 PROVE  mtbdd'[h] = v <=> mtbdd[h] = v
      BY DEF Region
    <3>1. v # Zero
      BY LeafFacts, NullNotRule
    <3> QED
      BY <2>1, <3>1 DEF RemoveTerminal
  <2>3. \A v \in Terminal : (\E x \in readd' : v = Leaf(x)) <=> Rl(v) = NULL /\ Rh(v) \in readd'
    BY LeafOnly, LeafFacts
  <2>4. ASSUME NEW v \in Terminal, Rh(v) \in Rules \ {r}
        PROVE  self_bdd'[v] = Region(v)' \union
                 (IF Rl(v) = NULL /\ Rh(v) \in readd' THEN VirtualMf(r, Rh(v)) ELSE {})
    <3>1. v # Leaf(r)
      BY <2>4, LeafFacts
    <3> QED
      BY <1>2, <2>1, <2>2, <2>3, <2>4, <3>1
  <2>5. ASSUME NEW v \in Terminal, Rh(v) = r
        PROVE  self_bdd'[v] = IF Rl(v) = NULL THEN mf_in[r] ELSE ExactRegion(v)
    <3>1. Rl(v) = NULL => v = Leaf(r)
      BY <2>5, LeafOnly
    <3>2. Rl(v) # NULL => v # Leaf(r) /\ ~ \E x \in readd' : v = Leaf(x)
      BY LeafFacts
    <3> QED
      BY <1>2, <1>3, <2>1, <2>5, <3>1, <3>2
  <2> QED
    BY <1>1, <1>4, <1>5, <1>6, <2>4, <2>5 DEF SelfInv
<1> QED
  BY <1>1, <1>4, <1>7, <1>8

LEMMA SelfReaddStep == DriverInv /\ SelfInv /\ ReaddHidden => SelfInv'
<1> SUFFICES ASSUME DriverInv, SelfInv, ReaddHidden PROVE SelfInv'
  OBVIOUS
<1>1. /\ phase = "insert" /\ phase' = "insert" /\ r_i' = r_i
      /\ IInv /\ TypeOK /\ TopLive
  BY DEF DriverInv, IInv, ReaddHidden
<1>2. PICK x \in Rules : Readd(x)
  BY DEF ReaddHidden
<1>3. /\ r_i \in Rules
      /\ readd # {} => removed = r_i
      /\ \A z \in readd : r_i < z
      /\ mf_in[r_i] = {} => readd = {}
      /\ mf_in[r_i] # {} => Live = Rules \ {r_i}
  BY <1>1 DEF DriverInv, InsertInv
<1>4. PICK r \in Rules : r = r_i
  BY <1>3
<1>5. PICK m : m = VirtualMf(r, x)
  OBVIOUS
<1>6. /\ x \in readd /\ readd' = readd \ {x} /\ mf_in' = mf_in /\ r_i' = r
      /\ removed = r /\ Live = Rules \ {r} /\ AddRule(x, m) /\ x # r
  BY <1>1, <1>2, <1>3, <1>4, <1>5, NullNotRule DEF Readd, RestOfLoop
<1>7. m \in SUBSET Headers /\ m \subseteq mf_in[removed]
  BY <1>1, <1>5, <1>6 DEF VirtualMf, TypeOK
<1>8. \A v : ExactRegion(v)' = ExactRegion(v) /\ \A y : VirtualMf(r, y)' = VirtualMf(r, y)
  BY <1>6 DEF ExactRegion, Exact, Matching, VirtualMf
<1>9. /\ \A v \in Terminal : Rh(v) \in Rules \ {r} =>
            self_bdd[v] = Region(v) \union
              (IF Rl(v) = NULL /\ Rh(v) \in readd THEN VirtualMf(r, Rh(v)) ELSE {})
      /\ \A v \in Terminal : Rh(v) = r =>
            self_bdd[v] = IF Rl(v) = NULL THEN mf_in[r] ELSE ExactRegion(v)
  BY <1>1, <1>4 DEF SelfInv
<1>10. \A h \in m : mtbdd[h] # Zero =>
         mtbdd[h] \in Terminal /\ Rh(mtbdd[h]) \in Rules \ {r} /\ Rh(mtbdd[h]) \notin readd
  BY <1>1, <1>6, <1>7 DEF TypeOK, TopLive, IInv, ReaddPending
<1>11. Leaf(x) \in Terminal /\ Rh(Leaf(x)) = x /\ Rl(Leaf(x)) = NULL
  BY LeafFacts DEF Leaf, Terminal
<1>12. self_bdd[Leaf(x)] = Region(Leaf(x)) \union m
  BY <1>5, <1>6, <1>9, <1>11
<1>13. \A h \in m : mtbdd[h] \notin {Zero, Leaf(x)} => self_bdd[mtbdd[h]] = Region(mtbdd[h])
  BY <1>9, <1>10
<1>14. /\ self_bdd'[Leaf(x)] = Region(Leaf(x))'
       /\ \A t \in Terminal : Rh(t) \in Rules /\ self_bdd[t] = Region(t) =>
            self_bdd'[t] = Region(t)'
       /\ \A t \in Terminal :
            /\ Rh(t) \in Rules /\ t # Leaf(x)
            /\ \A h \in m : JoinedAt(x, m, h) => mtbdd[h] # t /\ JoinOf(mtbdd[h], x) # t
            => self_bdd'[t] = self_bdd[t] /\ Region(t)' = Region(t)
  BY <1>1, <1>6, <1>7, <1>12, <1>13, AddKeepsRegions
<1>15. ASSUME NEW v \in Terminal, Rh(v) \in Rules \ {r}
       PROVE  self_bdd'[v] = Region(v)' \union
                (IF Rl(v) = NULL /\ Rh(v) \in readd' THEN VirtualMf(r, Rh(v)) ELSE {})
  <2>1. CASE v = Leaf(x)
    BY <1>6, <1>11, <1>14, <2>1
  <2>2. CASE v # Leaf(x) /\ Rl(v) = NULL /\ Rh(v) \in readd
    <3>1. Rh(v) # x
      BY <2>2, LeafOnly
    <3>2. \A h \in m : JoinedAt(x, m, h) => mtbdd[h] # v /\ JoinOf(mtbdd[h], x) # v
      BY <1>10, <2>2, JoinNames DEF JoinedAt
    <3>3. self_bdd'[v] = self_bdd[v] /\ Region(v)' = Region(v)
      BY <1>14, <1>15, <2>2, <3>2
    <3> QED
      BY <1>6, <1>9, <1>15, <2>2, <3>1, <3>3
  <2>3. CASE ~ (Rl(v) = NULL /\ Rh(v) \in readd)
    <3>1. self_bdd[v] = Region(v)
      BY <1>9, <1>15, <2>3
    <3> QED
      BY <1>6, <1>14, <1>15, <2>3, <3>1
  <2> QED
    BY <2>1, <2>2, <2>3
<1>16. ASSUME NEW v \in Terminal, Rh(v) = r
       PROVE  self_bdd'[v] = self_bdd[v]
  <2>1. \A h \in m : JoinedAt(x, m, h) => mtbdd[h] # v /\ JoinOf(mtbdd[h], x) # v
    BY <1>6, <1>10, <1>16, JoinNames DEF JoinedAt
  <2> QED
    BY <1>6, <1>11, <1>14, <1>16, <2>1
<1> QED
  BY <1>1, <1>4, <1>6, <1>8, <1>9, <1>15, <1>16 DEF SelfInv

LEMMA SelfInsertStep == DriverInv /\ DriverInv' /\ SelfInv /\ InsertOne => SelfInv'
<1> SUFFICES ASSUME DriverInv, DriverInv', SelfInv, InsertOne PROVE SelfInv'
  OBVIOUS
<1>1. /\ phase = "insert" /\ phase' = "remove" /\ Insert(r_i)
      /\ IInv /\ TypeOK /\ TopLive
  BY DEF DriverInv, IInv, InsertOne
<1>2. r_i \in Rules /\ (mf_in[r_i] # {} => Live = Rules \ {r_i})
  BY <1>1 DEF DriverInv, InsertInv
<1>3. PICK r \in Rules : r = r_i
  BY <1>2
<1>4. PICK m : m = mf_in[r]
  OBVIOUS
<1>5. m \in SUBSET Headers /\ AddRule(r, m) /\ mf_in' = mf_in /\ readd = {}
  BY <1>1, <1>3, <1>4 DEF TypeOK, Insert
<1>6. /\ \A v \in Terminal : Rh(v) \in Rules \ {r} => self_bdd[v] = Region(v)
      /\ \A v \in Terminal : Rh(v) = r =>
            self_bdd[v] = IF Rl(v) = NULL THEN m ELSE ExactRegion(v)
  BY <1>1, <1>3, <1>4, <1>5 DEF SelfInv
<1>7. \A h \in Headers : mtbdd[h] \in Terminal /\
        (mtbdd[h] # Zero => Rh(mtbdd[h]) \in Rules \ {r})
  BY <1>1, <1>2, <1>3 DEF TypeOK, TopLive, Live
<1>8. Leaf(r) \in Terminal /\ Rh(Leaf(r)) = r /\ Rl(Leaf(r)) = NULL
  BY LeafFacts DEF Leaf, Terminal
<1>9. \A v \in Terminal : Rh(v) = r => Region(v) = {}
  BY <1>7, LeafFacts, NullNotRule DEF Region
<1>10. self_bdd[Leaf(r)] = Region(Leaf(r)) \union m
  BY <1>6, <1>8, <1>9
<1>11. \A h \in m : mtbdd[h] \notin {Zero, Leaf(r)} => self_bdd[mtbdd[h]] = Region(mtbdd[h])
  BY <1>5, <1>6, <1>7
<1>12. /\ self_bdd'[Leaf(r)] = Region(Leaf(r))'
       /\ \A t \in Terminal : Rh(t) \in Rules /\ self_bdd[t] = Region(t) =>
            self_bdd'[t] = Region(t)'
  BY <1>1, <1>5, <1>10, <1>11, AddKeepsRegions
<1>13. \A v \in Terminal : Region(v)' = ExactRegion(v)
  <2>1. TypeOK' /\ ExactAt(Rules)'
    BY <1>1 DEF DriverInv, IInv, RemoveInv
  <2>2. (\A v \in Terminal : Region(v) = ExactRegion(v))'
    BY <2>1, ExactRegions, PTL
  <2>3. \A v \in Terminal : Region(v)' = ExactRegion(v)'
    BY <2>2
  <2>4. \A v : ExactRegion(v)' = ExactRegion(v)
    BY <1>5 DEF ExactRegion, Exact, Matching
  <2> QED
    BY <2>3, <2>4
<1>14. ASSUME NEW v \in Terminal, Rh(v) = r, Rl(v) # NULL
       PROVE  self_bdd'[v] = Region(v)'
  <2>1. v # Leaf(r)
    BY <1>8, <1>14
  <2>2. /\ self_bdd'[v] = {h \in self_bdd[v] : ~ (mtbdd[h] = v /\ JoinedAt(r, m, h))}
                             \union {h \in m : JoinedAt(r, m, h) /\ JoinOf(mtbdd[h], r) = v}
        /\ Region(v)' = {h \in Region(v) : ~ (mtbdd[h] = v /\ JoinedAt(r, m, h))}
                             \union {h \in m : JoinedAt(r, m, h) /\ JoinOf(mtbdd[h], r) = v}
    BY <1>1, <1>5, <1>10, <1>11, <1>14, <2>1, AddSelfExact
  <2>3. \A h \in Headers : mtbdd[h] # v
    BY <1>9, <1>14 DEF Region
  <2>4. self_bdd[v] = Region(v)' /\ self_bdd[v] \subseteq Headers
    BY <1>1, <1>6, <1>13, <1>14 DEF TypeOK
  <2> QED
    BY <2>2, <2>3, <2>4
<1>15. ASSUME NEW v \in Terminal, Rh(v) \in Rules
       PROVE  self_bdd'[v] = Region(v)'
  <2>1. CASE Rh(v) # r
    BY <1>6, <1>12, <1>15, <2>1
  <2>2. CASE Rh(v) = r /\ Rl(v) = NULL
    BY <1>12, <2>2, LeafOnly
  <2>3. CASE Rh(v) = r /\ Rl(v) # NULL
    BY <1>14, <2>3
  <2> QED
    BY <2>1, <2>2, <2>3
<1> QED
  BY <1>1, <1>15 DEF SelfInv

\* The driver keeps the self sets as SelfInv says.
LEMMA SelfNext == DriverInv /\ SelfInv /\ [DNext]_dvars => SelfInv'
<1> SUFFICES ASSUME DriverInv, SelfInv, [DNext]_dvars PROVE SelfInv'
  OBVIOUS
<1>1. DriverInv'
  BY DriverNext
<1>2. CASE UNCHANGED dvars
  BY <1>2 DEF dvars, vars, SelfInv, Live, Region, ExactRegion, Exact, Matching, VirtualMf
<1> QED
  BY <1>1, <1>2, SelfBuildStep, SelfStartStep, SelfRemoveStep, SelfReaddStep,
     SelfInsertStep DEF DNext, Finished

LEMMA InvSelf == DriverInv /\ SelfInv => SelfExact
<1> SUFFICES ASSUME DriverInv, SelfInv, AtRest, NEW v \in Terminal, Rh(v) \in Live
             PROVE  self_bdd[v] = Region(v)
  BY DEF SelfExact
<1>1. phase = "build" \/ phase = "remove"
  BY DEF DriverInv, AtRest
<1>2. Rh(v) \in Rules
  BY DEF Live
<1> QED
  BY <1>1, <1>2 DEF SelfInv

\* self_bdd, updated incrementally and never recomputed, is the region of its
\* terminal after the whole build and after every remove-and-insert cycle, in
\* whichever order the compiler evaluates the recursive calls.
THEOREM SelfIsExact == DSpec => []SelfExact
<1>1. DInit => DriverInv /\ SelfInv
  BY DriverInit, SelfInit
<1>2. DriverInv /\ SelfInv /\ [DNext]_dvars => (DriverInv /\ SelfInv)'
  BY DriverNext, SelfNext
<1> QED
  BY <1>1, <1>2, InvSelf, PTL DEF DSpec
=============================================================================
