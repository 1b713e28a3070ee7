----------------------- MODULE PortMtbddDriver_proofs -----------------------
(***************************************************************************)
(* Proofs about PortMtbddDriver, for every set of headers, every set of    *)
(* ports and every list of rules: first about the tables, of which none    *)
(* depends on the sets beside them, then about those sets and the delta    *)
(* of R.                                                                   *)
(***************************************************************************)
EXTENDS PortMtbddDriver, WellFoundedInduction, TLAPS

\* Rule r belongs in table p.
AtTable(r, p) == IF p = 0 THEN OnAllPorts(r) ELSE p \in lks_in[r]

\* The types of what the tables depend on.
TablesTyped ==
  /\ mf_in \in [Rules -> MatchSets]
  /\ lks_in \in [Rules -> PortSets]
  /\ type \in [Rules -> {"new", "BS", "RM"}]
  /\ in_mtbdd_r \in [Tables -> [Headers -> Rules \union {NULL}]]
  /\ covering \in [Rules -> SUBSET Rules]
  /\ readd \subseteq Live
  /\ phase \in {"build", "remove", "insert"}
  /\ r_i \in Nat
  /\ readd # {} => removed = r_i /\ phase = "insert"
  /\ removed \in Rules \union {NULL}

\* A table only holds live rules that match and that belong there.
TopsLive ==
  \A p \in Tables : \A h \in Headers :
    in_mtbdd_r[p][h] # NULL =>
      /\ in_mtbdd_r[p][h] \in Live
      /\ h \in mf_in[in_mtbdd_r[p][h]]
      /\ AtTable(in_mtbdd_r[p][h], p)

\* Rule w keeps y out of sight for good, or has recorded it: the loop of the
\* driver does not remove w again once it is past it.
Hides(w, y) == w < y /\ (y \in covering[w] \/ (phase # "build" /\ w < r_i))

\* Rule y is accounted for at header h of table p: it decides h, it waits to be
\* put back there, or a higher rule hides it there.
Covered(y, p, h) ==
  \/ Base(p)[h] = y
  \/ y \in readd /\ h \in mf_in[removed] /\ AtTable(removed, p)
  \/ \E w \in Live : Hides(w, y) /\ h \in mf_in[w] /\ AtTable(w, p)

\* No live rule is lost from any table.
AllCovered ==
  \A y \in Live : \A p \in Tables : \A h \in mf_in[y] : AtTable(y, p) => Covered(y, p, h)

\* covering leads downwards and only to rules that were inserted.
CoveringSound ==
  \A a \in Rules : \A b \in covering[a] : a < b /\ type[b] # "new"

\* The cache only answers for a rule that is not in the tables.
SeenDead == \A v \in seen : v[2] \notin Live /\ phase = "insert"

\* Which rules the loops have inserted.
LoopState ==
  /\ phase = "build" => Live = {r \in Rules : r < r_i} /\ removed = NULL
  /\ phase = "remove" => Live = Rules
  /\ phase = "insert" => r_i \in Rules /\ Live = Rules \ {r_i}

IInv == TablesTyped /\ TopsLive /\ AllCovered /\ CoveringSound /\ SeenDead /\ LoopState

-----------------------------------------------------------------------------
(* Tables.                                                                 *)

\* Rules are numbers, and table 0 is not a port's.
LEMMA RuleFacts ==
  /\ Rules \subseteq Nat /\ NULL \notin Rules
  /\ 0 \in Tables /\ 0 \notin Ports /\ Tables = {0} \union Ports
  /\ \A r \in Rules : r < NRules
  /\ NRules \in Nat
BY RulesAssumption, PortsAssumption, NRulesAssumption DEF Tables

\* A table as it is read holds what a table can hold.
LEMMA BaseType ==
  ASSUME TablesTyped, NEW p \in Tables, NEW h \in Headers
  PROVE  Base(p)[h] \in Rules \union {NULL}
BY RuleFacts DEF TablesTyped, Base

\* The rules that a port reads belong to the port, also where it reads the
\* table of every port.
LEMMA BaseLive ==
  ASSUME TablesTyped, TopsLive, NEW p \in Tables, NEW h \in Headers, Base(p)[h] # NULL
  PROVE  /\ Base(p)[h] \in Live
         /\ h \in mf_in[Base(p)[h]]
         /\ AtTable(Base(p)[h], p)
<1>1. CASE ~Copied(p)
  BY <1>1 DEF Base, TopsLive
<1>2. CASE Copied(p)
  <2>1. Base(p) = in_mtbdd_r[0] /\ p # 0 /\ p \in Ports
    BY <1>2 DEF Base, Copied, Tables
  <2>2. /\ in_mtbdd_r[0][h] \in Live
        /\ h \in mf_in[in_mtbdd_r[0][h]]
        /\ AtTable(in_mtbdd_r[0][h], 0)
    BY <2>1, RuleFacts DEF TopsLive
  <2> QED
    BY <2>1, <2>2 DEF AtTable, OnAllPorts
<1> QED
  BY <1>1, <1>2

\* The table in which the insertion of r does what port p sees of it.
Via(r, p) == IF p \in Targets(r) THEN p ELSE 0

LEMMA ViaFacts ==
  ASSUME TablesTyped, NEW r \in Rules, NEW p \in Tables, AtTable(r, p)
  PROVE  Via(r, p) \in Targets(r) /\ Base(Via(r, p)) = Base(p)
<1>0. lks_in[r] \subseteq Ports /\ 0 \notin Ports /\ 0 \in Tables
  BY RuleFacts, PortsAssumption DEF TablesTyped
<1>1. CASE OnAllPorts(r)
  BY <1>0, <1>1 DEF Via, Targets, Copied, Base
<1>2. CASE ~OnAllPorts(r)
  BY <1>0, <1>2 DEF Via, Targets, AtTable
<1> QED
  BY <1>1, <1>2

\* What the tables show after r is added in the headers m.
LEMMA AddBase ==
  ASSUME TablesTyped, NEW r \in Rules, NEW m \in SUBSET Headers,
         in_mtbdd_r' = AddTop(r, m), lks_in' = lks_in
  PROVE  /\ in_mtbdd_r' \in [Tables -> [Headers -> Rules \union {NULL}]]
         /\ \A p \in Tables : \A h \in Headers :
              Base(p)'[h] = IF AtTable(r, p) /\ h \in m THEN Top(Base(p)[h], r) ELSE Base(p)[h]
<1>0. lks_in[r] \subseteq Ports /\ 0 \notin Ports /\ 0 \in Tables
  BY RuleFacts, PortsAssumption DEF TablesTyped
<1>1. in_mtbdd_r' \in [Tables -> [Headers -> Rules \union {NULL}]]
  <2>1. ASSUME NEW p \in Tables
        PROVE  [h \in Headers |-> IF h \in m THEN Top(Base(p)[h], r) ELSE Base(p)[h]]
                 \in [Headers -> Rules \union {NULL}]
    BY BaseType DEF Top
  <2>2. \A p \in Tables : in_mtbdd_r[p] \in [Headers -> Rules \union {NULL}]
    BY DEF TablesTyped
  <2> QED
    BY <2>1, <2>2 DEF AddTop
<1>2. ASSUME NEW p \in Tables
      PROVE  /\ p \in Targets(r) => \A h \in Headers :
                  in_mtbdd_r'[p][h] = IF h \in m THEN Top(Base(p)[h], r) ELSE Base(p)[h]
             /\ p \notin Targets(r) => in_mtbdd_r'[p] = in_mtbdd_r[p]
  BY DEF AddTop
<1>3. ASSUME NEW p \in Tables, NEW h \in Headers
      PROVE  Base(p)'[h] = IF AtTable(r, p) /\ h \in m THEN Top(Base(p)[h], r) ELSE Base(p)[h]
  <2>0. /\ Base(p)' = IF p # 0 /\ in_mtbdd_r'[p] = Empty THEN in_mtbdd_r'[0] ELSE in_mtbdd_r'[p]
        /\ Base(p) = IF p # 0 /\ in_mtbdd_r[p] = Empty THEN in_mtbdd_r[0] ELSE in_mtbdd_r[p]
    BY DEF Base, Copied, Empty
  <2>e. \A k \in Headers : Empty[k] = NULL
    BY DEF Empty
  <2>f. ASSUME NEW f \in [Headers -> Rules \union {NULL}], f # Empty
        PROVE  \E k \in Headers : f[k] # NULL
    BY <2>f DEF Empty
  <2>t. \A a : a # NULL => Top(a, r) # NULL
    BY RuleFacts DEF Top
  <2>1. CASE p = 0
    <3>1. 0 \in Targets(r) <=> OnAllPorts(r)
      BY <1>0 DEF Targets, Copied
    <3> QED
      BY <1>2, <2>0, <2>1, <3>1 DEF AtTable
  <2>2. CASE p # 0 /\ p \notin Targets(r) /\ ~AtTable(r, p)
    <3>1. ~OnAllPorts(r) /\ 0 \notin Targets(r)
      BY <1>0, <2>2, RuleFacts DEF AtTable, OnAllPorts, Targets
    <3> QED
      BY <1>0, <1>2, <2>0, <2>2, <3>1
  <2>3. CASE p # 0 /\ p \notin Targets(r) /\ AtTable(r, p)
    <3>1. OnAllPorts(r) /\ Copied(p) /\ 0 \in Targets(r)
      BY <1>0, <2>3 DEF AtTable, Targets, Copied
    <3>2. in_mtbdd_r'[p] = Empty /\ Base(p) = in_mtbdd_r[0] /\ Base(0) = in_mtbdd_r[0]
      BY <1>2, <2>3, <3>1 DEF Copied, Base
    <3> QED
      BY <1>0, <1>2, <2>0, <2>3, <3>1, <3>2
  <2>4. CASE p # 0 /\ p \in Targets(r) /\ in_mtbdd_r'[p] # Empty
    <3>1. AtTable(r, p)
      BY <2>4, RuleFacts DEF AtTable, Targets, OnAllPorts
    <3> QED
      BY <1>2, <2>0, <2>4, <3>1
  <2>5. CASE p # 0 /\ p \in Targets(r) /\ in_mtbdd_r'[p] = Empty
    <3>1. AtTable(r, p)
      BY <2>5, RuleFacts DEF AtTable, Targets, OnAllPorts
    <3>2. \A k \in Headers : Base(p)[k] = NULL
      BY <1>2, <2>5, <2>e, <2>t
    <3>3. Copied(p) /\ Base(p) = in_mtbdd_r[0]
      BY <2>0, <2>5, <2>f, <3>2 DEF TablesTyped, Copied
    <3>4. 0 \notin Targets(r)
      BY <1>0, <2>5, <3>3 DEF Targets
    <3>5. in_mtbdd_r'[0] = in_mtbdd_r[0]
      BY <1>0, <1>2, <3>4
    <3>6. h \notin m
      BY <1>2, <2>5, <2>e, RuleFacts DEF Top
    <3> QED
      BY <2>0, <2>5, <3>3, <3>5, <3>6
  <2> QED
    BY <2>1, <2>2, <2>3, <2>4, <2>5
<1> QED
  BY <1>1, <1>3

-----------------------------------------------------------------------------
(* covering.                                                               *)

\* An insertion records what it meets, unless the cache answers.
LEMMA AddCover ==
  ASSUME TablesTyped, TopsLive, NEW r \in Rules, NEW m \in SUBSET Headers,
         NEW hits \in SUBSET seen, covering' = AddCovering(r, m, hits)
  PROVE  /\ covering' \in [Rules -> SUBSET Rules]
         /\ \A a \in Rules : covering[a] \subseteq covering'[a]
         /\ \A a \in Rules : \A b \in covering'[a] \ covering[a] :
              a < b /\ {a, b} \subseteq Live \union {r}
         /\ \A p \in Tables : \A h \in m :
              LET a == Base(p)[h]
              IN  AtTable(r, p) /\ a # NULL /\ a # r /\ <<a, r>> \notin hits
                    => /\ a < r => r \in covering'[a]
                       /\ a > r => a \in covering'[r]
<1>0. r \in Nat /\ Rules \subseteq Nat
  BY RuleFacts
<1>1. covering' \in [Rules -> SUBSET Rules] /\ \A a \in Rules : covering[a] \subseteq covering'[a]
  BY DEF AddCovering, TablesTyped
<1>2. ASSUME NEW p \in Targets(r), NEW x \in Met(r, m, p, hits)
      PROVE  x \in Live /\ x \in Rules /\ x # r
  <2>1. p \in Tables
    BY PortsAssumption DEF Targets, TablesTyped, Tables
  <2>2. PICK h \in m : x = Base(p)[h]
    BY DEF Met
  <2> QED
    BY <2>1, <2>2, BaseLive DEF Met, Live
<1>3. ASSUME NEW a \in Rules, NEW b \in covering'[a], b \notin covering[a]
      PROVE  a < b /\ {a, b} \subseteq Live \union {r}
  <2>1. PICK p \in Targets(r) : \E x \in Met(r, m, p, hits) :
          \/ a = r /\ b = x /\ x > r
          \/ a = x /\ b = r /\ x <= r
    BY <1>3 DEF AddCovering
  <2>2. PICK x \in Met(r, m, p, hits) :
          \/ a = r /\ b = x /\ x > r
          \/ a = x /\ b = r /\ x <= r
    BY <2>1
  <2> QED
    BY <1>0, <1>2, <2>2
<1>4. ASSUME NEW p \in Tables, NEW h \in m, AtTable(r, p),
             Base(p)[h] # NULL, Base(p)[h] # r, <<Base(p)[h], r>> \notin hits
      PROVE  /\ Base(p)[h] < r => r \in covering'[Base(p)[h]]
             /\ Base(p)[h] > r => Base(p)[h] \in covering'[r]
  <2> DEFINE a == Base(p)[h]
             q == Via(r, p)
  <2>1. q \in Targets(r) /\ Base(q)[h] = a
    BY <1>4, ViaFacts
  <2>2. a \in Rules
    BY <1>4, BaseType
  <2>3. a \in Met(r, m, q, hits)
    BY <1>4, <2>1 DEF Met
  <2> HIDE DEF a, q
  <2>4. a <= r \/ a > r
    BY <1>0, <2>2
  <2>5. a <= r => r \in covering'[a]
    BY <2>1, <2>2, <2>3 DEF AddCovering
  <2>6. a > r => a \in covering'[r]
    BY <2>1, <2>2, <2>3 DEF AddCovering
  <2>7. (a < r => r \in covering'[a]) /\ (a > r => a \in covering'[r])
    BY <1>0, <2>2, <2>5, <2>6
  <2> QED
    BY <2>7 DEF a
<1> QED
  BY <1>1, <1>3, <1>4

\* What an insertion does to the tables, to covering and to the cache.
LEMMA AddRuleFacts ==
  ASSUME NEW r, NEW m, NEW reset, AddRule(r, m, reset)
  PROVE  /\ in_mtbdd_r' = AddTop(r, m) /\ seen' = {}
         /\ \E hits \in SUBSET seen : covering' = AddCovering(r, m, hits)
BY DEF AddRule

\* The tables still hold live rules that belong there when r is live after it
\* was added in headers that it matches.
LEMMA AddTopsLive ==
  ASSUME TablesTyped, TopsLive, NEW r \in Rules, NEW m \in SUBSET Headers,
         in_mtbdd_r' = AddTop(r, m), UNCHANGED parsed, m \subseteq mf_in[r],
         r \in Live', Live \subseteq Live'
  PROVE  TopsLive'
<1>0. mf_in' = mf_in /\ lks_in' = lks_in
  BY DEF parsed
<1> SUFFICES ASSUME NEW p \in Tables, NEW h \in Headers, in_mtbdd_r'[p][h] # NULL
             PROVE  /\ in_mtbdd_r'[p][h] \in Live'
                    /\ h \in mf_in[in_mtbdd_r'[p][h]]
                    /\ AtTable(in_mtbdd_r'[p][h], p)
  BY <1>0 DEF TopsLive, AtTable, OnAllPorts
<1>1. CASE p \notin Targets(r)
  BY <1>1 DEF AddTop, TopsLive
<1>2. CASE p \in Targets(r)
  <2>1. AtTable(r, p)
    BY <1>2, RuleFacts, PortsAssumption DEF Targets, AtTable, OnAllPorts, TablesTyped
  <2>2. in_mtbdd_r'[p][h] = IF h \in m THEN Top(Base(p)[h], r) ELSE Base(p)[h]
    BY <1>2 DEF AddTop
  <2> QED
    BY <2>1, <2>2, BaseLive DEF Top
<1> QED
  BY <1>1, <1>2

-----------------------------------------------------------------------------
(* The steps.                                                              *)

\* The match sets are sets of headers.
LEMMA MfType == ASSUME TablesTyped, NEW r \in Rules PROVE mf_in[r] \in SUBSET Headers
BY MatchSetsAssumption DEF TablesTyped

\* A rule that decides a header or is hidden there stays accounted for when r
\* is added, if the rules that r takes the place of are hidden by r.
LEMMA KeepsCovered ==
  ASSUME TablesTyped, TopsLive, NEW r \in Rules, NEW m \in SUBSET Headers,
         in_mtbdd_r' = AddTop(r, m), UNCHANGED parsed, m \subseteq mf_in[r],
         r \in Live', Live \subseteq Live',
         \A w, z \in Rules : Hides(w, z) => Hides(w, z)',
         \A z \in Rules : \A q \in Tables : \A k \in m :
           AtTable(r, q) /\ Base(q)[k] = z /\ z > r => Hides(r, z)',
         NEW y \in Live, NEW p \in Tables, NEW h \in mf_in[y],
         \/ Base(p)[h] = y
         \/ \E w \in Live : Hides(w, y) /\ h \in mf_in[w] /\ AtTable(w, p)
  PROVE  Covered(y, p, h)'
<1>0. /\ mf_in' = mf_in /\ lks_in' = lks_in /\ y \in Rules /\ h \in Headers
      /\ Rules \subseteq Nat /\ Live \subseteq Rules
  BY MfType, RuleFacts DEF parsed, Live
<1>a. \A w : AtTable(w, p)' <=> AtTable(w, p)
  BY <1>0 DEF AtTable, OnAllPorts
<1>1. CASE \E w \in Live : Hides(w, y) /\ h \in mf_in[w] /\ AtTable(w, p)
  <2>1. PICK w \in Live : Hides(w, y) /\ h \in mf_in[w] /\ AtTable(w, p)
    BY <1>1
  <2>2. w \in Live' /\ Hides(w, y)' /\ h \in mf_in'[w] /\ AtTable(w, p)'
    BY <1>0, <1>a, <2>1
  <2> QED
    BY <2>2 DEF Covered
<1>2. CASE Base(p)[h] = y
  <2>1. Base(p)'[h] = IF AtTable(r, p) /\ h \in m THEN Top(y, r) ELSE y
    BY <1>0, <1>2, AddBase
  <2>2. CASE Base(p)'[h] = y
    BY <2>2 DEF Covered
  <2>3. CASE Base(p)'[h] # y
    <3>1. AtTable(r, p) /\ h \in m /\ y > r
      BY <1>0, <2>1, <2>3, RuleFacts DEF Top
    <3>2. Hides(r, y)' /\ h \in mf_in'[r] /\ AtTable(r, p)'
      BY <1>0, <1>2, <1>a, <3>1
    <3> QED
      BY <3>2 DEF Covered
  <2> QED
    BY <2>2, <2>3
<1> QED
  BY <1>1, <1>2

\* A rule is added where it was missing: by the build, or at the end of an
\* iteration of the second loop.
LEMMA InsertKeeps ==
  ASSUME IInv, NEW r \in Rules, r = r_i, r \notin Live, Insert(r), r_i' = r_i + 1,
         \/ phase = "build" /\ phase' = "build"
         \/ phase = "insert" /\ phase' = "remove"
  PROVE  IInv'
<1>0. /\ TablesTyped /\ TopsLive /\ AllCovered /\ CoveringSound /\ SeenDead /\ LoopState
      /\ readd = {} /\ readd' = {} /\ removed' = removed /\ UNCHANGED parsed
      /\ mf_in' = mf_in /\ lks_in' = lks_in
      /\ type' = [type EXCEPT ![r] = "BS"]
      /\ AddRule(r, mf_in[r], TRUE)
      /\ Rules \subseteq Nat /\ r \in Nat /\ r_i' = r + 1
  BY RuleFacts DEF IInv, Insert, parsed
<1>1. /\ in_mtbdd_r' = AddTop(r, mf_in[r]) /\ seen' = {}
      /\ \E hits \in SUBSET seen : covering' = AddCovering(r, mf_in[r], hits)
  BY <1>0, AddRuleFacts
<1>2. PICK hits \in SUBSET seen : covering' = AddCovering(r, mf_in[r], hits)
  BY <1>1
<1>3. /\ Live' = Live \union {r} /\ Live \subseteq Rules
      /\ \A x \in Rules : type'[x] = IF x = r THEN "BS" ELSE type[x]
      /\ type' \in [Rules -> {"new", "BS", "RM"}]
  BY <1>0 DEF Live, TablesTyped
<1>4. mf_in[r] \in SUBSET Headers
  BY <1>0, MfType
<1>5. /\ covering' \in [Rules -> SUBSET Rules]
      /\ \A a \in Rules : covering[a] \subseteq covering'[a]
      /\ \A a \in Rules : \A b \in covering'[a] \ covering[a] :
           a < b /\ {a, b} \subseteq Live \union {r}
      /\ \A p \in Tables : \A h \in mf_in[r] :
           AtTable(r, p) /\ Base(p)[h] # NULL /\ Base(p)[h] # r /\ <<Base(p)[h], r>> \notin hits
             => /\ Base(p)[h] < r => r \in covering'[Base(p)[h]]
                /\ Base(p)[h] > r => Base(p)[h] \in covering'[r]
  BY <1>0, <1>2, <1>4, AddCover
<1>6. TablesTyped'
  BY <1>0, <1>1, <1>3, <1>4, <1>5, AddBase DEF TablesTyped
<1>7. TopsLive'
  BY <1>0, <1>1, <1>3, <1>4, AddTopsLive
<1>8. CoveringSound'
  BY <1>0, <1>3, <1>5 DEF CoveringSound, Live
<1>9. SeenDead'
  BY <1>1 DEF SeenDead
<1>10. LoopState'
  <2>1. CASE phase = "build"
    <3>1. Live' = {x \in Rules : x < r + 1}
      <4>1. Live = {x \in Rules : x < r}
        BY <1>0, <2>1 DEF LoopState
      <4>2. \A x \in Rules : x < r + 1 <=> x < r \/ x = r
        BY <1>0
      <4> QED
        BY <1>3, <4>1, <4>2
    <3> QED
      BY <1>0, <2>1, <3>1 DEF LoopState
  <2>2. CASE phase = "insert"
    BY <1>0, <1>3, <2>2 DEF LoopState
  <2> QED
    BY <2>1, <2>2
<1>11. \A w, z \in Rules : Hides(w, z) => Hides(w, z)'
  BY <1>0, <1>5 DEF Hides
<1>12. ASSUME NEW a \in Rules, NEW b \in Rules, a < b, r \in {a, b}, a <= r, b \in covering'[a] \/ phase # "build"
       PROVE  Hides(a, b)'
  BY <1>0, <1>12 DEF Hides
<1>13. ASSUME phase = "build" PROVE hits = {}
  BY <1>0, <1>13 DEF SeenDead
<1>14. \A z \in Rules : \A q \in Tables : \A k \in mf_in[r] :
         AtTable(r, q) /\ Base(q)[k] = z /\ z > r => Hides(r, z)'
  <2> SUFFICES ASSUME NEW z \in Rules, NEW q \in Tables, NEW k \in mf_in[r],
                      AtTable(r, q), Base(q)[k] = z, z > r
               PROVE  Hides(r, z)'
    OBVIOUS
  <2>0. z # NULL /\ z # r
    BY <1>0, RuleFacts
  <2>1. ASSUME phase = "build" PROVE z \in covering'[r]
    <3>1. <<Base(q)[k], r>> \notin hits
      BY <1>13, <2>1
    <3> QED
      BY <1>5, <2>0, <3>1
  <2> QED
    BY <1>0, <1>12, <2>1
<1>15. AllCovered'
  <2> SUFFICES ASSUME NEW y \in Live \union {r}, NEW p \in Tables, NEW h \in mf_in[y], AtTable(y, p)
               PROVE  Covered(y, p, h)'
    BY <1>0, <1>3 DEF AllCovered, AtTable, OnAllPorts
  <2>1. CASE y \in Live
    <3>1. \/ Base(p)[h] = y
          \/ \E w \in Live : Hides(w, y) /\ h \in mf_in[w] /\ AtTable(w, p)
      BY <1>0, <2>1 DEF AllCovered, Covered
    <3> QED
      BY <1>0, <1>1, <1>3, <1>4, <1>11, <1>14, <2>1, <3>1, KeepsCovered
  <2>2. CASE y = r
    <3>0. PICK a : a = Base(p)[h]
      OBVIOUS
    <3>1. Base(p)'[h] = Top(a, r)
      BY <1>0, <1>1, <1>4, <2>2, <3>0, AddBase
    <3>2. CASE Base(p)'[h] = r
      BY <2>2, <3>2 DEF Covered
    <3>3. CASE Base(p)'[h] # r
      <4>1. a # NULL /\ a < r
        BY <3>1, <3>3 DEF Top
      <4>2. a \in Live /\ h \in mf_in[a] /\ AtTable(a, p) /\ a \in Rules
        BY <1>0, <1>3, <1>4, <2>2, <3>0, <4>1, BaseLive
      <4>3. phase = "build" => r \in covering'[a]
        BY <1>0, <1>5, <1>13, <2>2, <3>0, <4>1, <4>2
      <4>4. Hides(a, r)'
        BY <1>0, <1>12, <4>1, <4>2, <4>3
      <4>5. a \in Live' /\ h \in mf_in'[a] /\ AtTable(a, p)'
        BY <1>0, <1>3, <4>2 DEF AtTable, OnAllPorts
      <4> QED
        BY <2>2, <4>4, <4>5 DEF Covered
    <3> QED
      BY <3>2, <3>3
  <2> QED
    BY <2>1, <2>2
<1> QED
  BY <1>6, <1>7, <1>8, <1>9, <1>10, <1>15 DEF IInv

\* A hidden rule is put back.
LEMMA ReaddKeeps ==
  ASSUME IInv, NEW x \in Rules, Readd(x), phase = "insert", UNCHANGED <<phase, r_i>>
  PROVE  IInv'
<1>0. /\ TablesTyped /\ TopsLive /\ AllCovered /\ CoveringSound /\ SeenDead /\ LoopState
      /\ x \in readd /\ readd' = readd \ {x} /\ UNCHANGED parsed
      /\ mf_in' = mf_in /\ lks_in' = lks_in /\ type' = type
      /\ removed' = IF readd' = {} THEN NULL ELSE removed
      /\ AddRule(x, mf_in[removed] \intersect mf_in[x], FALSE)
      /\ Rules \subseteq Nat /\ x \in Nat /\ phase' = phase /\ r_i' = r_i
  BY RuleFacts DEF IInv, Readd, RestOfLoop, parsed
<1>r. PICK r \in Rules : r = r_i /\ r = removed
  BY <1>0 DEF TablesTyped, LoopState
<1> DEFINE m == mf_in[r] \intersect mf_in[x]
<1>1. /\ in_mtbdd_r' = AddTop(x, m) /\ seen' = {}
      /\ \E hits \in SUBSET seen : covering' = AddCovering(x, m, hits)
  BY <1>0, <1>r, AddRuleFacts
<1>2. PICK hits \in SUBSET seen : covering' = AddCovering(x, m, hits)
  BY <1>1
<1>3. Live' = Live /\ Live \subseteq Rules /\ x \in Live
  BY <1>0 DEF Live, TablesTyped
<1>4. m \in SUBSET Headers /\ m \subseteq mf_in[x]
  BY <1>0, MfType
<1>5. \A v \in hits : v[2] # x
  BY <1>0, <1>3 DEF SeenDead
<1> HIDE DEF m
<1>6. /\ covering' \in [Rules -> SUBSET Rules]
      /\ \A a \in Rules : covering[a] \subseteq covering'[a]
      /\ \A a \in Rules : \A b \in covering'[a] \ covering[a] :
           a < b /\ {a, b} \subseteq Live \union {x}
  BY <1>0, <1>2, <1>4, AddCover
<1>7. ASSUME NEW p \in Tables, NEW h \in m, AtTable(x, p), Base(p)[h] # NULL, Base(p)[h] # x
      PROVE  /\ Base(p)[h] < x => x \in covering'[Base(p)[h]]
             /\ Base(p)[h] > x => Base(p)[h] \in covering'[x]
  <2>1. <<Base(p)[h], x>> \notin hits
    BY <1>5
  <2> QED
    BY <1>0, <1>2, <1>4, <1>7, <2>1, AddCover
<1>8. TablesTyped'
  BY <1>0, <1>1, <1>3, <1>4, <1>6, AddBase DEF TablesTyped
<1>9. TopsLive'
  BY <1>0, <1>1, <1>3, <1>4, AddTopsLive
<1>10. CoveringSound'
  BY <1>0, <1>3, <1>6 DEF CoveringSound, Live
<1>11. SeenDead'
  BY <1>1 DEF SeenDead
<1>12. LoopState'
  BY <1>0, <1>3 DEF LoopState
<1>13. \A w, z \in Rules : Hides(w, z) => Hides(w, z)'
  BY <1>0, <1>6 DEF Hides
<1>14. \A z \in Rules : \A q \in Tables : \A k \in m :
         AtTable(x, q) /\ Base(q)[k] = z /\ z > x => Hides(x, z)'
  <2> SUFFICES ASSUME NEW z \in Rules, NEW q \in Tables, NEW k \in m,
                      AtTable(x, q), Base(q)[k] = z, z > x
               PROVE  Hides(x, z)'
    OBVIOUS
  <2>1. z # NULL /\ z # x
    BY <1>0, RuleFacts
  <2>2. z \in covering'[x]
    BY <1>7, <2>1
  <2> QED
    BY <1>0, <2>2 DEF Hides
<1>15. AllCovered'
  <2> SUFFICES ASSUME NEW y \in Live, NEW p \in Tables, NEW h \in mf_in[y], AtTable(y, p)
               PROVE  Covered(y, p, h)'
    BY <1>0, <1>3 DEF AllCovered, AtTable, OnAllPorts
  <2>1. CASE \/ Base(p)[h] = y
             \/ \E w \in Live : Hides(w, y) /\ h \in mf_in[w] /\ AtTable(w, p)
    BY <1>0, <1>1, <1>3, <1>4, <1>13, <1>14, <2>1, KeepsCovered
  <2>2. CASE y \in readd /\ y # x /\ h \in mf_in[removed] /\ AtTable(removed, p)
    <3>1. y \in readd' /\ removed' = r
      BY <1>0, <1>r, <2>2
    <3>2. h \in mf_in'[r] /\ AtTable(r, p)'
      BY <1>0, <1>r, <2>2 DEF AtTable, OnAllPorts
    <3> QED
      BY <3>1, <3>2 DEF Covered, AtTable, OnAllPorts
  <2>3. CASE y = x /\ h \in mf_in[removed]
    <3>0. PICK a : a = Base(p)[h]
      OBVIOUS
    <3>1. h \in m /\ h \in Headers
      BY <1>4, <1>r, <2>3 DEF m
    <3>2. Base(p)'[h] = Top(a, x)
      BY <1>0, <1>1, <1>4, <2>3, <3>0, <3>1, AddBase
    <3>3. CASE Base(p)'[h] = x
      BY <2>3, <3>3 DEF Covered
    <3>4. CASE Base(p)'[h] # x
      <4>1. a # NULL /\ a < x
        BY <3>2, <3>4 DEF Top
      <4>2. a \in Live /\ h \in mf_in[a] /\ AtTable(a, p) /\ a \in Rules
        BY <1>0, <1>3, <3>0, <3>1, <4>1, BaseLive
      <4>3. a # x
        BY <1>0, <4>1, <4>2
      <4>4. x \in covering'[a]
        BY <1>7, <2>3, <3>0, <3>1, <4>1, <4>3
      <4>5. a \in Live' /\ h \in mf_in'[a] /\ AtTable(a, p)' /\ Hides(a, x)'
        BY <1>0, <1>3, <4>1, <4>2, <4>4 DEF AtTable, OnAllPorts, Hides
      <4> QED
        BY <2>3, <4>5 DEF Covered
    <3> QED
      BY <3>3, <3>4
  <2>4. Covered(y, p, h)
    BY <1>0 DEF AllCovered
  <2> QED
    BY <2>1, <2>2, <2>3, <2>4 DEF Covered
<1> QED
  BY <1>8, <1>9, <1>10, <1>11, <1>12, <1>15 DEF IInv

\* A rule is taken out: what it alone kept out of sight waits to be put back.
LEMMA RemoveKeeps ==
  ASSUME IInv, NEW r \in Rules, r = r_i, Remove(r), phase = "remove",
         phase' = "insert", r_i' = r_i
  PROVE  IInv'
<1>0. /\ TablesTyped /\ TopsLive /\ AllCovered /\ CoveringSound /\ SeenDead /\ LoopState
      /\ readd = {} /\ readd' = ReaddRules(r) /\ UNCHANGED parsed /\ type[r] = "BS"
      /\ mf_in' = mf_in /\ lks_in' = lks_in /\ type' = [type EXCEPT ![r] = "RM"]
      /\ removed' = IF readd' = {} THEN NULL ELSE r
      /\ Rules \subseteq Nat /\ r \in Nat /\ r_i' = r
  BY RuleFacts DEF IInv, Remove, parsed
<1>1. /\ Live' = Live \ {r} /\ Live \subseteq Rules
      /\ type' \in [Rules -> {"new", "BS", "RM"}]
      /\ \A x \in Rules : type'[x] = IF x = r THEN "RM" ELSE type[x]
  BY <1>0 DEF Live, TablesTyped
<1>2. /\ covering' \in [Rules -> SUBSET Rules]
      /\ \A a \in Rules : covering'[a] \subseteq covering[a]
      /\ \A a \in Rules : covering[a] \ {r} \subseteq covering'[a]
  BY <1>0 DEF Remove, TablesTyped
<1>3. ASSUME NEW p \in Tables, NEW h \in Headers
      PROVE  in_mtbdd_r'[p][h] = IF in_mtbdd_r[p][h] = r THEN NULL ELSE in_mtbdd_r[p][h]
  <2>1. in_mtbdd_r'[p][h] = IF p \in RemoveTables(r) /\ h \in mf_in[r] /\ in_mtbdd_r[p][h] = r
                            THEN NULL ELSE in_mtbdd_r[p][h]
    BY DEF Remove
  <2>2. in_mtbdd_r[p][h] = r => p \in RemoveTables(r) /\ h \in mf_in[r]
    <3> SUFFICES ASSUME in_mtbdd_r[p][h] = r PROVE p \in RemoveTables(r) /\ h \in mf_in[r]
      OBVIOUS
    <3>1. h \in mf_in[r] /\ AtTable(r, p)
      BY <1>0, RuleFacts DEF TopsLive
    <3>2. in_mtbdd_r[p] # Empty
      BY RuleFacts DEF Empty
    <3> QED
      BY <3>1, <3>2 DEF RemoveTables, AtTable
  <2> QED
    BY <2>1, <2>2
<1>4. in_mtbdd_r' \in [Tables -> [Headers -> Rules \union {NULL}]]
  <2>1. \A p \in Tables : in_mtbdd_r[p] \in [Headers -> Rules \union {NULL}]
    BY <1>0 DEF TablesTyped
  <2> QED
    BY <2>1 DEF Remove
<1>5. ASSUME NEW p \in Tables, NEW h \in Headers, NEW y \in Rules, y # r, Base(p)[h] = y
      PROVE  Base(p)'[h] = y
  <2>0. /\ Base(p)' = IF p # 0 /\ in_mtbdd_r'[p] = Empty THEN in_mtbdd_r'[0] ELSE in_mtbdd_r'[p]
        /\ Base(p) = IF p # 0 /\ in_mtbdd_r[p] = Empty THEN in_mtbdd_r[0] ELSE in_mtbdd_r[p]
        /\ 0 \in Tables
    BY RuleFacts DEF Base, Copied, Empty
  <2>1. CASE p # 0 /\ in_mtbdd_r[p] = Empty
    <3>1. \A k \in Headers : in_mtbdd_r'[p][k] = NULL
      BY <1>3, <2>1 DEF Empty
    <3>2. in_mtbdd_r'[p] = Empty
      BY <1>4, <3>1 DEF Empty
    <3>3. in_mtbdd_r'[0][h] = y
      BY <1>3, <1>5, <2>0, <2>1
    <3> QED
      BY <2>0, <2>1, <3>2, <3>3
  <2>2. CASE ~ (p # 0 /\ in_mtbdd_r[p] = Empty)
    <3>1. in_mtbdd_r'[p][h] = y
      BY <1>3, <1>5, <2>0, <2>2
    <3>2. in_mtbdd_r'[p] # Empty
      BY <3>1, RuleFacts DEF Empty
    <3> QED
      BY <2>0, <3>1, <3>2
  <2> QED
    BY <2>1, <2>2
<1>6. readd' \subseteq Live'
  BY <1>0, <1>1 DEF ReaddRules, CoveringSound, Live, TablesTyped
<1>7. TablesTyped'
  BY <1>0, <1>1, <1>2, <1>4, <1>6 DEF TablesTyped
<1>8. TopsLive'
  <2>1. ASSUME NEW p \in Tables, NEW h \in Headers, in_mtbdd_r'[p][h] # NULL
        PROVE  /\ in_mtbdd_r'[p][h] \in Live'
               /\ h \in mf_in[in_mtbdd_r'[p][h]]
               /\ AtTable(in_mtbdd_r'[p][h], p)
    BY <1>0, <1>1, <1>3, <2>1 DEF TopsLive
  <2> QED
    BY <1>0, <2>1 DEF TopsLive, AtTable, OnAllPorts
<1>9. CoveringSound'
  BY <1>0, <1>1, <1>2 DEF CoveringSound
<1>10. SeenDead'
  BY <1>1 DEF SeenDead, Remove
<1>11. LoopState'
  BY <1>0, <1>1 DEF LoopState
<1>12. AllCovered'
  <2> SUFFICES ASSUME NEW y \in Live, y # r, NEW p \in Tables, NEW h \in mf_in[y], AtTable(y, p)
               PROVE  Covered(y, p, h)'
    BY <1>0, <1>1 DEF AllCovered, AtTable, OnAllPorts
  <2>0. Covered(y, p, h) /\ h \in Headers /\ y \in Rules
    BY <1>0, <1>1, MfType DEF AllCovered
  <2>1. CASE Base(p)[h] = y
    BY <1>5, <2>0, <2>1 DEF Covered
  <2>2. CASE \E w \in Live : Hides(w, y) /\ h \in mf_in[w] /\ AtTable(w, p)
    <3>1. PICK w \in Live : Hides(w, y) /\ h \in mf_in[w] /\ AtTable(w, p)
      BY <2>2
    <3>2. CASE w # r
      <4>1. w \in Live' /\ h \in mf_in'[w] /\ AtTable(w, p)' /\ Hides(w, y)'
        BY <1>0, <1>1, <1>2, <2>0, <3>1, <3>2 DEF Hides, AtTable, OnAllPorts
      <4> QED
        BY <4>1 DEF Covered
    <3>3. CASE w = r
      <4>1. y \in covering[r]
        BY <1>0, <3>1, <3>3 DEF Hides
      <4>2. y \in readd'
        BY <1>0, <2>0, <4>1 DEF ReaddRules, Live
      <4>3. removed' = r /\ h \in mf_in'[r] /\ AtTable(r, p)'
        BY <1>0, <3>1, <3>3, <4>2 DEF AtTable, OnAllPorts
      <4> QED
        BY <4>2, <4>3 DEF Covered, AtTable, OnAllPorts
    <3> QED
      BY <3>2, <3>3
  <2> QED
    BY <1>0, <2>0, <2>1, <2>2 DEF Covered
<1> QED
  BY <1>7, <1>8, <1>9, <1>10, <1>11, <1>12 DEF IInv

\* The tables start empty.
LEMMA InitInvariant == DInit => IInv
<1> SUFFICES ASSUME DInit PROVE IInv
  OBVIOUS
<1>0. /\ mf_in \in [Rules -> MatchSets] /\ lks_in \in [Rules -> PortSets]
      /\ type = [r \in Rules |-> "new"] /\ in_mtbdd_r = [p \in Tables |-> Empty]
      /\ covering = [r \in Rules |-> {}] /\ seen = {} /\ readd = {} /\ removed = NULL
      /\ phase = "build" /\ r_i = 0
  BY DEF DInit, Init
<1>1. Live = {}
  BY <1>0 DEF Live
<1>2. TablesTyped
  BY <1>0, <1>1 DEF TablesTyped, Empty
<1>3. TopsLive
  BY <1>0 DEF TopsLive, Empty
<1>4. LoopState
  <2>1. \A r \in Rules : ~ (r < 0)
    BY RuleFacts
  <2> QED
    BY <1>0, <1>1, <2>1 DEF LoopState
<1> QED
  BY <1>0, <1>1, <1>2, <1>3, <1>4 DEF IInv, AllCovered, CoveringSound, SeenDead

\* Every step of the program keeps the invariant.
LEMMA NextInvariant == IInv /\ [DNext]_dvars => IInv'
<1> SUFFICES ASSUME IInv, [DNext]_dvars PROVE IInv'
  OBVIOUS
<1>0. Rules = 0 .. NRules - 1 /\ NRules \in Nat /\ r_i \in Nat /\ LoopState
  BY NRulesAssumption DEF IInv, TablesTyped
<1>1. CASE UNCHANGED dvars
  BY <1>1 DEF dvars, vars, parsed, IInv, TablesTyped, TopsLive, AllCovered, CoveringSound,
              SeenDead, LoopState, AtTable, OnAllPorts, Live, Covered, Hides, Base, Copied
<1>2. CASE Build
  <2>1. PICK r \in Rules : r = r_i
    BY <1>0, <1>2 DEF Build
  <2>2. r \notin Live
    BY <1>0, <1>2, <2>1 DEF Build, LoopState
  <2> QED
    BY <1>2, <2>1, <2>2, InsertKeeps DEF Build
<1>3. CASE StartReadd
  <2>1. Live = Rules
    <3>1. Live = {r \in Rules : r < NRules}
      BY <1>0, <1>3 DEF StartReadd, LoopState
    <3> QED
      BY <3>1, RuleFacts
  <2>2. seen = {}
    BY <1>3 DEF StartReadd, IInv, SeenDead
  <2> QED
    BY <1>0, <1>3, <2>1, <2>2
       DEF StartReadd, dvars, vars, parsed, IInv, TablesTyped, TopsLive, AllCovered, CoveringSound,
           SeenDead, LoopState, AtTable, OnAllPorts, Live, Covered, Hides, Base, Copied
<1>4. CASE RemoveOne
  <2>1. PICK r \in Rules : r = r_i
    BY <1>0, <1>4 DEF RemoveOne
  <2> QED
    BY <1>4, <2>1, RemoveKeeps DEF RemoveOne
<1>5. CASE ReaddHidden
  BY <1>5, ReaddKeeps DEF ReaddHidden
<1>6. CASE InsertOne
  <2>1. PICK r \in Rules : r = r_i
    BY <1>0, <1>6 DEF InsertOne, LoopState
  <2>2. r \notin Live
    BY <1>0, <1>6, <2>1 DEF InsertOne, LoopState
  <2> QED
    BY <1>6, <2>1, <2>2, InsertKeeps DEF InsertOne
<1> QED
  BY <1>1, <1>2, <1>3, <1>4, <1>5, <1>6 DEF DNext, Finished

-----------------------------------------------------------------------------
(* The theorems.                                                           *)

\* The invariant of the program.
THEOREM TablesInvariant == DSpec => []IInv
BY InitInvariant, NextInvariant, PTL DEF DSpec

\* The top of a table is above every rule that belongs there, unless the header
\* is one that a removal has still to give back.
LEMMA TopIsHighestAt ==
  ASSUME IInv, NEW p \in Tables, NEW h \in Headers, readd = {} \/ h \notin mf_in[removed],
         NEW r \in Live, AtTable(r, p), h \in mf_in[r]
  PROVE  Base(p)[h] \in Live /\ Base(p)[h] <= r
<1>0. /\ TablesTyped /\ TopsLive /\ AllCovered
      /\ Live \subseteq Rules /\ Rules \subseteq Nat
  BY RuleFacts DEF IInv, TablesTyped, Live
<1> DEFINE T == {x \in Live : AtTable(x, p) /\ h \in mf_in[x]}
           R == OpToRel(<, Nat)
<1>1. IsWellFoundedOn(R, Nat)
  BY NatLessThanWellFounded
<1>2. \A x, y \in Nat : y < x => <<y, x>> \in R
  BY DEF OpToRel
<1> HIDE DEF R
<1>3. T \subseteq Nat /\ T # {}
  BY <1>0
<1> HIDE DEF T
<1>4. PICK x \in T : \A y \in T : ~ (<<y, x>> \in R)
  BY <1>1, <1>3, WFMin
<1>5. \A y \in T : ~ (y < x)
  BY <1>2, <1>3, <1>4
<1>6. Covered(x, p, h)
  BY <1>0, <1>4 DEF AllCovered, T
<1>7. Base(p)[h] = x
  BY <1>0, <1>5, <1>6 DEF Covered, Hides, T
<1>8. r \in T /\ x \in Live
  BY <1>4 DEF T
<1> QED
  BY <1>3, <1>5, <1>7, <1>8

\* At rest there is no such header.
LEMMA TopIsHighest ==
  ASSUME IInv, AtRest, NEW p \in Tables, NEW h \in Headers,
         NEW r \in Live, AtTable(r, p), h \in mf_in[r]
  PROVE  Base(p)[h] \in Live /\ Base(p)[h] <= r
<1>1. readd = {}
  BY DEF IInv, TablesTyped, AtRest
<1> QED
  BY <1>1, TopIsHighestAt

\* The invariant gives every port's top rule.
LEMMA TopsAreBest == IInv => TopCorrect
<1> SUFFICES ASSUME IInv, AtRest, NEW p \in Ports, NEW h \in Headers
             PROVE  Base(p)[h] = Best(mf_in, LiveAt(p), h)
  BY DEF TopCorrect
<1>0. /\ TablesTyped /\ TopsLive /\ p \in Tables /\ Live \subseteq Rules /\ Rules \subseteq Nat
      /\ \A r \in Rules : AtTable(r, p) <=> p \in lks_in[r]
  BY RuleFacts DEF IInv, Live, AtTable
<1> DEFINE M == Matching(mf_in, LiveAt(p), h)
<1>1. \A r : r \in M <=> r \in Live /\ AtTable(r, p) /\ h \in mf_in[r]
  BY <1>0 DEF Matching, LiveAt
<1>2. CASE M = {}
  <2>1. Base(p)[h] = NULL
    BY <1>0, <1>1, <1>2, BaseLive
  <2> QED
    BY <1>2, <2>1 DEF Best
<1>3. CASE M # {}
  <2> HIDE DEF M
  <2>1. Base(p)[h] \in M /\ \A r \in M : Base(p)[h] <= r
    <3>1. \A r \in M : Base(p)[h] \in Live /\ Base(p)[h] <= r
      BY <1>0, <1>1, TopIsHighest
    <3>2. Base(p)[h] # NULL
      BY <1>0, <1>3, <3>1, RuleFacts
    <3> QED
      BY <1>0, <1>1, <3>1, <3>2, BaseLive
  <2>2. \A x \in M : (\A r \in M : x <= r) => x = Base(p)[h]
    <3> SUFFICES ASSUME NEW x \in M, \A r \in M : x <= r PROVE x = Base(p)[h]
      OBVIOUS
    <3>1. x <= Base(p)[h] /\ Base(p)[h] <= x
      BY <2>1
    <3>2. x \in Nat /\ Base(p)[h] \in Nat
      BY <1>0, <1>1, <2>1
    <3> QED
      BY <3>1, <3>2
  <2>3. Best(mf_in, LiveAt(p), h) = CHOOSE r \in M : \A x \in M : r <= x
    BY <1>3 DEF Best, M
  <2> QED
    BY <2>1, <2>2, <2>3
<1> QED
  BY <1>2, <1>3

\* At rest the table of every port, or the common one where the port has none,
\* shows the highest rule that matches there, in spite of what the cache kept
\* covering from recording.
THEOREM TopIsCorrect == DSpec => []TopCorrect
BY TopsAreBest, TablesInvariant, PTL

\* No removal at rest meets a rule below the one it removes, in any table.
THEOREM NeverReports == DSpec => []RemovalNeverReports
<1>1. IInv => RemovalNeverReports
  <2> SUFFICES ASSUME IInv, AtRest, NEW r \in Live, NEW p \in RemoveTables(r), NEW h \in mf_in[r]
               PROVE  in_mtbdd_r[p][h] <= r /\ in_mtbdd_r[p][h] \in Rules
    BY DEF RemovalNeverReports, TopsAt
  <2>1. r \in Rules /\ TablesTyped /\ h \in Headers
    BY MfType DEF IInv, Live
  <2>2. p \in Tables /\ AtTable(r, p) /\ in_mtbdd_r[p] # Empty
    BY <2>1, RuleFacts, PortsAssumption DEF RemoveTables, AtTable, OnAllPorts, TablesTyped
  <2>3. Base(p) = in_mtbdd_r[p]
    BY <2>2 DEF Base, Copied
  <2> QED
    BY <2>1, <2>2, <2>3, TopIsHighest DEF Live
<1> QED
  BY <1>1, TablesInvariant, PTL

-----------------------------------------------------------------------------
(* The sets of headers beside the tables.                                  *)

\* The types of what the delta of R is made of.
SetsTyped ==
  /\ action \in [Rules -> Actions]
  /\ link_BDDs \in [Rules -> [Tables -> SUBSET Headers]]
  /\ merged \subseteq Rules
  /\ merged_BDDs \in [MergeKeys -> [Tables -> SUBSET Headers]]
  /\ changes \in [MergeKeys -> [Tables -> SUBSET Headers]]
  /\ seen \subseteq {v \in Rules \X Rules : v[1] # v[2]}
  /\ r_i \in 0 .. NRules

\* A rule that is not in the tables has all it matches, and the rules that wait
\* to be put back are below the one that is out.
RulesOut ==
  /\ \A r \in Rules \ Live : link_BDDs[r] = FullLinks(r)
  /\ \A x \in readd : r_i < x

\* While the tables are built no merged rule has lost a header, no rule has more
\* than it matches, and what a port reads from a table is in the sets of the rule
\* that it reads and of its merged rule.
BuildCovers ==
  phase = "build" =>
    /\ changes = NoChanges
    /\ \A a \in Rules : \A p \in Tables : link_BDDs[a][p] \subseteq mf_in[a]
    /\ \A p \in Tables : \A h \in Headers : Base(p)[h] # NULL =>
         /\ h \in AtPort(link_BDDs[Base(p)[h]], p)
         /\ h \in merged_BDDs[MergeKey(Base(p)[h])][0]
                    \union merged_BDDs[MergeKey(Base(p)[h])][p]

\* Where all rules are for all ports, the sets have nothing else then.
BuildExact ==
  AllPorts /\ phase = "build" =>
    /\ \A a \in Live : \A h \in link_BDDs[a][0] : Base(0)[h] = a
    /\ \A k \in MergeKeys : \A h \in merged_BDDs[k][0] :
         Base(0)[h] # NULL /\ MergeKey(Base(0)[h]) = k

\* There a rule's set may be too large after removals, but a header in it is one
\* that the rule or a higher one matches.
LinksBelow ==
  AllPorts => \A x \in Rules : \A h \in link_BDDs[x][0] :
                \E y \in Rules : y <= x /\ h \in mf_in[y]

\* There a header is in the set of the rule that decides it, unless a rule that
\* is out will take it from that rule.
TopsHave ==
  AllPorts => \A h \in Headers : Base(0)[h] # NULL =>
    \/ h \in link_BDDs[Base(0)[h]][0]
    \/ phase = "insert" /\ r_i < Base(0)[h] /\ h \in mf_in[r_i]

SInv == SetsTyped /\ RulesOut /\ BuildCovers /\ BuildExact /\ LinksBelow /\ TopsHave

\* The sets have their types, and table 0 is read as it is.
LEMMA SetFacts ==
  ASSUME IInv, SInv
  PROVE  /\ \A r \in Rules, p \in Tables : link_BDDs[r][p] \subseteq Headers
         /\ \A r \in Rules : MergeKey(r) \in MergeKeys /\ lks_in[r] \subseteq Ports
         /\ Base(0) = in_mtbdd_r[0] /\ ~ Copied(0)
         /\ Rules \subseteq Nat /\ Live \subseteq Rules /\ 0 \in Tables /\ 0 \notin Ports
<1>0. /\ lks_in \in [Rules -> PortSets] /\ action \in [Rules -> Actions]
      /\ link_BDDs \in [Rules -> [Tables -> SUBSET Headers]]
  BY DEF IInv, SInv, TablesTyped, SetsTyped
<1>1. \A r \in Rules, p \in Tables : link_BDDs[r][p] \subseteq Headers
  BY <1>0
<1>2. \A r \in Rules : MergeKey(r) \in MergeKeys /\ lks_in[r] \subseteq Ports
  BY <1>0, PortsAssumption DEF MergeKey, MergeKeys
<1>3. Base(0) = in_mtbdd_r[0] /\ ~ Copied(0)
  BY DEF Base, Copied
<1> QED
  BY <1>1, <1>2, <1>3, RuleFacts DEF Live

\* What an insertion meets at table p is live there.
LEMMA MetFacts ==
  ASSUME TablesTyped, TopsLive, NEW r \in Rules, NEW m \in SUBSET Headers, NEW hits,
         NEW p \in Tables, NEW x \in Met(r, m, p, hits)
  PROVE  x \in Live /\ x \in Rules /\ x # r /\ AtTable(x, p)
<1>1. PICK h \in m : x = Base(p)[h] /\ x # NULL /\ x # r
  BY DEF Met
<1> QED
  BY <1>1, BaseLive DEF Live

\* What an insertion leaves of the sets of headers.
LEMMA LinksOf ==
  ASSUME IInv, SInv, NEW r \in Rules, NEW m \in SUBSET Headers, NEW hits \in SUBSET seen,
         NEW lowFirst \in BOOLEAN, link_BDDs' = AddLinks(r, m, hits, lowFirst)
  PROVE  /\ link_BDDs' \in [Rules -> [Tables -> SUBSET Headers]]
         /\ \A x \in Rules : \A p \in Tables : x # r =>
              /\ link_BDDs'[x][p] # link_BDDs[x][p] =>
                   x \in Met(r, m, p, hits) /\ link_BDDs'[x][p] \subseteq Has(x, p)
              /\ x < r => link_BDDs'[x][p] \in {link_BDDs[x][p], Has(x, p)}
         /\ \A x \in Rules : /\ link_BDDs'[x][0] \subseteq link_BDDs[x][0]
                             /\ x < r => link_BDDs'[x][0] = link_BDDs[x][0]
                             /\ x > r => link_BDDs[x][0] \ link_BDDs[r][0] \subseteq link_BDDs'[x][0]
         /\ \A p \in Tables :
              link_BDDs'[r][p] = IF p \in Targets(r)
                THEN Start(r, m, p, hits) \ Loses(r, p, Met(r, m, p, hits))
                ELSE link_BDDs[r][p]
<1>0. /\ TablesTyped /\ TopsLive /\ r \in Nat /\ Rules \subseteq Nat /\ 0 \in Tables
      /\ link_BDDs \in [Rules -> [Tables -> SUBSET Headers]]
  BY RuleFacts DEF IInv, SInv, SetsTyped
<1> DEFINE left(x, p) == Left(r, m, p, hits, x, lowFirst)
<1>1. ASSUME NEW x \in Rules, NEW p \in Tables
      PROVE  link_BDDs'[x][p] =
               IF p \notin Targets(r) \/ x \notin Met(r, m, p, hits) \union {r}
                 THEN link_BDDs[x][p]
               ELSE IF x = r THEN Start(r, m, p, hits) \ Loses(r, p, Met(r, m, p, hits))
               ELSE Has(x, p) \ Yields(x, r, p, left(x, p))
  BY DEF AddLinks
<1>2. ASSUME NEW x \in Rules, NEW p \in Tables
      PROVE  Has(x, p) \in SUBSET Headers /\ Has(x, 0) = link_BDDs[x][0]
  BY <1>0 DEF Has, Copied
<1>3. ASSUME NEW p \in Tables
      PROVE  /\ Start(r, m, p, hits) \in SUBSET Headers
             /\ Start(r, m, 0, hits) = link_BDDs[r][0]
             /\ \A x : left(x, 0) \subseteq link_BDDs[r][0]
  BY <1>0 DEF Start, Left
<1>4. ASSUME NEW x \in Rules, NEW p \in Tables
      PROVE  link_BDDs'[x][p] \in SUBSET Headers
  <2> HIDE DEF left
  <2>1. CASE p \notin Targets(r) \/ x \notin Met(r, m, p, hits) \union {r}
    <3>1. link_BDDs'[x][p] = link_BDDs[x][p]
      BY <1>1, <2>1
    <3>2. link_BDDs[x][p] \in SUBSET Headers
      BY <1>0
    <3> QED
      BY <3>1, <3>2
  <2>2. CASE p \in Targets(r) /\ x = r
    BY <1>1, <1>3, <2>2
  <2>3. CASE p \in Targets(r) /\ x \in Met(r, m, p, hits) /\ x # r
    BY <1>1, <1>2, <2>3
  <2> QED
    BY <2>1, <2>2, <2>3
<1>5. link_BDDs' \in [Rules -> [Tables -> SUBSET Headers]]
  <2>1. link_BDDs' = [x \in Rules |-> [p \in Tables |-> link_BDDs'[x][p]]]
    BY DEF AddLinks
  <2> QED
    BY <1>4, <2>1
<1>6. ASSUME NEW x \in Rules, NEW p \in Tables, x # r
      PROVE  /\ link_BDDs'[x][p] # link_BDDs[x][p] =>
                  x \in Met(r, m, p, hits) /\ link_BDDs'[x][p] \subseteq Has(x, p)
             /\ x < r => link_BDDs'[x][p] \in {link_BDDs[x][p], Has(x, p)}
  BY <1>1, <1>6 DEF Yields
<1>7. ASSUME NEW x \in Rules
      PROVE  /\ link_BDDs'[x][0] \subseteq link_BDDs[x][0]
             /\ x < r => link_BDDs'[x][0] = link_BDDs[x][0]
             /\ x > r => link_BDDs[x][0] \ link_BDDs[r][0] \subseteq link_BDDs'[x][0]
  <2> DEFINE S == Start(r, m, 0, hits) \ Loses(r, 0, Met(r, m, 0, hits))
             Y == Yields(x, r, 0, left(x, 0))
  <2>0. /\ link_BDDs'[x][0] =
             IF 0 \notin Targets(r) \/ x \notin Met(r, m, 0, hits) \union {r} THEN link_BDDs[x][0]
             ELSE IF x = r THEN S ELSE link_BDDs[x][0] \ Y
        /\ x \in Nat
    BY <1>0, <1>1, <1>2
  <2>1. S \subseteq link_BDDs[r][0]
    BY <1>0, <1>3
  <2>2. x < r => Y = {}
    BY DEF Yields
  <2>3. Y \subseteq link_BDDs[r][0]
    BY <1>0, <1>3 DEF Yields
  <2>4. CASE x = r
    BY <1>0, <2>0, <2>1, <2>4
  <2>5. CASE x # r
    <3>1. link_BDDs'[x][0] = link_BDDs[x][0] \/ link_BDDs'[x][0] = link_BDDs[x][0] \ Y
      BY <2>0, <2>5
    <3> HIDE DEF Y
    <3> QED
      BY <2>2, <2>3, <3>1
  <2> QED
    BY <2>4, <2>5
<1>8. ASSUME NEW p \in Tables
      PROVE  link_BDDs'[r][p] = IF p \in Targets(r)
               THEN Start(r, m, p, hits) \ Loses(r, p, Met(r, m, p, hits))
               ELSE link_BDDs[r][p]
  BY <1>1
<1> QED
  BY <1>5, <1>6, <1>7, <1>8

\* What an insertion notes and what it leaves of the merged sets.
LEMMA MergedOf ==
  ASSUME IInv, SInv, NEW r \in Rules, NEW m \in SUBSET Headers, NEW hits \in SUBSET seen,
         NEW lowFirst \in BOOLEAN, link_BDDs' = AddLinks(r, m, hits, lowFirst),
         NEW ch, ch = AddChanges(r, m, hits, lowFirst), merged_BDDs' = Delta(link_BDDs', ch, r)
  PROVE  /\ ch \in [MergeKeys -> [Tables -> SUBSET Headers]]
         /\ merged_BDDs' \in [MergeKeys -> [Tables -> SUBSET Headers]]
         /\ \A k \in MergeKeys : \A p \in Tables :
              merged_BDDs'[k][p] = (merged_BDDs[k][p] \ ch[k][p])
                \union (IF k = MergeKey(r) THEN link_BDDs'[r][p] ELSE {})
         /\ (changes = NoChanges /\ \A x \in Live : x < r) => ch = NoChanges
<1>0. /\ TablesTyped /\ TopsLive /\ r \in Nat /\ Rules \subseteq Nat /\ 0 \in Tables
      /\ link_BDDs \in [Rules -> [Tables -> SUBSET Headers]]
      /\ changes \in [MergeKeys -> [Tables -> SUBSET Headers]]
      /\ merged_BDDs \in [MergeKeys -> [Tables -> SUBSET Headers]]
  BY RuleFacts DEF IInv, SInv, SetsTyped
<1> DEFINE left(x, p) == Left(r, m, p, hits, x, lowFirst)
           who(k, p) == {x \in Rules : /\ p \in Targets(r) /\ x \in Met(r, m, p, hits)
                                       /\ MergeKey(x) = k /\ ~SameMerged(x, r)}
           lost(k, p) == UNION {Yields(a, r, p, left(a, p)) : a \in who(k, p)}
<1>1. ch = [k \in MergeKeys |-> [p \in Tables |-> changes[k][p] \union lost(k, p)]]
  BY DEF AddChanges
<1>2. ASSUME NEW k \in MergeKeys, NEW p \in Tables
      PROVE  lost(k, p) \subseteq Headers
  <2>1. ASSUME NEW a \in who(k, p) PROVE Yields(a, r, p, left(a, p)) \subseteq Headers
    <3>1. Has(a, p) \subseteq Headers
      BY <1>0 DEF Has
    <3>2. Yields(a, r, p, left(a, p)) \subseteq Has(a, p)
      BY <2>1 DEF Yields
    <3> QED
      BY <3>1, <3>2
  <2> QED
    BY <2>1
<1>3. ch \in [MergeKeys -> [Tables -> SUBSET Headers]]
  <2> HIDE DEF lost
  <2> QED
    BY <1>0, <1>1, <1>2
<1>4. \A k \in MergeKeys : \A p \in Tables :
        merged_BDDs'[k][p] = (merged_BDDs[k][p] \ ch[k][p])
          \union (IF k = MergeKey(r) THEN link_BDDs'[r][p] ELSE {})
  BY DEF Delta
<1>5. link_BDDs' \in [Rules -> [Tables -> SUBSET Headers]]
  BY LinksOf
<1>6. merged_BDDs' \in [MergeKeys -> [Tables -> SUBSET Headers]]
  <2>1. \A k \in MergeKeys : \A p \in Tables : merged_BDDs'[k][p] \in SUBSET Headers
    BY <1>0, <1>4, <1>5
  <2>2. merged_BDDs' = [k \in MergeKeys |-> [p \in Tables |-> merged_BDDs'[k][p]]]
    BY DEF Delta
  <2> QED
    BY <2>1, <2>2
<1>7. ASSUME changes = NoChanges, \A x \in Live : x < r
      PROVE  ch = NoChanges
  <2>1. ASSUME NEW k \in MergeKeys, NEW p \in Tables PROVE lost(k, p) = {}
    <3>1. ASSUME NEW a \in who(k, p) PROVE Yields(a, r, p, left(a, p)) = {}
      <4>1. a < r
        BY <1>0, <1>7, MetFacts
      <4> QED
        BY <4>1 DEF Yields
    <3> QED
      BY <3>1
  <2> HIDE DEF lost
  <2> QED
    BY <1>1, <1>7, <2>1 DEF NoChanges
<1> QED
  BY <1>3, <1>4, <1>6, <1>7

\* What a port reads is read by a match: a rule at the port that matches a header
\* keeps the table of the port from being empty there.
LEMMA NothingMatches ==
  ASSUME IInv, readd = {}, NEW p \in Tables, NEW h \in Headers, Base(p)[h] = NULL,
         NEW x \in Live, AtTable(x, p)
  PROVE  h \notin mf_in[x]
<1>1. SUFFICES ASSUME h \in mf_in[x] PROVE FALSE
  OBVIOUS
<1>2. Base(p)[h] \in Live
  BY <1>1, TopIsHighestAt
<1> QED
  BY <1>2, RuleFacts DEF Live

\* While the tables are built a new rule has every header that nothing decides.
LEMMA NewHas ==
  ASSUME IInv, SInv, phase = "build", readd = {}, NEW r \in Rules, r \notin Live,
         NEW p \in Targets(r), NEW hits, NEW h \in mf_in[r], Base(p)[h] = NULL
  PROVE  h \in Start(r, mf_in[r], p, hits) \ Loses(r, p, Met(r, mf_in[r], p, hits))
<1> DEFINE m == mf_in[r]
<1>0. /\ TablesTyped /\ TopsLive /\ p \in Tables /\ m \in SUBSET Headers /\ h \in Headers
      /\ 0 \in Tables /\ 0 \notin Ports /\ lks_in[r] \subseteq Ports
  BY SetFacts, MfType DEF IInv, Targets, Tables
<1>1. \A a \in Rules : \A q \in Tables : link_BDDs[a][q] \subseteq mf_in[a]
  BY DEF SInv, BuildCovers
<1>2. ASSUME NEW q \in Tables, NEW x \in Met(r, m, q, hits)
      PROVE  /\ x \in Live /\ AtTable(x, q) /\ Has(x, q) \subseteq mf_in[x]
  BY <1>0, <1>1, MetFacts DEF Has
<1>3. h \notin Loses(r, p, Met(r, m, p, hits))
  <2>1. SUFFICES ASSUME NEW x \in Met(r, m, p, hits), h \in Has(x, p) PROVE FALSE
    BY DEF Loses
  <2> QED
    BY <1>0, <1>2, <2>1, NothingMatches
<1>4. link_BDDs[r] = FullLinks(r)
  BY DEF SInv, RulesOut
<1>5. CASE p = 0 \/ ~ OnAllPorts(r)
  <2>1. h \in link_BDDs[r][p]
    BY <1>0, <1>4, <1>5 DEF FullLinks, Targets
  <2> QED
    BY <1>3, <1>5, <2>1 DEF Start
<1>6. CASE p # 0 /\ OnAllPorts(r)
  <2>1. h \in link_BDDs[r][0]
    BY <1>0, <1>4, <1>6 DEF FullLinks
  <2>2. h \notin Loses(r, 0, Met(r, m, 0, hits))
    <3>1. SUFFICES ASSUME NEW x \in Met(r, m, 0, hits), h \in Has(x, 0) PROVE FALSE
      BY DEF Loses
    <3>2. x \in Live /\ AtTable(x, 0) /\ h \in mf_in[x]
      BY <1>0, <1>2, <3>1
    <3>3. AtTable(x, p)
      BY <1>0, <1>6, <3>2 DEF AtTable, OnAllPorts, Tables
    <3> QED
      BY <1>0, <3>2, <3>3, NothingMatches
  <2> QED
    BY <1>3, <1>6, <2>1, <2>2 DEF Start
<1> QED
  BY <1>5, <1>6

\* The choices of an insertion, and what it makes of the sets.
LEMMA AddRuleSets ==
  ASSUME NEW r, NEW m, NEW reset, AddRule(r, m, reset)
  PROVE  \E lowFirst \in BOOLEAN, hits \in SUBSET seen :
           /\ link_BDDs' = AddLinks(r, m, hits, lowFirst)
           /\ merged' = merged \union {r}
           /\ merged_BDDs' = Delta(link_BDDs', AddChanges(r, m, hits, lowFirst), r)
           /\ changes' \in {NoChanges, AddChanges(r, m, hits, lowFirst)}
           /\ reset = TRUE => changes' = NoChanges
           /\ seen' = {} /\ in_mtbdd_r' = AddTop(r, m)
BY DEF AddRule

\* The sets keep their types.
LEMMA AddSetsTyped ==
  ASSUME IInv, SInv, NEW r \in Rules, NEW m \in SUBSET Headers, NEW reset \in BOOLEAN,
         AddRule(r, m, reset), action' = action, r_i' \in 0 .. NRules
  PROVE  SetsTyped'
<1>1. PICK lowFirst \in BOOLEAN, hits \in SUBSET seen :
        /\ link_BDDs' = AddLinks(r, m, hits, lowFirst)
        /\ merged' = merged \union {r}
        /\ merged_BDDs' = Delta(link_BDDs', AddChanges(r, m, hits, lowFirst), r)
        /\ changes' \in {NoChanges, AddChanges(r, m, hits, lowFirst)}
        /\ seen' = {} /\ in_mtbdd_r' = AddTop(r, m)
  BY AddRuleSets
<1>2. link_BDDs' \in [Rules -> [Tables -> SUBSET Headers]]
  BY <1>1, LinksOf
<1>3. /\ AddChanges(r, m, hits, lowFirst) \in [MergeKeys -> [Tables -> SUBSET Headers]]
      /\ merged_BDDs' \in [MergeKeys -> [Tables -> SUBSET Headers]]
  BY <1>1, MergedOf
<1>4. NoChanges \in [MergeKeys -> [Tables -> SUBSET Headers]]
  BY DEF NoChanges
<1>5. changes' \in [MergeKeys -> [Tables -> SUBSET Headers]]
  BY <1>1, <1>3, <1>4
<1> QED
  BY <1>1, <1>2, <1>3, <1>5 DEF SInv, SetsTyped

\* A step of the build: the new rule is below all others.
LEMMA BuildKeepsCovers ==
  ASSUME IInv, SInv, phase = "build", NEW r \in Rules, r = r_i, r \notin Live, Insert(r)
  PROVE  /\ changes' = NoChanges
         /\ \A a \in Rules : \A p \in Tables : link_BDDs'[a][p] \subseteq mf_in[a]
         /\ \A p \in Tables : \A h \in Headers : Base(p)'[h] # NULL =>
              /\ h \in AtPort(link_BDDs'[Base(p)'[h]], p)
              /\ h \in merged_BDDs'[MergeKey(Base(p)'[h])][0]
                         \union merged_BDDs'[MergeKey(Base(p)'[h])][p]
         /\ AllPorts =>
              /\ \A a \in Live \union {r} : \A h \in link_BDDs'[a][0] : Base(0)'[h] = a
              /\ \A k \in MergeKeys : \A h \in merged_BDDs'[k][0] :
                   Base(0)'[h] # NULL /\ MergeKey(Base(0)'[h]) = k
<1>m. PICK m \in SUBSET Headers : m = mf_in[r]
  BY MfType DEF IInv
<1>0. /\ TablesTyped /\ TopsLive /\ readd = {} /\ Rules \subseteq Nat /\ Live \subseteq Rules
      /\ m \in SUBSET Headers /\ lks_in' = lks_in /\ AddRule(r, m, TRUE)
      /\ 0 \in Tables /\ 0 \notin Ports /\ NULL \notin Rules /\ seen = {} /\ changes = NoChanges
      /\ \A a \in Rules : \A p \in Tables : link_BDDs[a][p] \subseteq mf_in[a]
      /\ \A x \in Live : x < r
  BY <1>m, SetFacts, RuleFacts
     DEF IInv, SInv, SetsTyped, SeenDead, BuildCovers, LoopState, Insert, parsed
<1>1. PICK lowFirst \in BOOLEAN, hits \in SUBSET seen :
        /\ link_BDDs' = AddLinks(r, m, hits, lowFirst)
        /\ merged_BDDs' = Delta(link_BDDs', AddChanges(r, m, hits, lowFirst), r)
        /\ changes' = NoChanges
        /\ seen' = {} /\ in_mtbdd_r' = AddTop(r, m)
  BY <1>0, AddRuleSets
<1>2. /\ \A x \in Rules : \A p \in Tables : x # r =>
           /\ link_BDDs'[x][p] # link_BDDs[x][p] =>
                x \in Met(r, m, p, hits) /\ link_BDDs'[x][p] \subseteq Has(x, p)
           /\ x < r => link_BDDs'[x][p] \in {link_BDDs[x][p], Has(x, p)}
      /\ \A x \in Rules : /\ link_BDDs'[x][0] \subseteq link_BDDs[x][0]
                          /\ x < r => link_BDDs'[x][0] = link_BDDs[x][0]
      /\ \A p \in Tables :
           link_BDDs'[r][p] = IF p \in Targets(r)
             THEN Start(r, m, p, hits) \ Loses(r, p, Met(r, m, p, hits))
             ELSE link_BDDs[r][p]
  BY <1>1, LinksOf
<1>3. \A k \in MergeKeys : \A p \in Tables :
        merged_BDDs'[k][p] = merged_BDDs[k][p]
          \union (IF k = MergeKey(r) THEN link_BDDs'[r][p] ELSE {})
  <2>0. changes = NoChanges /\ \A x \in Live : x < r
    BY <1>0
  <2> PICK ch : ch = AddChanges(r, m, hits, lowFirst)
    OBVIOUS
  <2>a. merged_BDDs' = Delta(link_BDDs', ch, r)
    BY <1>1
  <2>b. ch = NoChanges
    BY <1>1, <2>0, <2>a, MergedOf
  <2>c. \A k \in MergeKeys : \A p \in Tables :
          merged_BDDs'[k][p] = (merged_BDDs[k][p] \ ch[k][p])
            \union (IF k = MergeKey(r) THEN link_BDDs'[r][p] ELSE {})
    BY <1>1, <2>a, MergedOf
  <2>2. \A k \in MergeKeys : \A p \in Tables : ch[k][p] = {}
    BY <2>b DEF NoChanges
  <2> QED
    BY <2>2, <2>c
<1>4. \A p \in Tables : \A h \in Headers :
        Base(p)'[h] = IF AtTable(r, p) /\ h \in m THEN Top(Base(p)[h], r) ELSE Base(p)[h]
  BY <1>0, <1>1, AddBase
<1>5. ASSUME NEW p \in Tables, NEW h \in Headers
      PROVE  IF Base(p)[h] # NULL THEN Base(p)'[h] = Base(p)[h] /\ Base(p)[h] < r /\ Base(p)[h] \in Live
             ELSE Base(p)'[h] = IF AtTable(r, p) /\ h \in m THEN r ELSE NULL
  <2>1. CASE Base(p)[h] # NULL
    BY <1>0, <1>4, <2>1, BaseLive DEF Top
  <2>2. CASE Base(p)[h] = NULL
    BY <1>4, <2>2 DEF Top
  <2> QED
    BY <2>1, <2>2
<1>6. ASSUME NEW a \in Rules, NEW p \in Tables PROVE link_BDDs'[a][p] \subseteq mf_in[a]
  <2>1. CASE a # r
    <3>1. Has(a, p) \subseteq mf_in[a]
      BY <1>0 DEF Has
    <3> QED
      BY <1>0, <1>2, <2>1, <3>1
  <2>2. CASE a = r
    <3>1. Start(r, m, p, hits) \subseteq mf_in[r]
      BY <1>0 DEF Start
    <3> QED
      BY <1>0, <1>2, <2>2, <3>1
  <2> QED
    BY <2>1, <2>2
<1>7. ASSUME NEW p \in Targets(r), NEW h \in m, Base(p)[h] = NULL
      PROVE  h \in link_BDDs'[r][p]
  <2>1. p \in Tables
    BY SetFacts DEF Targets, Tables
  <2> QED
    BY <1>m, <1>0, <1>2, <1>7, <2>1, NewHas
<1>8. ASSUME NEW p \in Tables, NEW h \in Headers, Base(p)'[h] = r
      PROVE  /\ h \in AtPort(link_BDDs'[r], p)
             /\ h \in merged_BDDs'[MergeKey(r)][0] \union merged_BDDs'[MergeKey(r)][p]
  <2>0. AtTable(r, p) /\ h \in m /\ Base(p)[h] = NULL /\ MergeKey(r) \in MergeKeys
    <3>1. r # NULL /\ ~ (r < r)
      BY <1>0
    <3> QED
      BY <1>5, <1>8, <3>1, SetFacts
  <2>1. CASE p \in Targets(r)
    <3>1. h \in link_BDDs'[r][p]
      BY <1>7, <2>0, <2>1
    <3> QED
      BY <1>3, <2>0, <3>1 DEF AtPort
  <2>2. CASE p \notin Targets(r)
    <3>1. OnAllPorts(r) /\ Copied(p) /\ p # 0 /\ 0 \in Targets(r)
      BY <1>0, <2>0, <2>2, SetFacts DEF AtTable, Targets, Tables
    <3>2. Base(0)[h] = NULL
      BY <2>0, <3>1 DEF Base, Copied
    <3>3. h \in link_BDDs'[r][0]
      BY <1>7, <2>0, <3>1, <3>2
    <3>4. link_BDDs'[r][p] = {}
      <4>1. link_BDDs[r] = FullLinks(r)
        BY DEF SInv, RulesOut
      <4> QED
        BY <1>2, <2>2, <3>1, <4>1 DEF FullLinks
    <3> QED
      BY <1>0, <1>3, <2>0, <3>3, <3>4 DEF AtPort
  <2> QED
    BY <2>1, <2>2
<1>9. ASSUME NEW p \in Tables, NEW h \in Headers, NEW a \in Rules, Base(p)[h] = a
      PROVE  /\ h \in AtPort(link_BDDs'[a], p)
             /\ h \in merged_BDDs'[MergeKey(a)][0] \union merged_BDDs'[MergeKey(a)][p]
  <2>0. /\ a # NULL /\ a < r /\ a # r /\ MergeKey(a) \in MergeKeys
    BY <1>0, <1>5, <1>9, SetFacts
  <2>1. /\ h \in AtPort(link_BDDs[a], p)
        /\ h \in merged_BDDs[MergeKey(a)][0] \union merged_BDDs[MergeKey(a)][p]
    BY <1>9, <2>0 DEF SInv, BuildCovers
  <2>2. h \in merged_BDDs'[MergeKey(a)][0] \union merged_BDDs'[MergeKey(a)][p]
    BY <1>0, <1>3, <2>0, <2>1
  <2>3. link_BDDs'[a][0] = link_BDDs[a][0]
    BY <1>2, <2>0
  <2>4. CASE link_BDDs'[a][p] = link_BDDs[a][p]
    BY <2>1, <2>2, <2>3, <2>4 DEF AtPort
  <2>5. CASE link_BDDs'[a][p] # link_BDDs[a][p]
    <3>1. link_BDDs'[a][p] = Has(a, p)
      BY <1>2, <2>0, <2>5
    <3>2. Copied(p) /\ link_BDDs'[a][p] = link_BDDs[a][0]
      BY <2>5, <3>1 DEF Has
    <3>3. Base(0)[h] = a
      BY <1>9, <3>2 DEF Base, Copied
    <3>4. h \in AtPort(link_BDDs[a], 0)
      BY <1>0, <2>0, <3>3 DEF SInv, BuildCovers
    <3> QED
      BY <2>2, <3>2, <3>4 DEF AtPort
  <2> QED
    BY <2>4, <2>5
<1>10. ASSUME NEW p \in Tables, NEW h \in Headers, Base(p)'[h] # NULL
       PROVE  /\ h \in AtPort(link_BDDs'[Base(p)'[h]], p)
              /\ h \in merged_BDDs'[MergeKey(Base(p)'[h])][0]
                         \union merged_BDDs'[MergeKey(Base(p)'[h])][p]
  <2>0. PICK a : a = Base(p)'[h]
    OBVIOUS
  <2>1. a = r \/ (a \in Rules /\ Base(p)[h] = a)
    BY <1>0, <1>5, <1>10, <2>0
  <2>2. /\ h \in AtPort(link_BDDs'[a], p)
        /\ h \in merged_BDDs'[MergeKey(a)][0] \union merged_BDDs'[MergeKey(a)][p]
    BY <1>8, <1>9, <2>0, <2>1
  <2> QED
    BY <2>0, <2>2
<1>11. ASSUME AllPorts
       PROVE  /\ \A a \in Live \union {r} : \A h \in link_BDDs'[a][0] : Base(0)'[h] = a
              /\ \A k \in MergeKeys : \A h \in merged_BDDs'[k][0] :
                   Base(0)'[h] # NULL /\ MergeKey(Base(0)'[h]) = k
  <2>0. AtTable(r, 0) /\ 0 \in Targets(r) /\ ~ Copied(0)
    BY <1>0, <1>11 DEF AllPorts, AtTable, Targets, Copied
  <2>1. ASSUME NEW h \in link_BDDs'[r][0] PROVE Base(0)'[h] = r
    <3>1. h \in m /\ h \notin Loses(r, 0, Met(r, m, 0, hits)) /\ h \in Headers
      BY <1>m, <1>0, <1>2, <1>6, <2>0
    <3>2. Base(0)[h] = NULL
      <4>1. SUFFICES ASSUME Base(0)[h] # NULL PROVE FALSE
        OBVIOUS
      <4>2. PICK a \in Rules : a = Base(0)[h] /\ a # NULL /\ a < r
        BY <1>0, <1>5, <3>1, <4>1
      <4>3. a \in Met(r, m, 0, hits)
        BY <1>0, <3>1, <4>2 DEF Met
      <4>4. h \in AtPort(link_BDDs[a], 0)
        BY <1>0, <3>1, <4>2 DEF SInv, BuildCovers
      <4>5. h \in Has(a, 0)
        BY <2>0, <4>4 DEF Has, AtPort
      <4> QED
        BY <1>0, <3>1, <4>2, <4>3, <4>5 DEF Loses
    <3> QED
      BY <1>0, <1>5, <2>0, <3>1, <3>2
  <2>2. ASSUME NEW a \in Live, NEW h \in link_BDDs'[a][0] PROVE Base(0)'[h] = a
    <3>1. Base(0)[h] = a
      BY <1>0, <1>2, <1>11 DEF SInv, BuildExact
    <3>2. h \in Headers /\ a # NULL
      BY <1>0, <1>2, SetFacts
    <3> QED
      BY <1>0, <1>5, <3>1, <3>2
  <2>3. ASSUME NEW k \in MergeKeys, NEW h \in merged_BDDs'[k][0]
        PROVE  Base(0)'[h] # NULL /\ MergeKey(Base(0)'[h]) = k
    <3>1. CASE h \in merged_BDDs[k][0]
      <4>1. Base(0)[h] # NULL /\ MergeKey(Base(0)[h]) = k /\ h \in Headers
        BY <1>0, <1>11, <3>1 DEF SInv, SetsTyped, BuildExact
      <4> QED
        BY <1>0, <1>5, <4>1
    <3>2. CASE k = MergeKey(r) /\ h \in link_BDDs'[r][0]
      BY <1>0, <2>1, <3>2
    <3> QED
      BY <1>0, <1>3, <2>3, <3>1, <3>2
  <2> QED
    BY <2>1, <2>2, <2>3
<1> QED
  BY <1>1, <1>6, <1>10, <1>11

\* An insertion only takes headers away from the sets of the common table.
LEMMA AddLinksBelow ==
  ASSUME IInv, SInv, NEW r \in Rules, NEW m \in SUBSET Headers, NEW reset,
         AddRule(r, m, reset), UNCHANGED parsed
  PROVE  LinksBelow'
<1>1. PICK lowFirst \in BOOLEAN, hits \in SUBSET seen :
        link_BDDs' = AddLinks(r, m, hits, lowFirst)
  BY AddRuleSets
<1>2. \A x \in Rules : link_BDDs'[x][0] \subseteq link_BDDs[x][0]
  BY <1>1, LinksOf
<1>3. mf_in' = mf_in /\ lks_in' = lks_in
  BY DEF parsed
<1> QED
  BY <1>2, <1>3 DEF SInv, LinksBelow, AllPorts, OnAllPorts

\* A rule is added where it was missing, and takes what it decides.
LEMMA InsertKeepsTops ==
  ASSUME IInv, SInv, NEW r \in Rules, r = r_i, r \notin Live, Insert(r), phase' # "insert",
         phase \in {"build", "insert"}
  PROVE  TopsHave'
<1>m. PICK m \in SUBSET Headers : m = mf_in[r]
  BY MfType DEF IInv
<1>a. /\ TablesTyped /\ TopsLive /\ readd = {} /\ Rules \subseteq Nat /\ Live \subseteq Rules
      /\ lks_in' = lks_in /\ mf_in' = mf_in /\ AddRule(r, m, TRUE)
      /\ 0 \in Tables /\ NULL \notin Rules /\ LoopState
  BY <1>m, SetFacts, RuleFacts DEF IInv, Insert, parsed
<1>b. \A x \in Rules : x < r => x \in Live
  BY <1>a DEF LoopState
<1>0. /\ TablesTyped /\ TopsLive /\ readd = {} /\ Rules \subseteq Nat /\ Live \subseteq Rules
      /\ lks_in' = lks_in /\ mf_in' = mf_in /\ AddRule(r, m, TRUE)
      /\ 0 \in Tables /\ NULL \notin Rules
      /\ \A x \in Rules : x < r => x \in Live
  BY <1>a, <1>b
<1>1. PICK lowFirst \in BOOLEAN, hits \in SUBSET seen :
        link_BDDs' = AddLinks(r, m, hits, lowFirst) /\ in_mtbdd_r' = AddTop(r, m)
  BY <1>0, AddRuleSets
<1>2. /\ \A x \in Rules : /\ x < r => link_BDDs'[x][0] = link_BDDs[x][0]
                          /\ x > r => link_BDDs[x][0] \ link_BDDs[r][0] \subseteq link_BDDs'[x][0]
      /\ \A p \in Tables :
           link_BDDs'[r][p] = IF p \in Targets(r)
             THEN Start(r, m, p, hits) \ Loses(r, p, Met(r, m, p, hits))
             ELSE link_BDDs[r][p]
  BY <1>1, LinksOf
<1> SUFFICES ASSUME AllPorts, NEW h \in Headers, Base(0)'[h] # NULL
             PROVE  h \in link_BDDs'[Base(0)'[h]][0]
  BY <1>0 DEF TopsHave, AllPorts, OnAllPorts
<1>3. /\ \A x \in Rules : AtTable(x, 0)
      /\ link_BDDs[r][0] = m /\ 0 \in Targets(r) /\ ~ Copied(0)
  BY <1>m, <1>0 DEF AllPorts, AtTable, Targets, Copied, SInv, RulesOut, FullLinks
<1>4. Base(0)'[h] = IF h \in m THEN Top(Base(0)[h], r) ELSE Base(0)[h]
  BY <1>0, <1>1, <1>3, AddBase
<1>5. PICK a : a = Base(0)[h]
  OBVIOUS
<1>6. a \in Live \/ a = NULL
  BY <1>0, <1>5, BaseLive
<1>7. CASE h \in m /\ (a = NULL \/ ~ (a < r))
  <2>1. Base(0)'[h] = r
    BY <1>4, <1>5, <1>7 DEF Top
  <2>2. h \notin Loses(r, 0, Met(r, m, 0, hits))
    <3> SUFFICES ASSUME NEW x \in Met(r, m, 0, hits), x <= r, h \in Has(x, 0) PROVE FALSE
      BY DEF Loses
    <3>1. x \in Rules /\ x # r
      BY <1>0, MetFacts
    <3>2. h \in link_BDDs[x][0]
      BY <1>3 DEF Has
    <3>3. PICK y \in Rules : y <= x /\ h \in mf_in[y]
      BY <3>1, <3>2 DEF SInv, LinksBelow
    <3>4. y < r /\ y \in Live
      BY <1>0, <3>1, <3>3
    <3>5. a \in Live /\ a <= y
      BY <1>0, <1>3, <1>5, <3>3, <3>4, TopIsHighestAt
    <3> QED
      BY <1>0, <1>7, <3>4, <3>5
  <2>3. Start(r, m, 0, hits) = m
    BY <1>3 DEF Start
  <2> QED
    BY <1>0, <1>2, <1>3, <1>7, <2>1, <2>2, <2>3
<1>8. CASE ~ (h \in m /\ (a = NULL \/ ~ (a < r)))
  <2>1. Base(0)'[h] = a /\ a # NULL /\ a \in Live /\ a \in Rules
    BY <1>0, <1>4, <1>5, <1>6, <1>8 DEF Top
  <2>2. h \in link_BDDs[a][0]
    <3>1. h \in link_BDDs[a][0] \/ (r_i < a /\ h \in mf_in[r_i])
      BY <1>0, <1>5, <2>1 DEF SInv, TopsHave
    <3>2. h \in m => a < r
      BY <1>8
    <3>3. ~ (r < a /\ a < r)
      BY <1>a, <2>1
    <3> QED
      BY <1>m, <3>1, <3>2, <3>3
  <2>3. CASE a < r
    BY <1>2, <2>1, <2>2, <2>3
  <2>4. CASE a > r
    <3>1. h \notin m
      BY <1>0, <1>8, <2>1, <2>4
    <3> QED
      BY <1>2, <1>3, <2>1, <2>2, <2>4, <3>1
  <2> QED
    BY <1>0, <2>1, <2>3, <2>4
<1> QED
  BY <1>7, <1>8

\* The insertion of a rule that was out.
LEMMA InsertKeepsSets ==
  ASSUME IInv, SInv, NEW r \in Rules, r = r_i, r \notin Live, Insert(r), r_i' = r_i + 1,
         \/ phase = "build" /\ phase' = "build"
         \/ phase = "insert" /\ phase' = "remove"
  PROVE  SInv'
<1>0. /\ TablesTyped /\ TopsLive /\ readd = {} /\ readd' = {} /\ Rules \subseteq Nat
      /\ Live \subseteq Rules /\ mf_in[r] \in SUBSET Headers /\ UNCHANGED parsed
      /\ lks_in' = lks_in /\ mf_in' = mf_in /\ action' = action /\ AddRule(r, mf_in[r], TRUE)
      /\ type' = [type EXCEPT ![r] = "BS"]
  BY SetFacts, MfType DEF IInv, Insert, parsed
<1>m. PICK m \in SUBSET Headers : m = mf_in[r]
  BY <1>0
<1>1. Live' = Live \union {r}
  BY <1>0 DEF Live, TablesTyped
<1>2. r_i' \in 0 .. NRules
  BY <1>0, RuleFacts
<1>3. SetsTyped'
  BY <1>m, <1>0, <1>2, AddSetsTyped
<1>4. RulesOut'
  <2>1. PICK lowFirst \in BOOLEAN, hits \in SUBSET seen :
          link_BDDs' = AddLinks(r, m, hits, lowFirst)
    BY <1>m, <1>0, AddRuleSets
  <2>2. \A x \in Rules : \A p \in Tables : x # r =>
          (link_BDDs'[x][p] # link_BDDs[x][p] => x \in Met(r, m, p, hits))
    BY <2>1, LinksOf
  <2>3. \A x \in Rules \ Live' : \A p \in Tables : link_BDDs'[x][p] = link_BDDs[x][p]
    BY <1>0, <1>1, <2>2, MetFacts
  <2>4. ASSUME NEW x \in Rules \ Live' PROVE link_BDDs'[x] = FullLinks(x)
    <3>1. link_BDDs[x] = FullLinks(x)
      BY <1>1 DEF SInv, RulesOut
    <3>2. /\ link_BDDs[x] \in [Tables -> SUBSET Headers]
          /\ link_BDDs'[x] \in [Tables -> SUBSET Headers]
      BY <1>3 DEF SInv, SetsTyped
    <3> QED
      BY <2>3, <3>1, <3>2
  <2>5. \A x \in Rules : FullLinks(x)' = FullLinks(x)
    BY <1>0 DEF FullLinks, OnAllPorts
  <2> QED
    BY <1>0, <2>4, <2>5 DEF RulesOut
<1>5. BuildCovers' /\ BuildExact'
  <2>1. CASE phase = "build"
    <3>1. /\ changes' = NoChanges
          /\ \A a \in Rules : \A p \in Tables : link_BDDs'[a][p] \subseteq mf_in[a]
          /\ \A p \in Tables : \A h \in Headers : Base(p)'[h] # NULL =>
               /\ h \in AtPort(link_BDDs'[Base(p)'[h]], p)
               /\ h \in merged_BDDs'[MergeKey(Base(p)'[h])][0]
                          \union merged_BDDs'[MergeKey(Base(p)'[h])][p]
          /\ AllPorts =>
               /\ \A a \in Live \union {r} : \A h \in link_BDDs'[a][0] : Base(0)'[h] = a
               /\ \A k \in MergeKeys : \A h \in merged_BDDs'[k][0] :
                    Base(0)'[h] # NULL /\ MergeKey(Base(0)'[h]) = k
      BY <2>1, BuildKeepsCovers
    <3>2. \A a : MergeKey(a)' = MergeKey(a)
      BY <1>0 DEF MergeKey
    <3>3. BuildCovers'
      BY <1>0, <3>1, <3>2 DEF BuildCovers, NoChanges, AtPort
    <3>4. AllPorts' <=> AllPorts
      BY <1>0 DEF AllPorts, OnAllPorts
    <3>5. BuildExact'
      BY <1>1, <3>1, <3>2, <3>4 DEF BuildExact
    <3> QED
      BY <3>3, <3>5
  <2>2. CASE phase' = "remove"
    BY <2>2 DEF BuildCovers, BuildExact
  <2> QED
    BY <2>1, <2>2
<1>6. LinksBelow'
  BY <1>m, <1>0, AddLinksBelow
<1>7. TopsHave'
  BY InsertKeepsTops
<1> QED
  BY <1>3, <1>4, <1>5, <1>6, <1>7 DEF SInv

\* A hidden rule is put back.
LEMMA ReaddKeepsSets ==
  ASSUME IInv, SInv, NEW x \in Rules, Readd(x), phase = "insert", UNCHANGED <<phase, r_i>>
  PROVE  SInv'
<1>a. /\ TablesTyped /\ TopsLive /\ LoopState /\ Rules \subseteq Nat /\ Live \subseteq Rules
      /\ 0 \in Tables /\ NULL \notin Rules
  BY SetFacts, RuleFacts DEF IInv
<1>r. PICK r \in Rules : r = r_i /\ r = removed
  BY <1>a DEF Readd, TablesTyped, LoopState
<1>0. /\ x \in readd /\ readd' = readd \ {x} /\ UNCHANGED parsed /\ type' = type
      /\ mf_in' = mf_in /\ lks_in' = lks_in /\ action' = action /\ phase' = phase /\ r_i' = r
      /\ AddRule(x, mf_in[r] \intersect mf_in[x], FALSE)
      /\ mf_in[r] \intersect mf_in[x] \in SUBSET Headers
  BY <1>a, <1>r, MfType DEF Readd, RestOfLoop, parsed
<1>m. PICK m \in SUBSET Headers : m = mf_in[r] \intersect mf_in[x]
  BY <1>0
<1>1. Live' = Live /\ x \in Live /\ r < x
  BY <1>a, <1>r, <1>0 DEF Live, TablesTyped, SInv, RulesOut
<1>2. \A y \in Rules : y # r => y \in Live
  BY <1>a, <1>r DEF LoopState
<1>3. SetsTyped'
  BY <1>m, <1>r, <1>0, AddSetsTyped DEF SInv, SetsTyped
<1>4. PICK lowFirst \in BOOLEAN, hits \in SUBSET seen :
        link_BDDs' = AddLinks(x, m, hits, lowFirst) /\ in_mtbdd_r' = AddTop(x, m)
  BY <1>m, <1>0, AddRuleSets
<1>5. /\ \A z \in Rules : \A p \in Tables : z # x =>
           (link_BDDs'[z][p] # link_BDDs[z][p] => z \in Met(x, m, p, hits))
      /\ \A z \in Rules : /\ z < x => link_BDDs'[z][0] = link_BDDs[z][0]
                          /\ z > x => link_BDDs[z][0] \ link_BDDs[x][0] \subseteq link_BDDs'[z][0]
      /\ \A p \in Tables :
           link_BDDs'[x][p] = IF p \in Targets(x)
             THEN Start(x, m, p, hits) \ Loses(x, p, Met(x, m, p, hits))
             ELSE link_BDDs[x][p]
  BY <1>4, LinksOf
<1>6. RulesOut'
  <2>3. \A z \in Rules \ Live : \A p \in Tables : link_BDDs'[z][p] = link_BDDs[z][p]
    BY <1>a, <1>1, <1>5, MetFacts
  <2>4. ASSUME NEW z \in Rules \ Live PROVE link_BDDs'[z] = FullLinks(z)
    <3>1. link_BDDs[z] = FullLinks(z)
      BY DEF SInv, RulesOut
    <3>2. /\ link_BDDs[z] \in [Tables -> SUBSET Headers]
          /\ link_BDDs'[z] \in [Tables -> SUBSET Headers]
      BY <1>3 DEF SInv, SetsTyped
    <3> QED
      BY <2>3, <3>1, <3>2
  <2>5. \A z \in Rules : FullLinks(z)' = FullLinks(z)
    BY <1>0 DEF FullLinks, OnAllPorts
  <2>6. \A z \in readd' : r_i' < z
    BY <1>r, <1>0 DEF SInv, RulesOut
  <2> QED
    BY <1>1, <2>4, <2>5, <2>6 DEF RulesOut
<1>7. BuildCovers' /\ BuildExact'
  BY <1>0 DEF BuildCovers, BuildExact
<1>8. LinksBelow'
  BY <1>m, <1>0, AddLinksBelow
<1>9. TopsHave'
  <2> SUFFICES ASSUME AllPorts, NEW h \in Headers, Base(0)'[h] # NULL
               PROVE  \/ h \in link_BDDs'[Base(0)'[h]][0]
                      \/ r < Base(0)'[h] /\ h \in mf_in[r]
    BY <1>0 DEF TopsHave, AllPorts, OnAllPorts
  <2>1. \A z \in Rules : AtTable(z, 0) /\ Has(z, 0) = link_BDDs[z][0]
    BY DEF AllPorts, AtTable, Has, Copied
  <2>2. Base(0)'[h] = IF h \in m THEN Top(Base(0)[h], x) ELSE Base(0)[h]
    BY <1>a, <1>0, <1>4, <2>1, AddBase
  <2>3. PICK a : a = Base(0)[h]
    OBVIOUS
  <2>4. a \in Live \/ a = NULL
    BY <1>a, <2>3, BaseLive
  <2>5. a # NULL => h \in link_BDDs[a][0] \/ (r < a /\ h \in mf_in[r])
    BY <1>a, <1>r, <2>3 DEF SInv, TopsHave
  <2>6. CASE h \in mf_in[r] /\ r < Base(0)'[h]
    BY <2>6
  <2>7. CASE h \in mf_in[r] /\ ~ (r < Base(0)'[h])
    <3>1. Base(0)'[h] = a /\ a # NULL /\ a \in Rules
      BY <1>a, <1>1, <2>2, <2>3, <2>4, <2>7 DEF Top
    <3>2. h \in link_BDDs[a][0] /\ a < x
      BY <1>a, <1>1, <2>5, <2>7, <3>1
    <3> QED
      BY <1>5, <3>1, <3>2
  <2>8. CASE h \notin mf_in[r]
    <3>1. Base(0)'[h] = a /\ a # NULL /\ a \in Rules /\ h \in link_BDDs[a][0] /\ h \notin mf_in[removed]
      BY <1>m, <1>a, <1>r, <2>2, <2>3, <2>4, <2>5, <2>8
    <3>2. ASSUME NEW z \in Rules, h \in link_BDDs[z][0] PROVE a <= z
      <4>1. PICK y \in Rules : y <= z /\ h \in mf_in[y]
        BY <3>2 DEF SInv, LinksBelow
      <4>2. y \in Live
        BY <1>2, <2>8, <4>1
      <4>3. a <= y
        BY <1>a, <2>1, <2>3, <3>1, <4>1, <4>2, TopIsHighestAt
      <4> QED
        BY <1>a, <3>1, <4>1, <4>3
    <3>3. CASE a < x
      BY <1>5, <3>1, <3>3
    <3>4. CASE a > x
      <4>1. h \notin link_BDDs[x][0]
        BY <1>a, <3>1, <3>2, <3>4
      <4> QED
        BY <1>5, <3>1, <3>4, <4>1
    <3>5. CASE a = x
      <4>1. h \notin Loses(x, 0, Met(x, m, 0, hits))
        <5> SUFFICES ASSUME NEW z \in Met(x, m, 0, hits), z <= x, h \in Has(z, 0) PROVE FALSE
          BY DEF Loses
        <5>1. z \in Rules /\ z # x
          BY <1>a, MetFacts
        <5>2. a <= z
          BY <2>1, <3>2, <5>1
        <5> QED
          BY <1>a, <3>5, <5>1, <5>2
      <4>2. Start(x, m, 0, hits) = link_BDDs[x][0]
        BY DEF Start
      <4>3. h \in Start(x, m, 0, hits) \ Loses(x, 0, Met(x, m, 0, hits))
        BY <3>1, <3>5, <4>1, <4>2
      <4>4. h \in link_BDDs'[x][0]
        <5>1. link_BDDs'[x][0] = IF 0 \in Targets(x)
                THEN Start(x, m, 0, hits) \ Loses(x, 0, Met(x, m, 0, hits))
                ELSE link_BDDs[x][0]
          BY <1>a, <1>5
        <5> QED
          BY <3>1, <3>5, <4>3, <5>1
      <4> QED
        BY <3>1, <3>5, <4>4
    <3> QED
      BY <1>a, <3>1, <3>3, <3>4, <3>5
  <2> QED
    BY <2>6, <2>7, <2>8
<1> QED
  BY <1>3, <1>6, <1>7, <1>8, <1>9 DEF SInv

\* A rule is taken out, and what it hid is given more than it matches.
LEMMA RemoveKeepsSets ==
  ASSUME IInv, SInv, NEW r \in Rules, r = r_i, Remove(r), phase = "remove",
         phase' = "insert", r_i' = r_i
  PROVE  SInv'
<1>a. /\ TablesTyped /\ TopsLive /\ LoopState /\ Rules \subseteq Nat /\ Live \subseteq Rules
      /\ 0 \in Tables /\ NULL \notin Rules /\ Live = Rules /\ CoveringSound
  BY SetFacts, RuleFacts DEF IInv, LoopState
<1>0. /\ readd' = ReaddRules(r) /\ UNCHANGED parsed /\ type[r] = "BS"
      /\ mf_in' = mf_in /\ lks_in' = lks_in /\ action' = action
      /\ type' = [type EXCEPT ![r] = "RM"]
      /\ UNCHANGED <<merged, merged_BDDs, changes>> /\ mf_in[r] \in SUBSET Headers
  BY <1>a, MfType DEF Remove, parsed
<1>1. Live' = Rules \ {r}
  BY <1>a, <1>0 DEF Live, TablesTyped
<1>2. readd' \subseteq Rules \ {r} /\ \A z \in readd' : r < z
  BY <1>a, <1>0 DEF ReaddRules, CoveringSound, TablesTyped
<1>3. \A z \in Rules : link_BDDs'[z] = IF z = r THEN FullLinks(r)
                                       ELSE IF z \in readd' THEN GiveBack(z, r)
                                       ELSE link_BDDs[z]
  BY DEF Remove
<1>4. \A z \in Rules : \A p \in Tables :
        /\ FullLinks(r)[p] \subseteq mf_in[r]
        /\ GiveBack(z, r)[p] = IF link_BDDs[z][p] = {} THEN {} ELSE link_BDDs[z][p] \union mf_in[r]
  BY DEF FullLinks, GiveBack
<1>z. \A z \in Rules :
        /\ z = r => link_BDDs'[z][0] \subseteq mf_in[r]
        /\ z # r /\ z \notin readd' => link_BDDs'[z][0] = link_BDDs[z][0]
        /\ z # r /\ z \in readd' /\ link_BDDs[z][0] = {} => link_BDDs'[z][0] = {}
        /\ z # r /\ z \in readd' /\ link_BDDs[z][0] # {} =>
             link_BDDs'[z][0] = link_BDDs[z][0] \union mf_in[r]
  <2> SUFFICES ASSUME NEW z \in Rules
               PROVE  /\ z = r => link_BDDs'[z][0] \subseteq mf_in[r]
                      /\ z # r /\ z \notin readd' => link_BDDs'[z][0] = link_BDDs[z][0]
                      /\ z # r /\ z \in readd' => link_BDDs'[z][0] = GiveBack(z, r)[0]
    BY <1>a, <1>4
  <2> QED
    BY <1>a, <1>3, <1>4
<1>5. SetsTyped'
  <2>1. link_BDDs' \in [Rules -> [Tables -> SUBSET Headers]]
    <3>1. ASSUME NEW z \in Rules PROVE link_BDDs'[z] \in [Tables -> SUBSET Headers]
      <4>1. FullLinks(r) \in [Tables -> SUBSET Headers]
        BY <1>0 DEF FullLinks
      <4>2. GiveBack(z, r) \in [Tables -> SUBSET Headers]
        BY <1>0, SetFacts DEF GiveBack
      <4>3. link_BDDs[z] \in [Tables -> SUBSET Headers]
        BY DEF SInv, SetsTyped
      <4> QED
        BY <1>3, <4>1, <4>2, <4>3
    <3>2. link_BDDs' = [z \in Rules |-> link_BDDs'[z]]
      BY DEF Remove
    <3> QED
      BY <3>1, <3>2
  <2>2. seen' \subseteq {v \in Rules \X Rules : v[1] # v[2]}
    <3>1. ASSUME NEW p \in RemoveTables(r), NEW a \in TopsAt(r, p) PROVE a \in Rules /\ a # r
      <4>1. p \in Tables
        BY <1>a, SetFacts DEF RemoveTables, Tables
      <4>2. in_mtbdd_r[p] \in [Headers -> Rules \union {NULL}]
        BY <1>a, <4>1 DEF TablesTyped
      <4> QED
        BY <1>0, <4>2 DEF TopsAt
    <3>2. \A v \in seen' : \E p \in RemoveTables(r) : \E a \in TopsAt(r, p) : v = <<a, r>>
      BY DEF Remove
    <3> QED
      BY <3>1, <3>2
  <2> QED
    BY <1>0, <2>1, <2>2 DEF SInv, SetsTyped, MergeKeys
<1>6. RulesOut'
  <2>1. FullLinks(r)' = FullLinks(r)
    BY <1>0 DEF FullLinks, OnAllPorts
  <2> QED
    BY <1>1, <1>2, <1>3, <2>1 DEF RulesOut
<1>7. BuildCovers' /\ BuildExact'
  BY DEF BuildCovers, BuildExact
<1>8. LinksBelow'
  <2> SUFFICES ASSUME AllPorts, NEW z \in Rules, NEW h \in link_BDDs'[z][0]
               PROVE  \E y \in Rules : y <= z /\ h \in mf_in[y]
    BY <1>0 DEF LinksBelow, AllPorts, OnAllPorts
  <2>1. h \in link_BDDs[z][0] \/ (h \in mf_in[r] /\ r <= z)
    BY <1>a, <1>2, <1>z
  <2> QED
    BY <2>1 DEF SInv, LinksBelow
<1>9. TopsHave'
  <2> SUFFICES ASSUME AllPorts, NEW h \in Headers, Base(0)'[h] # NULL
               PROVE  h \in link_BDDs'[Base(0)'[h]][0]
    BY <1>0 DEF TopsHave, AllPorts, OnAllPorts
  <2>0. PICK a : a = in_mtbdd_r[0][h]
    OBVIOUS
  <2>1. Base(0)'[h] = a /\ a # NULL
    <3>1. Base(0)'[h] = in_mtbdd_r'[0][h]
      BY DEF Base, Copied
    <3>2. in_mtbdd_r'[0][h] \in {NULL, a}
      BY <1>a, <2>0 DEF Remove
    <3> QED
      BY <3>1, <3>2
  <2>2. a # r /\ a \in Rules
    <3>1. a \in Rules
      BY <1>a, <2>0, <2>1 DEF TablesTyped
    <3>2. ASSUME a = r PROVE FALSE
      <4>1. h \in mf_in[r]
        BY <1>a, <2>0, <2>1, <3>2 DEF TopsLive
      <4>2. 0 \in RemoveTables(r)
        <5>1. in_mtbdd_r[0] # Empty
          BY <2>0, <2>1 DEF Empty
        <5> QED
          BY <1>a, <5>1 DEF AllPorts, RemoveTables
      <4>3. in_mtbdd_r'[0][h] = NULL
        BY <1>a, <2>0, <3>2, <4>1, <4>2 DEF Remove
      <4>4. Base(0)'[h] = in_mtbdd_r'[0][h]
        BY DEF Base, Copied
      <4> QED
        BY <2>1, <4>3, <4>4
    <3> QED
      BY <3>1, <3>2
  <2>3. h \in link_BDDs[a][0]
    <3>1. Base(0)[h] = a
      BY <2>0 DEF Base, Copied
    <3> QED
      BY <2>1, <3>1 DEF SInv, TopsHave
  <2> QED
    BY <1>z, <2>1, <2>2, <2>3
<1> QED
  BY <1>5, <1>6, <1>7, <1>8, <1>9 DEF SInv

\* The parsed rules have all they match, and the merged sets are empty.
LEMMA SetsInit == DInit => SInv
<1> SUFFICES ASSUME DInit PROVE SInv
  OBVIOUS
<1>0. /\ mf_in \in [Rules -> MatchSets] /\ lks_in \in [Rules -> PortSets]
      /\ action \in [Rules -> Actions]
      /\ type = [r \in Rules |-> "new"] /\ in_mtbdd_r = [p \in Tables |-> Empty]
      /\ link_BDDs = [r \in Rules |-> FullLinks(r)] /\ merged = {}
      /\ merged_BDDs = NoChanges /\ changes = NoChanges /\ seen = {} /\ readd = {}
      /\ phase = "build" /\ r_i = 0
  BY DEF DInit, Init
<1>1. Live = {} /\ \A p \in Tables : \A h \in Headers : Base(p)[h] = NULL
  BY <1>0, RuleFacts DEF Live, Base, Empty
<1>2. \A r \in Rules : mf_in[r] \in SUBSET Headers
  BY <1>0, MatchSetsAssumption
<1>3. NoChanges \in [MergeKeys -> [Tables -> SUBSET Headers]]
  BY DEF NoChanges
<1>4. \A r \in Rules : FullLinks(r) \in [Tables -> SUBSET Headers]
  BY <1>2 DEF FullLinks
<1>5. \A r \in Rules : \A p \in Tables : link_BDDs[r][p] \subseteq mf_in[r]
  BY <1>0 DEF FullLinks
<1>6. SetsTyped
  <2>1. link_BDDs \in [Rules -> [Tables -> SUBSET Headers]]
    BY <1>0, <1>4
  <2>2. r_i \in 0 .. NRules
    BY <1>0, RuleFacts
  <2>3. merged \subseteq Rules /\ seen \subseteq {v \in Rules \X Rules : v[1] # v[2]}
    BY <1>0
  <2> HIDE DEF NoChanges
  <2> QED
    BY <1>0, <1>3, <2>1, <2>2, <2>3 DEF SetsTyped
<1>7. RulesOut
  BY <1>0 DEF RulesOut
<1>8. BuildCovers
  BY <1>0, <1>1, <1>5 DEF BuildCovers
<1>9. BuildExact
  BY <1>0, <1>1, RuleFacts DEF BuildExact, NoChanges
<1>10. LinksBelow
  BY <1>5, RuleFacts DEF LinksBelow
<1>11. TopsHave
  BY <1>1, RuleFacts DEF TopsHave
<1> QED
  BY <1>6, <1>7, <1>8, <1>9, <1>10, <1>11 DEF SInv

\* Every step of the program keeps what is said of the sets.
LEMMA SetsNext == IInv /\ SInv /\ [DNext]_dvars => SInv'
<1> SUFFICES ASSUME IInv, SInv, [DNext]_dvars PROVE SInv'
  OBVIOUS
<1>0. Rules = 0 .. NRules - 1 /\ NRules \in Nat /\ r_i \in Nat /\ LoopState
  BY NRulesAssumption DEF IInv, TablesTyped
<1>1. CASE UNCHANGED dvars
  <2>1. /\ UNCHANGED <<mf_in, lks_in, action, type, in_mtbdd_r, link_BDDs, merged, merged_BDDs>>
        /\ UNCHANGED <<changes, seen, readd, phase, r_i>>
    BY <1>1 DEF dvars, vars, parsed
  <2>2. SetsTyped'
    BY <2>1 DEF SInv, SetsTyped
  <2>3. RulesOut'
    BY <2>1 DEF SInv, RulesOut, Live, FullLinks, OnAllPorts
  <2>4. LinksBelow' /\ TopsHave'
    BY <2>1 DEF SInv, LinksBelow, TopsHave, AllPorts, OnAllPorts, Base, Copied
  <2>5. BuildCovers'
    BY <2>1 DEF SInv, BuildCovers, Base, Copied, AtPort, MergeKey, NoChanges
  <2>6. BuildExact'
    BY <2>1 DEF SInv, BuildExact, Live, Base, Copied, MergeKey, AllPorts, OnAllPorts
  <2> QED
    BY <2>2, <2>3, <2>4, <2>5, <2>6 DEF SInv
<1>2. CASE Build
  <2>1. PICK r \in Rules : r = r_i
    BY <1>0, <1>2 DEF Build
  <2>2. r \notin Live
    BY <1>0, <1>2, <2>1 DEF Build, LoopState
  <2> QED
    BY <1>2, <2>1, <2>2, InsertKeepsSets DEF Build
<1>3. CASE StartReadd
  <2>1. /\ UNCHANGED <<mf_in, lks_in, action, type, in_mtbdd_r, link_BDDs, merged, merged_BDDs>>
        /\ UNCHANGED <<changes, seen, readd>> /\ phase' = "remove" /\ r_i' = 0
        /\ phase = "build" /\ readd = {}
    BY <1>3 DEF StartReadd, vars, parsed, IInv, TablesTyped
  <2>2. SetsTyped'
    BY <1>0, <2>1 DEF SInv, SetsTyped
  <2>3. RulesOut'
    BY <2>1 DEF SInv, RulesOut, Live, FullLinks, OnAllPorts
  <2>4. LinksBelow' /\ BuildCovers' /\ BuildExact'
    BY <2>1 DEF SInv, LinksBelow, AllPorts, OnAllPorts, BuildCovers, BuildExact
  <2>5. TopsHave'
    BY <2>1 DEF SInv, TopsHave, AllPorts, OnAllPorts, Base, Copied
  <2> QED
    BY <2>2, <2>3, <2>4, <2>5 DEF SInv
<1>4. CASE RemoveOne
  <2>1. PICK r \in Rules : r = r_i
    BY <1>0, <1>4 DEF RemoveOne
  <2> QED
    BY <1>4, <2>1, RemoveKeepsSets DEF RemoveOne
<1>5. CASE ReaddHidden
  <2>1. phase = "insert" /\ UNCHANGED <<phase, r_i>>
    BY <1>5 DEF ReaddHidden
  <2>2. PICK x \in Rules : Readd(x)
    BY <1>5 DEF ReaddHidden
  <2> QED
    BY <2>1, <2>2, ReaddKeepsSets
<1>6. CASE InsertOne
  <2>1. PICK r \in Rules : r = r_i
    BY <1>0, <1>6 DEF InsertOne, LoopState
  <2>2. r \notin Live
    BY <1>0, <1>6, <2>1 DEF InsertOne, LoopState
  <2> QED
    BY <1>6, <2>1, <2>2, InsertKeepsSets DEF InsertOne
<1> QED
  BY <1>1, <1>2, <1>3, <1>4, <1>5, <1>6 DEF DNext, Finished

\* The invariant of the tables and of the sets beside them.
THEOREM Invariant == DSpec => [](IInv /\ SInv)
<1>1. DInit => IInv /\ SInv
  BY InitInvariant, SetsInit
<1>2. IInv /\ SInv /\ [DNext]_dvars => (IInv /\ SInv)'
  BY NextInvariant, SetsNext
<1> QED
  BY <1>1, <1>2, PTL DEF DSpec

\* Every variable of the program of test_deltar.c keeps its type.
THEOREM TypeCorrect == DSpec => []TypeOK
<1>1. IInv /\ SInv => TypeOK
  <2> SUFFICES ASSUME IInv, SInv PROVE TypeOK
    OBVIOUS
  <2>1. TablesTyped /\ SetsTyped /\ readd \subseteq Rules
    BY DEF IInv, SInv, TablesTyped, Live
  <2> QED
    BY <2>1 DEF TypeOK, TablesTyped, SetsTyped
<1> QED
  BY <1>1, Invariant, PTL

\* At rest a rule decides at a port what the port's table leads to it.
LEMMA DecidesIsTop ==
  ASSUME IInv, AtRest, NEW p \in Ports, NEW r \in Live, p \in lks_in[r], NEW h
  PROVE  h \in Decides(r, p) <=> h \in Headers /\ Base(p)[h] = r
<1>0. /\ TablesTyped /\ TopsLive /\ p \in Tables /\ r \in Rules /\ NULL \notin Rules
      /\ mf_in[r] \in SUBSET Headers
  BY RuleFacts, MfType DEF IInv, Live
<1>1. \A k \in Headers : Base(p)[k] = Best(mf_in, LiveAt(p), k)
  BY TopsAreBest DEF TopCorrect
<1>2. \A k \in Headers : Base(p)[k] = r => k \in mf_in[r]
  BY <1>0, BaseLive
<1> QED
  BY <1>0, <1>1, <1>2 DEF Decides

\* Where all rules are for all ports, every port reads what table 0 shows.
LEMMA OneTable ==
  ASSUME IInv, AtRest, AllPorts, NEW p \in Ports, NEW h \in Headers
  PROVE  Base(p)[h] = Base(0)[h]
<1>0. /\ TablesTyped /\ TopsLive /\ p \in Tables /\ 0 \in Tables /\ Rules \subseteq Nat
      /\ NULL \notin Rules /\ Live \subseteq Rules
  BY RuleFacts DEF IInv, Live
<1>1. \A r \in Rules : \A q \in Tables : AtTable(r, q)
  BY <1>0, RuleFacts DEF AllPorts, AtTable, OnAllPorts
<1>2. ASSUME NEW q \in {0, p}, NEW k \in {0, p}, Base(q)[h] # NULL
      PROVE  Base(k)[h] \in Live /\ Base(k)[h] <= Base(q)[h]
  <2>1. q \in Tables /\ k \in Tables
    BY <1>0
  <2>2. Base(q)[h] \in Live /\ h \in mf_in[Base(q)[h]]
    BY <1>0, <1>2, <2>1, BaseLive
  <2> QED
    BY <1>0, <1>1, <2>1, <2>2, TopIsHighest
<1>3. CASE Base(p)[h] = NULL /\ Base(0)[h] = NULL
  BY <1>3
<1>4. CASE Base(p)[h] # NULL \/ Base(0)[h] # NULL
  <2> PICK a, b : a = Base(p)[h] /\ b = Base(0)[h]
    OBVIOUS
  <2>1. a \in Live /\ b \in Live
    BY <1>2, <1>4
  <2>2. a <= b /\ b <= a
    BY <1>0, <1>2, <2>1
  <2> QED
    BY <1>0, <2>1, <2>2
<1> QED
  BY <1>3, <1>4

\* While the tables are built the delta of R loses no header that a rule decides,
\* at any port, although rules for different ports share tables and merged rules.
THEOREM DeltaLosesNothing == DSpec => []DeltaCovers
<1>1. IInv /\ SInv => DeltaCovers
  <2> SUFFICES ASSUME IInv, SInv, phase = "build", NEW r \in Live, NEW p \in lks_in[r],
                      NEW h \in Decides(r, p)
               PROVE  /\ h \in AtPort(link_BDDs[r], p)
                      /\ h \in merged_BDDs[MergeKey(r)][0] \union merged_BDDs[MergeKey(r)][p]
    BY DEF DeltaCovers
  <2>1. p \in Ports /\ p \in Tables /\ r # NULL
    BY SetFacts, RuleFacts
  <2>2. h \in Headers /\ Base(p)[h] = r
    BY <2>1, DecidesIsTop DEF AtRest
  <2> QED
    BY <2>1, <2>2 DEF SInv, BuildCovers
<1> QED
  BY <1>1, Invariant, PTL

\* Where all rules are for all ports the sets are exact when the build ends: a
\* rule has what it decides, and a merged rule what its rules decide.
THEOREM DeltaIsExact == DSpec => []DeltaExact
<1>1. IInv /\ SInv => DeltaExact
  <2> SUFFICES ASSUME IInv, SInv, AllPorts, phase = "build" PROVE DeltaExact
    BY DEF DeltaExact
  <2>0. /\ 0 \in Tables /\ NULL \notin Rules /\ Live \subseteq Rules /\ AtRest
        /\ TablesTyped /\ TopsLive
    BY SetFacts, RuleFacts DEF AtRest, IInv
  <2>1. ASSUME NEW r \in Live, NEW p \in Ports, NEW h
        PROVE  h \in Decides(r, p) <=> h \in Headers /\ Base(0)[h] = r
    <3>1. p \in lks_in[r]
      BY <2>0 DEF AllPorts, OnAllPorts
    <3> QED
      BY <2>0, <3>1, DecidesIsTop, OneTable
  <2>2. ASSUME NEW h \in Headers, Base(0)[h] # NULL
        PROVE  /\ h \in link_BDDs[Base(0)[h]][0] /\ h \in merged_BDDs[MergeKey(Base(0)[h])][0]
               /\ Base(0)[h] \in Live
    BY <2>0, <2>2, BaseLive DEF SInv, BuildCovers, AtPort
  <2>3. ASSUME NEW r \in Live, NEW p \in lks_in[r] PROVE link_BDDs[r][0] = Decides(r, p)
    <3>1. p \in Ports /\ r # NULL /\ link_BDDs[r][0] \subseteq Headers
      BY <2>0, SetFacts
    <3>2. \A h \in link_BDDs[r][0] : Base(0)[h] = r
      BY DEF SInv, BuildExact
    <3>3. \A h : h \in link_BDDs[r][0] <=> h \in Headers /\ Base(0)[h] = r
      BY <2>2, <3>1, <3>2
    <3>4. \A h : h \in Decides(r, p) <=> h \in Headers /\ Base(0)[h] = r
      BY <2>1, <3>1
    <3> QED
      BY <3>3, <3>4
  <2>4. ASSUME NEW k \in MergeKeys, NEW p \in k[2]
        PROVE  merged_BDDs[k][0] = UNION {Decides(r, p) : r \in {x \in Live : MergeKey(x) = k}}
    <3>1. p \in Ports
      BY PortsAssumption DEF MergeKeys
    <3>2. merged_BDDs[k][0] \subseteq Headers
      BY <2>0 DEF SInv, SetsTyped
    <3>3. ASSUME NEW h \in merged_BDDs[k][0]
          PROVE  \E r \in Live : MergeKey(r) = k /\ h \in Decides(r, p)
      <4>1. Base(0)[h] # NULL /\ MergeKey(Base(0)[h]) = k
        BY DEF SInv, BuildExact
      <4> QED
        BY <2>1, <2>2, <3>1, <3>2, <4>1
    <3>4. ASSUME NEW r \in Live, MergeKey(r) = k, NEW h \in Decides(r, p)
          PROVE  h \in merged_BDDs[k][0]
      BY <2>0, <2>1, <2>2, <3>1, <3>4
    <3> QED
      BY <3>3, <3>4
  <2> QED
    BY <2>3, <2>4 DEF DeltaExact
<1> QED
  BY <1>1, Invariant, PTL

\* There lks_in_bdd of a rule holds all it decides after any number of removals
\* and insertions, although by then it may hold headers of others.
THEOREM LinksStillCover == DSpec => []LinksCover
<1>1. IInv /\ SInv => LinksCover
  <2> SUFFICES ASSUME IInv, SInv, AllPorts, AtRest, NEW r \in Live, NEW p \in lks_in[r],
                      NEW h \in Decides(r, p)
               PROVE  h \in link_BDDs[r][0]
    BY DEF LinksCover
  <2>1. p \in Ports /\ r # NULL
    BY SetFacts, RuleFacts
  <2>2. h \in Headers /\ Base(0)[h] = r
    BY <2>1, DecidesIsTop, OneTable
  <2> QED
    BY <2>1, <2>2 DEF SInv, TopsHave, AtRest
<1> QED
  BY <1>1, Invariant, PTL
=============================================================================
