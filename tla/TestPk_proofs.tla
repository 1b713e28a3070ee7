--------------------------- MODULE TestPk_proofs ----------------------------
(***************************************************************************)
(* What is proved of the MTBDD driver and of the RuleChecker driver holds  *)
(* of the whole program, whose every step is a step of one of them or      *)
(* leaves its variables alone; and the two generate the same tests.        *)
(***************************************************************************)
EXTENDS TestPk, TLAPS

MP == INSTANCE MtbddDriver_proofs WITH removed <- m_removed, phase <- m_phase
RP == INSTANCE RuleCheckerDriver_proofs WITH removed <- rc_removed, phase <- rc_phase

\* The program starts where the driver starts.
LEMMA StartsDriver == Init => MP!DInit
BY DEF Init, M!DInit, M!Init, MP!DInit, MP!Init, M!Zero, MP!Zero,
       M!Terminal, MP!Terminal, M!Rh, MP!Rh, M!Rl, MP!Rl

\* The operators of the table mean the same in the module and in its proofs.
LEMMA SameInsert == ASSUME NEW r PROVE M!Insert(r) <=> MP!Insert(r)
BY DEF M!Insert, MP!Insert, M!AddRule, MP!AddRule, M!AddTerminal, MP!AddTerminal,
       M!AddCovering, MP!AddCovering, M!AddSelf, MP!AddSelf, M!Claims, MP!Claims,
       M!MetBefore, MP!MetBefore, M!Touched, MP!Touched, M!Joins, MP!Joins,
       M!JoinOf, MP!JoinOf, M!Terminal, MP!Terminal, M!Zero, MP!Zero,
       M!Leaf, MP!Leaf, M!Rh, MP!Rh, M!Rl, MP!Rl

LEMMA SameRemove ==
  ASSUME NEW r
  PROVE  (M!RemoveNothing(r) \/ M!Remove(r)) <=> (MP!RemoveNothing(r) \/ MP!Remove(r))
BY DEF M!Remove, MP!Remove, M!RemoveNothing, MP!RemoveNothing, M!ReaddRules,
       MP!ReaddRules, M!RemoveTerminal, MP!RemoveTerminal, M!VirtualMf, MP!VirtualMf,
       M!Terminal, MP!Terminal, M!Zero, MP!Zero, M!Leaf, MP!Leaf, M!Rh, MP!Rh,
       M!vars, MP!vars

LEMMA SameReadd == ASSUME NEW r PROVE M!Readd(r) <=> MP!Readd(r)
BY DEF M!Readd, MP!Readd, M!RestOfLoop, MP!RestOfLoop, M!VirtualMf, MP!VirtualMf,
       M!AddRule, MP!AddRule, M!AddTerminal, MP!AddTerminal,
       M!AddCovering, MP!AddCovering, M!AddSelf, MP!AddSelf, M!Claims, MP!Claims,
       M!MetBefore, MP!MetBefore, M!Touched, MP!Touched, M!Joins, MP!Joins,
       M!JoinOf, MP!JoinOf, M!Terminal, MP!Terminal, M!Zero, MP!Zero,
       M!Leaf, MP!Leaf, M!Rh, MP!Rh, M!Rl, MP!Rl

\* A step of the program is one of the driver, or leaves its variables alone.
LEMMA StepsDriver == [Next]_vars => MP!DNext \/ UNCHANGED MP!dvars
<1> SUFFICES ASSUME [Next]_vars PROVE MP!DNext \/ UNCHANGED MP!dvars
  OBVIOUS
<1> USE DEF mvars, MP!dvars, MP!vars
<1>1. CASE MtbddStep
  <2>1. CASE M!Build
    BY <2>1, SameInsert DEF MP!DNext, M!Build, MP!Build
  <2>2. CASE M!RemoveOne
    BY <2>2, SameRemove DEF MP!DNext, M!RemoveOne, MP!RemoveOne
  <2>3. CASE M!ReaddHidden
    BY <2>3, SameReadd DEF MP!DNext, M!ReaddHidden, MP!ReaddHidden
  <2>4. CASE M!InsertOne
    BY <2>4, SameInsert DEF MP!DNext, M!InsertOne, MP!InsertOne
  <2> QED
    BY <1>1, <2>1, <2>2, <2>3, <2>4 DEF MtbddStep
<1>2. CASE MtbddBuilt
  BY <1>2 DEF MtbddBuilt, MP!DNext, M!StartReadd, MP!StartReadd, M!vars
<1>3. CASE MtbddDone
  BY <1>3 DEF MtbddDone
<1>4. CASE RcStep
  BY <1>4 DEF RcStep, R!InsertForall, R!RemoveOne, R!UncoverOne, R!ReaddOne,
              R!UpdateProbesInsert, R!UpdateProbesRemove, R!Uncover
<1>5. CASE RcBuilt
  BY <1>5 DEF RcBuilt, R!StartReadd, R!vars, CountRuleChecker
<1>6. CASE RcDone
  BY <1>6 DEF RcDone, CountRuleChecker
<1>7. CASE UNCHANGED vars
  BY <1>7 DEF vars
<1> QED
  BY <1>1, <1>2, <1>3, <1>4, <1>5, <1>6, <1>7 DEF Next, Finished

\* The driver's invariant holds of the program.
LEMMA ProgramInvariant == Spec => []MP!DriverInv
<1>1. Init => MP!DriverInv
  BY StartsDriver, MP!DriverInit, RulesAssumption, HeadersAssumption, NRulesAssumption
<1>2. MP!DriverInv /\ [Next]_vars => MP!DriverInv'
  BY StepsDriver, MP!DriverNext, RulesAssumption, HeadersAssumption, NRulesAssumption DEF MP!dvars
<1> QED
  BY <1>1, <1>2, PTL DEF Spec

\* In the whole program, too, every pair at rest names the rule that decides
\* the header and the one that would decide it next.
THEOREM PairsExact == Spec => []PairExact
<1>1. MP!DriverInv => MP!PairExact
  BY MP!InvNamesPairs, RulesAssumption, HeadersAssumption, NRulesAssumption
<1>2. MP!PairExact => PairExact
  BY DEF PairExact, M!PairExact, MP!PairExact, M!AtRest, MP!AtRest, M!Zero, MP!Zero,
         M!Rl, MP!Rl, M!Rh, MP!Rh, M!BestWithout, MP!BestWithout, M!Best, MP!Best,
         M!Matching, MP!Matching, M!Live, MP!Live
<1> QED
  BY <1>1, <1>2, ProgramInvariant, PTL

\* In the whole program, too, self_bdd of a terminal is its region.
THEOREM SelfIsExact == Spec => []SelfExact
<1>1. Init => MP!SelfInv
  BY StartsDriver, MP!SelfInit, RulesAssumption, HeadersAssumption, NRulesAssumption
<1>2. MP!DriverInv /\ MP!SelfInv /\ [Next]_vars => MP!SelfInv'
  BY StepsDriver, MP!SelfNext, RulesAssumption, HeadersAssumption, NRulesAssumption
<1>3. MP!DriverInv /\ MP!SelfInv => MP!SelfExact
  BY MP!InvSelf, RulesAssumption, HeadersAssumption, NRulesAssumption
<1>4. MP!SelfExact => SelfExact
  BY DEF SelfExact, M!SelfExact, MP!SelfExact, M!AtRest, MP!AtRest, M!Terminal, MP!Terminal,
         M!Rh, MP!Rh, M!Live, MP!Live, M!Region, MP!Region
<1> QED
  BY <1>1, <1>2, <1>3, <1>4, ProgramInvariant, PTL DEF Spec

-----------------------------------------------------------------------------
(* The same for the RuleChecker driver.                                    *)

LEMMA StartsRcDriver == Init => RP!DInit
BY DEF Init, R!DInit, R!Init, RP!DInit, RP!Init

\* The operators of RuleChecker mean the same in the module and in its proofs.
LEMMA SameRcInsert == ASSUME NEW r PROVE R!UpdateProbesInsert(r) <=> RP!UpdateProbesInsert(r)
BY DEF R!UpdateProbesInsert, RP!UpdateProbesInsert, R!InsertAbove, RP!InsertAbove,
       R!InsertBelow, RP!InsertBelow, R!OwnProbeSet, RP!OwnProbeSet, R!OwnProbes, RP!OwnProbes,
       R!Losers, RP!Losers, R!HitOf, RP!HitOf, R!Hit, RP!Hit, R!Above, RP!Above,
       R!Below, RP!Below, R!Yields, RP!Yields, R!NonEmpty, RP!NonEmpty, R!Kept, RP!Kept,
       R!InOrder, RP!InOrder, R!Cardinality, RP!Cardinality

LEMMA SameRcRemove == ASSUME NEW r PROVE R!UpdateProbesRemove(r) <=> RP!UpdateProbesRemove(r)
BY DEF R!UpdateProbesRemove, RP!UpdateProbesRemove, R!RemoveAbove, RP!RemoveAbove,
       R!Above, RP!Above, R!Below, RP!Below, R!Kept, RP!Kept, R!InOrder, RP!InOrder, R!Cardinality, RP!Cardinality

LEMMA SameRcUncover == ASSUME NEW r PROVE R!Uncover(r) <=> RP!Uncover(r)
BY DEF R!Uncover, RP!Uncover, R!Resplit, RP!Resplit, R!ProbeOver, RP!ProbeOver,
       R!Hit, RP!Hit, R!Above, RP!Above, R!Kept, RP!Kept, R!InOrder, RP!InOrder, R!Cardinality, RP!Cardinality

LEMMA SameProbeSet == NULL \notin RP!ProbeSet
BY NullAssumption DEF R!ProbeSet, RP!ProbeSet, R!Probe, RP!Probe

LEMMA SameCardinality == ASSUME NEW S PROVE RP!Cardinality(S) = Cardinality(S)
BY DEF RP!Cardinality, Cardinality

\* A step of the program is one of the driver, or leaves its variables alone.
LEMMA StepsRcDriver == [Next]_vars => [RP!DNext]_(RP!dvars)
<1> SUFFICES ASSUME [Next]_vars PROVE RP!DNext \/ UNCHANGED RP!dvars
  OBVIOUS
<1> USE DEF rvars, RP!dvars, RP!vars
<1>1. CASE RcStep
  <2>1. CASE R!InsertForall
    BY <2>1, SameRcInsert DEF RP!DNext, R!InsertForall, RP!InsertForall
  <2>2. CASE R!RemoveOne
    BY <2>2, SameRcRemove DEF RP!DNext, R!RemoveOne, RP!RemoveOne
  <2>3. CASE R!UncoverOne
    BY <2>3, SameRcUncover DEF RP!DNext, R!UncoverOne, RP!UncoverOne
  <2>4. CASE R!ReaddOne
    BY <2>4, SameRcInsert DEF RP!DNext, R!ReaddOne, RP!ReaddOne
  <2> QED
    BY <1>1, <2>1, <2>2, <2>3, <2>4 DEF RcStep
<1>2. CASE RcBuilt
  BY <1>2 DEF RcBuilt, RP!DNext, R!StartReadd, RP!StartReadd, R!vars
<1>3. CASE RcDone
  BY <1>3 DEF RcDone
<1>4. CASE MtbddStep
  BY <1>4 DEF MtbddStep, M!Build, M!RemoveOne, M!ReaddHidden, M!InsertOne,
              M!Insert, M!RemoveNothing, M!Remove, M!Readd, M!vars
<1>5. CASE MtbddBuilt
  BY <1>5 DEF MtbddBuilt, M!StartReadd, M!vars, GetMtbddProbesNum
<1>6. CASE MtbddDone
  BY <1>6 DEF MtbddDone, GetMtbddProbesNum
<1>7. CASE UNCHANGED vars
  BY <1>7 DEF vars
<1> QED
  BY <1>1, <1>2, <1>3, <1>4, <1>5, <1>6, <1>7 DEF Next, Finished

LEMMA RcInvariant == Spec => []RP!DriverInv
<1>1. Init => RP!DriverInv
  BY StartsRcDriver, RP!DriverInit, SameProbeSet,
     RulesAssumption, HeadersAssumption, NRulesAssumption
<1>2. RP!DriverInv /\ [Next]_vars => RP!DriverInv'
  BY StepsRcDriver, RP!DriverNext, SameProbeSet,
     RulesAssumption, HeadersAssumption, NRulesAssumption
<1> QED
  BY <1>1, <1>2, PTL DEF Spec

\* In the whole program, too, every header that a rule decides is in one of its
\* probes whenever all rules are in the net.
THEOREM RestIsComplete == Spec => []RestComplete
<1>1. RP!DriverInv => RP!RestComplete
  BY RP!InvComplete, SameProbeSet, RulesAssumption, HeadersAssumption, NRulesAssumption
<1>2. RP!RestComplete => RestComplete
  BY DEF RestComplete, R!RestComplete, RP!RestComplete, R!RestPoint, RP!RestPoint,
         R!ProbesComplete, RP!ProbesComplete, R!UnionOf, RP!UnionOf
<1> QED
  BY <1>1, <1>2, RcInvariant, PTL

-----------------------------------------------------------------------------
(* The two tables against each other, when all rules are in both.          *)

\* The MTBDD has its exact pairs for all rules.
MtbddFull == MP!TypeOK /\ MP!ExactAt(Rules)

\* Rule r decides h, and o, or no rule, would decide it next.
Decided(r, o, h) == RP!First(mf_in, Rules, r, h) /\ RP!IsNext(mf_in, Rules, r, o, h)

\* The pair of a header is the rule that decides it and the one that would
\* decide it next.
LEMMA PairIsDecided ==
  ASSUME MtbddFull
  PROVE  /\ \A h \in Headers : mtbdd[h] # M!Zero =>
              mtbdd[h] \in Rules \X (Rules \union {NULL}) /\ Decided(mtbdd[h][1], mtbdd[h][2], h)
         /\ \A h \in Headers : \A t \in Rules \X (Rules \union {NULL}) :
              Decided(t[1], t[2], h) => mtbdd[h] = t
<1> DEFINE O == Rules \union {NULL}
<1>1. NULL \notin Rules /\ Rules \subseteq Nat
  BY RulesAssumption
<1>2. mtbdd \in [Headers -> O \X O]
  BY DEF MtbddFull, MP!TypeOK, MP!Terminal
<1>3. \A h \in Headers :
        LET v == mtbdd[h]
            M1 == {x \in Rules : h \in mf_in[x]}
        IN  /\ v = <<NULL, NULL>> => M1 = {}
            /\ v # <<NULL, NULL>> =>
                 /\ v[1] \in M1
                 /\ \A y \in M1 : v[1] <= y
                 /\ \A y \in M1 \ {v[1]} : v[2] # NULL /\ v[2] <= y
                 /\ v[2] # NULL => v[2] \in M1 \ {v[1]}
  BY DEF MtbddFull, MP!ExactAt, MP!Exact, MP!Matching, MP!Zero, MP!Rh, MP!Rl
<1>4. \A h \in Headers : mtbdd[h] # M!Zero =>
        mtbdd[h] \in Rules \X O /\ Decided(mtbdd[h][1], mtbdd[h][2], h)
  <2> SUFFICES ASSUME NEW h \in Headers, mtbdd[h] # M!Zero
               PROVE  mtbdd[h] \in Rules \X O /\ Decided(mtbdd[h][1], mtbdd[h][2], h)
    OBVIOUS
  <2>1. PICK a \in O, b \in O : mtbdd[h] = <<a, b>>
    BY <1>2
  <2>2. /\ a \in Rules /\ h \in mf_in[a] /\ \A y \in Rules : h \in mf_in[y] => a <= y
        /\ \A y \in Rules \ {a} : h \in mf_in[y] => b # NULL /\ b <= y
        /\ b # NULL => b \in Rules \ {a} /\ h \in mf_in[b]
    BY <1>3, <2>1 DEF M!Zero
  <2>3. RP!First(mf_in, Rules, a, h)
    BY <2>2 DEF RP!First
  <2>4. RP!IsNext(mf_in, Rules, a, b, h)
    BY <2>2 DEF RP!IsNext, RP!First
  <2> QED
    BY <2>1, <2>2, <2>3, <2>4 DEF Decided
<1>5. \A h \in Headers : \A t \in Rules \X O : Decided(t[1], t[2], h) => mtbdd[h] = t
  <2> SUFFICES ASSUME NEW h \in Headers, NEW r \in Rules, NEW o \in O, Decided(r, o, h)
               PROVE  mtbdd[h] = <<r, o>>
    OBVIOUS
  <2>1. r \in Rules /\ h \in mf_in[r] /\ \A x \in Rules : h \in mf_in[x] => r <= x
    BY DEF Decided, RP!First
  <2>2. mtbdd[h] # <<NULL, NULL>>
    BY <1>3, <2>1
  <2>3. PICK a \in Rules, b \in O : mtbdd[h] = <<a, b>> /\ Decided(a, b, h)
    BY <1>4, <2>2 DEF M!Zero
  <2>4. a = r
    BY <1>1, <2>1, <2>3 DEF Decided, RP!First
  <2>5. b = o
    <3>1. Rules \in SUBSET Rules
      OBVIOUS
    <3>2. RP!IsNext(mf_in, Rules, r, o, h) /\ RP!IsNext(mf_in, Rules, r, b, h)
      BY <2>3, <2>4 DEF Decided
    <3> QED
      BY <3>1, <3>2, RP!NextUnique, SameProbeSet,
         RulesAssumption, HeadersAssumption, NRulesAssumption
  <2> QED
    BY <2>3, <2>4, <2>5
<1> QED
  BY <1>4, <1>5

\* The value nodes of the MTBDD are the pairs that the probes are for, each with
\* the headers of that pair.
LEMMA MtbddIsAllPairs ==
  ASSUME MtbddFull
  PROVE  /\ MtbddProbes = RP!AllPairs
         /\ \A t \in RP!AllPairs : \A h : h \in M!Region(t) <=> h \in Headers /\ Decided(t[1], t[2], h)
<1>1. /\ \A h \in Headers : mtbdd[h] # M!Zero =>
            mtbdd[h] \in Rules \X (Rules \union {NULL}) /\ Decided(mtbdd[h][1], mtbdd[h][2], h)
      /\ \A h \in Headers : \A t \in Rules \X (Rules \union {NULL}) :
            Decided(t[1], t[2], h) => mtbdd[h] = t
  BY PairIsDecided
<1>2. \A t : t \in RP!AllPairs <=> /\ t \in Rules \X (Rules \union {NULL})
                                   /\ \E h \in Headers : Decided(t[1], t[2], h)
  BY DEF RP!AllPairs, Decided
<1>3. \A t \in Rules \X (Rules \union {NULL}) : t # M!Zero
  BY RulesAssumption DEF M!Zero
<1>4. \A t : t \in MtbddProbes <=> t # M!Zero /\ \E h \in Headers : t = mtbdd[h]
  BY DEF MtbddProbes
<1>5. \A t \in RP!AllPairs : \A h : h \in M!Region(t) <=> h \in Headers /\ Decided(t[1], t[2], h)
  BY <1>1, <1>2, <1>3 DEF M!Region
<1>6. \A t : t \in MtbddProbes <=> t \in RP!AllPairs
  BY <1>1, <1>2, <1>3, <1>4
<1> QED
  BY <1>5, <1>6

\* Exactly the same tests.
LEMMA TestsAgree ==
  ASSUME MtbddFull, RP!AllIn
  PROVE  MtbddTests = RcTests
<1> DEFINE O == Rules \union {NULL}
           over(p) == pbset[p[1]].probes[p[2]].override
           match(p) == pbset[p[1]].probes[p[2]].bdd_mf
<1>1. RcProbes = RP!AllProbes
  BY SameCardinality DEF RcProbes, RP!AllProbes
<1>2. /\ \A p \in RcProbes : over(p) \in O /\ \A h : h \in match(p) <=> h \in Headers /\ Decided(p[1], over(p), h)
      /\ \A t \in RP!AllPairs : \E p \in RcProbes : p[1] = t[1] /\ over(p) = t[2] /\ match(p) # {}
  <2>1. /\ \A p \in RP!AllProbes :
              /\ RP!OverrideOf(p) \in O
              /\ \A h : h \in RP!MatchOf(p) <=>
                   /\ h \in Headers /\ RP!First(mf_in, Rules, p[1], h)
                   /\ RP!IsNext(mf_in, Rules, p[1], RP!OverrideOf(p), h)
        /\ \A t \in RP!AllPairs : \E p \in RP!AllProbes :
              p[1] = t[1] /\ RP!OverrideOf(p) = t[2] /\ RP!MatchOf(p) # {}
    BY RP!ProbesAreTests, SameProbeSet, RulesAssumption, HeadersAssumption, NRulesAssumption
  <2> QED
    BY <1>1, <2>1 DEF Decided, RP!OverrideOf, RP!MatchOf
<1>3. /\ MtbddProbes = RP!AllPairs
      /\ \A t \in RP!AllPairs : \A h : h \in M!Region(t) <=> h \in Headers /\ Decided(t[1], t[2], h)
  BY MtbddIsAllPairs
<1>4. \A p \in RcProbes : p[1] \in Rules
  BY DEF RcProbes
<1>5. \A p \in RcProbes : match(p) # {} =>
        <<p[1], over(p)>> \in RP!AllPairs /\ M!Region(<<p[1], over(p)>>) = match(p)
  <2> SUFFICES ASSUME NEW p \in RcProbes, match(p) # {}
               PROVE  <<p[1], over(p)>> \in RP!AllPairs /\ M!Region(<<p[1], over(p)>>) = match(p)
    OBVIOUS
  <2>1. PICK h \in Headers : Decided(p[1], over(p), h)
    BY <1>2
  <2>2. <<p[1], over(p)>> \in RP!AllPairs
    BY <1>2, <1>4, <2>1 DEF RP!AllPairs, Decided
  <2> DEFINE t == <<p[1], over(p)>>
  <2>3. t[1] = p[1] /\ t[2] = over(p) /\ t \in RP!AllPairs
    BY <2>2
  <2> HIDE DEF t
  <2>4. \A g : g \in M!Region(t) <=> g \in match(p)
    BY <1>2, <1>3, <2>3
  <2>5. M!Region(t) = match(p)
    <3>1. \A g \in match(p) : g \in Headers
      BY <1>2
    <3> QED
      BY <2>4, <3>1 DEF M!Region
  <2> QED
    BY <2>2, <2>5 DEF t
<1>6. \A t \in RP!AllPairs : t = <<t[1], t[2]>>
  BY DEF RP!AllPairs
<1> HIDE DEF over, match
<1>7. \A x : x \in RcTests <=> \E p \in RcProbes : match(p) # {} /\ x = <<p[1], over(p), match(p)>>
  BY DEF RcTests, over, match
<1>8. \A x : x \in MtbddTests <=> \E t \in RP!AllPairs : x = <<t[1], t[2], M!Region(t)>>
  BY <1>3 DEF MtbddTests
<1>9. \A x \in RcTests : x \in MtbddTests
  <2> TAKE x \in RcTests
  <2>1. PICK p \in RcProbes : match(p) # {} /\ x = <<p[1], over(p), match(p)>>
    BY <1>7
  <2>2. <<p[1], over(p)>> \in RP!AllPairs /\ M!Region(<<p[1], over(p)>>) = match(p)
    BY <1>5, <2>1
  <2> QED
    BY <1>8, <2>1, <2>2
<1>10. \A x \in MtbddTests : x \in RcTests
  <2> TAKE x \in MtbddTests
  <2>1. PICK t \in RP!AllPairs : x = <<t[1], t[2], M!Region(t)>>
    BY <1>8
  <2>2. PICK p \in RcProbes : p[1] = t[1] /\ over(p) = t[2] /\ match(p) # {}
    BY <1>2
  <2>3. M!Region(t) = match(p)
    BY <1>5, <1>6, <2>2
  <2> QED
    BY <1>7, <2>1, <2>2, <2>3
<1> QED
  BY <1>9, <1>10

-----------------------------------------------------------------------------
(* The numbers that are printed.                                           *)

PairCount == Cardinality(RP!AllPairs)

\* RuleChecker's extra probe, for a first rule that matches nothing.
IdleFirst == IF 0 \in Rules /\ mf_in[0] = {} THEN 1 ELSE 0

\* Each number is the number of pairs, and RuleChecker's counts the extra probe;
\* the MTBDD loops are over when the second one is printed.
Numbers ==
  /\ mtbdd_nums \in Seq({PairCount})
  /\ rc_nums \in Seq({PairCount + IdleFirst})
  /\ m_phase = "build" <=> mtbdd_nums = <<>>
  /\ Len(mtbdd_nums) = 2 => M!Done

ProgramInv == MP!DriverInv /\ RP!DriverInv /\ Numbers

\* No step changes what a rule matches, nor the pairs there are.
LEMMA SameRules ==
  [Next]_vars => /\ mf_in' = mf_in /\ RP!AllPairs' = RP!AllPairs
                 /\ PairCount' = PairCount /\ IdleFirst' = IdleFirst
<1> SUFFICES ASSUME [Next]_vars
             PROVE  /\ mf_in' = mf_in /\ RP!AllPairs' = RP!AllPairs
                    /\ PairCount' = PairCount /\ IdleFirst' = IdleFirst
  OBVIOUS
<1>1. mf_in' = mf_in
  <2>1. MP!DNext \/ UNCHANGED MP!dvars
    BY StepsDriver
  <2>2. CASE MP!DNext
    BY <2>2 DEF MP!DNext, MP!Build, MP!StartReadd, MP!RemoveOne, MP!ReaddHidden, MP!InsertOne,
                MP!Finished, MP!Insert, MP!RemoveNothing, MP!Remove, MP!Readd, MP!vars, MP!dvars
  <2> QED
    BY <2>1, <2>2 DEF MP!vars, MP!dvars
<1>2. RP!AllPairs' = RP!AllPairs
  BY <1>1 DEF RP!AllPairs, RP!First, RP!IsNext
<1> QED
  BY <1>1, <1>2 DEF PairCount, IdleFirst

\* get_mtbdd_probes_num counts the pairs.
LEMMA MtbddCounts ==
  ASSUME MtbddFull
  PROVE  Cardinality(MtbddProbes) = PairCount
BY MtbddIsAllPairs DEF PairCount

\* count_RuleChecker_result counts the pairs and the extra probe.
LEMMA RcCounts ==
  ASSUME RP!AllIn
  PROVE  Cardinality(RcProbes) = PairCount + IdleFirst
<1>1. RcProbes = RP!AllProbes
  BY SameCardinality DEF RcProbes, RP!AllProbes
<1>2. RP!Cardinality(RP!AllProbes) = RP!Cardinality(RP!AllPairs) + IdleFirst
  BY RP!ProbeCount, SameProbeSet, RulesAssumption, HeadersAssumption, NRulesAssumption DEF IdleFirst
<1> QED
  BY <1>1, <1>2, SameCardinality DEF PairCount

\* When the MTBDD is full, and when all rules are in RuleChecker's net.
LEMMA WhenFull ==
  ASSUME MP!DriverInv, m_phase = "remove" \/ (m_phase = "build" /\ r_i = NRules)
  PROVE  MtbddFull
<1>1. MP!TypeOK /\ MP!BuildInv /\ MP!RemoveInv
  BY DEF MP!DriverInv, MP!IInv
<1>2. CASE m_phase = "remove"
  BY <1>1, <1>2 DEF MtbddFull, MP!RemoveInv
<1>3. CASE m_phase = "build" /\ r_i = NRules
  <2>1. \A r \in Rules : r < NRules
    BY NRulesAssumption
  <2>2. MP!Live = {r \in Rules : r < NRules} /\ MP!ExactAt(MP!Live)
    BY <1>1, <1>3 DEF MP!BuildInv
  <2>3. MP!Live = Rules
    BY <2>1, <2>2
  <2> QED
    BY <1>1, <2>2, <2>3 DEF MtbddFull
<1> QED
  BY <1>2, <1>3

LEMMA WhenAllIn ==
  ASSUME RP!DriverInv, rc_phase = "remove" \/ (rc_phase = "insert" /\ j = NRules)
  PROVE  RP!AllIn
<1>1. RP!InOrderOfList
  BY DEF RP!DriverInv
<1>2. net = Rules
  <2>1. \A r \in Rules : r < NRules
    BY NRulesAssumption
  <2> QED
    BY <1>1, <2>1 DEF RP!InOrderOfList
<1> QED
  BY <1>2 DEF RP!AllIn, RP!RestPoint

LEMMA AppendSame ==
  ASSUME NEW c, NEW s \in Seq({c})
  PROVE  Append(s, c) \in Seq({c}) /\ Len(Append(s, c)) = Len(s) + 1 /\ Append(s, c) # <<>>
<1> DEFINE S == {c}
<1>1. s \in Seq(S) /\ c \in S
  OBVIOUS
<1> HIDE DEF S
<1>2. Append(s, c) \in Seq(S) /\ Len(Append(s, c)) = Len(s) + 1
  BY <1>1
<1>3. Append(s, c) # <<>>
  BY <1>1, <1>2
<1>4. Append(s, c) \in Seq({c}) /\ Len(Append(s, c)) = Len(s) + 1
  BY <1>2, Zenon DEF S
<1> QED
  BY <1>3, <1>4, Zenon

LEMMA NumbersNext == ProgramInv /\ [Next]_vars => Numbers'
<1> SUFFICES ASSUME ProgramInv, [Next]_vars PROVE Numbers'
  OBVIOUS
<1>1. PairCount' = PairCount /\ IdleFirst' = IdleFirst
  BY SameRules
<1>2. MP!DriverInv /\ RP!DriverInv /\ Numbers
  BY DEF ProgramInv
<1>3. /\ mtbdd_nums \in Seq({PairCount}) /\ rc_nums \in Seq({PairCount + IdleFirst})
      /\ m_phase = "build" <=> mtbdd_nums = <<>>
      /\ Len(mtbdd_nums) = 2 => m_phase = "remove" /\ r_i = NRules
  BY <1>2 DEF Numbers, M!Done
<1> SUFFICES /\ mtbdd_nums' \in Seq({PairCount}) /\ rc_nums' \in Seq({PairCount + IdleFirst})
             /\ m_phase' = "build" <=> mtbdd_nums' = <<>>
             /\ Len(mtbdd_nums') = 2 => m_phase' = "remove" /\ r_i' = NRules
  BY <1>1 DEF Numbers, M!Done
<1>4. CASE MtbddStep
  <2>1. UNCHANGED <<mtbdd_nums, rc_nums>>
    BY <1>4 DEF MtbddStep
  <2>2. (m_phase' = "build" <=> m_phase = "build")
        /\ ~ (m_phase = "remove" /\ r_i = NRules)
    <3>1. NRules \in Nat
      BY NRulesAssumption
    <3> QED
      BY <1>4, <3>1 DEF MtbddStep, M!Build, M!RemoveOne, M!ReaddHidden, M!InsertOne
  <2> QED
    BY <1>3, <2>1, <2>2
<1>5. CASE MtbddBuilt
  <2>1. /\ m_phase = "build" /\ r_i = NRules /\ m_phase' = "remove"
        /\ mtbdd_nums' = Append(mtbdd_nums, Cardinality(MtbddProbes)) /\ rc_nums' = rc_nums
    BY <1>5 DEF MtbddBuilt, M!StartReadd, GetMtbddProbesNum
  <2>2. Cardinality(MtbddProbes) = PairCount
    BY <1>2, <2>1, WhenFull, MtbddCounts
  <2>3. mtbdd_nums = <<>> /\ Len(mtbdd_nums) = 0
    BY <1>3, <2>1
  <2>4. mtbdd_nums' = Append(mtbdd_nums, PairCount)
    BY <2>1, <2>2
  <2>5. mtbdd_nums' \in Seq({PairCount}) /\ Len(mtbdd_nums') = 1 /\ mtbdd_nums' # <<>>
    BY <1>3, <2>3, <2>4, AppendSame
  <2> QED
    BY <1>3, <2>1, <2>5
<1>6. CASE MtbddDone
  <2>1. /\ m_phase = "remove" /\ r_i = NRules /\ m_phase' = m_phase /\ r_i' = r_i
        /\ mtbdd_nums' = Append(mtbdd_nums, Cardinality(MtbddProbes)) /\ rc_nums' = rc_nums
    BY <1>6 DEF MtbddDone, M!Done, GetMtbddProbesNum, mvars
  <2>2. Cardinality(MtbddProbes) = PairCount
    BY <1>2, <2>1, WhenFull, MtbddCounts
  <2>3. mtbdd_nums' \in Seq({PairCount}) /\ mtbdd_nums' # <<>>
    BY <1>3, <2>1, <2>2, AppendSame
  <2> QED
    BY <1>3, <2>1, <2>3
<1>7. CASE RcStep
  BY <1>3, <1>7 DEF RcStep, mvars
<1>8. ASSUME CountRuleChecker, RP!AllIn
      PROVE  Numbers'
  <2>1. /\ rc_nums' = Append(rc_nums, Cardinality(RcProbes))
        /\ UNCHANGED <<m_phase, r_i, mtbdd_nums>>
    BY <1>8 DEF CountRuleChecker, mvars
  <2>2. Cardinality(RcProbes) = PairCount + IdleFirst
    BY <1>8, RcCounts
  <2>3. rc_nums' \in Seq({PairCount + IdleFirst})
    BY <1>3, <2>1, <2>2, AppendSame
  <2> QED
    BY <1>1, <1>3, <2>1, <2>3 DEF Numbers, M!Done
<1>9. CASE RcBuilt
  <2>1. CountRuleChecker /\ rc_phase = "insert" /\ j = NRules
    BY <1>9 DEF RcBuilt, R!StartReadd
  <2> QED
    BY <1>1, <1>2, <1>8, <2>1, WhenAllIn DEF Numbers, M!Done
<1>10. CASE RcDone
  <2>1. CountRuleChecker /\ rc_phase = "remove"
    BY <1>10 DEF RcDone, R!Done
  <2> QED
    BY <1>1, <1>2, <1>8, <2>1, WhenAllIn DEF Numbers, M!Done
<1>11. CASE UNCHANGED vars
  BY <1>3, <1>11 DEF vars, mvars
<1> QED
  BY <1>4, <1>5, <1>6, <1>7, <1>9, <1>10, <1>11 DEF Next, Finished

LEMMA WholeInvariant == Spec => []ProgramInv
<1>1. Init => Numbers
  <2> SUFFICES ASSUME Init PROVE Numbers
    OBVIOUS
  <2>1. mtbdd_nums = <<>> /\ rc_nums = <<>> /\ m_phase = "build"
    BY DEF Init, M!DInit
  <2> QED
    BY <2>1 DEF Numbers
<1>2. ProgramInv /\ [Next]_vars => Numbers'
  BY NumbersNext
<1> QED
  BY <1>1, <1>2, ProgramInvariant, RcInvariant, PTL DEF Spec, ProgramInv

\* The MTBDD, updated pair by pair, and RuleChecker, which splits header sets
\* with two other algorithms, generate the same tests for the same rules,
\* whatever the rules match.
THEOREM TestsAreTheSame == Spec => []SameTests
<1>1. ProgramInv => SameTests
  <2> SUFFICES ASSUME ProgramInv, Len(mtbdd_nums) = 2, rc_phase # "insert", R!RestPoint
               PROVE  MtbddTests = RcTests
    BY DEF SameTests
  <2>1. MP!DriverInv /\ RP!DriverInv /\ m_phase = "remove"
    BY DEF ProgramInv, Numbers, M!Done
  <2>2. rc_phase = "remove"
    BY <2>1 DEF RP!DriverInv, RP!InOrderOfList, R!RestPoint
  <2> QED
    BY <2>1, <2>2, WhenFull, WhenAllIn, TestsAgree
<1> QED
  BY <1>1, WholeInvariant, PTL

\* The two programs print the same number of probes, twice, but for the empty
\* probe that RuleChecker keeps for a first rule that matches nothing.
THEOREM NumbersAreTheSame == Spec => []SameNumbers
<1>1. ProgramInv => SameNumbers
  <2> SUFFICES ASSUME ProgramInv PROVE SameNumbers
    OBVIOUS
  <2>1. mtbdd_nums \in Seq({PairCount}) /\ rc_nums \in Seq({PairCount + IdleFirst})
    BY DEF ProgramInv, Numbers
  <2>2. \A i \in DOMAIN mtbdd_nums : mtbdd_nums[i] = PairCount
    BY <2>1
  <2>3. \A k \in DOMAIN rc_nums : rc_nums[k] = PairCount + IdleFirst
    BY <2>1
  <2>4. \A i \in DOMAIN mtbdd_nums : 1 \in DOMAIN mtbdd_nums
    BY <2>1
  <2> QED
    BY <2>2, <2>3, <2>4 DEF SameNumbers, IdleFirst
<1> QED
  BY <1>1, WholeInvariant, PTL
=============================================================================
