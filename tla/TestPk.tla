------------------------------- MODULE TestPk -------------------------------
(***************************************************************************)
(* main of test_testpk.c for one switch: the same rules go through the     *)
(* MTBDD driver and then through the RuleChecker driver, and the program   *)
(* prints how many probes each of the two has.  The two share nothing but  *)
(* the rules, so that each is a reference for the other.                   *)
(***************************************************************************)
EXTENDS SwitchRules, FiniteSets, Sequences

VARIABLES
  mf_in,                                                  \* the rules
  type, mtbdd, covering, self_bdd, readd, m_removed, m_phase, r_i,
  net, pbset, rc_removed, todo, rc_phase, j,
  mtbdd_nums,           \* what get_mtbdd_probes_num has printed, in order
  rc_nums               \* what count_RuleChecker_result has printed

M == INSTANCE MtbddDriver WITH removed <- m_removed, phase <- m_phase
R == INSTANCE RuleCheckerDriver WITH removed <- rc_removed, phase <- rc_phase

\* A null pointer is no probe set.
ASSUME NullAssumption == NULL \notin R!ProbeSet

mvars == <<type, mtbdd, covering, self_bdd, readd, m_removed, m_phase, r_i>>
rvars == <<net, pbset, rc_removed, todo, rc_phase, j>>
vars == <<mf_in, mvars, rvars, mtbdd_nums, rc_nums>>

Init ==
  /\ M!DInit
  /\ R!DInit
  /\ mtbdd_nums = <<>>
  /\ rc_nums = <<>>

\* Mutant: the node of no rule is counted as well.
MtbddProbesAndZero == {mtbdd[h] : h \in Headers}

\* bdd_nodecount counts the value nodes that the switch's MTBDD reaches.
MtbddProbes == {mtbdd[h] : h \in Headers} \ {M!Zero}

\* count_RuleChecker_result adds up nprobes.
RcProbes == {p \in Rules \X (1 .. Cardinality(Rules) + 1) :
               pbset[p[1]] # NULL /\ p[2] \in DOMAIN pbset[p[1]].probes}

\* get_mtbdd_probes_num
GetMtbddProbesNum ==
  /\ mtbdd_nums' = Append(mtbdd_nums, Cardinality(MtbddProbes))
  /\ UNCHANGED <<rvars, rc_nums>>

\* count_RuleChecker_result
CountRuleChecker ==
  /\ rc_nums' = Append(rc_nums, Cardinality(RcProbes))
  /\ UNCHANGED <<mvars, mtbdd_nums>>

MtbddStep ==
  /\ M!Build \/ M!RemoveOne \/ M!ReaddHidden \/ M!InsertOne
  /\ UNCHANGED <<rvars, mtbdd_nums, rc_nums>>

\* Between the two MTBDD loops.
MtbddBuilt == M!StartReadd /\ GetMtbddProbesNum

\* At the end of test_remove_then_readd_rules.
MtbddDone ==
  /\ M!Done /\ Len(mtbdd_nums) = 1
  /\ GetMtbddProbesNum
  /\ UNCHANGED <<mf_in, mvars>>

RcStep ==
  /\ Len(mtbdd_nums) = 2
  /\ R!InsertForall \/ R!RemoveOne \/ R!UncoverOne \/ R!ReaddOne
  /\ UNCHANGED <<mvars, mtbdd_nums, rc_nums>>

\* Between the two RuleChecker loops.
RcBuilt == Len(mtbdd_nums) = 2 /\ R!StartReadd /\ CountRuleChecker

\* Before bdd_done.
RcDone ==
  /\ R!Done /\ Len(rc_nums) = 1
  /\ CountRuleChecker
  /\ UNCHANGED <<mf_in, rvars>>

\* main has returned.
Finished == Len(rc_nums) = 2 /\ UNCHANGED vars

Next ==
  \/ MtbddStep \/ MtbddBuilt \/ MtbddDone
  \/ RcStep \/ RcBuilt \/ RcDone
  \/ Finished

\* The program is a plain loop: it always takes its next step.
Spec == Init /\ [][Next]_vars /\ WF_vars(Next)

-----------------------------------------------------------------------------
(* Properties.                                                             *)

\* What the MTBDD tests: for each value node it reaches, the rule under test,
\* the next rule, and the headers of the packet.
MtbddTests == {<<t[1], t[2], M!Region(t)>> : t \in MtbddProbes}

\* What RuleChecker tests: the same for each probe that has a header.
RcTests ==
  {<<p[1], pbset[p[1]].probes[p[2]].override, pbset[p[1]].probes[p[2]].bdd_mf>> :
     p \in {q \in RcProbes : pbset[q[1]].probes[q[2]].bdd_mf # {}}}

\* The MTBDD and RuleChecker, two unrelated algorithms, generate the same tests
\* for the same rules, after the insertions and after every cycle of removing a
\* rule and putting it back.
SameTests ==
  Len(mtbdd_nums) = 2 /\ rc_phase # "insert" /\ R!RestPoint => MtbddTests = RcTests

\* The four numbers that the program prints agree, but for the empty probe that
\* RuleChecker keeps and counts for a first rule that matches nothing.
SameNumbers ==
  \A i \in DOMAIN mtbdd_nums :
    /\ mtbdd_nums[i] = mtbdd_nums[1]
    /\ \A k \in DOMAIN rc_nums :
         rc_nums[k] = mtbdd_nums[i] + (IF 0 \in Rules /\ mf_in[0] = {} THEN 1 ELSE 0)

\* PairExact of the MTBDD driver, in the whole program: the pair of a header
\* names the two highest rules that match it.
PairExact == M!PairExact

\* SelfExact of the MTBDD driver: self_bdd is the region of its terminal.
SelfExact == M!SelfExact

\* RestComplete of the RuleChecker driver: while all rules are in the net every
\* header that a rule decides is in one of its probes.
RestComplete == R!RestComplete

\* The program reaches its end: no update waits for another, and the loops over
\* the rules to put back and over the uncovered rules run out of them.
Terminates == <>(Len(rc_nums) = 2)
=============================================================================
