---------------------------- MODULE MtbddDriver -----------------------------
(***************************************************************************)
(* The MTBDD part of test_testpk.c for one switch: insert every rule in    *)
(* list order (build_network_by_update_rules), then take each rule out and *)
(* insert it again (test_remove_then_readd_rules).                         *)
(***************************************************************************)
EXTENDS MtbddTable, SwitchRules

VARIABLES
  phase,                \* the loop the program is in, and its next call
  r_i                   \* the loop variable

dvars == <<vars, phase, r_i>>

DInit ==
  /\ Init
  /\ phase = "build"
  /\ r_i = 0

\* One iteration of build_network_by_update_rules.
Build ==
  /\ phase = "build" /\ r_i < NRules
  /\ Insert(r_i)
  /\ r_i' = r_i + 1
  /\ UNCHANGED phase

\* test_remove_then_readd_rules starts.
StartReadd ==
  /\ phase = "build" /\ r_i = NRules
  /\ phase' = "remove" /\ r_i' = 0
  /\ UNCHANGED vars

\* The two calls of one iteration; Update_aRule_Remove puts the hidden rules
\* back before it returns.
RemoveOne ==
  /\ phase = "remove" /\ r_i < NRules
  /\ RemoveNothing(r_i) \/ Remove(r_i)
  /\ phase' = "insert"
  /\ UNCHANGED r_i

ReaddHidden ==
  /\ phase = "insert"
  /\ \E x \in Rules : Readd(x)
  /\ UNCHANGED <<phase, r_i>>

InsertOne ==
  /\ phase = "insert"
  /\ Insert(r_i)
  /\ phase' = "remove" /\ r_i' = r_i + 1

Done == phase = "remove" /\ r_i = NRules

\* The statistics are printed.
Finished == Done /\ UNCHANGED dvars

DNext == Build \/ StartReadd \/ RemoveOne \/ ReaddHidden \/ InsertOne \/ Finished

\* The program is a plain loop: it always takes its next step.
DSpec == DInit /\ [][DNext]_dvars /\ WF_dvars(DNext)

-----------------------------------------------------------------------------
(* Properties.                                                             *)

\* No removal is under way and no rule is missing from the table.
AtRest == phase # "insert"

\* The pair of a header names the two highest rules that match it: the rule
\* that decides it and the one that would decide it next.  This is what the
\* test packets are drawn from.  The table alone does not guarantee it (in
\* another order of updates the second rule may be stale or missing); inserting
\* in list order and putting every removed rule straight back does.
PairExact ==
  AtRest => \A h \in Headers :
    mtbdd[h] # Zero => Rl(mtbdd[h]) = BestWithout(mf_in, Live, Rh(mtbdd[h]), h)

\* The headers that lead to terminal v.
Region(v) == {h \in Headers : mtbdd[h] = v}

\* self_bdd, updated incrementally and never recomputed, is the region of its
\* terminal after the whole build and after every remove-and-insert cycle, in
\* whichever order the compiler evaluates the recursive calls.
SelfExact ==
  AtRest => \A v \in Terminal : Rh(v) \in Live => self_bdd[v] = Region(v)
=============================================================================
