------------------------- MODULE RuleCheckerDriver --------------------------
(***************************************************************************)
(* The RuleChecker part of test_testpk.c for one switch: start from the    *)
(* empty net, insert every rule (UpdateProbesInsert_forall), then take     *)
(* each rule out and insert it again (UpdateProbes_remove_then_readd).     *)
(***************************************************************************)
EXTENDS RuleChecker, SwitchRules

VARIABLES
  phase,                \* the loop the program is in, and its next call
  j                     \* the loop variable

dvars == <<vars, phase, j>>

DInit ==
  /\ Init
  /\ phase = "insert"
  /\ j = 0

\* One iteration of UpdateProbesInsert_forall.
InsertForall ==
  /\ phase = "insert" /\ j < NRules
  /\ UpdateProbesInsert(j)
  /\ j' = j + 1
  /\ UNCHANGED phase

\* UpdateProbes_remove_then_readd starts.
StartReadd ==
  /\ phase = "insert" /\ j = NRules
  /\ phase' = "remove" /\ j' = 0
  /\ UNCHANGED vars

RemoveOne ==
  /\ phase = "remove" /\ j < NRules
  /\ UpdateProbesRemove(j)
  /\ phase' = "readd"
  /\ UNCHANGED j

UncoverOne ==
  /\ phase = "readd"
  /\ \E rt \in Rules : Uncover(rt)
  /\ UNCHANGED <<phase, j>>

ReaddOne ==
  /\ phase = "readd" /\ todo = {}
  /\ UpdateProbesInsert(j)
  /\ phase' = "remove" /\ j' = j + 1

Done == phase = "remove" /\ j = NRules

\* count_RuleChecker_result and exit.
Finished == Done /\ UNCHANGED dvars

DNext == InsertForall \/ StartReadd \/ RemoveOne \/ UncoverOne \/ ReaddOne \/ Finished

DSpec == DInit /\ [][DNext]_dvars

-----------------------------------------------------------------------------
(* Properties.                                                             *)

\* No rule that was in the net is out of it.
RestPoint == phase # "readd"

\* Every header a rule decides is in one of its probes whenever all rules are
\* in the net: while the rules are inserted in list order, and after every
\* remove-and-insert cycle.  Between a removal and the insertion after it this
\* fails (RemoveComplete).
RestComplete == RestPoint => ProbesComplete

\* Once UpdateProbesRemove has returned, every header that it added to a rule's
\* bdd_hit is in one of the rule's probes, as in the branch for a rule without a
\* probe set.
RemoveComplete == phase = "readd" => ProbesComplete
=============================================================================
