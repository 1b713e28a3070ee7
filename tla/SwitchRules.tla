---------------------------- MODULE SwitchRules -----------------------------
(***************************************************************************)
(* The rules of one switch as the loops of test_testpk.c go over them: by  *)
(* their positions in sw->rules.                                           *)
(***************************************************************************)
EXTENDS RuleOrder

CONSTANT NRules         \* sw->nrules

ASSUME NRulesAssumption == NRules \in Nat /\ Rules = 0 .. NRules - 1
=============================================================================
