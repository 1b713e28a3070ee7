-------------------------- MODULE MCRuleCheckerDriver --------------------------
(* RuleCheckerDriver on four rules and three headers, for every match function. *)
EXTENDS RuleCheckerDriver

MCHeaders == 0..2
MCRules == 0..3
MCNRules == 4
=============================================================================
