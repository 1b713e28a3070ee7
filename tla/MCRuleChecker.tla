-------------------------- MODULE MCRuleChecker --------------------------
(* RuleChecker on four rules and three headers, for every match function. *)
EXTENDS RuleChecker

MCHeaders == 0..2
MCRules == 0..3
=============================================================================
