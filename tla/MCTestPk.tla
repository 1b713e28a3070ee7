----------------------------- MODULE MCTestPk ------------------------------
(* TestPk on four rules and three headers, for every match function.       *)
EXTENDS TestPk

MCHeaders == 0..2
MCRules == 0..3
MCNRules == 4
=============================================================================
