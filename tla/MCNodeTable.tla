---------------------------- MODULE MCNodeTable ----------------------------
(***************************************************************************)
(* NodeTable with three BDD variables and two BDDs of the program.  Nine   *)
(* of the eleven slots hold the constants and the variables, so that most  *)
(* operations collect; the table grows to thirteen.  Three variables are   *)
(* the least for which the sons of a new node are themselves new.          *)
(***************************************************************************)
EXTENDS NodeTable, TLC

\* A header is the number that its bits make, the variable of level 0 first.
MCHeaders == 0 .. 7
MCBit(h, level) == (h \div 2^(2 - level)) % 2

Symmetry == Permutations(Roots)
=============================================================================
