----------------------------- MODULE RuleOrder ------------------------------
(***************************************************************************)
(* Rule priority inside one switch.  A rule is its position in the         *)
(* switch's list (bdd_rule.idx); the smaller position wins.  This is the   *)
(* reference against which the MTBDD table and the probe sets are judged.  *)
(***************************************************************************)
EXTENDS Naturals

CONSTANTS
  Headers,      \* packet headers
  Rules,        \* positions of the switch's rules
  NULL          \* the null pointer: no rule

\* idx is an unsigned integer.
ASSUME RulesAssumption == Rules \subseteq Nat /\ NULL \notin Rules

\* Headers are ordered as the BDD's variables order them.
ASSUME HeadersAssumption == Headers \subseteq Nat

\* The rules of S that match header h under the match sets mf.
Matching(mf, S, h) == {r \in S : h \in mf[r]}

\* The highest-priority rule of S for header h, NULL when none matches.
Best(mf, S, h) ==
  IF Matching(mf, S, h) = {} THEN NULL
  ELSE CHOOSE r \in Matching(mf, S, h) : \A x \in Matching(mf, S, h) : r <= x

\* The rule of S that would decide h if r were not there.
BestWithout(mf, S, r, h) == Best(mf, S \ {r}, h)
=============================================================================
