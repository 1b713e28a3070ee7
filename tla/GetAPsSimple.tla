---------------------------- MODULE GetAPsSimple ----------------------------
(***************************************************************************)
(* get_APs_simple: the atomic predicates of rules whose rewriting is left  *)
(* aside.  Every rule of every switch cuts the whole array in one pass.    *)
(* This is also what get_APs_simple_withdiff must amount to.               *)
(***************************************************************************)
EXTENDS AtomicPredicates

VARIABLES
  rules,        \* the rules of all switches, in the order of the loops
  aps,          \* the array in use, arr1 or arr2
  r_i           \* the rules taken so far

vars == <<rules, aps, r_i>>

Start ==
  /\ aps = Everything
  /\ r_i = 0

Init == rules \in Seq(Rule) /\ Start

\* One rule: a pass over the array.
Take ==
  /\ r_i < Len(rules)
  /\ aps' = Split(aps, rules[r_i + 1].mf_in)
  /\ r_i' = r_i + 1
  /\ UNCHANGED rules

Spec == Init /\ [][Take]_vars

-----------------------------------------------------------------------------
(* Properties.                                                             *)

\* The sets are sets of headers, and the counter counts rules.
TypeOK ==
  /\ rules \in Seq(Rule)
  /\ aps \subseteq SUBSET Headers
  /\ r_i \in 0 .. Len(rules)

\* Two headers share an element exactly when no rule taken tells them apart: the
\* array is the coarsest partition that keeps the match sets.
Coarsest == aps = Refine(Everything, {rules[r].mf_in : r \in 1 .. r_i})
=============================================================================
