--------------------------- MODULE GetAPsWithDiff ---------------------------
(***************************************************************************)
(* get_APs_simple_withdiff: a pass of get_APs_simple that takes off what   *)
(* it has placed from the rule's match set and from its complement, and    *)
(* that stops as soon as both are used up.  One step is one element of the *)
(* old array; the order in which they come does not matter.                *)
(***************************************************************************)
EXTENDS AtomicPredicates

VARIABLES
  rules,        \* the rules of all switches, in the order of the loops
  aps,          \* the elements of the old array still to come
  out,          \* the new array
  in, notin,    \* what is left of the match set and of its complement
  scanning,     \* a pass is under way
  r_i           \* the rules that a pass has ended for

vars == <<rules, aps, out, in, notin, scanning, r_i>>

Start ==
  /\ aps = Everything
  /\ out = {} /\ in = {} /\ notin = {}
  /\ scanning = FALSE
  /\ r_i = 0

Init == rules \in Seq(Rule) /\ Start

StartRule ==
  /\ ~scanning /\ r_i < Len(rules)
  /\ in' = rules[r_i + 1].mf_in
  /\ notin' = Headers \ rules[r_i + 1].mf_in
  /\ scanning' = TRUE
  /\ UNCHANGED <<rules, aps, out, r_i>>

\* The parts of an element, as far as they are not placed.
Placed(a) == {a \cap in, a \cap notin} \ {{}}

\* Mutant: the pass stops when the match set alone is used up.
UsedUpIn(i, n) == i = {}

\* (!in) && (!notin)
UsedUp(i, n) == i = {} /\ n = {}

\* bddop_diff with the part that was placed.
Left(rest, a) == rest \ (a \cap rest)

\* One iteration of the inner loop.
Element(a) ==
  LET last == UsedUp(Left(in, a), Left(notin, a)) \/ aps = {a}
  IN  /\ scanning
      /\ a \in aps
      /\ in' = Left(in, a) /\ notin' = Left(notin, a)
      /\ aps' = IF last THEN out \union Placed(a) ELSE aps \ {a}
      /\ out' = IF last THEN {} ELSE out \union Placed(a)
      /\ scanning' = ~last
      /\ r_i' = IF last THEN r_i + 1 ELSE r_i
      /\ UNCHANGED rules

Next == StartRule \/ \E a \in aps : Element(a)

Done == ~scanning /\ r_i = Len(rules)

Spec == Init /\ [][Next]_vars

-----------------------------------------------------------------------------
(* Properties.                                                             *)

\* The sets are sets of headers, and the counter counts rules.
TypeOK ==
  /\ rules \in Seq(Rule)
  /\ aps \subseteq SUBSET Headers /\ out \subseteq SUBSET Headers
  /\ in \subseteq Headers /\ notin \subseteq Headers
  /\ scanning \in BOOLEAN
  /\ r_i \in 0 .. Len(rules)
  /\ scanning => r_i < Len(rules)

\* What is left of the match set and of its complement is what the elements
\* still to come hold of them: a pass stops early only when none is to come.
RestExact ==
  scanning =>
    /\ in = rules[r_i + 1].mf_in \cap UNION aps
    /\ notin = (UNION aps) \ rules[r_i + 1].mf_in

\* The elements still to come are disjoint and none is empty; between passes the
\* other array is empty.
Disjoint ==
  /\ {} \notin aps
  /\ \A a, b \in aps : a \cap b # {} => a = b
  /\ ~scanning => out = {}

\* A pass seen as one step of get_APs_simple, taken when it starts.
Simple == INSTANCE GetAPsSimple WITH
  aps <- out \union (IF scanning THEN Split(aps, rules[r_i + 1].mf_in) ELSE aps),
  r_i <- IF scanning THEN r_i + 1 ELSE r_i

\* get_APs_simple_withdiff computes what get_APs_simple computes, one rule after
\* the other, whatever the order of the elements.
ImplementsSimple == Simple!Spec
=============================================================================
