------------------------------- MODULE GetAPs -------------------------------
(***************************************************************************)
(* get_APs: the atomic predicates of a network whose rules may rewrite     *)
(* headers.  Each rule cuts the array by its match set and by the image of *)
(* it; whenever an element is cut, the images of its parts under every     *)
(* rewriting rule met so far are due, and the array is cut again until     *)
(* nothing is due.  One step is one pass of the while loop.                *)
(***************************************************************************)
EXTENDS AtomicPredicates

VARIABLES
  rules,        \* the rules of all switches, in the order of the loops
  aps,          \* the array in use, arr1 or arr2
  need,         \* the sets that are due, arr_need1 or arr_need2
  r_i,          \* the rules taken so far
  before        \* history: the array as it was when each rule was taken

vars == <<rules, aps, need, r_i, before>>

Start ==
  /\ aps = Everything
  /\ need = {}
  /\ r_i = 0
  /\ before = <<>>

Init == rules \in Seq(Rule) /\ Start

\* Transformers[0 .. tcount - 1]
Transformers == {t \in 1 .. r_i : rules[t].rw # NULL}

\* What rule r cuts the array by.
FirstNeed(r) ==
  {rules[r].mf_in} \union
    (IF rules[r].rw = NULL THEN {} ELSE {Image(rules[r].rw, rules[r].mf_in)})

\* The next rule.
Take ==
  /\ need = {} /\ r_i < Len(rules)
  /\ r_i' = r_i + 1
  /\ need' = FirstNeed(r_i + 1)
  /\ before' = Append(before, aps)
  /\ UNCHANGED <<rules, aps>>

\* Mutant: the images of parts are only due under the rule at hand.
ImagesDueOfLast(parts) ==
  {Image(rules[x[2]].rw, x[1] \cap rules[x[2]].mf_in) :
     x \in {y \in parts \X (Transformers \cap {r_i}) : y[1] \cap rules[y[2]].mf_in # {}}}

\* The images that are due when elements have been cut into parts.  (An element
\* that is cut twice in one pass has its larger parts due as well: their images
\* are the unions of the images of the parts that remain.)
ImagesDue(parts) ==
  {Image(rules[x[2]].rw, x[1] \cap rules[x[2]].mf_in) :
     x \in {y \in parts \X Transformers : y[1] \cap rules[y[2]].mf_in # {}}}

\* Mutant: the images of elements that were not cut are due again.
PartsAll(new) == new

\* The elements of the new array that were not in the old one.
Parts(new) == new \ aps

\* One pass of the while loop.
Pass ==
  /\ need # {}
  /\ aps' = Refine(aps, need)
  /\ need' = ImagesDue(Parts(aps'))
  /\ UNCHANGED <<rules, r_i, before>>

Next == Take \/ Pass

Done == need = {} /\ r_i = Len(rules)

Spec == Init /\ [][Next]_vars

-----------------------------------------------------------------------------
(* Properties.                                                             *)

\* The arrays and counters hold what their C types can hold.
TypeOK ==
  /\ rules \in Seq(Rule)
  /\ aps \subseteq SUBSET Headers
  /\ need \subseteq SUBSET Headers
  /\ r_i \in 0 .. Len(rules)
  /\ before \in Seq(SUBSET SUBSET Headers) /\ Len(before) = r_i

\* The elements of the array are disjoint, none is empty and no header is lost.
Partition == IsPartition(aps)

\* Every set that a rule was first cut by is a union of elements, however often
\* the array was cut for other rules since.
RulesAreUnions ==
  \A r \in 1 .. r_i : \A n \in FirstNeed(r) : IsUnion(aps, n) \/ n \in need

\* When nothing is due, an element that was cut since a rewriting rule was taken
\* is sent by it to a union of elements.  (An element that was not cut since may
\* well be sent into the middle of another: only the image of the whole match
\* set was due then.)
CutClosed ==
  need = {} =>
    \A t \in Transformers : \A a \in aps \ before[t] :
      IsUnion(aps, Image(rules[t].rw, a \cap rules[t].mf_in))
=============================================================================
