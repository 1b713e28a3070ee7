-------------------------- MODULE AtomicPredicates --------------------------
(***************************************************************************)
(* Sets of headers as struct APs keeps them: an array of disjoint BDDs     *)
(* that the match set of one rule after the other cuts in two.  The arrays *)
(* are sets here: all_BDDM.h never looks at their order, and no element    *)
(* comes twice.                                                            *)
(***************************************************************************)
EXTENDS Naturals, Sequences

CONSTANTS
  Headers,      \* packet headers
  Rewrites,     \* what a rule's mask and rewrite can make of each header
  NULL          \* no mask

ASSUME RewritesAssumption ==
  Rewrites \subseteq [Headers -> Headers] /\ NULL \notin Rewrites

\* What the algorithms read of a struct bdd_rule.
Rule == [mf_in : SUBSET Headers, rw : Rewrites \union {NULL}]

\* The array starts with BDDONE alone.
Everything == {Headers} \ {{}}

\* get_APs_simple_astep: each element is cut by n, and empty halves are dropped.
Split(P, n) == ({a \cap n : a \in P} \union {a \ n : a \in P}) \ {{}}

\* The elements after cuts by all of S, in whatever order: headers of one
\* element stay together when no set of S tells them apart.
Cell(a, S, h) == {k \in a : \A n \in S : k \in n <=> h \in n}
Refine(P, S) == UNION {{Cell(a, S, h) : h \in a} : a \in P}

\* bdd_rw_BDD
Image(f, b) == {f[h] : h \in b}

\* Every header is in exactly one element.
IsPartition(P) ==
  /\ {} \notin P
  /\ UNION P = Headers
  /\ \A a, b \in P : a \cap b # {} => a = b

\* n is a union of elements of P.
IsUnion(P, n) == \A a \in P : a \subseteq n \/ a \cap n = {}
=============================================================================
