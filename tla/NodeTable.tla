----------------------------- MODULE NodeTable ------------------------------
(***************************************************************************)
(* A program that keeps its BDDs referenced while the kernel collects,     *)
(* takes freed slots again and grows under it.                             *)
(***************************************************************************)
EXTENDS BddKernel

CONSTANTS
  Roots,        \* the BDD variables of the program
  MaxOps        \* bound: operations of the program

ASSUME OpsAssumption == MaxOps \in Nat \ {0} /\ IsFiniteSet(Roots)

VARIABLES
  tab,          \* the table: node, free, stack, cache, stopped, wild
  root,         \* root[k]: the node in variable k of the program
  val,          \* val[k]: the set of headers that variable k is meant to hold
  ops           \* operations done so far

vars == <<tab, root, val, ops>>

Init ==
  /\ tab = InitTable
  /\ root = [k \in Roots |-> 0]
  /\ val = [k \in Roots |-> {}]
  /\ ops = 0

\* What an operation means for sets of headers.
Meaning(S, T, op) ==
  CASE op = "and" -> S \intersect T
    [] op = "or" -> S \union T
    [] op = "diff" -> S \ T

\* The operands at hand: variables of the program and of the BDDs.
Operands == {<<root[k], val[k]>> : k \in Roots}
              \union {<<VarNode(v), {h \in Headers : Bit(h, v) = 1}>> : v \in Levels}

\* x = bdd_apply(a, b, op); bdd_delref(old x); bdd_addref(x), the way a probe
\* gives up headers in UpdateProbesInsert: every operand is referenced.
Update(k, a, b, op) ==
  /\ ops < MaxOps /\ ~ tab.stopped /\ ~ tab.wild
  /\ LET done == Apply(tab, a[1], b[1], op)
     IN  /\ tab' = IF done.t.stopped \/ done.t.wild THEN done.t
                   ELSE AddRef(DelRef(done.t, root[k]), done.res)
         /\ root' = [root EXCEPT ![k] = done.res]
         /\ val' = [val EXCEPT ![k] = Meaning(a[2], b[2], op)]
  /\ ops' = ops + 1

Next == \E k \in Roots, a, b \in Operands, op \in Ops : Update(k, a, b, op)

Spec == Init /\ [][Next]_vars

-----------------------------------------------------------------------------
(* Properties.                                                             *)

\* What the program holds stays what it computed, through collections in the
\* middle of an operation, reuse of slots, growth and hits in the apply cache.
HeldIntact ==
  ~ tab.stopped =>
    /\ ~ tab.wild
    /\ WellFormed(tab)
    /\ \A k \in Roots : root[k] \in Used(tab) /\ Denotes(tab, root[k]) = val[k]

\* There is one node for each function: equal sets of headers are equal numbers,
\* which the code relies on when it compares BDDs with == and with 0.
Canonical ==
  LET nodes == Used(tab) \ {2}
  IN  Cardinality({Denotes(tab, n) : n \in nodes}) = Cardinality(nodes)

\* The apply cache only tells the truth about nodes that are still there.
CacheSound ==
  ~ tab.stopped => \A e \in tab.cache :
    /\ {e.l, e.r, e.res} \subseteq Used(tab)
    /\ Denotes(tab, e.res) = Meaning(Denotes(tab, e.l), Denotes(tab, e.r), e.op)

\* No slot is lost: what is not used is on the free list, once.
FreeExact ==
  /\ Entries(tab.free) = Slots(tab) \ Used(tab)
  /\ Len(tab.free) = Cardinality(Slots(tab) \ Used(tab))
=============================================================================
