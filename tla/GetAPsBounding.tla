--------------------------- MODULE GetAPsBounding ---------------------------
(***************************************************************************)
(* get_APs_bounding: get_APs with the rewriting rules attached to the      *)
(* elements they apply to (struct AP_rw), one rule for each rewriting, and *)
(* handed on to the parts when an element is cut.  One step is one pass of *)
(* the while loop.                                                         *)
(***************************************************************************)
EXTENDS AtomicPredicates

VARIABLES
  rules,        \* the rules of all switches, in the order of the loops
  att,          \* the array in use: the rewritings attached to each element
  need,         \* the sets that are due, arr_need1 or arr_need2
  isfirst,      \* the match set of the rule is still to be cut by
  r_i,          \* the rules taken so far
  before        \* history: the array as it was when each rule was taken

vars == <<rules, att, need, isfirst, r_i, before>>

Start ==
  /\ att = [a \in Everything |-> {}]
  /\ need = {}
  /\ isfirst = FALSE
  /\ r_i = 0
  /\ before = <<>>

Take ==
  /\ need = {} /\ r_i < Len(rules)
  /\ r_i' = r_i + 1
  /\ need' = {rules[r_i + 1].mf_in}
  /\ isfirst' = TRUE
  /\ before' = Append(before, DOMAIN att)
  /\ UNCHANGED <<rules, att>>

\* What an element of the old array hands on to its part a.
Inherited(a) == UNION {att[b] : b \in {c \in DOMAIN att : a \subseteq c}}

\* Mutant: the rule is attached only where its match set has cut.
AttachedToCut(a) ==
  IF isfirst /\ rules[r_i].rw # NULL /\ a \subseteq rules[r_i].mf_in /\ a \notin DOMAIN att
    THEN {rules[r_i].rw} ELSE {}

\* The rule at hand is attached to the elements inside its match set, unless a
\* rule with the same mask and rewrite is (is_r_rw_same).
Attached(a) ==
  IF isfirst /\ rules[r_i].rw # NULL /\ a \subseteq rules[r_i].mf_in
    THEN {rules[r_i].rw} ELSE {}

\* Mutant: what was attached is lost to the parts.
ImagesDueNew(new) ==
  UNION {{Image(f, a) : f \in Attached(a)} : a \in DOMAIN new \ DOMAIN att}

\* The images of new elements under what is attached to them.
ImagesDue(new) == UNION {{Image(f, a) : f \in new[a]} : a \in DOMAIN new \ DOMAIN att}

\* The image of an element that is the match set of the rule at hand, which does
\* not cut it.
ImageOfWhole ==
  IF isfirst /\ rules[r_i].rw # NULL /\ rules[r_i].mf_in \in DOMAIN att
    THEN {Image(rules[r_i].rw, rules[r_i].mf_in)} ELSE {}

Pass ==
  /\ need # {}
  /\ att' = [a \in Refine(DOMAIN att, need) |-> Inherited(a) \union Attached(a)]
  /\ need' = ImagesDue(att') \union ImageOfWhole
  /\ isfirst' = FALSE
  /\ UNCHANGED <<rules, r_i, before>>

Next == Take \/ Pass

Done == need = {} /\ r_i = Len(rules)

-----------------------------------------------------------------------------
(* Properties.                                                             *)

\* The rewritings attached to an element are those of the rules whose match set
\* it lies in, although rules with a rewriting that is there already are not
\* attached and elements are copied and freed in every pass.
AttachedExact ==
  ~isfirst => \A a \in DOMAIN att :
    att[a] = {rules[t].rw : t \in {u \in 1 .. r_i : rules[u].rw # NULL /\ a \subseteq rules[u].mf_in}}

\* As in get_APs, for the elements inside a rule's match set.
BoundingClosed ==
  need = {} =>
    \A t \in 1 .. r_i : \A a \in DOMAIN att \ before[t] :
      rules[t].rw # NULL /\ a \subseteq rules[t].mf_in
        => IsUnion(DOMAIN att, Image(rules[t].rw, a))
=============================================================================
