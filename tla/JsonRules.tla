----------------------------- MODULE JsonRules ------------------------------
(***************************************************************************)
(* The rules of a switch as the parsers of all_BDDM.h build them from the  *)
(* list in a .json file, taken from its end: parse_tf_json_to_bddsw merges *)
(* rules of equal ports and action into one, parse_tf_json_to_bddsw_noconf *)
(* keeps every rule and takes off it what rules before it match.  One step *)
(* is one rule of the file.                                                *)
(***************************************************************************)
EXTENDS AtomicPredicates

CONSTANT Links          \* the lists of ports that rules are given

VARIABLES
  given,        \* the rules as parse_js_rule returns them
  merged,       \* bdd_rules[0 .. rules_count - 1] of the merging parser
  noconf,       \* the same of the conflict-free parser
  crashed       \* bdd_rw_BDD was called without a mask

jvars == <<given, merged, noconf, crashed>>

JInit ==
  /\ merged = <<>> /\ noconf = <<>>
  /\ crashed = FALSE

\* mf_out of a rule that rewrites by f, or not at all, what is in m.
OutOf(f, m) == IF f = NULL THEN m ELSE Image(f, m)

\* A rule as parse_js_rule returns it: mf_out is what the action makes of mf_in.
JsonRule ==
  {r \in [mf_in : SUBSET Headers, mf_out : SUBSET Headers, rw : Rewrites \union {NULL},
          lks_in : Links, lks_out : Links] : r.mf_out = OutOf(r.rw, r.mf_in)}

SameLinks(a, b) == a.lks_in = b.lks_in

\* is_r_action_same
SameAction(a, b) == a.rw = b.rw /\ a.lks_out = b.lks_out /\ a.lks_in = b.lks_in

\* What is left of r after the rules 1 .. j of a list with the same ports.
Residual(list, r, j) ==
  r.mf_in \ UNION {list[k].mf_in : k \in {l \in 1 .. j : SameLinks(r, list[l])}}

Smallest(S) == CHOOSE x \in S : \A y \in S : x <= y

-----------------------------------------------------------------------------
(* parse_tf_json_to_bddsw, and _inc_APs, which keeps the same rules.       *)

\* The merged rules at which the loop over j is left: nothing remains of r, or
\* the action is the same.
Stops(r) ==
  {j \in 1 .. Len(merged) :
     SameLinks(r, merged[j]) /\ (Residual(merged, r, j) = {} \/ SameAction(r, merged[j]))}

\* Mutant: the output side is extended by what the whole rule matches.
MergeIntoOutWhole(j, r) ==
  [merged EXCEPT ![j].mf_in = @ \union Residual(merged, r, j),
                 ![j].mf_out = @ \union OutOf(r.rw, r.mf_in \ merged[j].mf_in)]

\* r joins merged rule j with what is left of it.
MergeInto(j, r) ==
  LET left == Residual(merged, r, j)
  IN  [merged EXCEPT ![j].mf_in = @ \union left,
                     ![j].mf_out = @ \union OutOf(r.rw, left)]

\* r becomes a merged rule of its own.
NewMerged(r) ==
  LET left == Residual(merged, r, Len(merged))
  IN  Append(merged, [r EXCEPT !.mf_in = left, !.mf_out = OutOf(r.rw, left)])

\* The position of the merged rule that r changes, or 0 if nothing is left of r.
Changes(r) ==
  IF Stops(r) = {} THEN Len(merged) + 1
  ELSE IF Residual(merged, r, Smallest(Stops(r))) = {} THEN 0 ELSE Smallest(Stops(r))

\* One rule of the file.
ParseMerged(r) ==
  /\ merged' = IF Changes(r) = 0 THEN merged
               ELSE IF Changes(r) > Len(merged) THEN NewMerged(r)
               ELSE MergeInto(Changes(r), r)
  /\ UNCHANGED <<given, noconf, crashed>>

-----------------------------------------------------------------------------
(* parse_tf_json_to_bddsw_noconf.                                          *)

\* The rules with the ports of r.
Rivals(r) == {j \in 1 .. Len(noconf) : SameLinks(r, noconf[j])}

\* mf_out is computed anew for each rival, from what is left of r before the
\* rival is taken off; whether it rewrites is asked of the rival.
StaleOut(r) ==
  LET last == CHOOSE j \in Rivals(r) : \A k \in Rivals(r) : k <= j
      left == Residual(noconf, r, last - 1)
  IN  IF Rivals(r) = {} THEN r.mf_out
      ELSE IF noconf[last].rw = NULL THEN left ELSE Image(r.rw, left)

\* Mutant: what a rule matches is only taken off the rules right after it.
LeftAfterLast(r) == r.mf_in \ UNION {noconf[k].mf_in : k \in {l \in Rivals(r) : l = Len(noconf)}}

\* What no rule before r matches on its ports.
LeftOf(r) == Residual(noconf, r, Len(noconf))

\* One rule of the file; a rewriting rival makes bdd_rw_BDD read the mask of r,
\* which may have none.
ParseNoconf(r) ==
  IF r.rw = NULL /\ \E j \in Rivals(r) : noconf[j].rw # NULL
    THEN crashed' = TRUE /\ UNCHANGED <<given, merged, noconf>>
    ELSE /\ noconf' = Append(noconf, [r EXCEPT !.mf_in = LeftOf(r), !.mf_out = StaleOut(r)])
         /\ UNCHANGED <<given, merged, crashed>>
=============================================================================
