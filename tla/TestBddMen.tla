----------------------------- MODULE TestBddMen -----------------------------
(***************************************************************************)
(* main of test_BDDMen.c for one switch: the rules of the .json file are   *)
(* parsed with merging and without conflicts, and the atomic predicates of *)
(* the merged rules are computed.  The source has the other generators in  *)
(* comments beside get_APs_simple; which of the five is compiled is chosen *)
(* at the start.                                                           *)
(***************************************************************************)
EXTENDS JsonRules

CONSTANT GivenRules     \* the lists of rules a file can hold

ASSUME GivenRulesAssumption == \A g \in GivenRules : g \in Seq(JsonRule)

Generators == {"simple", "withdiff", "APs", "bounding", "inc"}

VARIABLES
  which,                                \* the generator that is compiled
  i,                                    \* the rules parsed with merging
  aps, need, r_i, before,               \* the generators' own variables
  att, isfirst,
  out, in, notin, scanning

apvars == <<aps, need, r_i, before, att, isfirst, out, in, notin, scanning>>
vars == <<jvars, which, i, apvars>>

\* sws_json as the generators read it.
Net == [k \in 1 .. Len(merged) |-> [mf_in |-> merged[k].mf_in, rw |-> merged[k].rw]]

S == INSTANCE GetAPsSimple WITH rules <- Net
W == INSTANCE GetAPsWithDiff WITH rules <- Net
G == INSTANCE GetAPs WITH rules <- Net
B == INSTANCE GetAPsBounding WITH rules <- Net

Init ==
  /\ given \in GivenRules
  /\ JInit
  /\ which \in Generators
  /\ i = 0
  /\ G!Start /\ B!Start /\ W!Start

\* _inc_APs cuts by the merged rule as it is after the change.
SplitBy(j) == IF j = 0 THEN aps ELSE Split(aps, merged'[j].mf_in)

\* get_network_bdd_jsondata, or _inc_APs: the next rule of the file.
Parse ==
  /\ i < Len(given)
  /\ ParseMerged(given[i + 1])
  /\ i' = i + 1
  /\ aps' = IF which = "inc" THEN SplitBy(Changes(given[i + 1])) ELSE aps
  /\ UNCHANGED <<which, need, r_i, before, att, isfirst, out, in, notin, scanning>>

\* get_network_bdd_jsondata_noconf
ParseAgain ==
  /\ which # "inc"
  /\ i = Len(given) /\ Len(noconf) < Len(given) /\ ~crashed
  /\ ParseNoconf(given[Len(noconf) + 1])
  /\ UNCHANGED <<which, i, apvars>>

Parsed == Len(noconf) = Len(given)

Simple ==
  /\ which = "simple" /\ Parsed
  /\ UNCHANGED <<jvars, which, i, need, before, att, isfirst, out, in, notin, scanning>>
  /\ S!Take

WithDiff ==
  /\ which = "withdiff" /\ Parsed
  /\ UNCHANGED <<jvars, which, i, need, before, att, isfirst>>
  /\ W!Next

APs ==
  /\ which = "APs" /\ Parsed
  /\ UNCHANGED <<jvars, which, i, att, isfirst, out, in, notin, scanning>>
  /\ G!Next

Bounding ==
  /\ which = "bounding" /\ Parsed
  /\ UNCHANGED <<jvars, which, i, aps, out, in, notin, scanning>>
  /\ B!Next

\* The generator has returned.
Done ==
  \/ which = "inc" /\ i = Len(given)
  \/ which # "inc" /\ Parsed /\ r_i = Len(Net) /\ need = {} /\ ~scanning

\* test_APs_simple cuts copies of the array and frees them.
Finished == (Done \/ crashed) /\ UNCHANGED vars

Step == Parse \/ ParseAgain \/ Simple \/ WithDiff \/ APs \/ Bounding

\* The program is a plain loop: it always takes its next step.
Spec == Init /\ [][Step \/ Finished]_vars /\ WF_vars(Step)

-----------------------------------------------------------------------------
(* Properties.                                                             *)

\* The rules with the ports of rule k that come before it in the file.
Before(k) == {l \in 1 .. k - 1 : SameLinks(given[l], given[k])}

\* A conflict-free rule matches the headers that its rule decides, although what
\* is taken off it are rules that were cut down themselves.
NoconfExact ==
  \A k \in 1 .. Len(noconf) :
    noconf[k].mf_in = given[k].mf_in \ UNION {given[l].mf_in : l \in Before(k)}

\* Merging neither loses nor invents a header on any ports, leaves no two rules
\* of equal action, and mf_out, extended bit by bit, stays what the action makes
\* of mf_in.
MergedExact ==
  /\ \A k \in 1 .. i :
       LET same(list, n) == UNION {list[l].mf_in : l \in {m \in 1 .. n : SameLinks(list[m], given[k])}}
       IN  same(merged, Len(merged)) = same(given, i)
  /\ \A j, k \in 1 .. Len(merged) :
       /\ SameAction(merged[j], merged[k]) => j = k
       /\ merged[k].mf_out = OutOf(merged[k].rw, merged[k].mf_in)

\* The array that the compiled generator works on.
Array == IF which = "bounding" THEN DOMAIN att ELSE aps

\* A program that ends has a partition of the headers in which every merged rule
\* is a union of elements; without rewriting it is the coarsest one.
RulesKept ==
  Done =>
    /\ IsPartition(Array)
    /\ \A k \in 1 .. Len(merged) : IsUnion(Array, merged[k].mf_in)
    /\ which \in {"simple", "withdiff"} \/ (\A k \in 1 .. Len(merged) : merged[k].rw = NULL)
         => which = "inc" \/ Array = Refine(Everything, {merged[k].mf_in : k \in 1 .. Len(merged)})

\* CutClosed of get_APs, for merged rules.
CutClosed == which = "APs" => G!CutClosed

\* AttachedExact of get_APs_bounding, for merged rules.
AttachedExact == which = "bounding" => B!AttachedExact

\* BoundingClosed of get_APs_bounding, for merged rules.
BoundingClosed == which = "bounding" => B!BoundingClosed

\* Unless it crashes the program ends: the loops of get_APs that cut elements
\* because elements were cut run out of work.
Terminates == <>(Done \/ crashed)

\* Merging keeps what the switch does: the merged rule that comes first for a
\* header has the action of the rule that decides the header in the file.
MergeKeepsDecisions ==
  i = Len(given) =>
    \A k \in 1 .. Len(given) : \A h \in given[k].mf_in :
      (\A l \in Before(k) : h \notin given[l].mf_in) =>
        SameAction(given[k],
          merged[Smallest({j \in 1 .. Len(merged) :
                             SameLinks(merged[j], given[k]) /\ h \in merged[j].mf_in})])
=============================================================================
