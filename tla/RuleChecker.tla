---------------------------- MODULE RuleChecker -----------------------------
(***************************************************************************)
(* The probe sets RuleChecker keeps for the rules of one switch            *)
(* (UpdateProbesInsert and UpdateProbesRemove of all_testpk.h).            *)
(*                                                                         *)
(* bdd_hit of a rule's probe set is the set of headers the rule decides.   *)
(* Its probes are meant to split bdd_hit by the rule that would decide the *)
(* header if this rule were missing (override, NULL when there is none).   *)
(* A rule with no headers left to decide has no probe set.                 *)
(*                                                                         *)
(* The order of a probe array matters: UpdateProbesInsert replaces the     *)
(* array of a lower rule while it walks it.                                *)
(***************************************************************************)
EXTENDS RuleOrder, FiniteSets, Sequences

VARIABLES
  mf_in,        \* mf_in[r]: the headers rule r matches; set when it is parsed
  net,          \* the positions of sw->rules that are not NULL
  pbset,        \* pbset[r]: the rule's probe set, or NULL
  removed,      \* the rule UpdateProbesRemove is taking out, or NULL
  todo          \* the lower rules its second loop has still to visit

vars == <<mf_in, net, pbset, removed, todo>>

Probe == [bdd_mf : SUBSET Headers, override : Rules \union {NULL}]

ProbeSet == [bdd_hit : SUBSET Headers, probes : Seq(Probe)]

\* A null pointer is no probe set.
ASSUME NullAssumption == NULL \notin ProbeSet

Above(r) == {x \in net : x < r}

\* Mutant: the loop over the lower rules starts one too far.
BelowNext(r) == {x \in net : x > r + 1}

Below(r) == {x \in net : x > r}

Hit(r) == IF pbset[r] = NULL THEN {} ELSE pbset[r].bdd_hit

UnionOf(pbs) == UNION {pbs[i].bdd_mf : i \in DOMAIN pbs}

\* The numbers of S in order: the k-th has k - 1 numbers of S below it.  This and
\* Kept are defined by counting, and not with SetToSortSeq and SelectSeq, because
\* the proofs need what they return.
InOrder(S) ==
  [k \in 1 .. Cardinality(S) |->
     CHOOSE i \in S : Cardinality({x \in S : x < i}) = k - 1]

\* pbs_tmp: the probes with the indices of K, in the order of the array.
Kept(pbs, K) == [k \in 1 .. Cardinality(K) |-> pbs[InOrder(K)[k]]]

\* The array without its empty probes.
NonEmpty(pbs) == Kept(pbs, {i \in DOMAIN pbs : pbs[i].bdd_mf # {}})

-----------------------------------------------------------------------------
(* UpdateProbesInsert                                                      *)

\* Mutant: only a probe without override gives up headers.
YieldsIfFree(pb, r) == pb.override = NULL /\ pb.bdd_mf \intersect mf_in[r] # {}

\* Probe pb of a higher rule gives up headers to r unless its override is
\* already above r.
Yields(pb, r) ==
  /\ pb.override = NULL \/ pb.override >= r
  /\ pb.bdd_mf \intersect mf_in[r] # {}

\* A higher rule rt: what its probes give up becomes a probe over r, at the end.
InsertAbove(r, rt) ==
  LET pbs    == pbset[rt].probes
      given  == {i \in DOMAIN pbs : Yields(pbs[i], r)}
      left   == [i \in DOMAIN pbs |->
                   IF i \in given THEN [pbs[i] EXCEPT !.bdd_mf = @ \ mf_in[r]] ELSE pbs[i]]
      kept   == {i \in DOMAIN pbs : i \in given => left[i].bdd_mf # {}}
      newpb  == [bdd_mf |-> UNION {pbs[i].bdd_mf \intersect mf_in[r] : i \in given},
                 override |-> r]
  IN  IF given = {} THEN pbset[rt]
      ELSE [pbset[rt] EXCEPT !.probes = Append(Kept(left, kept), newpb)]

\* What is left for r to decide below the rules above it.
HitOf(r) == mf_in[r] \ UNION {mf_in[x] : x \in Above(r)}

\* The rules below that lose headers to r.
Losers(r) == {x \in Below(r) : Hit(x) \intersect HitOf(r) # {}}

\* r's own probes: one per rule that loses headers to r, in order, then what
\* no lower rule decides.
OwnProbes(r) ==
  LET order   == InOrder(Losers(r))
      part(x) == (HitOf(r) \ UNION {Hit(y) : y \in {z \in Losers(r) : z < x}})
                   \intersect Hit(x)
      rest    == HitOf(r) \ UNION {Hit(y) : y \in Losers(r)}
      over    == NonEmpty([k \in DOMAIN order |->
                             [bdd_mf |-> part(order[k]), override |-> order[k]]])
  IN  IF Losers(r) # {} /\ rest = {} THEN over
      ELSE Append(over, [bdd_mf |-> rest, override |-> NULL])

\* Mutant: bdd_hit stays the whole match set.
OwnProbeSetWhole(r) ==
  IF HitOf(r) = {} /\ Above(r) # {} THEN NULL
  ELSE [bdd_hit |-> mf_in[r], probes |-> OwnProbes(r)]

\* A rule with nothing to decide loses its probe set as soon as a higher rule
\* has been subtracted; with no higher rule it keeps even an empty one.
OwnProbeSet(r) ==
  IF HitOf(r) = {} /\ Above(r) # {} THEN NULL
  ELSE [bdd_hit |-> HitOf(r), probes |-> OwnProbes(r)]

\* A lower rule rt that loses headers.  The array is replaced inside the loop
\* that walks it, as soon as one probe is empty: the probes after that one are
\* never looked at and are not in the new array.
InsertBelow(r, rt) ==
  LET pbs  == pbset[rt].probes
      left == [i \in DOMAIN pbs |-> [pbs[i] EXCEPT !.bdd_mf = @ \ mf_in[r]]]
      emptied == {i \in DOMAIN pbs : left[i].bdd_mf = {}}
      firstEmpty == CHOOSE i \in emptied : \A j \in emptied : i <= j
      hit  == pbset[rt].bdd_hit \ HitOf(r)
  IN  IF hit = {} THEN NULL
      ELSE [bdd_hit |-> hit,
            probes  |-> IF emptied = {} THEN left
                        ELSE SubSeq(left, 1, firstEmpty - 1)]

UpdateProbesInsert(r) ==
  /\ todo = {}
  /\ r \notin net
  /\ net' = net \union {r}
  /\ pbset' = [x \in Rules |->
                 IF x = r THEN OwnProbeSet(r)
                 ELSE IF x \in Above(r) /\ pbset[x] # NULL THEN InsertAbove(r, x)
                 ELSE IF x \in Losers(r) THEN InsertBelow(r, x)
                 ELSE pbset[x]]
  /\ UNCHANGED <<mf_in, removed, todo>>

-----------------------------------------------------------------------------
(* UpdateProbesRemove                                                      *)

\* A higher rule rt: its probes over r are merged into its probe without
\* override, which moves to the front.
RemoveAbove(r, rt) ==
  LET pbs    == pbset[rt].probes
      merged == {i \in DOMAIN pbs : pbs[i].override \in {r, NULL}}
      null   == [bdd_mf |-> UNION {pbs[i].bdd_mf : i \in merged}, override |-> NULL]
      kept   == Kept(pbs, DOMAIN pbs \ merged)
      hasNull == \E i \in DOMAIN pbs : pbs[i].override = NULL
  IN  IF pbset[rt].bdd_hit \intersect mf_in[r] = {} THEN pbset[rt]
      ELSE [pbset[rt] EXCEPT !.probes =
              IF hasNull \/ null.bdd_mf # {} THEN <<null>> \o kept ELSE kept]

\* Mutant: an existing probe over rt is not found.
ProbeOverMissed(pbs, rt) == 0

\* The last probe over rt, 0 when there is none.
ProbeOver(pbs, rt) ==
  LET over == {i \in DOMAIN pbs : pbs[i].override = rt}
  IN  IF over = {} THEN 0 ELSE CHOOSE i \in over : \A k \in over : k <= i

\* A rule rh above rt, once r is gone: the headers of insc that its probe
\* without override held are now decided by rt if rh goes too.
Resplit(rh, rt, insc) ==
  LET pbs    == pbset[rh].probes
      region == pbset[rh].bdd_hit \intersect insc
      moved  == UNION {pbs[i].bdd_mf \intersect region :
                         i \in {j \in DOMAIN pbs : pbs[j].override = NULL}}
      target == ProbeOver(pbs, rt)
      left   == [i \in DOMAIN pbs |->
                   IF pbs[i].override = NULL
                     THEN [pbs[i] EXCEPT !.bdd_mf = @ \ region]
                   ELSE IF i = target
                     THEN [pbs[i] EXCEPT !.bdd_mf = @ \union moved]
                   ELSE pbs[i]]
      kept   == Kept(left, {i \in DOMAIN left : left[i].override # NULL \/ left[i].bdd_mf # {}})
  IN  IF moved = {} THEN pbset[rh]
      ELSE [pbset[rh] EXCEPT !.probes =
              IF target = 0 THEN Append(kept, [bdd_mf |-> moved, override |-> rt])
              ELSE kept]

\* The first loop, over the rules above r, and sw->rules[r->idx] = NULL.
UpdateProbesRemove(r) ==
  /\ todo = {}
  /\ r \in net
  /\ net' = net \ {r}
  /\ pbset' = [x \in Rules |->
                 IF x = r THEN NULL
                 ELSE IF x \in Above(r) /\ pbset[x] # NULL THEN RemoveAbove(r, x)
                 ELSE pbset[x]]
  /\ todo' = Below(r)
  /\ removed' = IF todo' = {} THEN NULL ELSE r
  /\ UNCHANGED mf_in

\* One iteration of the second loop, for the rules below r in order: every rule
\* above rt is looked at again, then rt takes the headers that none of them
\* decides.  An existing probe set only has bdd_hit extended; a new one gets a
\* probe without override.
Uncover(rt) ==
  LET insc  == mf_in[removed] \intersect mf_in[rt]
      diff  == insc \ UNION {Hit(x) : x \in Above(rt)}
      own   == IF diff = {} THEN pbset[rt]
               ELSE IF pbset[rt] # NULL THEN [pbset[rt] EXCEPT !.bdd_hit = @ \union diff]
               ELSE [bdd_hit |-> diff,
                     probes |-> <<[bdd_mf |-> diff, override |-> NULL]>>]
  IN  /\ rt \in todo
      /\ \A x \in todo : rt <= x
      /\ pbset' = [x \in Rules |->
                     IF x = rt THEN own
                     ELSE IF x \in Above(rt) /\ pbset[x] # NULL THEN Resplit(x, rt, insc)
                     ELSE pbset[x]]
      /\ todo' = todo \ {rt}
      /\ removed' = IF todo' = {} THEN NULL ELSE removed
      /\ UNCHANGED <<mf_in, net>>

-----------------------------------------------------------------------------
(* generate_empty_net: no rule is in the net and no rule has a probe set.  *)
Init ==
  /\ mf_in \in [Rules -> SUBSET Headers]
  /\ net = {}
  /\ pbset = [r \in Rules |-> NULL]
  /\ removed = NULL
  /\ todo = {}

Next ==
  \E r \in Rules : UpdateProbesInsert(r) \/ UpdateProbesRemove(r) \/ Uncover(r)

Spec == Init /\ [][Next]_vars

-----------------------------------------------------------------------------
(* Properties.                                                             *)

\* The headers rule r decides among the rules in the net.
Decides(r) == {h \in mf_in[r] : Best(mf_in, net, h) = r}

\* The rule that would decide h if r, which decides it now, were missing.
NextBelow(r, h) == BestWithout(mf_in, net, r, h)

\* Every variable ranges over the values its C type can hold; a probe set has
\* at most one probe for each override.
TypeOK ==
  /\ mf_in \in [Rules -> SUBSET Headers]
  /\ net \subseteq Rules
  /\ todo \subseteq net
  /\ removed \in Rules \union {NULL}
  /\ (todo = {}) <=> (removed = NULL)
  /\ \A r \in Rules \ net : pbset[r] = NULL
  /\ \A r \in net : pbset[r] # NULL =>
       /\ pbset[r].bdd_hit \subseteq Headers
       /\ pbset[r].probes \in Seq(Probe)
       /\ \A i, j \in DOMAIN pbset[r].probes :
            pbset[r].probes[i].override = pbset[r].probes[j].override => i = j

\* bdd_hit is exactly the set of headers the rule decides, and a rule that
\* matches something and decides nothing is reported as covered: no order of
\* insertions and removals disturbs this.
HitExact ==
  todo = {} => \A r \in net :
    /\ Hit(r) = Decides(r)
    /\ mf_in[r] # {} => (pbset[r] = NULL <=> Decides(r) = {})

\* A probe never names the wrong override: a header in a probe of r is decided
\* by r, and by the override if r is missing.
ProbesSound ==
  todo = {} => \A r \in net : pbset[r] # NULL =>
    \A i \in DOMAIN pbset[r].probes :
      \A h \in pbset[r].probes[i].bdd_mf :
        h \in Decides(r) /\ pbset[r].probes[i].override = NextBelow(r, h)

\* Every header a rule decides is in one of its probes.  Neither operation keeps
\* this by itself (RuleCheckerDriver says when it holds all the same).
ProbesComplete ==
  todo = {} => \A r \in net : pbset[r] # NULL => UnionOf(pbset[r].probes) = pbset[r].bdd_hit
=============================================================================
