----------------------------- MODULE PortMtbdd -----------------------------
(***************************************************************************)
(* The MTBDDs that all_deltar.h keeps for one switch: one for the rules    *)
(* that match on every input port (ports[0]) and one per input port that   *)
(* has rules of its own, started as a copy of the first.  A terminal names *)
(* one rule.                                                               *)
(*                                                                         *)
(* Beside the tables, every rule carries lks_in_bdd: per port, the headers *)
(* it decides.  Rules with the same action and ports share a merged rule,  *)
(* whose lks_in_bdd follows the headers that each insertion moves (the     *)
(* delta of R).  These sets change where the recursion over the MTBDD      *)
(* meets two rules, in the order it meets them, and only when the          *)
(* operation cache has no entry for the two under the current tag.         *)
(***************************************************************************)
EXTENDS RuleOrder, FiniteSets

CONSTANTS
  Ports,        \* the input ports of the switch, numbered from 1
  MatchSets,    \* the match sets that rules are given
  PortSets,     \* the sets of input ports that rules are given
  Actions       \* mask, rewrite and output ports of a rule, as one value

ASSUME MatchSetsAssumption == MatchSets \subseteq SUBSET Headers
ASSUME PortsAssumption ==
  Ports \subseteq Nat \ {0} /\ PortSets \subseteq (SUBSET Ports) \ {{}}

VARIABLES
  mf_in, lks_in, action,        \* the parsed rules
  type,         \* type[r]: "BS" or "RM"; "new" marks a rule never inserted
  in_mtbdd_r,   \* in_mtbdd_r[p][h]: the rule that header h leads to at port p
  covering,     \* covering[r]: the rules recorded as hidden by r
  link_BDDs,    \* link_BDDs[r][p]: lks_in_bdd of rule r, 0 for every port
  merged,       \* the rules whose vtnode_in_merge is set
  merged_BDDs,  \* merged_BDDs[k][p]: lks_in_bdd of the merged rule k
  changes,      \* mgr_change_tmp: what each merged rule has lost, per port
  seen,         \* the pairs of terminals in the operation cache under the tag
                \* that the next operation uses
  readd,        \* the virtual rules Update_aRule_Remove has still to insert
  removed       \* the rule being removed while readd is not empty, or NULL

parsed == <<mf_in, lks_in, action>>
vars == <<parsed, type, in_mtbdd_r, covering, link_BDDs, merged, merged_BDDs,
          changes, seen, readd, removed>>

Tables == {0} \union Ports      \* the indices of port_relation_in->ports

\* A port without a table and one whose table is BDDZERO are treated alike.
Empty == [h \in Headers |-> NULL]

\* The rule is for every port: lks_in->n == allportin.
OnAllPorts(r) == lks_in[r] = Ports

\* is_r_action_same: what the rules of one merged rule have in common.
MergeKey(r) == <<action[r], lks_in[r]>>
MergeKeys == Actions \X PortSets

\* Both have a merged rule, and it is the same one.
SameMerged(a, r) == {a, r} \subseteq merged /\ MergeKey(a) = MergeKey(r)

NoChanges == [k \in MergeKeys |-> [p \in Tables |-> {}]]

-----------------------------------------------------------------------------
(* Adding rule r in the headers m: rmtbdd_insert_arule_get_dominant.       *)

\* A port without a table starts from a copy of the one for every port.
Copied(p) == p # 0 /\ in_mtbdd_r[p] = Empty

\* Mutant: a port's own table starts without the rules of every port.
BaseOwn(p) == in_mtbdd_r[p]

Base(p) == IF Copied(p) THEN in_mtbdd_r[0] ELSE in_mtbdd_r[p]

\* Mutant: the ports with a table of their own are forgotten.
TargetsShared(r) == IF OnAllPorts(r) THEN {0} ELSE lks_in[r]

\* The tables that r is added to.
Targets(r) ==
  IF OnAllPorts(r) THEN {p \in Tables : ~Copied(p)} ELSE lks_in[r]

\* The higher of two rules stays in the table.
Top(a, r) == IF a # NULL /\ a < r THEN a ELSE r

AddTop(r, m) ==
  [p \in Tables |->
     IF p \in Targets(r)
       THEN [h \in Headers |-> IF h \in m THEN Top(Base(p)[h], r) ELSE Base(p)[h]]
       ELSE in_mtbdd_r[p]]

\* The rules that r meets at table p.  Under the tag of a removal, which is the
\* one of the first table, the cache may answer instead.
IsFirst(r, p) == \A q \in Targets(r) : p <= q
Met(r, m, p, hits) ==
  {a \in {Base(p)[h] : h \in m} \ {NULL, r} : ~(IsFirst(r, p) /\ <<a, r>> \in hits)}

AddCovering(r, m, hits) ==
  [a \in Rules |-> covering[a] \union
     {b \in Rules : \E p \in Targets(r) : \E x \in Met(r, m, p, hits) :
        \/ a = r /\ b = x /\ x > r
        \/ a = x /\ b = r /\ x <= r}]

\* The recursion meets b before a: it goes along the BDD's variables, or the
\* other way if the compiler evaluates arguments from the right.
MetEarlier(b, a, m, p, lowFirst) ==
  LET at(x) == {h \in m : Base(p)[h] = x}
  IN  \E h \in at(b) : \A k \in at(a) : IF lowFirst THEN h < k ELSE h > k

\* lks_in_bdd of a rule that r meets at table p.  The rules of a table that is
\* copied have no headers of their own there yet.
Has(a, p) == IF Copied(p) THEN link_BDDs[a][0] ELSE link_BDDs[a][p]

\* Mutant: r loses what the lower rules have.
LosesBelow(r, p, S) == UNION {Has(a, p) : a \in {x \in S : x > r}}

\* What r loses at table p to the rules of S: those above it keep what they have.
Loses(r, p, S) == UNION {Has(a, p) : a \in {x \in S : x <= r}}

\* r starts at a port's table with what it has left at the one for every port.
Start(r, m, p, hits) ==
  IF OnAllPorts(r) /\ p # 0 THEN link_BDDs[r][0] \ Loses(r, 0, Met(r, m, 0, hits))
                            ELSE link_BDDs[r][p]

\* What r has left at table p when it meets a.
Left(r, m, p, hits, a, lowFirst) ==
  Start(r, m, p, hits) \
    Loses(r, p, {b \in Met(r, m, p, hits) : MetEarlier(b, a, m, p, lowFirst)})

\* Mutant: the lower rule gives up all it has.
YieldsWhole(a, r, p, left) == IF a < r THEN {} ELSE Has(a, p)

\* Mutant: the higher rule gives up headers as well.
YieldsAlways(a, r, p, left) == Has(a, p) \intersect left

\* What a gives up to r, which has left.  A higher rule keeps all.  Within one
\* merged rule nothing moves, and a set is taken whole.
Yields(a, r, p, left) ==
  IF a < r THEN {}
  ELSE IF ~SameMerged(a, r) THEN Has(a, p) \intersect left
  ELSE IF p = 0 THEN left ELSE Has(a, p)

\* mtbdd_maketnode_portin_mtbdd_r_add for all that r meets.
AddLinks(r, m, hits, lowFirst) ==
  [x \in Rules |-> [p \in Tables |->
     IF p \notin Targets(r) \/ x \notin Met(r, m, p, hits) \union {r} THEN link_BDDs[x][p]
     ELSE IF x = r THEN Start(r, m, p, hits) \ Loses(r, p, Met(r, m, p, hits))
     ELSE Has(x, p) \ Yields(x, r, p, Left(r, m, p, hits, x, lowFirst))]]

\* add_merged_rule_changes: what merged rules lose to r's.
AddChanges(r, m, hits, lowFirst) ==
  [k \in MergeKeys |-> [p \in Tables |-> changes[k][p] \union
     UNION {Yields(a, r, p, Left(r, m, p, hits, a, lowFirst)) :
       a \in {x \in Rules : /\ p \in Targets(r) /\ x \in Met(r, m, p, hits)
                            /\ MergeKey(x) = k /\ ~SameMerged(x, r)}}]]

\* get_delta_inserting_a_rule: the merged rules give up what the changes name,
\* and r's merged rule gets what r has.
Delta(link, ch, r) ==
  [k \in MergeKeys |-> [p \in Tables |->
     (merged_BDDs[k][p] \ ch[k][p]) \union (IF k = MergeKey(r) THEN link[r][p] ELSE {})]]

\* Update_aRule_Insert of r in the headers m.  The changes stay for the next
\* insertion unless they are reset (reset_mgr_change_tmp).
AddRule(r, m, reset) ==
  \E lowFirst \in BOOLEAN, hits \in SUBSET seen :
    LET ch == AddChanges(r, m, hits, lowFirst)
    IN  /\ in_mtbdd_r' = AddTop(r, m)
        /\ covering' = AddCovering(r, m, hits)
        /\ link_BDDs' = AddLinks(r, m, hits, lowFirst)
        /\ merged' = merged \union {r}
        /\ merged_BDDs' = Delta(link_BDDs', ch, r)
        /\ changes' = IF reset THEN NoChanges ELSE ch
        /\ seen' = {}                   \* mtbddop_count++

-----------------------------------------------------------------------------
(* Operations.                                                             *)

\* generate_mtbddrules on the parsed rules: what r has before it is inserted.
FullLinks(r) ==
  [p \in Tables |-> IF p \in (IF OnAllPorts(r) THEN {0} ELSE lks_in[r])
                    THEN mf_in[r] ELSE {}]

Init ==
  /\ mf_in \in [Rules -> MatchSets]
  /\ lks_in \in [Rules -> PortSets]
  /\ action \in [Rules -> Actions]
  /\ type = [r \in Rules |-> "new"]
  /\ in_mtbdd_r = [p \in Tables |-> Empty]
  /\ covering = [r \in Rules |-> {}]
  /\ link_BDDs = [r \in Rules |-> FullLinks(r)]
  /\ merged = {}
  /\ merged_BDDs = NoChanges
  /\ changes = NoChanges
  /\ seen = {}
  /\ readd = {}
  /\ removed = NULL

\* Update_aRule_Insert of a rule that is not in the tables; both callers then
\* reset the changes.
Insert(r) ==
  /\ readd = {}
  /\ type[r] # "BS"
  /\ type' = [type EXCEPT ![r] = "BS"]
  /\ AddRule(r, mf_in[r], TRUE)
  /\ UNCHANGED <<parsed, readd, removed>>

\* get_readd_rule_arr_when_remove_arule: the rules that are put back ...
ReaddRules(r) == {x \in covering[r] : type[x] # "RM"}

\* ... and what they are given: all that r matches, at every port where they
\* have a header left.
GiveBack(x, r) ==
  [p \in Tables |-> IF link_BDDs[x][p] = {} THEN {}
                    ELSE link_BDDs[x][p] \union mf_in[r]]

\* The tables that r is taken out of, in this order.
RemoveTables(r) ==
  {p \in (IF OnAllPorts(r) THEN Tables ELSE lks_in[r]) : in_mtbdd_r[p] # Empty}

\* Mutant: r meets itself.
TopsAtSelf(r, p) == {in_mtbdd_r[p][h] : h \in mf_in[r]} \ {NULL}

\* The rules that r meets on its way out.
TopsAt(r, p) == {in_mtbdd_r[p][h] : h \in mf_in[r]} \ {NULL, r}

\* Update_aRule_Remove up to the loop that puts the hidden rules back.  The tag
\* is counted before each operation: the first insertion that follows finds the
\* entries of the last table.
Remove(r) ==
  /\ readd = {}
  /\ type[r] = "BS"
  /\ type' = [type EXCEPT ![r] = "RM"]
  /\ readd' = ReaddRules(r)
  /\ removed' = IF readd' = {} THEN NULL ELSE r
  /\ in_mtbdd_r' = [p \in Tables |->
       IF p \in RemoveTables(r)
         THEN [h \in Headers |-> IF h \in mf_in[r] /\ in_mtbdd_r[p][h] = r
                                 THEN NULL ELSE in_mtbdd_r[p][h]]
         ELSE in_mtbdd_r[p]]
  /\ covering' = [a \in Rules |->
       IF \E p \in RemoveTables(r) : a \in TopsAt(r, p) /\ a <= r
         THEN covering[a] \ {r} ELSE covering[a]]
  /\ link_BDDs' = [x \in Rules |-> IF x = r THEN FullLinks(r)
                                   ELSE IF x \in readd' THEN GiveBack(x, r)
                                   ELSE link_BDDs[x]]
  /\ seen' = {<<a, r>> : a \in UNION {TopsAt(r, p) :
                p \in {q \in RemoveTables(r) : \A o \in RemoveTables(r) : o <= q}}}
  /\ UNCHANGED <<parsed, merged, merged_BDDs, changes>>

\* Mutant: the loop does not advance.
SameLoop(x) == readd

\* The rules still to insert after x.
RestOfLoop(x) == readd \ {x}

\* One iteration of that loop: Update_aRule_Insert of the virtual rule of x,
\* which shares the terminal and lks_in_bdd of x.
Readd(x) ==
  /\ x \in readd
  /\ \A y \in readd : x <= y
  /\ AddRule(x, mf_in[removed] \intersect mf_in[x], FALSE)
  /\ readd' = RestOfLoop(x)
  /\ removed' = IF readd' = {} THEN NULL ELSE removed
  /\ UNCHANGED <<parsed, type>>
=============================================================================
