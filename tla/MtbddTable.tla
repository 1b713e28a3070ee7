----------------------------- MODULE MtbddTable -----------------------------
(***************************************************************************)
(* The multi-terminal BDD that all_testpk.h keeps for one switch           *)
(* (mtbdd_sws[sw]) and updates rule by rule.                               *)
(*                                                                         *)
(* A BDD stands for a set of headers and the switch's MTBDD for a function *)
(* from headers to terminals.  A terminal is a value node's rule_pair: the *)
(* rule that decides the header and, when known, the next rule below it.   *)
(* Each value node also carries self_bdd, the headers that lead to it, and *)
(* each rule carries covering, the rules it was found to hide.             *)
(*                                                                         *)
(* One action is one call of Update_aRule_Insert_1tb, or the first half of *)
(* Update_aRule_Remove (collect the rules to put back, take the rule out); *)
(* the loop that puts them back is one Readd step per virtual rule.        *)
(***************************************************************************)
EXTENDS RuleOrder, FiniteSets

VARIABLES
  mf_in,        \* mf_in[r]: the headers rule r matches; set when it is parsed
  type,         \* type[r]: "BS" or "RM"; "new" marks a rule that was never
                \* inserted (a parsed rule is RULE_BS already)
  mtbdd,        \* mtbdd[h]: the terminal of header h in mtbdd_sws[sw]
  covering,     \* covering[r]: the rules recorded as hidden by r
  self_bdd,     \* self_bdd[v]: the headers recorded for terminal v
  readd,        \* the virtual rules Update_aRule_Remove has still to insert
  removed       \* the rule being removed while readd is not empty, or NULL

vars == <<mf_in, type, mtbdd, covering, self_bdd, readd, removed>>

-----------------------------------------------------------------------------
(* Terminals: rule_pair[0] and rule_pair[1] of a value node.               *)

Terminal == (Rules \union {NULL}) \X (Rules \union {NULL})

Zero == <<NULL, NULL>>          \* BDDZERO: no rule applies
Leaf(r) == <<r, NULL>>          \* rule r alone: its vtnode_in
Rh(v) == v[1]                 \* rule_pair[0]
Rl(v) == v[2]                  \* rule_pair[1]

\* Mutant: the second rule is always replaced.
JoinsAlways(v, r) == TRUE

\* Adding r to terminal v makes a new pair, unless v already names a second
\* rule that is at least as high as r.
Joins(v, r) == Rh(v) > r \/ Rl(v) = NULL \/ Rl(v) > r

\* Mutant: the positions are not compared.
JoinOfUnordered(v, r) == <<Rh(v), r>>

JoinOf(v, r) == IF Rh(v) <= r THEN <<Rh(v), r>> ELSE <<r, Rh(v)>>

\* The terminal that replaces v in the headers where r is inserted.
AddTerminal(v, r) ==
  IF v \in {Zero, Leaf(r)} THEN Leaf(r)
  ELSE IF Joins(v, r) THEN JoinOf(v, r) ELSE v

\* Mutant: the null pointer instead of BDDZERO.
RemoveTerminalToNull(v, r) == IF Rh(v) = r THEN NULL ELSE v

\* Mutant: the second rule of the pair is promoted.
RemoveTerminalPromotes(v, r) ==
  IF Rh(v) # r THEN v ELSE IF Rl(v) = NULL THEN Zero ELSE Leaf(Rl(v))

\* The terminal that replaces v in the headers where r is removed.
RemoveTerminal(v, r) == IF Rh(v) = r THEN Zero ELSE v

-----------------------------------------------------------------------------
(* What inserting r in the headers m does to covering and to self_bdd.     *)

\* The terminals the recursion combines with Leaf(r).
Touched(r, m) == {mtbdd[h] : h \in m} \ {Zero, Leaf(r)}

\* Mutant: only a rule below the one on top is recorded.
AddCoveringBelowOnly(r, m) ==
  [a \in Rules |-> covering[a] \union
     {b \in Rules : \E v \in Touched(r, m) : a = Rh(v) /\ b = r /\ Rh(v) <= r}]

\* Mutant: the two rules are swapped.
AddCoveringSwapped(r, m) ==
  [a \in Rules |-> covering[a] \union
     {b \in Rules : \E v \in Touched(r, m) :
        {a, b} = {r, Rh(v)} /\ a > b}]

AddCovering(r, m) ==
  [a \in Rules |->
     covering[a] \union
       {b \in Rules : \E v \in Touched(r, m) :
          \/ a = Rh(v) /\ b = r /\ Rh(v) <= r
          \/ a = r /\ b = Rh(v) /\ Rh(v) > r}]

\* The two recursive calls are arguments of one call of bdd_makenode, so the
\* compiler may walk the low or the high branch first: v is met before w.
MetBefore(v, w, m, lowFirst) ==
  LET at(u) == {h \in m : mtbdd[h] = u}
  IN  IF lowFirst
        THEN \E h \in at(v) : \A k \in at(w) : h < k
        ELSE \E h \in at(v) : \A k \in at(w) : h > k

\* Mutant: a pair takes all headers of the terminal it replaces.
ClaimsAll(v, r, m, lowFirst) == self_bdd[v]

\* The headers that terminal v takes from Leaf(r): those that both record,
\* unless a terminal met earlier has taken them.
Claims(v, r, m, lowFirst) ==
  {h \in self_bdd[v] \intersect self_bdd[Leaf(r)] :
     ~ \E w \in Touched(r, m) : h \in self_bdd[w] /\ MetBefore(w, v, m, lowFirst)}

AddSelf(r, m, lowFirst) ==
  LET joined == {v \in Touched(r, m) : Joins(v, r)}
      lost(t) == IF t \in joined THEN Claims(t, r, m, lowFirst) ELSE {}
      gained(t) == UNION {Claims(v, r, m, lowFirst) :
                            v \in {u \in joined : JoinOf(u, r) = t}}
  IN  [t \in Terminal |->
         IF t = Leaf(r)
           THEN self_bdd[t] \ UNION {self_bdd[v] : v \in Touched(r, m)}
           ELSE (self_bdd[t] \ lost(t)) \union gained(t)]

\* mtbdd_r_add_1tb: add Leaf(r) to the MTBDD in the headers m.
AddRule(r, m) ==
  /\ mtbdd' = [h \in Headers |->
                 IF h \in m THEN AddTerminal(mtbdd[h], r) ELSE mtbdd[h]]
  /\ covering' = AddCovering(r, m)
  /\ \E lowFirst \in BOOLEAN : self_bdd' = AddSelf(r, m, lowFirst)

-----------------------------------------------------------------------------
(* Operations.                                                             *)

\* generate_mtbddrules has given every rule its value node, and init_mtbdd_sws
\* has emptied the table.
Init ==
  /\ mf_in \in [Rules -> SUBSET Headers]
  /\ type = [r \in Rules |-> "new"]
  /\ mtbdd = [h \in Headers |-> Zero]
  /\ covering = [r \in Rules |-> {}]
  /\ self_bdd = [v \in Terminal |->
                   IF Rh(v) \in Rules /\ Rl(v) = NULL THEN mf_in[Rh(v)] ELSE {}]
  /\ readd = {}
  /\ removed = NULL

\* Update_aRule_Insert_1tb of a rule that is not in the table, or of one that
\* matches nothing and that Update_aRule_Remove has therefore left as it was.
Insert(r) ==
  /\ readd = {}
  /\ type[r] = "BS" => mf_in[r] = {}
  /\ type' = [type EXCEPT ![r] = "BS"]
  /\ AddRule(r, mf_in[r])
  /\ UNCHANGED <<mf_in, readd, removed>>

\* Mutant: the test of the type is inverted.
ReaddRulesRemoved(r) == {x \in covering[r] : type[x] = "RM"}

\* Mutant: the test of the type is missing.
ReaddRulesAll(r) == covering[r]

\* get_readd_rule_arr_when_remove_arule: the rules hidden by r that are still
\* in the table.
ReaddRules(r) == {x \in covering[r] : type[x] # "RM"}

\* The match set of the virtual rule made of x while r is removed.
VirtualMf(r, x) == mf_in[r] \intersect mf_in[x]

\* A rule without input ports matches nothing, and Update_aRule_Remove returns
\* at once; even the rule's type stays.
RemoveNothing(r) ==
  /\ readd = {}
  /\ type[r] = "BS"
  /\ mf_in[r] = {}
  /\ UNCHANGED vars

\* Update_aRule_Remove up to the loop that puts the hidden rules back.
Remove(r) ==
  /\ readd = {}
  /\ type[r] = "BS"
  /\ mf_in[r] # {}
  /\ readd' = ReaddRules(r)
  /\ removed' = IF readd' = {} THEN NULL ELSE r
  /\ type' = [type EXCEPT ![r] = "RM"]
  /\ mtbdd' = [h \in Headers |->
                 IF h \in mf_in[r] THEN RemoveTerminal(mtbdd[h], r) ELSE mtbdd[h]]
  /\ covering' = [a \in Rules |->
                    IF a = r THEN {}
                    ELSE IF \E h \in mf_in[r] : Rh(mtbdd[h]) = a /\ a < r
                      THEN covering[a] \ {r}
                      ELSE covering[a]]
  /\ self_bdd' = [v \in Terminal |->
                    IF v = Leaf(r) THEN mf_in[r]
                    ELSE IF \E x \in readd' : v = Leaf(x)
                      THEN self_bdd[v] \union VirtualMf(r, Rh(v))
                      ELSE self_bdd[v]]
  /\ UNCHANGED mf_in

\* Mutant: the loop does not advance.
SameLoop(x) == readd

\* The rules still to insert after x.
RestOfLoop(x) == readd \ {x}

\* One iteration of that loop: Update_aRule_Insert_1tb of the virtual rule of
\* x.  The array is sorted by position, so x is the smallest one left.
Readd(x) ==
  /\ x \in readd
  /\ \A y \in readd : x <= y
  /\ AddRule(x, VirtualMf(removed, x))
  /\ readd' = RestOfLoop(x)
  /\ removed' = IF readd' = {} THEN NULL ELSE removed
  /\ UNCHANGED <<mf_in, type>>

Next == \E r \in Rules : Insert(r) \/ RemoveNothing(r) \/ Remove(r) \/ Readd(r)

Spec == Init /\ [][Next]_vars

-----------------------------------------------------------------------------
(* Properties.                                                             *)

\* The rules in the table.
Live == {r \in Rules : type[r] = "BS"}

\* The table that is being changed: a removal counts as done when its last
\* hidden rule is back.
Installed == IF readd = {} THEN Live ELSE Live \union {removed}

\* Every variable ranges over the values its C type can hold.
TypeOK ==
  /\ mf_in \in [Rules -> SUBSET Headers]
  /\ type \in [Rules -> {"new", "BS", "RM"}]
  /\ mtbdd \in [Headers -> Terminal]
  /\ covering \in [Rules -> SUBSET Rules]
  /\ self_bdd \in [Terminal -> SUBSET Headers]
  /\ readd \subseteq Rules
  /\ removed \in Rules \union {NULL}
  /\ (readd = {}) <=> (removed = NULL)

\* Between two updates every header leads to the highest-priority rule in the
\* table that matches it, whatever the order of the insertions and removals.
TopCorrect ==
  readd = {} => \A h \in Headers : Rh(mtbdd[h]) = Best(mf_in, Live, h)

\* Rule y is accounted for at header h: it decides h, it is waiting to be put
\* back there, or a live higher rule that matches h has recorded it.
Covered(y, h) ==
  \/ Rh(mtbdd[h]) = y
  \/ y \in readd /\ h \in mf_in[removed]
  \/ \E w \in Live : w < y /\ h \in mf_in[w] /\ y \in covering[w]

\* Why a removal can restore the table from covering alone: no live rule is
\* ever lost from it, although covering only names the rules that were on top
\* when an update met them, and a removal deletes entries from it.
CoverComplete == \A y \in Live : \A h \in mf_in[y] : Covered(y, h)

\* A header only leads to a live rule that matches it, also while hidden rules
\* are being put back.
TopLive ==
  \A h \in Headers :
    mtbdd[h] # Zero => Rh(mtbdd[h]) \in Live /\ h \in mf_in[Rh(mtbdd[h])]

\* mtbdd_maketnode_mtbdd_1tb_r_remove reports "there is wrong" when it meets a
\* rule below the one it removes.  It never does.
RemovalNeverReports ==
  readd = {} => \A r \in Live : \A h \in mf_in[r] :
                   mtbdd[h] # Zero /\ Rh(mtbdd[h]) <= r

\* A rule is never recorded as hiding itself or a higher rule, and no pair
\* names one rule twice: putting a rule back never meets the rule itself.
CoverDescends ==
  /\ \A a \in Rules : \A b \in covering[a] : a < b
  /\ \A h \in Headers : Rl(mtbdd[h]) # NULL => Rh(mtbdd[h]) < Rl(mtbdd[h])

\* While hidden rules are put back, the removed rule is out, the waiting rules
\* are in the table, and none of them decides a header the removed rule matched.
ReaddPending ==
  /\ \A a \in Rules : \A b \in covering[a] : type[b] # "new"
  /\ readd # {} =>
       /\ type[removed] = "RM"
       /\ readd \subseteq Live
       /\ \A h \in mf_in[removed] : Rh(mtbdd[h]) \notin readd

\* self_bdd of a terminal only holds headers that both of its rules match, in
\* any order of updates: a packet drawn from it exercises those two rules.
SelfWithin ==
  \A v \in Terminal :
    /\ Rh(v) \in Rules => self_bdd[v] \subseteq mf_in[Rh(v)]
    /\ Rh(v) \in Rules /\ Rl(v) \in Rules => self_bdd[v] \subseteq mf_in[Rl(v)]

Table == INSTANCE FlowTable WITH
  installed <- Installed,
  winner <- [h \in Headers |-> IF readd = {} THEN Rh(mtbdd[h])
                               ELSE Best(mf_in, Installed, h)]

\* The MTBDD table implements the flow table: a call of Update_aRule_Remove,
\* however many rules it puts back, withdraws one rule and moves no header to
\* any other than the next best one.
Implements == Table!Spec
=============================================================================
