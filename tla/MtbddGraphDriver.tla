-------------------------- MODULE MtbddGraphDriver --------------------------
(***************************************************************************)
(* The MTBDD part of test_testpk.c for one switch, on the stored graph:    *)
(* generate_mtbddrules, build_network_by_update_rules and                  *)
(* test_remove_then_readd_rules, with the resets of the operation caches.  *)
(* MtbddDriver is its specification.                                       *)
(***************************************************************************)
EXTENDS MtbddGraph

VARIABLES
  s,            \* what the operations change, see InitState
  rules,        \* rules[r]: the nodes mf_in, mf_out, vtnode_in and mtbdd_in of rule r
  type,         \* type[r], as in MtbddTable
  mtbdd_sw,     \* mtbdd_sws[sw]
  vrules,       \* the virtual rules still to insert, [idx, mtbdd_in] in order
  removed,      \* the rule being removed while vrules is not empty, or NULL
  phase, r_i    \* as in MtbddDriver

gvars == <<s, rules, type, mtbdd_sw, vrules, removed, phase, r_i>>

NRules == Cardinality(Rules)

\* The rules of a file are parsed, and generate_mtbddrules gives each its nodes.
GInit ==
  /\ \E m \in GivenRules, cacheSize \in CacheSizes, lowFirst \in BOOLEAN :
       LET parsed[i \in 0 .. NRules] ==
             IF i = 0 THEN [s |-> InitState(cacheSize, lowFirst), rules |-> <<>>]
             ELSE Parse(parsed[i - 1], m[i - 1])
           ready[i \in 0 .. NRules] ==
             IF i = 0 THEN parsed[NRules] ELSE GenerateRule(ready[i - 1], i - 1)
       IN  /\ s = ready[NRules].s
           /\ rules = [r \in Rules |-> ready[NRules].rules[r + 1]]
  /\ type = [r \in Rules |-> "new"]
  /\ mtbdd_sw = 0
  /\ vrules = <<>>
  /\ removed = NULL
  /\ phase = "build" /\ r_i = 0

\* Update_aRule_Insert_1tb(rules[r_i]), and the reset that follows it.
Insert ==
  /\ \E done \in {InsertRule(s, mtbdd_sw, rules[r_i].mtbdd_in)} :
       s' = AfterUpdate(done.s) /\ mtbdd_sw' = done.res
  /\ type' = [type EXCEPT ![r_i] = "BS"]
  /\ r_i' = r_i + 1
  /\ UNCHANGED <<rules, vrules, removed>>

\* One iteration of build_network_by_update_rules.
Build ==
  /\ ~ s.t.stopped /\ ~ s.t.wild
  /\ phase = "build" /\ r_i < NRules
  /\ Insert
  /\ UNCHANGED phase

\* test_remove_then_readd_rules starts.
StartReadd ==
  /\ ~ s.t.stopped /\ ~ s.t.wild
  /\ phase = "build" /\ r_i = NRules
  /\ phase' = "remove" /\ r_i' = 0
  /\ UNCHANGED <<s, rules, type, mtbdd_sw, vrules, removed>>

\* Update_aRule_Remove of a rule without input ports.
RemoveNothing ==
  /\ ~ s.t.stopped /\ ~ s.t.wild
  /\ phase = "remove" /\ r_i < NRules
  /\ rules[r_i].mf_in = 0
  /\ phase' = "insert"
  /\ UNCHANGED <<s, rules, type, mtbdd_sw, vrules, removed, r_i>>

\* Update_aRule_Remove up to the loop over the virtual rules.
RemoveOne ==
  /\ ~ s.t.stopped /\ ~ s.t.wild
  /\ phase = "remove" /\ r_i < NRules
  /\ rules[r_i].mf_in # 0
  /\ LET hidden == InOrder({x \in s.covering[r_i] : type[x] # "RM"})
         Add(g, x, done) ==
           [s |-> done.s, vrules |-> Append(g.vrules, [idx |-> x, mtbdd_in |-> done.res])]
         virtual[i \in 0 .. Len(hidden)] ==
           IF i = 0 THEN [s |-> s, vrules |-> <<>>]
           ELSE Add(virtual[i - 1], hidden[i],
                    VirtualRule(virtual[i - 1].s, rules[r_i].mf_in, rules[hidden[i]]))
     IN  \E ready \in {virtual[Len(hidden)]} :
           \E done \in {RemoveRule(ready.s, mtbdd_sw, r_i, rules[r_i])} :
             s' = done.s /\ mtbdd_sw' = done.res /\ vrules' = ready.vrules
  /\ type' = [type EXCEPT ![r_i] = "RM"]
  /\ removed' = IF vrules' = <<>> THEN NULL ELSE r_i
  /\ phase' = "insert"
  /\ UNCHANGED <<rules, r_i>>

\* One iteration of that loop; only the virtual rule's type becomes RULE_BS.
ReaddHidden ==
  /\ ~ s.t.stopped /\ ~ s.t.wild
  /\ phase = "insert" /\ vrules # <<>>
  /\ \E done \in {InsertRule(s, mtbdd_sw, Head(vrules).mtbdd_in)} :
       s' = done.s /\ mtbdd_sw' = done.res
  /\ vrules' = Tail(vrules)
  /\ removed' = IF vrules' = <<>> THEN NULL ELSE removed
  /\ UNCHANGED <<rules, type, phase, r_i>>

\* The insertion that ends an iteration of test_remove_then_readd_rules.
InsertOne ==
  /\ ~ s.t.stopped /\ ~ s.t.wild
  /\ phase = "insert" /\ vrules = <<>>
  /\ Insert
  /\ phase' = "remove"

GNext == Build \/ StartReadd \/ RemoveNothing \/ RemoveOne \/ ReaddHidden \/ InsertOne

GSpec == GInit /\ [][GNext]_gvars

-----------------------------------------------------------------------------
(* Properties.                                                             *)

\* The table, header by header, that the graph stands for.
PairOf(n) == IF n = 0 THEN <<NULL, NULL>> ELSE s.value[At(s, n)].rule_pair
SelfOf(pair) ==
  UNION {Denotes(s.t, s.value[v].self_bdd) :
           v \in {w \in DOMAIN s.value : s.value[w].rule_pair = pair}}

Table == INSTANCE MtbddDriver WITH
  mf_in    <- [r \in Rules |-> Denotes(s.t, rules[r].mf_in)],
  mtbdd    <- [h \in Headers |-> PairOf(Leads(s.t, mtbdd_sw, h))],
  covering <- s.covering,
  self_bdd <- [pair \in (Rules \union {NULL}) \X (Rules \union {NULL}) |-> SelfOf(pair)],
  readd    <- {vrules[i].idx : i \in DOMAIN vrules}

\* The graph program does what MtbddDriver says, header by header: sharing in
\* the graphs, entries that the caches keep, lose or keep past a reset, and the
\* order of the recursive calls never change the table, covering or self_bdd.
ImplementsTable == Table!DInit /\ [][Table!DNext]_(Table!dvars)

\* What the program holds for good: the switch's MTBDD, four nodes of each rule
\* and self_bdd of every value node; with how many hold each.
Held(n) ==
  (IF mtbdd_sw = n THEN 1 ELSE 0)
    + Cardinality({r \in Rules : rules[r].mf_in = n})
    + Cardinality({r \in Rules : rules[r].mf_out = n})
    + Cardinality({r \in Rules : rules[r].vtnode_in = n})
    + Cardinality({r \in Rules : rules[r].mtbdd_in = n})
    + Cardinality({v \in DOMAIN s.value : s.value[v].self_bdd = n})

\* No holder's reference is ever given up by another: every node has at least
\* as many references as holders, and no bdd_delref and no full table ends the
\* program.  The bound is large enough: no collection is ever needed.
RefsEnough ==
  /\ ~ s.t.stopped /\ ~ s.t.collected
  /\ \A n \in Used(s.t) : n >= 3 =>
       s.t.node[n].refcou >= (IF Held(n) < MaxRef THEN Held(n) ELSE MaxRef)

\* Every MTBDD that the program holds is whole: no collection, whenever it comes,
\* has taken one of its nodes, ended the program or made it read a freed slot.
\* bdd_makenode may collect (kernel.c), and apply_rec keeps its results on the
\* reference stack for that; mtbdd_r_add_1tb_rec does not, and Begin gives up the
\* old MTBDD first.  With a table so large that none comes it holds.
MtbddsKept ==
  LET Whole(n) == \A m \in Reached(s.t, {n}) : m = 0 \/ Intact(s, m)
  IN  /\ ~ s.t.stopped /\ ~ s.t.wild
      /\ Whole(mtbdd_sw)
      /\ \A r \in Rules : Whole(rules[r].mtbdd_in) /\ Whole(rules[r].vtnode_in)
      /\ \A i \in DOMAIN vrules : Whole(vrules[i].mtbdd_in)

\* A pair of rules has one value node and one terminal, so that counting
\* terminals counts pairs.
OnePerPair ==
  \A v, w \in DOMAIN s.value : s.value[v].rule_pair = s.value[w].rule_pair => v = w
=============================================================================
