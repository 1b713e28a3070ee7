----------------------------- MODULE MtbddGraph -----------------------------
(***************************************************************************)
(* One switch's MTBDD as it is stored: nodes of the BDD kernel, value      *)
(* nodes, rules that hold node numbers, and the tagged entries of the      *)
(* operation caches.  MtbddTable describes the same updates header by      *)
(* header; here a recursion walks two graphs, skips what the cache knows,  *)
(* and changes value nodes as it meets them.                               *)
(*                                                                         *)
(* The C functions change all of this while they compute.  They are        *)
(* operators here from a state s to a state and a node, [s, res].          *)
(***************************************************************************)
EXTENDS BddKernel

CONSTANTS
  Rules,        \* positions of the switch's rules: 0, 1, ...
  NULL,         \* the null pointer
  GivenRules,   \* what a file may say of the rules: the headers that each
                \* matches, and those that it makes of them
  MaxValues,    \* MTBDDSIZE
  CacheSizes,   \* the sizes that applycache and misccache may have
  MaxTag        \* bound: operations before the counters are reset; they run
                \* from 20 to 65534 in the program

ASSUME GraphAssumption ==
  /\ IsFiniteSet(Rules) /\ Rules = 0 .. Cardinality(Rules) - 1
  /\ NULL \notin Nat
  /\ GivenRules \subseteq [Rules -> [mf_in : SUBSET Headers, mf_out : SUBSET Headers]]
  /\ {MaxValues, MaxTag} \subseteq Nat
  /\ CacheSizes \subseteq Nat \ {0}

(***************************************************************************)
(* The state s of the operations:                                          *)
(*   t          the kernel's table; t.memo holds the entries of applycache *)
(*              whose third key is mtbddop_count, t.misc those of misccache  *)
(*   value      value nodes; value[v + 1] is mtbddvalues[v]                *)
(*   covering   covering[r]                                                *)
(*   tag        mtbddop_count and coveringop_count: each operation adds 1  *)
(*              to both, and they are reset together                       *)
(*   cacheSize  size of the two direct-mapped caches                       *)
(*   lowFirst   the order in which the compiler evaluates two recursive    *)
(*              calls in one argument list                                 *)
(***************************************************************************)
States ==
  [t         : Tables,
   value     : Seq([rule_pair : Rules \X (Rules \union {NULL}), self_bdd : Nat]),
   covering  : [Rules -> SUBSET Rules],
   tag       : Nat,
   cacheSize : CacheSizes,
   lowFirst  : BOOLEAN]

InitState(cacheSize, lowFirst) ==
  [t |-> InitTable, value |-> <<>>, covering |-> [r \in Rules |-> {}],
   tag |-> 0, cacheSize |-> cacheSize, lowFirst |-> lowFirst]

\* Mutant: the operation runs under the tag of the one before.
OldTag(st) == st

\* Begin an operation: a new tag for the entries it makes.
NewTag(st) == [st EXCEPT !.tag = @ + 1]

\* Mutant: the counters alone.
ResetTag(st) == [st EXCEPT !.tag = 0]

\* bdd_operator_reset and the counters, once they are above the limit.
Reset(st) == [st EXCEPT !.t.cache = {}, !.t.memo = {}, !.t.misc = {}, !.tag = 0]
AfterUpdate(st) == IF st.tag > MaxTag THEN Reset(st) ELSE st

\* An entry takes the place of one that has the same hash.
Slot(st, e) == (e.a + 2 * e.b + 3 * e.c) % st.cacheSize
Store(st, cache, e) == {x \in cache : Slot(st, x) # Slot(st, e)} \union {e}

\* A terminal.
IsLeaf(t, n) == t.node[n].low = 2

\* Where header h leads from node n: a constant, or a terminal.
Leads(t, n, h) ==
  LET to[m \in Slots(t)] ==
        IF m < 2 \/ IsLeaf(t, m) THEN m
        ELSE to[IF Bit(h, t.node[m].level) = 0 THEN t.node[m].low ELSE t.node[m].high]
  IN  to[n]

-----------------------------------------------------------------------------
(* Value nodes.                                                            *)

\* The value node of a terminal node, as an index of value.
At(st, n) == st.t.node[n].high + 1

\* The result of a kernel operation, in the state st.
InState(st, done) == [s |-> [st EXCEPT !.t = done.t], res |-> done.res]

Terminal(st, v) == InState(st, MakeNode(st.t, 0, 2, v - 1))

\* bdd_delref(self_bdd); self_bdd = bdd_apply(self_bdd, b, op); bdd_addref(self_bdd).
Own(st, v, done) ==
  [st EXCEPT !.t = AddRef(done.t, done.res), !.value[v].self_bdd = done.res]
SetSelf(st, v, b, op) ==
  Own(st, v, Apply(DelRef(st.t, st.value[v].self_bdd), st.value[v].self_bdd, b, op))

\* Mutant: the two rules are compared the wrong way round.
FindValueSwapped(st, pair) ==
  {v \in DOMAIN st.value : v # 1 /\ st.value[v].rule_pair = <<pair[2], pair[1]>>}

\* The search of a hash chain: index 0 of mtbddvalues ends it and is not found.
FindValue(st, pair) == {v \in DOMAIN st.value : v # 1 /\ st.value[v].rule_pair = pair}

\* A new value node and its terminal; bdd_error ends the program when none is free.
NewValue(st, pair, self) ==
  IF Len(st.value) = MaxValues THEN [s |-> [st EXCEPT !.t.stopped = TRUE], res |-> 0]
  ELSE Terminal([st EXCEPT !.t = AddRef(@, self),
                           !.value = Append(@, [rule_pair |-> pair, self_bdd |-> self])],
                Len(st.value) + 1)

\* The terminal of two rules; the headers in insc are now known to lead there.
JoinValue(st, pair, insc) ==
  IF FindValue(st, pair) = {} THEN NewValue(st, pair, insc)
  ELSE LET v == CHOOSE w \in FindValue(st, pair) : TRUE
       IN  Terminal(SetSelf(st, v, insc, "or"), v)

\* covering_r_add or covering_r_remove, unless misccache says that this
\* operation has done it.
SetCovering(st, high, low, set) ==
  LET e == [a |-> high, b |-> low, c |-> st.tag]
  IN  IF e \in st.t.misc THEN st
      ELSE [st EXCEPT !.covering[high] = set, !.t.misc = Store(st, @, e)]

\* The headers that both terminals record move to the terminal of the pair.
Join(st, v1, v2, pair, insc) ==
  JoinValue(SetSelf(SetSelf([st EXCEPT !.t = insc.t], v2, insc.res, "diff"),
                    v1, insc.res, "diff"),
            pair, insc.res)

\* mtbdd_maketnode_mtbdd_1tb_r_add; every value node names a first rule.
AddTnode(st, n1, n2) ==
  LET Rule1(n) == st.value[At(st, n)].rule_pair[1]
      nh   == IF Rule1(n1) <= Rule1(n2) THEN n1 ELSE n2     \* of the higher rule
      nl   == IF nh = n1 THEN n2 ELSE n1
      high == Rule1(nh)
      low  == Rule1(nl)
      next == st.value[At(st, nh)].rule_pair[2]
      Self(n) == st.value[At(st, n)].self_bdd
      cov  == SetCovering(st, high, low, st.covering[high] \union {low})
  IN  IF n1 = n2 THEN [s |-> st, res |-> n1]
      ELSE IF next = NULL \/ next > low
        THEN Join(cov, At(st, n1), At(st, n2), <<high, low>>,
                  Apply(cov.t, Self(n2), Self(n1), "and"))
      ELSE [s |-> SetSelf(cov, At(st, nl), Self(nh), "diff"), res |-> nh]

\* mtbdd_maketnode_mtbdd_1tb_r_remove
RemoveTnode(st, n1, n2) ==
  LET out  == [st EXCEPT !.value[At(st, n2)].self_bdd = 0]
      rh1  == st.value[At(st, n1)].rule_pair[1]
      rh2  == st.value[At(st, n2)].rule_pair[1]
  IN  IF n1 = n2 \/ rh1 = rh2 THEN [s |-> out, res |-> 0]
      ELSE IF rh1 > rh2 THEN [s |-> out, res |-> n1]
      ELSE [s |-> SetCovering(out, rh1, rh2, st.covering[rh1] \ {rh2}), res |-> n1]

-----------------------------------------------------------------------------
(* The recursion.                                                          *)

\* What this operation has done already: entries that carry its tag.
Known(st, l, r) == {e \in st.t.memo : e.a = l /\ e.b = r /\ e.c = st.tag}

Memoize(done, l, r, tag) ==
  [done EXCEPT !.s.t.memo = Store(done.s, @, [a |-> l, b |-> r, c |-> tag, res |-> done.res])]

\* No collection has freed node n, a node of an MTBDD, its value node or a son of it,
\* and no new node has taken the place of one.
Intact(st, n) ==
  LET node == st.t.node
  IN  /\ n \in Used(st.t) /\ n >= 3
      /\ IF IsLeaf(st.t, n) THEN At(st, n) \in DOMAIN st.value
         ELSE \A son \in {node[n].low, node[n].high} :
                \/ son = 0
                \/ son \in Used(st.t) /\ IsLeaf(st.t, son)
                \/ son \in Used(st.t) /\ son >= 3 /\ node[n].level < node[son].level

Wild(st) == [s |-> [st EXCEPT !.t.wild = TRUE], res |-> 0]

\* The level at which the walk of two nodes goes on.
TopLevel(t, l, r) ==
  IF IsLeaf(t, l) THEN t.node[r].level
  ELSE IF IsLeaf(t, r) \/ t.node[l].level <= t.node[r].level THEN t.node[l].level
  ELSE t.node[r].level

\* The son of n for one value of the variable of a level, or n itself.
SonAt(t, n, level, b) ==
  IF IsLeaf(t, n) \/ t.node[n].level # level THEN n
  ELSE IF b = 0 THEN t.node[n].low ELSE t.node[n].high

\* The two calls and the node above their results; below is the recursion for
\* nodes of deeper levels.
Walk(below, st, op, l, r) ==
  LET level  == TopLevel(st.t, l, r)
      b0     == IF st.lowFirst THEN 0 ELSE 1
      Call(s, b) == below[[s |-> s, op |-> op, l |-> SonAt(st.t, l, level, b),
                           r |-> SonAt(st.t, r, level, b)]]
      first  == Call(st, b0)
      second == Call(first.s, 1 - b0)
      low    == IF st.lowFirst THEN first.res ELSE second.res
      high   == IF st.lowFirst THEN second.res ELSE first.res
  IN  InState(second.s, MakeNode(second.s.t, level, low, high))

\* mtbdd_r_add_1tb_rec and mtbdd_r_remove_1tb_rec.
Rec(below, st, op, l, r) ==
  IF st.t.stopped \/ st.t.wild THEN [s |-> st, res |-> 0]
  ELSE IF r = 0 THEN [s |-> st, res |-> l]
  ELSE IF l = 0 THEN [s |-> st, res |-> IF op = "add" THEN r ELSE l]
  ELSE IF ~ (Intact(st, l) /\ Intact(st, r)) THEN Wild(st)
  ELSE IF Known(st, l, r) # {}
    THEN [s |-> st, res |-> (CHOOSE e \in Known(st, l, r) : TRUE).res]
  ELSE Memoize(IF ~ IsLeaf(st.t, l) \/ ~ IsLeaf(st.t, r) THEN Walk(below, st, op, l, r)
               ELSE IF op = "add" THEN AddTnode(st, l, r) ELSE RemoveTnode(st, l, r),
               l, r, st.tag)

RecCalls == [s : States, op : {"add", "remove"}, l : Nat, r : Nat]

\* The recursion with at most k more levels to go.
RecAt[k \in 0 .. VarNum + 1] ==
  [c \in RecCalls |->
     IF k = 0 THEN Wild(c.s) ELSE Rec(RecAt[k - 1], c.s, c.op, c.l, c.r)]

Run(st, op, l, r) == RecAt[VarNum + 1][[s |-> st, op |-> op, l |-> l, r |-> r]]

\* bdd_to_mtbdd: BDDONE becomes the terminal.
Convert(below, t, l, tnode) ==
  LET low  == below[[t |-> t, l |-> t.node[l].low, tnode |-> tnode]]
      high == below[[t |-> low.t, l |-> t.node[l].high, tnode |-> tnode]]
  IN  IF l = 0 \/ t.stopped \/ t.wild THEN [t |-> t, res |-> 0]
      ELSE IF l \notin Used(t) THEN [t |-> [t EXCEPT !.wild = TRUE], res |-> 0]
      ELSE IF l = 1 THEN [t |-> t, res |-> tnode]
      ELSE MakeNode(high.t, t.node[l].level, low.res, high.res)

ConvertCalls == [t : Tables, l : Nat, tnode : Nat]

ConvertAt[k \in 0 .. VarNum + 1] ==
  [c \in ConvertCalls |->
     IF k = 0 THEN [t |-> [c.t EXCEPT !.wild = TRUE], res |-> 0]
     ELSE Convert(ConvertAt[k - 1], c.t, c.l, c.tnode)]

ToMtbdd(t, l, tnode) == ConvertAt[VarNum + 1][[t |-> t, l |-> l, tnode |-> tnode]]

-----------------------------------------------------------------------------
(* The operations: what they do to s, and the node they return.            *)

\* An operation on the switch's MTBDD gives up the old one first, and references
\* the new one.
Begin(st, sw) == [NewTag(st) EXCEPT !.t = DelRef(@, sw)]

\* Mutant: the new MTBDD is not referenced.
EndNoRef(done) == done

End(done) == [done EXCEPT !.s.t = AddRef(@, done.res)]

\* Update_aRule_Insert_1tb of a rule or a virtual rule.
InsertRule(st, sw, mtbdd_r) == End(Run(Begin(st, sw), "add", sw, mtbdd_r))

\* One iteration of get_readd_rule_arr_when_remove_arule: the virtual rule of x,
\* a rule that one with match set mf hides.
VirtualRule(st, mf, x) ==
  LET meet == Apply(st.t, mf, x.mf_in, "and")
      own  == SetSelf([st EXCEPT !.t = meet.t], At(st, x.vtnode_in), meet.res, "or")
  IN  InState(own, ToMtbdd(own.t, meet.res, x.vtnode_in))

\* Its value node records the whole match set again, and covering is freed.
Restore(done, r, x) ==
  LET v == At(done.s, x.vtnode_in)
  IN  [done EXCEPT !.s.t = AddRef(DelRef(@, done.s.value[v].self_bdd), x.mf_in),
                   !.s.value[v].self_bdd = x.mf_in,
                   !.s.covering[r] = {}]

\* Remove_aRule_fr_Mtbddnet_1tb of the rule x at position r.
RemoveRule(st, sw, r, x) ==
  Restore(End(Run(Begin(st, sw), "remove", sw, x.mtbdd_in)), r, x)

-----------------------------------------------------------------------------
(* The rules before the first update; g holds the state and the rules.     *)

\* mf2bdd: the BDD of those of the headers P that are in S, where the headers of P
\* agree in the bits above the last k levels.
MatchAt[k \in 0 .. VarNum] ==
  [c \in [t : Tables, P : SUBSET Headers, S : SUBSET Headers] |->
     LET level   == VarNum - k
         With(b) == {h \in c.P : Bit(h, level) = b}
         low     == MatchAt[k - 1][[c EXCEPT !.P = With(0)]]
         high    == MatchAt[k - 1][[t |-> low.t, P |-> With(1), S |-> c.S]]
     IN  IF k = 0 THEN [t |-> c.t, res |-> IF c.P \subseteq c.S THEN 1 ELSE 0]
         ELSE MakeNode(high.t, level, low.res, high.res)]

\* A rule is parsed: the BDDs of what it matches and of what it makes of that; the
\* caller of parse_js_rule references both.
Parse(g, given) ==
  LET in  == MatchAt[VarNum][[t |-> g.s.t, P |-> Headers, S |-> given.mf_in]]
      out == MatchAt[VarNum][[t |-> in.t, P |-> Headers, S |-> given.mf_out]]
  IN  [s |-> [g.s EXCEPT !.t = AddRef(AddRef(out.t, in.res), out.res)],
       rules |-> Append(g.rules, [mf_in |-> in.res, mf_out |-> out.res,
                                  vtnode_in |-> 0, mtbdd_in |-> 0])]

\* One iteration of generate_mtbddrules.
GenerateRule(g, r) ==
  LET mf   == g.rules[r + 1].mf_in
      leaf == NewValue(g.s, <<r, NULL>>, mf)
      made == ToMtbdd(AddRef(leaf.s.t, leaf.res), mf, leaf.res)
  IN  [s |-> [leaf.s EXCEPT !.t = AddRef(made.t, made.res)],
       rules |-> [g.rules EXCEPT ![r + 1].vtnode_in = leaf.res,
                                 ![r + 1].mtbdd_in = made.res]]
=============================================================================
