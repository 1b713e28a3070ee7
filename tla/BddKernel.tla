----------------------------- MODULE BddKernel ------------------------------
(***************************************************************************)
(* The BDD kernel in all_testpk.h: unique nodes in hash chains, a free     *)
(* list, reference counts, the stack that protects the intermediate        *)
(* results of bdd_apply, mark-and-sweep collection, growth and the caches: *)
(* that of bdd_apply here, and memo and misc for the modules that extend   *)
(* this one.                                                               *)
(*                                                                         *)
(* The C functions change the table while they compute, and a collection   *)
(* can start in any bdd_makenode of the recursion.  They are operators     *)
(* here that map a table t to a table and a result, [t, res].              *)
(***************************************************************************)
EXTENDS Integers, Sequences, FiniteSets

CONSTANTS
  Headers,
  Bit(_, _),    \* Bit(h, level): the bit of h that the BDD variable of level tests
  VarNum,       \* bddvarnum
  InitSize,     \* bddnodesize at the start
  MaxSize,      \* bddmaxnodesize
  Growth,       \* bddmaxnodeincrease
  MaxRef        \* MAXREF, where a reference count stays for ever

ASSUME SizeAssumption ==
  /\ {VarNum, InitSize, MaxSize, Growth, MaxRef} \subseteq Nat \ {0}
  /\ 3 + 2 * VarNum <= InitSize /\ InitSize <= MaxSize
  /\ Growth <= InitSize

Levels == 0 .. VarNum - 1

\* The bits of a header are independent.
ASSUME BitsAssumption ==
  /\ \A h \in Headers, level \in Levels : Bit(h, level) \in {0, 1}
  /\ \A bits \in [Levels -> {0, 1}] :
       \E h \in Headers : \A level \in Levels : Bit(h, level) = bits[level]

Ops == {"and", "or", "diff"}

\* level, low, high and refcou of a node, and the chain that holds it; low and
\* chain are -1 in a free slot.
Node(level, low, high, refcou, chain) ==
  [level |-> level, low |-> low, high |-> high, refcou |-> refcou, chain |-> chain]

FreeSlot == Node(0, -1, -1, 0, -1)

\* The values that a table's fields may have.  memo and misc hold the entries of
\* the modules that extend this one.  collected says that gbcollectnum is not 0.
Nodes ==
  [level : 0 .. VarNum, low : Nat \union {-1}, high : Nat \union {-1},
   refcou : 0 .. MaxRef, chain : Nat \union {-1}]

Tables ==
  [size    : InitSize .. MaxSize,
   node    : [0 .. MaxSize - 1 -> Nodes],
   free    : Seq(Nat),
   stack   : Seq(Nat),
   cache   : SUBSET [l : Nat, r : Nat, op : Ops, res : Nat],
   memo    : SUBSET [a : Nat, b : Nat, c : Nat, res : Nat],
   misc    : SUBSET [a : Nat, b : Nat, c : Nat],
   collected : BOOLEAN,
   stopped : BOOLEAN,
   wild    : BOOLEAN]

\* bddnodesize is t.size; the places from there on are not allocated yet.
Slots(t) == 0 .. t.size - 1
Used(t) == {n \in Slots(t) : t.node[n].low # -1}

Entries(seq) == {seq[i] : i \in DOMAIN seq}

\* The numbers of S from the smallest on: the k-th has k - 1 numbers of S below it.
InOrder(S) ==
  [k \in 1 .. Cardinality(S) |->
     CHOOSE i \in S : Cardinality({x \in S : x < i}) = k - 1]

\* NODEHASH_K, as a hash that depends on the table's size.
Hash(t, level, low, high) == (level + low + 2 * high) % t.size

\* The unique node below n, found in its chain.
Rechain(t, n) ==
  [t.node[n] EXCEPT !.chain = Hash(t, t.node[n].level, t.node[n].low, t.node[n].high)]

-----------------------------------------------------------------------------
(* Collection, growth, bdd_makenode.                                       *)

\* The nodes that bdd_mark follows n to: none from a terminal of an MTBDD.
SonsOf(t, n) ==
  IF n < 3 \/ t.node[n].low \in {-1, 2} THEN {} ELSE {t.node[n].low, t.node[n].high}

\* What bdd_mark reaches from a set of nodes, one generation of sons at a time.
Reached(t, roots) ==
  LET Reach[i \in 0 .. t.size] ==
        IF i = 0 THEN roots
        ELSE LET nodes == Reach[i - 1] IN nodes \union UNION {SonsOf(t, n) : n \in nodes}
  IN  Reach[t.size]

Referenced(t) == {n \in Slots(t) : t.node[n].refcou > 0}

\* Mutant: the reference stack is not a root.
MarkedRefsOnly(t) == Reached(t, Referenced(t))

\* bdd_mark from the reference stack and from every referenced node.
Marked(t) == Reached(t, Entries(t.stack) \union Referenced(t))

\* Mutant: the apply cache survives.
CollectKeepCache(t) ==
  LET kept  == Marked(t) \intersect Used(t)
      swept == {n \in Slots(t) : n >= 3 /\ n \notin kept}
  IN  [t EXCEPT !.node = [n \in DOMAIN @ |->
                            IF n \in swept THEN FreeSlot
                            ELSE IF n \in kept /\ n >= 3 THEN Rechain(t, n) ELSE t.node[n]],
                !.free = InOrder(swept),
                !.collected = TRUE]

\* bdd_gbc: what is not marked goes to the free list, what is marked back to
\* its chain, and every cache is emptied.
Collect(t) ==
  LET kept  == Marked(t) \intersect Used(t)
      swept == {n \in Slots(t) : n >= 3 /\ n \notin kept}
  IN  [t EXCEPT !.node = [n \in DOMAIN @ |->
                            IF n \in swept THEN FreeSlot
                            ELSE IF n \in kept /\ n >= 3 THEN Rechain(t, n) ELSE t.node[n]],
                !.free = InOrder(swept),
                !.cache = {}, !.memo = {}, !.misc = {},
                !.collected = TRUE]

\* The new bddnodesize.
Wider(t) == IF t.size + Growth > MaxSize THEN MaxSize ELSE t.size + Growth

\* Mutant: the nodes stay in the chains of the old size.
GrowNoRehash(t) ==
  LET wide == [t EXCEPT !.size = Wider(t)]
  IN  [wide EXCEPT !.free = InOrder(Slots(wide) \ Used(wide))]

\* Mutant: bddfreepos is not reset before the rehash.
GrowKeepFree(t) ==
  LET wide == [t EXCEPT !.size = Wider(t)]
  IN  [wide EXCEPT !.node = [n \in DOMAIN @ |->
                               IF n >= 2 /\ n \in Used(wide) THEN Rechain(wide, n)
                               ELSE wide.node[n]],
                   !.free = InOrder(Slots(wide) \ Used(wide)) \o t.free]

\* bdd_noderesize(1) and bdd_gbc_rehash: new free slots, new chains.
Grow(t) ==
  LET wide == [t EXCEPT !.size = Wider(t)]
  IN  [wide EXCEPT !.node = [n \in DOMAIN @ |->
                               IF n >= 2 /\ n \in Used(wide) THEN Rechain(wide, n)
                               ELSE wide.node[n]],
                   !.free = InOrder(Slots(wide) \ Used(wide))]

\* Few slots are free after the collection: minfreenodes is 20 percent.
Crowded(t) == (Len(t.free) * 100) \div t.size <= 20

\* The nodes that the search of a chain compares equal.
Found(t, level, low, high) ==
  {n \in Used(t) : /\ t.node[n].chain = Hash(t, level, low, high)
                   /\ t.node[n].level = level
                   /\ t.node[n].low = low
                   /\ t.node[n].high = high}

\* A free slot is needed: collect when there is none, and grow when the
\* collection has freed too little.
Widen(t) == IF Crowded(t) /\ t.size < MaxSize THEN Grow(t) ELSE t
Refill(t) == IF t.free # <<>> THEN t ELSE Widen(Collect(t))

\* The first free slot gets the node.  Without one bdd_error ends the program.
Enter(t, level, low, high) ==
  IF t.free = <<>> THEN [t |-> [t EXCEPT !.stopped = TRUE], res |-> 0]
  ELSE [t   |-> [t EXCEPT !.node[Head(t.free)] =
                      Node(level, low, high, @.refcou, Hash(t, level, low, high)),
                    !.free = Tail(@)],
        res |-> Head(t.free)]

\* bdd_makenode
MakeNode(t, level, low, high) ==
  LET found == Found(t, level, low, high)
  IN  IF low = high /\ low # 2 THEN [t |-> t, res |-> low]
      ELSE IF found # {} THEN [t |-> t, res |-> CHOOSE n \in found : TRUE]
      ELSE Enter(Refill(t), level, low, high)

-----------------------------------------------------------------------------
(* bdd_apply                                                               *)

\* The cases at the head of apply_rec, and oprres: {} when it must recurse.
Easy(l, r, op) ==
  CASE op = "and" -> IF l = r THEN {l} ELSE IF 0 \in {l, r} THEN {0}
                     ELSE IF l = 1 THEN {r} ELSE IF r = 1 THEN {l} ELSE {}
    [] op = "or"  -> IF l = r THEN {l} ELSE IF 1 \in {l, r} THEN {1}
                     ELSE IF l = 0 THEN {r} ELSE IF r = 0 THEN {l} ELSE {}
    [] op = "diff" -> IF {l, r} \subseteq {0, 1} THEN {IF l = 1 /\ r = 0 THEN 1 ELSE 0}
                      ELSE {}

Cached(t, l, r, op) == {e \in t.cache : e.l = l /\ e.r = r /\ e.op = op}

Push(done) == [done.t EXCEPT !.stack = Append(@, done.res)]
ReadRef(t, i) == t.stack[Len(t.stack) + 1 - i]
PopRef2(t) == [t EXCEPT !.stack = SubSeq(@, 1, Len(@) - 2)]

Remember(done, l, r, op) ==
  [t   |-> [PopRef2(done.t) EXCEPT !.cache =
              @ \union {[l |-> l, r |-> r, op |-> op, res |-> done.res]}],
   res |-> done.res]

\* The end of apply_rec, when both results are on the stack.
Combine(t, level, l, r, op) ==
  IF t.stopped \/ t.wild THEN [t |-> t, res |-> 0]
  ELSE Remember(MakeNode(t, level, ReadRef(t, 2), ReadRef(t, 1)), l, r, op)

\* apply_rec, where below is apply_rec for nodes of deeper levels.  The program has
\* ended once stopped is set; wild marks a table where the code has read a slot
\* that a collection has freed.
ApplyRec(below, t, l, r, op) ==
  LET level == IF t.node[l].level <= t.node[r].level THEN t.node[l].level
               ELSE t.node[r].level
      Son(n, b) == IF t.node[n].level # level THEN n
                   ELSE IF b = 0 THEN t.node[n].low ELSE t.node[n].high
      low  == Push(below[[t |-> t, l |-> Son(l, 0), r |-> Son(r, 0), op |-> op]])
      both == Push(below[[t |-> low, l |-> Son(l, 1), r |-> Son(r, 1), op |-> op]])
  IN  IF t.stopped \/ t.wild THEN [t |-> t, res |-> 0]
      ELSE IF ~ {l, r} \subseteq Used(t) THEN [t |-> [t EXCEPT !.wild = TRUE], res |-> 0]
      ELSE IF Easy(l, r, op) # {} THEN [t |-> t, res |-> CHOOSE n \in Easy(l, r, op) : TRUE]
      ELSE IF Cached(t, l, r, op) # {}
        THEN [t |-> t, res |-> (CHOOSE e \in Cached(t, l, r, op) : TRUE).res]
      ELSE Combine(both, level, l, r, op)

Calls == [t : Tables, l : Nat, r : Nat, op : Ops]

\* apply_rec with at most k more levels to go.  No path has more than VarNum nodes
\* and a constant, unless a slot on it has been freed and taken again.
ApplyAt[k \in 0 .. VarNum + 1] ==
  [c \in Calls |->
     IF k = 0 THEN [t |-> [c.t EXCEPT !.wild = TRUE], res |-> 0]
     ELSE ApplyRec(ApplyAt[k - 1], c.t, c.l, c.r, c.op)]

\* bdd_apply: a freed operand is an error; INITREF, then the recursion.
Apply(t, l, r, op) ==
  IF {l, r} \subseteq Used(t)
    THEN ApplyAt[VarNum + 1][[t |-> [t EXCEPT !.stack = <<>>], l |-> l, r |-> r, op |-> op]]
  ELSE [t |-> [t EXCEPT !.stopped = TRUE], res |-> 0]

\* bdd_addref and bdd_delref: a freed node is an error, and so is giving up a
\* reference that is not there; bdd_error ends the program.
AddRef(t, n) ==
  IF n < 2 THEN t
  ELSE IF n \notin Used(t) THEN [t EXCEPT !.stopped = TRUE]
  ELSE [t EXCEPT !.node[n].refcou = IF @ < MaxRef THEN @ + 1 ELSE @]

DelRef(t, n) ==
  IF n < 2 THEN t
  ELSE IF n \notin Used(t) \/ t.node[n].refcou = 0 THEN [t EXCEPT !.stopped = TRUE]
  ELSE [t EXCEPT !.node[n].refcou = IF @ # MaxRef THEN @ - 1 ELSE @]

-----------------------------------------------------------------------------
(* The table at the start, and what its nodes stand for.                   *)

\* bdd_setvarnum makes bdd_ithvar(v) and bdd_nithvar(v) in the first slots.
VarNode(v) == 3 + 2 * v
NVarNode(v) == 4 + 2 * v

InitTable ==
  LET const == {0, 1, 2}
      Var(n) == LET v == (n - 3) \div 2
                    b == IF n = VarNode(v) THEN 0 ELSE 1
                IN  Node(v, b, 1 - b, MaxRef, Hash([size |-> InitSize], v, b, 1 - b))
  IN  [size    |-> InitSize,
       node    |-> [n \in 0 .. MaxSize - 1 |->
                      IF n \in const
                        THEN Node(IF n = 2 THEN 0 ELSE VarNum, 0, 0, MaxRef, -1)
                      ELSE IF n < 3 + 2 * VarNum THEN Var(n) ELSE FreeSlot],
       free    |-> InOrder((3 + 2 * VarNum) .. (InitSize - 1)),
       stack   |-> <<>>,
       cache   |-> {}, memo |-> {}, misc |-> {},
       collected |-> FALSE,
       stopped |-> FALSE,
       wild    |-> FALSE]

\* The headers of low whose bit is 0 and those of high whose bit is 1.
Branch(level, low, high) ==
  {h \in low : Bit(h, level) = 0} \union {h \in high : Bit(h, level) = 1}

\* The headers that lead from node n to BDDONE.
Denotes(t, n) ==
  LET D[m \in Slots(t)] ==
        IF m < 3 \/ m \notin Used(t) THEN IF m = 1 THEN Headers ELSE {}
        ELSE Branch(t.node[m].level, D[t.node[m].low], D[t.node[m].high])
  IN  D[n]

\* Every son of a used node is used and lies below it: no node that is needed
\* has been freed, or freed and taken for another.
WellFormed(t) ==
  \A n \in Used(t) : n >= 3 =>
    \A son \in {t.node[n].low, t.node[n].high} :
      son \in Used(t) /\ t.node[n].level < t.node[son].level
=============================================================================
