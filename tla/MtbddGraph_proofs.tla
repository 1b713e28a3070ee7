------------------------- MODULE MtbddGraph_proofs -------------------------
(***************************************************************************)
(* Proofs about the stored graph of one switch's MTBDD, for every number   *)
(* of header bits, rules and value nodes, every size of the node table and *)
(* of the caches.  The kernel's lemmas come from NodeTable_proofs; nothing *)
(* here is about NodeTable's own program.                                  *)
(*                                                                         *)
(* What the program holds is whole as long as bdd_makenode has not started *)
(* a collection.  A collection can come in the middle of an operation that *)
(* goes on with what is left, so the proofs have two halves: whatever the  *)
(* table, an operation that has met a collection never looks as if it had  *)
(* not (Later), and one that has met none keeps everything (Good).         *)
(***************************************************************************)
EXTENDS MtbddGraphDriver, NodeTable_proofs

-----------------------------------------------------------------------------
(* The kernel on any table.                                                *)

\* A table, also one in which a collection has freed what is still needed.
Typed(t) ==
  /\ t \in Tables
  /\ \A n \in DOMAIN t.node : t.node[n].low # -1 => t.node[n].high \in Nat

\* A table never comes back from a collection or from an error.
Later(t, u) ==
  /\ Typed(u)
  /\ t.collected => u.collected
  /\ t.stopped => u.stopped
  /\ t.wild => u.wild

\* Two calls, one after the other.
LEMMA LaterTransitive ==
  ASSUME NEW t, NEW u, NEW v, Later(t, u), Later(u, v)
  PROVE  Later(t, v)
BY DEF Later

\* The fields of a typed table.
LEMMA TypedFields ==
  ASSUME NEW t, Typed(t)
  PROVE  /\ t \in Tables /\ t.size \in Nat \ {0} /\ t.size <= MaxSize
         /\ DOMAIN t.node = 0 .. MaxSize - 1
         /\ Slots(t) \subseteq DOMAIN t.node
         /\ \A n \in DOMAIN t.node : t.node[n] \in Nodes
         /\ \A n \in Used(t) : /\ n \in Slots(t) /\ n \in DOMAIN t.node /\ n \in Nat
                               /\ t.node[n].level \in 0 .. VarNum
                               /\ t.node[n].low \in Nat /\ t.node[n].high \in Nat
                               /\ t.node[n].refcou \in 0 .. MaxRef
<1>1. t \in Tables
  BY DEF Typed
<1>2. InitSize \in Nat /\ InitSize > 0 /\ MaxSize \in Nat
  BY SizeAssumption
<1>3. t.size \in Nat \ {0} /\ t.size <= MaxSize /\ DOMAIN t.node = 0 .. MaxSize - 1
  BY <1>1, <1>2, TableFields
<1>4. ASSUME NEW n \in Used(t)
      PROVE  /\ n \in Slots(t) /\ n \in DOMAIN t.node /\ n \in Nat
             /\ t.node[n].level \in 0 .. VarNum
             /\ t.node[n].low \in Nat /\ t.node[n].high \in Nat
             /\ t.node[n].refcou \in 0 .. MaxRef
  <2>1. n \in Slots(t) /\ n \in DOMAIN t.node /\ n \in Nat
    BY <1>1, TableFields
  <2>2. t.node[n].low # -1
    BY DEF Used
  <2> QED
    BY <1>1, <2>1, <2>2, TableFields DEF Typed
<1> QED
  BY <1>1, <1>3, <1>4, TableFields

\* The list of a set of slots.
LEMMA SlotList ==
  ASSUME NEW k \in Nat, NEW S \in SUBSET (0 .. k - 1)
  PROVE  /\ InOrder(S) \in Seq(Nat)
         /\ Entries(InOrder(S)) = S
         /\ \A i, j \in DOMAIN InOrder(S) : InOrder(S)[i] = InOrder(S)[j] => i = j
<1>1. IsFiniteSet(0 .. k - 1) /\ 0 .. k - 1 \subseteq Nat
  BY FS_Interval
<1> DEFINE I == 0 .. k - 1
<1>2. IsFiniteSet(S) /\ S \in SUBSET Nat
  <2>1. IsFiniteSet(I) /\ I \subseteq Nat /\ S \in SUBSET I
    BY <1>1
  <2> HIDE DEF I
  <2> QED
    BY <2>1, FS_Subset
<1> QED
  BY <1>2, InOrderList

\* A collection.
LEMMA CollectLater ==
  ASSUME NEW t, Typed(t)
  PROVE  LET u == Collect(t)
         IN  Later(t, u) /\ u.collected /\ u.stack = t.stack
<1> DEFINE kept  == Marked(t) \intersect Used(t)
           swept == {n \in Slots(t) : n >= 3 /\ n \notin kept}
           node  == [n \in DOMAIN t.node |->
                       IF n \in swept THEN FreeSlot
                       ELSE IF n \in kept /\ n >= 3 THEN Rechain(t, n) ELSE t.node[n]]
           u == Collect(t)
<1>1. /\ t \in Tables /\ t.size \in Nat \ {0} /\ DOMAIN t.node = 0 .. MaxSize - 1
      /\ \A n \in DOMAIN t.node : t.node[n] \in Nodes
      /\ \A n \in Used(t) : t.node[n].high \in Nat
  BY TypedFields
<1>2. FreeSlot \in Nodes /\ FreeSlot.low = -1
  BY SizeAssumption DEF FreeSlot, Node, Nodes
<1>3. \A n \in kept : Rechain(t, n) \in Nodes /\ Rechain(t, n).high \in Nat
  BY <1>1, RechainFacts
<1>4. InOrder(swept) \in Seq(Nat)
  <2>1. swept \in SUBSET (0 .. t.size - 1)
    BY DEF Slots
  <2> QED
    BY <1>1, <2>1, SlotList
<1>5. u = [t EXCEPT !.node = node, !.free = InOrder(swept), !.cache = {}, !.memo = {},
                    !.misc = {}, !.collected = TRUE]
  BY DEF Collect
<1>6. /\ node \in [0 .. MaxSize - 1 -> Nodes]
      /\ \A n \in DOMAIN node : node[n].low # -1 => node[n].high \in Nat
  <2> HIDE DEF swept, kept
  <2> QED
    BY <1>1, <1>2, <1>3 DEF Typed
<1> HIDE DEF node, swept
<1>7. /\ u \in Tables /\ u.node = node /\ u.collected = TRUE
      /\ u.stack = t.stack /\ u.stopped = t.stopped /\ u.wild = t.wild
  BY <1>1, <1>4, <1>5, <1>6 DEF Tables
<1> QED
  BY <1>6, <1>7 DEF Later, Typed

\* Growth.
LEMMA GrowLater ==
  ASSUME NEW t, Typed(t)
  PROVE  LET u == Grow(t)
         IN  Later(t, u) /\ u.collected = t.collected /\ u.stack = t.stack
<1> DEFINE wide == [t EXCEPT !.size = Wider(t)]
           node == [n \in DOMAIN t.node |->
                      IF n >= 2 /\ n \in Used(wide) THEN Rechain(wide, n) ELSE t.node[n]]
           free == InOrder(Slots(wide) \ Used(wide))
           u == Grow(t)
<1>1. /\ t \in Tables /\ t.size \in InitSize .. MaxSize /\ DOMAIN t.node = 0 .. MaxSize - 1
      /\ InitSize \in Nat /\ InitSize > 0 /\ MaxSize \in Nat /\ Growth \in Nat
      /\ \A n \in DOMAIN t.node : t.node[n] \in Nodes
  <2>1. /\ t \in Tables /\ DOMAIN t.node = 0 .. MaxSize - 1
        /\ \A n \in DOMAIN t.node : t.node[n] \in Nodes
    BY TypedFields
  <2>2. InitSize \in Nat /\ InitSize > 0 /\ MaxSize \in Nat /\ Growth \in Nat
    BY SizeAssumption
  <2>3. t.size \in InitSize .. MaxSize
    BY <2>1 DEF Tables
  <2> QED
    BY <2>1, <2>2, <2>3
<1>2. Wider(t) \in InitSize .. MaxSize
  BY <1>1 DEF Wider
<1>3. /\ wide \in Tables /\ wide.size = Wider(t) /\ wide.node = t.node /\ wide.stack = t.stack
      /\ wide.collected = t.collected /\ wide.stopped = t.stopped /\ wide.wild = t.wild
  BY <1>1, <1>2 DEF Tables
<1>4. Typed(wide)
  BY <1>3 DEF Typed
<1>5. u = [wide EXCEPT !.node = node, !.free = free]
  BY <1>3 DEF Grow
<1>6. free \in Seq(Nat)
  <2>1. Wider(t) \in Nat /\ Slots(wide) = 0 .. Wider(t) - 1
    BY <1>1, <1>2, <1>3 DEF Slots
  <2>2. Slots(wide) \ Used(wide) \in SUBSET (0 .. Wider(t) - 1)
    BY <2>1
  <2> QED
    BY <2>1, <2>2, SlotList
<1>7. \A n \in Used(wide) : Rechain(wide, n) \in Nodes /\ Rechain(wide, n).high \in Nat
  <2>1. wide.size \in Nat \ {0}
    BY <1>1, <1>2, <1>3
  <2> HIDE DEF wide
  <2>2. \A n \in Used(wide) : wide.node[n].high \in Nat
    BY <1>4, TypedFields
  <2> QED
    BY <1>3, <2>1, <2>2, RechainFacts
<1>8. /\ node \in [0 .. MaxSize - 1 -> Nodes]
      /\ \A n \in DOMAIN node : node[n].low # -1 => node[n].high \in Nat
  <2> HIDE DEF wide
  <2> QED
    BY <1>1, <1>7 DEF Typed
<1> HIDE DEF node, free
<1>9. /\ u \in Tables /\ u.node = node /\ u.collected = t.collected
      /\ u.stack = t.stack /\ u.stopped = t.stopped /\ u.wild = t.wild
  BY <1>3, <1>5, <1>6, <1>8 DEF Tables
<1> QED
  BY <1>8, <1>9 DEF Later, Typed

\* bdd_makenode needs a slot; with none at hand it collects.
LEMMA RefillLater ==
  ASSUME NEW t, Typed(t)
  PROVE  LET u == Refill(t)
         IN  /\ Later(t, u) /\ u.stack = t.stack
             /\ t.free = <<>> => u.collected
             /\ t.free # <<>> => u = t
<1>1. t.free # <<>> => Refill(t) = t
  BY DEF Refill
<1>2. Later(t, t)
  BY DEF Later
<1>3. ASSUME t.free = <<>>
      PROVE  Later(t, Refill(t)) /\ Refill(t).stack = t.stack /\ Refill(t).collected
  <2> DEFINE c == Collect(t)
  <2>1. Later(t, c) /\ c.collected /\ c.stack = t.stack
    BY CollectLater
  <2>2. Typed(c)
    BY <2>1 DEF Later
  <2> HIDE DEF c
  <2>3. /\ Later(c, Grow(c)) /\ Grow(c).collected = c.collected /\ Grow(c).stack = c.stack
    BY <2>2, GrowLater
  <2>4. Refill(t) = c \/ Refill(t) = Grow(c)
    BY <1>3 DEF Refill, Widen, c
  <2>5. Later(t, Grow(c))
    BY <2>1, <2>3, LaterTransitive
  <2> QED
    BY <2>1, <2>3, <2>4, <2>5
<1> QED
  BY <1>1, <1>2, <1>3

\* The first free slot is taken.
LEMMA EnterLater ==
  ASSUME NEW t, Typed(t), NEW level \in 0 .. VarNum, NEW low \in Nat, NEW high \in Nat
  PROVE  LET done == Enter(t, level, low, high)
         IN  Later(t, done.t) /\ done.res \in Nat /\ done.t.stack = t.stack
<1> DEFINE done == Enter(t, level, low, high)
           u == done.t
<1>1. /\ t \in Tables /\ t.size \in Nat \ {0} /\ DOMAIN t.node = 0 .. MaxSize - 1
      /\ \A n \in DOMAIN t.node : t.node[n] \in Nodes
      /\ t.free \in Seq(Nat)
  BY TypedFields, TableFields
<1>2. CASE t.free = <<>>
  <2>1. u = [t EXCEPT !.stopped = TRUE] /\ done.res = 0
    BY <1>2 DEF Enter
  <2>2. u \in Tables /\ u.node = t.node /\ u.collected = t.collected /\ u.stopped = TRUE
        /\ u.stack = t.stack /\ u.wild = t.wild
    BY <1>1, <2>1 DEF Tables
  <2> QED
    BY <2>1, <2>2 DEF Later, Typed
<1>3. CASE t.free # <<>>
  <2> DEFINE h == Head(t.free)
             new == Node(level, low, high, t.node[h].refcou, Hash(t, level, low, high))
             node == [t.node EXCEPT ![h] = new]
  <2>1. u = [t EXCEPT !.node = node, !.free = Tail(t.free)] /\ done.res = h
    BY <1>3 DEF Enter
  <2>2. h \in Nat /\ Tail(t.free) \in Seq(Nat)
    BY <1>1, <1>3
  <2>3. Hash(t, level, low, high) \in Nat
    BY <1>1, SizeAssumption, HashType
  <2>4. h \in DOMAIN t.node => new \in Nodes
    BY <1>1, <2>3 DEF Node, Nodes
  <2>5. new.high = high
    BY DEF Node
  <2> HIDE DEF h, new
  <2>6. /\ node \in [0 .. MaxSize - 1 -> Nodes]
        /\ \A n \in DOMAIN node : node[n].low # -1 => node[n].high \in Nat
    BY <1>1, <2>4, <2>5 DEF Typed
  <2> HIDE DEF node
  <2>7. u \in Tables /\ u.node = node /\ u.collected = t.collected /\ u.stopped = t.stopped
        /\ u.stack = t.stack /\ u.wild = t.wild
    BY <1>1, <2>1, <2>2, <2>6 DEF Tables
  <2> QED
    BY <2>1, <2>2, <2>6, <2>7 DEF Later, Typed
<1> QED
  BY <1>2, <1>3

\* bdd_makenode on any table.
LEMMA MakeNodeLater ==
  ASSUME NEW t, Typed(t), NEW level \in 0 .. VarNum, NEW low \in Nat, NEW high \in Nat
  PROVE  LET done == MakeNode(t, level, low, high)
         IN  Later(t, done.t) /\ done.res \in Nat /\ done.t.stack = t.stack
<1> DEFINE found == Found(t, level, low, high)
           done == MakeNode(t, level, low, high)
           u == Refill(t)
<1> SUFFICES Later(t, done.t) /\ done.res \in Nat /\ done.t.stack = t.stack
  OBVIOUS
<1> HIDE DEF done
<1>1. Later(t, t)
  BY DEF Later
<1>2. Later(t, u) /\ u.stack = t.stack /\ Typed(u)
  BY RefillLater DEF Later
<1>3. \A n \in found : n \in Nat
  <2>1. \A n \in Used(t) : n \in Nat
    BY TypedFields
  <2> QED
    BY <2>1 DEF Found
<1>4. CASE low = high /\ low # 2
  <2>1. done = [t |-> t, res |-> low]
    BY <1>4 DEF MakeNode, done
  <2> QED
    BY <1>1, <2>1
<1>5. CASE ~ (low = high /\ low # 2) /\ found # {}
  <2>1. done = [t |-> t, res |-> CHOOSE n \in found : TRUE]
    BY <1>5 DEF MakeNode, done
  <2>2. (CHOOSE n \in found : TRUE) \in found
    BY <1>5
  <2> QED
    BY <1>1, <1>3, <2>1, <2>2
<1>6. CASE ~ (low = high /\ low # 2) /\ found = {}
  <2>1. done = Enter(u, level, low, high)
    BY <1>6 DEF MakeNode, done
  <2> HIDE DEF u
  <2>2. Later(u, done.t) /\ done.res \in Nat /\ done.t.stack = u.stack
    BY <1>2, <2>1, EnterLater
  <2>3. Later(t, done.t)
    BY <1>2, <2>2, LaterTransitive
  <2> QED
    BY <1>2, <2>2, <2>3
<1> HIDE DEF found
<1> QED
  BY <1>4, <1>5, <1>6

-----------------------------------------------------------------------------
(* bdd_apply on any table.                                                 *)

\* A result goes on the reference stack.
LEMMA PushLater ==
  ASSUME NEW done, Typed(done.t), done.res \in Nat
  PROVE  LET u == Push(done)
         IN  /\ Later(done.t, u)
             /\ u.stopped = done.t.stopped /\ u.wild = done.t.wild
             /\ u.collected = done.t.collected
             /\ u.stack = Append(done.t.stack, done.res)
<1> DEFINE t == done.t
           u == Push(done)
<1>1. t \in Tables /\ t.stack \in Seq(Nat)
  BY TableFields DEF Typed
<1>2. u = [t EXCEPT !.stack = Append(t.stack, done.res)]
  BY DEF Push
<1>3. Append(t.stack, done.res) \in Seq(Nat)
  BY <1>1
<1> SUFFICES /\ Later(t, u)
             /\ u.stopped = t.stopped /\ u.wild = t.wild
             /\ u.collected = t.collected
             /\ u.stack = Append(t.stack, done.res)
  OBVIOUS
<1>4. Typed(t)
  OBVIOUS
<1> HIDE DEF t, u
<1>5. /\ u \in Tables /\ u.node = t.node /\ u.collected = t.collected
      /\ u.stopped = t.stopped /\ u.wild = t.wild /\ u.stack = Append(t.stack, done.res)
  BY <1>1, <1>2, <1>3 DEF Tables
<1> QED
  BY <1>4, <1>5 DEF Later, Typed

\* The program has ended, or the model has given the table up.
Ended(t) == t.stopped \/ t.wild

\* The stack without the two references on its top.
Below2(t) == SubSeq(t.stack, 1, Len(t.stack) - 2)

\* The end of apply_rec: the two results leave the stack, and the cache knows the
\* third.
LEMMA CombineLater ==
  ASSUME NEW t, Typed(t), Ended(t) \/ Len(t.stack) >= 2,
         NEW level \in 0 .. VarNum, NEW l \in Nat, NEW r \in Nat, NEW op \in Ops
  PROVE  LET done == Combine(t, level, l, r, op)
         IN  /\ Later(t, done.t) /\ done.res \in Nat
             /\ Ended(done.t) \/ done.t.stack = Below2(t)
<1> DEFINE done == Combine(t, level, l, r, op)
<1> SUFFICES /\ Later(t, done.t) /\ done.res \in Nat
             /\ Ended(done.t) \/ done.t.stack = Below2(t)
  OBVIOUS
<1> HIDE DEF done
<1>1. CASE Ended(t)
  <2>1. done = [t |-> t, res |-> 0]
    BY <1>1 DEF Combine, done, Ended
  <2> QED
    BY <1>1, <2>1 DEF Later
<1>2. CASE ~ Ended(t)
  <2> DEFINE a == ReadRef(t, 2)
             b == ReadRef(t, 1)
             made == MakeNode(t, level, a, b)
             m == made.t
             u == done.t
             e == [l |-> l, r |-> r, op |-> op, res |-> made.res]
  <2>1. t.stack \in Seq(Nat) /\ Len(t.stack) >= 2
    BY <1>2, TableFields DEF Typed
  <2>2. Below2(t) \in Seq(Nat)
    BY <2>1 DEF Below2
  <2>3. a \in Nat /\ b \in Nat
    BY <2>1 DEF ReadRef
  <2> HIDE DEF a, b
  <2>4. Later(t, m) /\ made.res \in Nat /\ m.stack = t.stack
    BY <2>3, MakeNodeLater
  <2>5. done = Remember(made, l, r, op)
    BY <1>2 DEF Combine, done, Ended, a, b
  <2> HIDE DEF made
  <2>6. /\ done.res = made.res
        /\ u = [m EXCEPT !.stack = Below2(t), !.cache = m.cache \union {e}]
    BY <2>4, <2>5 DEF Remember, PopRef2, Below2
  <2>7. Typed(m) /\ m \in Tables
    BY <2>4 DEF Later, Typed
  <2>8. m.cache \union {e} \in SUBSET [l : Nat, r : Nat, op : Ops, res : Nat]
    BY <2>4, <2>7 DEF Tables
  <2> HIDE DEF m, e
  <2>9. /\ u \in Tables /\ u.node = m.node /\ u.collected = m.collected
        /\ u.stopped = m.stopped /\ u.wild = m.wild /\ u.stack = Below2(t)
    <3> HIDE DEF u
    <3> QED
      BY <2>2, <2>6, <2>7, <2>8 DEF Tables
  <2>10. Later(m, u)
    BY <2>7, <2>9 DEF Later, Typed
  <2> QED
    BY <2>4, <2>6, <2>9, <2>10, LaterTransitive DEF m
<1> QED
  BY <1>1, <1>2

\* What a layer of the recursion owes its caller on any table.
CallLater(k) ==
  \A t : \A l, r \in Nat, op \in Ops :
    Typed(t) =>
      LET done == Call(k, t, l, r, op)
      IN  /\ Later(t, done.t) /\ done.res \in Nat
          /\ Ended(done.t) \/ done.t.stack = t.stack

\* A son of a used node, or the node.
LEMMA HalfNumber ==
  ASSUME NEW t, Typed(t), NEW n \in Used(t), NEW level, NEW b
  PROVE  Half(t, n, level, b) \in Nat
BY TypedFields DEF Half

\* The calls of a layer, one after the other, when both operands are there and the
\* result is not at hand.
LEMMA CallChain ==
  ASSUME NEW k \in 0 .. VarNum, CallLater(k), NEW t, NEW l \in Nat, NEW r \in Nat, NEW op \in Ops,
         Typed(t), ~ t.stopped, ~ t.wild, {l, r} \subseteq Used(t),
         Easy(l, r, op) = {}, Cached(t, l, r, op) = {}
  PROVE  LET top == Top(t, l, r)
             first == Call(k, t, Half(t, l, top, 0), Half(t, r, top, 0), op)
             one == Push(first)
             second == Call(k, one, Half(t, l, top, 1), Half(t, r, top, 1), op)
             both == Push(second)
             done == Call(k + 1, t, l, r, op)
         IN  /\ done = Combine(both, top, l, r, op)
             /\ Later(t, first.t) /\ Later(first.t, one) /\ Later(one, second.t)
             /\ Later(second.t, both) /\ Later(both, done.t)
             /\ done.res \in Nat
             /\ Ended(done.t) \/ done.t.stack = t.stack
<1> DEFINE done == Call(k + 1, t, l, r, op)
           top == Top(t, l, r)
           first == Call(k, t, Half(t, l, top, 0), Half(t, r, top, 0), op)
           one == Push(first)
           second == Call(k, one, Half(t, l, top, 1), Half(t, r, top, 1), op)
           both == Push(second)
<1> SUFFICES /\ done = Combine(both, top, l, r, op)
             /\ Later(t, first.t) /\ Later(first.t, one) /\ Later(one, second.t)
             /\ Later(second.t, both) /\ Later(both, done.t)
             /\ done.res \in Nat
             /\ Ended(done.t) \/ done.t.stack = t.stack
  OBVIOUS
<1>0. t \in Tables /\ Later(t, t) /\ t.stack \in Seq(Nat)
  BY TypedFields, TableFields DEF Later
<1>1. done = Combine(both, top, l, r, op)
  BY <1>0, CallCases DEF CallOut, OneDone, BothDone
<1>2. /\ \A b \in {0, 1} : Half(t, l, top, b) \in Nat /\ Half(t, r, top, b) \in Nat
      /\ top \in 0 .. VarNum
  <2>1. t.node[l].level \in 0 .. VarNum /\ t.node[r].level \in 0 .. VarNum
    BY TypedFields
  <2> QED
    BY <2>1, HalfNumber DEF Top
<1>3. one = Push(first) /\ both = Push(second)
  OBVIOUS
<1> HIDE DEF done, top, one, both
<1>4. /\ Later(t, first.t) /\ first.res \in Nat
      /\ Ended(first.t) \/ first.t.stack = t.stack
  BY <1>2 DEF CallLater
<1> HIDE DEF first
<1>5. /\ Later(first.t, one) /\ one.stopped = first.t.stopped /\ one.wild = first.t.wild
      /\ one.stack = Append(first.t.stack, first.res)
  BY <1>3, <1>4, PushLater DEF Later
<1>6. /\ Later(one, second.t) /\ second.res \in Nat
      /\ Ended(second.t) \/ second.t.stack = one.stack
  <2>1. Typed(one)
    BY <1>5 DEF Later
  <2> QED
    BY <1>2, <2>1 DEF CallLater
<1> HIDE DEF second
<1>7. /\ Later(second.t, both) /\ both.stopped = second.t.stopped
      /\ both.wild = second.t.wild
      /\ both.stack = Append(second.t.stack, second.res)
  BY <1>3, <1>6, PushLater DEF Later
<1>8. Typed(both)
  BY <1>7 DEF Later
<1>9. Ended(both) \/ (Len(both.stack) >= 2 /\ Below2(both) = t.stack)
  <2>1. Ended(both) \/ both.stack = Append(Append(t.stack, first.res), second.res)
    BY <1>4, <1>5, <1>6, <1>7 DEF Later, Ended
  <2>2. \A a, b \in Nat : LET full == Append(Append(t.stack, a), b)
                        IN  Len(full) >= 2 /\ SubSeq(full, 1, Len(full) - 2) = t.stack
    BY <1>0
  <2>3. LET full == Append(Append(t.stack, first.res), second.res)
        IN  Len(full) >= 2 /\ SubSeq(full, 1, Len(full) - 2) = t.stack
    BY <1>4, <1>6, <2>2
  <2> QED
    BY <2>1, <2>3 DEF Below2
<1>10. /\ Later(both, done.t) /\ done.res \in Nat
       /\ Ended(done.t) \/ done.t.stack = t.stack
  <2>1. /\ Later(both, done.t) /\ done.res \in Nat
        /\ Ended(done.t) \/ done.t.stack = Below2(both)
    BY <1>1, <1>2, <1>8, <1>9, CombineLater
  <2>2. Ended(both) => Ended(done.t)
    BY <2>1 DEF Later, Ended
  <2> QED
    BY <1>9, <2>1, <2>2
<1> QED
  BY <1>1, <1>4, <1>5, <1>6, <1>7, <1>10

\* One layer, from the layer below.
LEMMA NextCallLater ==
  ASSUME NEW k \in 0 .. VarNum, CallLater(k)
  PROVE  CallLater(k + 1)
<1> SUFFICES ASSUME NEW t, NEW l \in Nat, NEW r \in Nat, NEW op \in Ops, Typed(t)
             PROVE  LET done == Call(k + 1, t, l, r, op)
                    IN  /\ Later(t, done.t) /\ done.res \in Nat
                        /\ Ended(done.t) \/ done.t.stack = t.stack
  BY DEF CallLater
<1> DEFINE done == Call(k + 1, t, l, r, op)
<1> SUFFICES /\ Later(t, done.t) /\ done.res \in Nat
             /\ Ended(done.t) \/ done.t.stack = t.stack
  OBVIOUS
<1>0. t \in Tables /\ Later(t, t) /\ t.stack \in Seq(Nat)
  BY TypedFields, TableFields DEF Later
<1>1. CASE t.stopped \/ t.wild
  <2>1. done = ApplyRec(ApplyAt[k], t, l, r, op)
    BY <1>0, CallIs
  <2>2. done = [t |-> t, res |-> 0]
    BY <1>1, <2>1, Zenon DEF ApplyRec
  <2> HIDE DEF done
  <2> QED
    BY <1>0, <1>1, <2>2 DEF Ended
<1>2. CASE ~ (t.stopped \/ t.wild) /\ ~ {l, r} \subseteq Used(t)
  <2> DEFINE u == [t EXCEPT !.wild = TRUE]
  <2>1. done = ApplyRec(ApplyAt[k], t, l, r, op)
    BY <1>0, CallIs
  <2>2. done = [t |-> u, res |-> 0]
    BY <1>2, <2>1, Zenon DEF ApplyRec
  <2>3. u \in Tables /\ u.node = t.node /\ u.collected = t.collected
        /\ u.stopped = t.stopped /\ u.stack = t.stack /\ u.wild = TRUE
    BY <1>0 DEF Tables
  <2> HIDE DEF done, u
  <2> QED
    BY <2>2, <2>3 DEF Later, Typed, Ended
<1>3. CASE ~ t.stopped /\ ~ t.wild /\ {l, r} \subseteq Used(t)
  <2>1. CASE Easy(l, r, op) # {}
    <3>1. PICK n \in Easy(l, r, op) : done = [t |-> t, res |-> n]
      BY <1>0, <1>3, <2>1, CallCases DEF CallOut
    <3>2. n \in Nat
      BY DEF Easy, Ops
    <3> HIDE DEF done
    <3> QED
      BY <1>0, <3>1, <3>2
  <2>2. CASE Easy(l, r, op) = {} /\ Cached(t, l, r, op) # {}
    <3>1. PICK e \in Cached(t, l, r, op) : done = [t |-> t, res |-> e.res]
      BY <1>0, <1>3, <2>2, CallCases DEF CallOut
    <3>2. e.res \in Nat
      BY <1>0 DEF Cached, Tables
    <3> HIDE DEF done
    <3> QED
      BY <1>0, <3>1, <3>2
  <2>3. CASE Easy(l, r, op) = {} /\ Cached(t, l, r, op) = {}
    <3> DEFINE first == Call(k, t, Half(t, l, Top(t, l, r), 0), Half(t, r, Top(t, l, r), 0), op)
               one == Push(first)
               second == Call(k, one, Half(t, l, Top(t, l, r), 1), Half(t, r, Top(t, l, r), 1), op)
               both == Push(second)
    <3>1. /\ Later(t, first.t) /\ Later(first.t, one) /\ Later(one, second.t)
          /\ Later(second.t, both) /\ Later(both, done.t)
          /\ done.res \in Nat
          /\ Ended(done.t) \/ done.t.stack = t.stack
      BY <1>3, <2>3, CallChain
    <3> HIDE DEF done, first, one, second, both
    <3>2. Later(t, done.t)
      <4>1. Later(t, one)
        BY <3>1, LaterTransitive
      <4>2. Later(t, second.t)
        BY <3>1, <4>1, LaterTransitive
      <4>3. Later(t, both)
        BY <3>1, <4>2, LaterTransitive
      <4> QED
        BY <3>1, <4>3, LaterTransitive
    <3> QED
      BY <3>1, <3>2
  <2> QED
    BY <2>1, <2>2, <2>3
<1> QED
  BY <1>1, <1>2, <1>3

\* The layer without levels to go.
LEMMA NoCallLater == CallLater(0)
<1> SUFFICES ASSUME NEW t, NEW l \in Nat, NEW r \in Nat, NEW op \in Ops, Typed(t)
             PROVE  LET done == Call(0, t, l, r, op)
                    IN  /\ Later(t, done.t) /\ done.res \in Nat
                        /\ Ended(done.t) \/ done.t.stack = t.stack
  BY DEF CallLater
<1> DEFINE c == [t |-> t, l |-> l, r |-> r, op |-> op]
           u == [t EXCEPT !.wild = TRUE]
<1>1. t \in Tables
  BY DEF Typed
<1>2. c \in Calls
  BY <1>1 DEF Calls
<1>3. 0 \in 0 .. VarNum + 1
  BY SizeAssumption
<1>4. ApplyAt[0] = Layer(ApplyAt[0 - 1], 0)
  BY <1>3, ApplyAtIs DEF Layers
<1>5. Layer(ApplyAt[0 - 1], 0) = [d \in Calls |-> [t |-> [d.t EXCEPT !.wild = TRUE], res |-> 0]]
  BY DEF Layer
<1>6. Call(0, t, l, r, op) = [t |-> u, res |-> 0]
  BY <1>2, <1>4, <1>5 DEF Call
<1>7. u \in Tables /\ u.node = t.node /\ u.collected = t.collected
      /\ u.stopped = t.stopped /\ u.stack = t.stack /\ u.wild = TRUE
  BY <1>1 DEF Tables
<1> HIDE DEF u
<1> QED
  BY <1>6, <1>7 DEF Later, Typed, Ended

\* ... to every depth of the recursion.
LEMMA AllCallsLater == \A k \in 0 .. VarNum + 1 : CallLater(k)
<1> DEFINE S == {k \in 0 .. VarNum + 1 : CallLater(k)}
<1>1. VarNum + 1 \in Nat /\ VarNum \in Nat
  BY SizeAssumption
<1>2. 0 \in S
  BY <1>1, NoCallLater
<1>3. ASSUME NEW i \in 0 .. (VarNum + 1) - 1, i \in S PROVE i + 1 \in S
  <2>1. i \in 0 .. VarNum /\ i + 1 \in 0 .. VarNum + 1
    BY <1>1
  <2> QED
    BY <1>3, <2>1, NextCallLater
<1>4. \A i \in 0 .. VarNum + 1 : i \in S
  <2> HIDE DEF S
  <2> QED
    BY <1>1, <1>2, <1>3, UpTo
<1> QED
  BY <1>1, <1>4

\* bdd_apply, bdd_addref and bdd_delref on any table, with any numbers for nodes.
LEMMA ApplyLater ==
  ASSUME NEW t, Typed(t), NEW l, NEW r, NEW op \in Ops
  PROVE  LET done == Apply(t, l, r, op)
         IN  Later(t, done.t) /\ done.res \in Nat
<1> DEFINE done == Apply(t, l, r, op)
           start == [t EXCEPT !.stack = <<>>]
<1> SUFFICES Later(t, done.t) /\ done.res \in Nat
  OBVIOUS
<1>1. t \in Tables
  BY DEF Typed
<1>2. CASE {l, r} \subseteq Used(t)
  <2>1. l \in Nat /\ r \in Nat
    BY <1>2, TypedFields
  <2>2. done = Call(VarNum + 1, start, l, r, op)
    BY <1>2 DEF Apply, Call
  <2>3. start \in Tables /\ start.node = t.node /\ start.collected = t.collected
        /\ start.stopped = t.stopped /\ start.wild = t.wild
    <3>1. << >> \in Seq(Nat)
      OBVIOUS
    <3> QED
      BY <1>1, <3>1 DEF Tables
  <2>4. Later(t, start) /\ Typed(start)
    BY <2>3 DEF Later, Typed
  <2> HIDE DEF start, done
  <2>6. VarNum + 1 \in 0 .. VarNum + 1
    BY SizeAssumption
  <2>5. Later(start, done.t) /\ done.res \in Nat
    BY <2>1, <2>2, <2>4, <2>6, AllCallsLater DEF CallLater
  <2> QED
    BY <2>4, <2>5, LaterTransitive
<1>3. CASE ~ {l, r} \subseteq Used(t)
  <2> DEFINE u == [t EXCEPT !.stopped = TRUE]
  <2>1. done = [t |-> u, res |-> 0]
    BY <1>3 DEF Apply
  <2>2. u \in Tables /\ u.node = t.node /\ u.collected = t.collected
        /\ u.stopped = TRUE /\ u.wild = t.wild
    BY <1>1 DEF Tables
  <2> HIDE DEF u, done
  <2> QED
    BY <2>1, <2>2 DEF Later, Typed
<1> QED
  BY <1>2, <1>3

\* Another count for one node.
LEMMA CountLater ==
  ASSUME NEW t, Typed(t), NEW n \in Used(t), NEW c \in 0 .. MaxRef
  PROVE  LET u == [t EXCEPT !.node[n].refcou = c]
         IN  /\ Later(t, u) /\ Used(u) = Used(t) /\ DOMAIN u.node = DOMAIN t.node
             /\ u.size = t.size /\ u.free = t.free /\ u.stack = t.stack
             /\ u.cache = t.cache /\ u.memo = t.memo /\ u.misc = t.misc
             /\ u.collected = t.collected /\ u.stopped = t.stopped /\ u.wild = t.wild
             /\ \A m \in DOMAIN t.node : Same(t, m, u, m)
             /\ \A m \in DOMAIN t.node :
                  u.node[m].refcou = IF m = n THEN c ELSE t.node[m].refcou
<1> DEFINE u == [t EXCEPT !.node[n].refcou = c]
           new == [t.node[n] EXCEPT !.refcou = c]
           node == [t.node EXCEPT ![n] = new]
<1>1. /\ t \in Tables /\ n \in DOMAIN t.node /\ n \in Nat /\ n \in Slots(t)
      /\ DOMAIN t.node = 0 .. MaxSize - 1 /\ Slots(t) \subseteq DOMAIN t.node
      /\ \A m \in DOMAIN t.node : t.node[m] \in Nodes
  BY TypedFields
<1>2. u = [t EXCEPT !.node = node]
  OBVIOUS
<1>3. /\ new \in Nodes /\ new.level = t.node[n].level /\ new.low = t.node[n].low
      /\ new.high = t.node[n].high /\ new.refcou = c
  <2>1. t.node[n] \in Nodes
    BY <1>1
  <2> QED
    BY <2>1 DEF Nodes
<1> HIDE DEF new
<1>4. /\ node \in [0 .. MaxSize - 1 -> Nodes]
      /\ node[n] = new /\ \A m \in DOMAIN t.node : m # n => node[m] = t.node[m]
  BY <1>1, <1>3
<1> HIDE DEF node
<1>5. /\ u \in Tables /\ u.node = node /\ u.size = t.size /\ u.free = t.free
      /\ u.stack = t.stack /\ u.cache = t.cache /\ u.memo = t.memo /\ u.misc = t.misc
      /\ u.collected = t.collected /\ u.stopped = t.stopped /\ u.wild = t.wild
  BY <1>1, <1>2, <1>4 DEF Tables
<1> SUFFICES /\ Later(t, u) /\ Used(u) = Used(t) /\ DOMAIN u.node = DOMAIN t.node
             /\ \A m \in DOMAIN t.node : Same(t, m, u, m)
             /\ \A m \in DOMAIN t.node :
                  u.node[m].refcou = IF m = n THEN c ELSE t.node[m].refcou
  BY <1>5
<1> HIDE DEF u
<1>6. \A m \in DOMAIN t.node : Same(t, m, u, m)
  BY <1>3, <1>4, <1>5 DEF Same
<1>7. DOMAIN u.node = DOMAIN t.node
  BY <1>1, <1>4, <1>5
<1>8. Slots(u) = Slots(t)
  BY <1>5 DEF Slots
<1>9. Used(u) = Used(t)
  BY <1>1, <1>6, <1>8 DEF Used, Same
<1>10. Typed(u)
  BY <1>5, <1>6, <1>7 DEF Typed, Same
<1>11. \A m \in DOMAIN t.node : u.node[m].refcou = IF m = n THEN c ELSE t.node[m].refcou
  BY <1>3, <1>4, <1>5
<1> QED
  BY <1>5, <1>6, <1>7, <1>9, <1>10, <1>11 DEF Later

\* An error that is reported, and one that is not.
LEMMA StopLater ==
  ASSUME NEW t, Typed(t)
  PROVE  Later(t, [t EXCEPT !.stopped = TRUE]) /\ Later(t, [t EXCEPT !.wild = TRUE])
<1>1. t \in Tables
  BY DEF Typed
<1>2. /\ [t EXCEPT !.stopped = TRUE] \in Tables /\ [t EXCEPT !.stopped = TRUE].node = t.node
      /\ [t EXCEPT !.stopped = TRUE].collected = t.collected
      /\ [t EXCEPT !.stopped = TRUE].stopped = TRUE
      /\ [t EXCEPT !.stopped = TRUE].wild = t.wild
  BY <1>1 DEF Tables
<1>3. /\ [t EXCEPT !.wild = TRUE] \in Tables /\ [t EXCEPT !.wild = TRUE].node = t.node
      /\ [t EXCEPT !.wild = TRUE].collected = t.collected
      /\ [t EXCEPT !.wild = TRUE].stopped = t.stopped
      /\ [t EXCEPT !.wild = TRUE].wild = TRUE
  BY <1>1 DEF Tables
<1> QED
  BY <1>2, <1>3, Zenon DEF Later, Typed

\* References taken and given back.
LEMMA RefLater ==
  ASSUME NEW t, Typed(t), NEW n
  PROVE  Later(t, AddRef(t, n)) /\ Later(t, DelRef(t, n))
<1>0. MaxRef \in Nat
  BY SizeAssumption
<1>1. Later(t, t) /\ Later(t, [t EXCEPT !.stopped = TRUE])
  BY StopLater DEF Later
<1>2. ASSUME n \in Used(t)
      PROVE  t.node[n].refcou \in 0 .. MaxRef
  BY <1>2, TypedFields
<1>3. Later(t, AddRef(t, n))
  <2> DEFINE c == IF t.node[n].refcou < MaxRef THEN t.node[n].refcou + 1 ELSE t.node[n].refcou
  <2>1. \/ AddRef(t, n) = t
        \/ AddRef(t, n) = [t EXCEPT !.stopped = TRUE]
        \/ n \in Used(t) /\ AddRef(t, n) = [t EXCEPT !.node[n].refcou = c]
    BY DEF AddRef
  <2>2. n \in Used(t) => c \in 0 .. MaxRef
    BY <1>0, <1>2
  <2> HIDE DEF c
  <2>3. n \in Used(t) /\ c \in 0 .. MaxRef => Later(t, [t EXCEPT !.node[n].refcou = c])
    BY CountLater
  <2> QED
    BY <1>1, <2>1, <2>2, <2>3
<1>4. Later(t, DelRef(t, n))
  <2> DEFINE c == IF t.node[n].refcou # MaxRef THEN t.node[n].refcou - 1 ELSE t.node[n].refcou
  <2>1. \/ DelRef(t, n) = t
        \/ DelRef(t, n) = [t EXCEPT !.stopped = TRUE]
        \/ /\ n \in Used(t) /\ t.node[n].refcou # 0
           /\ DelRef(t, n) = [t EXCEPT !.node[n].refcou = c]
    BY DEF DelRef
  <2>2. n \in Used(t) /\ t.node[n].refcou # 0 => c \in 0 .. MaxRef
    BY <1>0, <1>2
  <2> HIDE DEF c
  <2>3. n \in Used(t) /\ c \in 0 .. MaxRef => Later(t, [t EXCEPT !.node[n].refcou = c])
    BY CountLater
  <2> QED
    BY <1>1, <2>1, <2>2, <2>3
<1> QED
  BY <1>3, <1>4

-----------------------------------------------------------------------------
(* The kernel as long as no collection has come.                           *)

\* Nodes of BDDs that find their sons among each other, each below its father.
BddClosed(t, B) ==
  /\ B \subseteq Used(t) \ {2}
  /\ \A n \in B : n >= 3 =>
       \A son \in {t.node[n].low, t.node[n].high} :
         son \in B /\ t.node[n].level < t.node[son].level

\* The nodes of all BDDs that are whole.
Bdds(t) == UNION {B \in SUBSET Used(t) : BddClosed(t, B)}

\* The level of a node of an MTBDD; a terminal is below all levels.
Depth(t, n) == IF IsLeaf(t, n) THEN VarNum ELSE t.node[n].level

\* Nodes of MTBDDs that find their sons among each other, with terminals for the
\* first nv value nodes.
MtbddClosed(t, nv, M) ==
  /\ M \subseteq Used(t) \ {1, 2}
  /\ \A n \in M : n >= 3 =>
       IF IsLeaf(t, n) THEN t.node[n].high + 1 \in 1 .. nv
       ELSE \A son \in {t.node[n].low, t.node[n].high} :
              son \in M /\ t.node[n].level < Depth(t, son)

Mtbdds(t, nv) == UNION {M \in SUBSET Used(t) : MtbddClosed(t, nv, M)}

\* A table that has met no collection and no error.
Steady(t) ==
  /\ Typed(t) /\ ~ t.collected /\ ~ t.stopped /\ ~ t.wild
  /\ {0, 1, 2} \subseteq Used(t)
  /\ \A n \in {0, 1, 2} : t.node[n].low = 0 /\ t.node[n].high = 0
  /\ t.node[0].level = VarNum /\ t.node[1].level = VarNum
  /\ Entries(t.free) \subseteq Slots(t) \ Used(t)
  /\ \A i, j \in DOMAIN t.free : t.free[i] = t.free[j] => i = j
  /\ \A e \in t.cache :
       /\ {e.l, e.r, e.res} \subseteq Bdds(t)
       /\ \/ t.node[e.l].level <= t.node[e.res].level
          \/ t.node[e.r].level <= t.node[e.res].level

\* Every node of t is in u as it was.
Grown(t, u) == \A n \in Used(t) : n \in Used(u) /\ Same(t, n, u, n)

\* What bdd_makenode and bdd_apply leave alone.
Aside(t, u) ==
  /\ u.memo = t.memo /\ u.misc = t.misc
  /\ \A n \in DOMAIN t.node : u.node[n].refcou = t.node[n].refcou

\* What a function of the kernel makes of t, when no collection comes.
Onward(t, u) == Steady(u) /\ Grown(t, u) /\ Aside(t, u)

\* The whole BDDs are the largest set of nodes that is closed under sons.
LEMMA BddsClosed ==
  ASSUME NEW t
  PROVE  /\ BddClosed(t, Bdds(t))
         /\ \A B : BddClosed(t, B) => B \subseteq Bdds(t)
<1>1. ASSUME NEW n \in Bdds(t)
      PROVE  /\ n \in Used(t) \ {2}
             /\ n >= 3 => \A son \in {t.node[n].low, t.node[n].high} :
                            son \in Bdds(t) /\ t.node[n].level < t.node[son].level
  <2>1. PICK B \in SUBSET Used(t) : BddClosed(t, B) /\ n \in B
    BY DEF Bdds
  <2>2. B \subseteq Bdds(t)
    BY <2>1 DEF Bdds
  <2>3. /\ n \in Used(t) \ {2}
        /\ n >= 3 => \A son \in {t.node[n].low, t.node[n].high} :
                       son \in B /\ t.node[n].level < t.node[son].level
    BY <2>1 DEF BddClosed
  <2> QED
    BY <2>2, <2>3
<1>2. BddClosed(t, Bdds(t))
  BY <1>1 DEF BddClosed
<1>3. ASSUME NEW B, BddClosed(t, B) PROVE B \subseteq Bdds(t)
  <2>1. B \in SUBSET Used(t)
    BY <1>3 DEF BddClosed
  <2> QED
    BY <1>3, <2>1 DEF Bdds
<1> QED
  BY <1>2, <1>3

\* The whole MTBDDs are the largest such set, of nodes over terminals.
LEMMA MtbddsClosed ==
  ASSUME NEW t, NEW nv
  PROVE  /\ MtbddClosed(t, nv, Mtbdds(t, nv))
         /\ \A M : MtbddClosed(t, nv, M) => M \subseteq Mtbdds(t, nv)
<1>1. ASSUME NEW n \in Mtbdds(t, nv)
      PROVE  /\ n \in Used(t) \ {1, 2}
             /\ n >= 3 => IF IsLeaf(t, n) THEN t.node[n].high + 1 \in 1 .. nv
                          ELSE \A son \in {t.node[n].low, t.node[n].high} :
                                 son \in Mtbdds(t, nv) /\ t.node[n].level < Depth(t, son)
  <2>1. PICK M \in SUBSET Used(t) : MtbddClosed(t, nv, M) /\ n \in M
    BY DEF Mtbdds
  <2>2. M \subseteq Mtbdds(t, nv)
    BY <2>1 DEF Mtbdds
  <2>3. /\ n \in Used(t) \ {1, 2}
        /\ n >= 3 => IF IsLeaf(t, n) THEN t.node[n].high + 1 \in 1 .. nv
                     ELSE \A son \in {t.node[n].low, t.node[n].high} :
                            son \in M /\ t.node[n].level < Depth(t, son)
    BY <2>1 DEF MtbddClosed
  <2> QED
    BY <2>2, <2>3
<1>2. MtbddClosed(t, nv, Mtbdds(t, nv))
  BY <1>1 DEF MtbddClosed
<1>3. ASSUME NEW M, MtbddClosed(t, nv, M) PROVE M \subseteq Mtbdds(t, nv)
  <2>1. M \in SUBSET Used(t)
    BY <1>3 DEF MtbddClosed
  <2> QED
    BY <1>3, <2>1 DEF Mtbdds
<1> QED
  BY <1>2, <1>3

\* What is known of a node of a BDD and of the constants.
LEMMA BddFacts ==
  ASSUME NEW t, Steady(t)
  PROVE  /\ {0, 1} \subseteq Bdds(t)
         /\ \A n \in Bdds(t) :
              /\ n \in Used(t) /\ n \in Nat /\ n \in DOMAIN t.node
              /\ n # 2 /\ t.node[n].level \in 0 .. VarNum
              /\ n >= 3 => /\ t.node[n].level < VarNum
                           /\ \A son \in {t.node[n].low, t.node[n].high} :
                                son \in Bdds(t) /\ t.node[n].level < t.node[son].level
<1>1. Typed(t) /\ {0, 1, 2} \subseteq Used(t)
  BY DEF Steady
<1>2. BddClosed(t, {0, 1})
  BY <1>1 DEF BddClosed
<1>3. {0, 1} \subseteq Bdds(t)
  BY <1>2, BddsClosed
<1>4. \A n \in Bdds(t) :
        /\ n \in Used(t) /\ n # 2
        /\ n >= 3 => \A son \in {t.node[n].low, t.node[n].high} :
                       son \in Bdds(t) /\ t.node[n].level < t.node[son].level
  BY BddsClosed DEF BddClosed
<1>5. \A n \in Used(t) : n \in Nat /\ n \in DOMAIN t.node /\ t.node[n].level \in 0 .. VarNum
  BY <1>1, TypedFields
<1>6. ASSUME NEW n \in Bdds(t), n >= 3 PROVE t.node[n].level < VarNum
  <2>1. t.node[n].low \in Bdds(t) /\ t.node[n].level < t.node[t.node[n].low].level
    BY <1>4, <1>6
  <2>2. t.node[t.node[n].low].level \in 0 .. VarNum /\ t.node[n].level \in 0 .. VarNum
    BY <1>4, <1>5, <2>1
  <2> QED
    BY <2>1, <2>2, SizeAssumption
<1> QED
  BY <1>3, <1>4, <1>5, <1>6

\* What is known of a node of an MTBDD.
LEMMA MtbddFacts ==
  ASSUME NEW t, Steady(t), NEW nv \in Nat
  PROVE  /\ 0 \in Mtbdds(t, nv) /\ ~ IsLeaf(t, 0) /\ Depth(t, 0) = VarNum
         /\ \A n \in Mtbdds(t, nv) :
              /\ n \in Used(t) /\ n \in Nat /\ n \in DOMAIN t.node
              /\ n = 0 \/ n >= 3
              /\ Depth(t, n) \in 0 .. VarNum
              /\ n >= 3 /\ IsLeaf(t, n) =>
                   t.node[n].high + 1 \in 1 .. nv /\ Depth(t, n) = VarNum
              /\ n >= 3 /\ ~ IsLeaf(t, n) =>
                   /\ t.node[n].level < VarNum /\ Depth(t, n) = t.node[n].level
                   /\ \A son \in {t.node[n].low, t.node[n].high} :
                        son \in Mtbdds(t, nv) /\ t.node[n].level < Depth(t, son)
<1>1. /\ Typed(t) /\ {0, 1, 2} \subseteq Used(t) /\ VarNum \in Nat
      /\ t.node[0].low = 0 /\ t.node[0].level = VarNum
  BY SizeAssumption DEF Steady
<1>2. MtbddClosed(t, nv, {0})
  BY <1>1 DEF MtbddClosed
<1>3. 0 \in Mtbdds(t, nv) /\ ~ IsLeaf(t, 0) /\ Depth(t, 0) = VarNum
  BY <1>1, <1>2, MtbddsClosed DEF IsLeaf, Depth
<1>4. \A n \in Mtbdds(t, nv) :
        /\ n \in Used(t) /\ n # 1 /\ n # 2
        /\ n >= 3 => IF IsLeaf(t, n) THEN t.node[n].high + 1 \in 1 .. nv
                     ELSE \A son \in {t.node[n].low, t.node[n].high} :
                            son \in Mtbdds(t, nv) /\ t.node[n].level < Depth(t, son)
  BY MtbddsClosed DEF MtbddClosed
<1>5. \A n \in Used(t) : n \in Nat /\ n \in DOMAIN t.node /\ t.node[n].level \in 0 .. VarNum
  BY <1>1, TypedFields
<1>6. \A n \in Used(t) : Depth(t, n) \in 0 .. VarNum
  BY <1>1, <1>5 DEF Depth
<1>7. \A n \in Mtbdds(t, nv) : n \in Used(t) /\ n \in Nat /\ (n = 0 \/ n >= 3)
  BY <1>4, <1>5
<1>8. ASSUME NEW n \in Mtbdds(t, nv), n >= 3, ~ IsLeaf(t, n)
      PROVE  t.node[n].level < VarNum
  <2>1. t.node[n].low \in Mtbdds(t, nv) /\ t.node[n].level < Depth(t, t.node[n].low)
    BY <1>4, <1>8
  <2>2. Depth(t, t.node[n].low) \in 0 .. VarNum /\ t.node[n].level \in 0 .. VarNum
    BY <1>4, <1>5, <1>6, <2>1
  <2> QED
    BY <1>1, <2>1, <2>2
<1>9. ASSUME NEW n \in Mtbdds(t, nv)
      PROVE  /\ n \in Used(t) /\ n \in Nat /\ n \in DOMAIN t.node
             /\ n = 0 \/ n >= 3
             /\ Depth(t, n) \in 0 .. VarNum
             /\ n >= 3 /\ IsLeaf(t, n) =>
                  t.node[n].high + 1 \in 1 .. nv /\ Depth(t, n) = VarNum
             /\ n >= 3 /\ ~ IsLeaf(t, n) =>
                  /\ t.node[n].level < VarNum /\ Depth(t, n) = t.node[n].level
                  /\ \A son \in {t.node[n].low, t.node[n].high} :
                       son \in Mtbdds(t, nv) /\ t.node[n].level < Depth(t, son)
  BY <1>4, <1>5, <1>6, <1>7, <1>8 DEF Depth
<1> QED
  BY <1>3, <1>9

\* A node keeps what it is in a table that has grown.
LEMMA GrownFacts ==
  ASSUME NEW t, NEW u, Steady(t), Grown(t, u), NEW nv \in Nat, NEW nw \in Nat, nv <= nw
  PROVE  /\ Used(t) \subseteq Used(u)
         /\ Bdds(t) \subseteq Bdds(u)
         /\ Mtbdds(t, nv) \subseteq Mtbdds(u, nw)
         /\ \A n \in Used(t) : /\ Depth(u, n) = Depth(t, n) /\ (IsLeaf(u, n) <=> IsLeaf(t, n))
                               /\ u.node[n].level = t.node[n].level
                               /\ u.node[n].low = t.node[n].low
                               /\ u.node[n].high = t.node[n].high
<1>1. \A n \in Used(t) : /\ n \in Used(u)
                         /\ u.node[n].level = t.node[n].level
                         /\ u.node[n].low = t.node[n].low
                         /\ u.node[n].high = t.node[n].high
  BY DEF Grown, Same
<1>2. \A n \in Used(t) : Depth(u, n) = Depth(t, n) /\ (IsLeaf(u, n) <=> IsLeaf(t, n))
  BY <1>1 DEF Depth, IsLeaf
<1>3. BddClosed(u, Bdds(t))
  <2>1. \A n \in Bdds(t) :
          /\ n \in Used(t) /\ n # 2
          /\ n >= 3 => \A son \in {t.node[n].low, t.node[n].high} :
                         son \in Bdds(t) /\ t.node[n].level < t.node[son].level
    BY BddFacts
  <2> QED
    BY <1>1, <2>1 DEF BddClosed
<1>4. MtbddClosed(u, nw, Mtbdds(t, nv))
  <2> SUFFICES ASSUME NEW n \in Mtbdds(t, nv)
               PROVE  /\ n \in Used(u) \ {1, 2}
                      /\ n >= 3 =>
                           IF IsLeaf(u, n) THEN u.node[n].high + 1 \in 1 .. nw
                           ELSE \A son \in {u.node[n].low, u.node[n].high} :
                                  son \in Mtbdds(t, nv) /\ u.node[n].level < Depth(u, son)
    BY DEF MtbddClosed
  <2>1. /\ n \in Used(t) /\ n \in Nat /\ n # 1 /\ n # 2
        /\ n >= 3 /\ IsLeaf(t, n) => t.node[n].high + 1 \in 1 .. nv
        /\ n >= 3 /\ ~ IsLeaf(t, n) =>
             \A son \in {t.node[n].low, t.node[n].high} :
               son \in Mtbdds(t, nv) /\ son \in Used(t) /\ t.node[n].level < Depth(t, son)
    BY MtbddFacts
  <2>2. n >= 3 /\ IsLeaf(u, n) => u.node[n].high + 1 \in 1 .. nw
    BY <1>1, <1>2, <2>1
  <2>3. n >= 3 /\ ~ IsLeaf(u, n) =>
          \A son \in {u.node[n].low, u.node[n].high} :
            son \in Mtbdds(t, nv) /\ u.node[n].level < Depth(u, son)
    BY <1>1, <1>2, <2>1
  <2> QED
    BY <1>1, <2>1, <2>2, <2>3
<1> QED
  BY <1>1, <1>2, <1>3, <1>4, BddsClosed, MtbddsClosed

\* Two calls, one after the other.
LEMMA OnwardTransitive ==
  ASSUME NEW t, NEW u, NEW v, Steady(t), Onward(t, u), Onward(u, v)
  PROVE  Onward(t, v)
<1>1. DOMAIN t.node = DOMAIN u.node
  BY TypedFields DEF Onward, Steady
<1> QED
  BY <1>1 DEF Onward, Grown, Aside, Same

\* Doing nothing.
LEMMA OnwardItself ==
  ASSUME NEW t, Steady(t)
  PROVE  Onward(t, t)
BY DEF Onward, Grown, Aside, Same

\* A node enters the first free slot.
LEMMA EnterSteady ==
  ASSUME NEW t, Steady(t), t.free # <<>>,
         NEW level \in 0 .. VarNum, NEW low \in Nat, NEW high \in Nat
  PROVE  LET done == Enter(t, level, low, high)
             u == done.t
             h == done.res
         IN  /\ Onward(t, u) /\ u.stack = t.stack
             /\ h \in Used(u) /\ h >= 3
             /\ u.node[h].level = level /\ u.node[h].low = low /\ u.node[h].high = high
<1> DEFINE done == Enter(t, level, low, high)
           u == done.t
           h == done.res
           new == Node(level, low, high, t.node[h].refcou, Hash(t, level, low, high))
           node == [t.node EXCEPT ![h] = new]
<1> SUFFICES /\ Onward(t, u) /\ u.stack = t.stack
             /\ h \in Used(u) /\ h >= 3
             /\ u.node[h].level = level /\ u.node[h].low = low /\ u.node[h].high = high
  OBVIOUS
<1>1. /\ t \in Tables /\ t.size \in Nat \ {0} /\ DOMAIN t.node = 0 .. MaxSize - 1
      /\ Slots(t) \subseteq DOMAIN t.node /\ Slots(t) \subseteq Nat
      /\ \A n \in DOMAIN t.node : t.node[n] \in Nodes
      /\ \A n \in Used(t) : n \in Slots(t) /\ t.node[n].level \in 0 .. VarNum
      /\ t.free \in Seq(Nat) /\ Typed(t)
  BY TypedFields, TableFields DEF Steady
<1>2. h = Head(t.free) /\ u = [t EXCEPT !.node = node, !.free = Tail(t.free)]
  BY DEF Enter
<1>3. h \in Slots(t) \ Used(t) /\ h \in Nat /\ h \in DOMAIN t.node
  BY <1>1, <1>2 DEF Steady, Entries
<1>4. h >= 3
  BY <1>3 DEF Steady
<1>5. new \in Nodes /\ new.level = level /\ new.low = low /\ new.high = high
      /\ new.refcou = t.node[h].refcou
  <2>1. Hash(t, level, low, high) \in Nat
    <3>1. level \in Nat /\ t.size \in Nat \ {0}
      BY <1>1, SizeAssumption
    <3> QED
      BY <3>1, HashType
  <2>2. t.node[h].refcou \in 0 .. MaxRef
    BY <1>1, <1>3 DEF Nodes
  <2> QED
    BY <2>1, <2>2 DEF Node, Nodes
<1>6. Tail(t.free) \in Seq(Nat)
  BY <1>1
<1> HIDE DEF done, new
<1>7. /\ node \in [0 .. MaxSize - 1 -> Nodes]
      /\ node[h] = new /\ \A n \in DOMAIN t.node : n # h => node[n] = t.node[n]
  BY <1>1, <1>3, <1>5
<1> HIDE DEF node
<1>8. /\ u \in Tables /\ u.node = node /\ u.free = Tail(t.free) /\ u.size = t.size
      /\ u.stack = t.stack /\ u.cache = t.cache /\ u.memo = t.memo /\ u.misc = t.misc
      /\ u.collected = t.collected /\ u.stopped = t.stopped /\ u.wild = t.wild
  BY <1>1, <1>2, <1>6, <1>7 DEF Tables
<1>9. Slots(u) = Slots(t)
  BY <1>8 DEF Slots
<1>10. Used(u) = Used(t) \union {h}
  BY <1>1, <1>3, <1>5, <1>7, <1>8, <1>9 DEF Used
<1>11. Grown(t, u)
  BY <1>1, <1>3, <1>7, <1>8, <1>10 DEF Grown, Same
<1>12. Aside(t, u)
  BY <1>5, <1>7, <1>8 DEF Aside
<1>13. Typed(u)
  BY <1>1, <1>5, <1>7, <1>8 DEF Typed
<1>14. /\ Entries(u.free) \subseteq Slots(u) \ Used(u)
       /\ \A i, j \in DOMAIN u.free : u.free[i] = u.free[j] => i = j
  <2>1. \A i \in DOMAIN u.free : /\ i + 1 \in DOMAIN t.free /\ u.free[i] = t.free[i + 1]
                                 /\ i \in Nat /\ i + 1 # 1
    BY <1>1, <1>8
  <2>2. 1 \in DOMAIN t.free /\ t.free[1] = h
    BY <1>1, <1>2
  <2>3. /\ Entries(t.free) \subseteq Slots(t) \ Used(t)
        /\ \A i, j \in DOMAIN t.free : t.free[i] = t.free[j] => i = j
    BY DEF Steady
  <2>4. ASSUME NEW i \in DOMAIN u.free PROVE u.free[i] \in Slots(u) \ Used(u)
    <3>1. i + 1 \in DOMAIN t.free /\ u.free[i] = t.free[i + 1] /\ i + 1 # 1
      BY <2>1
    <3>2. u.free[i] \in Slots(t) \ Used(t)
      BY <2>3, <3>1 DEF Entries
    <3>3. u.free[i] # h
      BY <2>2, <2>3, <3>1
    <3> QED
      BY <1>9, <1>10, <3>2, <3>3
  <2>5. ASSUME NEW i \in DOMAIN u.free, NEW j_ \in DOMAIN u.free, u.free[i] = u.free[j_]
        PROVE  i = j_
    <3>1. /\ i + 1 \in DOMAIN t.free /\ j_ + 1 \in DOMAIN t.free
          /\ t.free[i + 1] = t.free[j_ + 1] /\ i \in Nat /\ j_ \in Nat
      BY <2>1, <2>5
    <3>2. i + 1 = j_ + 1
      BY <2>3, <3>1
    <3> QED
      BY <3>1, <3>2
  <2> QED
    BY <2>4, <2>5 DEF Entries
<1>15. \A e \in u.cache :
         /\ {e.l, e.r, e.res} \subseteq Bdds(u)
         /\ \/ u.node[e.l].level <= u.node[e.res].level
            \/ u.node[e.r].level <= u.node[e.res].level
  <2>1. Bdds(t) \subseteq Bdds(u) /\ \A n \in Bdds(t) : u.node[n].level = t.node[n].level
    <3>1. /\ Bdds(t) \subseteq Bdds(u)
          /\ \A n \in Used(t) : u.node[n].level = t.node[n].level
      BY <1>11, GrownFacts, 0 \in Nat, 0 <= 0
    <3>2. \A n \in Bdds(t) : n \in Used(t)
      BY BddFacts
    <3> QED
      BY <3>1, <3>2
  <2> QED
    BY <1>8, <2>1 DEF Steady
<1>16. Steady(u)
  <2>1. \A n \in Used(t) : /\ n \in Used(u) /\ u.node[n].low = t.node[n].low
                           /\ u.node[n].high = t.node[n].high
                           /\ u.node[n].level = t.node[n].level
    BY <1>11 DEF Grown, Same
  <2> QED
    BY <1>8, <1>13, <1>14, <1>15, <2>1 DEF Steady
<1> QED
  BY <1>4, <1>5, <1>7, <1>8, <1>10, <1>11, <1>12, <1>16 DEF Onward

\* bdd_makenode: the son that the two are, a node that is there, or a new one.
LEMMA MakeNodeSteady ==
  ASSUME NEW t, Steady(t), NEW level \in 0 .. VarNum, NEW low \in Nat, NEW high \in Nat
  PROVE  LET done == MakeNode(t, level, low, high)
             u == done.t
             n == done.res
         IN  \/ u.collected
             \/ /\ Onward(t, u) /\ u.stack = t.stack
                /\ \/ low = high /\ low # 2 /\ n = low
                   \/ /\ n \in Used(u) /\ n >= 3
                      /\ u.node[n].level = level /\ u.node[n].low = low
                      /\ u.node[n].high = high
<1> DEFINE found == Found(t, level, low, high)
           done == MakeNode(t, level, low, high)
           u == done.t
           n == done.res
           Goal == \/ u.collected
                   \/ /\ Onward(t, u) /\ u.stack = t.stack
                      /\ \/ low = high /\ low # 2 /\ n = low
                         \/ /\ n \in Used(u) /\ n >= 3
                            /\ u.node[n].level = level /\ u.node[n].low = low
                            /\ u.node[n].high = high
<1> SUFFICES Goal
  OBVIOUS
<1>1. Onward(t, t) /\ Typed(t)
  BY OnwardItself DEF Steady
<1> HIDE DEF done
<1>2. CASE low = high /\ low # 2
  <2>1. done = [t |-> t, res |-> low]
    BY <1>2 DEF MakeNode, done
  <2> QED
    BY <1>1, <1>2, <2>1
<1>3. CASE ~ (low = high /\ low # 2) /\ found # {}
  <2>1. done = [t |-> t, res |-> CHOOSE m \in found : TRUE]
    BY <1>3 DEF MakeNode, done
  <2>2. (CHOOSE m \in found : TRUE) \in found
    BY <1>3
  <2>3. n \in found /\ u = t
    BY <2>1, <2>2
  <2>4. /\ n \in Used(t) /\ t.node[n].level = level /\ t.node[n].low = low
        /\ t.node[n].high = high
    BY <2>3 DEF Found
  <2>5. n >= 3
    <3>1. n \in Nat
      BY <1>1, <2>4, TypedFields
    <3>2. n \notin {0, 1, 2}
      <4>1. \A m \in {0, 1, 2} : t.node[m].low = 0 /\ t.node[m].high = 0
        BY DEF Steady
      <4> QED
        BY <1>3, <2>4, <4>1
    <3> QED
      BY <3>1, <3>2
  <2> QED
    BY <1>1, <2>3, <2>4, <2>5
<1>4. CASE ~ (low = high /\ low # 2) /\ found = {}
  <2>1. done = Enter(Refill(t), level, low, high)
    BY <1>4 DEF MakeNode, done
  <2>2. CASE t.free = <<>>
    <3>1. Later(t, Refill(t)) /\ Refill(t).collected
      BY <1>1, <2>2, RefillLater
    <3>2. Later(Refill(t), u)
      BY <2>1, <3>1, EnterLater DEF Later
    <3> QED
      BY <3>1, <3>2 DEF Later
  <2>3. CASE t.free # <<>>
    <3>1. done = Enter(t, level, low, high)
      BY <2>1, <2>3 DEF Refill
    <3>2. /\ Onward(t, u) /\ u.stack = t.stack
          /\ n \in Used(u) /\ n >= 3
          /\ u.node[n].level = level /\ u.node[n].low = low /\ u.node[n].high = high
      BY <2>3, <3>1, EnterSteady
    <3> QED
      BY <3>2
  <2> QED
    BY <2>2, <2>3
<1> HIDE DEF found, Goal
<1> QED
  BY <1>2, <1>3, <1>4

\* Above two BDDs.
LEMMA MakeNodeBdd ==
  ASSUME NEW t, Steady(t), NEW low \in Bdds(t), NEW high \in Bdds(t), NEW level \in Nat,
         level < t.node[low].level, level < t.node[high].level
  PROVE  LET done == MakeNode(t, level, low, high)
             u == done.t
         IN  \/ u.collected
             \/ /\ Onward(t, u) /\ u.stack = t.stack
                /\ done.res \in Bdds(u) /\ level <= u.node[done.res].level
<1> DEFINE done == MakeNode(t, level, low, high)
           u == done.t
           n == done.res
<1> SUFFICES ASSUME ~ u.collected
             PROVE  /\ Onward(t, u) /\ u.stack = t.stack
                    /\ n \in Bdds(u) /\ level <= u.node[n].level
  OBVIOUS
<1>1. /\ low \in Nat /\ high \in Nat /\ low # 2 /\ low \in Used(t) /\ high \in Used(t)
      /\ t.node[low].level \in 0 .. VarNum /\ t.node[high].level \in 0 .. VarNum
  BY BddFacts
<1>2. level \in 0 .. VarNum
  BY <1>1, SizeAssumption
<1>3. /\ Onward(t, u) /\ u.stack = t.stack
      /\ \/ low = high /\ low # 2 /\ n = low
         \/ /\ n \in Used(u) /\ n >= 3
            /\ u.node[n].level = level /\ u.node[n].low = low
            /\ u.node[n].high = high
  BY <1>1, <1>2, MakeNodeSteady
<1> HIDE DEF done
<1>4. /\ Bdds(t) \subseteq Bdds(u) /\ Steady(u)
      /\ u.node[low].level = t.node[low].level /\ u.node[high].level = t.node[high].level
  BY <1>1, <1>3, GrownFacts, 0 \in Nat, 0 <= 0 DEF Onward
<1>5. CASE n = low
  BY <1>1, <1>2, <1>3, <1>4, <1>5
<1>6. CASE /\ n \in Used(u) /\ n >= 3
           /\ u.node[n].level = level /\ u.node[n].low = low
           /\ u.node[n].high = high
  <2>1. BddClosed(u, Bdds(u) \union {n})
    <3>1. BddClosed(u, Bdds(u))
      BY BddsClosed
    <3>2. n # 2
      BY <1>6
    <3> QED
      BY <1>4, <1>6, <3>1, <3>2 DEF BddClosed
  <2>2. n \in Bdds(u)
    BY <2>1, BddsClosed
  <2> QED
    BY <1>2, <1>3, <1>6, <2>2
<1> QED
  BY <1>3, <1>5, <1>6

\* Above two MTBDDs.
LEMMA MakeNodeMtbdd ==
  ASSUME NEW t, Steady(t), NEW nv \in Nat,
         NEW low \in Mtbdds(t, nv), NEW high \in Mtbdds(t, nv), NEW level \in Nat,
         level < Depth(t, low), level < Depth(t, high)
  PROVE  LET done == MakeNode(t, level, low, high)
             u == done.t
         IN  \/ u.collected
             \/ /\ Onward(t, u) /\ u.stack = t.stack
                /\ done.res \in Mtbdds(u, nv) /\ level <= Depth(u, done.res)
<1> DEFINE done == MakeNode(t, level, low, high)
           u == done.t
           n == done.res
<1> SUFFICES ASSUME ~ u.collected
             PROVE  /\ Onward(t, u) /\ u.stack = t.stack
                    /\ n \in Mtbdds(u, nv) /\ level <= Depth(u, n)
  OBVIOUS
<1>1. /\ low \in Nat /\ high \in Nat /\ low # 2 /\ low \in Used(t) /\ high \in Used(t)
      /\ Depth(t, low) \in 0 .. VarNum /\ Depth(t, high) \in 0 .. VarNum
  BY MtbddFacts
<1>2. level \in 0 .. VarNum
  BY <1>1, SizeAssumption
<1>3. /\ Onward(t, u) /\ u.stack = t.stack
      /\ \/ low = high /\ low # 2 /\ n = low
         \/ /\ n \in Used(u) /\ n >= 3
            /\ u.node[n].level = level /\ u.node[n].low = low
            /\ u.node[n].high = high
  BY <1>1, <1>2, MakeNodeSteady
<1> HIDE DEF done
<1>4. /\ Mtbdds(t, nv) \subseteq Mtbdds(u, nv) /\ Steady(u)
      /\ Depth(u, low) = Depth(t, low) /\ Depth(u, high) = Depth(t, high)
  BY <1>1, <1>3, GrownFacts, nv <= nv DEF Onward
<1>5. CASE n = low
  BY <1>1, <1>2, <1>3, <1>4, <1>5
<1>6. CASE /\ n \in Used(u) /\ n >= 3
           /\ u.node[n].level = level /\ u.node[n].low = low
           /\ u.node[n].high = high
  <2>0. ~ IsLeaf(u, n) /\ Depth(u, n) = level
    BY <1>1, <1>6 DEF IsLeaf, Depth
  <2>1. MtbddClosed(u, nv, Mtbdds(u, nv) \union {n})
    <3>1. MtbddClosed(u, nv, Mtbdds(u, nv))
      BY MtbddsClosed
    <3>2. n # 2 /\ n # 1
      BY <1>6
    <3> QED
      BY <1>4, <1>6, <2>0, <3>1, <3>2 DEF MtbddClosed
  <2>2. n \in Mtbdds(u, nv)
    BY <2>1, MtbddsClosed
  <2> QED
    BY <1>2, <1>3, <2>0, <2>2
<1> QED
  BY <1>3, <1>5, <1>6

\* A terminal.
LEMMA MakeNodeLeaf ==
  ASSUME NEW t, Steady(t), NEW nv \in Nat, NEW v \in 1 .. nv
  PROVE  LET done == MakeNode(t, 0, 2, v - 1)
             u == done.t
         IN  \/ u.collected
             \/ /\ Onward(t, u)
                /\ done.res \in Mtbdds(u, nv) /\ IsLeaf(u, done.res) /\ done.res >= 3
                /\ u.node[done.res].high = v - 1
<1> DEFINE done == MakeNode(t, 0, 2, v - 1)
           u == done.t
           n == done.res
<1> SUFFICES ASSUME ~ u.collected
             PROVE  /\ Onward(t, u)
                    /\ n \in Mtbdds(u, nv) /\ IsLeaf(u, n) /\ n >= 3
                    /\ u.node[n].high = v - 1
  OBVIOUS
<1>1. v - 1 \in Nat /\ 2 \in Nat /\ 0 \in 0 .. VarNum
  BY SizeAssumption
<1>2. /\ Onward(t, u)
      /\ n \in Used(u) /\ n >= 3 /\ u.node[n].low = 2 /\ u.node[n].high = v - 1
  BY <1>1, MakeNodeSteady
<1> HIDE DEF done
<1>3. IsLeaf(u, n)
  BY <1>2 DEF IsLeaf
<1>4. MtbddClosed(u, nv, {n})
  BY <1>2, <1>3 DEF MtbddClosed
<1> QED
  BY <1>2, <1>3, <1>4, MtbddsClosed

-----------------------------------------------------------------------------
(* bdd_apply as long as no collection has come.                            *)

\* Another stack and another apply cache.
LEMMA StackSteady ==
  ASSUME NEW t, Steady(t), NEW u, u.size = t.size, u.node = t.node, u.free = t.free,
         u.memo = t.memo, u.misc = t.misc, u.collected = t.collected,
         u.stopped = t.stopped, u.wild = t.wild, u \in Tables,
         \A e \in u.cache :
           /\ {e.l, e.r, e.res} \subseteq Bdds(t)
           /\ \/ t.node[e.l].level <= t.node[e.res].level
              \/ t.node[e.r].level <= t.node[e.res].level
  PROVE  Onward(t, u)
<1>1. Slots(u) = Slots(t)
  BY DEF Slots
<1>2. Used(u) = Used(t)
  BY <1>1 DEF Used
<1>3. Grown(t, u) /\ Aside(t, u)
  BY <1>2 DEF Grown, Aside, Same
<1>4. Bdds(t) \subseteq Bdds(u)
  BY <1>3, GrownFacts, 0 \in Nat, 0 <= 0
<1>5. Typed(u)
  BY DEF Typed, Steady
<1>6. Steady(u)
  BY <1>1, <1>2, <1>4, <1>5 DEF Steady
<1> QED
  BY <1>3, <1>6 DEF Onward

\* PUSHREF of a result.
LEMMA PushSteady ==
  ASSUME NEW done, Steady(done.t), done.res \in Nat
  PROVE  LET u == Push(done)
         IN  Onward(done.t, u) /\ u.stack = Append(done.t.stack, done.res)
<1> DEFINE t == done.t
           u == Push(done)
<1>1. t \in Tables /\ t.stack \in Seq(Nat)
  BY TableFields DEF Typed, Steady
<1>2. u = [t EXCEPT !.stack = Append(t.stack, done.res)]
  BY DEF Push
<1>3. Append(t.stack, done.res) \in Seq(Nat)
  BY <1>1
<1> SUFFICES Onward(t, u) /\ u.stack = Append(t.stack, done.res)
  OBVIOUS
<1>4. Steady(t)
  OBVIOUS
<1> HIDE DEF t, u
<1>5. /\ u \in Tables /\ u.size = t.size /\ u.node = t.node /\ u.free = t.free
      /\ u.cache = t.cache /\ u.memo = t.memo /\ u.misc = t.misc
      /\ u.collected = t.collected
      /\ u.stopped = t.stopped /\ u.wild = t.wild /\ u.stack = Append(t.stack, done.res)
  BY <1>1, <1>2, <1>3 DEF Tables
<1>6. \A e \in u.cache :
         /\ {e.l, e.r, e.res} \subseteq Bdds(t)
         /\ \/ t.node[e.l].level <= t.node[e.res].level
            \/ t.node[e.r].level <= t.node[e.res].level
  BY <1>4, <1>5 DEF Steady
<1> QED
  BY <1>4, <1>5, <1>6, StackSteady

\* The result is deep enough for the node above it.
AsDeep(t, l, r, n) == t.node[l].level <= t.node[n].level \/ t.node[r].level <= t.node[n].level

\* The end of apply_rec.
LEMMA CombineSteady ==
  ASSUME NEW t, Steady(t), NEW stack \in Seq(Nat), NEW a \in Bdds(t), NEW b \in Bdds(t),
         t.stack = Append(Append(stack, a), b),
         NEW level \in Nat, level < t.node[a].level, level < t.node[b].level,
         NEW l \in Bdds(t), NEW r \in Bdds(t), NEW op \in Ops,
         level = t.node[l].level \/ level = t.node[r].level
  PROVE  LET done == Combine(t, level, l, r, op)
             u == done.t
         IN  \/ u.collected
             \/ /\ Onward(t, u) /\ u.stack = stack
                /\ done.res \in Bdds(u) /\ AsDeep(u, l, r, done.res)
<1> DEFINE done == Combine(t, level, l, r, op)
           made == MakeNode(t, level, a, b)
           m == made.t
           u == done.t
           e == [l |-> l, r |-> r, op |-> op, res |-> made.res]
<1> SUFFICES ASSUME ~ u.collected
             PROVE  /\ Onward(t, u) /\ u.stack = stack
                    /\ done.res \in Bdds(u) /\ AsDeep(u, l, r, done.res)
  OBVIOUS
<1>1. a \in Nat /\ b \in Nat /\ l \in Nat /\ r \in Nat /\ l \in Used(t) /\ r \in Used(t)
  BY BddFacts
<1>2. ReadRef(t, 2) = a /\ ReadRef(t, 1) = b
  <2> DEFINE full == Append(Append(stack, a), b)
  <2>1. /\ Len(full) \in Nat /\ full[Len(full)] = b /\ full[Len(full) - 1] = a
    BY <1>1
  <2>2. (Len(full) + 1) - 2 = Len(full) - 1 /\ (Len(full) + 1) - 1 = Len(full)
    BY <2>1
  <2> HIDE DEF full
  <2>3. t.stack = full
    BY DEF full
  <2> QED
    BY <2>1, <2>2, <2>3 DEF ReadRef
<1>3. done = Remember(made, l, r, op)
  <2>1. ~ t.stopped /\ ~ t.wild
    BY DEF Steady
  <2> QED
    BY <1>2, <2>1 DEF Combine
<1> HIDE DEF done
<1>4. \/ m.collected
      \/ /\ Onward(t, m) /\ m.stack = t.stack
         /\ made.res \in Bdds(m) /\ level <= m.node[made.res].level
  BY MakeNodeBdd
<1> HIDE DEF made
<1>5. done.res = made.res /\ u = [PopRef2(m) EXCEPT !.cache = @ \union {e}]
  BY <1>3 DEF Remember
<1>6. ~ m.collected
  <2>1. Later(t, m)
    <3>1. level \in 0 .. VarNum
      <4>1. t.node[a].level \in 0 .. VarNum
        BY BddFacts
      <4> QED
        BY <4>1, SizeAssumption
    <3> QED
      BY <1>1, <3>1, MakeNodeLater DEF made, Steady
  <2>2. u.collected = m.collected
    <3>1. m \in Tables
      BY <2>1 DEF Later, Typed
    <3> QED
      BY <1>5, <3>1 DEF PopRef2, Tables
  <2> QED
    BY <2>2
<1>7. /\ Onward(t, m) /\ m.stack = t.stack /\ Steady(m) /\ m \in Tables
      /\ made.res \in Bdds(m) /\ made.res \in Nat /\ level <= m.node[made.res].level
  BY <1>4, <1>6, BddFacts DEF Onward, Steady, Typed
<1>8. SubSeq(m.stack, 1, Len(m.stack) - 2) = stack
  <2>1. \A x, y \in Nat : LET full == Append(Append(stack, x), y)
                          IN  SubSeq(full, 1, Len(full) - 2) = stack
    OBVIOUS
  <2> QED
    BY <1>1, <1>7, <2>1
<1>9. u = [m EXCEPT !.stack = stack, !.cache = m.cache \union {e}]
  BY <1>5, <1>7, <1>8 DEF PopRef2, Tables
<1>10. m.cache \union {e} \in SUBSET [l : Nat, r : Nat, op : Ops, res : Nat]
  BY <1>1, <1>7 DEF Tables
<1>11. /\ e.l = l /\ e.r = r /\ e.res = made.res
  OBVIOUS
<1>12. /\ Bdds(t) \subseteq Bdds(m)
       /\ m.node[l].level = t.node[l].level /\ m.node[r].level = t.node[r].level
  BY <1>1, <1>7, GrownFacts, 0 \in Nat, 0 <= 0 DEF Onward
<1> HIDE DEF e, m
<1>13. /\ u \in Tables /\ u.size = m.size /\ u.node = m.node /\ u.free = m.free
       /\ u.memo = m.memo /\ u.misc = m.misc /\ u.collected = m.collected
       /\ u.stopped = m.stopped /\ u.wild = m.wild
       /\ u.stack = stack /\ u.cache = m.cache \union {e}
  <2> HIDE DEF u
  <2> QED
    BY <1>7, <1>9, <1>10 DEF Tables
<1>14. AsDeep(m, l, r, made.res)
  BY <1>7, <1>12 DEF AsDeep
<1>15. \A x \in u.cache :
         /\ {x.l, x.r, x.res} \subseteq Bdds(m)
         /\ \/ m.node[x.l].level <= m.node[x.res].level
            \/ m.node[x.r].level <= m.node[x.res].level
  BY <1>7, <1>11, <1>12, <1>13, <1>14 DEF Steady, AsDeep
<1>16. Onward(m, u)
  BY <1>7, <1>13, <1>15, StackSteady
<1>17. Onward(t, u)
  BY <1>7, <1>16, OnwardTransitive
<1>18. Bdds(m) \subseteq Bdds(u)
  BY <1>7, <1>16, GrownFacts, 0 \in Nat, 0 <= 0 DEF Onward
<1>19. AsDeep(u, l, r, done.res)
  BY <1>5, <1>13, <1>14 DEF AsDeep
<1> QED
  BY <1>5, <1>7, <1>13, <1>17, <1>18, <1>19

\* What layer k of bdd_apply owes its caller, for the nodes of the lowest k - 1
\* levels and the constants.
CallSteady(k) ==
  \A t, l, r : \A op \in Ops :
    /\ Steady(t) /\ l \in Bdds(t) /\ r \in Bdds(t)
    /\ t.node[l].level >= VarNum + 1 - k /\ t.node[r].level >= VarNum + 1 - k
    => LET done == Call(k, t, l, r, op)
           u == done.t
       IN  \/ u.collected
           \/ /\ Onward(t, u) /\ u.stack = t.stack
              /\ done.res \in Bdds(u) /\ AsDeep(u, l, r, done.res)

\* The halves of a BDD lie below its level.
LEMMA HalfSteady ==
  ASSUME NEW t, Steady(t), NEW n \in Bdds(t), NEW level \in Levels, level <= t.node[n].level,
         NEW b \in {0, 1}
  PROVE  LET m == Half(t, n, level, b)
         IN  m \in Bdds(t) /\ level < t.node[m].level
<1>1. level \in Nat /\ level < VarNum /\ VarNum \in Nat
  BY SizeAssumption DEF Levels
<1>2. /\ n \in Nat /\ n # 2 /\ t.node[n].level \in 0 .. VarNum
      /\ n >= 3 => \A son \in {t.node[n].low, t.node[n].high} :
                     son \in Bdds(t) /\ t.node[n].level < t.node[son].level
  BY BddFacts
<1>3. t.node[0].level = VarNum /\ t.node[1].level = VarNum
  BY DEF Steady
<1>4. CASE t.node[n].level # level
  BY <1>1, <1>2, <1>4 DEF Half
<1>5. CASE t.node[n].level = level
  <2>1. n >= 3
    BY <1>1, <1>2, <1>3, <1>5
  <2> QED
    BY <1>2, <1>5, <2>1 DEF Half
<1> QED
  BY <1>4, <1>5

\* The operands at the head of apply_rec.
LEMMA EasySteady ==
  ASSUME NEW t, Steady(t), NEW l \in Bdds(t), NEW r \in Bdds(t), NEW op \in Ops
  PROVE  /\ \A n \in Easy(l, r, op) : n \in Bdds(t) /\ AsDeep(t, l, r, n)
         /\ Easy(l, r, op) = {} => Top(t, l, r) \in Levels
<1>1. /\ {0, 1} \subseteq Bdds(t)
      /\ l \in Nat /\ l # 2 /\ t.node[l].level \in 0 .. VarNum
      /\ r \in Nat /\ r # 2 /\ t.node[r].level \in 0 .. VarNum
      /\ l >= 3 => t.node[l].level < VarNum
      /\ r >= 3 => t.node[r].level < VarNum
  BY BddFacts
<1>2. t.node[0].level = VarNum /\ t.node[1].level = VarNum /\ VarNum \in Nat
  BY SizeAssumption DEF Steady
<1>3. \A n \in Easy(l, r, op) : n \in {0, 1, l, r}
  BY DEF Easy, Ops
<1>4. ASSUME NEW n \in Easy(l, r, op)
      PROVE  n \in Bdds(t) /\ AsDeep(t, l, r, n)
  BY <1>1, <1>2, <1>3 DEF AsDeep
<1>5. ASSUME Easy(l, r, op) = {} PROVE l >= 3 \/ r >= 3
  <2>1. ~ {l, r} \subseteq {0, 1}
    <3> SUFFICES ASSUME {l, r} \subseteq {0, 1} PROVE FALSE
      OBVIOUS
    <3>1. op = "diff"
      BY <1>5 DEF Easy, Ops
    <3> QED
      BY <1>5, <3>1 DEF Easy
  <2> QED
    BY <1>1, <2>1
<1>6. ASSUME Easy(l, r, op) = {} PROVE Top(t, l, r) \in Levels
  BY <1>1, <1>2, <1>5, <1>6 DEF Top, Levels
<1> QED
  BY <1>4, <1>6

\* One level of apply_rec: bdd_and, bdd_or or bdd_diff of two whole BDDs is a whole BDD.
LEMMA NextCallSteady ==
  ASSUME NEW k \in 0 .. VarNum, CallSteady(k)
  PROVE  CallSteady(k + 1)
<1> SUFFICES ASSUME NEW t, NEW l, NEW r, NEW op \in Ops,
                    Steady(t), l \in Bdds(t), r \in Bdds(t),
                    t.node[l].level >= VarNum + 1 - (k + 1),
                    t.node[r].level >= VarNum + 1 - (k + 1),
                    ~ Call(k + 1, t, l, r, op).t.collected
             PROVE  LET done == Call(k + 1, t, l, r, op)
                        u == done.t
                    IN  /\ Onward(t, u) /\ u.stack = t.stack
                        /\ done.res \in Bdds(u) /\ AsDeep(u, l, r, done.res)
  BY DEF CallSteady
<1> DEFINE done == Call(k + 1, t, l, r, op)
           u == done.t
<1> SUFFICES /\ Onward(t, u) /\ u.stack = t.stack
             /\ done.res \in Bdds(u) /\ AsDeep(u, l, r, done.res)
  OBVIOUS
<1>0. /\ l \in Nat /\ r \in Nat /\ {l, r} \subseteq Used(t)
      /\ t.node[l].level \in 0 .. VarNum /\ t.node[r].level \in 0 .. VarNum
  BY BddFacts
<1>1. /\ t \in Tables /\ Typed(t) /\ ~ t.stopped /\ ~ t.wild /\ t.stack \in Seq(Nat)
  BY TableFields DEF Steady, Typed
<1>2. Onward(t, t)
  BY OnwardItself
<1>6. ~ u.collected
  OBVIOUS
<1>3. CASE Easy(l, r, op) # {}
  <2>0. CallOut(k, t, l, r, op)
    BY <1>0, <1>1, CallCases
  <2>1. PICK n \in Easy(l, r, op) : done = [t |-> t, res |-> n]
    BY <1>3, <2>0 DEF CallOut
  <2>2. n \in Bdds(t) /\ AsDeep(t, l, r, n)
    BY EasySteady
  <2> HIDE DEF done
  <2> QED
    BY <1>2, <2>1, <2>2
<1>4. CASE Easy(l, r, op) = {} /\ Cached(t, l, r, op) # {}
  <2>0. CallOut(k, t, l, r, op)
    BY <1>0, <1>1, CallCases
  <2>1. PICK e \in Cached(t, l, r, op) : done = [t |-> t, res |-> e.res]
    BY <1>4, <2>0 DEF CallOut
  <2>2. e.res \in Bdds(t) /\ AsDeep(t, l, r, e.res)
    BY DEF Cached, Steady, AsDeep
  <2> HIDE DEF done
  <2> QED
    BY <1>2, <2>1, <2>2
<1>5. CASE Easy(l, r, op) = {} /\ Cached(t, l, r, op) = {}
  <2> DEFINE top == Top(t, l, r)
             first == Call(k, t, Half(t, l, top, 0), Half(t, r, top, 0), op)
             one == Push(first)
             second == Call(k, one, Half(t, l, top, 1), Half(t, r, top, 1), op)
             both == Push(second)
  <2>1. /\ done = Combine(both, top, l, r, op)
        /\ Later(t, first.t) /\ Later(first.t, one) /\ Later(one, second.t)
        /\ Later(second.t, both) /\ Later(both, done.t)
    <3>1. CallLater(k)
      <4>1. k \in 0 .. VarNum + 1
        BY SizeAssumption
      <4> QED
        BY <4>1, AllCallsLater
    <3> QED
      BY <1>0, <1>1, <1>5, <3>1, CallChain
  <2>2. /\ top \in Levels /\ top \in Nat /\ top <= t.node[l].level /\ top <= t.node[r].level
        /\ top = t.node[l].level \/ top = t.node[r].level
        /\ top >= VarNum - k
    <3>1. VarNum + 1 - (k + 1) = VarNum - k /\ VarNum \in Nat
      BY SizeAssumption
    <3>2. top \in Levels
      BY <1>5, EasySteady
    <3> QED
      BY <1>0, <3>1, <3>2 DEF Top, Levels
  <2> DEFINE l0 == Half(t, l, top, 0)
             r0 == Half(t, r, top, 0)
             l1 == Half(t, l, top, 1)
             r1 == Half(t, r, top, 1)
  <2>3. \A n \in {l0, r0, l1, r1} :
          n \in Bdds(t) /\ n \in Used(t) /\ top < t.node[n].level
          /\ t.node[n].level >= VarNum + 1 - k
    <3>1. \A n \in {l0, r0, l1, r1} : n \in Bdds(t) /\ top < t.node[n].level
      BY <2>2, HalfSteady
    <3>2. \A n \in Bdds(t) : t.node[n].level \in 0 .. VarNum /\ n \in Used(t)
      BY BddFacts
    <3>3. \A x \in 0 .. VarNum : top < x => x >= VarNum + 1 - k
      BY <2>2, SizeAssumption
    <3> QED
      BY <3>1, <3>2, <3>3
  <2> HIDE DEF done, top, l0, r0, l1, r1
  <2>4. ~ first.t.collected /\ ~ second.t.collected /\ ~ both.collected
    BY <1>6, <2>1 DEF Later
  <2>5. /\ Onward(t, first.t) /\ first.t.stack = t.stack /\ first.res \in Bdds(first.t)
        /\ AsDeep(first.t, l0, r0, first.res)
    <3>1. first = Call(k, t, l0, r0, op)
      BY DEF l0, r0
    <3> HIDE DEF first
    <3> QED
      BY <2>3, <2>4, <3>1 DEF CallSteady
  <2> HIDE DEF first
  <2>6. /\ Steady(first.t) /\ first.res \in Nat
    BY <2>5, BddFacts DEF Onward
  <2>7. /\ Onward(first.t, one) /\ one.stack = Append(t.stack, first.res)
    BY <2>5, <2>6, PushSteady
  <2> HIDE DEF one
  <2>8. Onward(t, one) /\ Steady(one)
    BY <2>5, <2>7, OnwardTransitive DEF Onward
  <2>9. \A n \in Bdds(t) : n \in Bdds(one) /\ one.node[n].level = t.node[n].level
    <3>1. \A n \in Bdds(t) : n \in Used(t)
      BY BddFacts
    <3> QED
      BY <2>8, <3>1, GrownFacts, 0 \in Nat, 0 <= 0 DEF Onward
  <2>10. /\ Onward(one, second.t) /\ second.t.stack = one.stack
         /\ second.res \in Bdds(second.t) /\ AsDeep(second.t, l1, r1, second.res)
    <3>1. second = Call(k, one, l1, r1, op)
      BY DEF l1, r1
    <3> HIDE DEF second
    <3>2. /\ l1 \in Bdds(one) /\ r1 \in Bdds(one)
          /\ one.node[l1].level >= VarNum + 1 - k /\ one.node[r1].level >= VarNum + 1 - k
      BY <2>3, <2>9
    <3> QED
      BY <2>4, <2>8, <3>1, <3>2 DEF CallSteady
  <2> HIDE DEF second
  <2>11. /\ Steady(second.t) /\ second.res \in Nat
    BY <2>10, BddFacts DEF Onward
  <2>12. /\ Onward(second.t, both)
         /\ both.stack = Append(Append(t.stack, first.res), second.res)
    BY <2>7, <2>10, <2>11, PushSteady
  <2> HIDE DEF both
  <2>13. Onward(one, both) /\ Onward(first.t, both) /\ Onward(t, both) /\ Steady(both)
    <3>1. Onward(one, both)
      BY <2>8, <2>10, <2>12, OnwardTransitive
    <3>2. Onward(first.t, both)
      BY <2>6, <2>7, <3>1, OnwardTransitive
    <3>3. Onward(t, both)
      BY <2>8, <3>1, OnwardTransitive
    <3> QED
      BY <3>1, <3>2, <3>3 DEF Onward
  <2>14. /\ first.res \in Bdds(both) /\ both.node[first.res].level = first.t.node[first.res].level
         /\ \A n \in Bdds(first.t) : both.node[n].level = first.t.node[n].level
    <3>1. \A n \in Bdds(first.t) : n \in Used(first.t)
      BY <2>6, BddFacts
    <3> QED
      BY <2>5, <2>6, <2>13, <3>1, GrownFacts, 0 \in Nat, 0 <= 0 DEF Onward
  <2>15. /\ second.res \in Bdds(both)
         /\ \A n \in Bdds(second.t) : both.node[n].level = second.t.node[n].level
    <3>1. \A n \in Bdds(second.t) : n \in Used(second.t)
      BY <2>11, BddFacts
    <3> QED
      BY <2>10, <2>11, <2>12, <3>1, GrownFacts, 0 \in Nat, 0 <= 0 DEF Onward
  <2>16. \A n \in Bdds(t) : /\ n \in Bdds(both) /\ both.node[n].level = t.node[n].level
                            /\ n \in Bdds(first.t)
                            /\ n \in Bdds(second.t)
    <3>1. \A n \in Bdds(t) : n \in Used(t)
      BY BddFacts
    <3>2. \A n \in Bdds(t) : n \in Bdds(both) /\ both.node[n].level = t.node[n].level
      BY <2>13, <3>1, GrownFacts, 0 \in Nat, 0 <= 0 DEF Onward
    <3>3. \A n \in Bdds(t) : n \in Bdds(first.t)
      BY <2>5, GrownFacts, 0 \in Nat, 0 <= 0 DEF Onward
    <3>4. \A n \in Bdds(one) : n \in Bdds(second.t)
      BY <2>8, <2>10, GrownFacts, 0 \in Nat, 0 <= 0 DEF Onward
    <3> QED
      BY <2>9, <3>2, <3>3, <3>4
  <2>17. top < both.node[first.res].level /\ top < both.node[second.res].level
    <3>1. \A n \in {l0, r0, l1, r1} : top < both.node[n].level
      BY <2>3, <2>16
    <3>2. AsDeep(both, l0, r0, first.res)
      BY <2>3, <2>5, <2>14, <2>16 DEF AsDeep
    <3>3. AsDeep(both, l1, r1, second.res)
      BY <2>3, <2>10, <2>15, <2>16 DEF AsDeep
    <3>4. \A n \in Bdds(both) : both.node[n].level \in 0 .. VarNum
      BY <2>13, BddFacts
    <3>5. \A n \in {l0, r0, l1, r1, first.res, second.res} : both.node[n].level \in Int
      BY <2>3, <2>14, <2>15, <2>16, <3>4
    <3> QED
      BY <2>2, <3>1, <3>2, <3>3, <3>5 DEF AsDeep
  <2>18. \/ u.collected
         \/ /\ Onward(both, u) /\ u.stack = t.stack
            /\ done.res \in Bdds(u) /\ AsDeep(u, l, r, done.res)
    <3>1. top = both.node[l].level \/ top = both.node[r].level
      BY <2>2, <2>16
    <3> DEFINE a == first.res
               b == second.res
               stack == t.stack
    <3>2. /\ a \in Bdds(both) /\ b \in Bdds(both) /\ stack \in Seq(Nat)
          /\ both.stack = Append(Append(stack, a), b)
          /\ top < both.node[a].level /\ top < both.node[b].level
          /\ l \in Bdds(both) /\ r \in Bdds(both)
      BY <1>1, <2>12, <2>14, <2>15, <2>16, <2>17
    <3> HIDE DEF a, b, stack
    <3>3. LET d == Combine(both, top, l, r, op)
          IN  \/ d.t.collected
              \/ /\ Onward(both, d.t) /\ d.t.stack = stack
                 /\ d.res \in Bdds(d.t) /\ AsDeep(d.t, l, r, d.res)
      BY <2>2, <2>13, <3>1, <3>2, CombineSteady
    <3> QED
      BY <2>1, <3>3 DEF stack
  <2>19. ~ u.collected
    BY <1>6
  <2>20. Onward(t, u)
    BY <2>13, <2>18, <2>19, OnwardTransitive
  <2> QED
    BY <2>18, <2>19, <2>20
<1> HIDE DEF done
<1> QED
  BY <1>3, <1>4, <1>5

\* ... to every depth of the recursion.
LEMMA AllCallsSteady == CallSteady(VarNum + 1)
<1> DEFINE S == {k \in 0 .. VarNum + 1 : CallSteady(k)}
<1>1. VarNum + 1 \in Nat /\ VarNum \in Nat
  BY SizeAssumption
<1>2. CallSteady(0)
  <2>1. \A t, l : Steady(t) /\ l \in Bdds(t) => ~ (t.node[l].level >= VarNum + 1 - 0)
    <3>1. \A t, l : Steady(t) /\ l \in Bdds(t) => t.node[l].level \in 0 .. VarNum
      BY BddFacts
    <3> QED
      BY <1>1, <3>1
  <2> QED
    BY <2>1 DEF CallSteady
<1>3. 0 \in S
  BY <1>1, <1>2
<1>4. ASSUME NEW i \in 0 .. (VarNum + 1) - 1, i \in S PROVE i + 1 \in S
  <2>1. i \in 0 .. VarNum /\ i + 1 \in 0 .. VarNum + 1
    BY <1>1
  <2> QED
    BY <1>4, <2>1, NextCallSteady
<1>5. \A i \in 0 .. VarNum + 1 : i \in S
  <2> HIDE DEF S
  <2> QED
    BY <1>1, <1>3, <1>4, UpTo
<1> QED
  BY <1>1, <1>5

\* bdd_apply of two BDDs.
LEMMA ApplySteady ==
  ASSUME NEW t, Steady(t), NEW l \in Bdds(t), NEW r \in Bdds(t), NEW op \in Ops
  PROVE  LET done == Apply(t, l, r, op)
             u == done.t
         IN  \/ u.collected
             \/ Onward(t, u) /\ done.res \in Bdds(u)
<1> DEFINE done == Apply(t, l, r, op)
           u == done.t
           start == [t EXCEPT !.stack = <<>>]
<1>1. /\ l \in Used(t) /\ r \in Used(t)
      /\ t.node[l].level \in 0 .. VarNum /\ t.node[r].level \in 0 .. VarNum
  BY BddFacts
<1>2. done = Call(VarNum + 1, start, l, r, op)
  BY <1>1 DEF Apply, Call
<1>3. Onward(t, start)
  <2>1. t \in Tables /\ << >> \in Seq(Nat)
    BY DEF Steady, Typed
  <2>2. /\ start \in Tables /\ start.size = t.size /\ start.node = t.node /\ start.free = t.free
        /\ start.cache = t.cache /\ start.memo = t.memo /\ start.misc = t.misc
        /\ start.collected = t.collected
        /\ start.stopped = t.stopped /\ start.wild = t.wild
    BY <2>1 DEF Tables
  <2> HIDE DEF start
  <2>3. \A e \in start.cache :
         /\ {e.l, e.r, e.res} \subseteq Bdds(t)
         /\ \/ t.node[e.l].level <= t.node[e.res].level
            \/ t.node[e.r].level <= t.node[e.res].level
    BY <2>2 DEF Steady
  <2> QED
    BY <2>2, <2>3, StackSteady
<1> HIDE DEF start, done
<1>4. /\ Steady(start) /\ l \in Bdds(start) /\ r \in Bdds(start)
      /\ start.node[l].level = t.node[l].level /\ start.node[r].level = t.node[r].level
  BY <1>1, <1>3, GrownFacts, 0 \in Nat, 0 <= 0 DEF Onward
<1>5. start.node[l].level >= VarNum + 1 - (VarNum + 1)
      /\ start.node[r].level >= VarNum + 1 - (VarNum + 1)
  BY <1>1, <1>4, SizeAssumption
<1>6. u.collected \/ (Onward(start, u) /\ done.res \in Bdds(u))
  BY <1>2, <1>4, <1>5, AllCallsSteady DEF CallSteady
<1>7. Onward(start, u) => Onward(t, u)
  BY <1>3, OnwardTransitive
<1> QED
  BY <1>6, <1>7 DEF done

-----------------------------------------------------------------------------
(* The states of the operations, whatever the table.                       *)

ValueNodes == [rule_pair : Rules \X (Rules \union {NULL}), self_bdd : Nat]

\* The pairs of the value nodes are distinct, and the one of index 0, which the
\* search of a hash chain does not find, is not a pair of two rules.
Distinct(value) ==
  /\ \A v, w \in DOMAIN value : value[v].rule_pair = value[w].rule_pair => v = w
  /\ 1 \in DOMAIN value => value[1].rule_pair[2] = NULL

STyped(st) ==
  /\ st \in States
  /\ Typed(st.t)
  /\ Len(st.value) <= MaxValues
  /\ Distinct(st.value)

\* What any operation makes of st.
SLater(st, su) ==
  /\ STyped(su)
  /\ Later(st.t, su.t)
  /\ Len(st.value) <= Len(su.value)

\* Two operations, one after the other.
LEMMA SLaterTransitive ==
  ASSUME NEW a, NEW b, NEW c, STyped(a), SLater(a, b), SLater(b, c)
  PROVE  SLater(a, c)
<1>1. Len(a.value) \in Nat /\ Len(b.value) \in Nat /\ Len(c.value) \in Nat
  <2>1. \A st : STyped(st) => st.value \in Seq(ValueNodes)
    BY DEF STyped, States, ValueNodes
  <2>2. a.value \in Seq(ValueNodes) /\ b.value \in Seq(ValueNodes) /\ c.value \in Seq(ValueNodes)
    BY <2>1 DEF SLater
  <2> QED
    BY <2>2
<1>2. Later(a.t, c.t)
  BY LaterTransitive DEF SLater
<1> QED
  BY <1>1, <1>2 DEF SLater

\* The fields of a typed state.
LEMMA SFields ==
  ASSUME NEW st, STyped(st)
  PROVE  /\ st.t \in Tables /\ Typed(st.t)
         /\ st.value \in Seq(ValueNodes) /\ Len(st.value) \in Nat
         /\ DOMAIN st.value = 1 .. Len(st.value)
         /\ \A v \in DOMAIN st.value :
              /\ v \in Nat \ {0} /\ st.value[v] \in ValueNodes
              /\ st.value[v].rule_pair[1] \in Rules
              /\ st.value[v].rule_pair[2] \in Rules \union {NULL}
              /\ st.value[v].self_bdd \in Nat
         /\ st.covering \in [Rules -> SUBSET Rules]
         /\ st.tag \in Nat /\ st.cacheSize \in Nat \ {0} /\ st.lowFirst \in BOOLEAN
         /\ Rules \subseteq Nat /\ NULL \notin Rules /\ MaxValues \in Nat
<1>1. /\ Typed(st.t) /\ st.t \in Tables /\ st.value \in Seq(ValueNodes)
      /\ st.covering \in [Rules -> SUBSET Rules]
      /\ st.tag \in Nat /\ st.cacheSize \in Nat \ {0} /\ st.lowFirst \in BOOLEAN
  BY GraphAssumption DEF STyped, States, ValueNodes
<1>2. \A v \in DOMAIN st.value : v \in Nat \ {0} /\ st.value[v] \in ValueNodes
  BY <1>1
<1>3. Rules \subseteq Nat /\ NULL \notin Rules /\ MaxValues \in Nat
  <2>1. IsFiniteSet(Rules) => Cardinality(Rules) \in Nat
    BY FS_CardinalityType
  <2> QED
    BY <2>1, GraphAssumption
<1> QED
  BY <1>1, <1>2, <1>3 DEF ValueNodes

\* Another table.
LEMMA TableLater ==
  ASSUME NEW st, STyped(st), NEW u, Later(st.t, u)
  PROVE  LET su == [st EXCEPT !.t = u]
         IN  /\ SLater(st, su) /\ su.t = u /\ su.value = st.value /\ su.covering = st.covering
             /\ su.tag = st.tag /\ su.cacheSize = st.cacheSize /\ su.lowFirst = st.lowFirst
<1> DEFINE su == [st EXCEPT !.t = u]
<1>1. st \in States /\ u \in Tables /\ Len(st.value) \in Nat
  BY SFields DEF STyped, Later, Typed
<1>2. /\ su \in States
      /\ su.t = u /\ su.value = st.value /\ su.covering = st.covering
      /\ su.tag = st.tag /\ su.cacheSize = st.cacheSize /\ su.lowFirst = st.lowFirst
  BY <1>1 DEF States
<1> HIDE DEF su
<1>3. SLater(st, su)
  BY <1>1, <1>2 DEF SLater, STyped, Later
<1> QED
  BY <1>2, <1>3 DEF su

\* The value nodes, when one has another self_bdd; outside of the array, none has.
WithSelf(value, v, b) == [value EXCEPT ![v].self_bdd = b]

\* Only self_bdd of value node v is another one.
OtherSelf(value, v, b, new) ==
  /\ new \in Seq(ValueNodes) /\ Len(new) = Len(value) /\ DOMAIN new = DOMAIN value
  /\ \A w \in DOMAIN value :
       /\ new[w].rule_pair = value[w].rule_pair
       /\ new[w].self_bdd = IF w = v THEN b ELSE value[w].self_bdd
  /\ Distinct(value) => Distinct(new)

\* One self_bdd is replaced, the others and the rules stay.
LEMMA SelfOfValues ==
  ASSUME NEW value \in Seq(ValueNodes), NEW v, NEW b \in Nat
  PROVE  OtherSelf(value, v, b, WithSelf(value, v, b))
<1> SUFFICES LET new == WithSelf(value, v, b)
             IN  /\ new \in Seq(ValueNodes) /\ Len(new) = Len(value) /\ DOMAIN new = DOMAIN value
                 /\ \A w \in DOMAIN value :
                      /\ new[w].rule_pair = value[w].rule_pair
                      /\ new[w].self_bdd = IF w = v THEN b ELSE value[w].self_bdd
                 /\ Distinct(value) => Distinct(new)
  BY DEF OtherSelf
<1> DEFINE new == [value EXCEPT ![v].self_bdd = b]
<1>0. new = WithSelf(value, v, b)
  BY DEF WithSelf
<1>1. DOMAIN new = DOMAIN value
  OBVIOUS
<1>2. DOMAIN value = 1 .. Len(value) /\ Len(value) \in Nat
      /\ \A w \in DOMAIN value : value[w] \in ValueNodes
  OBVIOUS
<1>3. ASSUME NEW w \in DOMAIN value
      PROVE  /\ new[w] \in ValueNodes
             /\ new[w].rule_pair = value[w].rule_pair
             /\ new[w].self_bdd = IF w = v THEN b ELSE value[w].self_bdd
  <2>1. CASE w = v
    <3>1. new[w] = [value[w] EXCEPT !.self_bdd = b]
      BY <2>1
    <3> QED
      BY <1>2, <2>1, <3>1 DEF ValueNodes
  <2>2. CASE w # v
    <3>1. new[w] = value[w]
      BY <2>2
    <3> QED
      BY <1>2, <2>2, <3>1
  <2> QED
    BY <2>1, <2>2
<1>4. new \in [1 .. Len(value) -> ValueNodes]
  <2>1. new = [w \in DOMAIN value |-> new[w]]
    BY <1>1
  <2> HIDE DEF new
  <2> QED
    BY <1>1, <1>2, <1>3, <2>1
<1> HIDE DEF new
<1>5. new \in Seq(ValueNodes) /\ Len(new) = Len(value)
  BY <1>2, <1>4
<1>6. Distinct(value) => Distinct(new)
  BY <1>1, <1>3 DEF Distinct
<1> QED
  BY <1>0, <1>1, <1>3, <1>5, <1>6

\* Another self_bdd, at any index.
LEMMA SelfLater ==
  ASSUME NEW st, STyped(st), NEW v, NEW b \in Nat
  PROVE  LET su == [st EXCEPT !.value[v].self_bdd = b]
         IN  /\ SLater(st, su) /\ su.t = st.t /\ su.covering = st.covering
             /\ su.value = WithSelf(st.value, v, b)
             /\ su.tag = st.tag /\ su.cacheSize = st.cacheSize /\ su.lowFirst = st.lowFirst
<1> DEFINE new == WithSelf(st.value, v, b)
           su == [st EXCEPT !.value[v].self_bdd = b]
<1>1. st \in States /\ st.value \in Seq(ValueNodes) /\ Len(st.value) \in Nat
  BY SFields DEF STyped
<1>2. new \in Seq(ValueNodes) /\ Len(new) = Len(st.value) /\ Distinct(new)
  <2>1. Distinct(st.value)
    BY DEF STyped
  <2> QED
    BY <1>1, <2>1, SelfOfValues DEF OtherSelf
<1>3. su = [st EXCEPT !.value = new]
  BY DEF WithSelf
<1> HIDE DEF new
<1>4. /\ su \in States
      /\ su.t = st.t /\ su.value = new /\ su.covering = st.covering
      /\ su.tag = st.tag /\ su.cacheSize = st.cacheSize /\ su.lowFirst = st.lowFirst
  <2> HIDE DEF su
  <2> QED
    BY <1>1, <1>2, <1>3 DEF States, ValueNodes
<1> HIDE DEF su
<1>5. SLater(st, su)
  BY <1>1, <1>2, <1>4 DEF SLater, STyped, Later
<1> QED
  BY <1>4, <1>5 DEF su, new

\* A value node owns another BDD.
Owned(st, v, done, su) ==
  /\ SLater(st, su) /\ su.t = AddRef(done.t, done.res)
  /\ su.value = WithSelf(st.value, v, done.res)
  /\ su.covering = st.covering
  /\ su.tag = st.tag /\ su.cacheSize = st.cacheSize /\ su.lowFirst = st.lowFirst

\* A value node with a result that it owns.
LEMMA OwnLater ==
  ASSUME NEW st, STyped(st), NEW v, NEW done, Later(st.t, done.t), done.res \in Nat
  PROVE  Owned(st, v, done, Own(st, v, done))
<1> DEFINE u == AddRef(done.t, done.res)
           mid == [st EXCEPT !.t = u]
           su == Own(st, v, done)
<1>1. Later(st.t, u)
  <2>1. Later(done.t, u)
    BY RefLater DEF Later
  <2> QED
    BY <2>1, LaterTransitive
<1> HIDE DEF u
<1>2. /\ SLater(st, mid) /\ mid.t = u /\ mid.value = st.value /\ mid.covering = st.covering
      /\ mid.tag = st.tag /\ mid.cacheSize = st.cacheSize /\ mid.lowFirst = st.lowFirst
  BY <1>1, TableLater
<1>3. su = [mid EXCEPT !.value[v].self_bdd = done.res]
  <2>1. st \in States
    BY DEF STyped
  <2> QED
    BY <2>1 DEF Own, u, States
<1> HIDE DEF mid, su
<1>4. /\ SLater(mid, su) /\ su.t = mid.t /\ su.covering = mid.covering
      /\ su.value = WithSelf(mid.value, v, done.res)
      /\ su.tag = mid.tag /\ su.cacheSize = mid.cacheSize /\ su.lowFirst = mid.lowFirst
  BY <1>2, <1>3, SelfLater DEF SLater
<1>5. SLater(st, su)
  BY <1>2, <1>4, SLaterTransitive
<1> QED
  BY <1>2, <1>4, <1>5 DEF su, u, Owned

\* MTBDD_setself_bdd and the references it moves.
LEMMA SetSelfLater ==
  ASSUME NEW st, STyped(st), NEW v, NEW b, NEW op \in Ops
  PROVE  LET su == SetSelf(st, v, b, op)
         IN  /\ SLater(st, su) /\ Len(su.value) = Len(st.value) /\ su.covering = st.covering
             /\ su.tag = st.tag /\ su.cacheSize = st.cacheSize /\ su.lowFirst = st.lowFirst
<1> DEFINE old == st.value[v].self_bdd
           u == DelRef(st.t, old)
           done == Apply(u, old, b, op)
           su == SetSelf(st, v, b, op)
<1>1. Later(st.t, u)
  BY RefLater DEF STyped
<1>2. Later(u, done.t) /\ done.res \in Nat
  BY <1>1, ApplyLater DEF Later
<1>3. Later(st.t, done.t)
  BY <1>1, <1>2, LaterTransitive
<1>4. su = Own(st, v, done)
  BY DEF SetSelf
<1> HIDE DEF done, su
<1>5. /\ SLater(st, su) /\ su.value = WithSelf(st.value, v, done.res)
      /\ su.covering = st.covering
      /\ su.tag = st.tag /\ su.cacheSize = st.cacheSize /\ su.lowFirst = st.lowFirst
  <2>1. Owned(st, v, done, su)
    BY <1>2, <1>3, <1>4, OwnLater
  <2> QED
    BY <2>1 DEF Owned
<1>6. Len(su.value) = Len(st.value)
  BY <1>2, <1>5, SFields, SelfOfValues DEF OtherSelf
<1> QED
  BY <1>5, <1>6 DEF su

\* A result of the kernel in the state.
LEMMA InStateLater ==
  ASSUME NEW st, STyped(st), NEW done, Later(st.t, done.t), done.res \in Nat
  PROVE  LET made == InState(st, done)
         IN  /\ SLater(st, made.s) /\ made.res = done.res /\ made.s.t = done.t
             /\ made.s.value = st.value /\ made.s.covering = st.covering
             /\ made.s.tag = st.tag /\ made.s.cacheSize = st.cacheSize
             /\ made.s.lowFirst = st.lowFirst
<1> DEFINE u == done.t
           su == [st EXCEPT !.t = u]
<1>1. InState(st, done) = [s |-> su, res |-> done.res]
  BY DEF InState
<1>2. /\ SLater(st, su) /\ su.t = u /\ su.value = st.value /\ su.covering = st.covering
      /\ su.tag = st.tag /\ su.cacheSize = st.cacheSize /\ su.lowFirst = st.lowFirst
  <2> HIDE DEF u, su
  <2>1. Later(st.t, u)
    BY DEF u
  <2> QED
    BY <2>1, TableLater DEF su
<1> HIDE DEF su
<1> QED
  BY <1>1, <1>2

\* The terminal of a value node.
LEMMA TerminalLater ==
  ASSUME NEW st, STyped(st), NEW v, v - 1 \in Nat
  PROVE  LET made == Terminal(st, v)
         IN  /\ SLater(st, made.s) /\ made.res \in Nat
             /\ made.s.t = MakeNode(st.t, 0, 2, v - 1).t
             /\ made.res = MakeNode(st.t, 0, 2, v - 1).res
             /\ made.s.value = st.value /\ made.s.covering = st.covering
             /\ made.s.tag = st.tag /\ made.s.cacheSize = st.cacheSize
             /\ made.s.lowFirst = st.lowFirst
<1> DEFINE done == MakeNode(st.t, 0, 2, v - 1)
<1>1. Later(st.t, done.t) /\ done.res \in Nat
  <2>1. 0 \in 0 .. VarNum /\ 2 \in Nat /\ Typed(st.t)
    BY SizeAssumption DEF STyped
  <2> QED
    BY <2>1, MakeNodeLater
<1>2. Terminal(st, v) = InState(st, done)
  BY DEF Terminal
<1> HIDE DEF done
<1> QED
  BY <1>1, <1>2, InStateLater DEF done

\* The value nodes with a new one.
WithPair(value, pair, self) == Append(value, [rule_pair |-> pair, self_bdd |-> self])

\* The state with a new value node, before its terminal is made.
Enters(st, pair, self, su) ==
  /\ SLater(st, su) /\ su.t = AddRef(st.t, self)
  /\ su.value = WithPair(st.value, pair, self) /\ Len(su.value) = Len(st.value) + 1

\* What NewValue makes.
Entered(st, pair, self, made) ==
  \/ made.s.t.stopped /\ Len(made.s.value) = MaxValues
  \/ \E su : Enters(st, pair, self, su) /\ made = Terminal(su, Len(st.value) + 1)

\* A new value node, for a pair that has none.
LEMMA NewValueLater ==
  ASSUME NEW st, STyped(st), NEW pair \in Rules \X (Rules \union {NULL}), NEW self \in Nat,
         \A v \in DOMAIN st.value : st.value[v].rule_pair # pair,
         st.value = <<>> => pair[2] = NULL
  PROVE  LET made == NewValue(st, pair, self)
         IN  /\ SLater(st, made.s) /\ made.res \in Nat
             /\ Entered(st, pair, self, made)
<1> DEFINE made == NewValue(st, pair, self)
           new == [rule_pair |-> pair, self_bdd |-> self]
           value == Append(st.value, new)
           u == AddRef(st.t, self)
           su == [st EXCEPT !.t = u, !.value = value]
<1> SUFFICES SLater(st, made.s) /\ made.res \in Nat /\ Entered(st, pair, self, made)
  OBVIOUS
<1>1. /\ st \in States /\ st.t \in Tables /\ Typed(st.t) /\ Len(st.value) <= MaxValues
      /\ st.value \in Seq(ValueNodes) /\ Len(st.value) \in Nat /\ MaxValues \in Nat
      /\ DOMAIN st.value = 1 .. Len(st.value) /\ Distinct(st.value)
  BY SFields DEF STyped
<1>2. CASE Len(st.value) = MaxValues
  <2> DEFINE v == [st.t EXCEPT !.stopped = TRUE]
             sv == [st EXCEPT !.t = v]
  <2>1. made = [s |-> sv, res |-> 0]
    BY <1>2 DEF NewValue
  <2>2. Later(st.t, v)
    BY <1>1, StopLater
  <2>3. v.stopped
    BY <1>1 DEF Tables
  <2> HIDE DEF v, made
  <2>4. SLater(st, sv) /\ sv.t = v /\ sv.value = st.value
    BY <2>2, TableLater
  <2> HIDE DEF sv
  <2>5. SLater(st, made.s) /\ made.res \in Nat
    BY <2>1, <2>4
  <2>6. made.s.t.stopped /\ Len(made.s.value) = MaxValues
    BY <1>2, <2>1, <2>3, <2>4
  <2> QED
    BY <2>5, <2>6 DEF Entered
<1>3. CASE Len(st.value) # MaxValues
  <2>1. made = Terminal(su, Len(st.value) + 1)
    BY <1>1, <1>3 DEF NewValue, States
  <2>2. Later(st.t, u)
    BY <1>1, RefLater
  <2>3. new \in ValueNodes
    BY DEF ValueNodes
  <2>4. new.rule_pair = pair
    OBVIOUS
  <2> HIDE DEF new, made
  <2>5. /\ value \in Seq(ValueNodes) /\ Len(value) = Len(st.value) + 1
        /\ DOMAIN value = 1 .. Len(st.value) + 1
        /\ \A w \in DOMAIN st.value : value[w] = st.value[w] /\ w # Len(st.value) + 1
        /\ value[Len(st.value) + 1] = new
        /\ \A w \in DOMAIN value : w \in DOMAIN st.value \/ w = Len(st.value) + 1
    BY <1>1, <2>3
  <2> HIDE DEF value
  <2>6. Distinct(value)
    <3>1. ASSUME NEW v \in DOMAIN value, NEW w \in DOMAIN value,
                 value[v].rule_pair = value[w].rule_pair
          PROVE  v = w
      BY <1>1, <2>4, <2>5, <3>1 DEF Distinct
    <3>2. ASSUME 1 \in DOMAIN value PROVE value[1].rule_pair[2] = NULL
      <4>1. CASE 1 \in DOMAIN st.value
        BY <1>1, <2>5, <4>1 DEF Distinct
      <4>2. CASE 1 \notin DOMAIN st.value
        <5>1. Len(st.value) = 0
          BY <1>1, <4>2
        <5>2. st.value = <<>> /\ Len(st.value) + 1 = 1
          BY <1>1, <5>1
        <5> QED
          BY <2>4, <2>5, <5>2
      <4> QED
        BY <4>1, <4>2
    <3> QED
      BY <3>1, <3>2 DEF Distinct
  <2> HIDE DEF u
  <2>7. su \in States /\ su.t = u /\ su.value = value
    BY <1>1, <2>2, <2>5 DEF States, ValueNodes, Later, Typed
  <2> HIDE DEF su
  <2>8. SLater(st, su)
    BY <1>1, <1>3, <2>2, <2>5, <2>6, <2>7 DEF SLater, STyped, Later
  <2>9. SLater(su, made.s) /\ made.res \in Nat
    <3>1. (Len(st.value) + 1) - 1 \in Nat /\ STyped(su)
      BY <1>1, <2>8 DEF SLater
    <3> QED
      BY <2>1, <3>1, TerminalLater
  <2>10. SLater(st, made.s)
    BY <2>8, <2>9, SLaterTransitive
  <2>11. Enters(st, pair, self, su)
    BY <2>5, <2>7, <2>8 DEF Enters, WithPair, u, value, new
  <2> QED
    BY <2>1, <2>9, <2>10, <2>11 DEF Entered
<1> QED
  BY <1>2, <1>3

\* The value node that the search finds, or a new one.
LEMMA JoinValueLater ==
  ASSUME NEW st, STyped(st), NEW high \in Rules, NEW low \in Rules, NEW insc \in Nat,
         st.value # <<>>
  PROVE  LET made == JoinValue(st, <<high, low>>, insc)
         IN  SLater(st, made.s) /\ made.res \in Nat
<1> DEFINE pair == <<high, low>>
           made == JoinValue(st, pair, insc)
<1> SUFFICES SLater(st, made.s) /\ made.res \in Nat
  OBVIOUS
<1>1. /\ pair \in Rules \X (Rules \union {NULL}) /\ pair[2] = low /\ low # NULL
      /\ Distinct(st.value)
  BY SFields DEF STyped
<1>2. CASE FindValue(st, pair) = {}
  <2>1. made = NewValue(st, pair, insc)
    BY <1>2 DEF JoinValue
  <2>2. \A v \in DOMAIN st.value : st.value[v].rule_pair # pair
    BY <1>1, <1>2 DEF FindValue, Distinct
  <2> HIDE DEF made, pair
  <2> QED
    BY <1>1, <2>1, <2>2, NewValueLater
<1>3. CASE FindValue(st, pair) # {}
  <2> DEFINE v == CHOOSE w \in FindValue(st, pair) : TRUE
             su == SetSelf(st, v, insc, "or")
  <2>1. made = Terminal(su, v)
    BY <1>3 DEF JoinValue
  <2>2. v \in FindValue(st, pair)
    BY <1>3
  <2> HIDE DEF v
  <2>2a. v \in DOMAIN st.value
    BY <2>2 DEF FindValue
  <2>3. v \in DOMAIN st.value /\ v - 1 \in Nat
    BY <2>2a, SFields
  <2> HIDE DEF v, made, su
  <2>4. SLater(st, su)
    BY SetSelfLater DEF su, Ops
  <2>5. SLater(su, made.s) /\ made.res \in Nat
    BY <2>1, <2>3, <2>4, TerminalLater DEF SLater
  <2> QED
    BY <2>4, <2>5, SLaterTransitive
<1> QED
  BY <1>2, <1>3

\* A table with other entries of applycache or misccache.
OtherEntries(t, u) ==
  /\ u.size = t.size /\ u.node = t.node /\ u.free = t.free /\ u.stack = t.stack
  /\ u.cache = t.cache /\ u.collected = t.collected
  /\ u.stopped = t.stopped /\ u.wild = t.wild

\* ... and what it is.
WithEntries(t, memo, misc) == [t EXCEPT !.memo = memo, !.misc = misc]

\* A cache is written.
LEMMA EntriesLater ==
  ASSUME NEW t, Typed(t), NEW memo \in SUBSET [a : Nat, b : Nat, c : Nat, res : Nat],
         NEW misc \in SUBSET [a : Nat, b : Nat, c : Nat]
  PROVE  LET u == WithEntries(t, memo, misc)
         IN  /\ Later(t, u) /\ u.memo = memo /\ u.misc = misc /\ OtherEntries(t, u)
<1> DEFINE u == WithEntries(t, memo, misc)
<1>1. t \in Tables
  BY DEF Typed
<1>2. /\ u \in Tables /\ u.memo = memo /\ u.misc = misc
      /\ u.size = t.size /\ u.node = t.node /\ u.free = t.free /\ u.stack = t.stack
      /\ u.cache = t.cache /\ u.collected = t.collected
      /\ u.stopped = t.stopped /\ u.wild = t.wild
  BY <1>1 DEF Tables, WithEntries
<1> HIDE DEF u
<1>3. Later(t, u)
  BY <1>2 DEF Later, Typed
<1> QED
  BY <1>2, <1>3 DEF u, OtherEntries

\* The covered rules are joined.
LEMMA SetCoveringLater ==
  ASSUME NEW st, STyped(st), NEW high \in Rules, NEW low \in Rules, NEW set \in SUBSET Rules
  PROVE  LET su == SetCovering(st, high, low, set)
         IN  /\ SLater(st, su) /\ su.value = st.value
             /\ OtherEntries(st.t, su.t) /\ su.t.memo = st.t.memo
<1> DEFINE e == [a |-> high, b |-> low, c |-> st.tag]
           misc == Store(st, st.t.misc, e)
           u == WithEntries(st.t, st.t.memo, misc)
           covering == [st.covering EXCEPT ![high] = set]
           su == SetCovering(st, high, low, set)
<1> SUFFICES /\ SLater(st, su) /\ su.value = st.value
             /\ OtherEntries(st.t, su.t) /\ su.t.memo = st.t.memo
  OBVIOUS
<1>1. /\ st \in States /\ st.t \in Tables /\ Typed(st.t) /\ Rules \subseteq Nat
      /\ st.covering \in [Rules -> SUBSET Rules] /\ st.tag \in Nat /\ Len(st.value) \in Nat
  BY SFields DEF STyped
<1>2. st.t.misc \in SUBSET [a : Nat, b : Nat, c : Nat]
      /\ st.t.memo \in SUBSET [a : Nat, b : Nat, c : Nat, res : Nat]
  BY <1>1 DEF Tables
<1>3. CASE e \in st.t.misc
  <2>1. su = st
    BY <1>3 DEF SetCovering
  <2>2. OtherEntries(st.t, st.t)
    BY DEF OtherEntries
  <2>3. SLater(st, st)
    BY <1>1 DEF SLater, Later
  <2> HIDE DEF su
  <2> QED
    BY <2>1, <2>2, <2>3
<1>4. CASE e \notin st.t.misc
  <2>1. misc \in SUBSET [a : Nat, b : Nat, c : Nat]
    BY <1>1, <1>2 DEF Store
  <2>2. Later(st.t, u) /\ OtherEntries(st.t, u) /\ u.memo = st.t.memo
    <3> HIDE DEF misc
    <3> QED
      BY <1>1, <1>2, <2>1, EntriesLater
  <2>3. covering \in [Rules -> SUBSET Rules]
    BY <1>1
  <2>4. u = [st.t EXCEPT !.misc = misc]
    <3> HIDE DEF misc
    <3> QED
      BY <1>1 DEF Tables, WithEntries
  <2>5. su = [st EXCEPT !.covering[high] = set, !.t.misc = misc]
    BY <1>4 DEF SetCovering
  <2>6. su = [st EXCEPT !.t = u, !.covering = covering]
    <3> HIDE DEF misc, su
    <3> QED
      BY <1>1, <2>4, <2>5 DEF States
  <2>7. u \in Tables
    BY <2>2 DEF Later, Typed
  <2> HIDE DEF u, covering
  <2>8. su \in States /\ su.t = u /\ su.value = st.value
    <3> HIDE DEF su
    <3> QED
      BY <1>1, <2>3, <2>6, <2>7 DEF States
  <2> HIDE DEF su
  <2>9. SLater(st, su)
    BY <1>1, <2>2, <2>8 DEF SLater, STyped, Later
  <2> QED
    BY <2>2, <2>8, <2>9
<1> QED
  BY <1>3, <1>4

\* Two value nodes are joined into one.
LEMMA JoinLater ==
  ASSUME NEW st, STyped(st), st.value # <<>>, NEW v1, NEW v2,
         NEW high \in Rules, NEW low \in Rules,
         NEW insc, Later(st.t, insc.t), insc.res \in Nat
  PROVE  LET made == Join(st, v1, v2, <<high, low>>, insc)
         IN  SLater(st, made.s) /\ made.res \in Nat
<1> DEFINE a == [st EXCEPT !.t = insc.t]
           b == SetSelf(a, v2, insc.res, "diff")
           c == SetSelf(b, v1, insc.res, "diff")
           made == JoinValue(c, <<high, low>>, insc.res)
<1> SUFFICES SLater(st, made.s) /\ made.res \in Nat
  BY DEF Join
<1>1. "diff" \in Ops
  BY DEF Ops
<1>2. SLater(st, a) /\ a.value = st.value
  BY TableLater
<1> HIDE DEF a
<1>3. SLater(a, b) /\ Len(b.value) = Len(a.value)
  BY <1>1, <1>2, SetSelfLater DEF SLater
<1> HIDE DEF b
<1>4. SLater(b, c) /\ Len(c.value) = Len(b.value)
  BY <1>1, <1>3, SetSelfLater DEF SLater
<1> HIDE DEF c
<1>5. c.value # <<>>
  <2>1. c.value \in Seq(ValueNodes) /\ st.value \in Seq(ValueNodes)
    BY <1>4, SFields DEF SLater
  <2>2. Len(c.value) = Len(st.value)
    BY <1>2, <1>3, <1>4
  <2> QED
    BY <2>1, <2>2
<1>6. SLater(c, made.s) /\ made.res \in Nat
  BY <1>4, <1>5, JoinValueLater DEF SLater
<1> HIDE DEF made
<1> QED
  BY <1>2, <1>3, <1>4, <1>6, SLaterTransitive DEF SLater

\* Two terminals of value nodes.
LEMMA AddTnodeLater ==
  ASSUME NEW st, STyped(st), NEW n1 \in Nat, NEW n2 \in Nat,
         At(st, n1) \in DOMAIN st.value, At(st, n2) \in DOMAIN st.value
  PROVE  LET made == AddTnode(st, n1, n2)
         IN  SLater(st, made.s) /\ made.res \in Nat
<1> DEFINE Rule1(n) == st.value[At(st, n)].rule_pair[1]
           nh   == IF Rule1(n1) <= Rule1(n2) THEN n1 ELSE n2
           nl   == IF nh = n1 THEN n2 ELSE n1
           high == Rule1(nh)
           low  == Rule1(nl)
           next == st.value[At(st, nh)].rule_pair[2]
           Self(n) == st.value[At(st, n)].self_bdd
           set  == st.covering[high] \union {low}
           cov  == SetCovering(st, high, low, set)
           insc == Apply(cov.t, Self(n2), Self(n1), "and")
           made == AddTnode(st, n1, n2)
<1> SUFFICES SLater(st, made.s) /\ made.res \in Nat
  OBVIOUS
<1>0. made = IF n1 = n2 THEN [s |-> st, res |-> n1]
             ELSE IF next = NULL \/ next > low
               THEN Join(cov, At(st, n1), At(st, n2), <<high, low>>, insc)
             ELSE [s |-> SetSelf(cov, At(st, nl), Self(nh), "diff"), res |-> nh]
  BY DEF AddTnode
<1>1. /\ {"and", "diff"} \subseteq Ops
      /\ st.covering \in [Rules -> SUBSET Rules] /\ Typed(st.t) /\ Len(st.value) \in Nat
      /\ Rule1(n1) \in Rules /\ Rule1(n2) \in Rules
  BY SFields DEF Ops
<1>2. nh \in Nat /\ nl \in Nat /\ high \in Rules /\ low \in Rules
  BY <1>1
<1> HIDE DEF made, nh, nl
<1>3. set \in SUBSET Rules
  BY <1>1, <1>2
<1> HIDE DEF high, low, set
<1>4. SLater(st, cov) /\ cov.value = st.value
  BY <1>2, <1>3, SetCoveringLater
<1> HIDE DEF cov
<1>5. cov.value # <<>>
  BY <1>4
<1>6. Later(cov.t, insc.t) /\ insc.res \in Nat
  BY <1>1, <1>4, ApplyLater DEF SLater, Later
<1> HIDE DEF insc
<1>7. CASE n1 = n2
  BY <1>0, <1>1, <1>7 DEF SLater, STyped, Later
<1>8. CASE n1 # n2 /\ (next = NULL \/ next > low)
  <2>1. made = Join(cov, At(st, n1), At(st, n2), <<high, low>>, insc)
    BY <1>0, <1>8
  <2>2. SLater(cov, made.s) /\ made.res \in Nat
    BY <1>2, <1>4, <1>5, <1>6, <2>1, JoinLater DEF SLater
  <2> QED
    BY <1>4, <2>2, SLaterTransitive
<1>9. CASE n1 # n2 /\ ~ (next = NULL \/ next > low)
  <2> DEFINE su == SetSelf(cov, At(st, nl), Self(nh), "diff")
  <2>1. made = [s |-> su, res |-> nh]
    BY <1>0, <1>9
  <2>2. SLater(cov, su)
    BY <1>1, <1>4, SetSelfLater DEF SLater
  <2> HIDE DEF su
  <2>3. SLater(st, su)
    BY <1>4, <2>2, SLaterTransitive
  <2> QED
    BY <1>2, <2>1, <2>3
<1> QED
  BY <1>7, <1>8, <1>9

\* A terminal of the removed rule.
LEMMA RemoveTnodeLater ==
  ASSUME NEW st, STyped(st), NEW n1 \in Nat, NEW n2 \in Nat,
         At(st, n1) \in DOMAIN st.value, At(st, n2) \in DOMAIN st.value
  PROVE  LET made == RemoveTnode(st, n1, n2)
         IN  SLater(st, made.s) /\ made.res \in Nat
<1> DEFINE out  == [st EXCEPT !.value[At(st, n2)].self_bdd = 0]
           rh1  == st.value[At(st, n1)].rule_pair[1]
           rh2  == st.value[At(st, n2)].rule_pair[1]
           cov  == SetCovering(out, rh1, rh2, st.covering[rh1] \ {rh2})
           made == RemoveTnode(st, n1, n2)
<1> SUFFICES SLater(st, made.s) /\ made.res \in Nat
  OBVIOUS
<1>1. made \in {[s |-> out, res |-> 0], [s |-> out, res |-> n1], [s |-> cov, res |-> n1]}
  BY DEF RemoveTnode
<1> HIDE DEF made
<1>2. SLater(st, out)
  <2>1. 0 \in Nat
    OBVIOUS
  <2> QED
    BY <2>1, SelfLater
<1> HIDE DEF out
<1>3. rh1 \in Rules /\ rh2 \in Rules /\ st.covering \in [Rules -> SUBSET Rules]
  BY SFields
<1>4. st.covering[rh1] \ {rh2} \in SUBSET Rules
  BY <1>3
<1> HIDE DEF rh1, rh2
<1>5. SLater(out, cov)
  BY <1>2, <1>3, <1>4, SetCoveringLater DEF SLater
<1> HIDE DEF cov
<1>6. SLater(st, cov)
  BY <1>2, <1>5, SLaterTransitive
<1> QED
  BY <1>1, <1>2, <1>6

\* A state with a node.
Pair(done) == done = [s |-> done.s, res |-> done.res]

\* What done is, with an entry more at most.
Memoized(done, l, r, made) ==
  /\ Pair(made) /\ made.res = done.res
  /\ SLater(done.s, made.s) /\ made.s.value = done.s.value
  /\ OtherEntries(done.s.t, made.s.t)
  /\ \A e \in made.s.t.memo :
       \/ e \in done.s.t.memo
       \/ e.a = l /\ e.b = r /\ e.res = done.res

\* A result is entered in applycache.
LEMMA MemoizeLater ==
  ASSUME NEW done, Pair(done), STyped(done.s), done.res \in Nat,
         NEW l \in Nat, NEW r \in Nat, NEW tag \in Nat
  PROVE  Memoized(done, l, r, Memoize(done, l, r, tag))
<1> DEFINE st == done.s
           res == done.res
           e == [a |-> l, b |-> r, c |-> tag, res |-> res]
           memo == Store(st, st.t.memo, e)
           u == WithEntries(st.t, memo, st.t.misc)
           su == [st EXCEPT !.t = u]
           made == Memoize(done, l, r, tag)
<1> SUFFICES /\ Pair(made) /\ made.res = res
             /\ SLater(st, made.s) /\ made.s.value = st.value
             /\ OtherEntries(st.t, made.s.t)
             /\ \A x \in made.s.t.memo : x \in st.t.memo \/ x = e
  BY DEF Memoized
<1>0. done = [s |-> st, res |-> res] /\ STyped(st)
  BY DEF Pair
<1> HIDE DEF st, res
<1>1. st \in States /\ st.t \in Tables /\ Typed(st.t)
  BY <1>0, SFields DEF STyped
<1>2. /\ st.t.misc \in SUBSET [a : Nat, b : Nat, c : Nat]
      /\ st.t.memo \in SUBSET [a : Nat, b : Nat, c : Nat, res : Nat]
  BY <1>1 DEF Tables
<1>3. memo \in SUBSET [a : Nat, b : Nat, c : Nat, res : Nat]
      /\ memo \in SUBSET (st.t.memo \union {e})
  <2> l \in Nat /\ r \in Nat /\ res \in Nat
    BY DEF res
  <2> QED
    BY <1>2 DEF Store
<1>4. made = [done EXCEPT !.s.t.memo = memo]
  BY DEF Memoize, st, res
<1> HIDE DEF memo, made
<1>5. Later(st.t, u) /\ OtherEntries(st.t, u) /\ u.memo = memo
  BY <1>1, <1>2, <1>3, EntriesLater
<1>6. u = [st.t EXCEPT !.memo = memo]
  BY <1>1 DEF Tables, WithEntries
<1>7. made = [s |-> su, res |-> res]
  BY <1>0, <1>1, <1>4, <1>6 DEF States
<1>8. SLater(st, su) /\ su.t = u /\ su.value = st.value
  <2> HIDE DEF u
  <2> QED
    BY <1>0, <1>5, TableLater
<1> HIDE DEF su
<1> QED
  BY <1>3, <1>5, <1>7, <1>8 DEF Pair

\* A node that is not there is read.
LEMMA WildLater ==
  ASSUME NEW st, STyped(st)
  PROVE  LET made == Wild(st)
         IN  SLater(st, made.s) /\ made.res = 0 /\ made.s.t.wild
<1> DEFINE u == [st.t EXCEPT !.wild = TRUE]
           su == [st EXCEPT !.t = u]
<1>1. Wild(st) = [s |-> su, res |-> 0]
  BY DEF Wild
<1>2. Later(st.t, u) /\ u.wild
  <2>1. st.t \in Tables /\ Typed(st.t)
    BY SFields
  <2> QED
    BY <2>1, StopLater DEF Tables
<1> HIDE DEF u
<1>3. SLater(st, su) /\ su.t = u
  BY <1>2, TableLater
<1> HIDE DEF su
<1> QED
  BY <1>1, <1>2, <1>3

-----------------------------------------------------------------------------
(* The recursion, level by level.                                          *)

\* One layer of RecAt, from the layer below.
RecLayer(below, k) ==
  [c \in RecCalls |->
     IF k = 0 THEN Wild(c.s) ELSE Rec(below, c.s, c.op, c.l, c.r)]

\* The layers up to k.
RecLayers(f, k) == f = [i \in 0 .. k |-> RecLayer(f[i - 1], i)]

\* There is a function with the layers of RecAt, one built on the other.
LEMMA RecLayersExist ==
  ASSUME NEW k \in Nat
  PROVE  \E f : RecLayers(f, k)
<1> DEFINE S == {i \in 0 .. k : \E f : RecLayers(f, i)}
<1>0. \A x, y : RecLayer(x, 0) = RecLayer(y, 0)
  BY DEF RecLayer
<1>1. 0 \in S
  <2> DEFINE f == [j \in 0 .. 0 |-> RecLayer({}, 0)]
  <2>1. \A j \in 0 .. 0 : RecLayer(f[j - 1], j) = RecLayer({}, 0)
    <3>1. \A j \in 0 .. 0 : j = 0
      OBVIOUS
    <3> QED
      BY <1>0, <3>1
  <2>2. f = [j \in 0 .. 0 |-> RecLayer(f[j - 1], j)]
    BY <2>1
  <2> QED
    BY <2>2 DEF RecLayers
<1>2. ASSUME NEW i \in 0 .. k - 1, i \in S PROVE i + 1 \in S
  <2>1. PICK f : RecLayers(f, i)
    BY <1>2
  <2> DEFINE g == [j \in 0 .. i + 1 |-> IF j <= i THEN f[j] ELSE RecLayer(f[i], i + 1)]
  <2>2. f = [j \in 0 .. i |-> RecLayer(f[j - 1], j)]
    BY <2>1 DEF RecLayers
  <2>3. ASSUME NEW j \in 0 .. i + 1 PROVE g[j] = RecLayer(g[j - 1], j)
    <3>1. CASE j = 0
      <4>1. g[0] = f[0] /\ f[0] = RecLayer(f[0 - 1], 0)
        BY <2>2
      <4>2. RecLayer(f[0 - 1], 0) = RecLayer(g[0 - 1], 0)
        BY <1>0
      <4> QED
        BY <3>1, <4>1, <4>2
    <3>2. CASE j \in 1 .. i
      <4>1. g[j - 1] = f[j - 1] /\ g[j] = f[j]
        BY <3>2
      <4>2. f[j] = RecLayer(f[j - 1], j)
        BY <2>2, <3>2
      <4> QED
        BY <4>1, <4>2
    <3>3. CASE j = i + 1
      <4>1. g[j - 1] = f[i] /\ g[j] = RecLayer(f[i], i + 1)
        BY <3>3
      <4> QED
        BY <3>3, <4>1
    <3> QED
      BY <3>1, <3>2, <3>3
  <2>4. g = [j \in 0 .. i + 1 |-> RecLayer(g[j - 1], j)]
    BY <2>3
  <2>5. i + 1 \in 0 .. k
    OBVIOUS
  <2> QED
    BY <2>4, <2>5 DEF RecLayers
<1>3. \A i \in 0 .. k : i \in S
  <2> HIDE DEF S
  <2> QED
    BY <1>1, <1>2, UpTo
<1> QED
  BY <1>3

\* The layers of RecAt.
LEMMA RecAtIs == RecLayers(RecAt, VarNum + 1)
<1>1. VarNum + 1 \in Nat
  BY SizeAssumption
<1>2. \E f : RecLayers(f, VarNum + 1)
  BY <1>1, RecLayersExist
<1>3. RecAt = CHOOSE f : RecLayers(f, VarNum + 1)
  BY Zenon DEF RecAt, RecLayers, RecLayer
<1> QED
  BY <1>2, <1>3

\* A call of a layer.
RunAt(k, st, op, l, r) == RecAt[k][[s |-> st, op |-> op, l |-> l, r |-> r]]

\* A call with k + 1 levels left is the recursion on calls with k.
LEMMA RunAtIs ==
  ASSUME NEW k \in 0 .. VarNum, NEW st \in States, NEW op \in {"add", "remove"},
         NEW l \in Nat, NEW r \in Nat
  PROVE  /\ RunAt(k + 1, st, op, l, r) = Rec(RecAt[k], st, op, l, r)
         /\ RunAt(0, st, op, l, r) = Wild(st)
<1> DEFINE c == [s |-> st, op |-> op, l |-> l, r |-> r]
           Step(below, d) == Rec(below, d.s, d.op, d.l, d.r)
<1>1. k + 1 \in 0 .. VarNum + 1 /\ k + 1 # 0 /\ (k + 1) - 1 = k /\ 0 \in 0 .. VarNum + 1
  BY SizeAssumption
<1>2. RecAt = [i \in 0 .. VarNum + 1 |-> RecLayer(RecAt[i - 1], i)]
  BY RecAtIs DEF RecLayers
<1>3. /\ RecAt[k + 1] = RecLayer(RecAt[k], k + 1)
      /\ RecAt[0] = RecLayer(RecAt[0 - 1], 0)
  BY <1>1, <1>2
<1>4. c \in RecCalls
  BY DEF RecCalls
<1>5. /\ RecLayer(RecAt[k], k + 1)[c] = Step(RecAt[k], c)
      /\ RecLayer(RecAt[0 - 1], 0)[c] = Wild(c.s)
  <2> HIDE DEF c, Step
  <2>1. \A f : \A i \in Nat :
          RecLayer(f, i) = [d \in RecCalls |-> IF i = 0 THEN Wild(d.s) ELSE Step(f, d)]
    BY Zenon DEF RecLayer, Step
  <2> QED
    BY <1>1, <1>4, <2>1
<1>6. Step(RecAt[k], c) = Rec(RecAt[k], st, op, l, r) /\ c.s = st
  BY Zenon DEF c, Step
<1> QED
  BY <1>3, <1>5, <1>6 DEF RunAt

\* What a layer of the recursion owes its caller on any table.
RunLater(k) ==
  \A st : \A op \in {"add", "remove"}, l \in Nat, r \in Nat :
    STyped(st) => LET made == RunAt(k, st, op, l, r)
                  IN  SLater(st, made.s) /\ made.res \in Nat

\* The sons of a node that the recursion reads.
LEMMA SonNumber ==
  ASSUME NEW t, Typed(t), NEW n \in Used(t), NEW level, NEW b
  PROVE  SonAt(t, n, level, b) \in Nat
BY TypedFields DEF SonAt

\* The two calls and bdd_makenode, one after the other.
WalkSteps(k, st, op, l, r) ==
  LET b0 == IF st.lowFirst THEN 0 ELSE 1
      level == TopLevel(st.t, l, r)
      first == RunAt(k, st, op, SonAt(st.t, l, level, b0), SonAt(st.t, r, level, b0))
      second == RunAt(k, first.s, op, SonAt(st.t, l, level, 1 - b0),
                      SonAt(st.t, r, level, 1 - b0))
      low == IF st.lowFirst THEN first.res ELSE second.res
      high == IF st.lowFirst THEN second.res ELSE first.res
      done == MakeNode(second.s.t, level, low, high)
      made == Walk(RecAt[k], st, op, l, r)
  IN  /\ made = InState(second.s, done)
      /\ SLater(st, first.s) /\ SLater(first.s, second.s) /\ SLater(second.s, made.s)
      /\ Later(second.s.t, done.t)
      /\ SLater(st, made.s) /\ made.res \in Nat

\* Each of them goes on from a state of the right type.
LEMMA WalkLater ==
  ASSUME NEW k \in 0 .. VarNum, RunLater(k), NEW st, STyped(st), NEW op \in {"add", "remove"},
         NEW l \in Used(st.t), NEW r \in Used(st.t)
  PROVE  WalkSteps(k, st, op, l, r)
<1> DEFINE b0 == IF st.lowFirst THEN 0 ELSE 1
           level == TopLevel(st.t, l, r)
           l0 == SonAt(st.t, l, level, b0)
           r0 == SonAt(st.t, r, level, b0)
           l1 == SonAt(st.t, l, level, 1 - b0)
           r1 == SonAt(st.t, r, level, 1 - b0)
           first == RunAt(k, st, op, l0, r0)
           second == RunAt(k, first.s, op, l1, r1)
           low == IF st.lowFirst THEN first.res ELSE second.res
           high == IF st.lowFirst THEN second.res ELSE first.res
           done == MakeNode(second.s.t, level, low, high)
           made == Walk(RecAt[k], st, op, l, r)
<1> SUFFICES /\ made = InState(second.s, done)
             /\ SLater(st, first.s) /\ SLater(first.s, second.s) /\ SLater(second.s, made.s)
             /\ Later(second.s.t, done.t)
             /\ SLater(st, made.s) /\ made.res \in Nat
  BY DEF WalkSteps
<1>1. made = InState(second.s, done)
  BY Zenon DEF Walk, RunAt
<1>2. /\ Typed(st.t) /\ l \in Nat /\ r \in Nat /\ level \in 0 .. VarNum
  <2>1. Typed(st.t)
    BY DEF STyped
  <2> QED
    BY <2>1, TypedFields DEF TopLevel
<1>3. l0 \in Nat /\ r0 \in Nat /\ l1 \in Nat /\ r1 \in Nat
  BY <1>2, SonNumber
<1> HIDE DEF made, level, l0, r0, l1, r1
<1>4. SLater(st, first.s) /\ first.res \in Nat
  BY <1>3 DEF RunLater
<1> HIDE DEF first
<1>5. SLater(first.s, second.s) /\ second.res \in Nat
  <2>1. STyped(first.s)
    BY <1>4 DEF SLater
  <2> QED
    BY <1>3, <2>1 DEF RunLater
<1> HIDE DEF second
<1>6. Later(second.s.t, done.t) /\ done.res \in Nat
  <2>1. Typed(second.s.t) /\ low \in Nat /\ high \in Nat
    BY <1>4, <1>5 DEF SLater, STyped
  <2> HIDE DEF low, high
  <2> QED
    BY <1>2, <2>1, MakeNodeLater
<1> HIDE DEF done
<1>7. SLater(second.s, made.s) /\ made.res = done.res
  <2>1. STyped(second.s)
    BY <1>5 DEF SLater
  <2> QED
    BY <1>1, <1>6, <2>1, InStateLater
<1>8. SLater(st, made.s)
  <2>1. SLater(st, second.s)
    BY <1>4, <1>5, SLaterTransitive
  <2> QED
    BY <1>7, <2>1, SLaterTransitive
<1> QED
  BY <1>1, <1>4, <1>5, <1>6, <1>7, <1>8

\* The cases of the recursion.
LEMMA RunCases ==
  ASSUME NEW k \in 0 .. VarNum, NEW st, STyped(st), NEW op \in {"add", "remove"},
         NEW l \in Nat, NEW r \in Nat
  PROVE  LET made == RunAt(k + 1, st, op, l, r)
             tnode == IF op = "add" THEN AddTnode(st, l, r) ELSE RemoveTnode(st, l, r)
         IN  \/ (st.t.stopped \/ st.t.wild) /\ made = [s |-> st, res |-> 0]
             \/ r = 0 /\ made = [s |-> st, res |-> l]
             \/ l = 0 /\ made = [s |-> st, res |-> IF op = "add" THEN r ELSE l]
             \/ /\ r # 0 /\ l # 0 /\ ~ (Intact(st, l) /\ Intact(st, r))
                /\ made = Wild(st)
             \/ \E e \in Known(st, l, r) : made = [s |-> st, res |-> e.res]
             \/ /\ Intact(st, l) /\ Intact(st, r) /\ (~ IsLeaf(st.t, l) \/ ~ IsLeaf(st.t, r))
                /\ made = Memoize(Walk(RecAt[k], st, op, l, r), l, r, st.tag)
             \/ /\ Intact(st, l) /\ Intact(st, r) /\ IsLeaf(st.t, l) /\ IsLeaf(st.t, r)
                /\ made = Memoize(tnode, l, r, st.tag)
<1> DEFINE tnode == IF op = "add" THEN AddTnode(st, l, r) ELSE RemoveTnode(st, l, r)
           walk == Walk(RecAt[k], st, op, l, r)
           known == CHOOSE e \in Known(st, l, r) : TRUE
           made == RunAt(k + 1, st, op, l, r)
<1> SUFFICES \/ (st.t.stopped \/ st.t.wild) /\ made = [s |-> st, res |-> 0]
             \/ r = 0 /\ made = [s |-> st, res |-> l]
             \/ l = 0 /\ made = [s |-> st, res |-> IF op = "add" THEN r ELSE l]
             \/ /\ r # 0 /\ l # 0 /\ ~ (Intact(st, l) /\ Intact(st, r))
                /\ made = Wild(st)
             \/ \E e \in Known(st, l, r) : made = [s |-> st, res |-> e.res]
             \/ /\ Intact(st, l) /\ Intact(st, r) /\ (~ IsLeaf(st.t, l) \/ ~ IsLeaf(st.t, r))
                /\ made = Memoize(walk, l, r, st.tag)
             \/ /\ Intact(st, l) /\ Intact(st, r) /\ IsLeaf(st.t, l) /\ IsLeaf(st.t, r)
                /\ made = Memoize(tnode, l, r, st.tag)
  OBVIOUS
<1>1. made = Rec(RecAt[k], st, op, l, r)
  BY RunAtIs DEF STyped
<1>3. made = IF st.t.stopped \/ st.t.wild THEN [s |-> st, res |-> 0]
             ELSE IF r = 0 THEN [s |-> st, res |-> l]
             ELSE IF l = 0 THEN [s |-> st, res |-> IF op = "add" THEN r ELSE l]
             ELSE IF ~ (Intact(st, l) /\ Intact(st, r)) THEN Wild(st)
             ELSE IF Known(st, l, r) # {} THEN [s |-> st, res |-> known.res]
             ELSE Memoize(IF ~ IsLeaf(st.t, l) \/ ~ IsLeaf(st.t, r) THEN walk ELSE tnode,
                          l, r, st.tag)
  BY <1>1, Zenon DEF Rec
<1>4. Known(st, l, r) # {} => known \in Known(st, l, r)
  OBVIOUS
<1> HIDE DEF made, known, walk, tnode
<1> DEFINE leaves == IF ~ IsLeaf(st.t, l) \/ ~ IsLeaf(st.t, r) THEN walk ELSE tnode
<1>5. /\ ~ IsLeaf(st.t, l) \/ ~ IsLeaf(st.t, r) => leaves = walk
      /\ IsLeaf(st.t, l) /\ IsLeaf(st.t, r) => leaves = tnode
  OBVIOUS
<1>6. \/ (st.t.stopped \/ st.t.wild) /\ made = [s |-> st, res |-> 0]
      \/ r = 0 /\ made = [s |-> st, res |-> l]
      \/ l = 0 /\ made = [s |-> st, res |-> IF op = "add" THEN r ELSE l]
      \/ /\ r # 0 /\ l # 0 /\ ~ (Intact(st, l) /\ Intact(st, r))
         /\ made = Wild(st)
      \/ Known(st, l, r) # {} /\ made = [s |-> st, res |-> known.res]
      \/ /\ Intact(st, l) /\ Intact(st, r)
         /\ made = Memoize(leaves, l, r, st.tag)
  BY <1>3, Zenon
<1> HIDE DEF leaves
<1> QED
  BY <1>4, <1>5, <1>6, Zenon

\* One level of MTBDD_rec and MTBDD_rec_remove.
LEMMA NextRunLater ==
  ASSUME NEW k \in 0 .. VarNum, RunLater(k)
  PROVE  RunLater(k + 1)
<1> SUFFICES ASSUME NEW st, NEW op \in {"add", "remove"}, NEW l \in Nat, NEW r \in Nat, STyped(st)
             PROVE  LET made == RunAt(k + 1, st, op, l, r)
                    IN  SLater(st, made.s) /\ made.res \in Nat
  BY DEF RunLater
<1> DEFINE made == RunAt(k + 1, st, op, l, r)
           tnode == IF op = "add" THEN AddTnode(st, l, r) ELSE RemoveTnode(st, l, r)
           walk == Walk(RecAt[k], st, op, l, r)
<1> SUFFICES SLater(st, made.s) /\ made.res \in Nat
  OBVIOUS
<1>0. SLater(st, st) /\ st.tag \in Nat /\ Typed(st.t)
  BY SFields DEF SLater, Later
<1>1. CASE made \in {[s |-> st, res |-> 0], [s |-> st, res |-> l], [s |-> st, res |-> r]}
  <2> HIDE DEF made
  <2> QED
    BY <1>0, <1>1
<1>2. CASE made = Wild(st)
  BY <1>2, WildLater
<1>3. CASE \E e \in Known(st, l, r) : made = [s |-> st, res |-> e.res]
  <2> HIDE DEF made
  <2>1. PICK e \in Known(st, l, r) : made = [s |-> st, res |-> e.res]
    BY <1>3
  <2>2. e.res \in Nat
    BY <1>0 DEF Known, Typed, Tables
  <2> QED
    BY <1>0, <2>1, <2>2
<1>4. ASSUME NEW in, SLater(st, in.s), in.res \in Nat, Pair(in),
             made = Memoize(in, l, r, st.tag)
      PROVE  SLater(st, made.s) /\ made.res \in Nat
  <2> HIDE DEF made
  <2>1. SLater(in.s, made.s) /\ made.res = in.res
    <3>1. Memoized(in, l, r, made)
      BY <1>0, <1>4, MemoizeLater DEF SLater
    <3> QED
      BY <3>1 DEF Memoized
  <2> QED
    BY <1>4, <2>1, SLaterTransitive
<1>5. CASE /\ Intact(st, l) /\ Intact(st, r)
           /\ ~ IsLeaf(st.t, l) \/ ~ IsLeaf(st.t, r)
           /\ made = Memoize(walk, l, r, st.tag)
  <2>1. l \in Used(st.t) /\ r \in Used(st.t)
    BY <1>5 DEF Intact
  <2>4. WalkSteps(k, st, op, l, r)
    BY Zenon, <2>1, WalkLater
  <2>2. SLater(st, walk.s) /\ walk.res \in Nat
    BY <2>4 DEF WalkSteps
  <2>3. Pair(walk)
    BY DEF Walk, InState, Pair
  <2> HIDE DEF made, walk
  <2> QED
    BY <1>4, <1>5, <2>2, <2>3
<1>6. CASE /\ Intact(st, l) /\ Intact(st, r) /\ IsLeaf(st.t, l) /\ IsLeaf(st.t, r)
           /\ made = Memoize(tnode, l, r, st.tag)
  <2>1. At(st, l) \in DOMAIN st.value /\ At(st, r) \in DOMAIN st.value
    BY <1>6 DEF Intact
  <2>2. SLater(st, tnode.s) /\ tnode.res \in Nat
    BY <2>1, AddTnodeLater, RemoveTnodeLater
  <2>3. Pair(tnode)
    BY DEF Pair, AddTnode, RemoveTnode, Join, JoinValue, NewValue, Terminal, InState
  <2> HIDE DEF made, tnode
  <2> QED
    BY <1>4, <1>6, <2>2, <2>3
<1>7. \/ made \in {[s |-> st, res |-> 0], [s |-> st, res |-> l], [s |-> st, res |-> r]}
      \/ made = Wild(st)
      \/ \E e \in Known(st, l, r) : made = [s |-> st, res |-> e.res]
      \/ /\ Intact(st, l) /\ Intact(st, r)
         /\ ~ IsLeaf(st.t, l) \/ ~ IsLeaf(st.t, r)
         /\ made = Memoize(walk, l, r, st.tag)
      \/ /\ Intact(st, l) /\ Intact(st, r) /\ IsLeaf(st.t, l) /\ IsLeaf(st.t, r)
         /\ made = Memoize(tnode, l, r, st.tag)
  <2>1. \/ (st.t.stopped \/ st.t.wild) /\ made = [s |-> st, res |-> 0]
        \/ r = 0 /\ made = [s |-> st, res |-> l]
        \/ l = 0 /\ made = [s |-> st, res |-> IF op = "add" THEN r ELSE l]
        \/ /\ r # 0 /\ l # 0 /\ ~ (Intact(st, l) /\ Intact(st, r))
           /\ made = Wild(st)
        \/ \E e \in Known(st, l, r) : made = [s |-> st, res |-> e.res]
        \/ /\ Intact(st, l) /\ Intact(st, r) /\ (~ IsLeaf(st.t, l) \/ ~ IsLeaf(st.t, r))
           /\ made = Memoize(walk, l, r, st.tag)
        \/ /\ Intact(st, l) /\ Intact(st, r) /\ IsLeaf(st.t, l) /\ IsLeaf(st.t, r)
           /\ made = Memoize(tnode, l, r, st.tag)
    BY RunCases
  <2> HIDE DEF made, walk, tnode
  <2> QED
    BY <2>1
<1> QED
  BY <1>1, <1>2, <1>3, <1>5, <1>6, <1>7

\* ... to every depth of the recursion.
LEMMA AllRunsLater == \A k \in 0 .. VarNum + 1 : RunLater(k)
<1> DEFINE S == {k \in 0 .. VarNum + 1 : RunLater(k)}
<1>1. VarNum + 1 \in Nat /\ VarNum \in Nat
  BY SizeAssumption
<1>2. RunLater(0)
  <2>1. ASSUME NEW st, STyped(st), NEW op \in {"add", "remove"}, NEW l \in Nat, NEW r \in Nat
        PROVE  LET made == RunAt(0, st, op, l, r)
               IN  SLater(st, made.s) /\ made.res \in Nat
    <3>1. RunAt(0, st, op, l, r) = Wild(st)
      <4>1. 0 \in 0 .. VarNum /\ st \in States
        BY <1>1, <2>1 DEF STyped
      <4> QED
        BY <4>1, RunAtIs
    <3> QED
      BY <2>1, <3>1, WildLater
  <2> QED
    BY <2>1 DEF RunLater
<1>3. 0 \in S
  BY <1>1, <1>2
<1>4. ASSUME NEW i \in 0 .. (VarNum + 1) - 1, i \in S PROVE i + 1 \in S
  <2>1. i \in 0 .. VarNum /\ i + 1 \in 0 .. VarNum + 1
    BY <1>1
  <2> QED
    BY <1>4, <2>1, NextRunLater
<1>5. \A i \in 0 .. VarNum + 1 : i \in S
  <2> HIDE DEF S
  <2> QED
    BY <1>1, <1>3, <1>4, UpTo
<1> QED
  BY <1>1, <1>5

-----------------------------------------------------------------------------
(* bdd_to_mtbdd and mf2bdd, level by level.                                *)

\* One layer of ConvertAt, from the layer below.
ConvertLayer(below, k) ==
  [c \in ConvertCalls |->
     IF k = 0 THEN [t |-> [c.t EXCEPT !.wild = TRUE], res |-> 0]
     ELSE Convert(below, c.t, c.l, c.tnode)]

\* The layers up to k.
ConvertLayers(f, k) == f = [i \in 0 .. k |-> ConvertLayer(f[i - 1], i)]

\* There is a function with the layers of ConvertAt, one built on the other.
LEMMA ConvertLayersExist ==
  ASSUME NEW k \in Nat
  PROVE  \E f : ConvertLayers(f, k)
<1> DEFINE S == {i \in 0 .. k : \E f : ConvertLayers(f, i)}
<1>0. \A x, y : ConvertLayer(x, 0) = ConvertLayer(y, 0)
  BY DEF ConvertLayer
<1>1. 0 \in S
  <2> DEFINE f == [j \in 0 .. 0 |-> ConvertLayer({}, 0)]
  <2>1. \A j \in 0 .. 0 : ConvertLayer(f[j - 1], j) = ConvertLayer({}, 0)
    <3>1. \A j \in 0 .. 0 : j = 0
      OBVIOUS
    <3> QED
      BY <1>0, <3>1
  <2>2. f = [j \in 0 .. 0 |-> ConvertLayer(f[j - 1], j)]
    BY <2>1
  <2> QED
    BY <2>2 DEF ConvertLayers
<1>2. ASSUME NEW i \in 0 .. k - 1, i \in S PROVE i + 1 \in S
  <2>1. PICK f : ConvertLayers(f, i)
    BY <1>2
  <2> DEFINE g == [j \in 0 .. i + 1 |-> IF j <= i THEN f[j] ELSE ConvertLayer(f[i], i + 1)]
  <2>2. f = [j \in 0 .. i |-> ConvertLayer(f[j - 1], j)]
    BY <2>1 DEF ConvertLayers
  <2>3. ASSUME NEW j \in 0 .. i + 1 PROVE g[j] = ConvertLayer(g[j - 1], j)
    <3>1. CASE j = 0
      <4>1. g[0] = f[0] /\ f[0] = ConvertLayer(f[0 - 1], 0)
        BY <2>2
      <4>2. ConvertLayer(f[0 - 1], 0) = ConvertLayer(g[0 - 1], 0)
        BY <1>0
      <4> QED
        BY <3>1, <4>1, <4>2
    <3>2. CASE j \in 1 .. i
      <4>1. g[j - 1] = f[j - 1] /\ g[j] = f[j]
        BY <3>2
      <4>2. f[j] = ConvertLayer(f[j - 1], j)
        BY <2>2, <3>2
      <4> QED
        BY <4>1, <4>2
    <3>3. CASE j = i + 1
      <4>1. g[j - 1] = f[i] /\ g[j] = ConvertLayer(f[i], i + 1)
        BY <3>3
      <4> QED
        BY <3>3, <4>1
    <3> QED
      BY <3>1, <3>2, <3>3
  <2>4. g = [j \in 0 .. i + 1 |-> ConvertLayer(g[j - 1], j)]
    BY <2>3
  <2>5. i + 1 \in 0 .. k
    OBVIOUS
  <2> QED
    BY <2>4, <2>5 DEF ConvertLayers
<1>3. \A i \in 0 .. k : i \in S
  <2> HIDE DEF S
  <2> QED
    BY <1>1, <1>2, UpTo
<1> QED
  BY <1>3

\* The layers of ConvertAt.
LEMMA ConvertAtIs == ConvertLayers(ConvertAt, VarNum + 1)
<1>1. VarNum + 1 \in Nat
  BY SizeAssumption
<1>2. \E f : ConvertLayers(f, VarNum + 1)
  BY <1>1, ConvertLayersExist
<1>3. ConvertAt = CHOOSE f : ConvertLayers(f, VarNum + 1)
  BY Zenon DEF ConvertAt, ConvertLayers, ConvertLayer
<1> QED
  BY <1>2, <1>3

\* A call of a layer.
ConvertRun(k, t, l, tnode) == ConvertAt[k][[t |-> t, l |-> l, tnode |-> tnode]]

\* A call with k + 1 levels left is bdd_to_mtbdd on calls with k.
LEMMA ConvertRunIs ==
  ASSUME NEW k \in 0 .. VarNum, NEW t \in Tables, NEW l \in Nat, NEW tnode \in Nat
  PROVE  /\ ConvertRun(k + 1, t, l, tnode) = Convert(ConvertAt[k], t, l, tnode)
         /\ ConvertRun(0, t, l, tnode) = [t |-> [t EXCEPT !.wild = TRUE], res |-> 0]
<1> DEFINE c == [t |-> t, l |-> l, tnode |-> tnode]
           Step(below, d) == Convert(below, d.t, d.l, d.tnode)
           None(d) == [t |-> [d.t EXCEPT !.wild = TRUE], res |-> 0]
<1>1. k + 1 \in 0 .. VarNum + 1 /\ k + 1 # 0 /\ (k + 1) - 1 = k /\ 0 \in 0 .. VarNum + 1
  BY SizeAssumption
<1>2. ConvertAt = [i \in 0 .. VarNum + 1 |-> ConvertLayer(ConvertAt[i - 1], i)]
  BY ConvertAtIs DEF ConvertLayers
<1>3. /\ ConvertAt[k + 1] = ConvertLayer(ConvertAt[k], k + 1)
      /\ ConvertAt[0] = ConvertLayer(ConvertAt[0 - 1], 0)
  BY <1>1, <1>2
<1>4. c \in ConvertCalls
  BY DEF ConvertCalls
<1>5. /\ ConvertLayer(ConvertAt[k], k + 1)[c] = Step(ConvertAt[k], c)
      /\ ConvertLayer(ConvertAt[0 - 1], 0)[c] = None(c)
  <2> HIDE DEF c, Step, None
  <2>1. \A f : \A i \in Nat :
          ConvertLayer(f, i) = [d \in ConvertCalls |-> IF i = 0 THEN None(d) ELSE Step(f, d)]
    BY Zenon DEF ConvertLayer, Step, None
  <2> QED
    BY <1>1, <1>4, <2>1
<1>6. Step(ConvertAt[k], c) = Convert(ConvertAt[k], t, l, tnode)
  BY Zenon DEF c, Step
<1>7. None(c) = [t |-> [t EXCEPT !.wild = TRUE], res |-> 0]
  OBVIOUS
<1> HIDE DEF Step, None
<1> QED
  BY <1>3, <1>5, <1>6, <1>7 DEF ConvertRun

\* What a layer of the conversion owes its caller on any table.
ConvertLater(k) ==
  \A t : \A l \in Nat, tnode \in Nat :
    Typed(t) => LET done == ConvertRun(k, t, l, tnode)
                IN  Later(t, done.t) /\ done.res \in Nat

\* The two calls and bdd_makenode, one after the other.
LEMMA ConvertChain ==
  ASSUME NEW k \in 0 .. VarNum, ConvertLater(k), NEW t, Typed(t), NEW l \in Used(t),
         NEW tnode \in Nat
  PROVE  LET low == ConvertRun(k, t, t.node[l].low, tnode)
             high == ConvertRun(k, low.t, t.node[l].high, tnode)
             done == MakeNode(high.t, t.node[l].level, low.res, high.res)
         IN  /\ Later(t, low.t) /\ Later(low.t, high.t) /\ Later(high.t, done.t)
             /\ Later(t, done.t) /\ done.res \in Nat
<1> DEFINE low == ConvertRun(k, t, t.node[l].low, tnode)
           high == ConvertRun(k, low.t, t.node[l].high, tnode)
           done == MakeNode(high.t, t.node[l].level, low.res, high.res)
<1> SUFFICES /\ Later(t, low.t) /\ Later(low.t, high.t) /\ Later(high.t, done.t)
             /\ Later(t, done.t) /\ done.res \in Nat
  OBVIOUS
<1>1. t.node[l].low \in Nat /\ t.node[l].high \in Nat /\ t.node[l].level \in 0 .. VarNum
  BY TypedFields
<1>2. Later(t, low.t) /\ low.res \in Nat
  BY <1>1 DEF ConvertLater
<1> HIDE DEF low
<1>3. Later(low.t, high.t) /\ high.res \in Nat
  BY <1>1, <1>2 DEF ConvertLater, Later
<1> HIDE DEF high
<1>4. Later(high.t, done.t) /\ done.res \in Nat
  BY <1>1, <1>2, <1>3, MakeNodeLater DEF Later
<1> HIDE DEF done
<1> QED
  BY <1>2, <1>3, <1>4, LaterTransitive

\* The cases of bdd_to_mtbdd.
LEMMA ConvertCases ==
  ASSUME NEW k \in 0 .. VarNum, NEW t \in Tables, NEW l \in Nat, NEW tnode \in Nat
  PROVE  LET done == ConvertRun(k + 1, t, l, tnode)
             low == ConvertRun(k, t, t.node[l].low, tnode)
             high == ConvertRun(k, low.t, t.node[l].high, tnode)
         IN  \/ (l = 0 \/ t.stopped \/ t.wild) /\ done = [t |-> t, res |-> 0]
             \/ l \notin Used(t) /\ done = [t |-> [t EXCEPT !.wild = TRUE], res |-> 0]
             \/ l = 1 /\ l \in Used(t) /\ done = [t |-> t, res |-> tnode]
             \/ /\ l # 0 /\ l # 1 /\ l \in Used(t)
                /\ done = MakeNode(high.t, t.node[l].level, low.res, high.res)
<1>1. ConvertRun(k + 1, t, l, tnode) = Convert(ConvertAt[k], t, l, tnode)
  BY ConvertRunIs
<1> QED
  BY <1>1, Zenon DEF Convert, ConvertRun

\* One level of the conversion of a BDD into an MTBDD.
LEMMA NextConvertLater ==
  ASSUME NEW k \in 0 .. VarNum, ConvertLater(k)
  PROVE  ConvertLater(k + 1)
<1> SUFFICES ASSUME NEW t, NEW l \in Nat, NEW tnode \in Nat, Typed(t)
             PROVE  LET done == ConvertRun(k + 1, t, l, tnode)
                    IN  Later(t, done.t) /\ done.res \in Nat
  BY DEF ConvertLater
<1> DEFINE done == ConvertRun(k + 1, t, l, tnode)
           low == ConvertRun(k, t, t.node[l].low, tnode)
           high == ConvertRun(k, low.t, t.node[l].high, tnode)
           made == MakeNode(high.t, t.node[l].level, low.res, high.res)
           wild == [t EXCEPT !.wild = TRUE]
<1> SUFFICES Later(t, done.t) /\ done.res \in Nat
  OBVIOUS
<1>1. t \in Tables /\ Later(t, t) /\ Later(t, wild)
  BY StopLater DEF Typed, Later
<1>2. \/ done = [t |-> t, res |-> 0]
      \/ done = [t |-> wild, res |-> 0]
      \/ done = [t |-> t, res |-> tnode]
      \/ l \in Used(t) /\ done = made
  BY <1>1, ConvertCases
<1>3. l \in Used(t) => Later(t, made.t) /\ made.res \in Nat
  BY ConvertChain
<1> HIDE DEF done, made, wild
<1> QED
  BY <1>1, <1>2, <1>3

\* ... to every depth of the recursion.
LEMMA AllConvertsLater == \A k \in 0 .. VarNum + 1 : ConvertLater(k)
<1> DEFINE S == {k \in 0 .. VarNum + 1 : ConvertLater(k)}
<1>1. VarNum + 1 \in Nat /\ VarNum \in Nat /\ 0 \in 0 .. VarNum
  BY SizeAssumption
<1>2. ConvertLater(0)
  <2>1. ASSUME NEW t, Typed(t), NEW l \in Nat, NEW tnode \in Nat
        PROVE  LET done == ConvertRun(0, t, l, tnode)
               IN  Later(t, done.t) /\ done.res \in Nat
    <3> DEFINE wild == [t EXCEPT !.wild = TRUE]
    <3>1. ConvertRun(0, t, l, tnode) = [t |-> wild, res |-> 0]
      BY <1>1, <2>1, ConvertRunIs DEF Typed
    <3>2. Later(t, wild)
      BY <2>1, StopLater
    <3> HIDE DEF wild
    <3> QED
      BY <3>1, <3>2
  <2> QED
    BY <2>1 DEF ConvertLater
<1>3. 0 \in S
  BY <1>1, <1>2
<1>4. ASSUME NEW i \in 0 .. (VarNum + 1) - 1, i \in S PROVE i + 1 \in S
  <2>1. i \in 0 .. VarNum /\ i + 1 \in 0 .. VarNum + 1
    BY <1>1
  <2> QED
    BY <1>4, <2>1, NextConvertLater
<1>5. \A i \in 0 .. VarNum + 1 : i \in S
  <2> HIDE DEF S
  <2> QED
    BY <1>1, <1>3, <1>4, UpTo
<1> QED
  BY <1>1, <1>5

\* BDD2MTBDD, from the first level.
LEMMA ToMtbddLater ==
  ASSUME NEW t, Typed(t), NEW l \in Nat, NEW tnode \in Nat
  PROVE  LET done == ToMtbdd(t, l, tnode)
         IN  Later(t, done.t) /\ done.res \in Nat
<1>1. ToMtbdd(t, l, tnode) = ConvertRun(VarNum + 1, t, l, tnode)
  BY DEF ToMtbdd, ConvertRun
<1>2. VarNum + 1 \in 0 .. VarNum + 1
  BY SizeAssumption
<1> QED
  BY <1>1, <1>2, AllConvertsLater DEF ConvertLater

MatchCalls == [t : Tables, P : SUBSET Headers, S : SUBSET Headers]

\* One iteration of mf2bdd, on the layer below.
MatchStep(below, k, c) ==
  LET level   == VarNum - k
      With(b) == {h \in c.P : Bit(h, level) = b}
      low     == below[[c EXCEPT !.P = With(0)]]
      high    == below[[t |-> low.t, P |-> With(1), S |-> c.S]]
  IN  IF k = 0 THEN [t |-> c.t, res |-> IF c.P \subseteq c.S THEN 1 ELSE 0]
      ELSE MakeNode(high.t, level, low.res, high.res)

\* One layer of MatchAt, from the layer below.
MatchLayer(below, k) == [c \in MatchCalls |-> MatchStep(below, k, c)]

\* The layers up to k.
MatchLayers(f, k) == f = [i \in 0 .. k |-> MatchLayer(f[i - 1], i)]

\* There is a function with the layers of MatchAt, one built on the other.
LEMMA MatchLayersExist ==
  ASSUME NEW k \in Nat
  PROVE  \E f : MatchLayers(f, k)
<1> DEFINE S == {i \in 0 .. k : \E f : MatchLayers(f, i)}
<1>0. \A x, y : MatchLayer(x, 0) = MatchLayer(y, 0)
  BY DEF MatchLayer, MatchStep
<1>1. 0 \in S
  <2> DEFINE f == [j \in 0 .. 0 |-> MatchLayer({}, 0)]
  <2>1. \A j \in 0 .. 0 : MatchLayer(f[j - 1], j) = MatchLayer({}, 0)
    <3>1. \A j \in 0 .. 0 : j = 0
      OBVIOUS
    <3> QED
      BY <1>0, <3>1
  <2>2. f = [j \in 0 .. 0 |-> MatchLayer(f[j - 1], j)]
    BY <2>1
  <2> QED
    BY <2>2 DEF MatchLayers
<1>2. ASSUME NEW i \in 0 .. k - 1, i \in S PROVE i + 1 \in S
  <2>1. PICK f : MatchLayers(f, i)
    BY <1>2
  <2> DEFINE g == [j \in 0 .. i + 1 |-> IF j <= i THEN f[j] ELSE MatchLayer(f[i], i + 1)]
  <2>2. f = [j \in 0 .. i |-> MatchLayer(f[j - 1], j)]
    BY <2>1 DEF MatchLayers
  <2>3. ASSUME NEW j \in 0 .. i + 1 PROVE g[j] = MatchLayer(g[j - 1], j)
    <3>1. CASE j = 0
      <4>1. g[0] = f[0] /\ f[0] = MatchLayer(f[0 - 1], 0)
        BY <2>2
      <4>2. MatchLayer(f[0 - 1], 0) = MatchLayer(g[0 - 1], 0)
        BY <1>0
      <4> QED
        BY <3>1, <4>1, <4>2
    <3>2. CASE j \in 1 .. i
      <4>1. g[j - 1] = f[j - 1] /\ g[j] = f[j]
        BY <3>2
      <4>2. f[j] = MatchLayer(f[j - 1], j)
        BY <2>2, <3>2
      <4> QED
        BY <4>1, <4>2
    <3>3. CASE j = i + 1
      <4>1. g[j - 1] = f[i] /\ g[j] = MatchLayer(f[i], i + 1)
        BY <3>3
      <4> QED
        BY <3>3, <4>1
    <3> QED
      BY <3>1, <3>2, <3>3
  <2>4. g = [j \in 0 .. i + 1 |-> MatchLayer(g[j - 1], j)]
    BY <2>3
  <2>5. i + 1 \in 0 .. k
    OBVIOUS
  <2> QED
    BY <2>4, <2>5 DEF MatchLayers
<1>3. \A i \in 0 .. k : i \in S
  <2> HIDE DEF S
  <2> QED
    BY <1>1, <1>2, UpTo
<1> QED
  BY <1>3

\* The layers of MatchAt.
LEMMA MatchAtIs == MatchLayers(MatchAt, VarNum)
<1>1. VarNum \in Nat
  BY SizeAssumption
<1>2. \E f : MatchLayers(f, VarNum)
  BY <1>1, MatchLayersExist
<1>3. MatchAt = CHOOSE f : MatchLayers(f, VarNum)
  BY Zenon DEF MatchAt, MatchLayers, MatchLayer, MatchStep, MatchCalls
<1> QED
  BY <1>2, <1>3

\* A call of a layer.
MatchRun(k, t, P, S) == MatchAt[k][[t |-> t, P |-> P, S |-> S]]

\* Those of the headers P that have the bit b in a level.
With(P, level, b) == {h \in P : Bit(h, level) = b}

\* A call with k + 1 levels left is two calls with k and bdd_makenode.
LEMMA MatchRunIs ==
  ASSUME NEW k \in Nat, k < VarNum, NEW t \in Tables, NEW P \in SUBSET Headers,
         NEW S \in SUBSET Headers
  PROVE  /\ LET level == VarNum - (k + 1)
                low == MatchRun(k, t, With(P, level, 0), S)
                high == MatchRun(k, low.t, With(P, level, 1), S)
            IN  MatchRun(k + 1, t, P, S) = MakeNode(high.t, level, low.res, high.res)
         /\ MatchRun(0, t, P, S) = [t |-> t, res |-> IF P \subseteq S THEN 1 ELSE 0]
<1> DEFINE c == [t |-> t, P |-> P, S |-> S]
           level == VarNum - (k + 1)
           low == MatchRun(k, t, With(P, level, 0), S)
           high == MatchRun(k, low.t, With(P, level, 1), S)
<1>1. k + 1 \in 0 .. VarNum /\ k + 1 # 0 /\ (k + 1) - 1 = k /\ 0 \in 0 .. VarNum
  BY SizeAssumption
<1>2. MatchAt = [i \in 0 .. VarNum |-> MatchLayer(MatchAt[i - 1], i)]
  BY MatchAtIs DEF MatchLayers
<1>3. /\ MatchAt[k + 1] = MatchLayer(MatchAt[k], k + 1)
      /\ MatchAt[0] = MatchLayer(MatchAt[0 - 1], 0)
  BY <1>1, <1>2
<1>4. c \in MatchCalls
  BY DEF MatchCalls
<1>5. /\ MatchAt[k + 1][c] = MatchStep(MatchAt[k], k + 1, c)
      /\ MatchAt[0][c] = MatchStep(MatchAt[0 - 1], 0, c)
  <2> HIDE DEF c
  <2> QED
    BY <1>3, <1>4 DEF MatchLayer
<1>6. MatchStep(MatchAt[0 - 1], 0, c) = [t |-> t, res |-> IF P \subseteq S THEN 1 ELSE 0]
  BY DEF MatchStep
<1>7. [c EXCEPT !.P = With(P, level, 0)] = [t |-> t, P |-> With(P, level, 0), S |-> S]
  OBVIOUS
<1>8. /\ c.P = P /\ c.S = S /\ c.t = t
  OBVIOUS
<1> HIDE DEF c
<1>9. MatchStep(MatchAt[k], k + 1, c) = MakeNode(high.t, level, low.res, high.res)
  <2>1. LET low0 == MatchAt[k][[c EXCEPT !.P = With(c.P, level, 0)]]
            high0 == MatchAt[k][[t |-> low0.t, P |-> With(c.P, level, 1), S |-> c.S]]
        IN  MatchStep(MatchAt[k], k + 1, c) = MakeNode(high0.t, level, low0.res, high0.res)
    BY <1>1, Zenon DEF MatchStep, With
  <2>2. MatchAt[k][[c EXCEPT !.P = With(c.P, level, 0)]] = low
    BY <1>7, <1>8, Zenon DEF MatchRun
  <2> QED
    BY <1>8, <2>1, <2>2, Zenon DEF MatchRun
<1> QED
  BY <1>5, <1>6, <1>9 DEF MatchRun, c

\* What a bit of a match owes its caller on any table.
MatchLater(k) ==
  \A t : \A P, S \in SUBSET Headers :
    Typed(t) => LET done == MatchRun(k, t, P, S)
                IN  Later(t, done.t) /\ done.res \in Nat

\* The two calls and bdd_makenode, one after the other.
MatchSteps(k, t, P, S) ==
  LET level == VarNum - (k + 1)
      low == MatchRun(k, t, With(P, level, 0), S)
      high == MatchRun(k, low.t, With(P, level, 1), S)
      done == MatchRun(k + 1, t, P, S)
  IN  /\ level \in 0 .. VarNum
      /\ With(P, level, 0) \in SUBSET Headers /\ With(P, level, 1) \in SUBSET Headers
      /\ done = MakeNode(high.t, level, low.res, high.res)
      /\ Later(t, low.t) /\ Later(low.t, high.t) /\ Later(high.t, done.t)
      /\ Later(t, done.t) /\ done.res \in Nat

\* Each of them goes on from a table of the right type.
LEMMA MatchChain ==
  ASSUME NEW k \in Nat, k < VarNum, MatchLater(k), NEW t, Typed(t),
         NEW P \in SUBSET Headers, NEW S \in SUBSET Headers
  PROVE  MatchSteps(k, t, P, S)
<1> DEFINE level == VarNum - (k + 1)
           low == MatchRun(k, t, With(P, level, 0), S)
           high == MatchRun(k, low.t, With(P, level, 1), S)
           done == MatchRun(k + 1, t, P, S)
<1> SUFFICES /\ level \in 0 .. VarNum
             /\ With(P, level, 0) \in SUBSET Headers /\ With(P, level, 1) \in SUBSET Headers
             /\ done = MakeNode(high.t, level, low.res, high.res)
             /\ Later(t, low.t) /\ Later(low.t, high.t) /\ Later(high.t, done.t)
             /\ Later(t, done.t) /\ done.res \in Nat
  BY DEF MatchSteps
<1>1. done = MakeNode(high.t, level, low.res, high.res)
  BY MatchRunIs DEF Typed
<1> HIDE DEF done
<1>2. /\ level \in 0 .. VarNum
      /\ With(P, level, 0) \in SUBSET Headers /\ With(P, level, 1) \in SUBSET Headers
  BY SizeAssumption DEF With
<1> HIDE DEF level
<1>3. Later(t, low.t) /\ low.res \in Nat
  BY <1>2 DEF MatchLater
<1> HIDE DEF low
<1>4. Later(low.t, high.t) /\ high.res \in Nat
  BY <1>2, <1>3 DEF MatchLater, Later
<1> HIDE DEF high
<1>5. Later(high.t, done.t) /\ done.res \in Nat
  BY <1>1, <1>2, <1>3, <1>4, MakeNodeLater DEF Later
<1> QED
  BY <1>1, <1>2, <1>3, <1>4, <1>5, LaterTransitive

\* ... for every number of header bits.
LEMMA AllMatchesLater == \A k \in 0 .. VarNum : MatchLater(k)
<1> DEFINE S == {k \in 0 .. VarNum : MatchLater(k)}
<1>1. VarNum \in Nat /\ 0 \in Nat /\ 0 < VarNum
  BY SizeAssumption
<1>2. MatchLater(0)
  <2>1. ASSUME NEW t, Typed(t), NEW P \in SUBSET Headers, NEW M \in SUBSET Headers
        PROVE  LET done == MatchRun(0, t, P, M)
               IN  Later(t, done.t) /\ done.res \in Nat
    <3>1. MatchRun(0, t, P, M) = [t |-> t, res |-> IF P \subseteq M THEN 1 ELSE 0]
      BY <1>1, <2>1, MatchRunIs DEF Typed
    <3> QED
      BY <2>1, <3>1 DEF Later
  <2> QED
    BY <2>1 DEF MatchLater
<1>3. 0 \in S
  BY <1>1, <1>2
<1>4. ASSUME NEW i \in 0 .. VarNum - 1, i \in S PROVE i + 1 \in S
  <2>1. i \in Nat /\ i < VarNum /\ i + 1 \in 0 .. VarNum
    BY <1>1
  <2>2. ASSUME NEW t, Typed(t), NEW P \in SUBSET Headers, NEW M \in SUBSET Headers
        PROVE  LET done == MatchRun(i + 1, t, P, M)
               IN  Later(t, done.t) /\ done.res \in Nat
    BY <1>4, <2>1, <2>2, MatchChain DEF MatchSteps
  <2> QED
    BY <2>1, <2>2 DEF MatchLater
<1>5. \A i \in 0 .. VarNum : i \in S
  <2> HIDE DEF S
  <2> QED
    BY <1>1, <1>3, <1>4, UpTo
<1> QED
  BY <1>5

-----------------------------------------------------------------------------
(* The operations, whatever the table.                                     *)

\* The node numbers that a rule holds, and what a file says of a rule.
RuleNodes == [mf_in : Nat, mf_out : Nat, vtnode_in : Nat, mtbdd_in : Nat]
Given == [mf_in : SUBSET Headers, mf_out : SUBSET Headers]

\* The next tag of the caches.
LEMMA NewTagLater ==
  ASSUME NEW st, STyped(st)
  PROVE  LET su == NewTag(st)
         IN  SLater(st, su) /\ su.t = st.t /\ su.value = st.value
<1> DEFINE su == NewTag(st)
<1>1. st \in States /\ st.tag + 1 \in Nat /\ Len(st.value) \in Nat
  BY SFields DEF STyped
<1>2. su \in States /\ su.t = st.t /\ su.value = st.value
  BY <1>1 DEF NewTag, States
<1> HIDE DEF su
<1>3. SLater(st, su)
  BY <1>1, <1>2 DEF SLater, STyped, Later
<1> QED
  BY <1>2, <1>3 DEF su

\* What comes after an update: the caches are left alone, or emptied.
LEMMA AfterUpdateLater ==
  ASSUME NEW st, STyped(st)
  PROVE  LET su == AfterUpdate(st)
         IN  /\ SLater(st, su) /\ su.value = st.value
             /\ su.t = st.t \/ su.t = [st.t EXCEPT !.cache = {}, !.memo = {}, !.misc = {}]
<1> DEFINE u == [st.t EXCEPT !.cache = {}, !.memo = {}, !.misc = {}]
           su == Reset(st)
<1>1. st \in States /\ st.t \in Tables /\ Len(st.value) \in Nat /\ Typed(st.t)
  BY SFields DEF STyped
<1>2. /\ u \in Tables /\ u.node = st.t.node /\ u.collected = st.t.collected
      /\ u.stopped = st.t.stopped /\ u.wild = st.t.wild
  BY <1>1 DEF Tables
<1>3. su = [st EXCEPT !.t = u, !.tag = 0]
  BY <1>1 DEF Reset, States, Tables
<1>4. Later(st.t, u)
  <2> HIDE DEF u
  <2> QED
    BY <1>1, <1>2 DEF Later, Typed
<1> HIDE DEF u, su
<1>5. su \in States /\ su.t = u /\ su.value = st.value
  BY <1>1, <1>2, <1>3 DEF States
<1>6. SLater(st, su)
  BY <1>1, <1>4, <1>5 DEF SLater, STyped, Later
<1>7. SLater(st, st)
  BY <1>1 DEF SLater, Later
<1>8. AfterUpdate(st) = su \/ AfterUpdate(st) = st
  BY DEF AfterUpdate, su
<1> QED
  BY <1>5, <1>6, <1>7, <1>8 DEF u

\* An update begins: the next tag, and the old MTBDD gives up its reference.
LEMMA BeginLater ==
  ASSUME NEW st, STyped(st), NEW sw
  PROVE  LET su == Begin(st, sw)
         IN  SLater(st, su) /\ su.t = DelRef(st.t, sw) /\ su.value = st.value
<1> DEFINE in == NewTag(st)
           su == Begin(st, sw)
<1>1. SLater(st, in) /\ in.t = st.t /\ in.value = st.value /\ STyped(in)
  BY NewTagLater DEF SLater
<1>2. su = [in EXCEPT !.t = DelRef(in.t, sw)]
  BY DEF Begin
<1> HIDE DEF in, su
<1>3. Later(in.t, DelRef(in.t, sw))
  BY <1>1, RefLater DEF STyped
<1>4. SLater(in, su) /\ su.t = DelRef(in.t, sw) /\ su.value = in.value
  BY <1>1, <1>2, <1>3, TableLater
<1> QED
  BY <1>1, <1>4, SLaterTransitive DEF su

\* An update ends: the new MTBDD takes its reference.
LEMMA EndLater ==
  ASSUME NEW done, Pair(done), STyped(done.s), done.res \in Nat
  PROVE  LET made == End(done)
         IN  /\ Pair(made) /\ made.res = done.res /\ SLater(done.s, made.s)
             /\ made.s.t = AddRef(done.s.t, done.res) /\ made.s.value = done.s.value
<1> DEFINE st == done.s
           res == done.res
           u == AddRef(st.t, res)
           su == [st EXCEPT !.t = u]
           made == End(done)
<1> SUFFICES /\ Pair(made) /\ made.res = res /\ SLater(st, made.s)
             /\ made.s.t = u /\ made.s.value = st.value
  OBVIOUS
<1>1. done = [s |-> st, res |-> res] /\ STyped(st) /\ st \in States
  BY DEF Pair, STyped
<1>2. made = [done EXCEPT !.s.t = u]
  BY DEF End
<1> HIDE DEF st, res, made
<1>3. Later(st.t, u)
  BY <1>1, RefLater DEF STyped
<1> HIDE DEF u
<1>4. SLater(st, su) /\ su.t = u /\ su.value = st.value
  BY <1>1, <1>3, TableLater
<1>5. made = [s |-> su, res |-> res]
  BY <1>1, <1>2 DEF States
<1> HIDE DEF su
<1> QED
  BY <1>4, <1>5 DEF Pair

\* The recursion returns a state and a node.
LEMMA RunPair ==
  ASSUME NEW st, STyped(st), NEW op \in {"add", "remove"}, NEW l \in Nat, NEW r \in Nat
  PROVE  LET made == Run(st, op, l, r)
         IN  /\ made = RunAt(VarNum + 1, st, op, l, r)
             /\ Pair(made) /\ SLater(st, made.s) /\ made.res \in Nat
<1> DEFINE made == Run(st, op, l, r)
<1>1. made = RunAt(VarNum + 1, st, op, l, r)
  BY DEF Run, RunAt
<1>2. SLater(st, made.s) /\ made.res \in Nat
  <2>1. VarNum + 1 \in 0 .. VarNum + 1
    BY SizeAssumption
  <2> QED
    BY <1>1, <2>1, AllRunsLater DEF RunLater
<1>3. Pair(made)
  <2>1. VarNum \in 0 .. VarNum /\ st \in States
    BY SizeAssumption DEF STyped
  <2>2. made = Rec(RecAt[VarNum], st, op, l, r)
    BY <1>1, <2>1, RunAtIs
  <2> DEFINE tnode == IF op = "add" THEN AddTnode(st, l, r) ELSE RemoveTnode(st, l, r)
             walk == Walk(RecAt[VarNum], st, op, l, r)
  <2>3. \/ (st.t.stopped \/ st.t.wild) /\ made = [s |-> st, res |-> 0]
        \/ r = 0 /\ made = [s |-> st, res |-> l]
        \/ l = 0 /\ made = [s |-> st, res |-> IF op = "add" THEN r ELSE l]
        \/ /\ r # 0 /\ l # 0 /\ ~ (Intact(st, l) /\ Intact(st, r))
           /\ made = Wild(st)
        \/ \E e \in Known(st, l, r) : made = [s |-> st, res |-> e.res]
        \/ /\ Intact(st, l) /\ Intact(st, r) /\ (~ IsLeaf(st.t, l) \/ ~ IsLeaf(st.t, r))
           /\ made = Memoize(walk, l, r, st.tag)
        \/ /\ Intact(st, l) /\ Intact(st, r) /\ IsLeaf(st.t, l) /\ IsLeaf(st.t, r)
           /\ made = Memoize(tnode, l, r, st.tag)
    BY <1>1, <2>1, RunCases
  <2>4. Pair(walk) /\ Pair(tnode) /\ Pair(Wild(st))
    <3>1. Pair(walk) /\ Pair(Wild(st))
      BY DEF Walk, InState, Pair, Wild
    <3>2. Pair(AddTnode(st, l, r)) /\ Pair(RemoveTnode(st, l, r))
      BY DEF InState, Pair, AddTnode, RemoveTnode, Join, JoinValue, NewValue, Terminal
    <3> QED
      BY <3>1, <3>2
  <2>5. Intact(st, l) /\ Intact(st, r) => STyped(walk.s) /\ walk.res \in Nat
    <3>1. RunLater(VarNum)
      <4>1. VarNum \in 0 .. VarNum + 1
        BY SizeAssumption
      <4> QED
        BY <4>1, AllRunsLater
    <3>2. Intact(st, l) /\ Intact(st, r) => WalkSteps(VarNum, st, op, l, r)
      <4>1. Intact(st, l) /\ Intact(st, r) => l \in Used(st.t) /\ r \in Used(st.t)
        BY DEF Intact
      <4> QED
        BY Zenon, <2>1, <3>1, <4>1, WalkLater
    <3> QED
      BY <3>2 DEF WalkSteps, SLater
  <2>6. Intact(st, l) /\ Intact(st, r) /\ IsLeaf(st.t, l) /\ IsLeaf(st.t, r)
          => STyped(tnode.s) /\ tnode.res \in Nat
    BY AddTnodeLater, RemoveTnodeLater DEF Intact, SLater
  <2>7. st.tag \in Nat
    BY SFields
  <2> HIDE DEF walk, tnode, made
  <2>8. ASSUME NEW in, Pair(in), STyped(in.s), in.res \in Nat, made = Memoize(in, l, r, st.tag)
        PROVE  Pair(made)
    <3>1. Memoized(in, l, r, made)
      BY <2>7, <2>8, MemoizeLater
    <3> QED
      BY <3>1 DEF Memoized
  <2> QED
    BY <2>3, <2>4, <2>5, <2>6, <2>8 DEF Pair
<1> QED
  BY <1>1, <1>2, <1>3

\* The whole insertion of a rule.
LEMMA InsertRuleLater ==
  ASSUME NEW st, STyped(st), NEW sw \in Nat, NEW mtbdd_r \in Nat
  PROVE  LET made == InsertRule(st, sw, mtbdd_r)
             in == Begin(st, sw)
             run == Run(in, "add", sw, mtbdd_r)
         IN  /\ SLater(st, in) /\ SLater(in, run.s) /\ SLater(run.s, made.s)
             /\ SLater(st, made.s) /\ made.res = run.res /\ made.res \in Nat
             /\ made.s.t = AddRef(run.s.t, run.res) /\ made.s.value = run.s.value
<1> DEFINE made == InsertRule(st, sw, mtbdd_r)
           in == Begin(st, sw)
           run == Run(in, "add", sw, mtbdd_r)
<1> SUFFICES /\ SLater(st, in) /\ SLater(in, run.s) /\ SLater(run.s, made.s)
             /\ SLater(st, made.s) /\ made.res = run.res /\ made.res \in Nat
             /\ made.s.t = AddRef(run.s.t, run.res) /\ made.s.value = run.s.value
  OBVIOUS
<1>1. made = End(run)
  BY DEF InsertRule
<1>2. SLater(st, in)
  BY BeginLater
<1> HIDE DEF made, in
<1>3. Pair(run) /\ SLater(in, run.s) /\ run.res \in Nat
  BY <1>2, RunPair DEF SLater
<1> HIDE DEF run
<1>4. /\ SLater(run.s, made.s) /\ made.res = run.res
      /\ made.s.t = AddRef(run.s.t, run.res) /\ made.s.value = run.s.value
  BY <1>1, <1>3, EndLater DEF SLater
<1> QED
  BY <1>2, <1>3, <1>4, SLaterTransitive

\* A virtual rule is built for a rule that the removed one hid.
LEMMA VirtualRuleLater ==
  ASSUME NEW st, STyped(st), NEW mf \in Nat, NEW x \in RuleNodes
  PROVE  LET made == VirtualRule(st, mf, x)
         IN  SLater(st, made.s) /\ made.res \in Nat
<1> DEFINE meet == Apply(st.t, mf, x.mf_in, "and")
           in == [st EXCEPT !.t = meet.t]
           own == SetSelf(in, At(st, x.vtnode_in), meet.res, "or")
           done == ToMtbdd(own.t, meet.res, x.vtnode_in)
           made == VirtualRule(st, mf, x)
<1> SUFFICES SLater(st, made.s) /\ made.res \in Nat
  OBVIOUS
<1>1. made = InState(own, done)
  BY DEF VirtualRule
<1>2. /\ Later(st.t, meet.t) /\ meet.res \in Nat
  <2>1. "and" \in Ops /\ Typed(st.t)
    BY DEF Ops, STyped
  <2> QED
    BY <2>1, ApplyLater
<1> HIDE DEF made, meet
<1>3. SLater(st, in)
  BY <1>2, TableLater
<1> HIDE DEF in
<1>4. SLater(in, own)
  <2>1. "or" \in Ops
    BY DEF Ops
  <2> QED
    BY <1>3, <2>1, SetSelfLater DEF SLater
<1> HIDE DEF own
<1>5. Later(own.t, done.t) /\ done.res \in Nat
  <2>1. Typed(own.t) /\ x.vtnode_in \in Nat
    BY <1>4 DEF SLater, STyped, RuleNodes
  <2> QED
    BY <1>2, <2>1, ToMtbddLater
<1> HIDE DEF done
<1>6. SLater(own, made.s) /\ made.res = done.res
  BY <1>1, <1>4, <1>5, InStateLater DEF SLater
<1> QED
  BY <1>3, <1>4, <1>5, <1>6, SLaterTransitive

\* The self_bdd of the removed rule is its match again.
LEMMA RestoreLater ==
  ASSUME NEW done, Pair(done), STyped(done.s), NEW r \in Rules, NEW x \in RuleNodes
  PROVE  LET made == Restore(done, r, x)
             v == At(done.s, x.vtnode_in)
         IN  /\ SLater(done.s, made.s) /\ made.res = done.res
             /\ made.s.t = AddRef(DelRef(done.s.t, done.s.value[v].self_bdd), x.mf_in)
             /\ made.s.value = WithSelf(done.s.value, v, x.mf_in)
<1> DEFINE st == done.s
           res == done.res
           v == At(st, x.vtnode_in)
           u == AddRef(DelRef(st.t, st.value[v].self_bdd), x.mf_in)
           value == WithSelf(st.value, v, x.mf_in)
           covering == [st.covering EXCEPT ![r] = {}]
           in == [st EXCEPT !.t = u]
           su == [in EXCEPT !.value = value, !.covering = covering]
           made == Restore(done, r, x)
<1> SUFFICES /\ SLater(st, made.s) /\ made.res = res
             /\ made.s.t = u /\ made.s.value = value
  OBVIOUS
<1>1. done = [s |-> st, res |-> res] /\ STyped(st) /\ st \in States
  BY DEF Pair, STyped
<1>2. made = [done EXCEPT !.s.t = u, !.s.value[v].self_bdd = x.mf_in, !.s.covering[r] = {}]
  BY DEF Restore
<1>3. x.mf_in \in Nat
  BY DEF RuleNodes
<1> HIDE DEF st, res, made
<1>4. Later(st.t, u)
  <2>1. Later(st.t, DelRef(st.t, st.value[v].self_bdd))
    BY <1>1, RefLater DEF STyped
  <2>2. Later(DelRef(st.t, st.value[v].self_bdd), u)
    BY <2>1, RefLater DEF Later
  <2> QED
    BY <2>1, <2>2, LaterTransitive
<1>5. value \in Seq(ValueNodes) /\ Len(value) = Len(st.value) /\ Distinct(value)
  <2>1. st.value \in Seq(ValueNodes) /\ Distinct(st.value)
    BY <1>1, SFields DEF STyped
  <2> QED
    BY <1>3, <2>1, SelfOfValues DEF OtherSelf
<1>6. covering \in [Rules -> SUBSET Rules]
  BY <1>1, SFields
<1>7. made = [s |-> su, res |-> res]
  <2> HIDE DEF u
  <2> QED
    BY <1>1, <1>2 DEF States, WithSelf
<1> HIDE DEF u, value, covering
<1>8. SLater(st, in) /\ in.t = u /\ in.value = st.value
  BY <1>1, <1>4, TableLater
<1> HIDE DEF in
<1>9. in \in States /\ Len(in.value) \in Nat
  BY <1>8, SFields DEF SLater, STyped
<1>10. su \in States /\ su.t = u /\ su.value = value
  BY <1>5, <1>6, <1>8, <1>9 DEF States, ValueNodes
<1> HIDE DEF su
<1>11. SLater(st, su)
  BY <1>5, <1>8, <1>9, <1>10 DEF SLater, STyped
<1> QED
  BY <1>7, <1>10, <1>11

\* The whole removal of a rule.
LEMMA RemoveRuleLater ==
  ASSUME NEW st, STyped(st), NEW sw \in Nat, NEW r \in Rules, NEW x \in RuleNodes
  PROVE  LET made == RemoveRule(st, sw, r, x)
             in == Begin(st, sw)
             run == Run(in, "remove", sw, x.mtbdd_in)
             end == End(run)
         IN  /\ SLater(st, in) /\ SLater(in, run.s) /\ SLater(run.s, end.s)
             /\ SLater(end.s, made.s) /\ SLater(st, made.s) /\ SLater(st, run.s)
             /\ SLater(st, end.s)
             /\ Pair(end) /\ made = Restore(end, r, x)
             /\ end.s.t = AddRef(run.s.t, run.res) /\ end.s.value = run.s.value
             /\ end.res = run.res /\ made.res = run.res /\ run.res \in Nat
<1> DEFINE made == RemoveRule(st, sw, r, x)
           in == Begin(st, sw)
           run == Run(in, "remove", sw, x.mtbdd_in)
           end == End(run)
<1> SUFFICES /\ SLater(st, in) /\ SLater(in, run.s) /\ SLater(run.s, end.s)
             /\ SLater(end.s, made.s) /\ SLater(st, made.s) /\ SLater(st, run.s)
             /\ SLater(st, end.s)
             /\ Pair(end) /\ made = Restore(end, r, x)
             /\ end.s.t = AddRef(run.s.t, run.res) /\ end.s.value = run.s.value
             /\ end.res = run.res /\ made.res = run.res /\ run.res \in Nat
  OBVIOUS
<1>1. made = Restore(end, r, x)
  BY DEF RemoveRule
<1>2. SLater(st, in)
  BY BeginLater
<1> HIDE DEF made, in
<1>3. Pair(run) /\ SLater(in, run.s) /\ run.res \in Nat
  <2>1. x.mtbdd_in \in Nat
    BY DEF RuleNodes
  <2> QED
    BY <1>2, <2>1, RunPair DEF SLater
<1> HIDE DEF run
<1>4. /\ Pair(end) /\ SLater(run.s, end.s) /\ end.res = run.res
      /\ end.s.t = AddRef(run.s.t, run.res) /\ end.s.value = run.s.value
  BY <1>3, EndLater DEF SLater
<1> HIDE DEF end
<1>5. SLater(end.s, made.s) /\ made.res = end.res
  BY <1>1, <1>4, RestoreLater DEF SLater
<1> QED
  BY <1>1, <1>2, <1>3, <1>4, <1>5, SLaterTransitive

-----------------------------------------------------------------------------
(* The rules before the first update, whatever the table.                  *)

\* The table after bdd_init.
LEMMA InitSteady == Steady(InitTable)
<1> DEFINE t == InitTable
<1>1. Live(t) /\ t \in Tables /\ Shape(t)
  BY InitFacts DEF Live, Shape
<1>2. /\ t.cache = {} /\ t.collected = FALSE /\ t.stopped = FALSE /\ t.wild = FALSE
  BY DEF InitTable
<1>3. /\ t.node[0] = Node(VarNum, 0, 0, MaxRef, -1)
      /\ t.node[1] = Node(VarNum, 0, 0, MaxRef, -1)
      /\ t.node[2] = Node(0, 0, 0, MaxRef, -1)
      /\ \A n \in 3 .. 2 + 2 * VarNum : \E v \in Levels, b \in {0, 1} :
           t.node[n] = VarSlot(v, b)
      /\ \A n \in 3 + 2 * VarNum .. MaxSize - 1 : t.node[n] = FreeSlot
  BY InitSlots
<1> HIDE DEF t
<1>4. /\ \A n \in {0, 1, 2} : t.node[n].low = 0 /\ t.node[n].high = 0
      /\ t.node[0].level = VarNum /\ t.node[1].level = VarNum
  BY <1>3 DEF Node
<1>5. ASSUME NEW n \in DOMAIN t.node, t.node[n].low # -1 PROVE t.node[n].high \in Nat
  <2>1. VarNum \in Nat /\ MaxSize \in Nat /\ n \in 0 .. MaxSize - 1
    BY <1>1, SizeAssumption, TableFields
  <2>2. \/ n \in {0, 1, 2} \/ n \in 3 .. 2 + 2 * VarNum
        \/ n \in 3 + 2 * VarNum .. MaxSize - 1
    BY <2>1
  <2>3. CASE n \in {0, 1, 2}
    BY <1>4, <2>3
  <2>4. CASE n \in 3 .. 2 + 2 * VarNum
    <3>1. PICK v \in Levels, b \in {0, 1} : t.node[n] = VarSlot(v, b)
      BY <1>3, <2>4
    <3> QED
      BY <3>1 DEF VarSlot, Node
  <2>5. CASE n \in 3 + 2 * VarNum .. MaxSize - 1
    <3>1. t.node[n].low = -1
      BY <1>3, <2>5 DEF FreeSlot, Node
    <3> QED
      BY <1>5, <3>1
  <2> QED
    BY <2>2, <2>3, <2>4, <2>5
<1>6. Typed(t)
  BY <1>1, <1>5 DEF Typed
<1>7. /\ {0, 1, 2} \subseteq Used(t)
      /\ Entries(t.free) \subseteq Slots(t) \ Used(t)
      /\ \A i, j \in DOMAIN t.free : t.free[i] = t.free[j] => i = j
  BY <1>1 DEF Shape, Constants, FreeSlots
<1> QED
  BY <1>2, <1>4, <1>6, <1>7 DEF Steady, t

\* The switch before its rules are read.
LEMMA InitStateTyped ==
  ASSUME NEW cacheSize \in CacheSizes, NEW lowFirst \in BOOLEAN
  PROVE  LET st == InitState(cacheSize, lowFirst)
         IN  STyped(st) /\ st.t = InitTable /\ st.value = <<>>
<1> DEFINE st == InitState(cacheSize, lowFirst)
<1>1. InitTable \in Tables /\ Typed(InitTable)
  BY InitSteady DEF Steady, Typed
<1>2. /\ st.t = InitTable /\ st.value = <<>>
      /\ st = [t |-> InitTable, value |-> <<>>, covering |-> [r \in Rules |-> {}],
               tag |-> 0, cacheSize |-> cacheSize, lowFirst |-> lowFirst]
  BY DEF InitState
<1>3. <<>> \in Seq(ValueNodes) /\ Len(<<>>) = 0 /\ DOMAIN <<>> = {} /\ MaxValues \in Nat
  BY GraphAssumption
<1> HIDE DEF st
<1>4. st \in States
  BY <1>1, <1>2, <1>3 DEF States, ValueNodes
<1>5. STyped(st)
  BY <1>1, <1>2, <1>3, <1>4 DEF STyped, Distinct
<1> QED
  BY <1>2, <1>5 DEF st

\* The value nodes after NewValue.
LEMMA NewValueNodes ==
  ASSUME NEW st, STyped(st), NEW pair, NEW self
  PROVE  LET made == NewValue(st, pair, self)
         IN  \/ made.s.value = st.value
             \/ made.s.value = WithPair(st.value, pair, self)
<1>1. st \in States
  BY DEF STyped
<1> QED
  BY <1>1 DEF NewValue, Terminal, InState, States, WithPair

\* The rules are numbered from 0.
NRulesFacts == NRules \in Nat /\ Rules = 0 .. NRules - 1

\* ... as GraphAssumption says.
LEMMA NRulesNumber == NRulesFacts
<1>1. IsFiniteSet(Rules) => Cardinality(Rules) \in Nat
  BY FS_CardinalityType
<1> QED
  BY <1>1, GraphAssumption DEF NRules, NRulesFacts

\* The value nodes are for the rules below i.
ForFirst(value, i) == \A v \in DOMAIN value : value[v].rule_pair[1] < i

\* A rule is parsed: the BDDs of its match and of its image are built and take a
\* reference each.
LEMMA ParseLater ==
  ASSUME NEW g, STyped(g.s), g.rules \in Seq(RuleNodes), NEW x \in Given
  PROVE  LET made == Parse(g, x)
             in == MatchRun(VarNum, g.s.t, Headers, x.mf_in)
             out == MatchRun(VarNum, in.t, Headers, x.mf_out)
             u == AddRef(out.t, in.res)
         IN  /\ SLater(g.s, made.s) /\ made.s.value = g.s.value
             /\ Later(g.s.t, in.t) /\ Later(in.t, out.t) /\ Later(out.t, u)
             /\ made.s.t = AddRef(u, out.res) /\ in.res \in Nat /\ out.res \in Nat
             /\ made.rules \in Seq(RuleNodes) /\ Len(made.rules) = Len(g.rules) + 1
             /\ made.rules = Append(g.rules, [mf_in |-> in.res, mf_out |-> out.res,
                                              vtnode_in |-> 0, mtbdd_in |-> 0])
<1> DEFINE made == Parse(g, x)
           in == MatchRun(VarNum, g.s.t, Headers, x.mf_in)
           out == MatchRun(VarNum, in.t, Headers, x.mf_out)
           u == AddRef(out.t, in.res)
           v == AddRef(u, out.res)
           new == [mf_in |-> in.res, mf_out |-> out.res, vtnode_in |-> 0, mtbdd_in |-> 0]
<1> SUFFICES /\ SLater(g.s, made.s) /\ made.s.value = g.s.value
             /\ Later(g.s.t, in.t) /\ Later(in.t, out.t) /\ Later(out.t, u)
             /\ made.s.t = v /\ in.res \in Nat /\ out.res \in Nat
             /\ made.rules \in Seq(RuleNodes) /\ Len(made.rules) = Len(g.rules) + 1
             /\ made.rules = Append(g.rules, new)
  OBVIOUS
<1>1. made.s = [g.s EXCEPT !.t = v] /\ made.rules = Append(g.rules, new)
  BY DEF Parse, MatchRun
<1> HIDE DEF made
<1>2. VarNum \in 0 .. VarNum /\ x.mf_in \in SUBSET Headers /\ x.mf_out \in SUBSET Headers
  BY SizeAssumption DEF Given
<1>3. Later(g.s.t, in.t) /\ in.res \in Nat
  BY <1>2, AllMatchesLater DEF MatchLater, STyped
<1> HIDE DEF in
<1>4. Later(in.t, out.t) /\ out.res \in Nat
  BY <1>2, <1>3, AllMatchesLater DEF MatchLater, Later
<1> HIDE DEF out
<1>5. Later(out.t, u)
  BY <1>4, RefLater DEF Later
<1> HIDE DEF u
<1>6. Later(u, v)
  BY <1>5, RefLater DEF Later
<1> HIDE DEF v
<1>7. Later(g.s.t, v)
  BY <1>3, <1>4, <1>5, <1>6, LaterTransitive
<1>8. new \in RuleNodes
  BY <1>3, <1>4 DEF RuleNodes
<1> HIDE DEF new
<1>9. SLater(g.s, made.s) /\ made.s.value = g.s.value /\ made.s.t = v
  BY <1>1, <1>7, TableLater
<1> QED
  BY <1>1, <1>3, <1>4, <1>5, <1>8, <1>9

\* A rule gets its value node, its terminal and its MTBDD.
LEMMA GenerateRuleLater ==
  ASSUME NEW g, STyped(g.s), g.rules \in Seq(RuleNodes), NEW r \in Rules, r + 1 \in DOMAIN g.rules,
         ForFirst(g.s.value, r)
  PROVE  LET made == GenerateRule(g, r)
             mf   == g.rules[r + 1].mf_in
             mfo  == g.rules[r + 1].mf_out
             leaf == NewValue(g.s, <<r, NULL>>, mf)
             u    == AddRef(leaf.s.t, leaf.res)
             conv == ToMtbdd(u, mf, leaf.res)
         IN  /\ SLater(g.s, made.s) /\ ForFirst(made.s.value, r + 1)
             /\ SLater(g.s, leaf.s) /\ leaf.res \in Nat /\ Later(leaf.s.t, u) /\ Later(u, conv.t)
             /\ conv.res \in Nat
             /\ made.s.t = AddRef(conv.t, conv.res) /\ made.s.value = leaf.s.value
             /\ made.rules \in Seq(RuleNodes) /\ Len(made.rules) = Len(g.rules)
             /\ \A i \in DOMAIN g.rules :
                  made.rules[i] = IF i = r + 1
                                    THEN [mf_in |-> mf, mf_out |-> mfo,
                                          vtnode_in |-> leaf.res, mtbdd_in |-> conv.res]
                                  ELSE g.rules[i]
<1> DEFINE made == GenerateRule(g, r)
           mf   == g.rules[r + 1].mf_in
           mfo  == g.rules[r + 1].mf_out
           leaf == NewValue(g.s, <<r, NULL>>, mf)
           u    == AddRef(leaf.s.t, leaf.res)
           conv == ToMtbdd(u, mf, leaf.res)
           v    == AddRef(conv.t, conv.res)
           new  == [mf_in |-> mf, mf_out |-> mfo, vtnode_in |-> leaf.res, mtbdd_in |-> conv.res]
           rls  == [g.rules EXCEPT ![r + 1].vtnode_in = leaf.res, ![r + 1].mtbdd_in = conv.res]
<1> SUFFICES /\ SLater(g.s, made.s) /\ ForFirst(made.s.value, r + 1)
             /\ SLater(g.s, leaf.s) /\ leaf.res \in Nat /\ Later(leaf.s.t, u) /\ Later(u, conv.t)
             /\ conv.res \in Nat
             /\ made.s.t = v /\ made.s.value = leaf.s.value
             /\ made.rules \in Seq(RuleNodes) /\ Len(made.rules) = Len(g.rules)
             /\ \A i \in DOMAIN g.rules :
                  made.rules[i] = IF i = r + 1 THEN new ELSE g.rules[i]
  OBVIOUS
<1>1. made.s = [leaf.s EXCEPT !.t = v] /\ made.rules = rls
  BY DEF GenerateRule
<1> HIDE DEF made
<1>2. /\ \A i \in DOMAIN g.rules : g.rules[i] \in RuleNodes
      /\ DOMAIN g.rules = 1 .. Len(g.rules) /\ Len(g.rules) \in Nat
  OBVIOUS
<1>3. mf \in Nat /\ mfo \in Nat
  BY <1>2 DEF RuleNodes
<1>4. /\ r \in Nat /\ NULL \notin Rules /\ g.s.value \in Seq(ValueNodes)
      /\ \A w \in DOMAIN g.s.value : g.s.value[w].rule_pair[1] \in Rules
      /\ Rules \subseteq Nat
  BY SFields
<1>5. SLater(g.s, leaf.s) /\ leaf.res \in Nat
  <2> DEFINE pair == <<r, NULL>>
  <2>1. pair \in Rules \X (Rules \union {NULL}) /\ pair[1] = r /\ pair[2] = NULL
    OBVIOUS
  <2>2. \A w \in DOMAIN g.s.value : g.s.value[w].rule_pair # pair
    BY <1>4, <2>1 DEF ForFirst
  <2> HIDE DEF pair, mf
  <2>3. LET l == NewValue(g.s, pair, mf) IN SLater(g.s, l.s) /\ l.res \in Nat
    BY <1>3, <2>1, <2>2, NewValueLater
  <2> QED
    BY <2>3 DEF pair
<1>6. ForFirst(leaf.s.value, r + 1)
  <2> DEFINE pair == <<r, NULL>>
             st == g.s
             l == NewValue(st, pair, mf)
             value == WithPair(st.value, pair, mf)
  <2>1. leaf = l /\ pair[1] = r /\ pair \in Rules \X (Rules \union {NULL}) /\ STyped(st)
    OBVIOUS
  <2>2. /\ st.value \in Seq(ValueNodes) /\ r \in Nat
        /\ \A w \in DOMAIN st.value :
             st.value[w].rule_pair[1] \in Nat /\ st.value[w].rule_pair[1] < r
    BY <1>4 DEF ForFirst
  <2> HIDE DEF leaf, pair, st, mf
  <2>3. l.s.value = st.value \/ l.s.value = value
    BY <2>1, NewValueNodes
  <2> HIDE DEF l
  <2>4. \A w \in DOMAIN value :
          \/ w \in DOMAIN st.value /\ value[w] = st.value[w]
          \/ value[w].rule_pair = pair
    BY <2>2 DEF WithPair
  <2> HIDE DEF value
  <2>5. \A w \in DOMAIN value : value[w].rule_pair[1] < r + 1
    BY <2>1, <2>2, <2>4
  <2>6. \A w \in DOMAIN st.value : st.value[w].rule_pair[1] < r + 1
    BY <2>2
  <2> QED
    BY <2>1, <2>3, <2>5, <2>6 DEF ForFirst
<1> HIDE DEF leaf, mf, mfo
<1>7. Later(leaf.s.t, u)
  BY <1>5, RefLater DEF SLater, STyped
<1> HIDE DEF u
<1>8. Later(u, conv.t) /\ conv.res \in Nat
  BY <1>3, <1>5, <1>7, ToMtbddLater DEF Later
<1> HIDE DEF conv
<1>9. Later(conv.t, v)
  BY <1>8, RefLater DEF Later
<1> HIDE DEF v
<1>10. Later(leaf.s.t, v)
  BY <1>7, <1>8, <1>9, LaterTransitive
<1>11. SLater(leaf.s, made.s) /\ made.s.t = v /\ made.s.value = leaf.s.value
  <2>1. STyped(leaf.s)
    BY <1>5 DEF SLater
  <2>2. made.s = [leaf.s EXCEPT !.t = v]
    BY <1>1
  <2> HIDE DEF made
  <2> QED
    BY <1>10, <2>1, <2>2, TableLater
<1>12. SLater(g.s, made.s)
  BY <1>5, <1>11, SLaterTransitive
<1>13. /\ rls \in Seq(RuleNodes) /\ Len(rls) = Len(g.rules)
       /\ \A i \in DOMAIN g.rules : rls[i] = IF i = r + 1 THEN new ELSE g.rules[i]
  <2>1. DOMAIN rls = DOMAIN g.rules
    OBVIOUS
  <2>2. ASSUME NEW i \in DOMAIN g.rules, i # r + 1 PROVE rls[i] = g.rules[i]
    BY <2>2
  <2>3. rls[r + 1] = new
    <3>1. g.rules[r + 1] \in RuleNodes
      BY <1>2
    <3>2. rls[r + 1] = [g.rules[r + 1] EXCEPT !.vtnode_in = leaf.res, !.mtbdd_in = conv.res]
      <4>1. rls = [[g.rules EXCEPT ![r + 1].vtnode_in = leaf.res] EXCEPT ![r + 1].mtbdd_in = conv.res]
        OBVIOUS
      <4> QED
        OBVIOUS
    <3> QED
      BY <3>1, <3>2 DEF RuleNodes, mf, mfo
  <2>4. new \in RuleNodes
    BY <1>3, <1>5, <1>8 DEF RuleNodes
  <2>5. rls = [i \in DOMAIN g.rules |-> rls[i]]
    OBVIOUS
  <2> HIDE DEF rls, new
  <2>6. \A i \in DOMAIN g.rules : rls[i] \in RuleNodes
    BY <1>2, <2>2, <2>3, <2>4
  <2>7. rls \in [1 .. Len(g.rules) -> RuleNodes]
    BY <1>2, <2>5, <2>6
  <2> QED
    BY <1>2, <2>2, <2>3, <2>7
<1> HIDE DEF rls, new
<1> QED
  BY <1>1, <1>5, <1>6, <1>7, <1>8, <1>11, <1>12, <1>13 DEF ForFirst

-----------------------------------------------------------------------------
(* The folds of the driver: parsing, generate_mtbddrules and the virtual   *)
(* rules.                                                                  *)

\* What the program holds after i rules are parsed, from what it held before.
ParseStep(m, start, before, i) ==
  IF i = 0 THEN [s |-> start, rules |-> <<>>] ELSE Parse(before, m[i - 1])
ParseSteps(m, start, f, n) == f = [i \in 0 .. n |-> ParseStep(m, start, f[i - 1], i)]

\* The same for generate_mtbddrules.
GenerateStep(start, before, i) == IF i = 0 THEN start ELSE GenerateRule(before, i - 1)
GenerateSteps(start, f, n) == f = [i \in 0 .. n |-> GenerateStep(start, f[i - 1], i)]

\* One more virtual rule.
WithVirtual(g, x, done) ==
  [s |-> done.s, vrules |-> Append(g.vrules, [idx |-> x, mtbdd_in |-> done.res])]
\* The same for the virtual rules.
VirtualStep(st, hidden, mf, rls, before, i) ==
  IF i = 0 THEN [s |-> st, vrules |-> <<>>]
  ELSE WithVirtual(before, hidden[i], VirtualRule(before.s, mf, rls[hidden[i]]))
VirtualSteps(st, hidden, mf, rls, f, n) ==
  f = [i \in 0 .. n |-> VirtualStep(st, hidden, mf, rls, f[i - 1], i)]

\* There is a function of the states of parsing, one after the other.
LEMMA ParseStepsExist ==
  ASSUME NEW m, NEW start, NEW n \in Nat
  PROVE  \E f : ParseSteps(m, start, f, n)
<1> DEFINE L(x, i) == ParseStep(m, start, x, i)
           S == {i \in 0 .. n : \E f : ParseSteps(m, start, f, i)}
<1>0. \A x, y : L(x, 0) = L(y, 0)
  BY DEF ParseStep
<1>1. \A f, i : ParseSteps(m, start, f, i) <=> f = [j \in 0 .. i |-> L(f[j - 1], j)]
  BY DEF ParseSteps
<1> HIDE DEF L
<1>2. 0 \in S
  <2> DEFINE f == [j \in 0 .. 0 |-> L({}, 0)]
  <2>1. \A j \in 0 .. 0 : L(f[j - 1], j) = L({}, 0)
    <3>1. \A j \in 0 .. 0 : j = 0
      OBVIOUS
    <3> QED
      BY <1>0, <3>1
  <2>2. f = [j \in 0 .. 0 |-> L(f[j - 1], j)]
    BY <2>1
  <2> HIDE DEF f
  <2>3. ParseSteps(m, start, f, 0)
    BY <1>1, <2>2
  <2>4. 0 \in 0 .. n
    OBVIOUS
  <2> QED
    BY <2>3, <2>4
<1>3. ASSUME NEW i \in 0 .. n - 1, i \in S PROVE i + 1 \in S
  <2>1. PICK f : ParseSteps(m, start, f, i)
    BY <1>3
  <2> DEFINE g == [j \in 0 .. i + 1 |-> IF j <= i THEN f[j] ELSE L(f[i], i + 1)]
  <2>2. f = [j \in 0 .. i |-> L(f[j - 1], j)]
    BY <1>1, <2>1
  <2>3. ASSUME NEW j \in 0 .. i + 1 PROVE g[j] = L(g[j - 1], j)
    <3>1. CASE j = 0
      <4>1. g[0] = f[0] /\ f[0] = L(f[0 - 1], 0)
        BY <2>2
      <4>2. L(f[0 - 1], 0) = L(g[0 - 1], 0)
        BY <1>0
      <4> QED
        BY <3>1, <4>1, <4>2
    <3>2. CASE j \in 1 .. i
      <4>1. g[j - 1] = f[j - 1] /\ g[j] = f[j]
        BY <3>2
      <4>2. f[j] = L(f[j - 1], j)
        BY <2>2, <3>2
      <4> QED
        BY <4>1, <4>2
    <3>3. CASE j = i + 1
      <4>1. g[j - 1] = f[i] /\ g[j] = L(f[i], i + 1)
        BY <3>3
      <4> QED
        BY <3>3, <4>1
    <3> QED
      BY <3>1, <3>2, <3>3
  <2>4. g = [j \in 0 .. i + 1 |-> L(g[j - 1], j)]
    BY <2>3
  <2>5. i + 1 \in 0 .. n
    OBVIOUS
  <2> QED
    BY <1>1, <2>4, <2>5
<1>4. \A i \in 0 .. n : i \in S
  <2> HIDE DEF S
  <2> QED
    BY <1>2, <1>3, UpTo
<1> QED
  BY <1>4

\* The first of them, and the others from the one before.
ParseStepByStep(m, start, f, n) ==
  /\ f[0] = ParseStep(m, start, f[0 - 1], 0)
  /\ \A i \in 0 .. n - 1 : f[i + 1] = ParseStep(m, start, f[i], i + 1)

\* They are made so.
LEMMA ParseStepsFacts ==
  ASSUME NEW m, NEW start, NEW n \in Nat, NEW f, ParseSteps(m, start, f, n)
  PROVE  ParseStepByStep(m, start, f, n)
<1> DEFINE L(x, i) == ParseStep(m, start, x, i)
<1>1. f = [j \in 0 .. n |-> L(f[j - 1], j)]
  BY DEF ParseSteps
<1> HIDE DEF L
<1>2. f[0] = L(f[0 - 1], 0)
  BY <1>1
<1>3. ASSUME NEW i \in 0 .. n - 1 PROVE f[i + 1] = L(f[i], i + 1)
  <2>1. i + 1 \in 0 .. n /\ (i + 1) - 1 = i
    OBVIOUS
  <2> QED
    BY <1>1, <2>1
<1> QED
  BY <1>2, <1>3 DEF L, ParseStepByStep

\* There is a function of the states of generate_mtbddrules, one after the other.
LEMMA GenerateStepsExist ==
  ASSUME NEW start, NEW n \in Nat
  PROVE  \E f : GenerateSteps(start, f, n)
<1> DEFINE L(x, i) == GenerateStep(start, x, i)
           S == {i \in 0 .. n : \E f : GenerateSteps(start, f, i)}
<1>0. \A x, y : L(x, 0) = L(y, 0)
  BY DEF GenerateStep
<1>1. \A f, i : GenerateSteps(start, f, i) <=> f = [j \in 0 .. i |-> L(f[j - 1], j)]
  BY DEF GenerateSteps
<1> HIDE DEF L
<1>2. 0 \in S
  <2> DEFINE f == [j \in 0 .. 0 |-> L({}, 0)]
  <2>1. \A j \in 0 .. 0 : L(f[j - 1], j) = L({}, 0)
    <3>1. \A j \in 0 .. 0 : j = 0
      OBVIOUS
    <3> QED
      BY <1>0, <3>1
  <2>2. f = [j \in 0 .. 0 |-> L(f[j - 1], j)]
    BY <2>1
  <2> HIDE DEF f
  <2>3. GenerateSteps(start, f, 0)
    BY <1>1, <2>2
  <2>4. 0 \in 0 .. n
    OBVIOUS
  <2> QED
    BY <2>3, <2>4
<1>3. ASSUME NEW i \in 0 .. n - 1, i \in S PROVE i + 1 \in S
  <2>1. PICK f : GenerateSteps(start, f, i)
    BY <1>3
  <2> DEFINE g == [j \in 0 .. i + 1 |-> IF j <= i THEN f[j] ELSE L(f[i], i + 1)]
  <2>2. f = [j \in 0 .. i |-> L(f[j - 1], j)]
    BY <1>1, <2>1
  <2>3. ASSUME NEW j \in 0 .. i + 1 PROVE g[j] = L(g[j - 1], j)
    <3>1. CASE j = 0
      <4>1. g[0] = f[0] /\ f[0] = L(f[0 - 1], 0)
        BY <2>2
      <4>2. L(f[0 - 1], 0) = L(g[0 - 1], 0)
        BY <1>0
      <4> QED
        BY <3>1, <4>1, <4>2
    <3>2. CASE j \in 1 .. i
      <4>1. g[j - 1] = f[j - 1] /\ g[j] = f[j]
        BY <3>2
      <4>2. f[j] = L(f[j - 1], j)
        BY <2>2, <3>2
      <4> QED
        BY <4>1, <4>2
    <3>3. CASE j = i + 1
      <4>1. g[j - 1] = f[i] /\ g[j] = L(f[i], i + 1)
        BY <3>3
      <4> QED
        BY <3>3, <4>1
    <3> QED
      BY <3>1, <3>2, <3>3
  <2>4. g = [j \in 0 .. i + 1 |-> L(g[j - 1], j)]
    BY <2>3
  <2>5. i + 1 \in 0 .. n
    OBVIOUS
  <2> QED
    BY <1>1, <2>4, <2>5
<1>4. \A i \in 0 .. n : i \in S
  <2> HIDE DEF S
  <2> QED
    BY <1>2, <1>3, UpTo
<1> QED
  BY <1>4

\* The first of them, and the others from the one before.
LEMMA GenerateStepsFacts ==
  ASSUME NEW start, NEW n \in Nat, NEW f, GenerateSteps(start, f, n)
  PROVE  /\ f[0] = GenerateStep(start, f[0 - 1], 0)
         /\ \A i \in 0 .. n - 1 : f[i + 1] = GenerateStep(start, f[i], i + 1)
<1> DEFINE L(x, i) == GenerateStep(start, x, i)
<1>1. f = [j \in 0 .. n |-> L(f[j - 1], j)]
  BY DEF GenerateSteps
<1> HIDE DEF L
<1>2. f[0] = L(f[0 - 1], 0)
  BY <1>1
<1>3. ASSUME NEW i \in 0 .. n - 1 PROVE f[i + 1] = L(f[i], i + 1)
  <2>1. i + 1 \in 0 .. n /\ (i + 1) - 1 = i
    OBVIOUS
  <2> QED
    BY <1>1, <2>1
<1> QED
  BY <1>2, <1>3 DEF L

\* There is a function of the states of the loop, one after the other.
LEMMA VirtualStepsExist ==
  ASSUME NEW st, NEW hidden, NEW mf, NEW rls, NEW n \in Nat
  PROVE  \E f : VirtualSteps(st, hidden, mf, rls, f, n)
<1> DEFINE L(x, i) == VirtualStep(st, hidden, mf, rls, x, i)
           S == {i \in 0 .. n : \E f : VirtualSteps(st, hidden, mf, rls, f, i)}
<1>0. \A x, y : L(x, 0) = L(y, 0)
  BY DEF VirtualStep
<1>1. \A f, i : VirtualSteps(st, hidden, mf, rls, f, i) <=> f = [j \in 0 .. i |-> L(f[j - 1], j)]
  BY DEF VirtualSteps
<1> HIDE DEF L
<1>2. 0 \in S
  <2> DEFINE f == [j \in 0 .. 0 |-> L({}, 0)]
  <2>1. \A j \in 0 .. 0 : L(f[j - 1], j) = L({}, 0)
    <3>1. \A j \in 0 .. 0 : j = 0
      OBVIOUS
    <3> QED
      BY <1>0, <3>1
  <2>2. f = [j \in 0 .. 0 |-> L(f[j - 1], j)]
    BY <2>1
  <2> HIDE DEF f
  <2>3. VirtualSteps(st, hidden, mf, rls, f, 0)
    BY <1>1, <2>2
  <2>4. 0 \in 0 .. n
    OBVIOUS
  <2> QED
    BY <2>3, <2>4
<1>3. ASSUME NEW i \in 0 .. n - 1, i \in S PROVE i + 1 \in S
  <2>1. PICK f : VirtualSteps(st, hidden, mf, rls, f, i)
    BY <1>3
  <2> DEFINE g == [j \in 0 .. i + 1 |-> IF j <= i THEN f[j] ELSE L(f[i], i + 1)]
  <2>2. f = [j \in 0 .. i |-> L(f[j - 1], j)]
    BY <1>1, <2>1
  <2>3. ASSUME NEW j \in 0 .. i + 1 PROVE g[j] = L(g[j - 1], j)
    <3>1. CASE j = 0
      <4>1. g[0] = f[0] /\ f[0] = L(f[0 - 1], 0)
        BY <2>2
      <4>2. L(f[0 - 1], 0) = L(g[0 - 1], 0)
        BY <1>0
      <4> QED
        BY <3>1, <4>1, <4>2
    <3>2. CASE j \in 1 .. i
      <4>1. g[j - 1] = f[j - 1] /\ g[j] = f[j]
        BY <3>2
      <4>2. f[j] = L(f[j - 1], j)
        BY <2>2, <3>2
      <4> QED
        BY <4>1, <4>2
    <3>3. CASE j = i + 1
      <4>1. g[j - 1] = f[i] /\ g[j] = L(f[i], i + 1)
        BY <3>3
      <4> QED
        BY <3>3, <4>1
    <3> QED
      BY <3>1, <3>2, <3>3
  <2>4. g = [j \in 0 .. i + 1 |-> L(g[j - 1], j)]
    BY <2>3
  <2>5. i + 1 \in 0 .. n
    OBVIOUS
  <2> QED
    BY <1>1, <2>4, <2>5
<1>4. \A i \in 0 .. n : i \in S
  <2> HIDE DEF S
  <2> QED
    BY <1>2, <1>3, UpTo
<1> QED
  BY <1>4

\* The first of them, and the others from the one before.
LEMMA VirtualStepsFacts ==
  ASSUME NEW st, NEW hidden, NEW mf, NEW rls, NEW n \in Nat, NEW f, VirtualSteps(st, hidden, mf, rls, f, n)
  PROVE  /\ f[0] = VirtualStep(st, hidden, mf, rls, f[0 - 1], 0)
         /\ \A i \in 0 .. n - 1 : f[i + 1] = VirtualStep(st, hidden, mf, rls, f[i], i + 1)
<1> DEFINE L(x, i) == VirtualStep(st, hidden, mf, rls, x, i)
<1>1. f = [j \in 0 .. n |-> L(f[j - 1], j)]
  BY DEF VirtualSteps
<1> HIDE DEF L
<1>2. f[0] = L(f[0 - 1], 0)
  BY <1>1
<1>3. ASSUME NEW i \in 0 .. n - 1 PROVE f[i + 1] = L(f[i], i + 1)
  <2>1. i + 1 \in 0 .. n /\ (i + 1) - 1 = i
    OBVIOUS
  <2> QED
    BY <1>1, <2>1
<1> QED
  BY <1>2, <1>3 DEF L

\* What the program holds before the first update.
Prepared(m, cacheSize, lowFirst, parsed, ready) ==
  /\ ParseSteps(m, InitState(cacheSize, lowFirst), parsed, NRules)
  /\ GenerateSteps(parsed[NRules], ready, NRules)
  /\ s = ready[NRules].s
  /\ rules = [r \in Rules |-> ready[NRules].rules[r + 1]]

\* The functions of GInit exist as the steps say.
LEMMA GInitFacts ==
  ASSUME GInit
  PROVE  \E m \in GivenRules, cacheSize \in CacheSizes, lowFirst \in BOOLEAN :
           \E parsed, ready : Prepared(m, cacheSize, lowFirst, parsed, ready)
<1> DEFINE P(m, cacheSize, lowFirst) ==
             CHOOSE f : ParseSteps(m, InitState(cacheSize, lowFirst), f, NRules)
           R(start) == CHOOSE f : GenerateSteps(start, f, NRules)
<1>1. \E m \in GivenRules, cacheSize \in CacheSizes, lowFirst \in BOOLEAN :
        LET parsed == P(m, cacheSize, lowFirst)
            ready  == R(parsed[NRules])
        IN  /\ s = ready[NRules].s
            /\ rules = [r \in Rules |-> ready[NRules].rules[r + 1]]
  BY Zenon DEF GInit, ParseSteps, ParseStep, GenerateSteps, GenerateStep
<1>2. PICK m \in GivenRules, cacheSize \in CacheSizes, lowFirst \in BOOLEAN :
        LET parsed == P(m, cacheSize, lowFirst)
            ready  == R(parsed[NRules])
        IN  /\ s = ready[NRules].s
            /\ rules = [r \in Rules |-> ready[NRules].rules[r + 1]]
  BY <1>1
<1>3. ParseSteps(m, InitState(cacheSize, lowFirst), P(m, cacheSize, lowFirst), NRules)
  BY NRulesNumber, ParseStepsExist DEF NRulesFacts
<1>4. \A start : GenerateSteps(start, R(start), NRules)
  BY NRulesNumber, GenerateStepsExist DEF NRulesFacts
<1> HIDE DEF P, R
<1> QED
  BY <1>2, <1>3, <1>4 DEF Prepared

\* The virtual rules of the loop of Update_aRule_Remove.
Hidden(st, r, types) == InOrder({x \in st.covering[r] : types[x] # "RM"})
Hiding(virtual) ==
  LET hidden == Hidden(s, r_i, type)
  IN  /\ VirtualSteps(s, hidden, rules[r_i].mf_in, rules, virtual, Len(hidden))
      /\ \E done \in {RemoveRule(virtual[Len(hidden)].s, mtbdd_sw, r_i, rules[r_i])} :
           /\ s' = done.s /\ mtbdd_sw' = done.res
           /\ vrules' = virtual[Len(hidden)].vrules

\* The function of RemoveOne exists as the steps say.
LEMMA RemoveOneFacts ==
  ASSUME RemoveOne, Len(Hidden(s, r_i, type)) \in Nat
  PROVE  \E virtual : Hiding(virtual)
<1> DEFINE hidden == Hidden(s, r_i, type)
           V == CHOOSE f : VirtualSteps(s, hidden, rules[r_i].mf_in, rules, f, Len(hidden))
<1>1. \E ready \in {V[Len(hidden)]} :
        \E done \in {RemoveRule(ready.s, mtbdd_sw, r_i, rules[r_i])} :
          s' = done.s /\ mtbdd_sw' = done.res /\ vrules' = ready.vrules
  BY Zenon DEF RemoveOne, VirtualSteps, VirtualStep, WithVirtual, Hidden
<1>2. VirtualSteps(s, hidden, rules[r_i].mf_in, rules, V, Len(hidden))
  BY VirtualStepsExist
<1> HIDE DEF V, hidden
<1>3. \E done \in {RemoveRule(V[Len(hidden)].s, mtbdd_sw, r_i, rules[r_i])} :
        /\ s' = done.s /\ mtbdd_sw' = done.res
        /\ vrules' = V[Len(hidden)].vrules
  BY <1>1
<1>4. Hiding(V)
  BY <1>2, <1>3 DEF Hiding, hidden
<1> QED
  BY <1>4

-----------------------------------------------------------------------------
(* The driver, whatever the table.                                         *)

\* The virtual rules still to insert.
Virtuals == [idx : Rules, mtbdd_in : Nat]

\* Every step of parsing leaves a typed state and the nodes of one more rule.
LEMMA ParsedTyped ==
  ASSUME NEW m \in GivenRules, NEW st, STyped(st), st.value = <<>>,
         NEW f, ParseSteps(m, st, f, NRules)
  PROVE  \A i \in 0 .. NRules :
           /\ SLater(st, f[i].s) /\ f[i].s.value = <<>>
           /\ f[i].rules \in Seq(RuleNodes) /\ Len(f[i].rules) = i
<1> DEFINE Ok(g, i) == /\ SLater(st, g.s) /\ g.s.value = <<>>
                       /\ g.rules \in Seq(RuleNodes) /\ Len(g.rules) = i
           S == {i \in 0 .. NRules : Ok(f[i], i)}
<1>0. NRules \in Nat /\ Rules = 0 .. NRules - 1
  BY NRulesNumber DEF NRulesFacts
<1>1. /\ f[0] = ParseStep(m, st, f[0 - 1], 0)
      /\ \A i \in 0 .. NRules - 1 : f[i + 1] = ParseStep(m, st, f[i], i + 1)
  <2>1. ParseStepByStep(m, st, f, NRules)
    BY <1>0, ParseStepsFacts
  <2> QED
    BY <2>1 DEF ParseStepByStep
<1>2. 0 \in S
  <2>1. f[0].s = st /\ f[0].rules = <<>>
    BY <1>1 DEF ParseStep
  <2>2. SLater(st, st)
    BY SFields DEF SLater, Later, STyped
  <2>3. <<>> \in Seq(RuleNodes) /\ Len(<<>>) = 0 /\ 0 \in 0 .. NRules
    BY <1>0
  <2>4. Ok(f[0], 0)
    BY <2>1, <2>2, <2>3
  <2> HIDE DEF Ok
  <2> QED
    BY <2>3, <2>4
<1>3. ASSUME NEW i \in 0 .. NRules - 1, i \in S PROVE i + 1 \in S
  <2> DEFINE g == f[i]
             x == m[i]
             made == Parse(g, x)
  <2>1. i + 1 # 0 /\ (i + 1) - 1 = i /\ i + 1 \in 0 .. NRules
    BY <1>0
  <2>2. f[i + 1] = made
    BY <1>1, <2>1 DEF ParseStep
  <2>3. Ok(g, i)
    BY <1>3
  <2>4. x \in Given
    BY <1>0, GraphAssumption DEF Given
  <2> HIDE DEF g, x
  <2>5. /\ SLater(g.s, made.s) /\ made.s.value = g.s.value
        /\ made.rules \in Seq(RuleNodes) /\ Len(made.rules) = Len(g.rules) + 1
    BY <2>3, <2>4, ParseLater DEF SLater
  <2>6. SLater(st, made.s)
    BY <2>3, <2>5, SLaterTransitive
  <2> HIDE DEF made
  <2> QED
    BY <2>1, <2>2, <2>3, <2>5, <2>6
<1>4. \A i \in 0 .. NRules : i \in S
  <2> HIDE DEF S
  <2> QED
    BY <1>0, <1>2, <1>3, UpTo
<1> QED
  BY <1>4

\* Every step of generate_mtbddrules leaves a typed state with value nodes for
\* the rules so far.
LEMMA GeneratedTyped ==
  ASSUME NEW start, STyped(start.s), start.s.value = <<>>,
         start.rules \in Seq(RuleNodes), Len(start.rules) = NRules,
         NEW f, GenerateSteps(start, f, NRules)
  PROVE  \A i \in 0 .. NRules :
           /\ SLater(start.s, f[i].s) /\ ForFirst(f[i].s.value, i)
           /\ f[i].rules \in Seq(RuleNodes) /\ Len(f[i].rules) = NRules
<1> DEFINE Ok(g, i) == /\ SLater(start.s, g.s) /\ ForFirst(g.s.value, i)
                       /\ g.rules \in Seq(RuleNodes) /\ Len(g.rules) = NRules
           S == {i \in 0 .. NRules : Ok(f[i], i)}
<1>0. NRules \in Nat /\ Rules = 0 .. NRules - 1
  BY NRulesNumber DEF NRulesFacts
<1>1. /\ f[0] = GenerateStep(start, f[0 - 1], 0)
      /\ \A i \in 0 .. NRules - 1 : f[i + 1] = GenerateStep(start, f[i], i + 1)
  BY <1>0, GenerateStepsFacts
<1>2. 0 \in S
  <2>1. f[0] = start
    BY <1>1 DEF GenerateStep
  <2>2. SLater(start.s, start.s) /\ ForFirst(start.s.value, 0)
    BY SFields DEF SLater, Later, STyped, ForFirst
  <2> QED
    BY <1>0, <2>1, <2>2
<1>3. ASSUME NEW i \in 0 .. NRules - 1, i \in S PROVE i + 1 \in S
  <2> DEFINE g == f[i]
             made == GenerateRule(g, i)
  <2>1. i + 1 # 0 /\ (i + 1) - 1 = i /\ i + 1 \in 0 .. NRules /\ i \in Rules
    BY <1>0
  <2>2. f[i + 1] = made
    BY <1>1, <2>1 DEF GenerateStep
  <2>3. Ok(g, i)
    BY <1>3
  <2>4. i + 1 \in DOMAIN g.rules
    BY <1>0, <2>1, <2>3
  <2> HIDE DEF g
  <2>5. /\ SLater(g.s, made.s) /\ ForFirst(made.s.value, i + 1)
        /\ made.rules \in Seq(RuleNodes) /\ Len(made.rules) = Len(g.rules)
    BY <2>1, <2>3, <2>4, GenerateRuleLater DEF SLater
  <2>6. SLater(start.s, made.s)
    BY <2>3, <2>5, SLaterTransitive
  <2> HIDE DEF made
  <2> QED
    BY <2>1, <2>2, <2>3, <2>5, <2>6
<1>4. \A i \in 0 .. NRules : i \in S
  <2> HIDE DEF S
  <2> QED
    BY <1>0, <1>2, <1>3, UpTo
<1> QED
  BY <1>4

\* The rules that a removed one hides.
LEMMA HiddenRules ==
  ASSUME NEW st, STyped(st), NEW r \in Rules, NEW types
  PROVE  /\ Hidden(st, r, types) \in Seq(Rules)
         /\ DOMAIN Hidden(st, r, types) = 1 .. Len(Hidden(st, r, types))
         /\ Len(Hidden(st, r, types)) \in Nat
<1> DEFINE S == {x \in st.covering[r] : types[x] # "RM"}
           q == InOrder(S)
<1>1. S \in SUBSET Nat /\ S \subseteq Rules /\ IsFiniteSet(S)
  <2>1. S \subseteq Rules /\ Rules \subseteq Nat /\ IsFiniteSet(Rules)
    BY SFields, GraphAssumption
  <2> QED
    BY <2>1, FS_Subset
<1> HIDE DEF S
<1>2. q \in Seq(Nat) /\ Entries(q) = S
  BY <1>1, InOrderList
<1> HIDE DEF q
<1>3. Len(q) \in Nat /\ DOMAIN q = 1 .. Len(q)
  BY <1>2
<1>4. q = [i \in 1 .. Len(q) |-> q[i]] /\ \A i \in 1 .. Len(q) : q[i] \in Rules
  BY <1>1, <1>2, <1>3 DEF Entries
<1>5. q \in Seq(Rules)
  BY <1>3, <1>4
<1> QED
  BY <1>3, <1>5 DEF q, S, Hidden

\* Every step of the loop leaves a typed state and one more virtual rule.
LEMMA VirtualTyped ==
  ASSUME NEW st, STyped(st), NEW hidden \in Seq(Rules), NEW mf \in Nat,
         NEW rls \in [Rules -> RuleNodes],
         NEW f, VirtualSteps(st, hidden, mf, rls, f, Len(hidden))
  PROVE  \A i \in 0 .. Len(hidden) :
           /\ SLater(st, f[i].s)
           /\ f[i].vrules \in Seq(Virtuals) /\ Len(f[i].vrules) = i
<1> DEFINE N == Len(hidden)
           Ok(g, i) == SLater(st, g.s) /\ g.vrules \in Seq(Virtuals) /\ Len(g.vrules) = i
           S == {i \in 0 .. N : Ok(f[i], i)}
<1>0. N \in Nat /\ \A i \in 1 .. N : hidden[i] \in Rules
  OBVIOUS
<1>1. /\ f[0] = VirtualStep(st, hidden, mf, rls, f[0 - 1], 0)
      /\ \A i \in 0 .. N - 1 : f[i + 1] = VirtualStep(st, hidden, mf, rls, f[i], i + 1)
  BY <1>0, VirtualStepsFacts
<1> HIDE DEF N
<1>2. 0 \in S
  <2>1. f[0].s = st /\ f[0].vrules = <<>>
    BY <1>1 DEF VirtualStep
  <2>2. SLater(st, st)
    BY SFields DEF SLater, Later, STyped
  <2>3. <<>> \in Seq(Virtuals) /\ Len(<<>>) = 0 /\ 0 \in 0 .. N
    BY <1>0
  <2>4. Ok(f[0], 0)
    BY <2>1, <2>2, <2>3
  <2> HIDE DEF Ok
  <2> QED
    BY <2>3, <2>4
<1>3. ASSUME NEW i \in 0 .. N - 1, i \in S PROVE i + 1 \in S
  <2> DEFINE g == f[i]
             h == hidden[i + 1]
             x == rls[h]
             done == VirtualRule(g.s, mf, x)
             w == [idx |-> h, mtbdd_in |-> done.res]
             made == WithVirtual(g, h, done)
  <2>1. i + 1 # 0 /\ i + 1 \in 0 .. N /\ i + 1 \in 1 .. N /\ i \in Nat
    BY <1>0
  <2>2. f[i + 1] = made
    <3>1. f[i + 1] = VirtualStep(st, hidden, mf, rls, f[i], i + 1)
      BY <1>1
    <3> QED
      BY Zenon, <2>1, <3>1 DEF VirtualStep
  <2>3. Ok(g, i)
    BY <1>3
  <2>4. h \in Rules /\ x \in RuleNodes
    BY <1>0, <2>1
  <2>5. made.s = done.s /\ made.vrules = Append(g.vrules, w)
    BY DEF WithVirtual
  <2> HIDE DEF g, h, x, made
  <2>6. SLater(g.s, done.s) /\ done.res \in Nat
    BY <2>3, <2>4, VirtualRuleLater DEF SLater
  <2>7. SLater(st, done.s)
    BY <2>3, <2>6, SLaterTransitive
  <2> HIDE DEF done
  <2>8. w \in Virtuals
    BY <2>4, <2>6 DEF Virtuals
  <2> HIDE DEF w
  <2>9. Append(g.vrules, w) \in Seq(Virtuals) /\ Len(Append(g.vrules, w)) = i + 1
    BY <2>1, <2>3, <2>8
  <2> QED
    BY <2>1, <2>2, <2>5, <2>7, <2>9
<1>4. \A i \in 0 .. N : i \in S
  <2> HIDE DEF S
  <2> QED
    BY <1>0, <1>2, <1>3, UpTo
<1> QED
  BY <1>4 DEF N

\* What the driver's variables are.
GTyped ==
  /\ STyped(s)
  /\ rules \in [Rules -> RuleNodes]
  /\ type \in [Rules -> {"new", "BS", "RM"}]
  /\ mtbdd_sw \in Nat
  /\ vrules \in Seq(Virtuals)
  /\ removed \in Rules \union {NULL}
  /\ phase \in {"build", "remove", "insert"}
  /\ r_i \in 0 .. NRules
  /\ phase = "insert" => r_i < NRules

\* What the program starts with.
LEMMA PreparedTyped ==
  ASSUME NEW m \in GivenRules, NEW cacheSize \in CacheSizes, NEW lowFirst \in BOOLEAN,
         NEW parsed, NEW ready, Prepared(m, cacheSize, lowFirst, parsed, ready)
  PROVE  STyped(s) /\ rules \in [Rules -> RuleNodes]
<1> DEFINE st == InitState(cacheSize, lowFirst)
<1>0. NRules \in Nat /\ Rules = 0 .. NRules - 1
  BY NRulesNumber DEF NRulesFacts
<1>1. STyped(st) /\ st.value = <<>>
  BY InitStateTyped
<1> HIDE DEF st
<1>2. /\ ParseSteps(m, st, parsed, NRules)
      /\ GenerateSteps(parsed[NRules], ready, NRules)
      /\ s = ready[NRules].s
      /\ rules = [r \in Rules |-> ready[NRules].rules[r + 1]]
  BY DEF Prepared, st
<1> DEFINE start == parsed[NRules]
           end == ready[NRules]
<1>3. /\ STyped(start.s) /\ start.s.value = <<>>
      /\ start.rules \in Seq(RuleNodes) /\ Len(start.rules) = NRules
  <2>1. /\ SLater(st, start.s) /\ start.s.value = <<>>
        /\ start.rules \in Seq(RuleNodes) /\ Len(start.rules) = NRules
    <3>1. NRules \in 0 .. NRules
      BY <1>0
    <3> QED
      BY Zenon, <1>1, <1>2, <3>1, ParsedTyped
  <2> QED
    BY <2>1 DEF SLater
<1> HIDE DEF start
<1>4. GenerateSteps(start, ready, NRules)
  BY <1>2 DEF start
<1>5. STyped(end.s) /\ end.rules \in Seq(RuleNodes) /\ Len(end.rules) = NRules
  BY <1>0, <1>3, <1>4, GeneratedTyped DEF SLater
<1>6. s = end.s /\ rules = [r \in Rules |-> end.rules[r + 1]]
  BY <1>2
<1> HIDE DEF end
<1>7. \A r \in Rules : r + 1 \in 1 .. NRules /\ end.rules[r + 1] \in RuleNodes
  BY <1>0, <1>5
<1> QED
  BY <1>5, <1>6, <1>7

\* The types hold when the rules are read ...
LEMMA InitTyped == GInit => GTyped
<1> SUFFICES ASSUME GInit PROVE GTyped
  OBVIOUS
<1>1. PICK m \in GivenRules, cacheSize \in CacheSizes, lowFirst \in BOOLEAN :
        \E parsed, ready : Prepared(m, cacheSize, lowFirst, parsed, ready)
  BY GInitFacts
<1>2. STyped(s) /\ rules \in [Rules -> RuleNodes]
  BY <1>1, PreparedTyped
<1>3. /\ type = [r \in Rules |-> "new"] /\ mtbdd_sw = 0 /\ vrules = <<>>
      /\ removed = NULL /\ phase = "build" /\ r_i = 0
  BY DEF GInit
<1>4. NRules \in Nat
  BY NRulesNumber DEF NRulesFacts
<1> QED
  BY <1>2, <1>3, <1>4 DEF GTyped

\* An insertion, and the reset that may follow it.
LEMMA InsertTyped ==
  ASSUME GTyped, r_i < NRules, Insert
  PROVE  /\ STyped(s') /\ mtbdd_sw' \in Nat /\ rules' = rules /\ vrules' = vrules
         /\ removed' = removed /\ type' \in [Rules -> {"new", "BS", "RM"}]
         /\ r_i' = r_i + 1 /\ r_i' \in 0 .. NRules
<1> DEFINE done == InsertRule(s, mtbdd_sw, rules[r_i].mtbdd_in)
<1>1. /\ s' = AfterUpdate(done.s) /\ mtbdd_sw' = done.res
      /\ type' = [type EXCEPT ![r_i] = "BS"] /\ r_i' = r_i + 1
      /\ rules' = rules /\ vrules' = vrules /\ removed' = removed
  BY DEF Insert
<1>2. /\ NRules \in Nat /\ r_i \in Rules /\ r_i' \in 0 .. NRules
  BY <1>1, NRulesNumber DEF GTyped, NRulesFacts
<1>3. rules[r_i].mtbdd_in \in Nat
  <2>1. rules[r_i] \in RuleNodes
    BY <1>2 DEF GTyped
  <2> QED
    BY <2>1 DEF RuleNodes
<1>4. SLater(s, done.s) /\ done.res \in Nat
  BY <1>3, InsertRuleLater DEF GTyped
<1> HIDE DEF done
<1>5. STyped(s')
  <2> DEFINE st == done.s
  <2>1. STyped(st) /\ s' = AfterUpdate(st)
    BY <1>1, <1>4 DEF SLater
  <2> HIDE DEF st
  <2>2. SLater(st, AfterUpdate(st))
    BY <2>1, AfterUpdateLater
  <2> QED
    BY <2>1, <2>2 DEF SLater
<1>6. type' \in [Rules -> {"new", "BS", "RM"}]
  BY <1>1, <1>2 DEF GTyped
<1> QED
  BY <1>1, <1>2, <1>4, <1>5, <1>6

\* A removal, with the virtual rules before it.
LEMMA RemoveOneTyped ==
  ASSUME GTyped, RemoveOne
  PROVE  GTyped'
<1> DEFINE hidden == Hidden(s, r_i, type)
           mf == rules[r_i].mf_in
           x == rules[r_i]
<1>1. /\ type' = [type EXCEPT ![r_i] = "RM"] /\ phase' = "insert"
      /\ removed' = (IF vrules' = <<>> THEN NULL ELSE r_i)
      /\ rules' = rules /\ r_i' = r_i /\ r_i < NRules
  BY DEF RemoveOne
<1>2. NRules \in Nat /\ r_i \in Rules
  BY <1>1, NRulesNumber DEF GTyped, NRulesFacts
<1>3. hidden \in Seq(Rules) /\ Len(hidden) \in Nat
  BY <1>2, HiddenRules DEF GTyped
<1>4. PICK virtual : Hiding(virtual)
  BY <1>3, RemoveOneFacts
<1> DEFINE last == virtual[Len(hidden)]
           done == RemoveRule(last.s, mtbdd_sw, r_i, x)
<1>5. /\ VirtualSteps(s, hidden, mf, rules, virtual, Len(hidden))
      /\ s' = done.s /\ mtbdd_sw' = done.res /\ vrules' = last.vrules
  BY <1>4 DEF Hiding
<1>6. x \in RuleNodes /\ mf \in Nat
  BY <1>2 DEF GTyped, RuleNodes
<1> HIDE DEF hidden, mf, x
<1>7. SLater(s, last.s) /\ last.vrules \in Seq(Virtuals)
  BY <1>3, <1>5, <1>6, VirtualTyped DEF GTyped
<1> HIDE DEF last
<1>8. SLater(last.s, done.s) /\ done.res \in Nat
  <2> DEFINE st == last.s
  <2>1. STyped(st) /\ mtbdd_sw \in Nat
    BY <1>7 DEF SLater, GTyped
  <2> HIDE DEF st
  <2> DEFINE in   == Begin(st, mtbdd_sw)
             run  == Run(in, "remove", mtbdd_sw, x.mtbdd_in)
             made == RemoveRule(st, mtbdd_sw, r_i, x)
  <2>2. SLater(st, made.s) /\ made.res = run.res /\ run.res \in Nat
    BY <1>2, <1>6, <2>1, RemoveRuleLater
  <2> HIDE DEF run, made
  <2> QED
    BY <2>2 DEF made, st
<1> HIDE DEF done
<1>9. type' \in [Rules -> {"new", "BS", "RM"}]
  BY <1>1, <1>2 DEF GTyped
<1> QED
  BY <1>1, <1>2, <1>5, <1>7, <1>8, <1>9 DEF GTyped, SLater

\* One iteration of the loop that inserts the virtual rules.
LEMMA ReaddTyped ==
  ASSUME GTyped, ReaddHidden
  PROVE  GTyped'
<1> DEFINE done == InsertRule(s, mtbdd_sw, Head(vrules).mtbdd_in)
<1>1. /\ s' = done.s /\ mtbdd_sw' = done.res /\ vrules' = Tail(vrules) /\ vrules # <<>>
      /\ removed' = (IF vrules' = <<>> THEN NULL ELSE removed)
      /\ rules' = rules /\ type' = type /\ phase' = phase /\ r_i' = r_i
  BY DEF ReaddHidden
<1>2. Head(vrules) \in Virtuals /\ Tail(vrules) \in Seq(Virtuals)
  BY <1>1 DEF GTyped
<1>3. SLater(s, done.s) /\ done.res \in Nat
  BY <1>2, InsertRuleLater DEF GTyped, Virtuals
<1> HIDE DEF done
<1> QED
  BY <1>1, <1>2, <1>3 DEF GTyped, SLater

\* ... and after every step.
LEMMA NextTyped == GTyped /\ [GNext]_gvars => GTyped'
<1> SUFFICES ASSUME GTyped, [GNext]_gvars PROVE GTyped'
  OBVIOUS
<1>0. NRules \in Nat
  BY NRulesNumber DEF NRulesFacts
<1>1. CASE Build
  BY <1>1, InsertTyped DEF GTyped, Build
<1>2. CASE StartReadd
  BY <1>0, <1>2 DEF GTyped, StartReadd
<1>3. CASE RemoveNothing
  BY <1>3 DEF GTyped, RemoveNothing
<1>4. CASE RemoveOne
  BY <1>4, RemoveOneTyped
<1>5. CASE ReaddHidden
  BY <1>5, ReaddTyped
<1>6. CASE InsertOne
  BY <1>6, InsertTyped DEF GTyped, InsertOne
<1>7. CASE UNCHANGED gvars
  BY <1>7 DEF GTyped, gvars
<1> QED
  BY <1>1, <1>2, <1>3, <1>4, <1>5, <1>6, <1>7 DEF GNext

\* The driver's variables keep their types whatever happens: also after a
\* collection that the recursion was not prepared for, and after the program ended.
THEOREM GraphTypeCorrect == GSpec => []GTyped
<1>1. GInit => GTyped
  BY InitTyped
<1>2. GTyped /\ [GNext]_gvars => GTyped'
  BY NextTyped
<1> QED
  BY <1>1, <1>2, PTL DEF GSpec

\* Update_aRule_Insert_1tb and Remove_aRule_fr_Mtbddnet_1tb search the hash
\* chains before they make a value node: no pair of rules ever has two.
THEOREM GraphOnePerPair == GSpec => []OnePerPair
<1>1. GTyped => OnePerPair
  BY DEF GTyped, STyped, Distinct, OnePerPair
<1> QED
  BY <1>1, GraphTypeCorrect, PTL

-----------------------------------------------------------------------------
(* References on a table that has met no collection.                       *)

\* What a change of references or of cache entries keeps.
Kept(t, u) == Steady(u) /\ Grown(t, u) /\ u.memo = t.memo

\* Node n has at least c[n] references, or its count stays for ever.
Accounted(t, c) ==
  \A n \in DOMAIN t.node : n >= 3 => t.node[n].refcou = MaxRef \/ c[n] <= t.node[n].refcou

\* One holder more, and one less.
WithHolder(c, n) == [c EXCEPT ![n] = @ + 1]
WithoutHolder(c, n) == [c EXCEPT ![n] = @ - 1]

\* Counts of holders.
LEMMA MoreFacts ==
  ASSUME NEW c \in [Nat -> Nat], NEW n \in Nat
  PROVE  /\ WithHolder(c, n) \in [Nat -> Nat]
         /\ \A m \in Nat : WithHolder(c, n)[m] = IF m = n THEN c[n] + 1 ELSE c[m]
         /\ \A m \in Nat : WithoutHolder(c, n)[m] = IF m = n THEN c[n] - 1 ELSE c[m]
BY DEF WithHolder, WithoutHolder

\* The same nodes in the same slots, and no new entry of the cache of bdd_apply.
LEMMA NodesSteady ==
  ASSUME NEW t, Steady(t), NEW u, Typed(u), u.size = t.size, u.free = t.free,
         DOMAIN u.node = DOMAIN t.node, \A m \in DOMAIN t.node : Same(t, m, u, m),
         u.collected = t.collected, u.stopped = t.stopped, u.wild = t.wild,
         u.cache \subseteq t.cache
  PROVE  Steady(u) /\ Grown(t, u)
<1>1. Slots(u) = Slots(t)
  BY DEF Slots
<1>2. Slots(t) \subseteq DOMAIN t.node
  BY TypedFields DEF Steady
<1>3. Used(u) = Used(t)
  BY <1>1, <1>2 DEF Used, Same
<1>4. Grown(t, u)
  BY <1>2, <1>3 DEF Grown, Used
<1>5. Bdds(t) \subseteq Bdds(u)
  BY <1>4, GrownFacts, 0 \in Nat, 0 <= 0
<1>6. \A n \in Used(t) : /\ u.node[n].level = t.node[n].level /\ u.node[n].low = t.node[n].low
                         /\ u.node[n].high = t.node[n].high
  BY <1>4 DEF Grown, Same
<1>7. {0, 1, 2} \subseteq Used(t) /\ Bdds(t) \subseteq Used(t)
  BY BddFacts DEF Steady
<1>8. \A e \in u.cache :
        /\ {e.l, e.r, e.res} \subseteq Bdds(u)
        /\ \/ u.node[e.l].level <= u.node[e.res].level
           \/ u.node[e.r].level <= u.node[e.res].level
  <2>1. TAKE e \in u.cache
  <2>2. /\ {e.l, e.r, e.res} \subseteq Bdds(t)
        /\ \/ t.node[e.l].level <= t.node[e.res].level
           \/ t.node[e.r].level <= t.node[e.res].level
    BY DEF Steady
  <2>3. {e.l, e.r, e.res} \subseteq Used(t)
    BY <1>7, <2>2
  <2> QED
    BY <1>5, <1>6, <2>2, <2>3
<1> QED
  BY <1>1, <1>3, <1>4, <1>6, <1>7, <1>8 DEF Steady

\* Another reference count.
LEMMA CountSteady ==
  ASSUME NEW t, Steady(t), NEW n \in Used(t), NEW k \in 0 .. MaxRef
  PROVE  LET u == [t EXCEPT !.node[n].refcou = k]
         IN  /\ Kept(t, u) /\ DOMAIN u.node = DOMAIN t.node
             /\ \A m \in DOMAIN t.node :
                  u.node[m].refcou = IF m = n THEN k ELSE t.node[m].refcou
<1> DEFINE u == [t EXCEPT !.node[n].refcou = k]
<1>1. /\ Later(t, u) /\ DOMAIN u.node = DOMAIN t.node
      /\ u.size = t.size /\ u.free = t.free
      /\ u.cache = t.cache /\ u.memo = t.memo
      /\ u.collected = t.collected /\ u.stopped = t.stopped /\ u.wild = t.wild
      /\ \A m \in DOMAIN t.node : Same(t, m, u, m)
      /\ \A m \in DOMAIN t.node :
           u.node[m].refcou = IF m = n THEN k ELSE t.node[m].refcou
  BY CountLater DEF Steady
<1> HIDE DEF u
<1>2. Steady(u) /\ Grown(t, u)
  BY <1>1, NodesSteady DEF Later
<1> QED
  BY <1>1, <1>2 DEF Kept, u

\* bdd_addref for a new holder.
LEMMA AddRefSteady ==
  ASSUME NEW t, Steady(t), NEW c \in [Nat -> Nat], Accounted(t, c), NEW n \in Used(t), n # 2
  PROVE  LET u == AddRef(t, n)
         IN  Kept(t, u) /\ Accounted(u, WithHolder(c, n)) /\ WithHolder(c, n) \in [Nat -> Nat]
<1> DEFINE k == IF t.node[n].refcou < MaxRef THEN t.node[n].refcou + 1 ELSE t.node[n].refcou
           u == [t EXCEPT !.node[n].refcou = k]
<1>1. /\ n \in Nat /\ n \in DOMAIN t.node /\ t.node[n].refcou \in 0 .. MaxRef /\ MaxRef \in Nat
      /\ DOMAIN t.node \subseteq Nat
      /\ \A m \in DOMAIN t.node : t.node[m].refcou \in 0 .. MaxRef
  <2>1. /\ DOMAIN t.node = 0 .. MaxSize - 1 /\ n \in DOMAIN t.node /\ n \in Nat
        /\ \A m \in DOMAIN t.node : t.node[m] \in Nodes
    BY TypedFields DEF Steady
  <2>2. \A m \in DOMAIN t.node : t.node[m].refcou \in 0 .. MaxRef
    BY <2>1 DEF Nodes
  <2> QED
    BY <2>1, <2>2, SizeAssumption
<1>2. /\ WithHolder(c, n) \in [Nat -> Nat]
      /\ \A m \in Nat : WithHolder(c, n)[m] = IF m = n THEN c[n] + 1 ELSE c[m]
  BY <1>1, MoreFacts
<1>3. CASE n < 2
  <2>1. AddRef(t, n) = t
    BY <1>3 DEF AddRef
  <2>2. Accounted(t, WithHolder(c, n))
    BY <1>1, <1>2, <1>3 DEF Accounted
  <2>3. Kept(t, t)
    BY DEF Kept, Grown, Same
  <2> QED
    BY <1>2, <2>1, <2>2, <2>3
<1>4. CASE ~ (n < 2)
  <2>1. AddRef(t, n) = u
    BY <1>4 DEF AddRef
  <2>2. k \in 0 .. MaxRef /\ (k = MaxRef \/ k = t.node[n].refcou + 1)
    BY <1>1
  <2> HIDE DEF k
  <2>3. /\ Kept(t, u) /\ DOMAIN u.node = DOMAIN t.node
        /\ \A m \in DOMAIN t.node :
             u.node[m].refcou = IF m = n THEN k ELSE t.node[m].refcou
    BY <2>2, CountSteady
  <2> HIDE DEF u
  <2>4. Accounted(u, WithHolder(c, n))
    <3> SUFFICES ASSUME NEW m \in DOMAIN t.node, m >= 3
                 PROVE  u.node[m].refcou = MaxRef \/ WithHolder(c, n)[m] <= u.node[m].refcou
      BY <2>3 DEF Accounted
    <3>1. t.node[m].refcou = MaxRef \/ c[m] <= t.node[m].refcou
      BY DEF Accounted
    <3>2. CASE m = n
      <4>1. u.node[m].refcou = k /\ WithHolder(c, n)[m] = c[n] + 1 /\ c[n] \in Nat
        BY <1>1, <1>2, <2>3, <3>2
      <4> QED
        BY <1>1, <2>2, <3>1, <3>2, <4>1
    <3>3. CASE m # n
      <4>1. u.node[m].refcou = t.node[m].refcou /\ WithHolder(c, n)[m] = c[m]
        BY <1>1, <1>2, <2>3, <3>3
      <4> QED
        BY <3>1, <4>1
    <3> QED
      BY <3>2, <3>3
  <2> QED
    BY <1>2, <2>1, <2>3, <2>4
<1> QED
  BY <1>3, <1>4

\* bdd_delref by a holder: the reference is there.
LEMMA DelRefSteady ==
  ASSUME NEW t, Steady(t), NEW c \in [Nat -> Nat], Accounted(t, c), NEW n \in Used(t), n # 2,
         c[n] >= 1
  PROVE  LET u == DelRef(t, n)
         IN  Kept(t, u) /\ Accounted(u, WithoutHolder(c, n)) /\ WithoutHolder(c, n) \in [Nat -> Nat]
<1> DEFINE k == IF t.node[n].refcou # MaxRef THEN t.node[n].refcou - 1 ELSE t.node[n].refcou
           u == [t EXCEPT !.node[n].refcou = k]
<1>1. /\ n \in Nat /\ n \in DOMAIN t.node /\ t.node[n].refcou \in 0 .. MaxRef
      /\ MaxRef \in Nat \ {0}
      /\ DOMAIN t.node \subseteq Nat
      /\ \A m \in DOMAIN t.node : t.node[m].refcou \in 0 .. MaxRef
  <2>1. /\ DOMAIN t.node = 0 .. MaxSize - 1 /\ n \in DOMAIN t.node /\ n \in Nat
        /\ \A m \in DOMAIN t.node : t.node[m] \in Nodes
    BY TypedFields DEF Steady
  <2>2. \A m \in DOMAIN t.node : t.node[m].refcou \in 0 .. MaxRef
    BY <2>1 DEF Nodes
  <2> QED
    BY <2>1, <2>2, SizeAssumption
<1>2. \A m \in Nat : WithoutHolder(c, n)[m] = IF m = n THEN c[n] - 1 ELSE c[m]
  BY <1>1, MoreFacts
<1>3. WithoutHolder(c, n) \in [Nat -> Nat]
  <2>1. c[n] - 1 \in Nat
    BY <1>1
  <2> QED
    BY <2>1 DEF WithoutHolder
<1>4. CASE n < 2
  <2>1. DelRef(t, n) = t
    BY <1>4 DEF DelRef
  <2>2. Accounted(t, WithoutHolder(c, n))
    BY <1>1, <1>2, <1>4 DEF Accounted
  <2>3. Kept(t, t)
    BY DEF Kept, Grown, Same
  <2> QED
    BY <1>3, <2>1, <2>2, <2>3
<1>5. CASE ~ (n < 2)
  <2>0. n >= 3 /\ c[n] \in Nat
    BY <1>1, <1>5
  <2>1. t.node[n].refcou # 0
    <3>1. t.node[n].refcou = MaxRef \/ c[n] <= t.node[n].refcou
      BY <1>1, <2>0 DEF Accounted
    <3> QED
      BY <1>1, <2>0, <3>1
  <2>2. DelRef(t, n) = u
    BY <1>5, <2>1 DEF DelRef
  <2>3. /\ k \in 0 .. MaxRef
        /\ \/ k = MaxRef /\ t.node[n].refcou = MaxRef
           \/ k = t.node[n].refcou - 1 /\ t.node[n].refcou # MaxRef
    BY <1>1, <2>1
  <2> HIDE DEF k
  <2>4. /\ Kept(t, u) /\ DOMAIN u.node = DOMAIN t.node
        /\ \A m \in DOMAIN t.node :
             u.node[m].refcou = IF m = n THEN k ELSE t.node[m].refcou
    BY <2>3, CountSteady
  <2> HIDE DEF u
  <2>5. Accounted(u, WithoutHolder(c, n))
    <3> SUFFICES ASSUME NEW m \in DOMAIN t.node, m >= 3
                 PROVE  u.node[m].refcou = MaxRef \/ WithoutHolder(c, n)[m] <= u.node[m].refcou
      BY <2>4 DEF Accounted
    <3>1. t.node[m].refcou = MaxRef \/ c[m] <= t.node[m].refcou
      BY DEF Accounted
    <3>2. CASE m = n
      <4>1. u.node[m].refcou = k /\ WithoutHolder(c, n)[m] = c[n] - 1
        BY <1>1, <1>2, <2>4, <3>2
      <4> QED
        BY <1>1, <2>0, <2>3, <3>1, <3>2, <4>1
    <3>3. CASE m # n
      <4>1. u.node[m].refcou = t.node[m].refcou /\ WithoutHolder(c, n)[m] = c[m]
        BY <1>1, <1>2, <2>4, <3>3
      <4> QED
        BY <3>1, <4>1
    <3> QED
      BY <3>2, <3>3
  <2> QED
    BY <1>3, <2>2, <2>4, <2>5
<1> QED
  BY <1>4, <1>5

-----------------------------------------------------------------------------
(* How many hold a node: value nodes, and ext[n] other holders.            *)

Owners(value, n) == {v \in DOMAIN value : value[v].self_bdd = n}
Total(ext, value) == [n \in Nat |-> ext[n] + Cardinality(Owners(value, n))]

\* The owners are finitely many.
LEMMA OwnersFinite ==
  ASSUME NEW value \in Seq(ValueNodes), NEW n
  PROVE  IsFiniteSet(Owners(value, n)) /\ Cardinality(Owners(value, n)) \in Nat
<1>1. DOMAIN value = 1 .. Len(value) /\ Len(value) \in Nat
  OBVIOUS
<1>2. IsFiniteSet(1 .. Len(value))
  BY <1>1, FS_Interval
<1>3. Owners(value, n) \subseteq 1 .. Len(value)
  BY <1>1 DEF Owners
<1> QED
  BY <1>2, <1>3, FS_Subset, FS_CardinalityType

\* The total is a number of every node, and counts every value node.
LEMMA TotalNumber ==
  ASSUME NEW ext \in [Nat -> Nat], NEW value \in Seq(ValueNodes)
  PROVE  /\ Total(ext, value) \in [Nat -> Nat]
         /\ \A n \in Nat : /\ Total(ext, value)[n] = ext[n] + Cardinality(Owners(value, n))
                           /\ Total(ext, value)[n] >= ext[n]
         /\ \A v \in DOMAIN value : Total(ext, value)[value[v].self_bdd] >= 1
<1>1. \A n : IsFiniteSet(Owners(value, n)) /\ Cardinality(Owners(value, n)) \in Nat
  BY OwnersFinite
<1>2. ASSUME NEW v \in DOMAIN value
      PROVE  value[v].self_bdd \in Nat /\ Cardinality(Owners(value, value[v].self_bdd)) >= 1
  <2> DEFINE S == Owners(value, value[v].self_bdd)
  <2>1. v \in S
    BY DEF Owners
  <2>2. IsFiniteSet(S) /\ Cardinality(S) \in Nat
    BY <1>1
  <2> HIDE DEF S
  <2>3. Cardinality(S) # 0
    BY <2>1, <2>2, FS_EmptySet
  <2>4. value[v].self_bdd \in Nat
    <3>1. value[v] \in ValueNodes
      OBVIOUS
    <3> QED
      BY <3>1 DEF ValueNodes
  <2> QED
    BY <2>2, <2>3, <2>4 DEF S
<1> DEFINE c == Total(ext, value)
<1>3. \A n \in Nat : c[n] = ext[n] + Cardinality(Owners(value, n))
  BY DEF Total
<1>4. \A n \in Nat : /\ ext[n] \in Nat /\ ext[n] + Cardinality(Owners(value, n)) \in Nat
                     /\ ext[n] + Cardinality(Owners(value, n)) >= ext[n]
                     /\ Cardinality(Owners(value, n)) >= 1
                          => ext[n] + Cardinality(Owners(value, n)) >= 1
  <2> TAKE n \in Nat
  <2> DEFINE k == Cardinality(Owners(value, n))
             e == ext[n]
  <2>1. k \in Nat /\ e \in Nat
    BY <1>1
  <2> HIDE DEF k, e
  <2>2. e \in Nat /\ e + k \in Nat /\ e + k >= e /\ (k >= 1 => e + k >= 1)
    BY <2>1
  <2> QED
    BY <2>2 DEF k, e
<1>5. c \in [Nat -> Nat]
  BY <1>4 DEF Total
<1> HIDE DEF c
<1>6. \A v \in DOMAIN value : c[value[v].self_bdd] >= 1
  BY <1>2, <1>3, <1>4
<1> QED
  BY <1>3, <1>4, <1>5, <1>6 DEF c

\* One place more.
OnePlaceMore(i) ==
  /\ i + 1 \notin 1 .. i /\ i + 1 \in 1 .. i + 1
  /\ \A w \in 1 .. i : w \in 1 .. i + 1
  /\ \A w \in 1 .. i + 1 : w \in 1 .. i \/ w = i + 1

\* Numbers are so.
LEMMA OnePlace ==
  ASSUME NEW i \in Nat
  PROVE  OnePlaceMore(i)
BY DEF OnePlaceMore

\* A value node gives up one node for another.
LEMMA TotalSelf ==
  ASSUME NEW ext \in [Nat -> Nat], NEW value \in Seq(ValueNodes), NEW v \in DOMAIN value,
         NEW b \in Nat
  PROVE  Total(ext, WithSelf(value, v, b))
           = WithHolder(WithoutHolder(Total(ext, value), value[v].self_bdd), b)
<1> DEFINE old == value[v].self_bdd
           new == WithSelf(value, v, b)
           c == Total(ext, value)
           d == Total(ext, new)
<1>1. /\ new \in Seq(ValueNodes) /\ DOMAIN new = DOMAIN value
      /\ \A w \in DOMAIN value : new[w].self_bdd = IF w = v THEN b ELSE value[w].self_bdd
  <2> HIDE DEF c, d, old
  <2>1. OtherSelf(value, v, b, new)
    BY SelfOfValues
  <2> HIDE DEF new
  <2> QED
    BY <2>1 DEF OtherSelf
<1>2. old \in Nat
  <2>1. value[v] \in ValueNodes
    OBVIOUS
  <2> QED
    BY <2>1 DEF ValueNodes
<1>3. /\ c \in [Nat -> Nat] /\ c[old] >= 1
      /\ \A n \in Nat : c[n] = ext[n] + Cardinality(Owners(value, n))
  BY TotalNumber
<1>4. /\ d \in [Nat -> Nat]
      /\ \A n \in Nat : d[n] = ext[n] + Cardinality(Owners(new, n))
  BY <1>1, TotalNumber
<1>5. /\ \A n : IsFiniteSet(Owners(value, n)) /\ Cardinality(Owners(value, n)) \in Nat
      /\ \A n : IsFiniteSet(Owners(new, n)) /\ Cardinality(Owners(new, n)) \in Nat
  BY <1>1, OwnersFinite
<1>6. v \in Owners(value, old) /\ v \in Owners(new, b)
  BY <1>1 DEF Owners
<1> HIDE DEF c, d, new, old
<1>7. \A n \in Nat : Owners(new, n) \ {v} = Owners(value, n) \ {v}
  BY <1>1 DEF Owners
<1>8. \A n \in Nat : /\ n # old => v \notin Owners(value, n)
                     /\ n # b => v \notin Owners(new, n)
  BY <1>1 DEF Owners, old
<1>9. ASSUME NEW n \in Nat
      PROVE  d[n] = (c[n] - (IF n = old THEN 1 ELSE 0)) + (IF n = b THEN 1 ELSE 0)
  <2> DEFINE X == Owners(value, n)
             Y == Owners(new, n)
             R == X \ {v}
  <2>1. IsFiniteSet(X) /\ IsFiniteSet(Y) /\ Y \ {v} = R
    BY <1>5, <1>7
  <2>2. IsFiniteSet(R) /\ Cardinality(R) \in Nat
    BY <2>1, FS_RemoveElement, FS_CardinalityType
  <2>3. Cardinality(X) = Cardinality(R) + (IF n = old THEN 1 ELSE 0)
    <3>1. CASE n = old
      <4>1. v \in X
        BY <1>6, <3>1
      <4>2. Cardinality(R) = Cardinality(X) - 1 /\ Cardinality(X) \in Nat
        <5> HIDE DEF X
        <5> QED
          BY <2>1, <4>1, FS_RemoveElement, FS_CardinalityType
      <4>3. (IF n = old THEN 1 ELSE 0) = 1
        BY <3>1
      <4> DEFINE x == Cardinality(X)
                 q == Cardinality(R)
                 i == IF n = old THEN 1 ELSE 0
      <4>4. q = x - 1 /\ x \in Nat /\ i = 1
        BY <4>2, <4>3
      <4> HIDE DEF x, q, i
      <4>5. x = q + i
        BY <4>4
      <4> QED
        BY <4>5 DEF x, q, i
    <3>2. CASE n # old
      <4>1. v \notin X
        BY <1>8, <3>2
      <4>2. R = X
        BY <4>1
      <4>3. Cardinality(R) = Cardinality(X)
        BY Zenon, <4>2
      <4>4. (IF n = old THEN 1 ELSE 0) = 0
        BY <3>2
      <4> DEFINE x == Cardinality(X)
                 q == Cardinality(R)
                 i == IF n = old THEN 1 ELSE 0
      <4>5. q = x /\ q \in Nat /\ i = 0
        BY <2>2, <4>3, <4>4
      <4> HIDE DEF x, q, i
      <4>6. x = q + i
        BY <4>5
      <4> QED
        BY <4>6 DEF x, q, i
    <3> QED
      BY <3>1, <3>2
  <2>4. Cardinality(Y) = Cardinality(R) + (IF n = b THEN 1 ELSE 0)
    <3>1. CASE n = b
      <4>1. v \in Y
        BY <1>6, <3>1
      <4> HIDE DEF X, Y, R
      <4>2. Cardinality(Y \ {v}) = Cardinality(Y) - 1 /\ Cardinality(Y) \in Nat
        BY <2>1, <4>1, FS_RemoveElement, FS_CardinalityType
      <4>3. Cardinality(R) = Cardinality(Y) - 1
        BY <2>1, <4>2
      <4> QED
        BY <3>1, <4>2, <4>3
    <3>2. CASE n # b
      <4>1. v \notin Y
        BY <1>8, <3>2
      <4> HIDE DEF X, Y, R
      <4>2. R = Y
        BY <2>1, <4>1
      <4> QED
        BY <2>2, <3>2, <4>2
    <3> QED
      BY <3>1, <3>2
  <2>5. c[n] = ext[n] + Cardinality(X) /\ d[n] = ext[n] + Cardinality(Y) /\ ext[n] \in Nat
    BY <1>3, <1>4
  <2> DEFINE i == IF n = old THEN 1 ELSE 0
             j == IF n = b THEN 1 ELSE 0
             q == Cardinality(R)
             cn == c[n]
             dn == d[n]
             en == ext[n]
  <2>6. /\ i \in Nat /\ j \in Nat /\ q \in Nat /\ en \in Nat
        /\ cn = en + (q + i) /\ dn = en + (q + j)
    BY <2>2, <2>3, <2>4, <2>5
  <2> HIDE DEF i, j, q, cn, dn, en
  <2>7. dn = (cn - i) + j
    BY <2>6
  <2> QED
    BY <2>7 DEF dn, cn, i, j
<1> DEFINE few == WithoutHolder(c, old)
           more == WithHolder(few, b)
<1>10. few \in [Nat -> Nat] /\ \A n \in Nat : few[n] = IF n = old THEN c[n] - 1 ELSE c[n]
  <2>0. c[old] \in Nat /\ c[old] >= 1
    BY <1>2, <1>3
  <2> DEFINE co == c[old]
  <2>1. co - 1 \in Nat
    <3> HIDE DEF co
    <3>1. co \in Nat /\ co >= 1
      BY <2>0 DEF co
    <3> QED
      BY <3>1
  <2> QED
    BY <1>2, <1>3, <2>1 DEF WithoutHolder
<1> HIDE DEF few
<1>11. /\ more \in [Nat -> Nat]
       /\ \A n \in Nat : more[n] = IF n = b THEN few[b] + 1 ELSE few[n]
  BY <1>10, MoreFacts
<1> HIDE DEF more
<1>12. \A n \in Nat : d[n] = more[n]
  <2> TAKE n \in Nat
  <2> DEFINE cn == c[n]
  <2>1. /\ cn \in Nat /\ d[n] = (cn - (IF n = old THEN 1 ELSE 0)) + (IF n = b THEN 1 ELSE 0)
        /\ few[n] = (IF n = old THEN cn - 1 ELSE cn)
        /\ more[n] = (IF n = b THEN few[n] + 1 ELSE few[n])
    BY <1>3, <1>9, <1>10, <1>11
  <2> DEFINE fn == few[n]
             dn == d[n]
             mn == more[n]
             i == IF n = old THEN 1 ELSE 0
             j == IF n = b THEN 1 ELSE 0
  <2>2. /\ cn \in Nat /\ i \in Nat /\ j \in Nat /\ dn = (cn - i) + j
        /\ n = old => fn = cn - 1 /\ i = 1
        /\ n # old => fn = cn /\ i = 0
        /\ n = b => mn = fn + 1 /\ j = 1
        /\ n # b => mn = fn /\ j = 0
    BY <2>1
  <2> HIDE DEF cn, fn, dn, mn, i, j
  <2>3. dn = mn
    <3>1. CASE n = old /\ n = b
      BY <2>2, <3>1
    <3>2. CASE n = old /\ n # b
      BY <2>2, <3>2
    <3>3. CASE n # old /\ n = b
      BY <2>2, <3>3
    <3>4. CASE n # old /\ n # b
      BY <2>2, <3>4
    <3> QED
      BY <3>1, <3>2, <3>3, <3>4
  <2> QED
    BY <2>3 DEF dn, mn
<1>13. d = more
  BY <1>4, <1>11, <1>12
<1> QED
  BY <1>13 DEF d, more, few, c, new, old

\* A new value node.
LEMMA TotalPair ==
  ASSUME NEW ext \in [Nat -> Nat], NEW value \in Seq(ValueNodes), NEW pair, NEW b \in Nat,
         WithPair(value, pair, b) \in Seq(ValueNodes)
  PROVE  Total(ext, WithPair(value, pair, b)) = WithHolder(Total(ext, value), b)
<1> DEFINE new == WithPair(value, pair, b)
           c == Total(ext, value)
           d == Total(ext, new)
           v == Len(value) + 1
           x == [rule_pair |-> pair, self_bdd |-> b]
<1>0. new = Append(value, x) /\ x.self_bdd = b
  BY DEF WithPair
<1>1. /\ DOMAIN value = 1 .. Len(value) /\ Len(value) \in Nat /\ DOMAIN new = 1 .. v
      /\ v \notin DOMAIN value /\ v \in DOMAIN new
      /\ \A w \in DOMAIN value : w \in DOMAIN new /\ new[w] = value[w]
      /\ \A w \in DOMAIN new : w \in DOMAIN value \/ w = v
      /\ new[v].self_bdd = b
  <2> HIDE DEF x, new, c, d
  <2>1. v \in Nat /\ DOMAIN value = 1 .. Len(value) /\ Len(value) \in Nat
    <3> HIDE DEF v
    <3>1. DOMAIN value = 1 .. Len(value) /\ Len(value) \in Nat
      OBVIOUS
    <3> DEFINE k == Len(value)
    <3>2. k \in Nat /\ v = k + 1
      BY <3>1 DEF v
    <3> HIDE DEF k
    <3>3. v \in Nat
      BY <3>2
    <3> QED
      BY <3>1, <3>3
  <2>2. /\ DOMAIN new = 1 .. v /\ new[v] = x
        /\ \A w \in 1 .. Len(value) : new[w] = value[w]
    BY <1>0, <2>1
  <2>3. /\ v \notin 1 .. Len(value) /\ v \in 1 .. v
        /\ \A w \in 1 .. Len(value) : w \in 1 .. v
        /\ \A w \in 1 .. v : w \in 1 .. Len(value) \/ w = v
    <3> DEFINE k == Len(value)
    <3>2. k \in Nat
      BY <2>1
    <3> HIDE DEF k
    <3>3. /\ k + 1 \notin 1 .. k /\ k + 1 \in 1 .. k + 1
          /\ \A w \in 1 .. k : w \in 1 .. k + 1
          /\ \A w \in 1 .. k + 1 : w \in 1 .. k \/ w = k + 1
      <4>1. OnePlaceMore(k)
        BY <3>2, OnePlace
      <4> QED
        BY <4>1 DEF OnePlaceMore
    <3>4. v = k + 1
      BY <3>2 DEF v, k
    <3> HIDE DEF v
    <3> QED
      BY <3>3, <3>4 DEF k
  <2> QED
    BY <1>0, <2>1, <2>2, <2>3
<1>2. /\ c \in [Nat -> Nat] /\ \A n \in Nat : c[n] = ext[n] + Cardinality(Owners(value, n))
      /\ d \in [Nat -> Nat] /\ \A n \in Nat : d[n] = ext[n] + Cardinality(Owners(new, n))
  BY TotalNumber
<1>3. \A n : IsFiniteSet(Owners(value, n)) /\ Cardinality(Owners(value, n)) \in Nat
  BY OwnersFinite
<1> HIDE DEF c, d, new, v
<1>4. ASSUME NEW n \in Nat PROVE d[n] = IF n = b THEN c[n] + 1 ELSE c[n]
  <2> DEFINE X == Owners(value, n)
  <2>1. IsFiniteSet(X) /\ Cardinality(X) \in Nat /\ v \notin X
    BY <1>1, <1>3 DEF Owners
  <2>2. Owners(new, n) = IF n = b THEN X \union {v} ELSE X
    BY <1>1 DEF Owners
  <2>4. /\ c[n] = ext[n] + Cardinality(X) /\ ext[n] \in Nat
        /\ d[n] = ext[n] + Cardinality(Owners(new, n))
    BY <1>2
  <2> HIDE DEF X
  <2>3. Cardinality(X \union {v}) = Cardinality(X) + 1
    BY <2>1, FS_AddElement
  <2>5. CASE n = b
    <3>1. d[n] = ext[n] + (Cardinality(X) + 1)
      BY <2>2, <2>3, <2>4, <2>5
    <3> QED
      BY <2>1, <2>4, <2>5, <3>1
  <2>6. CASE n # b
    BY <2>2, <2>4, <2>6
  <2> QED
    BY <2>5, <2>6
<1> DEFINE more == WithHolder(c, b)
<1>5. /\ more \in [Nat -> Nat]
      /\ \A n \in Nat : more[n] = IF n = b THEN c[b] + 1 ELSE c[n]
  BY <1>2, MoreFacts
<1> HIDE DEF more
<1>6. \A n \in Nat : d[n] = more[n]
  BY <1>4, <1>5
<1>7. d = more
  BY <1>2, <1>5, <1>6
<1> QED
  BY <1>7 DEF d, more, c, new

\* Another holder that is not a value node.
LEMMA TotalMore ==
  ASSUME NEW ext \in [Nat -> Nat], NEW value \in Seq(ValueNodes), NEW n \in Nat
  PROVE  Total(WithHolder(ext, n), value) = WithHolder(Total(ext, value), n)
<1> DEFINE x == WithHolder(ext, n)
           c == Total(ext, value)
           d == Total(x, value)
           e == WithHolder(c, n)
<1>1. x \in [Nat -> Nat] /\ \A m \in Nat : x[m] = IF m = n THEN ext[n] + 1 ELSE ext[m]
  BY MoreFacts
<1> HIDE DEF x
<1>2. /\ c \in [Nat -> Nat] /\ \A m \in Nat : c[m] = ext[m] + Cardinality(Owners(value, m))
      /\ d \in [Nat -> Nat] /\ \A m \in Nat : d[m] = x[m] + Cardinality(Owners(value, m))
  BY <1>1, TotalNumber
<1>3. \A m : Cardinality(Owners(value, m)) \in Nat
  BY OwnersFinite
<1> HIDE DEF c, d
<1>4. e \in [Nat -> Nat] /\ \A m \in Nat : e[m] = IF m = n THEN c[n] + 1 ELSE c[m]
  BY <1>2, MoreFacts
<1> HIDE DEF e
<1>5. \A m \in Nat : d[m] = e[m]
  <2> TAKE m \in Nat
  <2> DEFINE k == Cardinality(Owners(value, m))
             em == ext[m]
  <2>1. /\ em \in Nat /\ k \in Nat /\ c[m] = em + k /\ d[m] = x[m] + k
        /\ x[m] = (IF m = n THEN em + 1 ELSE em)
        /\ e[m] = (IF m = n THEN c[m] + 1 ELSE c[m])
    BY <1>1, <1>2, <1>4, <1>3
  <2> HIDE DEF k, em
  <2> QED
    BY <2>1
<1>6. d = e
  BY <1>2, <1>4, <1>5
<1> QED
  BY <1>6 DEF d, e, c, x

\* A holder that is not a value node leaves.
LEMMA TotalFewer ==
  ASSUME NEW ext \in [Nat -> Nat], NEW value \in Seq(ValueNodes), NEW n \in Nat, ext[n] >= 1
  PROVE  /\ Total(WithoutHolder(ext, n), value) = WithoutHolder(Total(ext, value), n)
         /\ WithoutHolder(ext, n) \in [Nat -> Nat] /\ Total(ext, value)[n] >= 1
<1> DEFINE x == WithoutHolder(ext, n)
           c == Total(ext, value)
           d == Total(x, value)
           e == WithoutHolder(c, n)
<1>1. x \in [Nat -> Nat] /\ \A m \in Nat : x[m] = IF m = n THEN ext[n] - 1 ELSE ext[m]
  <2>1. ext[n] - 1 \in Nat
    OBVIOUS
  <2> QED
    BY <2>1 DEF WithoutHolder
<1> HIDE DEF x
<1>2. /\ c \in [Nat -> Nat] /\ \A m \in Nat : c[m] = ext[m] + Cardinality(Owners(value, m))
      /\ d \in [Nat -> Nat] /\ \A m \in Nat : d[m] = x[m] + Cardinality(Owners(value, m))
  BY <1>1, TotalNumber
<1>3. \A m : Cardinality(Owners(value, m)) \in Nat
  BY OwnersFinite
<1>4. c[n] >= 1
  <2>1. ext[n] \in Nat /\ Cardinality(Owners(value, n)) \in Nat
    BY <1>3
  <2> HIDE DEF c
  <2> QED
    BY <1>2, <2>1
<1> HIDE DEF c, d
<1>5. e \in [Nat -> Nat] /\ \A m \in Nat : e[m] = IF m = n THEN c[n] - 1 ELSE c[m]
  <2> DEFINE cn == c[n]
  <2>1. cn \in Nat /\ cn >= 1
    BY <1>2, <1>4
  <2>2. cn - 1 \in Nat
    <3> HIDE DEF cn
    <3> QED
      BY <2>1
  <2> QED
    BY <1>2, <2>2 DEF WithoutHolder
<1> HIDE DEF e
<1>6. \A m \in Nat : d[m] = e[m]
  <2> TAKE m \in Nat
  <2> DEFINE k == Cardinality(Owners(value, m))
             em == ext[m]
  <2>1. /\ em \in Nat /\ k \in Nat /\ c[m] = em + k /\ d[m] = x[m] + k
        /\ x[m] = (IF m = n THEN em - 1 ELSE em)
        /\ e[m] = (IF m = n THEN c[m] - 1 ELSE c[m])
    BY <1>1, <1>2, <1>5, <1>3
  <2> HIDE DEF k, em
  <2> QED
    BY <2>1
<1>7. d = e
  BY <1>2, <1>5, <1>6
<1> QED
  BY <1>1, <1>4, <1>7 DEF d, e, c, x

-----------------------------------------------------------------------------
(* States that have met no collection.                                     *)

\* The nodes of the MTBDDs that are whole, with the value nodes there are.
Mine(st) == Mtbdds(st.t, Len(st.value))

\* The entries of applycache: whole MTBDDs, the result no higher than the operands.
Remembered(st) ==
  \A e \in st.t.memo :
    /\ {e.a, e.b, e.res} \subseteq Mine(st)
    /\ \/ Depth(st.t, e.a) <= Depth(st.t, e.res)
       \/ Depth(st.t, e.b) <= Depth(st.t, e.res)

\* What the value nodes record are whole BDDs.
Selves(st) == \A v \in DOMAIN st.value : st.value[v].self_bdd \in Bdds(st.t)

\* Nothing is lost, and every node has the references of the value nodes that hold
\* it and of ext[n] other holders.
Good(st, ext) ==
  /\ STyped(st) /\ Steady(st.t)
  /\ Remembered(st) /\ Selves(st)
  /\ ext \in [Nat -> Nat] /\ Accounted(st.t, Total(ext, st.value))

\* A collection came, or there was no value node left.
Failed(st) == st.t.collected \/ (st.t.stopped /\ Len(st.value) = MaxValues)

\* From st to su everything stays and more may come.
Goes(ext, st, su) ==
  Good(su, ext) /\ Grown(st.t, su.t) /\ Len(st.value) <= Len(su.value)

\* ... or the operation has failed.
Fine(ext, st, su) == Failed(su) \/ Goes(ext, st, su)

\* What has failed never looks as if it had not.
LEMMA FailedLater ==
  ASSUME NEW a, NEW b, STyped(a), SLater(a, b), Failed(a)
  PROVE  Failed(b)
<1>1. /\ Len(a.value) \in Nat /\ Len(b.value) \in Nat /\ MaxValues \in Nat
      /\ Len(b.value) <= MaxValues /\ Len(a.value) <= Len(b.value)
  BY SFields DEF SLater, STyped
<1> QED
  BY <1>1 DEF SLater, Later, Failed

\* Growth goes on.
LEMMA GrownTransitive ==
  ASSUME NEW t, NEW u, NEW v, Grown(t, u), Grown(u, v)
  PROVE  Grown(t, v)
BY DEF Grown, Same

\* Two operations that keep everything, one after the other.
LEMMA KeptTransitive ==
  ASSUME NEW t, NEW u, NEW v, Kept(t, u), Kept(u, v)
  PROVE  Kept(t, v)
BY GrownTransitive DEF Kept

\* The kernel's operations keep the references.
LEMMA OnwardKept ==
  ASSUME NEW t, Steady(t), NEW u, Onward(t, u), NEW c, Accounted(t, c)
  PROVE  Kept(t, u) /\ Accounted(u, c)
<1>1. DOMAIN u.node = DOMAIN t.node
  BY TypedFields DEF Onward, Steady
<1> QED
  BY <1>1 DEF Onward, Aside, Kept, Accounted

\* What a good state's parts are.
LEMMA GoodFacts ==
  ASSUME NEW st, NEW ext, Good(st, ext)
  PROVE  /\ STyped(st) /\ Steady(st.t) /\ ~ Failed(st)
         /\ Len(st.value) \in Nat
         /\ \A n \in Mine(st) : /\ n \in Used(st.t) /\ n \in Nat /\ n # 2
                                /\ Depth(st.t, n) \in 0 .. VarNum
         /\ \A n \in Bdds(st.t) : n \in Used(st.t) /\ n \in Nat /\ n # 2
         /\ {0, 1} \subseteq Bdds(st.t) /\ 0 \in Mine(st)
<1>1. STyped(st) /\ Steady(st.t) /\ Len(st.value) \in Nat
  BY SFields DEF Good
<1>2. ~ Failed(st)
  BY <1>1 DEF Failed, Steady
<1>3. \A n \in Mine(st) : /\ n \in Used(st.t) /\ n \in Nat /\ n # 2
                          /\ Depth(st.t, n) \in 0 .. VarNum
  BY <1>1, MtbddFacts DEF Mine
<1>4. \A n \in Bdds(st.t) : n \in Used(st.t) /\ n \in Nat /\ n # 2
  BY <1>1, BddFacts
<1>5. {0, 1} \subseteq Bdds(st.t) /\ 0 \in Mine(st)
  BY <1>1, BddFacts, MtbddFacts DEF Mine
<1> QED
  BY <1>1, <1>2, <1>3, <1>4, <1>5

\* What stays from one state to another.
LEMMA GoesFacts ==
  ASSUME NEW st, NEW su, NEW ext, NEW exu, Good(st, ext), Goes(exu, st, su)
  PROVE  /\ Used(st.t) \subseteq Used(su.t)
         /\ Bdds(st.t) \subseteq Bdds(su.t)
         /\ Mine(st) \subseteq Mine(su)
         /\ \A n \in Used(st.t) : /\ Depth(su.t, n) = Depth(st.t, n)
                                  /\ (IsLeaf(su.t, n) <=> IsLeaf(st.t, n))
                                  /\ su.t.node[n].level = st.t.node[n].level
                                  /\ su.t.node[n].low = st.t.node[n].low
                                  /\ su.t.node[n].high = st.t.node[n].high
         /\ \A n \in Mine(st) : Depth(su.t, n) = Depth(st.t, n)
<1>1. Steady(st.t) /\ Len(st.value) \in Nat /\ \A n \in Mine(st) : n \in Used(st.t)
  BY GoodFacts
<1>2. Len(su.value) \in Nat
  BY GoodFacts DEF Goes
<1>3. Grown(st.t, su.t) /\ Len(st.value) <= Len(su.value)
  BY DEF Goes
<1> QED
  BY <1>1, <1>2, <1>3, GrownFacts DEF Mine

\* The same for two operations on the switch.
LEMMA GoesTransitive ==
  ASSUME NEW a, NEW b, NEW c, NEW exa, NEW ext, NEW exu, Good(a, exa),
         Goes(ext, a, b), Goes(exu, b, c)
  PROVE  Goes(exu, a, c)
<1>1. Len(a.value) \in Nat /\ Len(b.value) \in Nat /\ Len(c.value) \in Nat
  BY GoodFacts DEF Goes
<1> QED
  BY <1>1, GrownTransitive DEF Goes

\* Doing nothing keeps everything.
LEMMA GoesItself ==
  ASSUME NEW st, NEW ext, Good(st, ext)
  PROVE  Goes(ext, st, st)
<1>1. Len(st.value) <= Len(st.value)
  BY GoodFacts
<1> QED
  BY <1>1 DEF Goes, Grown, Same

\* One operation after the other.
LEMMA FineThen ==
  ASSUME NEW a, NEW b, NEW c, NEW exa, NEW ext, NEW exu, Good(a, exa),
         Fine(ext, a, b), STyped(b), SLater(b, c),
         Goes(ext, a, b) => Fine(exu, b, c)
  PROVE  Fine(exu, a, c)
<1>1. CASE Failed(b)
  BY <1>1, FailedLater DEF Fine
<1>2. CASE Goes(ext, a, b)
  BY <1>2, GoesTransitive DEF Fine
<1> QED
  BY <1>1, <1>2 DEF Fine

\* When the entries of applycache are the old ones, the rest makes a good state.
LEMMA GoodStep ==
  ASSUME NEW st, NEW ext, Good(st, ext), NEW su, STyped(su), Steady(su.t),
         Grown(st.t, su.t), Len(st.value) <= Len(su.value), su.t.memo \subseteq st.t.memo,
         Selves(su), NEW exu \in [Nat -> Nat], Accounted(su.t, Total(exu, su.value))
  PROVE  Goes(exu, st, su)
<1>1. /\ Steady(st.t) /\ Len(st.value) \in Nat /\ Len(su.value) \in Nat
      /\ \A n \in Mine(st) : n \in Used(st.t)
  BY GoodFacts, SFields
<1>2. /\ Mine(st) \subseteq Mine(su)
      /\ \A n \in Used(st.t) : Depth(su.t, n) = Depth(st.t, n)
  BY <1>1, GrownFacts DEF Mine
<1>3. Remembered(su)
  <2> SUFFICES ASSUME NEW e \in su.t.memo
               PROVE  /\ {e.a, e.b, e.res} \subseteq Mine(su)
                      /\ \/ Depth(su.t, e.a) <= Depth(su.t, e.res)
                         \/ Depth(su.t, e.b) <= Depth(su.t, e.res)
    BY DEF Remembered
  <2>1. /\ {e.a, e.b, e.res} \subseteq Mine(st)
        /\ \/ Depth(st.t, e.a) <= Depth(st.t, e.res)
           \/ Depth(st.t, e.b) <= Depth(st.t, e.res)
    BY DEF Good, Remembered
  <2>2. {e.a, e.b, e.res} \subseteq Used(st.t)
    BY <1>1, <2>1
  <2> QED
    BY <1>2, <2>1, <2>2
<1> QED
  BY <1>3 DEF Goes, Good

\* The table and the value nodes are what counts.
LEMMA GoodTable ==
  ASSUME NEW st, NEW ext, Good(st, ext), NEW su, STyped(su), su.value = st.value,
         Kept(st.t, su.t), NEW exu \in [Nat -> Nat], Accounted(su.t, Total(exu, su.value))
  PROVE  Goes(exu, st, su)
<1>1. Bdds(st.t) \subseteq Bdds(su.t)
  BY GrownFacts, 0 \in Nat, 0 <= 0 DEF Kept, Good
<1>2. Selves(su)
  BY <1>1 DEF Good, Selves
<1>3. Len(st.value) <= Len(su.value)
  BY GoodFacts
<1> QED
  BY <1>2, <1>3, GoodStep DEF Kept

\* A value node gives up a BDD for a result of the kernel.
LEMMA SetSelfGood ==
  ASSUME NEW st, NEW ext, Good(st, ext), NEW v \in DOMAIN st.value, NEW b \in Bdds(st.t),
         NEW op \in Ops
  PROVE  Fine(ext, st, SetSelf(st, v, b, op))
<1> DEFINE old == st.value[v].self_bdd
           c == Total(ext, st.value)
           t1 == DelRef(st.t, old)
           c1 == WithoutHolder(c, old)
           done == Apply(t1, old, b, op)
           su == SetSelf(st, v, b, op)
<1>1. /\ STyped(st) /\ Steady(st.t) /\ st.value \in Seq(ValueNodes) /\ ext \in [Nat -> Nat]
      /\ Accounted(st.t, c) /\ Selves(st)
  BY SFields DEF Good
<1>2. old \in Bdds(st.t) /\ old \in Used(st.t) /\ old \in Nat /\ old # 2
  BY <1>1, GoodFacts DEF Selves
<1>3. c \in [Nat -> Nat] /\ c[old] >= 1
  BY <1>1, TotalNumber
<1> HIDE DEF c, old
<1>4. Kept(st.t, t1) /\ Accounted(t1, c1) /\ c1 \in [Nat -> Nat]
  BY <1>1, <1>2, <1>3, DelRefSteady
<1>5. Later(st.t, t1)
  BY RefLater DEF Good, STyped
<1> HIDE DEF t1, c1
<1>6. /\ Steady(t1) /\ old \in Bdds(t1) /\ b \in Bdds(t1)
  BY <1>1, <1>2, <1>4, GrownFacts, 0 \in Nat, 0 <= 0 DEF Kept
<1>7. /\ done.t.collected \/ (Onward(t1, done.t) /\ done.res \in Bdds(done.t))
      /\ Later(t1, done.t) /\ done.res \in Nat
  BY <1>5, <1>6, ApplySteady, ApplyLater DEF Later
<1>8. su = Own(st, v, done)
  BY DEF SetSelf, done, t1, old
<1>9. Later(st.t, done.t)
  BY <1>5, <1>7, LaterTransitive
<1> HIDE DEF done, su
<1>10. /\ SLater(st, su) /\ su.t = AddRef(done.t, done.res)
       /\ su.value = WithSelf(st.value, v, done.res)
  <2>1. Owned(st, v, done, su)
    BY <1>1, <1>7, <1>8, <1>9, OwnLater
  <2> QED
    BY <2>1 DEF Owned
<1>11. CASE done.t.collected
  <2>1. Later(done.t, su.t)
    BY <1>7, <1>10, RefLater DEF Later
  <2> QED
    BY <1>11, <2>1 DEF Later, Fine, Failed, su
<1>12. CASE Onward(t1, done.t) /\ done.res \in Bdds(done.t)
  <2>1. Kept(t1, done.t) /\ Accounted(done.t, c1) /\ Steady(done.t)
    BY <1>4, <1>6, <1>12, OnwardKept DEF Onward
  <2>2. done.res \in Used(done.t) /\ done.res # 2
    BY <1>12, <2>1, BddFacts
  <2>3. Kept(done.t, su.t) /\ Accounted(su.t, WithHolder(c1, done.res))
    BY <1>4, <1>10, <2>1, <2>2, AddRefSteady
  <2>4. Kept(st.t, su.t)
    BY <1>4, <2>1, <2>3, KeptTransitive
  <2>5. Accounted(su.t, Total(ext, su.value))
    <3>1. Total(ext, su.value) = WithHolder(c1, done.res)
      BY <1>1, <1>7, <1>10, TotalSelf DEF c1, c, old
    <3> QED
      BY <2>3, <3>1
  <2>6. Selves(su)
    <3>1. /\ Bdds(st.t) \subseteq Bdds(su.t) /\ Bdds(done.t) \subseteq Bdds(su.t)
      BY <1>1, <2>1, <2>3, <2>4, GrownFacts, 0 \in Nat, 0 <= 0 DEF Kept
    <3>2. /\ DOMAIN su.value = DOMAIN st.value
          /\ \A w \in DOMAIN st.value :
               su.value[w].self_bdd = IF w = v THEN done.res ELSE st.value[w].self_bdd
      <4> DEFINE vals == st.value
                 r == done.res
                 new == WithSelf(vals, v, r)
      <4>1. vals \in Seq(ValueNodes) /\ r \in Nat /\ su.value = new
        BY <1>1, <1>7, <1>10
      <4> HIDE DEF vals, r
      <4>2. /\ DOMAIN new = DOMAIN vals
            /\ \A w \in DOMAIN vals : new[w].self_bdd = IF w = v THEN r ELSE vals[w].self_bdd
        BY <4>1, SelfOfValues DEF OtherSelf
      <4> HIDE DEF new
      <4> QED
        BY <4>1, <4>2 DEF vals, r
    <3> QED
      BY <1>1, <1>12, <3>1, <3>2 DEF Selves
  <2>7. Goes(ext, st, su)
    BY <1>1, <1>10, <2>4, <2>5, <2>6, GoodStep DEF Kept, SLater
  <2> QED
    BY <2>7 DEF Fine, su
<1> QED
  BY <1>7, <1>11, <1>12

-----------------------------------------------------------------------------
(* Value nodes on a table that has met no collection.                      *)

\* The terminal of a value node.
Leaf(st, n) == n \in Mine(st) /\ n >= 3 /\ IsLeaf(st.t, n)

\* A state with a terminal, and one with a node at level d or deeper.
LeafFine(ext, st, made) ==
  Failed(made.s) \/ (Goes(ext, st, made.s) /\ Leaf(made.s, made.res))
NodeFine(ext, st, made, d) ==
  \/ Failed(made.s)
  \/ /\ Goes(ext, st, made.s)
     /\ made.res \in Mine(made.s) /\ d <= Depth(made.s.t, made.res)

\* Where a terminal leads.
LEMMA LeafFacts ==
  ASSUME NEW st, NEW ext, Good(st, ext), NEW n, Leaf(st, n)
  PROVE  /\ n \in Used(st.t) /\ n \in Nat /\ Depth(st.t, n) = VarNum
         /\ At(st, n) \in DOMAIN st.value
         /\ \A su, exu : Goes(exu, st, su) => Leaf(su, n)
<1>1. /\ Steady(st.t) /\ Len(st.value) \in Nat /\ DOMAIN st.value = 1 .. Len(st.value)
      /\ n \in Mine(st) /\ n >= 3 /\ IsLeaf(st.t, n)
  BY GoodFacts, SFields DEF Leaf, Good
<1>2. /\ n \in Used(st.t) /\ n \in Nat /\ Depth(st.t, n) = VarNum
      /\ At(st, n) \in DOMAIN st.value
  BY <1>1, MtbddFacts DEF Mine, At
<1>3. ASSUME NEW su, NEW exu, Goes(exu, st, su) PROVE Leaf(su, n)
  BY <1>1, <1>2, <1>3, GoesFacts DEF Leaf
<1> QED
  BY <1>2, <1>3

\* An operation, and then one that makes a terminal.
LEMMA LeafThen ==
  ASSUME NEW a, NEW b, NEW made, NEW exa, NEW ext, NEW exu, Good(a, exa),
         Fine(ext, a, b), STyped(b), SLater(b, made.s),
         Goes(ext, a, b) => LeafFine(exu, b, made)
  PROVE  LeafFine(exu, a, made)
<1>1. CASE Failed(b)
  BY <1>1, FailedLater DEF LeafFine
<1>2. CASE Goes(ext, a, b)
  BY <1>2, GoesTransitive DEF LeafFine
<1> QED
  BY <1>1, <1>2 DEF Fine

\* A terminal is found or made, and is a leaf of the MTBDDs.
LEMMA TerminalGood ==
  ASSUME NEW st, NEW ext, Good(st, ext), NEW v \in DOMAIN st.value
  PROVE  LeafFine(ext, st, Terminal(st, v))
<1> DEFINE made == Terminal(st, v)
           done == MakeNode(st.t, 0, 2, v - 1)
           nv == Len(st.value)
           c == Total(ext, st.value)
<1>1. /\ STyped(st) /\ Steady(st.t) /\ nv \in Nat /\ v \in 1 .. nv /\ v - 1 \in Nat
      /\ ext \in [Nat -> Nat] /\ Accounted(st.t, c)
  <2>1. /\ STyped(st) /\ Steady(st.t) /\ ext \in [Nat -> Nat] /\ Accounted(st.t, c)
    BY DEF Good
  <2>2. nv \in Nat /\ DOMAIN st.value = 1 .. nv
    BY <2>1, SFields
  <2> HIDE DEF nv, c, made, done
  <2>3. v \in 1 .. nv /\ v - 1 \in Nat
    BY <2>2
  <2> QED
    BY <2>1, <2>2, <2>3
<1>2. /\ SLater(st, made.s) /\ made.s.t = done.t /\ made.res = done.res
      /\ made.s.value = st.value
  BY <1>1, TerminalLater
<1>3. \/ done.t.collected
      \/ /\ Onward(st.t, done.t)
         /\ done.res \in Mtbdds(done.t, nv) /\ IsLeaf(done.t, done.res) /\ done.res >= 3
  BY <1>1, MakeNodeLeaf
<1> HIDE DEF made, done
<1>4. CASE done.t.collected
  BY <1>2, <1>4 DEF LeafFine, Failed, made
<1>5. CASE /\ Onward(st.t, done.t)
           /\ done.res \in Mtbdds(done.t, nv) /\ IsLeaf(done.t, done.res) /\ done.res >= 3
  <2>1. Kept(st.t, made.s.t) /\ Accounted(made.s.t, c)
    BY <1>1, <1>2, <1>5, OnwardKept
  <2>2. Goes(ext, st, made.s)
    BY <1>1, <1>2, <2>1, GoodTable DEF SLater
  <2>3. Leaf(made.s, made.res)
    BY <1>2, <1>5 DEF Leaf, Mine
  <2> QED
    BY <2>2, <2>3 DEF LeafFine, made
<1> QED
  BY <1>3, <1>4, <1>5

\* A new value node owns its BDD.
LEMMA NewValueGood ==
  ASSUME NEW st, NEW ext, Good(st, ext), NEW pair \in Rules \X (Rules \union {NULL}),
         NEW self \in Bdds(st.t),
         \A v \in DOMAIN st.value : st.value[v].rule_pair # pair,
         st.value = <<>> => pair[2] = NULL
  PROVE  LeafFine(ext, st, NewValue(st, pair, self))
<1> DEFINE made == NewValue(st, pair, self)
           c == Total(ext, st.value)
<1>1. /\ STyped(st) /\ Steady(st.t) /\ Len(st.value) \in Nat /\ st.value \in Seq(ValueNodes)
      /\ ext \in [Nat -> Nat] /\ Accounted(st.t, c) /\ Selves(st)
      /\ self \in Used(st.t) /\ self \in Nat /\ self # 2
  BY SFields, GoodFacts DEF Good
<1>2. SLater(st, made.s) /\ Entered(st, pair, self, made)
  BY <1>1, NewValueLater
<1> HIDE DEF made
<1>3. CASE made.s.t.stopped /\ Len(made.s.value) = MaxValues
  BY <1>3 DEF LeafFine, Failed, made
<1>4. CASE \E su : Enters(st, pair, self, su) /\ made = Terminal(su, Len(st.value) + 1)
  <2>1. PICK su : Enters(st, pair, self, su) /\ made = Terminal(su, Len(st.value) + 1)
    BY <1>4
  <2> DEFINE value == WithPair(st.value, pair, self)
             v == Len(st.value) + 1
  <2>2. /\ SLater(st, su) /\ su.t = AddRef(st.t, self) /\ su.value = value
        /\ Len(su.value) = v /\ STyped(su)
    BY <2>1 DEF Enters, SLater
  <2>3. /\ su.value \in Seq(ValueNodes) /\ DOMAIN su.value = 1 .. v /\ v \in DOMAIN su.value
        /\ \A w \in DOMAIN su.value : w \in DOMAIN st.value \/ w = v
    <3> DEFINE k == Len(st.value)
    <3>1. /\ su.value \in Seq(ValueNodes) /\ DOMAIN su.value = 1 .. k + 1
          /\ DOMAIN st.value = 1 .. k /\ k \in Nat
      BY <1>1, <2>2, SFields
    <3> HIDE DEF k
    <3>2. k + 1 \in 1 .. k + 1 /\ \A w \in 1 .. k + 1 : w \in 1 .. k \/ w = k + 1
      BY <3>1
    <3> QED
      BY <3>1, <3>2 DEF k
  <2>4. /\ \A w \in DOMAIN st.value : value[w] = st.value[w]
        /\ value[v].self_bdd = self
    <3> DEFINE x == [rule_pair |-> pair, self_bdd |-> self]
               vals == st.value
    <3>1. vals \in Seq(ValueNodes) /\ value = Append(vals, x) /\ x.self_bdd = self
      BY <1>1 DEF WithPair
    <3> HIDE DEF x, vals, value
    <3>2. (\A w \in DOMAIN vals : value[w] = vals[w]) /\ value[Len(vals) + 1] = x
      BY <3>1
    <3> QED
      BY <3>1, <3>2 DEF vals
  <2> HIDE DEF value
  <2>5. c \in [Nat -> Nat]
    BY <1>1, TotalNumber
  <2>6. Kept(st.t, su.t) /\ Accounted(su.t, WithHolder(c, self))
    <3> DEFINE t == st.t
               u == AddRef(t, self)
    <3>1. Steady(t) /\ Accounted(t, c) /\ self \in Used(t) /\ self # 2 /\ su.t = u
      BY <1>1, <2>2
    <3> HIDE DEF c, t
    <3>2. Kept(t, u) /\ Accounted(u, WithHolder(c, self))
      BY <2>5, <3>1, AddRefSteady
    <3> QED
      BY <3>1, <3>2 DEF t
  <2>7. Accounted(su.t, Total(ext, su.value))
    <3>1. Total(ext, value) = WithHolder(c, self)
      BY <1>1, <2>2, <2>3, TotalPair DEF value
    <3> QED
      BY <2>2, <2>6, <3>1
  <2>8. Selves(su)
    <3>1. Bdds(st.t) \subseteq Bdds(su.t)
      BY <1>1, <2>6, GrownFacts, 0 \in Nat, 0 <= 0 DEF Kept
    <3> QED
      BY <1>1, <2>2, <2>3, <2>4, <3>1 DEF Selves
  <2>9. Goes(ext, st, su)
    BY <1>1, <2>2, <2>6, <2>7, <2>8, GoodStep DEF Kept, SLater
  <2>10. LeafFine(ext, su, made)
    BY <2>1, <2>3, <2>9, TerminalGood DEF Goes
  <2>11. SLater(su, made.s)
    <3>1. v - 1 \in Nat
      BY <1>1
    <3> QED
      BY <2>1, <2>2, <3>1, TerminalLater
  <2> QED
    BY <2>2, <2>9, <2>10, <2>11, LeafThen DEF Fine, made
<1> QED
  BY <1>2, <1>3, <1>4 DEF Entered

\* The value node that the search finds, or a new one.
LEMMA JoinValueGood ==
  ASSUME NEW st, NEW ext, Good(st, ext), NEW high \in Rules, NEW low \in Rules,
         NEW insc \in Bdds(st.t), st.value # <<>>
  PROVE  LeafFine(ext, st, JoinValue(st, <<high, low>>, insc))
<1> DEFINE pair == <<high, low>>
           made == JoinValue(st, pair, insc)
<1> SUFFICES LeafFine(ext, st, made)
  OBVIOUS
<1>1. /\ pair \in Rules \X (Rules \union {NULL}) /\ pair[2] = low /\ low # NULL
      /\ STyped(st) /\ Distinct(st.value)
  BY SFields DEF Good, STyped
<1>2. CASE FindValue(st, pair) = {}
  <2>1. made = NewValue(st, pair, insc)
    BY <1>2 DEF JoinValue
  <2>2. \A v \in DOMAIN st.value : st.value[v].rule_pair # pair
    BY <1>1, <1>2 DEF FindValue, Distinct
  <2> HIDE DEF made, pair
  <2> QED
    BY <1>1, <2>1, <2>2, NewValueGood
<1>3. CASE FindValue(st, pair) # {}
  <2> DEFINE v == CHOOSE w \in FindValue(st, pair) : TRUE
             su == SetSelf(st, v, insc, "or")
  <2>1. made = Terminal(su, v)
    BY <1>3 DEF JoinValue
  <2>2. v \in FindValue(st, pair)
    BY <1>3
  <2> HIDE DEF v
  <2>2a. v \in DOMAIN st.value
    BY <2>2 DEF FindValue
  <2>3. v \in DOMAIN st.value /\ v - 1 \in Nat
    BY <1>1, <2>2a, SFields
  <2> HIDE DEF v, made, su
  <2>4. SLater(st, su) /\ Len(su.value) = Len(st.value)
    BY <1>1, SetSelfLater DEF su, Ops
  <2>5. Fine(ext, st, su)
    BY <2>3, SetSelfGood DEF su, Ops
  <2>6. v \in DOMAIN su.value
    BY <1>1, <2>3, <2>4, SFields DEF SLater
  <2>7. SLater(su, made.s)
    BY <2>1, <2>3, <2>4, TerminalLater DEF SLater
  <2>8. Goes(ext, st, su) => LeafFine(ext, su, made)
    BY <2>1, <2>6, TerminalGood DEF Goes
  <2> QED
    BY <2>4, <2>5, <2>7, <2>8, LeafThen DEF SLater
<1> QED
  BY <1>2, <1>3

\* Other entries of applycache or misccache keep a steady table.
LEMMA EntriesSteady ==
  ASSUME NEW t, Steady(t), NEW u, Typed(u), OtherEntries(t, u), NEW c, Accounted(t, c)
  PROVE  Steady(u) /\ Grown(t, u) /\ Accounted(u, c)
<1>1. \A m \in DOMAIN t.node : Same(t, m, u, m)
  BY DEF OtherEntries, Same
<1>2. Steady(u) /\ Grown(t, u)
  BY <1>1, NodesSteady DEF OtherEntries
<1> QED
  BY <1>2 DEF OtherEntries, Accounted

\* The covered rules are joined: no node is touched.
LEMMA SetCoveringGood ==
  ASSUME NEW st, NEW ext, Good(st, ext), NEW high \in Rules, NEW low \in Rules,
         NEW set \in SUBSET Rules
  PROVE  Goes(ext, st, SetCovering(st, high, low, set))
<1> DEFINE su == SetCovering(st, high, low, set)
           c == Total(ext, st.value)
<1>1. /\ STyped(st) /\ Steady(st.t) /\ ext \in [Nat -> Nat] /\ Accounted(st.t, c)
  BY DEF Good
<1>2. /\ SLater(st, su) /\ su.value = st.value
      /\ OtherEntries(st.t, su.t) /\ su.t.memo = st.t.memo
  BY <1>1, SetCoveringLater
<1> HIDE DEF su
<1>3. Kept(st.t, su.t) /\ Accounted(su.t, c)
  BY <1>1, <1>2, EntriesSteady DEF SLater, STyped, Kept
<1> QED
  BY <1>1, <1>2, <1>3, GoodTable DEF SLater, su

\* The headers that two terminals record move to the terminal of the pair.
LEMMA JoinGood ==
  ASSUME NEW st, NEW ext, Good(st, ext), NEW v1 \in DOMAIN st.value, NEW v2 \in DOMAIN st.value,
         NEW high \in Rules, NEW low \in Rules,
         NEW insc, Later(st.t, insc.t), insc.res \in Nat,
         insc.t.collected \/ (Onward(st.t, insc.t) /\ insc.res \in Bdds(insc.t))
  PROVE  LeafFine(ext, st, Join(st, v1, v2, <<high, low>>, insc))
<1> DEFINE a == [st EXCEPT !.t = insc.t]
           b == SetSelf(a, v2, insc.res, "diff")
           c == SetSelf(b, v1, insc.res, "diff")
           made == JoinValue(c, <<high, low>>, insc.res)
<1> SUFFICES LeafFine(ext, st, made)
  BY DEF Join
<1>0. STyped(st) /\ Steady(st.t) /\ "diff" \in Ops
  BY DEF Good, Ops
<1>1. SLater(st, a) /\ a.t = insc.t /\ a.value = st.value /\ STyped(a)
  BY <1>0, TableLater DEF SLater
<1> HIDE DEF a
<1>2. SLater(a, b) /\ Len(b.value) = Len(a.value) /\ STyped(b)
  BY <1>0, <1>1, SetSelfLater DEF SLater
<1> HIDE DEF b
<1>3. SLater(b, c) /\ Len(c.value) = Len(b.value) /\ STyped(c)
  BY <1>0, <1>2, SetSelfLater DEF SLater
<1> HIDE DEF c
<1>4. /\ v2 \in DOMAIN a.value /\ v1 \in DOMAIN b.value /\ c.value # <<>>
  <2>1. /\ DOMAIN st.value = 1 .. Len(st.value) /\ DOMAIN a.value = 1 .. Len(a.value)
        /\ DOMAIN b.value = 1 .. Len(b.value) /\ DOMAIN c.value = 1 .. Len(c.value)
    BY <1>0, <1>1, <1>2, <1>3, SFields
  <2>2. v1 \in DOMAIN c.value
    BY <1>1, <1>2, <1>3, <2>1
  <2> QED
    BY <1>1, <1>2, <2>1, <2>2
<1>5. SLater(c, made.s)
  BY <1>3, <1>4, JoinValueLater
<1>6. SLater(a, made.s)
  BY <1>1, <1>2, <1>3, <1>5, SLaterTransitive
<1>7. CASE insc.t.collected
  <2>1. Failed(a)
    BY <1>1, <1>7 DEF Failed
  <2> HIDE DEF made
  <2> QED
    BY <1>1, <1>6, <2>1, FailedLater DEF LeafFine
<1>8. CASE Onward(st.t, insc.t) /\ insc.res \in Bdds(insc.t)
  <2> DEFINE tot == Total(ext, st.value)
  <2>1. ext \in [Nat -> Nat] /\ Accounted(st.t, tot)
    BY DEF Good
  <2>2. Kept(st.t, a.t) /\ Accounted(a.t, tot)
    <3> HIDE DEF tot
    <3> QED
      BY <1>0, <1>1, <1>8, <2>1, OnwardKept
  <2>3. Goes(ext, st, a)
    BY <1>1, <2>1, <2>2, GoodTable
  <2>4. insc.res \in Bdds(a.t)
    BY <1>1, <1>8
  <2>5. Fine(ext, a, b)
    BY <1>0, <1>4, <2>3, <2>4, SetSelfGood DEF Goes, b
  <2>6. ASSUME Goes(ext, a, b) PROVE Fine(ext, b, c) /\ insc.res \in Bdds(b.t)
    <3>1. insc.res \in Bdds(b.t)
      BY <2>3, <2>4, <2>6, GoesFacts DEF Goes
    <3> QED
      BY <1>0, <1>4, <2>6, <3>1, SetSelfGood DEF Goes, c
  <2>7. ASSUME Goes(ext, a, b), Goes(ext, b, c) PROVE LeafFine(ext, c, made)
    <3>1. insc.res \in Bdds(c.t) /\ Good(c, ext)
      BY <2>6, <2>7, GoesFacts DEF Goes
    <3> QED
      BY <1>4, <3>1, JoinValueGood
  <2> HIDE DEF made
  <2>8. ASSUME Goes(ext, a, b) PROVE LeafFine(ext, b, made)
    BY <1>3, <1>5, <2>6, <2>7, <2>8, LeafThen DEF Goes
  <2>9. SLater(b, made.s)
    BY <1>2, <1>3, <1>5, SLaterTransitive
  <2>10. LeafFine(ext, a, made)
    BY <1>2, <2>3, <2>5, <2>8, <2>9, LeafThen DEF Goes
  <2> QED
    BY <1>1, <1>6, <2>3, <2>10, LeafThen DEF Fine
<1> QED
  BY <1>7, <1>8

\* mtbdd_maketnode_mtbdd_1tb_r_add
LEMMA AddTnodeGood ==
  ASSUME NEW st, NEW ext, Good(st, ext), NEW n1, NEW n2, Leaf(st, n1), Leaf(st, n2)
  PROVE  LeafFine(ext, st, AddTnode(st, n1, n2))
<1> DEFINE Rule1(n) == st.value[At(st, n)].rule_pair[1]
           nh   == IF Rule1(n1) <= Rule1(n2) THEN n1 ELSE n2
           nl   == IF nh = n1 THEN n2 ELSE n1
           high == Rule1(nh)
           low  == Rule1(nl)
           next == st.value[At(st, nh)].rule_pair[2]
           Self(n) == st.value[At(st, n)].self_bdd
           set  == st.covering[high] \union {low}
           cov  == SetCovering(st, high, low, set)
           insc == Apply(cov.t, Self(n2), Self(n1), "and")
           made == AddTnode(st, n1, n2)
<1> SUFFICES LeafFine(ext, st, made)
  OBVIOUS
<1>0. made = IF n1 = n2 THEN [s |-> st, res |-> n1]
             ELSE IF next = NULL \/ next > low
               THEN Join(cov, At(st, n1), At(st, n2), <<high, low>>, insc)
             ELSE [s |-> SetSelf(cov, At(st, nl), Self(nh), "diff"), res |-> nh]
  BY DEF AddTnode
<1>1. /\ {"and", "diff"} \subseteq Ops
      /\ At(st, n1) \in DOMAIN st.value /\ At(st, n2) \in DOMAIN st.value
  BY LeafFacts DEF Ops
<1>2. /\ STyped(st) /\ Selves(st)
      /\ st.covering \in [Rules -> SUBSET Rules]
      /\ Rule1(n1) \in Rules /\ Rule1(n2) \in Rules
  BY <1>1, SFields DEF Good
<1>3. /\ nh \in {n1, n2} /\ nl \in {n1, n2} /\ high \in Rules /\ low \in Rules
      /\ Self(n1) \in Bdds(st.t) /\ Self(n2) \in Bdds(st.t)
  BY <1>1, <1>2 DEF Selves
<1> HIDE DEF made, nh, nl
<1>4. set \in SUBSET Rules
  BY <1>2, <1>3
<1> HIDE DEF high, low, set
<1>5. /\ SLater(st, cov) /\ cov.value = st.value /\ STyped(cov)
      /\ Goes(ext, st, cov) /\ Good(cov, ext)
  BY <1>2, <1>3, <1>4, SetCoveringLater, SetCoveringGood DEF SLater, Goes
<1> HIDE DEF cov
<1>6. Self(n1) \in Bdds(cov.t) /\ Self(n2) \in Bdds(cov.t)
  BY <1>3, <1>5, GoesFacts
<1>7. /\ Later(cov.t, insc.t) /\ insc.res \in Nat
      /\ insc.t.collected \/ (Onward(cov.t, insc.t) /\ insc.res \in Bdds(insc.t))
  <2> DEFINE x == Self(n2)
             y == Self(n1)
  <2>1. x \in Bdds(cov.t) /\ y \in Bdds(cov.t) /\ Steady(cov.t) /\ Typed(cov.t)
    BY <1>5, <1>6 DEF Good, STyped
  <2> DEFINE t == cov.t
             done == Apply(t, x, y, "and")
  <2>2. insc = done
    OBVIOUS
  <2> HIDE DEF x, y, t
  <2>3. /\ Later(t, done.t) /\ done.res \in Nat
        /\ done.t.collected \/ (Onward(t, done.t) /\ done.res \in Bdds(done.t))
    BY <1>1, <2>1, ApplyLater, ApplySteady DEF t
  <2> HIDE DEF done, insc
  <2> QED
    BY <2>2, <2>3 DEF t
<1> HIDE DEF insc
<1>8. CASE n1 = n2
  <2>1. made.s = st /\ made.res = n1
    BY <1>0, <1>8
  <2> QED
    BY <2>1, GoesItself DEF LeafFine
<1>9. CASE n1 # n2 /\ (next = NULL \/ next > low)
  <2>1. made = Join(cov, At(st, n1), At(st, n2), <<high, low>>, insc)
    BY <1>0, <1>9
  <2> DEFINE v1 == At(st, n1)
             v2 == At(st, n2)
  <2>2. v1 \in DOMAIN cov.value /\ v2 \in DOMAIN cov.value /\ cov.value # <<>>
    BY <1>1, <1>5
  <2> HIDE DEF v1, v2
  <2>3. LeafFine(ext, cov, Join(cov, v1, v2, <<high, low>>, insc))
    BY <1>3, <1>5, <1>7, <2>2, JoinGood
  <2>4. SLater(cov, Join(cov, v1, v2, <<high, low>>, insc).s)
    BY <1>3, <1>5, <1>7, <2>2, JoinLater
  <2> QED
    BY <1>5, <2>1, <2>3, <2>4, LeafThen DEF Fine, v1, v2
<1>10. CASE n1 # n2 /\ ~ (next = NULL \/ next > low)
  <2> DEFINE v == At(st, nl)
             b == Self(nh)
             su == SetSelf(cov, v, b, "diff")
  <2>1. made = [s |-> su, res |-> nh]
    BY <1>0, <1>10
  <2>2. v \in DOMAIN cov.value /\ b \in Bdds(cov.t)
    BY <1>1, <1>3, <1>5, <1>6
  <2> HIDE DEF v, b
  <2>3. SLater(cov, su) /\ Fine(ext, cov, su)
    BY <1>1, <1>5, <2>2, SetSelfLater, SetSelfGood
  <2> HIDE DEF su
  <2>4. Goes(ext, cov, su) => Leaf(su, nh)
    <3>1. Leaf(st, nh)
      BY <1>3
    <3>2. Leaf(cov, nh)
      BY <1>5, <3>1, LeafFacts
    <3> QED
      BY <1>5, <3>2, LeafFacts
  <2>5. LeafFine(ext, cov, made)
    BY <2>1, <2>3, <2>4 DEF LeafFine, Fine
  <2> QED
    BY <1>5, <2>1, <2>3, <2>5, LeafThen DEF Fine
<1> QED
  BY <1>8, <1>9, <1>10

\* Holders that go without giving up their references.
LEMMA CountedLess ==
  ASSUME NEW t, Typed(t), NEW c \in [Nat -> Nat], NEW old \in Nat, c[old] >= 1, Accounted(t, c)
  PROVE  Accounted(t, WithHolder(WithoutHolder(c, old), 0))
<1> DEFINE d == WithoutHolder(c, old)
           e == WithHolder(d, 0)
<1>1. d \in [Nat -> Nat] /\ \A m \in Nat : d[m] = IF m = old THEN c[old] - 1 ELSE c[m]
  <2>1. c[old] - 1 \in Nat
    OBVIOUS
  <2> QED
    BY <2>1 DEF WithoutHolder
<1> HIDE DEF d
<1>2. \A m \in Nat : e[m] = IF m = 0 THEN d[0] + 1 ELSE d[m]
  BY <1>1, MoreFacts, 0 \in Nat
<1> HIDE DEF e
<1>3. /\ DOMAIN t.node \subseteq Nat /\ MaxRef \in Nat
      /\ \A m \in DOMAIN t.node : t.node[m].refcou \in 0 .. MaxRef
  <2>1. DOMAIN t.node = 0 .. MaxSize - 1 /\ \A m \in DOMAIN t.node : t.node[m] \in Nodes
    BY TypedFields
  <2>2. \A m \in DOMAIN t.node : t.node[m].refcou \in 0 .. MaxRef
    BY <2>1 DEF Nodes
  <2> QED
    BY <2>1, <2>2, SizeAssumption
<1> SUFFICES ASSUME NEW n \in DOMAIN t.node, n >= 3
             PROVE  t.node[n].refcou = MaxRef \/ e[n] <= t.node[n].refcou
  BY DEF Accounted, e, d
<1>4. t.node[n].refcou = MaxRef \/ c[n] <= t.node[n].refcou
  BY DEF Accounted
<1>5. n \in Nat /\ n # 0 /\ e[n] = d[n] /\ c[n] \in Nat /\ t.node[n].refcou \in Nat
  BY <1>2, <1>3
<1>6. d[n] <= c[n]
  BY <1>1, <1>5
<1> QED
  BY <1>1, <1>4, <1>5, <1>6

\* mtbdd_maketnode_mtbdd_1tb_r_remove
LEMMA RemoveTnodeGood ==
  ASSUME NEW st, NEW ext, Good(st, ext), NEW n1, NEW n2, Leaf(st, n1), Leaf(st, n2)
  PROVE  NodeFine(ext, st, RemoveTnode(st, n1, n2), VarNum)
<1> DEFINE out  == [st EXCEPT !.value[At(st, n2)].self_bdd = 0]
           rh1  == st.value[At(st, n1)].rule_pair[1]
           rh2  == st.value[At(st, n2)].rule_pair[1]
           cov  == SetCovering(out, rh1, rh2, st.covering[rh1] \ {rh2})
           made == RemoveTnode(st, n1, n2)
           v2   == At(st, n2)
           c    == Total(ext, st.value)
           old  == st.value[v2].self_bdd
<1> SUFFICES NodeFine(ext, st, made, VarNum)
  OBVIOUS
<1>1. made \in {[s |-> out, res |-> 0], [s |-> out, res |-> n1], [s |-> cov, res |-> n1]}
  BY DEF RemoveTnode
<1> HIDE DEF made
<1>2. /\ At(st, n1) \in DOMAIN st.value /\ v2 \in DOMAIN st.value
      /\ STyped(st) /\ Steady(st.t) /\ ext \in [Nat -> Nat] /\ Selves(st)
      /\ st.value \in Seq(ValueNodes) /\ Accounted(st.t, c) /\ Typed(st.t)
  BY LeafFacts, SFields DEF Good
<1>3. rh1 \in Rules /\ rh2 \in Rules /\ st.covering \in [Rules -> SUBSET Rules]
  BY <1>2, SFields
<1>4. st.covering[rh1] \ {rh2} \in SUBSET Rules
  BY <1>3
<1>5. /\ SLater(st, out) /\ out.t = st.t /\ out.value = WithSelf(st.value, v2, 0)
  <2> DEFINE su == [st EXCEPT !.value[v2].self_bdd = 0]
  <2>1. out = su
    OBVIOUS
  <2> HIDE DEF out
  <2>2. /\ SLater(st, su) /\ su.t = st.t /\ su.value = WithSelf(st.value, v2, 0)
    <3>1. STyped(st) /\ 0 \in Nat
      BY <1>2
    <3>2. \A v : LET new == [st EXCEPT !.value[v].self_bdd = 0]
                 IN  /\ SLater(st, new) /\ new.t = st.t
                     /\ new.value = WithSelf(st.value, v, 0)
      BY <3>1, SelfLater
    <3> QED
      BY <3>2
  <2> HIDE DEF su
  <2> QED
    BY <2>1, <2>2
<1> HIDE DEF out, rh1, rh2
<1>6. old \in Nat /\ c \in [Nat -> Nat] /\ c[old] >= 1
  BY <1>2, TotalNumber, SFields
<1>7. Total(ext, out.value) = WithHolder(WithoutHolder(c, old), 0)
  BY <1>2, <1>5, TotalSelf, 0 \in Nat
<1> HIDE DEF c, old
<1>8. Accounted(out.t, Total(ext, out.value))
  BY <1>2, <1>5, <1>6, <1>7, CountedLess
<1>9. Selves(out)
  <2> DEFINE vals == st.value
             new == WithSelf(vals, v2, 0)
  <2>1. vals \in Seq(ValueNodes) /\ out.value = new /\ out.t = st.t
    BY <1>2, <1>5
  <2> HIDE DEF vals, v2
  <2>2. /\ DOMAIN new = DOMAIN vals
        /\ \A w \in DOMAIN vals : new[w].self_bdd = IF w = v2 THEN 0 ELSE vals[w].self_bdd
    BY <2>1, SelfOfValues, 0 \in Nat DEF OtherSelf
  <2> HIDE DEF new
  <2>3. 0 \in Bdds(st.t)
    BY GoodFacts
  <2> QED
    BY <1>2, <2>1, <2>2, <2>3 DEF Selves, vals
<1>10. Goes(ext, st, out)
  <2>1. Grown(st.t, out.t) /\ Steady(out.t)
    BY <1>2, <1>5 DEF Grown, Same
  <2> QED
    BY <1>2, <1>5, <1>8, <1>9, <2>1, GoodStep DEF SLater
<1>11. Goes(ext, st, cov)
  BY <1>3, <1>4, <1>10, SetCoveringGood, GoesTransitive DEF Goes
<1> HIDE DEF cov
<1>12. ASSUME NEW su, Goes(ext, st, su), NEW n \in {0, n1}
       PROVE  n \in Mine(su) /\ VarNum <= Depth(su.t, n)
  <2>1. Good(su, ext) /\ Leaf(su, n1) /\ VarNum \in Nat
    BY <1>12, LeafFacts, SizeAssumption DEF Goes
  <2>2. n1 \in Mine(su) /\ Depth(su.t, n1) = VarNum
    BY <2>1, LeafFacts DEF Leaf
  <2>3. 0 \in Mine(su) /\ Depth(su.t, 0) = VarNum
    BY <2>1, GoodFacts, MtbddFacts
  <2> QED
    BY <2>1, <2>2, <2>3
<1>13. \/ made.s = out /\ made.res \in {0, n1}
       \/ made.s = cov /\ made.res \in {0, n1}
  BY <1>1
<1> QED
  BY <1>10, <1>11, <1>12, <1>13 DEF NodeFine

\* An entry of applycache for what has been computed.
LEMMA MemoizeGood ==
  ASSUME NEW st, NEW ext, Good(st, ext), NEW done, Pair(done), STyped(done.s),
         done.res \in Nat, NEW l \in Mine(st), NEW r \in Mine(st), NEW tag \in Nat,
         NEW d \in Nat, d = Depth(st.t, l) \/ d = Depth(st.t, r), NodeFine(ext, st, done, d)
  PROVE  NodeFine(ext, st, Memoize(done, l, r, tag), d)
<1> DEFINE made == Memoize(done, l, r, tag)
           c == Total(ext, done.s.value)
<1>0. l \in Nat /\ r \in Nat
  BY GoodFacts
<1>1. /\ made.res = done.res
      /\ SLater(done.s, made.s) /\ made.s.value = done.s.value
      /\ OtherEntries(done.s.t, made.s.t)
      /\ \A e \in made.s.t.memo :
           \/ e \in done.s.t.memo
           \/ e.a = l /\ e.b = r /\ e.res = done.res
  <2> HIDE DEF made
  <2>1. Memoized(done, l, r, made)
    BY <1>0, MemoizeLater DEF made
  <2> QED
    BY <2>1 DEF Memoized
<1> HIDE DEF made
<1>2. CASE Failed(done.s)
  BY <1>1, <1>2, FailedLater DEF NodeFine, made
<1>3. CASE ~ Failed(done.s)
  <2>1. /\ Goes(ext, st, done.s) /\ Good(done.s, ext)
        /\ done.res \in Mine(done.s) /\ d <= Depth(done.s.t, done.res)
    BY <1>3 DEF NodeFine, Goes
  <2>2. /\ Steady(done.s.t) /\ Typed(made.s.t) /\ STyped(made.s)
        /\ Accounted(done.s.t, c) /\ ext \in [Nat -> Nat] /\ Len(done.s.value) \in Nat
    BY <1>1, <2>1, GoodFacts DEF Good, SLater, STyped
  <2>3. Steady(made.s.t) /\ Grown(done.s.t, made.s.t) /\ Accounted(made.s.t, c)
    <3> DEFINE t == done.s.t
               u == made.s.t
    <3>1. Steady(t) /\ Typed(u) /\ OtherEntries(t, u) /\ Accounted(t, c)
      BY <1>1, <2>2
    <3> HIDE DEF t, u, c
    <3>2. Steady(u) /\ Grown(t, u) /\ Accounted(u, c)
      BY <3>1, EntriesSteady
    <3> QED
      BY <3>2 DEF t, u
  <2>4. /\ Mine(done.s) \subseteq Mine(made.s) /\ Bdds(done.s.t) \subseteq Bdds(made.s.t)
        /\ \A n \in Mine(done.s) : Depth(made.s.t, n) = Depth(done.s.t, n)
    <3>1. Len(done.s.value) <= Len(made.s.value) /\ Len(made.s.value) \in Nat
      BY <1>1, <2>2
    <3>2. \A n \in Mine(done.s) : n \in Used(done.s.t)
      BY <2>1, GoodFacts
    <3> DEFINE t == done.s.t
               u == made.s.t
               nv == Len(done.s.value)
               nw == Len(made.s.value)
    <3>3. /\ Steady(t) /\ Grown(t, u) /\ nv \in Nat /\ nw \in Nat /\ nv <= nw
          /\ \A n \in Mtbdds(t, nv) : n \in Used(t)
      BY <2>2, <2>3, <3>1, <3>2 DEF Mine
    <3> HIDE DEF t, u, nv, nw
    <3>4. /\ Mtbdds(t, nv) \subseteq Mtbdds(u, nw) /\ Bdds(t) \subseteq Bdds(u)
          /\ \A n \in Mtbdds(t, nv) : Depth(u, n) = Depth(t, n)
      BY <3>3, GrownFacts
    <3> QED
      BY <3>4 DEF t, u, nv, nw, Mine
  <2>5. Selves(made.s)
    BY <1>1, <2>1, <2>4 DEF Good, Selves
  <2>6. /\ {l, r} \subseteq Mine(done.s)
        /\ Depth(done.s.t, l) = Depth(st.t, l) /\ Depth(done.s.t, r) = Depth(st.t, r)
    BY <2>1, GoesFacts
  <2>7. Remembered(made.s)
    <3> SUFFICES ASSUME NEW e \in made.s.t.memo
                 PROVE  /\ {e.a, e.b, e.res} \subseteq Mine(made.s)
                        /\ \/ Depth(made.s.t, e.a) <= Depth(made.s.t, e.res)
                           \/ Depth(made.s.t, e.b) <= Depth(made.s.t, e.res)
      BY DEF Remembered
    <3>1. CASE e \in done.s.t.memo
      <4>1. /\ {e.a, e.b, e.res} \subseteq Mine(done.s)
            /\ \/ Depth(done.s.t, e.a) <= Depth(done.s.t, e.res)
               \/ Depth(done.s.t, e.b) <= Depth(done.s.t, e.res)
        BY <2>1, <3>1 DEF Good, Remembered
      <4> QED
        BY <2>4, <4>1
    <3>2. CASE e.a = l /\ e.b = r /\ e.res = done.res
      BY <2>1, <2>4, <2>6, <3>2
    <3> QED
      BY <1>1, <3>1, <3>2
  <2>8. Accounted(made.s.t, Total(ext, made.s.value))
    BY <1>1, <2>3
  <2>9. Good(made.s, ext)
    BY <2>2, <2>3, <2>5, <2>7, <2>8 DEF Good
  <2>10. Goes(ext, done.s, made.s)
    BY <1>1, <2>2, <2>3, <2>9 DEF Goes
  <2>11. Goes(ext, st, made.s)
    BY <2>1, <2>10, GoesTransitive
  <2>12. made.res \in Mine(made.s) /\ d <= Depth(made.s.t, made.res)
    BY <1>1, <2>1, <2>4
  <2> QED
    BY <2>11, <2>12 DEF NodeFine, made
<1> QED
  BY <1>2, <1>3

-----------------------------------------------------------------------------
(* bdd_to_mtbdd and mf2bdd on a table that has met no collection.          *)

\* What bdd_to_mtbdd makes of t: an MTBDD no higher than the BDD.
MtbddOut(t, nv, level, done) ==
  \/ done.t.collected
  \/ /\ Onward(t, done.t)
     /\ done.res \in Mtbdds(done.t, nv) /\ level <= Depth(done.t, done.res)

\* What a layer of the conversion owes its caller.
ConvertFine(k) ==
  \A t : \A nv \in Nat : \A l \in Bdds(t), tnode \in Mtbdds(t, nv) :
    Steady(t) /\ Depth(t, tnode) = VarNum /\ t.node[l].level >= VarNum + 1 - k
      => MtbddOut(t, nv, t.node[l].level, ConvertRun(k, t, l, tnode))

\* What a node is stays what it is.
LEMMA OnwardFacts ==
  ASSUME NEW t, NEW u, Steady(t), Onward(t, u), NEW nv \in Nat
  PROVE  /\ Steady(u) /\ Bdds(t) \subseteq Bdds(u) /\ Mtbdds(t, nv) \subseteq Mtbdds(u, nv)
         /\ \A n \in Used(t) : /\ Depth(u, n) = Depth(t, n)
                               /\ u.node[n].level = t.node[n].level
                               /\ u.node[n].low = t.node[n].low
                               /\ u.node[n].high = t.node[n].high
BY GrownFacts, nv <= nv DEF Onward

\* The two calls and the node above their results.
LEMMA ConvertNode ==
  ASSUME NEW k \in 0 .. VarNum, ConvertFine(k), NEW t, Steady(t), NEW nv \in Nat,
         NEW l \in Bdds(t), l >= 3, NEW tnode \in Mtbdds(t, nv), Depth(t, tnode) = VarNum,
         t.node[l].level >= VarNum - k
  PROVE  LET low == ConvertRun(k, t, t.node[l].low, tnode)
             high == ConvertRun(k, low.t, t.node[l].high, tnode)
         IN  MtbddOut(t, nv, t.node[l].level,
                      MakeNode(high.t, t.node[l].level, low.res, high.res))
<1> DEFINE a == t.node[l].low
           b == t.node[l].high
           level == t.node[l].level
           low == ConvertRun(k, t, a, tnode)
           high == ConvertRun(k, low.t, b, tnode)
           done == MakeNode(high.t, level, low.res, high.res)
<1> SUFFICES MtbddOut(t, nv, level, done)
  OBVIOUS
<1>1. /\ a \in Bdds(t) /\ b \in Bdds(t) /\ level < t.node[a].level /\ level < t.node[b].level
      /\ level \in Nat /\ t.node[a].level \in Nat /\ t.node[b].level \in Nat
      /\ l \in Used(t) /\ a \in Used(t) /\ b \in Used(t) /\ tnode \in Used(t) /\ tnode \in Nat
      /\ VarNum \in Nat /\ k \in Nat /\ level >= VarNum - k
  BY BddFacts, MtbddFacts, SizeAssumption
<1>2. /\ Later(t, low.t) /\ Later(low.t, high.t) /\ Later(high.t, done.t)
  <2>1. ConvertLater(k) /\ Typed(t)
    BY <1>1, AllConvertsLater DEF Steady
  <2> QED
    BY <1>1, <2>1, ConvertChain
<1> HIDE DEF a, b, level
<1>3. MtbddOut(t, nv, t.node[a].level, low)
  <2>1. t.node[a].level >= VarNum + 1 - k
    BY <1>1
  <2> QED
    BY <1>1, <2>1 DEF ConvertFine
<1> HIDE DEF low
<1>4. CASE low.t.collected
  BY <1>2, <1>4 DEF MtbddOut, Later
<1>5. CASE ~ low.t.collected
  <2>1. /\ Onward(t, low.t) /\ low.res \in Mtbdds(low.t, nv)
        /\ t.node[a].level <= Depth(low.t, low.res)
    BY <1>3, <1>5 DEF MtbddOut
  <2>2. /\ Steady(low.t) /\ b \in Bdds(low.t) /\ tnode \in Mtbdds(low.t, nv)
        /\ Depth(low.t, tnode) = VarNum /\ low.t.node[b].level = t.node[b].level
    BY <1>1, <2>1, OnwardFacts
  <2>3. MtbddOut(low.t, nv, t.node[b].level, high)
    <3>1. low.t.node[b].level >= VarNum + 1 - k
      BY <1>1, <2>2
    <3> QED
      BY <2>2, <3>1 DEF ConvertFine
  <2> HIDE DEF high
  <2>4. CASE high.t.collected
    BY <1>2, <2>4 DEF MtbddOut, Later
  <2>5. CASE ~ high.t.collected
    <3>1. /\ Onward(low.t, high.t) /\ high.res \in Mtbdds(high.t, nv)
          /\ t.node[b].level <= Depth(high.t, high.res)
      BY <2>3, <2>5 DEF MtbddOut
    <3>2. /\ Steady(high.t) /\ low.res \in Mtbdds(high.t, nv)
          /\ t.node[a].level <= Depth(high.t, low.res)
      BY <2>1, <2>2, <3>1, OnwardFacts, MtbddFacts
    <3>3. level < Depth(high.t, low.res) /\ level < Depth(high.t, high.res)
      <4>1. Depth(high.t, low.res) \in Nat /\ Depth(high.t, high.res) \in Nat
        BY <3>1, <3>2, MtbddFacts
      <4> QED
        BY <1>1, <3>1, <3>2, <4>1
    <3>4. \/ done.t.collected
          \/ /\ Onward(high.t, done.t)
             /\ done.res \in Mtbdds(done.t, nv) /\ level <= Depth(done.t, done.res)
      BY <1>1, <3>1, <3>2, <3>3, MakeNodeMtbdd
    <3> HIDE DEF done
    <3>5. Onward(t, high.t)
      BY <2>1, <3>1, OnwardTransitive
    <3> QED
      BY <3>4, <3>5, OnwardTransitive DEF MtbddOut
  <2> QED
    BY <2>4, <2>5
<1> QED
  BY <1>4, <1>5

\* One level more.
LEMMA NextConvertFine ==
  ASSUME NEW k \in 0 .. VarNum, ConvertFine(k)
  PROVE  ConvertFine(k + 1)
<1> SUFFICES ASSUME NEW t, NEW nv \in Nat, NEW l \in Bdds(t), NEW tnode \in Mtbdds(t, nv),
                    Steady(t), Depth(t, tnode) = VarNum,
                    t.node[l].level >= VarNum + 1 - (k + 1)
             PROVE  MtbddOut(t, nv, t.node[l].level, ConvertRun(k + 1, t, l, tnode))
  BY DEF ConvertFine
<1> DEFINE low == ConvertRun(k, t, t.node[l].low, tnode)
           high == ConvertRun(k, low.t, t.node[l].high, tnode)
           node == MakeNode(high.t, t.node[l].level, low.res, high.res)
           done == ConvertRun(k + 1, t, l, tnode)
<1> SUFFICES MtbddOut(t, nv, t.node[l].level, done)
  OBVIOUS
<1>1. /\ l \in Used(t) /\ l \in Nat /\ l # 2 /\ tnode \in Nat /\ t \in Tables /\ Typed(t)
      /\ ~ t.stopped /\ ~ t.wild /\ t.node[0].level = VarNum /\ t.node[1].level = VarNum
      /\ t.node[l].level \in Nat /\ k \in Nat /\ VarNum \in Nat
      /\ 0 \in Mtbdds(t, nv) /\ Depth(t, 0) = VarNum
  BY BddFacts, MtbddFacts, SizeAssumption DEF Steady, Typed
<1>2. t.node[l].level >= VarNum - k
  BY <1>1
<1>3. \/ l = 0 /\ done = [t |-> t, res |-> 0]
      \/ l = 1 /\ done = [t |-> t, res |-> tnode]
      \/ l # 0 /\ l # 1 /\ done = node
  <2>1. \/ (l = 0 \/ t.stopped \/ t.wild) /\ done = [t |-> t, res |-> 0]
        \/ l \notin Used(t) /\ done = [t |-> [t EXCEPT !.wild = TRUE], res |-> 0]
        \/ l = 1 /\ l \in Used(t) /\ done = [t |-> t, res |-> tnode]
        \/ l # 0 /\ l # 1 /\ l \in Used(t) /\ done = node
    BY <1>1, ConvertCases
  <2> HIDE DEF done, node
  <2> QED
    BY <1>1, <2>1
<1>4. ASSUME l >= 3 PROVE MtbddOut(t, nv, t.node[l].level, node)
  BY <1>2, <1>4, ConvertNode
<1> HIDE DEF done, node
<1>5. CASE l = 0 /\ done = [t |-> t, res |-> 0]
  BY <1>1, <1>5, OnwardItself DEF MtbddOut
<1>6. CASE l = 1 /\ done = [t |-> t, res |-> tnode]
  BY <1>1, <1>6, OnwardItself DEF MtbddOut
<1>7. CASE l # 0 /\ l # 1 /\ done = node
  <2>1. l \in Nat /\ l # 2
    BY <1>1
  <2>2. l >= 3
    BY <1>7, <2>1
  <2> QED
    BY <1>4, <1>7, <2>2
<1> QED
  BY <1>3, <1>5, <1>6, <1>7

\* ... to every depth of the recursion.
LEMMA AllConvertsFine == \A k \in 0 .. VarNum + 1 : ConvertFine(k)
<1> DEFINE S == {k \in 0 .. VarNum + 1 : ConvertFine(k)}
<1>1. VarNum + 1 \in Nat /\ VarNum \in Nat
  BY SizeAssumption
<1>2. ConvertFine(0)
  <2> SUFFICES ASSUME NEW t, NEW l \in Bdds(t), Steady(t), t.node[l].level >= VarNum + 1 - 0
               PROVE  FALSE
    BY DEF ConvertFine
  <2> QED
    BY <1>1, BddFacts
<1>3. 0 \in S
  BY <1>1, <1>2
<1>4. ASSUME NEW i \in 0 .. (VarNum + 1) - 1, i \in S PROVE i + 1 \in S
  <2>1. i \in 0 .. VarNum /\ i + 1 \in 0 .. VarNum + 1
    BY <1>1
  <2> QED
    BY <1>4, <2>1, NextConvertFine
<1>5. \A i \in 0 .. VarNum + 1 : i \in S
  <2> HIDE DEF S
  <2> QED
    BY <1>1, <1>3, <1>4, UpTo
<1> QED
  BY <1>1, <1>5

\* bdd_to_mtbdd
LEMMA ToMtbddFine ==
  ASSUME NEW t, Steady(t), NEW nv \in Nat, NEW l \in Bdds(t), NEW tnode \in Mtbdds(t, nv),
         Depth(t, tnode) = VarNum
  PROVE  MtbddOut(t, nv, t.node[l].level, ToMtbdd(t, l, tnode))
<1>1. VarNum \in Nat /\ VarNum + 1 \in 0 .. VarNum + 1 /\ t.node[l].level \in Nat
  BY BddFacts, SizeAssumption
<1>2. t.node[l].level >= VarNum + 1 - (VarNum + 1)
  BY <1>1
<1>3. MtbddOut(t, nv, t.node[l].level, ConvertRun(VarNum + 1, t, l, tnode))
  BY <1>1, <1>2, AllConvertsFine DEF ConvertFine
<1> QED
  BY <1>3 DEF ConvertRun, ToMtbdd

\* What mf2bdd makes of t.
BddOut(t, level, done) ==
  \/ done.t.collected
  \/ /\ Onward(t, done.t)
     /\ done.res \in Bdds(done.t) /\ level <= done.t.node[done.res].level

\* What k bits of a match owe their caller.
MatchFine(k) ==
  \A t : \A P, S \in SUBSET Headers :
    Steady(t) => BddOut(t, VarNum - k, MatchRun(k, t, P, S))

\* One bit more of a match.
LEMMA NextMatchFine ==
  ASSUME NEW k \in Nat, k < VarNum, MatchFine(k), MatchLater(k)
  PROVE  MatchFine(k + 1)
<1> SUFFICES ASSUME NEW t, NEW P \in SUBSET Headers, NEW S \in SUBSET Headers, Steady(t)
             PROVE  BddOut(t, VarNum - (k + 1), MatchRun(k + 1, t, P, S))
  BY DEF MatchFine
<1> DEFINE level == VarNum - (k + 1)
           low == MatchRun(k, t, With(P, level, 0), S)
           high == MatchRun(k, low.t, With(P, level, 1), S)
           done == MatchRun(k + 1, t, P, S)
<1>1. /\ level \in 0 .. VarNum
      /\ With(P, level, 0) \in SUBSET Headers /\ With(P, level, 1) \in SUBSET Headers
      /\ done = MakeNode(high.t, level, low.res, high.res)
      /\ Later(t, low.t) /\ Later(low.t, high.t) /\ Later(high.t, done.t)
  <2>1. Typed(t)
    BY DEF Steady
  <2> QED
    <3>1. MatchSteps(k, t, P, S)
      BY <2>1, MatchChain
    <3> QED
      BY <3>1 DEF MatchSteps
<1>2. level \in Nat /\ VarNum \in Nat /\ level < VarNum - k /\ VarNum - k \in Nat
  BY SizeAssumption
<1>3. BddOut(t, VarNum - k, low)
  BY <1>1 DEF MatchFine
<1> SUFFICES BddOut(t, level, done)
  OBVIOUS
<1> HIDE DEF low, done, level
<1>4. CASE low.t.collected
  BY <1>1, <1>4 DEF BddOut, Later
<1>5. CASE ~ low.t.collected
  <2>1. /\ Onward(t, low.t) /\ low.res \in Bdds(low.t)
        /\ VarNum - k <= low.t.node[low.res].level /\ Steady(low.t)
    BY <1>3, <1>5 DEF BddOut, Onward
  <2>2. BddOut(low.t, VarNum - k, high)
    BY <1>1, <2>1 DEF MatchFine
  <2> HIDE DEF high
  <2>3. CASE high.t.collected
    BY <1>1, <2>3 DEF BddOut, Later
  <2>4. CASE ~ high.t.collected
    <3>1. /\ Onward(low.t, high.t) /\ high.res \in Bdds(high.t)
          /\ VarNum - k <= high.t.node[high.res].level
      BY <2>2, <2>4 DEF BddOut
    <3>2. /\ Steady(high.t) /\ low.res \in Bdds(high.t)
          /\ high.t.node[low.res].level = low.t.node[low.res].level
      BY <2>1, <3>1, OnwardFacts, BddFacts, 0 \in Nat
    <3>3. level < high.t.node[low.res].level /\ level < high.t.node[high.res].level
      <4>1. high.t.node[low.res].level \in Nat /\ high.t.node[high.res].level \in Nat
        BY <3>1, <3>2, BddFacts
      <4> QED
        BY <1>2, <2>1, <3>1, <3>2, <4>1
    <3> DEFINE made == MakeNode(high.t, level, low.res, high.res)
    <3>4. \/ made.t.collected
          \/ /\ Onward(high.t, made.t)
             /\ made.res \in Bdds(made.t) /\ level <= made.t.node[made.res].level
      BY <1>2, <3>1, <3>2, <3>3, MakeNodeBdd
    <3>5. Onward(t, high.t)
      BY <2>1, <3>1, OnwardTransitive
    <3>6. done = made
      BY <1>1
    <3> HIDE DEF made
    <3> QED
      BY <3>4, <3>5, <3>6, OnwardTransitive DEF BddOut
  <2> QED
    BY <2>3, <2>4
<1> QED
  BY <1>4, <1>5

\* ... for every number of header bits.
LEMMA AllMatchesFine == \A k \in 0 .. VarNum : MatchFine(k)
<1> DEFINE S == {k \in 0 .. VarNum : MatchFine(k)}
<1>1. VarNum \in Nat /\ 0 \in Nat /\ 0 < VarNum
  BY SizeAssumption
<1>2. MatchFine(0)
  <2> SUFFICES ASSUME NEW t, NEW P \in SUBSET Headers, NEW M \in SUBSET Headers, Steady(t)
               PROVE  BddOut(t, VarNum - 0, MatchRun(0, t, P, M))
    BY DEF MatchFine
  <2>1. MatchRun(0, t, P, M) = [t |-> t, res |-> IF P \subseteq M THEN 1 ELSE 0]
    <3>1. t \in Tables
      BY DEF Steady, Typed
    <3> QED
      BY <1>1, <3>1, MatchRunIs
  <2>2. {0, 1} \subseteq Bdds(t) /\ t.node[0].level = VarNum /\ t.node[1].level = VarNum
    BY BddFacts DEF Steady
  <2>3. VarNum - 0 <= VarNum
    BY <1>1
  <2>4. CASE P \subseteq M
    BY <2>1, <2>2, <2>3, <2>4, OnwardItself DEF BddOut
  <2>5. CASE ~ (P \subseteq M)
    BY <2>1, <2>2, <2>3, <2>5, OnwardItself DEF BddOut
  <2> QED
    BY <2>4, <2>5
<1>3. 0 \in S
  BY <1>1, <1>2
<1>4. ASSUME NEW i \in 0 .. VarNum - 1, i \in S PROVE i + 1 \in S
  <2>1. i \in Nat /\ i < VarNum /\ i \in 0 .. VarNum /\ i + 1 \in 0 .. VarNum
    BY <1>1
  <2> QED
    BY <1>4, <2>1, NextMatchFine, AllMatchesLater
<1>5. \A i \in 0 .. VarNum : i \in S
  <2> HIDE DEF S
  <2> QED
    BY <1>1, <1>3, <1>4, UpTo
<1> QED
  BY <1>5

-----------------------------------------------------------------------------
(* The recursion on a state that has lost nothing.                         *)

RunCall(k, st, ext, op, l, r, d) ==
  (/\ Good(st, ext)
   /\ d = Depth(st.t, l) \/ d = Depth(st.t, r)
   /\ d <= Depth(st.t, l) /\ d <= Depth(st.t, r) /\ d >= VarNum + 1 - k)
    => NodeFine(ext, st, RunAt(k, st, op, l, r), d)

\* What a layer of the recursion owes its caller.
RunFine(k) ==
  \A st, ext : \A op \in {"add", "remove"}, l \in Mine(st), r \in Mine(st), d \in Nat :
    RunCall(k, st, ext, op, l, r, d)

\* The nodes of an MTBDD that has lost nothing are intact.
LEMMA MineFacts ==
  ASSUME NEW st, NEW ext, Good(st, ext), NEW n \in Mine(st)
  PROVE  /\ n \in Used(st.t) /\ n \in Nat /\ (n = 0 \/ n >= 3)
         /\ Depth(st.t, n) \in 0 .. VarNum
         /\ n # 0 => Intact(st, n)
         /\ n # 0 /\ IsLeaf(st.t, n) => Leaf(st, n) /\ Depth(st.t, n) = VarNum
         /\ n # 0 /\ ~ IsLeaf(st.t, n) =>
              /\ st.t.node[n].level = Depth(st.t, n) /\ Depth(st.t, n) < VarNum
              /\ \A son \in {st.t.node[n].low, st.t.node[n].high} :
                   son \in Mine(st) /\ Depth(st.t, n) < Depth(st.t, son)
<1> DEFINE t == st.t
           nv == Len(st.value)
<1>1. Steady(t) /\ nv \in Nat /\ DOMAIN st.value = 1 .. nv /\ n \in Mtbdds(t, nv)
  BY GoodFacts, SFields DEF Good, Mine
<1> HIDE DEF nv
<1>2. /\ n \in Used(t) /\ n \in Nat /\ (n = 0 \/ n >= 3) /\ Depth(t, n) \in 0 .. VarNum
      /\ n >= 3 /\ IsLeaf(t, n) => t.node[n].high + 1 \in 1 .. nv /\ Depth(t, n) = VarNum
      /\ n >= 3 /\ ~ IsLeaf(t, n) =>
           /\ t.node[n].level < VarNum /\ Depth(t, n) = t.node[n].level
           /\ \A son \in {t.node[n].low, t.node[n].high} :
                son \in Mtbdds(t, nv) /\ t.node[n].level < Depth(t, son)
  BY <1>1, MtbddFacts
<1>3. \A m \in Mtbdds(t, nv) : m \in Used(t) /\ (m = 0 \/ m >= 3)
  BY <1>1, MtbddFacts
<1>4. n # 0 /\ IsLeaf(t, n) => Intact(st, n)
  BY <1>1, <1>2 DEF Intact, At
<1>5. n # 0 /\ ~ IsLeaf(t, n) => Intact(st, n)
  <2> SUFFICES ASSUME n # 0, ~ IsLeaf(t, n)
               PROVE  \A son \in {t.node[n].low, t.node[n].high} :
                        \/ son = 0
                        \/ son \in Used(t) /\ IsLeaf(t, son)
                        \/ son \in Used(t) /\ son >= 3 /\ t.node[n].level < t.node[son].level
    BY <1>2 DEF Intact
  <2> QED
    BY <1>2, <1>3 DEF Depth
<1> QED
  BY <1>2, <1>4, <1>5 DEF Leaf, Mine, nv

\* The sons that the recursion goes on with are below the level.
LEMMA SonFine ==
  ASSUME NEW st, NEW ext, Good(st, ext), NEW n \in Mine(st), n # 0,
         NEW d \in Nat, d < VarNum, d <= Depth(st.t, n), NEW b
  PROVE  SonAt(st.t, n, d, b) \in Mine(st) /\ d < Depth(st.t, SonAt(st.t, n, d, b))
<1>1. Depth(st.t, n) \in Nat
  BY MineFacts, SizeAssumption
<1>2. CASE IsLeaf(st.t, n)
  BY <1>2, MineFacts DEF SonAt
<1>3. CASE ~ IsLeaf(st.t, n) /\ st.t.node[n].level # d
  <2>1. st.t.node[n].level = Depth(st.t, n)
    BY <1>3, MineFacts
  <2> QED
    BY <1>1, <1>3, <2>1 DEF SonAt
<1>4. CASE ~ IsLeaf(st.t, n) /\ st.t.node[n].level = d
  <2>1. /\ d = Depth(st.t, n)
        /\ \A son \in {st.t.node[n].low, st.t.node[n].high} :
             son \in Mine(st) /\ Depth(st.t, n) < Depth(st.t, son)
    BY <1>4, MineFacts
  <2> QED
    BY <1>4, <2>1 DEF SonAt
<1> QED
  BY <1>2, <1>3, <1>4

\* A call for nodes below a level.
LEMMA RunBelow ==
  ASSUME NEW k \in 0 .. VarNum, RunFine(k), NEW st, NEW ext, Good(st, ext),
         NEW op \in {"add", "remove"}, NEW l \in Mine(st), NEW r \in Mine(st),
         NEW d \in Nat, d < Depth(st.t, l), d < Depth(st.t, r), d >= VarNum - k
  PROVE  NodeFine(ext, st, RunAt(k, st, op, l, r), d + 1)
<1> DEFINE x == Depth(st.t, l)
           y == Depth(st.t, r)
           made == RunAt(k, st, op, l, r)
<1>1. VarNum \in Nat /\ k \in Nat /\ x \in Nat /\ y \in Nat /\ d < x /\ d < y
  BY MineFacts, SizeAssumption
<1> HIDE DEF x, y, made
<1>2. PICK m \in Nat : /\ m = x \/ m = y
                       /\ m <= x /\ m <= y /\ m >= VarNum + 1 - k /\ d + 1 <= m
  <2>1. CASE x <= y
    BY <1>1, <2>1
  <2>2. CASE y <= x
    BY <1>1, <2>2
  <2> QED
    BY <1>1, <2>1, <2>2
<1>3. NodeFine(ext, st, made, m)
  BY <1>2 DEF RunFine, RunCall, x, y, made
<1>4. ASSUME Goes(ext, st, made.s), made.res \in Mine(made.s), m <= Depth(made.s.t, made.res)
      PROVE  d + 1 <= Depth(made.s.t, made.res)
  <2>1. Depth(made.s.t, made.res) \in Nat
    <3>1. Good(made.s, ext)
      BY <1>4 DEF Goes
    <3>2. Depth(made.s.t, made.res) \in 0 .. VarNum
      BY <1>4, <3>1, MineFacts
    <3> QED
      BY <1>1, <3>2
  <2> QED
    BY <1>2, <1>4, <2>1
<1> QED
  BY <1>3, <1>4 DEF NodeFine, made

\* The node above the results of two calls.
LEMMA NodeAbove ==
  ASSUME NEW st, NEW ext, Good(st, ext), NEW low \in Mine(st), NEW high \in Mine(st),
         NEW d \in Nat, d < Depth(st.t, low), d < Depth(st.t, high)
  PROVE  LET made == InState(st, MakeNode(st.t, d, low, high))
         IN  STyped(made.s) => NodeFine(ext, st, made, d)
<1> DEFINE done == MakeNode(st.t, d, low, high)
           su == [st EXCEPT !.t = done.t]
           made == InState(st, done)
           nv == Len(st.value)
           c == Total(ext, st.value)
<1> SUFFICES ASSUME STyped(made.s) PROVE NodeFine(ext, st, made, d)
  OBVIOUS
<1>1. /\ Steady(st.t) /\ nv \in Nat /\ low \in Mtbdds(st.t, nv) /\ high \in Mtbdds(st.t, nv)
      /\ ext \in [Nat -> Nat] /\ Accounted(st.t, c) /\ st \in States
  BY GoodFacts DEF Mine, Good, STyped
<1>2. /\ made.res = done.res /\ made.s.t = done.t /\ made.s.value = st.value
  BY <1>1 DEF InState, States
<1> HIDE DEF made, nv
<1>3. \/ done.t.collected
      \/ /\ Onward(st.t, done.t)
         /\ done.res \in Mtbdds(done.t, nv) /\ d <= Depth(done.t, done.res)
  BY <1>1, MakeNodeMtbdd
<1> HIDE DEF done, c
<1>4. CASE done.t.collected
  BY <1>2, <1>4 DEF NodeFine, Failed
<1>5. CASE /\ Onward(st.t, done.t)
           /\ done.res \in Mtbdds(done.t, nv) /\ d <= Depth(done.t, done.res)
  <2>1. Kept(st.t, done.t) /\ Accounted(done.t, c)
    BY <1>1, <1>5, OnwardKept
  <2>2. Goes(ext, st, made.s)
    BY <1>1, <1>2, <2>1, GoodTable DEF c
  <2>3. made.res \in Mine(made.s) /\ d <= Depth(made.s.t, made.res)
    BY <1>2, <1>5 DEF Mine, nv
  <2> QED
    BY <2>2, <2>3 DEF NodeFine
<1> QED
  BY <1>3, <1>4, <1>5

\* The walk of two nodes goes on at the higher of their levels.
LEMMA TopLevelIs ==
  ASSUME NEW st, NEW ext, Good(st, ext), NEW l \in Mine(st), NEW r \in Mine(st),
         l # 0, r # 0, ~ IsLeaf(st.t, l) \/ ~ IsLeaf(st.t, r),
         NEW d \in Nat, d = Depth(st.t, l) \/ d = Depth(st.t, r),
         d <= Depth(st.t, l), d <= Depth(st.t, r)
  PROVE  TopLevel(st.t, l, r) = d /\ d < VarNum
<1> DEFINE x == Depth(st.t, l)
           y == Depth(st.t, r)
           a == st.t.node[l].level
           b == st.t.node[r].level
<1>1. /\ x \in Nat /\ y \in Nat /\ VarNum \in Nat
      /\ IsLeaf(st.t, l) => x = VarNum
      /\ IsLeaf(st.t, r) => y = VarNum
      /\ ~ IsLeaf(st.t, l) => x = a /\ x < VarNum
      /\ ~ IsLeaf(st.t, r) => y = b /\ y < VarNum
      /\ d = x \/ d = y
      /\ d <= x /\ d <= y
  BY MineFacts, SizeAssumption
<1>2. TopLevel(st.t, l, r) = IF IsLeaf(st.t, l) THEN b
                             ELSE IF IsLeaf(st.t, r) \/ a <= b THEN a ELSE b
  BY DEF TopLevel
<1> HIDE DEF x, y, a, b
<1>3. CASE IsLeaf(st.t, l)
  BY <1>1, <1>2, <1>3
<1>4. CASE IsLeaf(st.t, r)
  BY <1>1, <1>2, <1>4
<1>5. CASE ~ IsLeaf(st.t, l) /\ ~ IsLeaf(st.t, r)
  BY <1>1, <1>2, <1>5
<1> QED
  BY <1>3, <1>4, <1>5

\* What failed in the middle has failed at the end, and what went on goes on.
LEMMA NodeThen ==
  ASSUME NEW a, NEW b, NEW made, NEW exa, NEW ext, NEW exu, NEW d, Good(a, exa),
         Fine(ext, a, b), STyped(b), SLater(b, made.s),
         Goes(ext, a, b) => NodeFine(exu, b, made, d)
  PROVE  NodeFine(exu, a, made, d)
<1>1. CASE Failed(b)
  BY <1>1, FailedLater DEF NodeFine
<1>2. CASE Goes(ext, a, b)
  BY <1>2, GoesTransitive DEF NodeFine
<1> QED
  BY <1>1, <1>2 DEF Fine

\* The two calls and the node above their results.
LEMMA WalkFine ==
  ASSUME NEW k \in 0 .. VarNum, RunFine(k), NEW st, NEW ext, Good(st, ext),
         NEW op \in {"add", "remove"}, NEW l \in Mine(st), NEW r \in Mine(st),
         l # 0, r # 0, ~ IsLeaf(st.t, l) \/ ~ IsLeaf(st.t, r),
         NEW d \in Nat, d = Depth(st.t, l) \/ d = Depth(st.t, r),
         d <= Depth(st.t, l), d <= Depth(st.t, r), d >= VarNum - k
  PROVE  NodeFine(ext, st, Walk(RecAt[k], st, op, l, r), d)
<1> DEFINE b0 == IF st.lowFirst THEN 0 ELSE 1
           l0 == SonAt(st.t, l, d, b0)
           r0 == SonAt(st.t, r, d, b0)
           l1 == SonAt(st.t, l, d, 1 - b0)
           r1 == SonAt(st.t, r, d, 1 - b0)
           first == RunAt(k, st, op, l0, r0)
           second == RunAt(k, first.s, op, l1, r1)
           low == IF st.lowFirst THEN first.res ELSE second.res
           high == IF st.lowFirst THEN second.res ELSE first.res
           done == MakeNode(second.s.t, d, low, high)
           made == Walk(RecAt[k], st, op, l, r)
<1> SUFFICES NodeFine(ext, st, made, d)
  OBVIOUS
<1>1. TopLevel(st.t, l, r) = d /\ d < VarNum
  BY TopLevelIs
<1>2. STyped(st) /\ l \in Used(st.t) /\ r \in Used(st.t)
  BY GoodFacts
<1>3. /\ made = InState(second.s, done)
      /\ SLater(st, first.s) /\ SLater(first.s, second.s) /\ SLater(second.s, made.s)
  <2> DEFINE level == TopLevel(st.t, l, r)
             f == RunAt(k, st, op, SonAt(st.t, l, level, b0), SonAt(st.t, r, level, b0))
             g == RunAt(k, f.s, op, SonAt(st.t, l, level, 1 - b0),
                        SonAt(st.t, r, level, 1 - b0))
             lo == IF st.lowFirst THEN f.res ELSE g.res
             hi == IF st.lowFirst THEN g.res ELSE f.res
             node == MakeNode(g.s.t, level, lo, hi)
  <2>1. RunLater(k)
    <3>1. k \in 0 .. VarNum + 1
      BY SizeAssumption
    <3> QED
      BY <3>1, AllRunsLater
  <2>2. /\ made = InState(g.s, node)
        /\ SLater(st, f.s) /\ SLater(f.s, g.s) /\ SLater(g.s, made.s)
    <3>1. WalkSteps(k, st, op, l, r)
      BY <1>2, <2>1, WalkLater
    <3> QED
      BY <3>1 DEF WalkSteps
  <2>3. f = first /\ g = second /\ node = done
    BY <1>1
  <2> HIDE DEF made, f, g, node, first, second, done
  <2> QED
    BY <2>2, <2>3
<1> HIDE DEF made
<1>4. /\ l0 \in Mine(st) /\ d < Depth(st.t, l0) /\ r0 \in Mine(st) /\ d < Depth(st.t, r0)
      /\ l1 \in Mine(st) /\ d < Depth(st.t, l1) /\ r1 \in Mine(st) /\ d < Depth(st.t, r1)
  <2>1. \A b : /\ SonAt(st.t, l, d, b) \in Mine(st) /\ d < Depth(st.t, SonAt(st.t, l, d, b))
               /\ SonAt(st.t, r, d, b) \in Mine(st) /\ d < Depth(st.t, SonAt(st.t, r, d, b))
    BY <1>1, SonFine
  <2> QED
    BY <2>1
<1> HIDE DEF l0, r0, l1, r1
<1>5. NodeFine(ext, st, first, d + 1)
  BY <1>4, RunBelow
<1> HIDE DEF first
<1>6. /\ STyped(first.s) /\ STyped(second.s) /\ STyped(made.s)
      /\ SLater(first.s, made.s)
  BY <1>2, <1>3, SLaterTransitive DEF SLater
<1>7. Fine(ext, st, first.s)
  BY <1>5 DEF NodeFine, Fine
<1>8. ASSUME Goes(ext, st, first.s) PROVE NodeFine(ext, first.s, made, d)
  <2>1. CASE Failed(first.s)
    BY <1>6, <2>1, FailedLater DEF NodeFine
  <2>2. CASE ~ Failed(first.s)
    <3>1. /\ Good(first.s, ext) /\ first.res \in Mine(first.s)
          /\ d + 1 <= Depth(first.s.t, first.res)
          /\ l1 \in Mine(first.s) /\ r1 \in Mine(first.s)
          /\ d < Depth(first.s.t, l1) /\ d < Depth(first.s.t, r1)
      BY <1>4, <1>5, <1>8, <2>2, GoesFacts, GoodFacts DEF NodeFine, Goes
    <3>2. NodeFine(ext, first.s, second, d + 1)
      BY <3>1, RunBelow
    <3> HIDE DEF second
    <3>3. Fine(ext, first.s, second.s)
      BY <3>2 DEF NodeFine, Fine
    <3>4. ASSUME Goes(ext, first.s, second.s) PROVE NodeFine(ext, second.s, made, d)
      <4>1. CASE Failed(second.s)
        BY <1>3, <1>6, <4>1, FailedLater DEF NodeFine
      <4>2. CASE ~ Failed(second.s)
        <5>1. /\ Good(second.s, ext)
              /\ second.res \in Mine(second.s) /\ d + 1 <= Depth(second.s.t, second.res)
              /\ first.res \in Mine(second.s) /\ d + 1 <= Depth(second.s.t, first.res)
          BY <3>1, <3>2, <3>4, <4>2, GoesFacts, GoodFacts DEF NodeFine, Goes
        <5>2. \A n \in Mine(second.s) : Depth(second.s.t, n) \in Nat
          BY <5>1, MineFacts, SizeAssumption
        <5>3. /\ d < Depth(second.s.t, first.res) /\ d < Depth(second.s.t, second.res)
          BY <5>1, <5>2
        <5>4. /\ low \in Mine(second.s) /\ high \in Mine(second.s)
              /\ d < Depth(second.s.t, low) /\ d < Depth(second.s.t, high)
          BY <5>1, <5>3
        <5> HIDE DEF low, high
        <5>5. STyped(InState(second.s, done).s) => NodeFine(ext, second.s, InState(second.s, done), d)
          BY <5>1, <5>4, NodeAbove
        <5> QED
          BY <1>3, <1>6, <5>5
      <4> QED
        BY <4>1, <4>2
    <3> QED
      BY <1>3, <1>6, <3>1, <3>3, <3>4, NodeThen
  <2> QED
    BY <2>1, <2>2
<1> HIDE DEF second
<1> QED
  BY <1>6, <1>7, <1>8, NodeThen

\* A terminal is a node below all levels.
LEMMA LeafNode ==
  ASSUME NEW st, NEW ext, NEW made, LeafFine(ext, st, made)
  PROVE  NodeFine(ext, st, made, VarNum)
<1>1. CASE Failed(made.s)
  BY <1>1 DEF NodeFine
<1>2. CASE Goes(ext, st, made.s) /\ Leaf(made.s, made.res)
  <2>1. /\ made.res \in Mine(made.s) /\ Depth(made.s.t, made.res) = VarNum
    BY <1>2, LeafFacts DEF Goes, Leaf
  <2> QED
    BY <1>2, <2>1, SizeAssumption DEF NodeFine
<1> QED
  BY <1>1, <1>2 DEF LeafFine

\* One level more.
LEMMA NextRunFine ==
  ASSUME NEW k \in 0 .. VarNum, RunFine(k)
  PROVE  RunFine(k + 1)
<1> SUFFICES ASSUME NEW st, NEW ext, NEW op \in {"add", "remove"},
                    NEW l \in Mine(st), NEW r \in Mine(st), NEW d \in Nat,
                    Good(st, ext), d = Depth(st.t, l) \/ d = Depth(st.t, r),
                    d <= Depth(st.t, l), d <= Depth(st.t, r), d >= VarNum + 1 - (k + 1)
             PROVE  NodeFine(ext, st, RunAt(k + 1, st, op, l, r), d)
  BY DEF RunFine, RunCall
<1> DEFINE made == RunAt(k + 1, st, op, l, r)
           tnode == IF op = "add" THEN AddTnode(st, l, r) ELSE RemoveTnode(st, l, r)
           walk == Walk(RecAt[k], st, op, l, r)
<1> SUFFICES NodeFine(ext, st, made, d)
  OBVIOUS
<1>0. /\ STyped(st) /\ ~ st.t.stopped /\ ~ st.t.wild /\ st.tag \in Nat
      /\ l \in Nat /\ r \in Nat /\ l \in Used(st.t) /\ r \in Used(st.t)
      /\ VarNum \in Nat /\ k \in Nat /\ Goes(ext, st, st)
      /\ 0 \in Mine(st) /\ Depth(st.t, 0) = VarNum
      /\ Depth(st.t, l) \in 0 .. VarNum /\ Depth(st.t, r) \in 0 .. VarNum
      /\ l # 0 => Intact(st, l)
      /\ r # 0 => Intact(st, r)
  <2>1. /\ STyped(st) /\ Steady(st.t) /\ 0 \in Mine(st) /\ Len(st.value) \in Nat
        /\ Goes(ext, st, st)
    BY GoodFacts, GoesItself
  <2>2. Depth(st.t, 0) = VarNum /\ ~ st.t.stopped /\ ~ st.t.wild /\ st.tag \in Nat
    BY <2>1, MtbddFacts, SFields DEF Steady
  <2> QED
    BY <2>1, <2>2, MineFacts, SizeAssumption
<1>1. /\ (k + 1) \in 0 .. VarNum + 1 /\ k \in 0 .. VarNum + 1 /\ d >= VarNum - k
  BY <1>0
<1>2. \/ r = 0 /\ made = [s |-> st, res |-> l]
      \/ l = 0 /\ made = [s |-> st, res |-> r]
      \/ l = 0 /\ made = [s |-> st, res |-> l]
      \/ \E e \in Known(st, l, r) : made = [s |-> st, res |-> e.res]
      \/ /\ l # 0 /\ r # 0 /\ (~ IsLeaf(st.t, l) \/ ~ IsLeaf(st.t, r))
         /\ made = Memoize(walk, l, r, st.tag)
      \/ /\ l # 0 /\ r # 0 /\ IsLeaf(st.t, l) /\ IsLeaf(st.t, r)
         /\ made = Memoize(tnode, l, r, st.tag)
  <2>1. \/ (st.t.stopped \/ st.t.wild) /\ made = [s |-> st, res |-> 0]
        \/ r = 0 /\ made = [s |-> st, res |-> l]
        \/ l = 0 /\ made = [s |-> st, res |-> IF op = "add" THEN r ELSE l]
        \/ /\ r # 0 /\ l # 0 /\ ~ (Intact(st, l) /\ Intact(st, r))
           /\ made = Wild(st)
        \/ \E e \in Known(st, l, r) : made = [s |-> st, res |-> e.res]
        \/ /\ Intact(st, l) /\ Intact(st, r) /\ (~ IsLeaf(st.t, l) \/ ~ IsLeaf(st.t, r))
           /\ made = Memoize(walk, l, r, st.tag)
        \/ /\ Intact(st, l) /\ Intact(st, r) /\ IsLeaf(st.t, l) /\ IsLeaf(st.t, r)
           /\ made = Memoize(tnode, l, r, st.tag)
    BY SMTT(20), <1>0, RunCases
  <2>2. \A n : Intact(st, n) => n # 0
    BY DEF Intact
  <2> HIDE DEF made, walk, tnode
  <2> QED
    BY <1>0, <2>1, <2>2
<1>3. SLater(st, walk.s) /\ walk.res \in Nat /\ Pair(walk)
  <2>1. Pair(walk)
    <3>1. \A run : Pair(Walk(run, st, op, l, r))
      BY DEF Walk, InState, Pair
    <3> QED
      BY <3>1
  <2> HIDE DEF walk
  <2>3. WalkSteps(k, st, op, l, r)
    BY Zenon, <1>0, <1>1, WalkLater, AllRunsLater
  <2>2. LET w == Walk(RecAt[k], st, op, l, r) IN SLater(st, w.s) /\ w.res \in Nat
    BY <2>3 DEF WalkSteps
  <2> QED
    BY <2>1, <2>2 DEF walk
<1>4. ASSUME l # 0, r # 0, ~ IsLeaf(st.t, l) \/ ~ IsLeaf(st.t, r)
      PROVE  NodeFine(ext, st, walk, d)
  BY <1>1, <1>4, WalkFine
<1>5. ASSUME l # 0, r # 0, IsLeaf(st.t, l), IsLeaf(st.t, r)
      PROVE  /\ NodeFine(ext, st, tnode, d)
             /\ SLater(st, tnode.s) /\ tnode.res \in Nat /\ Pair(tnode)
  <2>1. Leaf(st, l) /\ Leaf(st, r) /\ d = VarNum
    BY <1>5, MineFacts
  <2>2. /\ At(st, l) \in DOMAIN st.value /\ At(st, r) \in DOMAIN st.value
    BY <2>1, LeafFacts
  <2>3. SLater(st, tnode.s) /\ tnode.res \in Nat
    BY <1>0, <2>2, AddTnodeLater, RemoveTnodeLater
  <2>4. Pair(tnode)
    BY DEF Pair, AddTnode, RemoveTnode, Join, JoinValue, NewValue, Terminal, InState
  <2>5. /\ NodeFine(ext, st, AddTnode(st, l, r), VarNum)
        /\ NodeFine(ext, st, RemoveTnode(st, l, r), VarNum)
    BY <2>1, AddTnodeGood, RemoveTnodeGood, LeafNode
  <2>6. NodeFine(ext, st, tnode, VarNum)
    BY <2>5
  <2> HIDE DEF tnode
  <2> QED
    BY <2>1, <2>3, <2>4, <2>6
<1> HIDE DEF made, walk, tnode
<1>6. ASSUME NEW in, NodeFine(ext, st, in, d), SLater(st, in.s), in.res \in Nat, Pair(in),
             made = Memoize(in, l, r, st.tag)
      PROVE  NodeFine(ext, st, made, d)
  BY <1>0, <1>6, MemoizeGood DEF SLater
<1>7. ASSUME NEW n, made = [s |-> st, res |-> n], n \in Mine(st), d <= Depth(st.t, n)
      PROVE  NodeFine(ext, st, made, d)
  BY <1>0, <1>7 DEF NodeFine
<1>8. ASSUME NEW e \in Known(st, l, r) PROVE e.res \in Mine(st) /\ d <= Depth(st.t, e.res)
  <2>1. /\ e.a = l /\ e.b = r /\ e.res \in Mine(st)
        /\ \/ Depth(st.t, e.a) <= Depth(st.t, e.res)
           \/ Depth(st.t, e.b) <= Depth(st.t, e.res)
    BY DEF Known, Good, Remembered
  <2>2. Depth(st.t, e.res) \in 0 .. VarNum
    BY <2>1, MineFacts
  <2> QED
    BY <1>0, <2>1, <2>2
<1> QED
  BY <1>2, <1>3, <1>4, <1>5, <1>6, <1>7, <1>8

\* ... to every depth of the recursion.
LEMMA AllRunsFine == \A k \in 0 .. VarNum + 1 : RunFine(k)
<1> DEFINE S == {k \in 0 .. VarNum + 1 : RunFine(k)}
<1>1. VarNum + 1 \in Nat /\ VarNum \in Nat
  BY SizeAssumption
<1>2. RunFine(0)
  <2>1. ASSUME NEW st, NEW ext, NEW op \in {"add", "remove"},
               NEW l \in Mine(st), NEW r \in Mine(st), NEW d \in Nat
        PROVE  RunCall(0, st, ext, op, l, r, d)
    <3>1. Good(st, ext) => Depth(st.t, l) \in 0 .. VarNum
      BY <2>1, MineFacts
    <3> QED
      BY <1>1, <2>1, <3>1 DEF RunCall
  <2> QED
    BY <2>1 DEF RunFine
<1>3. 0 \in S
  BY <1>1, <1>2
<1>4. ASSUME NEW i \in 0 .. (VarNum + 1) - 1, i \in S PROVE i + 1 \in S
  <2>1. i \in 0 .. VarNum /\ i + 1 \in 0 .. VarNum + 1
    BY <1>1
  <2> QED
    BY <1>4, <2>1, NextRunFine
<1>5. \A i \in 0 .. VarNum + 1 : i \in S
  <2> HIDE DEF S
  <2> QED
    BY <1>1, <1>3, <1>4, UpTo
<1> QED
  BY <1>1, <1>5

\* mtbdd_r_add_1tb_rec and mtbdd_r_remove_1tb_rec, from the root.
LEMMA RunGood ==
  ASSUME NEW st, NEW ext, Good(st, ext), NEW op \in {"add", "remove"},
         NEW l \in Mine(st), NEW r \in Mine(st)
  PROVE  LET made == Run(st, op, l, r)
         IN  Failed(made.s) \/ (Goes(ext, st, made.s) /\ made.res \in Mine(made.s))
<1> DEFINE x == Depth(st.t, l)
           y == Depth(st.t, r)
           made == RunAt(VarNum + 1, st, op, l, r)
<1>1. VarNum \in Nat /\ VarNum + 1 \in 0 .. VarNum + 1 /\ x \in Nat /\ y \in Nat
  BY MineFacts, SizeAssumption
<1> HIDE DEF x, y, made
<1>2. PICK d \in Nat : (d = x \/ d = y) /\ d <= x /\ d <= y /\ d >= VarNum + 1 - (VarNum + 1)
  <2>1. CASE x <= y
    BY <1>1, <2>1
  <2>2. CASE y <= x
    BY <1>1, <2>2
  <2> QED
    BY <1>1, <2>1, <2>2
<1>3. NodeFine(ext, st, made, d)
  BY <1>1, <1>2, AllRunsFine DEF RunFine, RunCall, x, y, made
<1>4. made = Run(st, op, l, r)
  BY DEF made, RunAt, Run
<1> QED
  BY <1>3, <1>4 DEF NodeFine

-----------------------------------------------------------------------------
(* The operations on a table that has met no collection.                   *)

\* A new MTBDD, and one that takes the place of sw: a holder gives up the one and
\* holds the other.
MineFine(ext, st, made) ==
  Failed(made.s) \/ (Goes(ext, st, made.s) /\ made.res \in Mine(made.s))
Replaces(ext, st, sw, made) == MineFine(WithHolder(WithoutHolder(ext, sw), made.res), st, made)

\* The resets of the operation caches lose no reference.
LEMMA AfterUpdateGood ==
  ASSUME NEW st, NEW ext, Good(st, ext)
  PROVE  Goes(ext, st, AfterUpdate(st))
<1> DEFINE su == AfterUpdate(st)
           c == Total(ext, st.value)
           t == st.t
           u == [t EXCEPT !.cache = {}, !.memo = {}, !.misc = {}]
<1>1. /\ STyped(st) /\ Steady(t) /\ ext \in [Nat -> Nat] /\ Accounted(t, c)
  BY DEF Good
<1>2. SLater(st, su) /\ su.value = st.value /\ (su.t = t \/ su.t = u)
  BY <1>1, AfterUpdateLater
<1> HIDE DEF su, c, t
<1>3. /\ t \in Tables /\ u.size = t.size /\ u.free = t.free /\ u.node = t.node
      /\ u.collected = t.collected /\ u.stopped = t.stopped /\ u.wild = t.wild
      /\ u.cache \subseteq t.cache /\ u.memo \subseteq t.memo
  <2>1. t \in Tables
    BY <1>1 DEF Steady, Typed
  <2> QED
    BY <2>1 DEF Tables
<1>4. Steady(su.t) /\ Grown(t, su.t) /\ Accounted(su.t, c) /\ su.t.memo \subseteq t.memo
  <2>1. CASE su.t = t
    BY <1>1, <2>1 DEF Grown, Same
  <2>2. CASE su.t = u
    <3>1. Typed(su.t) /\ su.t.node = t.node
      BY <1>2, <1>3, <2>2 DEF SLater, STyped
    <3>2. \A m \in DOMAIN t.node : Same(t, m, su.t, m)
      BY <3>1 DEF Same
    <3>3. Steady(su.t) /\ Grown(t, su.t)
      BY <1>1, <1>3, <2>2, <3>1, <3>2, NodesSteady
    <3>4. Accounted(su.t, c)
      BY <1>1, <3>1 DEF Accounted
    <3> QED
      BY <1>3, <2>2, <3>3, <3>4
  <2> QED
    BY <1>2, <2>1, <2>2
<1>5. Selves(su)
  <2>1. Bdds(t) \subseteq Bdds(su.t)
    BY <1>1, <1>4, GrownFacts, 0 \in Nat, 0 <= 0
  <2> QED
    BY <1>2, <2>1 DEF Good, Selves, t
<1> QED
  BY <1>1, <1>2, <1>4, <1>5, GoodStep DEF SLater, su, t, c

\* An operation gives up the switch's MTBDD.
LEMMA BeginGood ==
  ASSUME NEW st, NEW ext, Good(st, ext), NEW sw \in Mine(st), ext[sw] >= 1
  PROVE  Goes(WithoutHolder(ext, sw), st, Begin(st, sw))
<1> DEFINE su == Begin(st, sw)
           c == Total(ext, st.value)
           t == st.t
<1>1. /\ STyped(st) /\ Steady(t) /\ ext \in [Nat -> Nat] /\ Accounted(t, c)
      /\ st.value \in Seq(ValueNodes)
  BY SFields DEF Good
<1>2. sw \in Used(t) /\ sw \in Nat /\ sw # 2
  BY GoodFacts
<1>3. SLater(st, su) /\ su.t = DelRef(t, sw) /\ su.value = st.value
  BY <1>1, BeginLater
<1>4. /\ c \in [Nat -> Nat] /\ c[sw] >= 1 /\ WithoutHolder(ext, sw) \in [Nat -> Nat]
      /\ Total(WithoutHolder(ext, sw), st.value) = WithoutHolder(c, sw)
  BY <1>1, <1>2, TotalNumber, TotalFewer
<1> HIDE DEF su, c, t
<1>5. Kept(t, su.t) /\ Accounted(su.t, WithoutHolder(c, sw))
  BY <1>1, <1>2, <1>3, <1>4, DelRefSteady
<1> QED
  BY <1>3, <1>4, <1>5, GoodTable DEF SLater, su, t

\* A holder takes a reference of a node that is used.
LEMMA UsedRefGood ==
  ASSUME NEW st, NEW ext, Good(st, ext), NEW n \in Used(st.t), n \in Nat, n # 2,
         NEW su, STyped(su), su.value = st.value, su.t = AddRef(st.t, n)
  PROVE  Goes(WithHolder(ext, n), st, su)
<1> DEFINE c == Total(ext, st.value)
           t == st.t
<1>1. /\ STyped(st) /\ Steady(t) /\ ext \in [Nat -> Nat] /\ Accounted(t, c)
      /\ st.value \in Seq(ValueNodes)
  BY SFields DEF Good
<1>2. n \in Used(t) /\ n \in Nat /\ n # 2
  OBVIOUS
<1>3. /\ c \in [Nat -> Nat] /\ WithHolder(ext, n) \in [Nat -> Nat]
      /\ Total(WithHolder(ext, n), st.value) = WithHolder(c, n)
  <2>1. c \in [Nat -> Nat]
    BY <1>1, TotalNumber
  <2>2. WithHolder(ext, n) \in [Nat -> Nat]
    BY <1>1, <1>2, MoreFacts
  <2>3. Total(WithHolder(ext, n), st.value) = WithHolder(c, n)
    BY <1>1, <1>2, TotalMore
  <2> QED
    BY <2>1, <2>2, <2>3
<1>4. su.t = AddRef(t, n)
  OBVIOUS
<1> HIDE DEF c, t
<1>5. Kept(t, su.t) /\ Accounted(su.t, WithHolder(c, n))
  BY <1>1, <1>2, <1>3, <1>4, AddRefSteady
<1> QED
  BY <1>3, <1>5, GoodTable DEF t

\* One of an MTBDD, or of a BDD.
LEMMA RefGood ==
  ASSUME NEW st, NEW ext, Good(st, ext), NEW n \in Mine(st) \union Bdds(st.t),
         NEW su, STyped(su), su.value = st.value, su.t = AddRef(st.t, n)
  PROVE  Goes(WithHolder(ext, n), st, su)
<1>1. n \in Used(st.t) /\ n \in Nat /\ n # 2
  BY GoodFacts
<1> QED
  BY <1>1, UsedRefGood

\* An operation that ends references its result.
LEMMA EndGood ==
  ASSUME NEW st, NEW ext, NEW exu, Good(st, ext), NEW run, Pair(run), STyped(run.s), run.res \in Nat,
         Failed(run.s) \/ (Goes(exu, st, run.s) /\ run.res \in Mine(run.s))
  PROVE  MineFine(WithHolder(exu, run.res), st, End(run))
<1> DEFINE made == End(run)
<1>1. /\ made.res = run.res /\ SLater(run.s, made.s)
      /\ made.s.t = AddRef(run.s.t, run.res) /\ made.s.value = run.s.value
  BY EndLater
<1> HIDE DEF made
<1>2. CASE Failed(run.s)
  BY <1>1, <1>2, FailedLater DEF MineFine, made
<1>3. CASE Goes(exu, st, run.s) /\ run.res \in Mine(run.s)
  <2>1. Goes(WithHolder(exu, run.res), run.s, made.s)
    BY <1>1, <1>3, RefGood DEF Goes, SLater
  <2>2. made.res \in Mine(made.s)
    BY <1>1, <1>3, <2>1, GoesFacts DEF Goes
  <2>3. Goes(WithHolder(exu, run.res), st, made.s)
    BY <1>3, <2>1, GoesTransitive
  <2> QED
    BY <2>2, <2>3 DEF MineFine, made
<1> QED
  BY <1>2, <1>3

\* Update_aRule_Insert_1tb: the switch's reference moves to the new MTBDD.
LEMMA InsertRuleGood ==
  ASSUME NEW st, NEW ext, Good(st, ext), NEW sw \in Mine(st), ext[sw] >= 1,
         NEW mtbdd_r \in Mine(st)
  PROVE  Replaces(ext, st, sw, InsertRule(st, sw, mtbdd_r))
<1> DEFINE in == Begin(st, sw)
           run == Run(in, "add", sw, mtbdd_r)
           made == InsertRule(st, sw, mtbdd_r)
<1>1. STyped(st) /\ sw \in Nat /\ mtbdd_r \in Nat
  BY GoodFacts
<1>2. made = End(run)
  BY DEF InsertRule
<1>3. /\ SLater(st, in) /\ SLater(in, run.s) /\ made.res = run.res
  BY <1>1, InsertRuleLater
<1>4. Pair(run) /\ run.res \in Nat
  BY <1>1, <1>3, RunPair DEF SLater
<1>5. Goes(WithoutHolder(ext, sw), st, in)
  BY BeginGood
<1>6. sw \in Mine(in) /\ mtbdd_r \in Mine(in) /\ Good(in, WithoutHolder(ext, sw))
  BY <1>5, GoesFacts DEF Goes
<1> HIDE DEF in
<1>7. Failed(run.s) \/ (Goes(WithoutHolder(ext, sw), in, run.s) /\ run.res \in Mine(run.s))
  BY <1>6, RunGood
<1> HIDE DEF run, made
<1>8. Failed(run.s) \/ (Goes(WithoutHolder(ext, sw), st, run.s) /\ run.res \in Mine(run.s))
  BY <1>5, <1>7, GoesTransitive
<1>9. MineFine(WithHolder(WithoutHolder(ext, sw), run.res), st, made)
  BY <1>2, <1>3, <1>4, <1>8, EndGood DEF SLater
<1> QED
  BY <1>3, <1>9 DEF Replaces, made

\* The value node of a rule changes its BDD for one that is there, and covering may
\* change.
LEMMA RestoreGood ==
  ASSUME NEW st, NEW ext, Good(st, ext), NEW v \in DOMAIN st.value, NEW b \in Bdds(st.t),
         NEW su, STyped(su), su.value = WithSelf(st.value, v, b),
         su.t = AddRef(DelRef(st.t, st.value[v].self_bdd), b)
  PROVE  Goes(ext, st, su)
<1> DEFINE vals == st.value
           old == vals[v].self_bdd
           c == Total(ext, vals)
           t == st.t
           t1 == DelRef(t, old)
           c1 == WithoutHolder(c, old)
<1>1. /\ STyped(st) /\ Steady(t) /\ vals \in Seq(ValueNodes) /\ ext \in [Nat -> Nat]
      /\ Accounted(t, c) /\ Selves(st)
  BY SFields DEF Good
<1>2. /\ old \in Bdds(t) /\ old \in Used(t) /\ old \in Nat /\ old # 2
      /\ b \in Used(t) /\ b \in Nat /\ b # 2
  BY <1>1, GoodFacts DEF Selves
<1>3. c \in [Nat -> Nat] /\ c[old] >= 1
  BY <1>1, TotalNumber
<1>4. su.t = AddRef(t1, b) /\ su.value = WithSelf(vals, v, b) /\ v \in DOMAIN vals
  OBVIOUS
<1>5. Total(ext, su.value) = WithHolder(c1, b)
  BY <1>1, <1>2, <1>4, TotalSelf
<1> HIDE DEF c, old, t
<1>6. Kept(t, t1) /\ Accounted(t1, c1) /\ c1 \in [Nat -> Nat]
  BY <1>1, <1>2, <1>3, DelRefSteady
<1> HIDE DEF t1, c1
<1>7. Steady(t1) /\ b \in Used(t1)
  BY <1>1, <1>2, <1>6 DEF Kept, Grown
<1>8. Kept(t1, su.t) /\ Accounted(su.t, WithHolder(c1, b)) /\ WithHolder(c1, b) \in [Nat -> Nat]
  BY <1>2, <1>4, <1>6, <1>7, AddRefSteady
<1>9. Kept(t, su.t)
  BY <1>6, <1>8, KeptTransitive
<1>10. /\ DOMAIN su.value = DOMAIN vals /\ Len(su.value) = Len(vals)
       /\ \A w \in DOMAIN vals :
            su.value[w].self_bdd = IF w = v THEN b ELSE vals[w].self_bdd
  <2> DEFINE new == WithSelf(vals, v, b)
  <2> HIDE DEF vals
  <2>1. /\ DOMAIN new = DOMAIN vals /\ Len(new) = Len(vals)
        /\ \A w \in DOMAIN vals : new[w].self_bdd = IF w = v THEN b ELSE vals[w].self_bdd
    <3>1. vals \in Seq(ValueNodes) /\ b \in Nat
      BY <1>1, <1>2
    <3>2. OtherSelf(vals, v, b, new)
      BY <3>1, SelfOfValues
    <3> HIDE DEF new
    <3> QED
      BY <3>2 DEF OtherSelf
  <2> HIDE DEF new
  <2> QED
    BY <1>4, <2>1 DEF new
<1>11. Selves(su)
  <2>1. Bdds(t) \subseteq Bdds(su.t)
    BY <1>1, <1>9, GrownFacts, 0 \in Nat, 0 <= 0 DEF Kept
  <2> QED
    BY <1>1, <1>10, <2>1 DEF Selves, t
<1>12. Len(st.value) <= Len(su.value)
  BY <1>10, GoodFacts
<1> QED
  BY <1>1, <1>5, <1>8, <1>9, <1>11, <1>12, GoodStep DEF Kept, t

\* Remove_aRule_fr_Mtbddnet_1tb.
LEMMA RemoveRuleGood ==
  ASSUME NEW st, NEW ext, Good(st, ext), NEW sw \in Mine(st), ext[sw] >= 1,
         NEW r \in Rules, NEW x \in RuleNodes,
         x.mtbdd_in \in Mine(st), x.mf_in \in Bdds(st.t), Leaf(st, x.vtnode_in)
  PROVE  Replaces(ext, st, sw, RemoveRule(st, sw, r, x))
<1> DEFINE in == Begin(st, sw)
           run == Run(in, "remove", sw, x.mtbdd_in)
           end == End(run)
           made == RemoveRule(st, sw, r, x)
           exu == WithHolder(WithoutHolder(ext, sw), run.res)
<1>1. STyped(st) /\ sw \in Nat
  BY GoodFacts
<1>2. /\ SLater(st, in) /\ SLater(in, run.s) /\ SLater(end.s, made.s) /\ SLater(st, end.s)
      /\ SLater(st, run.s)
      /\ Pair(end) /\ made = Restore(end, r, x)
      /\ end.res = run.res /\ made.res = run.res /\ run.res \in Nat
  BY <1>1, RemoveRuleLater
<1>3. Pair(run)
  BY <1>1, <1>2, RunPair DEF SLater, RuleNodes
<1>4. Goes(WithoutHolder(ext, sw), st, in)
  BY BeginGood
<1>5. sw \in Mine(in) /\ x.mtbdd_in \in Mine(in) /\ Good(in, WithoutHolder(ext, sw))
  BY <1>4, GoesFacts DEF Goes
<1> HIDE DEF in
<1>6. Failed(run.s) \/ (Goes(WithoutHolder(ext, sw), in, run.s) /\ run.res \in Mine(run.s))
  BY <1>5, RunGood
<1> HIDE DEF run
<1>7. Failed(run.s) \/ (Goes(WithoutHolder(ext, sw), st, run.s) /\ run.res \in Mine(run.s))
  BY <1>4, <1>6, GoesTransitive
<1>8. MineFine(exu, st, end)
  BY <1>2, <1>3, <1>7, EndGood DEF SLater
<1> HIDE DEF end, made, exu
<1>9. CASE Failed(end.s)
  BY <1>2, <1>9, FailedLater DEF SLater, Replaces, MineFine, made
<1>10. CASE Goes(exu, st, end.s) /\ end.res \in Mine(end.s)
  <2> DEFINE v == At(end.s, x.vtnode_in)
  <2>1. x.mf_in \in Bdds(end.s.t) /\ Leaf(end.s, x.vtnode_in) /\ Good(end.s, exu)
    BY <1>10, GoesFacts, LeafFacts DEF Goes
  <2>2. v \in DOMAIN end.s.value
    BY <2>1, LeafFacts
  <2>3. /\ STyped(made.s)
        /\ made.s.t = AddRef(DelRef(end.s.t, end.s.value[v].self_bdd), x.mf_in)
        /\ made.s.value = WithSelf(end.s.value, v, x.mf_in)
    BY <1>2, RestoreLater DEF SLater
  <2> HIDE DEF v
  <2>4. Goes(exu, end.s, made.s)
    BY <2>1, <2>2, <2>3, RestoreGood
  <2>5. Goes(exu, st, made.s) /\ made.res \in Mine(made.s)
    BY <1>2, <1>10, <2>1, <2>4, GoesTransitive, GoesFacts
  <2> QED
    BY <1>2, <2>5 DEF Replaces, MineFine, made, exu
<1> QED
  BY <1>8, <1>9, <1>10 DEF MineFine

\* What the kernel adds is good.
LEMMA OnwardGood ==
  ASSUME NEW st, NEW ext, Good(st, ext), NEW u, Onward(st.t, u),
         NEW su, STyped(su), su.value = st.value, su.t = u
  PROVE  Goes(ext, st, su)
<1> DEFINE c == Total(ext, st.value)
<1>1. Steady(st.t) /\ ext \in [Nat -> Nat] /\ Accounted(st.t, c)
  BY DEF Good
<1> HIDE DEF c
<1>2. Kept(st.t, u) /\ Accounted(u, c)
  BY <1>1, OnwardKept
<1> QED
  BY <1>1, <1>2, GoodTable DEF c

\* A BDD with a terminal for BDDONE.
LEMMA ToMtbddGood ==
  ASSUME NEW st, NEW ext, Good(st, ext), NEW l \in Bdds(st.t), NEW tnode, Leaf(st, tnode)
  PROVE  LET done == ToMtbdd(st.t, l, tnode)
             made == InState(st, done)
         IN  MineFine(ext, st, made) /\ SLater(st, made.s)
<1> DEFINE nv == Len(st.value)
           t == st.t
           done == ToMtbdd(t, l, tnode)
           made == InState(st, done)
<1> SUFFICES MineFine(ext, st, made) /\ SLater(st, made.s)
  OBVIOUS
<1>1. /\ STyped(st) /\ Steady(t) /\ nv \in Nat /\ l \in Nat
      /\ tnode \in Mtbdds(t, nv) /\ tnode \in Nat /\ Depth(t, tnode) = VarNum
  BY GoodFacts, LeafFacts DEF Leaf, Mine
<1> HIDE DEF nv
<1>2. Later(t, done.t) /\ done.res \in Nat
  BY <1>1, ToMtbddLater DEF Steady
<1>3. MtbddOut(t, nv, t.node[l].level, done)
  BY <1>1, ToMtbddFine
<1> HIDE DEF done
<1>4. /\ SLater(st, made.s) /\ made.res = done.res /\ made.s.t = done.t
      /\ made.s.value = st.value
  BY <1>1, <1>2, InStateLater
<1> HIDE DEF made
<1>5. CASE done.t.collected
  BY <1>4, <1>5 DEF MineFine, Failed
<1>6. CASE Onward(t, done.t) /\ done.res \in Mtbdds(done.t, nv)
  <2>1. Goes(ext, st, made.s)
    BY <1>4, <1>6, OnwardGood DEF SLater
  <2>2. made.res \in Mine(made.s)
    BY <1>4, <1>6 DEF Mine, nv
  <2> QED
    BY <1>4, <2>1, <2>2 DEF MineFine
<1> QED
  BY <1>3, <1>4, <1>5, <1>6 DEF MtbddOut

\* A virtual rule of two rules.
LEMMA VirtualRuleGood ==
  ASSUME NEW st, NEW ext, Good(st, ext), NEW mf \in Bdds(st.t),
         NEW x \in RuleNodes, x.mf_in \in Bdds(st.t), Leaf(st, x.vtnode_in)
  PROVE  MineFine(ext, st, VirtualRule(st, mf, x))
<1> DEFINE y == x.mf_in
           tnode == x.vtnode_in
           meet == Apply(st.t, mf, y, "and")
           in == [st EXCEPT !.t = meet.t]
           v == At(st, tnode)
           own == SetSelf(in, v, meet.res, "or")
           done == ToMtbdd(own.t, meet.res, tnode)
           made == VirtualRule(st, mf, x)
<1>1. /\ STyped(st) /\ Steady(st.t) /\ Typed(st.t) /\ "and" \in Ops /\ "or" \in Ops
      /\ v \in DOMAIN st.value /\ y \in Bdds(st.t) /\ Leaf(st, tnode)
  BY GoodFacts, LeafFacts DEF Steady, Ops
<1>2. made = InState(own, done)
  BY DEF VirtualRule
<1> HIDE DEF y, tnode, made
<1>3. Later(st.t, meet.t) /\ meet.res \in Nat
  BY <1>1, ApplyLater
<1>4. meet.t.collected \/ (Onward(st.t, meet.t) /\ meet.res \in Bdds(meet.t))
  BY <1>1, ApplySteady
<1> HIDE DEF meet, v
<1>5. SLater(st, in) /\ in.t = meet.t /\ in.value = st.value
  BY <1>1, <1>3, TableLater
<1> HIDE DEF in
<1>6. SLater(in, own)
  BY <1>1, <1>5, SetSelfLater DEF SLater
<1>7. Fine(ext, st, in) /\ (Goes(ext, st, in) => meet.res \in Bdds(in.t))
  <2>1. CASE meet.t.collected
    <3>1. Failed(in) /\ ~ Goes(ext, st, in)
      BY <1>5, <2>1 DEF Failed, Goes, Good, Steady
    <3> QED
      BY <3>1 DEF Fine
  <2>2. CASE Onward(st.t, meet.t) /\ meet.res \in Bdds(meet.t)
    BY <1>5, <2>2, OnwardGood DEF Fine, SLater
  <2> QED
    BY <1>4, <2>1, <2>2
<1>8. Goes(ext, st, in) => Fine(ext, in, own)
  BY <1>1, <1>5, <1>7, SetSelfGood DEF Goes
<1>9. Fine(ext, st, own)
  BY <1>5, <1>6, <1>7, <1>8, FineThen DEF SLater
<1>10. Goes(ext, st, own) /\ ~ Failed(own) => meet.res \in Bdds(own.t)
  <2> SUFFICES ASSUME Goes(ext, st, own), ~ Failed(own) PROVE meet.res \in Bdds(own.t)
    OBVIOUS
  <2>1. ~ Failed(in)
    BY <1>5, <1>6, FailedLater DEF SLater
  <2>2. Goes(ext, st, in) /\ Goes(ext, in, own)
    BY <1>7, <1>8, <2>1 DEF Fine
  <2> QED
    BY <1>7, <2>2, GoesFacts DEF Goes
<1> HIDE DEF own
<1>11. STyped(own)
  BY <1>6 DEF SLater
<1>12. SLater(own, made.s)
  <2> DEFINE u == own.t
             d == ToMtbdd(u, meet.res, tnode)
  <2>1. Typed(u) /\ tnode \in Nat
    BY <1>1, <1>11, LeafFacts DEF STyped
  <2>2. Later(own.t, done.t) /\ done.res \in Nat
    BY <1>3, <2>1, ToMtbddLater
  <2> HIDE DEF done
  <2> QED
    BY <1>2, <1>11, <2>2, InStateLater
<1>13. CASE Failed(own)
  BY <1>11, <1>12, <1>13, FailedLater DEF MineFine, made
<1>14. CASE Goes(ext, st, own) /\ ~ Failed(own)
  <2>1. meet.res \in Bdds(own.t) /\ Leaf(own, tnode) /\ Good(own, ext)
    BY <1>1, <1>10, <1>14, LeafFacts DEF Goes
  <2>2. MineFine(ext, own, made)
    BY <1>2, <2>1, ToMtbddGood
  <2> QED
    BY <1>14, <2>2, GoesTransitive DEF MineFine, made
<1> QED
  BY <1>9, <1>13, <1>14 DEF Fine

-----------------------------------------------------------------------------
(* The rules before the first update, on a table that has met no           *)
(* collection.                                                             *)

\* A rule that is parsed has two whole BDDs, and holds both.
Parsed(ext, g, made) ==
  LET x == made.rules[Len(g.rules) + 1]
  IN  \/ Failed(made.s)
      \/ /\ Goes(WithHolder(WithHolder(ext, x.mf_in), x.mf_out), g.s, made.s)
         /\ x.mf_in \in Bdds(made.s.t) /\ x.mf_out \in Bdds(made.s.t)

\* Building a BDD keeps everything.
LEMMA BddOutGood ==
  ASSUME NEW st, NEW ext, Good(st, ext), NEW done, Later(st.t, done.t),
         BddOut(st.t, 0, done), ~ done.t.collected
  PROVE  LET su == [st EXCEPT !.t = done.t]
         IN  /\ Goes(ext, st, su) /\ STyped(su) /\ su.t = done.t /\ su.value = st.value
             /\ done.res \in Bdds(su.t)
<1> DEFINE su == [st EXCEPT !.t = done.t]
<1>1. STyped(st)
  BY GoodFacts
<1>2. SLater(st, su) /\ su.t = done.t /\ su.value = st.value
  BY <1>1, TableLater
<1> HIDE DEF su
<1>3. Onward(st.t, done.t) /\ done.res \in Bdds(done.t)
  BY DEF BddOut
<1>4. STyped(su)
  BY <1>2 DEF SLater
<1>5. Goes(ext, st, su)
  BY <1>2, <1>3, <1>4, OnwardGood
<1> QED
  BY <1>2, <1>3, <1>4, <1>5 DEF su

\* Parsing keeps everything, gives the rule its BDDs and references them.
LEMMA ParseGood ==
  ASSUME NEW g, NEW ext, Good(g.s, ext), g.rules \in Seq(RuleNodes), NEW given \in Given
  PROVE  Parsed(ext, g, Parse(g, given))
<1> DEFINE made == Parse(g, given)
           st == g.s
           in == MatchRun(VarNum, st.t, Headers, given.mf_in)
           out == MatchRun(VarNum, in.t, Headers, given.mf_out)
           x == [mf_in |-> in.res, mf_out |-> out.res, vtnode_in |-> 0, mtbdd_in |-> 0]
           y == made.rules[Len(g.rules) + 1]
<1>1. /\ STyped(st) /\ Steady(st.t) /\ VarNum \in Nat /\ MatchFine(VarNum)
      /\ given.mf_in \in SUBSET Headers /\ given.mf_out \in SUBSET Headers
  <2>1. given.mf_in \in SUBSET Headers /\ given.mf_out \in SUBSET Headers
    BY DEF Given
  <2>2. VarNum \in Nat /\ VarNum \in 0 .. VarNum
    BY SizeAssumption
  <2>3. MatchFine(VarNum)
    BY <2>2, AllMatchesFine
  <2> QED
    BY <2>1, <2>2, <2>3 DEF Good
<1>2. /\ SLater(st, made.s) /\ made.s.value = st.value
      /\ Later(st.t, in.t) /\ Later(in.t, out.t) /\ Later(out.t, AddRef(out.t, in.res))
      /\ made.s.t = AddRef(AddRef(out.t, in.res), out.res) /\ in.res \in Nat /\ out.res \in Nat
      /\ made.rules = Append(g.rules, x)
  BY <1>1, ParseLater
<1>3. y.mf_in = in.res /\ y.mf_out = out.res
  <2>1. x.mf_in = in.res /\ x.mf_out = out.res
    OBVIOUS
  <2> HIDE DEF x, made
  <2>2. y = x
    BY <1>2
  <2> HIDE DEF y
  <2> QED
    BY <2>1, <2>2
<1>4. BddOut(st.t, 0, in)
  <2>1. BddOut(st.t, VarNum - VarNum, in)
    BY <1>1 DEF MatchFine
  <2> HIDE DEF in
  <2> QED
    BY <1>1, <2>1
<1>5. Steady(in.t) => BddOut(in.t, 0, out)
  <2> DEFINE u == in.t
  <2> HIDE DEF u
  <2>1. Steady(u) => BddOut(u, VarNum - VarNum, MatchRun(VarNum, u, Headers, given.mf_out))
    BY <1>1 DEF MatchFine
  <2>2. Steady(u) => BddOut(u, 0, MatchRun(VarNum, u, Headers, given.mf_out))
    BY <1>1, <2>1
  <2> QED
    BY <2>2 DEF u
<1> HIDE DEF made, in, out, y, st
<1> DEFINE one == [st EXCEPT !.t = in.t]
           two == [one EXCEPT !.t = out.t]
           u == AddRef(out.t, in.res)
           three == [two EXCEPT !.t = u]
           exi == WithHolder(ext, in.res)
           exo == WithHolder(exi, out.res)
<1>6. CASE in.t.collected \/ out.t.collected
  <2>1. made.s.t.collected
    <3>1. Later(u, made.s.t)
      BY <1>2, RefLater DEF Later
    <3> QED
      BY <1>2, <1>6, <3>1 DEF Later
  <2> QED
    BY <2>1 DEF Parsed, Failed, made
<1>7. CASE ~ in.t.collected /\ ~ out.t.collected
  <2>1. /\ Goes(ext, st, one) /\ STyped(one) /\ one.t = in.t /\ one.value = st.value
        /\ in.res \in Bdds(one.t)
    BY <1>2, <1>4, <1>7, BddOutGood DEF st
  <2> HIDE DEF one
  <2>2. Good(one, ext) /\ Steady(in.t)
    BY <2>1 DEF Goes, Good
  <2>3. /\ Goes(ext, one, two) /\ STyped(two) /\ two.t = out.t /\ two.value = one.value
        /\ out.res \in Bdds(two.t)
    BY <1>2, <1>5, <1>7, <2>1, <2>2, BddOutGood
  <2> HIDE DEF two
  <2>4. in.res \in Bdds(two.t) /\ Good(two, ext)
    BY <2>1, <2>2, <2>3, GoesFacts DEF Goes
  <2>5. /\ STyped(three) /\ three.t = u /\ three.value = two.value
    <3>1. Later(two.t, u) /\ STyped(two)
      BY <1>2, <2>3
    <3> HIDE DEF u
    <3> QED
      BY <3>1, TableLater DEF SLater
  <2> HIDE DEF three
  <2>6. Goes(exi, two, three)
    BY <2>3, <2>4, <2>5, RefGood
  <2> HIDE DEF u
  <2>7. Good(three, exi) /\ in.res \in Bdds(three.t) /\ out.res \in Bdds(three.t)
    BY <2>3, <2>4, <2>6, GoesFacts DEF Goes
  <2>8. /\ STyped(made.s) /\ made.s.value = three.value /\ made.s.t = AddRef(three.t, out.res)
    BY <1>2, <2>1, <2>3, <2>5 DEF SLater, u
  <2> HIDE DEF exi
  <2>9. Goes(exo, three, made.s)
    BY <2>7, <2>8, RefGood
  <2>10. in.res \in Bdds(made.s.t) /\ out.res \in Bdds(made.s.t)
    BY <2>7, <2>9, GoesFacts
  <2> HIDE DEF exo
  <2>11. Goes(exi, st, three)
    <3>1. Goes(ext, st, two)
      BY <2>1, <2>3, GoesTransitive DEF st
    <3> QED
      BY <2>6, <3>1, GoesTransitive DEF st
  <2>12. Goes(exo, st, made.s)
    BY <2>9, <2>11, GoesTransitive DEF st
  <2> QED
    BY <1>3, <2>10, <2>12 DEF Parsed, made, y, st, exo, exi
<1> QED
  BY <1>6, <1>7

\* A rule gets its terminal and its MTBDD, and holds both.
Generated(ext, g, r, made) ==
  LET x == made.rules[r + 1]
  IN  /\ x.mf_in = g.rules[r + 1].mf_in /\ x.mf_out = g.rules[r + 1].mf_out
      /\ \/ Failed(made.s)
         \/ /\ Goes(WithHolder(WithHolder(ext, x.vtnode_in), x.mtbdd_in), g.s, made.s)
            /\ Leaf(made.s, x.vtnode_in) /\ x.mtbdd_in \in Mine(made.s)

\* So does generating the nodes of a rule, which then has holders for them.
LEMMA GenerateRuleGood ==
  ASSUME NEW g, NEW ext, Good(g.s, ext), g.rules \in Seq(RuleNodes), NEW r \in Rules,
         r + 1 \in DOMAIN g.rules, ForFirst(g.s.value, r),
         g.rules[r + 1].mf_in \in Bdds(g.s.t)
  PROVE  Generated(ext, g, r, GenerateRule(g, r))
<1> DEFINE made == GenerateRule(g, r)
           mf == g.rules[r + 1].mf_in
           mfo == g.rules[r + 1].mf_out
           leaf == NewValue(g.s, <<r, NULL>>, mf)
           n == leaf.res
           u == AddRef(leaf.s.t, n)
           one == [leaf.s EXCEPT !.t = u]
           conv == ToMtbdd(u, mf, n)
           two == InState(one, conv)
           x == made.rules[r + 1]
           exl == WithHolder(ext, n)
           exm == WithHolder(exl, conv.res)
<1>1. STyped(g.s) /\ r \in Nat
  BY SFields DEF Good
<1>2. /\ SLater(g.s, made.s) /\ SLater(g.s, leaf.s) /\ n \in Nat
      /\ Later(leaf.s.t, u) /\ Later(u, conv.t) /\ conv.res \in Nat
      /\ made.s.t = AddRef(conv.t, conv.res) /\ made.s.value = leaf.s.value
      /\ x = [mf_in |-> mf, mf_out |-> mfo, vtnode_in |-> n, mtbdd_in |-> conv.res]
  BY <1>1, GenerateRuleLater
<1>3. x.mf_in = mf /\ x.mf_out = mfo /\ x.vtnode_in = n /\ x.mtbdd_in = conv.res
  <2> DEFINE b == conv.res
  <2>1. x = [mf_in |-> mf, mf_out |-> mfo, vtnode_in |-> n, mtbdd_in |-> b]
    BY <1>2
  <2> HIDE DEF x, n, b, mf, mfo
  <2>2. x.mf_in = mf /\ x.mf_out = mfo /\ x.vtnode_in = n /\ x.mtbdd_in = b
    BY <2>1
  <2> QED
    BY <2>2 DEF b
<1>4. LeafFine(ext, g.s, leaf)
  <2> DEFINE pair == <<r, NULL>>
  <2>1. pair \in Rules \X (Rules \union {NULL}) /\ pair[2] = NULL /\ pair[1] = r
    OBVIOUS
  <2>2. \A v \in DOMAIN g.s.value : g.s.value[v].rule_pair # pair
    <3> SUFFICES ASSUME NEW v \in DOMAIN g.s.value, g.s.value[v].rule_pair = pair
                 PROVE  FALSE
      OBVIOUS
    <3>1. r < r
      BY <2>1 DEF ForFirst
    <3> QED
      BY <1>1, <3>1
  <2> HIDE DEF pair
  <2>3. LeafFine(ext, g.s, NewValue(g.s, pair, mf))
    BY <2>1, <2>2, NewValueGood
  <2> QED
    BY <2>3 DEF pair
<1> HIDE DEF made, leaf
<1>5. SLater(leaf.s, one) /\ one.t = u /\ one.value = leaf.s.value
  BY <1>2, TableLater DEF SLater
<1>6. SLater(one, two.s) /\ two.res = conv.res /\ two.s.t = conv.t /\ two.s.value = one.value
  <2> HIDE DEF conv, one
  <2> QED
    BY <1>2, <1>5, InStateLater DEF SLater
<1>7. two = InState(one, ToMtbdd(one.t, mf, n))
  BY <1>5
<1> HIDE DEF two, conv, one
<1>8. Later(two.s.t, made.s.t)
  BY <1>2, <1>6, RefLater DEF Later
<1>9. SLater(two.s, made.s)
  <2>1. Len(two.s.value) \in Nat
    BY <1>6, SFields DEF SLater
  <2>2. made.s.value = two.s.value
    BY <1>2, <1>5, <1>6
  <2>3. Len(two.s.value) <= Len(made.s.value)
    BY <2>1, <2>2
  <2> QED
    BY <1>2, <1>8, <2>3 DEF SLater
<1>10. CASE Failed(leaf.s)
  <2>1. Failed(one)
    BY <1>2, <1>5, <1>10, FailedLater DEF SLater
  <2>2. Failed(two.s)
    BY <1>5, <1>6, <2>1, FailedLater DEF SLater
  <2>3. Failed(made.s)
    BY <1>6, <1>9, <2>2, FailedLater DEF SLater
  <2> QED
    BY <1>3, <2>3 DEF Generated, made
<1>11. CASE Goes(ext, g.s, leaf.s) /\ Leaf(leaf.s, n)
  <2>1. Good(leaf.s, ext) /\ n \in Mine(leaf.s)
    BY <1>11 DEF Goes, Leaf
  <2>2. Goes(exl, leaf.s, one)
    BY <1>5, <2>1, RefGood DEF SLater
  <2>3. Goes(exl, g.s, one)
    BY <1>11, <2>2, GoesTransitive
  <2>4. Good(one, exl) /\ mf \in Bdds(one.t) /\ Leaf(one, n)
    BY <1>11, <2>1, <2>2, <2>3, GoesFacts, LeafFacts DEF Goes
  <2> HIDE DEF exl
  <2>5. MineFine(exl, one, two)
    BY <1>7, <2>4, ToMtbddGood
  <2>6. CASE Failed(two.s)
    <3>1. Failed(made.s)
      BY <1>6, <1>9, <2>6, FailedLater DEF SLater
    <3> QED
      BY <1>3, <3>1 DEF Generated, made
  <2>7. CASE Goes(exl, one, two.s) /\ two.res \in Mine(two.s)
    <3>1. Good(two.s, exl) /\ conv.res \in Mine(two.s)
      BY <1>6, <2>7 DEF Goes
    <3>2. /\ STyped(made.s) /\ made.s.value = two.s.value
          /\ made.s.t = AddRef(two.s.t, conv.res)
      BY <1>2, <1>5, <1>6 DEF SLater
    <3>3. Goes(exm, two.s, made.s)
      BY <3>1, <3>2, RefGood
    <3>4. Goes(exm, g.s, made.s)
      <4>1. Goes(exl, g.s, two.s)
        BY <2>3, <2>7, GoesTransitive
      <4> QED
        BY <3>3, <4>1, GoesTransitive
    <3>5. Leaf(made.s, n)
      BY <2>4, <2>7, <3>1, <3>3, LeafFacts
    <3>6. conv.res \in Mine(made.s)
      BY <3>1, <3>3, GoesFacts
    <3> QED
      BY <1>3, <3>4, <3>5, <3>6 DEF Generated, made, exl, exm
  <2> QED
    BY <2>5, <2>6, <2>7 DEF MineFine
<1> QED
  BY <1>4, <1>10, <1>11 DEF LeafFine

-----------------------------------------------------------------------------
(* Who holds a node besides the value nodes: the switch, and the rules.    *)

\* The rules of D of which a field F is n, and the holders with those of two fields.
Naming(F, D, n) == {r \in D : F[r] = n}
HeldBy(base, F, G, D) ==
  [n \in Nat |-> base[n] + Cardinality(Naming(F, D, n)) + Cardinality(Naming(G, D, n))]

\* The nodes that the rules give by a field.
InNodes(rls) == [r \in Rules |-> rls[r].mf_in]
OutNodes(rls) == [r \in Rules |-> rls[r].mf_out]
TerminalNodes(rls) == [r \in Rules |-> rls[r].vtnode_in]
MtbddNodes(rls) == [r \in Rules |-> rls[r].mtbdd_in]

\* The switch holds its MTBDD, the rules that are parsed what they match and make,
\* and those of D, which have been generated, their terminals and MTBDDs.
SwitchHolds(sw) == [n \in Nat |-> IF sw = n THEN 1 ELSE 0]
Matching(sw, rls, D) == HeldBy(SwitchHolds(sw), InNodes(rls), OutNodes(rls), D)
Holders(sw, rls, D) ==
  HeldBy(Matching(sw, rls, Rules), TerminalNodes(rls), MtbddNodes(rls), D)

\* The holders are finitely many.
LEMMA NamingFinite ==
  ASSUME NEW F, NEW D \in SUBSET Rules, NEW n
  PROVE  IsFiniteSet(Naming(F, D, n)) /\ Cardinality(Naming(F, D, n)) \in Nat
<1>1. IsFiniteSet(Rules) /\ Naming(F, D, n) \subseteq Rules
  BY GraphAssumption DEF Naming
<1>2. IsFiniteSet(Naming(F, D, n))
  BY <1>1, FS_Subset
<1> QED
  BY <1>2, FS_CardinalityType

LEMMA HeldByNumber ==
  ASSUME NEW base \in [Nat -> Nat], NEW F, NEW G, NEW D \in SUBSET Rules
  PROVE  /\ HeldBy(base, F, G, D) \in [Nat -> Nat]
         /\ \A n \in Nat : base[n] <= HeldBy(base, F, G, D)[n]
<1>1. ASSUME NEW n \in Nat
      PROVE  LET k == base[n] + Cardinality(Naming(F, D, n)) + Cardinality(Naming(G, D, n))
             IN  k \in Nat /\ base[n] <= k
  <2> DEFINE a == Cardinality(Naming(F, D, n))
             b == Cardinality(Naming(G, D, n))
             i == base[n]
  <2>1. a \in Nat /\ b \in Nat /\ i \in Nat
    BY NamingFinite
  <2> HIDE DEF a, b, i
  <2>2. i + a + b \in Nat /\ i <= i + a + b
    BY <2>1
  <2> QED
    BY <2>2 DEF a, b, i
<1> QED
  BY <1>1 DEF HeldBy

\* No rule, no more holders.
LEMMA HeldByNone ==
  ASSUME NEW base \in [Nat -> Nat], NEW F, NEW G
  PROVE  HeldBy(base, F, G, {}) = base
<1>1. ASSUME NEW n \in Nat
      PROVE  base[n] + Cardinality(Naming(F, {}, n)) + Cardinality(Naming(G, {}, n)) = base[n]
  <2>1. Naming(F, {}, n) = {} /\ Naming(G, {}, n) = {}
    BY DEF Naming
  <2>2. Cardinality({}) = 0 /\ base[n] \in Nat
    BY FS_EmptySet
  <2> QED
    BY <2>1, <2>2
<1> QED
  BY <1>1 DEF HeldBy

\* Another holder of a node, or one less.
LEMMA HeldByMore ==
  ASSUME NEW base \in [Nat -> Nat], NEW F, NEW G, NEW D \in SUBSET Rules, NEW n \in Nat
  PROVE  /\ HeldBy(WithHolder(base, n), F, G, D) = WithHolder(HeldBy(base, F, G, D), n)
         /\ base[n] >= 1 =>
              HeldBy(WithoutHolder(base, n), F, G, D) = WithoutHolder(HeldBy(base, F, G, D), n)
<1> DEFINE c == HeldBy(base, F, G, D)
           more == WithHolder(base, n)
           few == WithoutHolder(base, n)
           A(m) == Cardinality(Naming(F, D, m))
           B(m) == Cardinality(Naming(G, D, m))
<1>1. c \in [Nat -> Nat] /\ more \in [Nat -> Nat] /\ DOMAIN few = Nat
  BY HeldByNumber, MoreFacts DEF WithoutHolder
<1>2. \A m \in Nat : /\ A(m) \in Nat /\ B(m) \in Nat /\ base[m] \in Nat
                     /\ c[m] = base[m] + A(m) + B(m)
                     /\ HeldBy(more, F, G, D)[m] = more[m] + A(m) + B(m)
                     /\ HeldBy(few, F, G, D)[m] = few[m] + A(m) + B(m)
                     /\ more[m] = IF m = n THEN base[n] + 1 ELSE base[m]
                     /\ few[m] = IF m = n THEN base[n] - 1 ELSE base[m]
                     /\ WithHolder(c, n)[m] = IF m = n THEN c[n] + 1 ELSE c[m]
                     /\ WithoutHolder(c, n)[m] = IF m = n THEN c[n] - 1 ELSE c[m]
  BY <1>1, NamingFinite, MoreFacts DEF HeldBy
<1>3. /\ DOMAIN HeldBy(more, F, G, D) = Nat /\ DOMAIN HeldBy(few, F, G, D) = Nat
      /\ DOMAIN WithHolder(c, n) = Nat /\ DOMAIN WithoutHolder(c, n) = Nat
      /\ HeldBy(more, F, G, D) = [m \in Nat |-> HeldBy(more, F, G, D)[m]]
      /\ HeldBy(few, F, G, D) = [m \in Nat |-> HeldBy(few, F, G, D)[m]]
      /\ WithHolder(c, n) = [m \in Nat |-> WithHolder(c, n)[m]]
      /\ WithoutHolder(c, n) = [m \in Nat |-> WithoutHolder(c, n)[m]]
  BY <1>1 DEF HeldBy, WithHolder, WithoutHolder
<1>4. \A m \in Nat : /\ HeldBy(more, F, G, D)[m] = WithHolder(c, n)[m]
                     /\ HeldBy(few, F, G, D)[m] = WithoutHolder(c, n)[m]
  <2> TAKE m \in Nat
  <2> DEFINE a == A(m)
             b == B(m)
             i == base[m]
             j == more[m]
             k == few[m]
             v == c[m]
             hm == HeldBy(more, F, G, D)[m]
             hf == HeldBy(few, F, G, D)[m]
             wm == WithHolder(c, n)[m]
             wf == WithoutHolder(c, n)[m]
  <2>1. a \in Nat /\ b \in Nat /\ i \in Nat
    BY <1>2
  <2>2. v = i + a + b /\ hm = j + a + b /\ hf = k + a + b
    BY <1>2
  <2>3. /\ j = (IF m = n THEN i + 1 ELSE i) /\ k = (IF m = n THEN i - 1 ELSE i)
        /\ wm = (IF m = n THEN v + 1 ELSE v) /\ wf = (IF m = n THEN v - 1 ELSE v)
    <3> HIDE DEF c, more, few, A, B
    <3> QED
      BY <1>2
  <2> HIDE DEF a, b, i, j, k, v, hm, hf, wm, wf
  <2>4. hm = wm /\ hf = wf
    BY <2>1, <2>2, <2>3
  <2> QED
    BY <2>4 DEF hm, wm, hf, wf
<1> HIDE DEF c, more, few
<1> QED
  BY <1>3, <1>4 DEF c, more, few

\* One more rule that holds two nodes.
LEMMA HeldByRule ==
  ASSUME NEW base \in [Nat -> Nat], NEW F, NEW G, NEW F2, NEW G2,
         NEW D \in SUBSET Rules, NEW r \in Rules, r \notin D,
         \A q \in D : F2[q] = F[q] /\ G2[q] = G[q],
         NEW m1 \in Nat, NEW m2 \in Nat, F2[r] = m1, G2[r] = m2
  PROVE  HeldBy(base, F2, G2, D \union {r})
           = WithHolder(WithHolder(HeldBy(base, F, G, D), m1), m2)
<1> DEFINE E == D \union {r}
           c == HeldBy(base, F, G, D)
           d == HeldBy(base, F2, G2, E)
           one == WithHolder(c, m1)
           two == WithHolder(one, m2)
           A(m) == Naming(F, D, m)
           B(m) == Naming(G, D, m)
<1>1. c \in [Nat -> Nat] /\ d \in [Nat -> Nat]
  BY HeldByNumber
<1>2. \A m \in Nat : /\ IsFiniteSet(A(m)) /\ Cardinality(A(m)) \in Nat /\ r \notin A(m)
                     /\ IsFiniteSet(B(m)) /\ Cardinality(B(m)) \in Nat /\ r \notin B(m)
                     /\ base[m] \in Nat
                     /\ c[m] = base[m] + Cardinality(A(m)) + Cardinality(B(m))
  <2>1. \A m : r \notin A(m) /\ r \notin B(m)
    BY DEF Naming
  <2> QED
    BY <2>1, NamingFinite DEF HeldBy
<1>3. \A m : /\ Naming(F2, E, m) = IF m1 = m THEN A(m) \union {r} ELSE A(m)
             /\ Naming(G2, E, m) = IF m2 = m THEN B(m) \union {r} ELSE B(m)
  BY DEF Naming
<1>4. \A m \in Nat : d[m] = base[m]
                             + Cardinality(IF m1 = m THEN A(m) \union {r} ELSE A(m))
                             + Cardinality(IF m2 = m THEN B(m) \union {r} ELSE B(m))
  BY Zenon, <1>3 DEF HeldBy
<1> HIDE DEF c, d, A, B
<1>5. \A m \in Nat :
        /\ Cardinality(IF m1 = m THEN A(m) \union {r} ELSE A(m))
             = Cardinality(A(m)) + (IF m1 = m THEN 1 ELSE 0)
        /\ Cardinality(IF m2 = m THEN B(m) \union {r} ELSE B(m))
             = Cardinality(B(m)) + (IF m2 = m THEN 1 ELSE 0)
  <2> TAKE m \in Nat
  <2> DEFINE a == Cardinality(A(m))
             b == Cardinality(B(m))
             SA == A(m)
             SB == B(m)
  <2>1. a \in Nat /\ b \in Nat /\ IsFiniteSet(SA) /\ IsFiniteSet(SB) /\ r \notin SA /\ r \notin SB
        /\ a = Cardinality(SA) /\ b = Cardinality(SB)
    BY <1>2
  <2> HIDE DEF a, b, SA, SB
  <2>2. Cardinality(SA \union {r}) = a + 1 /\ Cardinality(SB \union {r}) = b + 1
    BY <2>1, FS_AddElement
  <2>3. /\ Cardinality(IF m1 = m THEN SA \union {r} ELSE SA) = a + (IF m1 = m THEN 1 ELSE 0)
        /\ Cardinality(IF m2 = m THEN SB \union {r} ELSE SB) = b + (IF m2 = m THEN 1 ELSE 0)
    BY <2>1, <2>2
  <2> QED
    BY <2>3 DEF a, b, SA, SB
<1>6. one \in [Nat -> Nat] /\ \A m \in Nat : one[m] = IF m = m1 THEN c[m1] + 1 ELSE c[m]
  BY <1>1, MoreFacts
<1> HIDE DEF one
<1>7. two \in [Nat -> Nat] /\ \A m \in Nat : two[m] = IF m = m2 THEN one[m2] + 1 ELSE one[m]
  BY <1>6, MoreFacts
<1> HIDE DEF two
<1>8. \A m \in Nat : d[m] = two[m]
  <2> TAKE m \in Nat
  <2> DEFINE a == Cardinality(A(m))
             b == Cardinality(B(m))
             a1 == Cardinality(IF m1 = m THEN A(m) \union {r} ELSE A(m))
             b1 == Cardinality(IF m2 = m THEN B(m) \union {r} ELSE B(m))
             i == base[m]
             j == IF m1 = m THEN 1 ELSE 0
             k == IF m2 = m THEN 1 ELSE 0
             cm == c[m]
             dm == d[m]
             om == one[m]
             tm == two[m]
  <2>1. /\ a \in Nat /\ b \in Nat /\ i \in Nat /\ j \in Nat /\ k \in Nat
        /\ cm = i + a + b /\ dm = i + a1 + b1 /\ a1 = a + j /\ b1 = b + k
    BY <1>2, <1>4, <1>5
  <2>2. om = cm + j /\ tm = om + k
    <3>1. cm \in Nat /\ om \in Nat
      BY <1>1, <1>6
    <3>2. om = (IF m = m1 THEN cm + 1 ELSE cm) /\ tm = (IF m = m2 THEN om + 1 ELSE om)
      BY <1>6, <1>7
    <3> HIDE DEF cm, om, tm
    <3> QED
      BY <3>1, <3>2
  <2> HIDE DEF a, b, a1, b1, cm, dm, om, tm, i, j, k
  <2>3. dm = tm
    BY <2>1, <2>2
  <2> QED
    BY <2>3 DEF dm, tm
<1>9. d = two
  BY <1>1, <1>7, <1>8
<1> QED
  BY <1>9 DEF d, two, one, c

\* What the switch holds moves with it.
LEMMA SwitchMoves ==
  ASSUME NEW sw \in Nat, NEW n \in Nat
  PROVE  /\ SwitchHolds(sw) \in [Nat -> Nat] /\ SwitchHolds(sw)[sw] = 1
         /\ WithoutHolder(SwitchHolds(sw), sw) \in [Nat -> Nat]
         /\ WithHolder(WithoutHolder(SwitchHolds(sw), sw), n) = SwitchHolds(n)
<1> DEFINE c == SwitchHolds(sw)
           few == WithoutHolder(c, sw)
           more == WithHolder(few, n)
<1>1. /\ c \in [Nat -> Nat] /\ c[sw] = 1 /\ SwitchHolds(n) \in [Nat -> Nat]
      /\ \A m \in Nat : c[m] = (IF sw = m THEN 1 ELSE 0)
      /\ \A m \in Nat : SwitchHolds(n)[m] = (IF n = m THEN 1 ELSE 0)
  BY DEF SwitchHolds
<1> HIDE DEF c
<1>2. few \in [Nat -> Nat] /\ \A m \in Nat : few[m] = 0
  BY <1>1 DEF WithoutHolder
<1> HIDE DEF few
<1>3. more \in [Nat -> Nat] /\ \A m \in Nat : more[m] = IF m = n THEN 1 ELSE 0
  BY <1>2 DEF WithHolder
<1> HIDE DEF more
<1>4. more = SwitchHolds(n)
  BY <1>1, <1>3
<1> QED
  BY <1>1, <1>2, <1>4 DEF more, few, c

\* The holders are numbers, and the switch is one.
LEMMA HoldersNumber ==
  ASSUME NEW sw \in Nat, NEW rls, NEW D \in SUBSET Rules
  PROVE  /\ Matching(sw, rls, D) \in [Nat -> Nat]
         /\ Holders(sw, rls, D) \in [Nat -> Nat]
         /\ Holders(sw, rls, D)[sw] >= 1
<1>1. SwitchHolds(sw) \in [Nat -> Nat] /\ SwitchHolds(sw)[sw] = 1
  BY SwitchMoves
<1> DEFINE c == Matching(sw, rls, Rules)
           d == Holders(sw, rls, D)
<1>2. /\ Matching(sw, rls, D) \in [Nat -> Nat] /\ c \in [Nat -> Nat]
      /\ SwitchHolds(sw)[sw] <= c[sw]
  BY <1>1, HeldByNumber DEF Matching
<1> HIDE DEF c
<1>3. d \in [Nat -> Nat] /\ c[sw] <= d[sw]
  BY <1>2, HeldByNumber DEF Holders, c
<1> HIDE DEF d
<1>4. d[sw] >= 1
  BY <1>1, <1>2, <1>3
<1> QED
  BY <1>2, <1>3, <1>4 DEF d

\* The switch gives up one node for another.
LEMMA HoldersMove ==
  ASSUME NEW sw \in Nat, NEW rls, NEW D \in SUBSET Rules, NEW n \in Nat
  PROVE  WithHolder(WithoutHolder(Holders(sw, rls, D), sw), n) = Holders(n, rls, D)
<1> DEFINE b == SwitchHolds(sw)
           few == WithoutHolder(b, sw)
           Match(x) == HeldBy(x, InNodes(rls), OutNodes(rls), Rules)
           Hold(x) == HeldBy(x, TerminalNodes(rls), MtbddNodes(rls), D)
<1>1. /\ b \in [Nat -> Nat] /\ b[sw] >= 1 /\ few \in [Nat -> Nat]
      /\ WithHolder(few, n) = SwitchHolds(n)
  BY SwitchMoves
<1>2. /\ Hold(Match(b)) = Holders(sw, rls, D)
      /\ Hold(Match(WithHolder(few, n))) = Holders(n, rls, D)
  BY <1>1 DEF Holders, Matching
<1> HIDE DEF b, few
<1>3. /\ Match(b) \in [Nat -> Nat] /\ Match(b)[sw] >= 1
      /\ WithoutHolder(Match(b), sw) = Match(WithoutHolder(b, sw))
  <2>1. Match(b) \in [Nat -> Nat] /\ b[sw] <= Match(b)[sw] /\ b[sw] \in Nat
    BY <1>1, HeldByNumber
  <2>2. WithoutHolder(Match(b), sw) = Match(WithoutHolder(b, sw))
    BY <1>1, HeldByMore
  <2> HIDE DEF Match
  <2> QED
    BY <1>1, <2>1, <2>2
<1>4. Match(few) \in [Nat -> Nat] /\ Match(WithHolder(few, n)) = WithHolder(Match(few), n)
  BY <1>1, HeldByNumber, HeldByMore
<1> HIDE DEF Match
<1>5. WithoutHolder(Hold(Match(b)), sw) = Hold(WithoutHolder(Match(b), sw))
  BY <1>3, HeldByMore
<1>6. WithHolder(Hold(Match(few)), n) = Hold(WithHolder(Match(few), n))
  BY <1>4, HeldByMore
<1> HIDE DEF Hold
<1> QED
  BY <1>2, <1>3, <1>4, <1>5, <1>6 DEF few

\* The same rules in D, and the same matches everywhere.
SameRules(new, rls, D) ==
  /\ \A q \in D : new[q] = rls[q]
  /\ \A q \in Rules : new[q].mf_in = rls[q].mf_in /\ new[q].mf_out = rls[q].mf_out

\* One more rule that is generated.
LEMMA HoldersRule ==
  ASSUME NEW sw \in Nat, NEW rls, NEW new, NEW D \in SUBSET Rules, NEW r \in Rules, r \notin D,
         new[r] \in RuleNodes, SameRules(new, rls, D)
  PROVE  Holders(sw, new, D \union {r})
           = WithHolder(WithHolder(Holders(sw, rls, D), new[r].vtnode_in), new[r].mtbdd_in)
<1> DEFINE base == Matching(sw, rls, Rules)
           F == TerminalNodes(rls)
           G == MtbddNodes(rls)
           F2 == TerminalNodes(new)
           G2 == MtbddNodes(new)
           m1 == new[r].vtnode_in
           m2 == new[r].mtbdd_in
<1>1. InNodes(new) = InNodes(rls) /\ OutNodes(new) = OutNodes(rls)
  BY DEF InNodes, OutNodes, SameRules
<1>2. Matching(sw, new, Rules) = base /\ base \in [Nat -> Nat]
  BY <1>1, HoldersNumber DEF Matching
<1>3. /\ \A q \in D : F2[q] = F[q] /\ G2[q] = G[q]
      /\ F2[r] = m1 /\ G2[r] = m2 /\ m1 \in Nat /\ m2 \in Nat
  BY DEF TerminalNodes, MtbddNodes, RuleNodes, SameRules
<1> HIDE DEF base, F, G, F2, G2, m1, m2
<1>4. HeldBy(base, F2, G2, D \union {r}) = WithHolder(WithHolder(HeldBy(base, F, G, D), m1), m2)
  BY <1>2, <1>3, HeldByRule
<1> QED
  BY <1>2, <1>4 DEF Holders, base, F, G, F2, G2, m1, m2

\* One more rule that is parsed.
LEMMA MatchingRule ==
  ASSUME NEW sw \in Nat, NEW rls, NEW new, NEW D \in SUBSET Rules, NEW r \in Rules, r \notin D,
         new[r] \in RuleNodes, \A q \in D : new[q] = rls[q]
  PROVE  Matching(sw, new, D \union {r})
           = WithHolder(WithHolder(Matching(sw, rls, D), new[r].mf_in), new[r].mf_out)
<1> DEFINE base == SwitchHolds(sw)
           F == InNodes(rls)
           G == OutNodes(rls)
           F2 == InNodes(new)
           G2 == OutNodes(new)
           m1 == new[r].mf_in
           m2 == new[r].mf_out
<1>1. base \in [Nat -> Nat]
  BY SwitchMoves
<1>2. /\ \A q \in D : F2[q] = F[q] /\ G2[q] = G[q]
      /\ F2[r] = m1 /\ G2[r] = m2 /\ m1 \in Nat /\ m2 \in Nat
  BY DEF InNodes, OutNodes, RuleNodes
<1> HIDE DEF base, F, G, F2, G2, m1, m2
<1>3. HeldBy(base, F2, G2, D \union {r}) = WithHolder(WithHolder(HeldBy(base, F, G, D), m1), m2)
  BY <1>1, <1>2, HeldByRule
<1> QED
  BY <1>3 DEF Matching, base, F, G, F2, G2, m1, m2

-----------------------------------------------------------------------------
(* What the program holds for good is whole and referenced.                *)

\* The switch's MTBDD and the nodes of the rules D; every rule has its BDDs.
KeepsAll(st, sw, rls, D) ==
  /\ Good(st, Holders(sw, rls, D))
  /\ sw \in Mine(st)
  /\ \A r \in D : Leaf(st, rls[r].vtnode_in) /\ rls[r].mtbdd_in \in Mine(st)
  /\ \A r \in Rules : rls[r].mf_in \in Bdds(st.t) /\ rls[r].mf_out \in Bdds(st.t)

\* An operation that returns the node sw.
KeepsFine(st, sw, rls, D) == Failed(st) \/ KeepsAll(st, sw, rls, D)

\* What is whole stays whole.
LEMMA KeepsGoes ==
  ASSUME NEW st, NEW su, NEW sw, NEW new, NEW rls, NEW D, KeepsAll(st, sw, rls, D),
         Goes(Holders(new, rls, D), st, su), new \in Mine(su)
  PROVE  KeepsAll(su, new, rls, D) /\ Mine(st) \subseteq Mine(su)
<1>1. Mine(st) \subseteq Mine(su) /\ Bdds(st.t) \subseteq Bdds(su.t)
  BY GoesFacts DEF KeepsAll
<1>2. \A r \in D : Leaf(su, rls[r].vtnode_in)
  BY LeafFacts DEF KeepsAll
<1>3. Good(su, Holders(new, rls, D))
  BY DEF Goes
<1> QED
  BY <1>1, <1>2, <1>3 DEF KeepsAll

\* An operation that moves the switch to another MTBDD.
LEMMA ReplacesKeeps ==
  ASSUME NEW st, NEW sw \in Nat, NEW rls \in [Rules -> RuleNodes], KeepsAll(st, sw, rls, Rules),
         NEW made, made.res \in Nat, Replaces(Holders(sw, rls, Rules), st, sw, made)
  PROVE  \/ Failed(made.s)
         \/ KeepsAll(made.s, made.res, rls, Rules) /\ Mine(st) \subseteq Mine(made.s)
<1>1. WithHolder(WithoutHolder(Holders(sw, rls, Rules), sw), made.res) = Holders(made.res, rls, Rules)
  BY HoldersMove
<1> QED
  BY <1>1, KeepsGoes DEF Replaces, MineFine

\* An insertion.
LEMMA InsertKeeps ==
  ASSUME NEW st, NEW sw \in Nat, NEW rls \in [Rules -> RuleNodes], KeepsAll(st, sw, rls, Rules),
         NEW mtbdd_r \in Mine(st)
  PROVE  LET made == InsertRule(st, sw, mtbdd_r)
         IN  \/ Failed(made.s)
             \/ KeepsAll(made.s, made.res, rls, Rules) /\ Mine(st) \subseteq Mine(made.s)
<1> DEFINE ext == Holders(sw, rls, Rules)
           made == InsertRule(st, sw, mtbdd_r)
<1>1. Good(st, ext) /\ sw \in Mine(st) /\ ext[sw] >= 1
  BY HoldersNumber DEF KeepsAll
<1>2. STyped(st) /\ mtbdd_r \in Nat
  BY <1>1, GoodFacts
<1> HIDE DEF ext
<1>3. Replaces(ext, st, sw, made)
  BY <1>1, InsertRuleGood
<1>4. made.res \in Nat
  BY <1>2, InsertRuleLater
<1> HIDE DEF made
<1>5. \/ Failed(made.s)
      \/ KeepsAll(made.s, made.res, rls, Rules) /\ Mine(st) \subseteq Mine(made.s)
  BY <1>3, <1>4, ReplacesKeeps DEF ext
<1> QED
  BY <1>5 DEF made

\* A removal.
LEMMA RemoveKeeps ==
  ASSUME NEW st, NEW sw \in Nat, NEW rls \in [Rules -> RuleNodes], KeepsAll(st, sw, rls, Rules),
         NEW r \in Rules
  PROVE  LET made == RemoveRule(st, sw, r, rls[r])
         IN  \/ Failed(made.s)
             \/ KeepsAll(made.s, made.res, rls, Rules) /\ Mine(st) \subseteq Mine(made.s)
<1> DEFINE ext == Holders(sw, rls, Rules)
           x == rls[r]
           made == RemoveRule(st, sw, r, x)
<1>1. /\ Good(st, ext) /\ sw \in Mine(st) /\ ext[sw] >= 1 /\ x \in RuleNodes
      /\ x.mtbdd_in \in Mine(st) /\ x.mf_in \in Bdds(st.t) /\ Leaf(st, x.vtnode_in)
  BY HoldersNumber DEF KeepsAll
<1>2. STyped(st)
  BY <1>1, GoodFacts
<1> HIDE DEF ext, x
<1>3. Replaces(ext, st, sw, made)
  BY <1>1, RemoveRuleGood
<1>4. made.res \in Nat
  <2> DEFINE in   == Begin(st, sw)
             run  == Run(in, "remove", sw, x.mtbdd_in)
  <2>1. made.res = run.res /\ run.res \in Nat
    BY <1>1, <1>2, RemoveRuleLater
  <2> HIDE DEF run, made
  <2> QED
    BY <2>1
<1> HIDE DEF made
<1>5. \/ Failed(made.s)
      \/ KeepsAll(made.s, made.res, rls, Rules) /\ Mine(st) \subseteq Mine(made.s)
  BY <1>3, <1>4, ReplacesKeeps DEF ext
<1> QED
  BY <1>5 DEF made, x

\* The loop over the virtual rules.
LEMMA VirtualKeeps ==
  ASSUME NEW st, NEW sw \in Nat, NEW rls \in [Rules -> RuleNodes], KeepsAll(st, sw, rls, Rules),
         NEW r \in Rules, NEW hidden \in Seq(Rules),
         NEW f, VirtualSteps(st, hidden, rls[r].mf_in, rls, f, Len(hidden))
  PROVE  \A i \in 0 .. Len(hidden) :
           \/ Failed(f[i].s)
           \/ /\ KeepsAll(f[i].s, sw, rls, Rules)
              /\ \A j \in 1 .. i : f[i].vrules[j].mtbdd_in \in Mine(f[i].s)
<1> DEFINE N == Len(hidden)
           mf == rls[r].mf_in
           ext == Holders(sw, rls, Rules)
           Whole(g, i) == /\ KeepsAll(g.s, sw, rls, Rules)
                          /\ \A j \in 1 .. i : g.vrules[j].mtbdd_in \in Mine(g.s)
           S == {i \in 0 .. N : Failed(f[i].s) \/ Whole(f[i], i)}
<1>0. N \in Nat /\ \A i \in 1 .. N : hidden[i] \in Rules
  OBVIOUS
<1>1. /\ f[0] = VirtualStep(st, hidden, mf, rls, f[0 - 1], 0)
      /\ \A i \in 0 .. N - 1 : f[i + 1] = VirtualStep(st, hidden, mf, rls, f[i], i + 1)
  BY <1>0, VirtualStepsFacts
<1>2. \A i \in 0 .. N : /\ STyped(f[i].s)
                        /\ f[i].vrules \in Seq(Virtuals) /\ Len(f[i].vrules) = i
  <2>1. STyped(st) /\ mf \in Nat /\ VirtualSteps(st, hidden, mf, rls, f, Len(hidden))
    BY GoodFacts DEF KeepsAll, RuleNodes
  <2> HIDE DEF mf
  <2> QED
    BY <2>1, VirtualTyped DEF SLater
<1> HIDE DEF N
<1>3. 0 \in S
  <2>1. f[0].s = st /\ f[0].vrules = <<>>
    BY <1>1 DEF VirtualStep
  <2> QED
    BY <1>0, <2>1
<1>4. ASSUME NEW i \in 0 .. N - 1, i \in S PROVE i + 1 \in S
  <2> DEFINE g == f[i]
             h == hidden[i + 1]
             x == rls[h]
             done == VirtualRule(g.s, mf, x)
             w == [idx |-> h, mtbdd_in |-> done.res]
             made == WithVirtual(g, h, done)
  <2>1. i + 1 # 0 /\ i + 1 \in 0 .. N /\ i + 1 \in 1 .. N /\ i \in Nat /\ i \in 0 .. N
    BY <1>0
  <2>2. f[i + 1] = made
    <3>1. f[i + 1] = VirtualStep(st, hidden, mf, rls, f[i], i + 1)
      BY <1>1
    <3> QED
      BY Zenon, <2>1, <3>1 DEF VirtualStep
  <2>3. h \in Rules /\ x \in RuleNodes
    BY <1>0, <2>1
  <2>4. /\ STyped(g.s) /\ g.vrules \in Seq(Virtuals) /\ Len(g.vrules) = i
    BY <1>2, <2>1
  <2>5. made.s = done.s /\ made.vrules = Append(g.vrules, w) /\ w.mtbdd_in = done.res
    BY DEF WithVirtual
  <2>6. Failed(g.s) \/ Whole(g, i)
    BY <1>4
  <2>7. mf \in Nat /\ (KeepsAll(g.s, sw, rls, Rules) =>
                         /\ Good(g.s, ext) /\ sw \in Mine(g.s)
                         /\ mf \in Bdds(g.s.t) /\ x.mf_in \in Bdds(g.s.t)
                         /\ Leaf(g.s, x.vtnode_in))
    BY <2>3 DEF KeepsAll, RuleNodes
  <2> HIDE DEF g, h, x, made, mf, w
  <2>8. SLater(g.s, done.s)
    BY <2>3, <2>4, <2>7, VirtualRuleLater
  <2>9. CASE Failed(g.s)
    <3>1. Failed(done.s)
      BY <2>4, <2>8, <2>9, FailedLater
    <3> QED
      BY <2>1, <2>2, <2>5, <3>1
  <2>10. CASE Whole(g, i)
    <3>1. MineFine(ext, g.s, done)
      BY <2>3, <2>7, <2>10, VirtualRuleGood
    <3> HIDE DEF done
    <3>2. CASE Failed(done.s)
      BY <2>1, <2>2, <2>5, <3>2
    <3>3. CASE Goes(ext, g.s, done.s) /\ done.res \in Mine(done.s)
      <4>1. sw \in Mine(done.s)
        BY <2>7, <2>10, <3>3, GoesFacts
      <4>2. KeepsAll(done.s, sw, rls, Rules) /\ Mine(g.s) \subseteq Mine(done.s)
        BY <2>10, <3>3, <4>1, KeepsGoes
      <4>3. \A j \in 1 .. i + 1 :
              made.vrules[j] = IF j = i + 1 THEN w ELSE g.vrules[j]
        BY <2>1, <2>4, <2>5
      <4>4. \A j \in 1 .. i + 1 : j = i + 1 \/ j \in 1 .. i
        BY <2>1
      <4>5. \A j \in 1 .. i + 1 : made.vrules[j].mtbdd_in \in Mine(made.s)
        BY <2>5, <2>10, <3>3, <4>2, <4>3, <4>4
      <4>6. Whole(made, i + 1)
        BY <2>5, <4>2, <4>5
      <4> HIDE DEF Whole
      <4> QED
        BY <2>1, <2>2, <4>6
    <3> QED
      BY <3>1, <3>2, <3>3 DEF MineFine
  <2> QED
    BY <2>6, <2>9, <2>10
<1>5. \A i \in 0 .. N : i \in S
  <2> HIDE DEF S
  <2> QED
    BY <1>0, <1>3, <1>4, UpTo
<1> QED
  BY <1>5 DEF N

-----------------------------------------------------------------------------
(* The program before the first update.                                    *)

\* Nothing is held yet: the switch's MTBDD is BDDZERO.
LEMMA InitGood ==
  ASSUME NEW cacheSize \in CacheSizes, NEW lowFirst \in BOOLEAN, NEW rls
  PROVE  LET st == InitState(cacheSize, lowFirst)
         IN  Good(st, Matching(0, rls, {})) /\ 0 \in Mine(st)
<1> DEFINE st == InitState(cacheSize, lowFirst)
           ext == Matching(0, rls, {})
           c == Total(ext, <<>>)
<1>1. STyped(st) /\ st.t = InitTable /\ st.value = <<>>
  BY InitStateTyped
<1>2. ext \in [Nat -> Nat]
  BY HoldersNumber, 0 \in Nat
<1>3. \A n \in Nat : n # 0 => c[n] = 0
  <2> SUFFICES ASSUME NEW n \in Nat, n # 0 PROVE c[n] = 0
    OBVIOUS
  <2>1. Owners(<<>>, n) = {}
    BY DEF Owners
  <2>2. Cardinality({}) = 0
    BY FS_EmptySet
  <2>3. ext = SwitchHolds(0)
    BY SwitchMoves, HeldByNone, 0 \in Nat DEF Matching
  <2> HIDE DEF ext
  <2>5. ext[n] = 0
    BY <2>3 DEF SwitchHolds
  <2>6. c[n] = ext[n] + Cardinality({})
    BY Zenon, <2>1 DEF Total
  <2> QED
    BY <2>2, <2>5, <2>6
<1>4. Steady(st.t) /\ st.t.memo = {}
  BY <1>1, InitSteady DEF InitTable
<1> HIDE DEF st, ext, c
<1>5. Accounted(st.t, c)
  <2>1. \A n \in DOMAIN st.t.node : n \in Nat /\ st.t.node[n].refcou \in Nat
    <3>1. /\ DOMAIN st.t.node = 0 .. MaxSize - 1
          /\ \A n \in DOMAIN st.t.node : st.t.node[n] \in Nodes
      BY <1>4, TypedFields DEF Steady
    <3> QED
      BY <3>1, SizeAssumption DEF Nodes
  <2>2. \A n \in DOMAIN st.t.node : n >= 3 => c[n] = 0 /\ 0 <= st.t.node[n].refcou
    BY <1>3, <2>1
  <2> QED
    BY <2>2 DEF Accounted
<1>6. Remembered(st) /\ Selves(st)
  BY <1>1, <1>4 DEF Remembered, Selves
<1>7. Good(st, ext)
  BY <1>1, <1>2, <1>4, <1>5, <1>6 DEF Good, c
<1>8. 0 \in Mine(st)
  BY <1>7, GoodFacts
<1> QED
  BY <1>7, <1>8 DEF st, ext

\* The rules of a list, as a function of their positions.
Listed(g) == [r \in Rules |-> g.rules[r + 1]]

\* Parsing makes whole BDDs, and the rules that are parsed hold theirs.
LEMMA ParsedKeeps ==
  ASSUME NEW m \in GivenRules, NEW st, NEW rls, Good(st, Matching(0, rls, {})), st.value = <<>>,
         NEW f, ParseSteps(m, st, f, NRules)
  PROVE  \A i \in 0 .. NRules :
           \/ Failed(f[i].s)
           \/ /\ Goes(Matching(0, Listed(f[i]), 0 .. i - 1), st, f[i].s)
              /\ \A j \in 1 .. i : /\ f[i].rules[j].mf_in \in Bdds(f[i].s.t)
                                   /\ f[i].rules[j].mf_out \in Bdds(f[i].s.t)
<1> DEFINE Whole(g, i) == /\ Goes(Matching(0, Listed(g), 0 .. i - 1), st, g.s)
                          /\ \A j \in 1 .. i : /\ g.rules[j].mf_in \in Bdds(g.s.t)
                                               /\ g.rules[j].mf_out \in Bdds(g.s.t)
           S == {i \in 0 .. NRules : Failed(f[i].s) \/ Whole(f[i], i)}
<1>0. NRules \in Nat /\ Rules = 0 .. NRules - 1
  BY NRulesNumber DEF NRulesFacts
<1>1. /\ f[0] = ParseStep(m, st, f[0 - 1], 0)
      /\ \A i \in 0 .. NRules - 1 : f[i + 1] = ParseStep(m, st, f[i], i + 1)
  <2>1. ParseStepByStep(m, st, f, NRules)
    BY <1>0, ParseStepsFacts
  <2> QED
    BY <2>1 DEF ParseStepByStep
<1>2. \A i \in 0 .. NRules : /\ STyped(f[i].s)
                             /\ f[i].rules \in Seq(RuleNodes) /\ Len(f[i].rules) = i
  BY GoodFacts, ParsedTyped DEF SLater
<1>3. 0 \in S
  <2>1. f[0].s = st /\ f[0].rules = <<>>
    BY <1>1 DEF ParseStep
  <2>2. Matching(0, Listed(f[0]), 0 .. 0 - 1) = Matching(0, rls, {})
    <3>1. 0 .. 0 - 1 = {}
      OBVIOUS
    <3>2. Matching(0, Listed(f[0]), {}) = SwitchHolds(0) /\ Matching(0, rls, {}) = SwitchHolds(0)
      BY SwitchMoves, HeldByNone, 0 \in Nat DEF Matching
    <3> QED
      BY Zenon, <3>1, <3>2
  <2>3. Goes(Matching(0, rls, {}), st, st)
    BY GoesItself
  <2> QED
    BY <1>0, <2>1, <2>2, <2>3
<1>4. ASSUME NEW i \in 0 .. NRules - 1, i \in S PROVE i + 1 \in S
  <2> DEFINE g == f[i]
             given == m[i]
             made == Parse(g, given)
             D == 0 .. i - 1
             old == Listed(g)
             new == Listed(made)
             x == made.rules[i + 1]
             ext == Matching(0, old, D)
             exi == WithHolder(WithHolder(ext, x.mf_in), x.mf_out)
  <2>1. /\ i + 1 # 0 /\ (i + 1) - 1 = i /\ i + 1 \in 0 .. NRules /\ i \in 0 .. NRules
        /\ i \in Nat /\ i \in Rules /\ D \in SUBSET Rules /\ i \notin D
        /\ 0 .. (i + 1) - 1 = D \union {i}
        /\ \A r \in D : r + 1 \in 1 .. i /\ r \in Rules
        /\ \A j \in 1 .. i + 1 : j = i + 1 \/ j \in 1 .. i
    BY <1>0
  <2>2. f[i + 1] = made
    BY <1>1, <2>1 DEF ParseStep
  <2>3. Failed(g.s) \/ Whole(g, i)
    BY <1>4
  <2>4. given \in Given
    BY <1>0, GraphAssumption DEF Given
  <2>5. STyped(g.s) /\ g.rules \in Seq(RuleNodes) /\ Len(g.rules) = i
    BY <1>2, <2>1
  <2> HIDE DEF g, given, D
  <2>6. /\ SLater(g.s, made.s) /\ made.rules \in Seq(RuleNodes) /\ Len(made.rules) = i + 1
        /\ \E y : made.rules = Append(g.rules, y)
    BY <2>4, <2>5, ParseLater
  <2> HIDE DEF made
  <2>7. \A j \in 1 .. i : made.rules[j] = g.rules[j]
    BY <2>1, <2>5, <2>6
  <2>8. CASE Failed(g.s)
    <3>1. Failed(made.s)
      BY <2>5, <2>6, <2>8, FailedLater
    <3> QED
      BY <2>1, <2>2, <3>1
  <2>9. CASE Whole(g, i)
    <3>0. Goes(ext, st, g.s) /\ Good(g.s, ext)
      BY <2>9 DEF D, Goes
    <3>1. Parsed(ext, g, made)
      BY <2>4, <2>5, <3>0, ParseGood DEF made
    <3>2. CASE Failed(made.s)
      BY <2>1, <2>2, <3>2
    <3>3. CASE /\ Goes(exi, g.s, made.s)
               /\ x.mf_in \in Bdds(made.s.t) /\ x.mf_out \in Bdds(made.s.t)
      <4>1. Goes(exi, st, made.s)
        BY <3>0, <3>3, GoesTransitive
      <4>2. Bdds(g.s.t) \subseteq Bdds(made.s.t)
        BY <3>0, <3>3, GoesFacts
      <4>3. \A j \in 1 .. i + 1 : /\ made.rules[j].mf_in \in Bdds(made.s.t)
                                  /\ made.rules[j].mf_out \in Bdds(made.s.t)
        BY <2>1, <2>7, <2>9, <3>3, <4>2
      <4>4. Matching(0, new, D \union {i}) = exi
        <5>1. new[i] = x /\ new[i] \in RuleNodes
          <6>1. x \in RuleNodes
            BY <2>1, <2>6
          <6> QED
            BY <2>1, <6>1 DEF Listed
        <5>2. \A q \in D : new[q] = old[q]
          BY <2>1, <2>7 DEF Listed
        <5> HIDE DEF new, old, x
        <5>3. Matching(0, new, D \union {i})
                = WithHolder(WithHolder(Matching(0, old, D), new[i].mf_in), new[i].mf_out)
          BY <2>1, <5>1, <5>2, MatchingRule, 0 \in Nat
        <5> QED
          BY <5>1, <5>3
      <4>5. Goes(Matching(0, Listed(made), 0 .. (i + 1) - 1), st, made.s)
        BY Zenon, <2>1, <4>1, <4>4
      <4>6. Whole(made, i + 1)
        BY <4>3, <4>5
      <4> HIDE DEF Whole
      <4> QED
        BY <2>1, <2>2, <4>6
    <3> QED
      BY <2>5, <3>1, <3>2, <3>3 DEF Parsed
  <2> QED
    BY <2>3, <2>8, <2>9
<1>5. \A i \in 0 .. NRules : i \in S
  <2> HIDE DEF S
  <2> QED
    BY <1>0, <1>3, <1>4, UpTo
<1> QED
  BY <1>5

\* generate_mtbddrules references the terminal and the MTBDD of every rule.
LEMMA GeneratedKeeps ==
  ASSUME NEW start, STyped(start.s), start.s.value = <<>>,
         start.rules \in Seq(RuleNodes), Len(start.rules) = NRules,
         KeepsFine(start.s, 0, Listed(start), {}),
         NEW f, GenerateSteps(start, f, NRules)
  PROVE  \A i \in 0 .. NRules : KeepsFine(f[i].s, 0, Listed(f[i]), 0 .. i - 1)
<1> DEFINE S == {i \in 0 .. NRules : KeepsFine(f[i].s, 0, Listed(f[i]), 0 .. i - 1)}
<1>0. NRules \in Nat /\ Rules = 0 .. NRules - 1
  BY NRulesNumber DEF NRulesFacts
<1>1. /\ f[0] = GenerateStep(start, f[0 - 1], 0)
      /\ \A i \in 0 .. NRules - 1 : f[i + 1] = GenerateStep(start, f[i], i + 1)
  BY <1>0, GenerateStepsFacts
<1>2. \A i \in 0 .. NRules : /\ STyped(f[i].s) /\ ForFirst(f[i].s.value, i)
                             /\ f[i].rules \in Seq(RuleNodes) /\ Len(f[i].rules) = NRules
  BY GeneratedTyped DEF SLater
<1>3. 0 \in S
  <2>1. f[0] = start /\ 0 .. 0 - 1 = {}
    BY <1>1 DEF GenerateStep
  <2>2. KeepsFine(f[0].s, 0, Listed(f[0]), 0 .. 0 - 1)
    BY Zenon, <2>1
  <2> QED
    BY <1>0, <2>2
<1>4. ASSUME NEW i \in 0 .. NRules - 1, i \in S PROVE i + 1 \in S
  <2> DEFINE g == f[i]
             made == GenerateRule(g, i)
             D == 0 .. i - 1
             rls == Listed(g)
             new == Listed(made)
             x == made.rules[i + 1]
             ext == Holders(0, rls, D)
             exm == WithHolder(WithHolder(ext, x.vtnode_in), x.mtbdd_in)
  <2>1. /\ i + 1 # 0 /\ (i + 1) - 1 = i /\ i + 1 \in 0 .. NRules /\ i \in 0 .. NRules
        /\ i \in Nat /\ i \in Rules /\ D \in SUBSET Rules /\ i \notin D
        /\ 0 .. (i + 1) - 1 = D \union {i}
        /\ \A r \in Rules : r + 1 \in 1 .. NRules /\ (r # i => r + 1 # i + 1)
    BY <1>0
  <2>2. f[i + 1] = made
    BY <1>1, <2>1 DEF GenerateStep
  <2>3. KeepsFine(g.s, 0, rls, D)
    BY <1>4
  <2>4. STyped(g.s) /\ ForFirst(g.s.value, i) /\ g.rules \in Seq(RuleNodes) /\ Len(g.rules) = NRules
    BY <1>2, <2>1
  <2> HIDE DEF g, D
  <2>5. i + 1 \in DOMAIN g.rules /\ DOMAIN g.rules = 1 .. NRules
    BY <1>0, <2>1, <2>4
  <2>6. /\ SLater(g.s, made.s) /\ made.rules \in Seq(RuleNodes) /\ Len(made.rules) = NRules
        /\ \A j \in DOMAIN g.rules : j # i + 1 => made.rules[j] = g.rules[j]
    BY <2>1, <2>4, <2>5, GenerateRuleLater
  <2>7. /\ \A r \in Rules : r # i => new[r] = rls[r]
        /\ new[i] = x /\ rls[i] = g.rules[i + 1]
        /\ \A r \in Rules : new[r] \in RuleNodes
    <3> HIDE DEF made
    <3>1. /\ \A r \in Rules : new[r] = made.rules[r + 1] /\ rls[r] = g.rules[r + 1]
      BY DEF Listed
    <3>2. DOMAIN made.rules = 1 .. NRules
      BY <1>0, <2>6
    <3>3. \A j \in 1 .. NRules : made.rules[j] \in RuleNodes
      BY <2>6, <3>2
    <3> HIDE DEF new, rls, x
    <3>4. \A r \in Rules : new[r] \in RuleNodes
      BY <2>1, <3>1, <3>3
    <3>5. \A r \in Rules : r # i => new[r] = rls[r]
      BY <2>1, <2>5, <2>6, <3>1
    <3>6. new[i] = x /\ rls[i] = g.rules[i + 1]
      BY <2>1, <3>1 DEF x
    <3> QED
      BY <3>4, <3>5, <3>6
  <2> SUFFICES KeepsFine(made.s, 0, new, D \union {i})
    <3>1. KeepsFine(f[i + 1].s, 0, Listed(f[i + 1]), 0 .. (i + 1) - 1)
      BY Zenon, <2>1, <2>2
    <3> QED
      BY <2>1, <3>1
  <2>8. CASE Failed(g.s)
    BY <2>4, <2>6, <2>8, FailedLater DEF KeepsFine
  <2>9. CASE KeepsAll(g.s, 0, rls, D)
    <3>1. Good(g.s, ext) /\ g.rules[i + 1].mf_in \in Bdds(g.s.t) /\ 0 \in Mine(g.s)
      BY <2>1, <2>7, <2>9 DEF KeepsAll
    <3>2. Generated(ext, g, i, made)
      BY <2>1, <2>4, <2>5, <3>1, GenerateRuleGood
    <3>5. \A q \in Rules : new[q].mf_in = rls[q].mf_in /\ new[q].mf_out = rls[q].mf_out
      <4>1. x.mf_in = g.rules[i + 1].mf_in /\ x.mf_out = g.rules[i + 1].mf_out
        BY <3>2 DEF Generated
      <4> HIDE DEF x, new, rls
      <4> QED
        BY <2>7, <4>1
    <3> HIDE DEF made, rls, new, ext
    <3>3. CASE Failed(made.s)
      BY <3>3 DEF KeepsFine
    <3>4. CASE /\ Goes(exm, g.s, made.s)
               /\ Leaf(made.s, x.vtnode_in) /\ x.mtbdd_in \in Mine(made.s)
      <4>1. /\ Mine(g.s) \subseteq Mine(made.s) /\ Bdds(g.s.t) \subseteq Bdds(made.s.t)
            /\ \A n : Leaf(g.s, n) => Leaf(made.s, n)
        <5>1. Good(g.s, ext) /\ Goes(exm, g.s, made.s)
          BY <3>1, <3>4
        <5> HIDE DEF exm
        <5> QED
          BY Zenon, <5>1, GoesFacts, LeafFacts
      <4>2. Holders(0, new, D \union {i}) = exm
        <5>1. new[i] = x /\ new[i] \in RuleNodes /\ SameRules(new, rls, D)
          BY <2>1, <2>7, <3>5 DEF SameRules
        <5>2. Holders(0, new, D \union {i})
                = WithHolder(WithHolder(Holders(0, rls, D), new[i].vtnode_in), new[i].mtbdd_in)
          BY <2>1, <5>1, HoldersRule, 0 \in Nat
        <5> QED
          BY <5>1, <5>2 DEF ext
      <4>3. Good(made.s, Holders(0, new, D \union {i}))
        BY <3>4, <4>2 DEF Goes
      <4>4. \A r \in D \union {i} : Leaf(made.s, new[r].vtnode_in) /\ new[r].mtbdd_in \in Mine(made.s)
        BY <2>1, <2>7, <2>9, <3>4, <4>1 DEF KeepsAll
      <4>5. \A r \in Rules : new[r].mf_in \in Bdds(made.s.t) /\ new[r].mf_out \in Bdds(made.s.t)
        BY <2>9, <3>5, <4>1 DEF KeepsAll
      <4> QED
        BY <3>1, <4>1, <4>3, <4>4, <4>5 DEF KeepsFine, KeepsAll
    <3> QED
      BY <3>2, <3>3, <3>4 DEF Generated
  <2> QED
    BY <2>3, <2>8, <2>9 DEF KeepsFine
<1>5. \A i \in 0 .. NRules : i \in S
  <2> HIDE DEF S
  <2> QED
    BY <1>0, <1>3, <1>4, UpTo
<1> QED
  BY <1>5

-----------------------------------------------------------------------------
(* The driver, until a collection or a full table of value nodes.          *)

\* What the program holds: the switch's MTBDD and the four nodes of every rule, with
\* their references, and the virtual rules still to insert.
Lossless ==
  \/ Failed(s)
  \/ /\ KeepsAll(s, mtbdd_sw, rules, Rules)
     /\ \A i \in DOMAIN vrules : vrules[i].mtbdd_in \in Mine(s)

\* What the program starts with.
LEMMA PreparedKeeps ==
  ASSUME NEW m \in GivenRules, NEW cacheSize \in CacheSizes, NEW lowFirst \in BOOLEAN,
         NEW parsed, NEW ready, Prepared(m, cacheSize, lowFirst, parsed, ready)
  PROVE  KeepsFine(s, 0, rules, Rules)
<1> DEFINE st == InitState(cacheSize, lowFirst)
           start == parsed[NRules]
           end == ready[NRules]
           rls == Listed(start)
           ext == Matching(0, rls, Rules)
<1>0. NRules \in Nat /\ Rules = 0 .. NRules - 1 /\ NRules \in 0 .. NRules
  BY NRulesNumber DEF NRulesFacts
<1>1. STyped(st) /\ st.value = <<>>
  BY InitStateTyped
<1>2. Good(st, Matching(0, rls, {})) /\ 0 \in Mine(st)
  BY InitGood
<1>3. /\ ParseSteps(m, st, parsed, NRules)
      /\ GenerateSteps(start, ready, NRules)
      /\ s = end.s
      /\ rules = Listed(end)
  BY DEF Prepared, Listed
<1> HIDE DEF st
<1>4. /\ STyped(start.s) /\ start.s.value = <<>>
      /\ start.rules \in Seq(RuleNodes) /\ Len(start.rules) = NRules
  BY <1>0, <1>1, <1>3, ParsedTyped DEF SLater
<1>5. \/ Failed(start.s)
      \/ /\ Goes(ext, st, start.s)
         /\ \A j \in 1 .. NRules : /\ start.rules[j].mf_in \in Bdds(start.s.t)
                                   /\ start.rules[j].mf_out \in Bdds(start.s.t)
  <2>1. ext = Matching(0, Listed(start), 0 .. NRules - 1)
    BY Zenon, <1>0
  <2>2. \/ Failed(start.s)
        \/ /\ Goes(Matching(0, Listed(start), 0 .. NRules - 1), st, start.s)
           /\ \A j \in 1 .. NRules : /\ start.rules[j].mf_in \in Bdds(start.s.t)
                                     /\ start.rules[j].mf_out \in Bdds(start.s.t)
    BY <1>0, <1>1, <1>2, <1>3, ParsedKeeps
  <2> HIDE DEF start
  <2> QED
    BY Zenon, <2>1, <2>2
<1>6. KeepsFine(start.s, 0, rls, {})
  <2>1. CASE Failed(start.s)
    BY <2>1 DEF KeepsFine
  <2>2. CASE /\ Goes(ext, st, start.s)
             /\ \A j \in 1 .. NRules : /\ start.rules[j].mf_in \in Bdds(start.s.t)
                                       /\ start.rules[j].mf_out \in Bdds(start.s.t)
    <3>1. 0 \in Mine(start.s) /\ Good(start.s, ext)
      BY <1>2, <2>2, GoesFacts DEF Goes
    <3>4. Holders(0, rls, {}) = ext
      BY HoldersNumber, HeldByNone, 0 \in Nat DEF Holders
    <3>2. \A r \in Rules : r + 1 \in 1 .. NRules /\ rls[r] = start.rules[r + 1]
      BY <1>0 DEF Listed
    <3> HIDE DEF rls, start, ext
    <3>3. \A r \in Rules : rls[r].mf_in \in Bdds(start.s.t) /\ rls[r].mf_out \in Bdds(start.s.t)
      BY <2>2, <3>2
    <3> QED
      BY <3>1, <3>3, <3>4 DEF KeepsFine, KeepsAll
  <2> QED
    BY <1>5, <2>1, <2>2
<1> HIDE DEF start
<1>7. KeepsFine(end.s, 0, Listed(end), 0 .. NRules - 1)
  BY <1>0, <1>3, <1>4, <1>6, GeneratedKeeps DEF rls
<1> HIDE DEF end
<1> QED
  BY <1>0, <1>3, <1>7

\* The rules that are read hold what they need ...
LEMMA InitLossless == GInit => Lossless
<1> SUFFICES ASSUME GInit PROVE Lossless
  OBVIOUS
<1>1. PICK m \in GivenRules, cacheSize \in CacheSizes, lowFirst \in BOOLEAN :
        \E parsed, ready : Prepared(m, cacheSize, lowFirst, parsed, ready)
  BY GInitFacts
<1>2. KeepsFine(s, 0, rules, Rules)
  BY <1>1, PreparedKeeps
<1>3. mtbdd_sw = 0 /\ vrules = <<>>
  BY DEF GInit
<1> QED
  BY <1>2, <1>3 DEF Lossless, KeepsFine

\* An insertion, and the reset that may follow it.
LEMMA InsertLossless ==
  ASSUME GTyped, Lossless, r_i < NRules, Insert
  PROVE  Lossless'
<1> DEFINE m == rules[r_i].mtbdd_in
           done == InsertRule(s, mtbdd_sw, m)
           ext == Holders(done.res, rules, Rules)
<1>1. /\ s' = AfterUpdate(done.s) /\ mtbdd_sw' = done.res
      /\ rules' = rules /\ vrules' = vrules
  BY DEF Insert
<1>2. /\ r_i \in Rules /\ mtbdd_sw \in Nat /\ rules \in [Rules -> RuleNodes] /\ STyped(s)
  BY NRulesNumber DEF GTyped, NRulesFacts
<1>3. Failed(s) \/ /\ KeepsAll(s, mtbdd_sw, rules, Rules) /\ m \in Mine(s)
                   /\ \A i \in DOMAIN vrules : vrules[i].mtbdd_in \in Mine(s)
  BY <1>2 DEF Lossless, KeepsAll
<1>4. \/ Failed(s) \/ Failed(done.s)
      \/ KeepsAll(done.s, done.res, rules, Rules) /\ Mine(s) \subseteq Mine(done.s)
  BY <1>2, <1>3, InsertKeeps
<1>5. SLater(s, done.s) /\ SLater(done.s, s')
  <2>1. m \in Nat
    BY <1>2 DEF RuleNodes
  <2>2. SLater(s, done.s)
    BY <1>2, <2>1, InsertRuleLater
  <2> HIDE DEF done
  <2> QED
    BY <1>1, <2>2, AfterUpdateLater DEF SLater
<1> HIDE DEF done
<1>6. CASE Failed(s) \/ Failed(done.s)
  <2>1. Failed(s')
    BY <1>2, <1>5, <1>6, FailedLater DEF SLater
  <2> QED
    BY <2>1 DEF Lossless
<1>7. CASE /\ ~ Failed(s)
           /\ KeepsAll(done.s, done.res, rules, Rules) /\ Mine(s) \subseteq Mine(done.s)
  <2>1. Goes(ext, done.s, s')
    BY <1>1, <1>7, AfterUpdateGood DEF KeepsAll
  <2>2. done.res \in Mine(s')
    BY <1>7, <2>1, GoesFacts DEF KeepsAll
  <2>3. KeepsAll(s', done.res, rules, Rules) /\ Mine(done.s) \subseteq Mine(s')
    BY <1>7, <2>1, <2>2, KeepsGoes
  <2>4. \A i \in DOMAIN vrules : vrules[i].mtbdd_in \in Mine(s')
    BY <1>3, <1>7, <2>3
  <2>5. KeepsAll(s', mtbdd_sw', rules', Rules) /\ \A i \in DOMAIN vrules' : vrules'[i].mtbdd_in \in Mine(s')
    BY <1>1, <2>3, <2>4
  <2> QED
    BY <2>5 DEF Lossless
<1> QED
  BY <1>4, <1>6, <1>7

\* A removal, with the virtual rules before it.
LEMMA RemoveOneLossless ==
  ASSUME GTyped, Lossless, RemoveOne
  PROVE  Lossless'
<1> DEFINE hidden == Hidden(s, r_i, type)
<1>1. rules' = rules /\ r_i < NRules
  BY DEF RemoveOne
<1>2. /\ r_i \in Rules /\ mtbdd_sw \in Nat /\ rules \in [Rules -> RuleNodes] /\ STyped(s)
  BY <1>1, NRulesNumber DEF GTyped, NRulesFacts
<1>3. hidden \in Seq(Rules) /\ Len(hidden) \in Nat
  BY <1>2, HiddenRules
<1>4. PICK virtual : Hiding(virtual)
  BY <1>3, RemoveOneFacts
<1> DEFINE last == virtual[Len(hidden)]
           x == rules[r_i]
           done == RemoveRule(last.s, mtbdd_sw, r_i, x)
           N == Len(hidden)
<1>5. /\ VirtualSteps(s, hidden, rules[r_i].mf_in, rules, virtual, Len(hidden))
      /\ s' = done.s /\ mtbdd_sw' = done.res /\ vrules' = last.vrules
  BY <1>4 DEF Hiding
<1>6. Failed(s) \/ KeepsAll(s, mtbdd_sw, rules, Rules)
  BY DEF Lossless
<1>7. N \in 0 .. N
  BY <1>3
<1> HIDE DEF hidden
<1>8. /\ SLater(s, last.s) /\ last.vrules \in Seq(Virtuals) /\ Len(last.vrules) = N
  <2> DEFINE mf == rules[r_i].mf_in
  <2>1. mf \in Nat /\ VirtualSteps(s, hidden, mf, rules, virtual, Len(hidden))
    BY <1>2, <1>5 DEF RuleNodes
  <2> HIDE DEF mf
  <2> QED
    BY <1>2, <1>3, <1>7, <2>1, VirtualTyped
<1>9. \/ Failed(s) \/ Failed(last.s)
      \/ /\ KeepsAll(last.s, mtbdd_sw, rules, Rules)
         /\ \A j \in 1 .. N : last.vrules[j].mtbdd_in \in Mine(last.s)
  BY <1>2, <1>3, <1>5, <1>6, <1>7, VirtualKeeps
<1> HIDE DEF last, N
<1>10. SLater(last.s, done.s)
  <2> DEFINE st == last.s
             made == RemoveRule(st, mtbdd_sw, r_i, x)
  <2>1. STyped(st) /\ x \in RuleNodes
    BY <1>2, <1>8 DEF SLater
  <2> HIDE DEF st, x
  <2>2. SLater(st, made.s)
    BY <1>2, <2>1, RemoveRuleLater
  <2> QED
    BY <2>2 DEF st
<1>11. CASE Failed(s) \/ Failed(last.s)
  <2>1. Failed(done.s)
    BY <1>2, <1>8, <1>10, <1>11, FailedLater DEF SLater
  <2> HIDE DEF done
  <2> QED
    BY <1>5, <2>1 DEF Lossless
<1>12. CASE /\ KeepsAll(last.s, mtbdd_sw, rules, Rules)
            /\ \A j \in 1 .. N : last.vrules[j].mtbdd_in \in Mine(last.s)
  <2>1. \/ Failed(done.s)
        \/ KeepsAll(done.s, done.res, rules, Rules) /\ Mine(last.s) \subseteq Mine(done.s)
    <3> DEFINE st == last.s
               made == RemoveRule(st, mtbdd_sw, r_i, rules[r_i])
    <3>1. KeepsAll(st, mtbdd_sw, rules, Rules)
      BY <1>12
    <3> HIDE DEF st
    <3>2. \/ Failed(made.s)
          \/ KeepsAll(made.s, made.res, rules, Rules) /\ Mine(st) \subseteq Mine(made.s)
      BY <1>2, <3>1, RemoveKeeps
    <3> QED
      BY <3>2 DEF st
  <2> HIDE DEF done
  <2>2. CASE Failed(done.s)
    BY <1>5, <2>2 DEF Lossless
  <2>3. CASE KeepsAll(done.s, done.res, rules, Rules) /\ Mine(last.s) \subseteq Mine(done.s)
    <3>1. DOMAIN last.vrules = 1 .. N
      BY <1>8
    <3>2. KeepsAll(s', mtbdd_sw', rules', Rules) /\ \A i \in DOMAIN vrules' : vrules'[i].mtbdd_in \in Mine(s')
      BY <1>1, <1>5, <1>12, <2>3, <3>1
    <3> QED
      BY <3>2 DEF Lossless
  <2> QED
    BY <2>1, <2>2, <2>3
<1> QED
  BY <1>9, <1>11, <1>12

\* One iteration of the loop that inserts the virtual rules.
LEMMA ReaddLossless ==
  ASSUME GTyped, Lossless, ReaddHidden
  PROVE  Lossless'
<1> DEFINE m == Head(vrules).mtbdd_in
           done == InsertRule(s, mtbdd_sw, m)
<1>1. /\ s' = done.s /\ mtbdd_sw' = done.res /\ vrules' = Tail(vrules) /\ vrules # <<>>
      /\ rules' = rules
  BY DEF ReaddHidden
<1>2. /\ vrules \in Seq(Virtuals) /\ mtbdd_sw \in Nat /\ rules \in [Rules -> RuleNodes]
  BY DEF GTyped
<1>3. Failed(s) \/ /\ KeepsAll(s, mtbdd_sw, rules, Rules)
                   /\ \A i \in DOMAIN vrules : vrules[i].mtbdd_in \in Mine(s)
  BY DEF Lossless
<1>4. /\ 1 \in DOMAIN vrules /\ Head(vrules) = vrules[1]
      /\ \A i \in DOMAIN Tail(vrules) : i + 1 \in DOMAIN vrules /\ Tail(vrules)[i] = vrules[i + 1]
  BY <1>1, <1>2
<1>5. Failed(s) \/ m \in Mine(s)
  BY <1>3, <1>4
<1>6. \/ Failed(s) \/ Failed(done.s)
      \/ KeepsAll(done.s, done.res, rules, Rules) /\ Mine(s) \subseteq Mine(done.s)
  BY <1>2, <1>3, <1>5, InsertKeeps
<1>9. STyped(s) /\ SLater(s, done.s)
  <2>1. vrules[1] \in Virtuals
    BY <1>2, <1>4
  <2>2. m \in Nat
    BY <1>4, <2>1 DEF Virtuals
  <2> QED
    BY <2>2, InsertRuleLater DEF GTyped
<1> HIDE DEF done
<1>7. CASE Failed(s) \/ Failed(done.s)
  <2>1. Failed(done.s)
    BY <1>7, <1>9, FailedLater
  <2> QED
    BY <1>1, <2>1 DEF Lossless
<1>8. CASE ~ Failed(s) /\ KeepsAll(done.s, done.res, rules, Rules) /\ Mine(s) \subseteq Mine(done.s)
  <2>1. KeepsAll(s', mtbdd_sw', rules', Rules) /\ \A i \in DOMAIN vrules' : vrules'[i].mtbdd_in \in Mine(s')
    BY <1>1, <1>3, <1>4, <1>8
  <2> QED
    BY <2>1 DEF Lossless
<1> QED
  BY <1>6, <1>7, <1>8

\* ... and every update keeps it so.
LEMMA NextLossless == GTyped /\ Lossless /\ [GNext]_gvars => Lossless'
<1> SUFFICES ASSUME GTyped, Lossless, [GNext]_gvars PROVE Lossless'
  OBVIOUS
<1>1. ASSUME UNCHANGED <<s, rules, mtbdd_sw, vrules>> PROVE Lossless'
  BY <1>1 DEF Lossless
<1>2. CASE Build
  <2>1. r_i < NRules /\ Insert
    BY <1>2 DEF Build
  <2> QED
    BY <2>1, InsertLossless
<1>3. CASE StartReadd
  BY <1>1, <1>3 DEF StartReadd
<1>4. CASE RemoveNothing
  BY <1>1, <1>4 DEF RemoveNothing
<1>5. CASE RemoveOne
  BY <1>5, RemoveOneLossless
<1>6. CASE ReaddHidden
  BY <1>6, ReaddLossless
<1>7. CASE InsertOne
  <2>1. r_i < NRules /\ Insert
    BY <1>7 DEF InsertOne, GTyped
  <2> QED
    BY <2>1, InsertLossless
<1>8. CASE UNCHANGED gvars
  BY <1>1, <1>8 DEF gvars
<1> QED
  BY <1>2, <1>3, <1>4, <1>5, <1>6, <1>7, <1>8 DEF GNext

-----------------------------------------------------------------------------
(* What follows for the whole program.                                     *)

\* bdd_mark from a node of an MTBDD that has lost nothing stays in such MTBDDs.
LEMMA MineReached ==
  ASSUME NEW st, NEW ext, Good(st, ext), NEW n \in Mine(st)
  PROVE  Reached(st.t, {n}) \subseteq Mine(st)
<1> DEFINE t == st.t
           M == Mine(st)
<1>1. \A m \in M : SonsOf(t, m) \subseteq M
  <2> SUFFICES ASSUME NEW m \in M, NEW k \in SonsOf(t, m) PROVE k \in M
    OBVIOUS
  <2>1. m \in Nat /\ m >= 3 /\ ~ IsLeaf(t, m) /\ k \in {t.node[m].low, t.node[m].high}
    <3>1. m \in Nat
      BY GoodFacts
    <3> QED
      BY <3>1 DEF SonsOf, IsLeaf
  <2>2. m # 0
    BY <2>1
  <2> QED
    BY <2>1, <2>2, MineFacts
<1>2. t.size \in Nat
  BY TypedFields DEF Good, Steady
<1> HIDE DEF t, M
<1>3. PICK N \in Nat : N = t.size
  BY <1>2
<1>4. PICK f : Generations(f, t, {n}, N) /\ Reached(t, {n}) = f[N]
  BY <1>2, <1>3, ReachedIs
<1>5. /\ f[0] = {n}
      /\ \A i \in 0 .. N - 1 : f[i + 1] = WithSons(t, f[i])
  BY <1>3, <1>4, GenerationSteps
<1> DEFINE S == {i \in 0 .. N : f[i] \subseteq M}
<1>6. 0 \in S
  BY <1>3, <1>5 DEF M
<1>7. ASSUME NEW i \in 0 .. N - 1, i \in S PROVE i + 1 \in S
  <2>1. i + 1 \in 0 .. N /\ f[i + 1] = WithSons(t, f[i])
    BY <1>3, <1>5
  <2>2. WithSons(t, f[i]) \subseteq M
    BY <1>1, <1>7 DEF WithSons
  <2> QED
    BY <2>1, <2>2
<1>8. \A i \in 0 .. N : i \in S
  <2> HIDE DEF S
  <2> QED
    BY <1>3, <1>6, <1>7, UpTo
<1>9. f[N] \subseteq M
  BY <1>3, <1>8
<1> QED
  BY <1>4, <1>9 DEF t, M

\* The counts of the invariant are those of the property.
LEMMA LosslessRefs ==
  ASSUME GTyped, Lossless, ~ Failed(s)
  PROVE  RefsEnough
<1> DEFINE ext == Holders(mtbdd_sw, rules, Rules)
           c == Total(ext, s.value)
<1>1. Good(s, ext)
  BY DEF Lossless, KeepsAll
<1>2. /\ Steady(s.t) /\ Accounted(s.t, c) /\ ext \in [Nat -> Nat] /\ s.value \in Seq(ValueNodes)
      /\ mtbdd_sw \in Nat
  BY <1>1, SFields DEF Good, GTyped
<1>3. ~ s.t.stopped /\ ~ s.t.collected
  BY <1>2 DEF Steady
<1>4. \A n \in Nat : c[n] = Held(n) /\ Held(n) \in Nat
  <2> SUFFICES ASSUME NEW n \in Nat PROVE c[n] = Held(n) /\ Held(n) \in Nat
    OBVIOUS
  <2> DEFINE i == IF mtbdd_sw = n THEN 1 ELSE 0
             a == Cardinality(Naming(InNodes(rules), Rules, n))
             b == Cardinality(Naming(OutNodes(rules), Rules, n))
             d == Cardinality(Naming(TerminalNodes(rules), Rules, n))
             e == Cardinality(Naming(MtbddNodes(rules), Rules, n))
             k == Cardinality(Owners(s.value, n))
  <2>1. ext[n] = i + a + b + d + e
    BY DEF Holders, Matching, HeldBy, SwitchHolds
  <2>2. c[n] = ext[n] + k
    BY DEF Total
  <2>3. Held(n) = i + a + b + d + e + k
    <3>1. /\ Naming(InNodes(rules), Rules, n) = {r \in Rules : rules[r].mf_in = n}
          /\ Naming(OutNodes(rules), Rules, n) = {r \in Rules : rules[r].mf_out = n}
          /\ Naming(TerminalNodes(rules), Rules, n) = {r \in Rules : rules[r].vtnode_in = n}
          /\ Naming(MtbddNodes(rules), Rules, n) = {r \in Rules : rules[r].mtbdd_in = n}
          /\ Owners(s.value, n) = {v \in DOMAIN s.value : s.value[v].self_bdd = n}
      BY DEF Naming, InNodes, OutNodes, TerminalNodes, MtbddNodes, Owners
    <3> QED
      BY Zenon, <3>1 DEF Held
  <2>4. i \in Nat /\ a \in Nat /\ b \in Nat /\ d \in Nat /\ e \in Nat /\ k \in Nat
    BY <1>2, NamingFinite, OwnersFinite
  <2> HIDE DEF i, a, b, d, e, k, c, ext
  <2>5. i + a + b + d + e + k \in Nat
    BY <2>4
  <2> QED
    BY <2>1, <2>2, <2>3, <2>5
<1> HIDE DEF c
<1>5. ASSUME NEW n \in Used(s.t), n >= 3
      PROVE  s.t.node[n].refcou >= (IF Held(n) < MaxRef THEN Held(n) ELSE MaxRef)
  <2>1. n \in Nat /\ n \in DOMAIN s.t.node /\ s.t.node[n].refcou \in 0 .. MaxRef
    BY <1>2, TypedFields DEF Steady
  <2>2. MaxRef \in Nat
    BY SizeAssumption
  <2>3. s.t.node[n].refcou = MaxRef \/ c[n] <= s.t.node[n].refcou
    BY <1>2, <1>5, <2>1 DEF Accounted
  <2>4. c[n] = Held(n) /\ Held(n) \in Nat
    BY <1>4, <2>1
  <2> QED
    BY <2>1, <2>2, <2>3, <2>4
<1> QED
  BY <1>3, <1>5 DEF RefsEnough

\* The nodes of the MTBDDs that are held are intact.
LEMMA LosslessKept ==
  ASSUME GTyped, Lossless, ~ Failed(s)
  PROVE  MtbddsKept
<1> DEFINE ext == Holders(mtbdd_sw, rules, Rules)
<1>1. Good(s, ext) /\ KeepsAll(s, mtbdd_sw, rules, Rules)
  BY DEF Lossless, KeepsAll
<1> HIDE DEF ext
<1>2. \A n \in Mine(s) : \A m \in Reached(s.t, {n}) : m = 0 \/ Intact(s, m)
  BY <1>1, MineReached, MineFacts
<1>3. /\ mtbdd_sw \in Mine(s)
      /\ \A r \in Rules : rules[r].mtbdd_in \in Mine(s) /\ rules[r].vtnode_in \in Mine(s)
      /\ \A i \in DOMAIN vrules : vrules[i].mtbdd_in \in Mine(s)
  BY <1>1 DEF Lossless, KeepsAll, Leaf
<1>4. ~ s.t.stopped /\ ~ s.t.wild
  BY <1>1 DEF Good, Steady
<1> QED
  BY <1>2, <1>3, <1>4 DEF MtbddsKept

\* As long as no collection has come and a value node was left: the program holds
\* whole MTBDDs, whole BDDs in self_bdd and in the caches, and their references.
THEOREM GraphLossless == GSpec => []Lossless
<1>1. GInit => Lossless
  BY InitLossless
<1>2. GTyped /\ Lossless /\ [GNext]_gvars => Lossless'
  BY NextLossless
<1> QED
  BY <1>1, <1>2, GraphTypeCorrect, PTL DEF GSpec

\* bdd_addref and bdd_delref of Update_aRule_Insert_1tb, Update_aRule_Remove and the
\* value nodes balance: until a collection comes or mtbddvalues is full, every node
\* has the references of all that hold it, and no bdd_delref ends the program.
THEOREM GraphRefsEnough == GSpec => [](Failed(s) \/ RefsEnough)
<1>1. GTyped /\ Lossless => Failed(s) \/ RefsEnough
  BY LosslessRefs
<1> QED
  BY <1>1, GraphTypeCorrect, GraphLossless, PTL

\* Only a collection loses a node of an MTBDD that the program holds: without one,
\* whatever the caches keep, lose or keep past a reset, and whatever the order of the
\* recursive calls, all of them are whole.
THEOREM GraphMtbddsKept == GSpec => [](Failed(s) \/ MtbddsKept)
<1>1. GTyped /\ Lossless => Failed(s) \/ MtbddsKept
  BY LosslessKept
<1> QED
  BY <1>1, GraphTypeCorrect, GraphLossless, PTL
=============================================================================
