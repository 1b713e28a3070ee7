-------------------------- MODULE MCNetworkMatrix ---------------------------
(***************************************************************************)
(* Three switches in a ring, rules 1, 2 | 3, 4 | 5: links 0 and 1 both go  *)
(* from the first to the second, 2 to the third, 3 back to the first.      *)
(***************************************************************************)
EXTENDS NetworkMatrix

MCBits == {0, 1}

R(w, v, a, in, out) ==
  [w |-> w, v |-> v, mask |-> a[1], rewrite |-> a[2], in_link |-> in, out_link |-> out]

Keep == <<NULL, {}>>
SetBit0 == <<{1}, {0}>>
ClearBit0 == <<{1}, {}>>
ClearBit1 == <<{0}, {}>>

\* Rule 1 may send over both links to the second switch, of which rule 3 may
\* receive from only one.
MCNets ==
  {<<R({1}, v, a1, {3}, out1), R({0, 1}, {}, a2, {3}, {1}),
     R({0}, {1}, a3, in3, {2}), R({0, 1}, {}, a4, {0, 1}, {2}),
     R(w5, {}, a5, {2}, out5)>> :
     v \in {{}, {0}}, a1 \in {Keep, SetBit0}, out1 \in {{0}, {0, 1}},
     a2 \in {Keep, ClearBit1}, in3 \in {{0}, {0, 1}}, a3 \in {Keep, ClearBit1},
     a4 \in {Keep, ClearBit0}, w5 \in {{1}, {0, 1}}, a5 \in {Keep, SetBit0},
     out5 \in {{3}}}
  \union {<<R({0, 1}, {}, Keep, {3}, {0}), R({0, 1}, {}, Keep, {3}, {}),
            R({0, 1}, {}, Keep, {}, {2}), R({0, 1}, {}, Keep, {}, {}),
            R({0, 1}, {}, Keep, {}, {})>>}
=============================================================================
