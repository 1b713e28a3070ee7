--------------------------- MODULE MCTestBddMen ----------------------------
(* Files of three rules.  Four headers; two rewritings, one that moves the *)
(* lower half onto the upper one and one that sends all to one header; two *)
(* sets of input ports, of which the first rule has the first.             *)
EXTENDS TestBddMen

MCHeaders == 0 .. 3

MoveUp == [h \in MCHeaders |-> IF h < 2 THEN h + 2 ELSE h]
ToLast == [h \in MCHeaders |-> 3]
MCRewrites == {MoveUp, ToLast}

MCLinks == {"x", "y", "p", "q"}

MatchSets == {{0}, {0, 1}, {2, 3}, {0, 2}, {1, 3}, MCHeaders}

Made(m, f, l, o) ==
  [mf_in |-> m, rw |-> f, mf_out |-> OutOf(f, m), lks_in |-> l, lks_out |-> o]

Candidates(links) ==
  {Made(m, NULL, l, o) : m \in MatchSets, l \in links, o \in {"p", "q"}}
    \union {Made(m, f, l, "p") : m \in MatchSets, l \in links, f \in MCRewrites}

MCGivenRules ==
  {<<a, b, c>> : a \in Candidates({"x"}), b \in Candidates({"x"}), c \in Candidates({"x", "y"})}
=============================================================================
