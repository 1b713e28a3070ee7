---------------------------- MODULE MCMtbddGraph ----------------------------
(***************************************************************************)
(* TLC values for MtbddGraphDriver: three header bits, and match sets that *)
(* are nested, overlapping or disjoint, whose BDDs skip levels and share   *)
(* nodes.  The counters are reset after the build and after every cycle    *)
(* that puts a hidden rule back, and the caches keep one entry or most.    *)
(***************************************************************************)
EXTENDS MtbddGraphDriver

MCHeaders == 0 .. 7
MCBit(h, level) == (h \div 2^(2 - level)) % 2

MCRules == 0 .. 2
MCMatchSets ==
  {{}, Headers, {1, 3, 5, 7}, {1, 5}, {6}, {0, 3}, {2, 4, 5}, {1, 2, 4, 6}}

\* Bit 0 of a header is its port.  Rules 0 and 2 forward what they match to one
\* port, 4, or to both; rule 1 sets the last bit and forwards to port 0.
MCOut(r, S) ==
  CASE r = 0 -> {4 + (h % 4) : h \in S}
    [] r = 1 -> {2 * ((h % 4) \div 2) + 1 : h \in S}
    [] r = 2 -> {h % 4 : h \in S} \union {4 + (h % 4) : h \in S}
MCGiven(sets) ==
  {[r \in Rules |-> [mf_in |-> m[r], mf_out |-> MCOut(r, m[r])]] : m \in [Rules -> sets]}

MCGivenRules == MCGiven(MCMatchSets)

MCCacheSizes == {1, 7}

\* For a table that is nearly full: match sets whose BDDs it has just room for,
\* so that the collections start while rules are inserted.
MCFullGivenRules == MCGiven({Headers, {1, 3, 5, 7}, {1, 5}, {6}})
=============================================================================
