--------------------------- MODULE MCMtbddTable -----------------------------
(* MtbddTable on three rules and three headers, for every match function.  *)
EXTENDS MtbddTable

MCHeaders == 0..2
MCRules == 0..2
=============================================================================
