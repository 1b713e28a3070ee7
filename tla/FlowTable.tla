----------------------------- MODULE FlowTable -----------------------------
(***************************************************************************)
(* What one switch's forwarding table promises: a set of installed rules,  *)
(* and for every header the installed rule that decides it.  A rule is its *)
(* position in the switch's list (bdd_rule.idx), and a smaller position    *)
(* wins.  MtbddTable implements this specification with a multi-terminal   *)
(* BDD that it updates in place.                                           *)
(***************************************************************************)
EXTENDS RuleOrder

VARIABLES
  mf_in,        \* mf_in[r]: the headers rule r matches; fixed at load time
  installed,    \* the rules in force
  winner        \* winner[h]: the rule that decides header h, or NULL

vars == <<mf_in, installed, winner>>

\* The rule of S that decides each header.
Decide(mf, S) == [h \in Headers |-> Best(mf, S, h)]

Init ==
  /\ mf_in \in [Rules -> SUBSET Headers]
  /\ installed = {}
  /\ winner = Decide(mf_in, {})

Install(r) ==
  /\ r \notin installed
  /\ installed' = installed \union {r}
  /\ winner' = Decide(mf_in, installed')
  /\ UNCHANGED mf_in

Withdraw(r) ==
  /\ r \in installed
  /\ installed' = installed \ {r}
  /\ winner' = Decide(mf_in, installed')
  /\ UNCHANGED mf_in

Next == \E r \in Rules : Install(r) \/ Withdraw(r)

Spec == Init /\ [][Next]_vars
=============================================================================
