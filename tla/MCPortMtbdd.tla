---------------------------- MODULE MCPortMtbdd ----------------------------
(* PortMtbddDriver on three rules: every choice of ports on two headers, and *)
(* rules for all ports on three.                                            *)
EXTENDS PortMtbddDriver

MCRules == 0..2
MCNRules == 3
MCActions == {1, 2}
MCHeaders == 0..2
MCMatchSets == (SUBSET MCHeaders) \ {{}}
MCPorts == {1, 2}
MCPortSets == {{1}, {2}, {1, 2}}

\* The instances that are run; the two actions only matter as equal or not.
MCInit ==
  /\ DInit
  /\ action[0] = 1
  /\ (AllPorts \/ \A r \in Rules : mf_in[r] \subseteq 0..1)

MCSpec == MCInit /\ [][DNext]_dvars /\ WF_dvars(DNext)
=============================================================================
