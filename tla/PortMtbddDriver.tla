-------------------------- MODULE PortMtbddDriver --------------------------
(***************************************************************************)
(* test_deltar.c for one switch: insert every rule in list order           *)
(* (build_network_by_update_rules), then take each rule out and insert it  *)
(* again (test_remove_then_readd_rules).  The loops clear mgr_change_tmp   *)
(* after each insertion of their own, and not between the insertions that  *)
(* one removal makes.                                                      *)
(***************************************************************************)
EXTENDS PortMtbdd, SwitchRules

VARIABLES
  phase,                \* the loop the program is in, and its next call
  r_i                   \* the loop variable

dvars == <<vars, phase, r_i>>

DInit ==
  /\ Init
  /\ phase = "build"
  /\ r_i = 0

\* One iteration of build_network_by_update_rules.
Build ==
  /\ phase = "build" /\ r_i < NRules
  /\ Insert(r_i)
  /\ r_i' = r_i + 1
  /\ UNCHANGED phase

\* test_remove_then_readd_rules starts.
StartReadd ==
  /\ phase = "build" /\ r_i = NRules
  /\ phase' = "remove" /\ r_i' = 0
  /\ UNCHANGED vars

\* The two calls of one iteration; Update_aRule_Remove puts the hidden rules
\* back before it returns.
RemoveOne ==
  /\ phase = "remove" /\ r_i < NRules
  /\ Remove(r_i)
  /\ phase' = "insert"
  /\ UNCHANGED r_i

ReaddHidden ==
  /\ phase = "insert"
  /\ \E x \in Rules : Readd(x)
  /\ UNCHANGED <<phase, r_i>>

InsertOne ==
  /\ phase = "insert"
  /\ Insert(r_i)
  /\ phase' = "remove" /\ r_i' = r_i + 1

Done == phase = "remove" /\ r_i = NRules

\* The statistics are printed.
Finished == Done /\ UNCHANGED dvars

DNext == Build \/ StartReadd \/ RemoveOne \/ ReaddHidden \/ InsertOne \/ Finished

\* The program is a plain loop: it always takes its next step.
DSpec == DInit /\ [][DNext]_dvars /\ WF_dvars(DNext)

-----------------------------------------------------------------------------
(* Properties.                                                             *)

\* The rules in the tables, and those of them that match at port p.
Live == {r \in Rules : type[r] = "BS"}
LiveAt(p) == {r \in Live : p \in lks_in[r]}

\* No removal is under way and no rule is missing from the tables.
AtRest == phase # "insert"

\* Every variable ranges over the values its C type can hold.
TypeOK ==
  /\ mf_in \in [Rules -> MatchSets]
  /\ lks_in \in [Rules -> PortSets]
  /\ action \in [Rules -> Actions]
  /\ type \in [Rules -> {"new", "BS", "RM"}]
  /\ in_mtbdd_r \in [Tables -> [Headers -> Rules \union {NULL}]]
  /\ covering \in [Rules -> SUBSET Rules]
  /\ link_BDDs \in [Rules -> [Tables -> SUBSET Headers]]
  /\ merged \subseteq Rules
  /\ merged_BDDs \in [MergeKeys -> [Tables -> SUBSET Headers]]
  /\ changes \in [MergeKeys -> [Tables -> SUBSET Headers]]
  /\ seen \subseteq {v \in Rules \X Rules : v[1] # v[2]}
  /\ readd \subseteq Rules
  /\ removed \in Rules \union {NULL}
  /\ phase \in {"build", "remove", "insert"}
  /\ r_i \in 0 .. NRules

\* At rest the table of every port, or the common one where the port has none,
\* shows the highest rule that matches there.  The reinsertion of a rule may hit
\* entries that its removal left in the cache, and covering then loses the rule;
\* the order of the driver keeps that from ever reaching a table.
TopCorrect ==
  AtRest => \A p \in Ports : \A h \in Headers :
              Base(p)[h] = Best(mf_in, LiveAt(p), h)

\* mtbdd_maketnode_portin_mtbdd_r_remove reports "there is wrong" when it meets
\* a rule below the one it removes.  It never does.
RemovalNeverReports ==
  AtRest => \A r \in Live : \A p \in RemoveTables(r) :
              TopsAt(r, p) \subseteq {a \in Rules : a <= r}

\* The headers that r decides at port p.
Decides(r, p) == {h \in mf_in[r] : Best(mf_in, LiveAt(p), h) = r}

\* What get_delta_inserting_a_rule takes for the headers of port p: those of the
\* port, or those of every port where the port has none.
AtPort(link, p) == IF link[p] # {} THEN link[p] ELSE link[0]

\* While the tables are built no header is lost from the delta of R: where rule
\* r decides a header, lks_in_bdd of r and of its merged rule hold it, although
\* an empty set of a port is read as none.
DeltaCovers ==
  phase = "build" => \A r \in Live : \A p \in lks_in[r] :
    /\ Decides(r, p) \subseteq AtPort(link_BDDs[r], p)
    /\ Decides(r, p) \subseteq merged_BDDs[MergeKey(r)][0]
                                \union merged_BDDs[MergeKey(r)][p]

\* All rules are for all ports, as in the Stanford forwarding tables.
AllPorts == \A r \in Rules : OnAllPorts(r)

\* Where all rules are for all ports the delta is exact after the build:
\* a rule has the headers it decides, and a merged rule those of its rules.
DeltaExact ==
  AllPorts /\ phase = "build" =>
    /\ \A r \in Live : \A p \in lks_in[r] : link_BDDs[r][0] = Decides(r, p)
    /\ \A k \in MergeKeys : \A p \in k[2] :
         merged_BDDs[k][0] = UNION {Decides(r, p) :
                                      r \in {x \in Live : MergeKey(x) = k}}

\* There lks_in_bdd of a rule still holds all it decides after any number of
\* removals and insertions, although the sets are too large then.
LinksCover ==
  AllPorts /\ AtRest => \A r \in Live : \A p \in lks_in[r] :
              Decides(r, p) \subseteq link_BDDs[r][0]

\* What get_network_bdd_jsondata_noconf leaves of rule r: mf_in without the
\* earlier rules that are for the same ports.
NoConf(r) ==
  mf_in[r] \ UNION {mf_in[x] : x \in {y \in Rules : y < r /\ lks_in[y] = lks_in[r]}}

\* test_mtbdd_get_right_dominant, called after test_remove_then_readd_rules, compares
\* the two, rule by rule, where all rules are for all ports.  It finds "a different
\* for two method".  Before the first removal it does not.
RightDominant ==
  AllPorts /\ Done => \A r \in Rules : \A p \in Tables :
    link_BDDs[r][p] # {} => link_BDDs[r][p] = NoConf(r)

\* The program reaches the end of test_remove_then_readd_rules.
Terminates == <>Done
=============================================================================
