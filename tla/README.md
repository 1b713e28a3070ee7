# TLA+ models of NIVwithHSA

The repository turns the forwarding rules of a network into BDDs and computes
from them which packets test every rule, which sets of headers the network tells
apart (atomic predicates), how an update changes both, and which paths headers
take. It is a family of programs, each a `test_*.c` over a header that holds the
whole implementation; the headers grew from each other by copying. This directory
models the last version of each idea: what keeps the results right while rules
come and go, in the order the programs use and in any other.

Paths are relative to the repository: `all_testpk.h` is `src/src/all_testpk.h` in
`PROJECT.json`.

Contents: [1 the system](#1-the-system), [2 modules](#2-modules-and-code),
[3 runs](#3-runs), [4 proofs](#4-proofs), [5 what was found](#5-what-was-found),
[6 what is left out](#6-what-is-left-out), [7 plan](#7-plan).

## 1 The system

Four programs are modelled.

- **`test_testpk.c`** over `all_testpk.h` builds one MTBDD per switch by inserting
  its rules one at a time, takes every rule out and inserts it again
  (`build_network_by_update_rules`, `test_remove_then_readd_rules`), and does the
  same with RuleChecker, an independent algorithm (`UpdateProbesInsert_forall`,
  `UpdateProbes_remove_then_readd`). It prints four numbers of probes.
- **`test_deltar.c`** over `all_deltar.h` keeps an MTBDD for the rules of every
  input port and one for each port with rules of its own, and the *delta of R*:
  which headers each insertion moves between merged rules.
- **`test_BDDMen.c`** over `all_BDDM.h` parses a switch's rules twice, merged and
  without conflicts, computes atomic predicates of the merged rules with one of
  five generators, and tests them.
- **`test_BDDen.c`** over `all_BDD.h` makes a sparse matrix, rule by rule, of what
  headers pass from one rule to another, and multiplies it with itself three times.

Everything runs in one thread. Nothing is sent or persisted. What makes the
programs hard to trust is that each update changes shared nodes in place and
relies on what all earlier updates left: the interesting executions are long
sequences of legal calls, one call inside a sequence of nested calls, loops that
make their own work, and a collector that may start inside any of them.

| component | state | operations | talks to | what must hold |
|---|---|---|---|---|
| MTBDD table of a switch | `mtbdd_sws[sw]`, per value node `rule_pair` and `self_bdd`, per rule `type` and `covering` | `Update_aRule_Insert_1tb`, `Update_aRule_Remove` | recursion, value table | every header leads to its highest-priority rule; a removal finds every rule it has hidden; never reports "there is wrong"; terminals only hold headers of their rules |
| MTBDD driver | loop variables | the two loops of `test_testpk.c` | table | pairs and self sets exact at rest; it ends |
| RuleChecker, its driver | per rule a probe set: `bdd_hit` and an array of probes with `override` | `UpdateProbesInsert`, `UpdateProbesRemove` | BDD operations | `bdd_hit` exact; probes name the right override; every header is in a probe at rest |
| `test_testpk` | the four printed numbers | `main` | both drivers | the two algorithms generate the same tests and the same numbers |
| port tables of a switch, `test_deltar` | `port_relation_in`, per rule and merged rule `lks_in_bdd`, `mgr_change_tmp` | `Update_aRule_Insert`, `Update_aRule_Remove`, `get_delta_inserting_a_rule` | operation cache | every port shows its highest rule; the delta loses no header |
| rule lists from JSON | `bdd_rules` of the two parsers | `parse_tf_json_to_bddsw`, `_inc_APs`, `_noconf` | generators | merging keeps what the switch does; conflict-free rules are exact |
| atomic predicates | the two arrays of sets, the sets that are due, rewritings attached | `get_APs`, `get_APs_simple`, `_simple_withdiff`, `_bounding`, `_simple_astep` | rule lists | a partition; every rule is a union of elements; closed under rewriting; it ends |
| network matrices | `Tri_arr`, `matrix_CSR`, the product, references | `gen_sparse_matrix`, `sparse_matrix_multiply`, `free_matrix_CSR` | node table | elements are the paths headers can take; references exact |
| BDD node table | nodes, hash chains, free list, reference counts, reference stack, caches | `bdd_makenode`, `bdd_apply`, `bdd_addref`, `bdd_delref`, `bdd_gbc`, `bdd_noderesize` | everything | what is referenced survives, one node per function, caches tell the truth, no slot is lost |
| value table, operation caches, recursion on nodes | `mtbddvalues`, `applycache`, `misccache`, the tags `mtbddop_count`, `coveringop_count` | `mtbdd_maketnode_*`, `mtbdd_r_add_1tb_rec`, `mtbdd_r_remove_1tb_rec`, `bdd_to_mtbdd_rec` | node table | one value node per pair; an entry of an older operation never matches; results stay alive |
| rule text, earlier programs, data files, vendored BuDDy files | | | | not modelled, see 6 |

The hard behaviours, with their lines, are the `hazards` of `PROJECT.json`.

## 2 Modules and code

```
RuleOrder <- FlowTable <. . . refined by . . . MtbddTable <- MtbddDriver -.
     ^ ^                                                                   +- TestPk
     |  '- RuleChecker <- RuleCheckerDriver ------------------------------'
     |'--- SwitchRules (in every driver)
      '--- PortMtbdd <- PortMtbddDriver
BddKernel <- NodeTable
     ^
     '------ MtbddGraph <- MtbddGraphDriver . . . refines . . . MtbddDriver

AtomicPredicates <- GetAPsSimple <. . refined by . . GetAPsWithDiff -.
     ^  ^   ^------ GetAPs ------------------------------------------+- TestBddMen
     |  '---------- GetAPsBounding ----------------------------------|
     '------------- JsonRules ---------------------------------------'
NetworkMatrix
```

Dotted arrows are refinements; the others are EXTENDS or INSTANCE. A module
`X_proofs` holds the theorems about `X`, a module `MCX` the values for TLC. One
action is one call or one iteration of the program's loop, unless noted. A BDD is
the set of headers it stands for, except in BddKernel and MtbddGraph.

### The MTBDD of a switch and RuleChecker (`all_testpk.h`)

**RuleOrder** has the constants `Headers`, `Rules`, `NULL` and the reference
definition of priority: a rule is its `idx`, the smallest one that matches wins.
**SwitchRules** adds that the rules are the positions of `sw->rules`.

**FlowTable** is the abstract specification: installed rules, a winner for every
header, `Install` and `Withdraw`.

**MtbddTable** is one switch's MTBDD. `mtbdd[h]` is the terminal the MTBDD sends
header `h` to, a pair `rule_pair`; `Zero` is node 0. A call of
`Update_aRule_Insert_1tb` (12469) is `Insert`. A call of `Update_aRule_Remove`
(12607) is `Remove` (or `RemoveNothing` for a rule without ports), and one
`Readd` per hidden rule in the order of `qsort`; splitting the loop lets the
invariants speak about the states in between. `AddTerminal` and
`RemoveTerminal` are `mtbdd_maketnode_mtbdd_1tb_r_add` and `_r_remove`
(8589-8797); `AddCovering` and `AddSelf` are the side effects of the same
functions on `covering` and `self_bdd` for all terminals one recursion meets.
The recursion passes its two calls as arguments of one `bdd_makenode`, so that
the compiler chooses which is walked first: `lowFirst` is that choice, and it
decides which terminal takes a header from the new rule's `self_bdd`. `type` tells
a rule that was never inserted ("new") from the others; in C a parsed rule is
`RULE_BS` from the start. A virtual rule shares value node, covering and name with
the rule it stands for, so `readd` holds rules.

**MtbddDriver** adds the loops of the program. It models one switch: the loops
over `SW_NUM` share no rule and no terminal.

**RuleChecker** keeps the probe arrays in order, because `UpdateProbesInsert`
replaces the array of a lower rule inside the loop that walks it (12906), which
`InsertBelow` models. `UpdateProbesRemove` (12944) is one action for the rules
above and the unlinking and one `Uncover` for each rule below, in list order. A
freed probe set is dangling in C and `NULL` in the model; the code does not read
it after the rule has left the net. Sorted lists (`InOrder`) and filtered arrays (`Kept`)
are defined by counting and not with the operators of the library: the proofs need what
they return, and a fold says that only by induction over data. **RuleCheckerDriver** adds
the loops, **TestPk** runs both drivers on the same rules and records the numbers they
print.

### The BDD kernel under it (`all_testpk.h`)

**BddKernel** is the node table. A table holds the nodes (level, low, high,
count and the chain a node hangs in), the free list, the reference stack and the
caches. The C functions change the table while they compute; they are
operators from a table to a table and a result, in the order of the code, so
that `bdd_makenode` can collect in the middle of `apply_rec`. A chain is the set
of nodes with the same hash, the hash depends on the size of the table, an apply
cache entry is never overwritten by another (the model has more hits than a
direct-mapped cache, never fewer), sizes grow by a step instead of to a prime,
and the program's `bddmaxnodesize` of 0, no limit, is a bound `MaxSize`, where
memory would end. `stopped` is the `exit(1)` of the error handler; `wild` marks a
table in which the code has read a slot that a collection has freed; `collected` is
`gbcollectnum # 0`, there has been a collection. A header has one
bit for each BDD variable, and the bits are independent. The recursive C functions are
recursive functions here, so that they can be reasoned about: `Reached` is `bdd_mark`
one generation of sons at a time, `ApplyAt[k]` is `apply_rec` with at most `k` more
levels to go, and `Denotes` follows the nodes down to the constants. No path in a
table has more than `VarNum` nodes and a constant; a recursion that went deeper would be
walking a node that was freed and taken again, and `ApplyAt[0]` marks it `wild`.

**NodeTable** is a program on the kernel that keeps all its BDDs referenced, the
way probes give up headers (12772-12776).

**MtbddGraph** is what MtbddTable is made of: value nodes with their `self_bdd`,
terminals (nodes with low = 2 whose high is the value node), the recursions
`mtbdd_r_add_1tb_rec`, `mtbdd_r_remove_1tb_rec` and `bdd_to_mtbdd_rec`, and the
operation caches with their tags. The operators map a state `s` to a state and a
node, as in BddKernel, and the recursions are functions with at most `k` more levels to
go, too (`RecAt`, `ConvertAt`; `MatchAt` is `mf2bdd` for any match set). A value node's index in `value` is its number plus one;
number 0 ends a hash chain, so that the search never finds it, in the code and in
`FindValue`. The tagged entries of `applycache` (`memo`) and those of `misccache`
are direct-mapped: an entry evicts one with the same hash. Both are compared by
`entry->c` with one counter each, which every operation increments and the drivers
reset together: one `tag`. `lowFirst` is the compiler's choice again.

**MtbddGraphDriver** runs the program on it: the rules of a file are parsed, and the
caller of `parse_js_rule` references what it returns, `mf_in` and `mf_out` (12008-12009;
the calls inside it are in comments). What a file says of a rule are two sets of
headers, and `Parse` builds the BDD of each; `bdd_rw_BDD`, which makes `mf_out` from
`mf_in`, leaves other nodes behind that nobody holds, and those are left out.
`generate_mtbddrules` gives the rules value nodes, and the loops of `test_testpk.c`
insert, remove and put back, with the resets after an insertion in the list order
(12525) and after each cycle (12660). Its definitions are `GInit`, `GNext` and `GSpec`,
so that they do not clash with NodeTable's where the proofs use both. `MtbddDriver` is
its specification: `ImplementsTable` maps every graph to the function it stands for and
every value node to the entry of its pair.

### Tables for ports and the delta of R (`all_deltar.h`)

**PortMtbdd**: `in_mtbdd_r[p]` is `port_relation_in->ports[p]`, table 0 the one of
the rules for every port. A port's table starts as a copy when the first rule of
that port is inserted (`Copied`, `Base`). A terminal names one rule here; what
matters beside it are the sets: `link_BDDs` (`lks_in_bdd` of a rule, per port),
`merged_BDDs` (the same of the merged rule that rules of one action share) and
`changes` (`mgr_change_tmp`). They change where the recursion meets two rules, in
the order it meets them (`MetEarlier`, with `lowFirst`): the new rule loses what the
higher rules have, and a lower rule yields what the new one has `Left` when the two
meet. Since the sets of the rules met do not depend on each other, `AddLinks` needs no
loop over them. A pair is met only if the operation cache does not answer: `seen` are the pairs that a removal left in it under the tag
of the next insertion, and any subset of them may still be there (`hits`).
**PortMtbddDriver** adds the loops of `test_deltar.c` and the comparison with the
conflict-free rules (`test_mtbdd_get_right_dominant`).

### Atomic predicates (`all_BDDM.h`)

**AtomicPredicates** has the arrays as sets and the cut of an array by a set.
**GetAPsSimple** is `get_APs_simple`, one rule at a time; **GetAPsWithDiff** is
`get_APs_simple_withdiff`, one element at a time, with the two rests that let the
pass stop early; it refines GetAPsSimple. **GetAPs** is `get_APs`: a rule cuts by
its match set and its image, and whenever an element is cut the images of its parts
under every rewriting rule so far are due; one action is one pass of `while(1)`.
**GetAPsBounding** is `get_APs_bounding`, which attaches rewritings to elements.
**JsonRules** has the two parsers, one action per rule of the file, with the branch
in which `bdd_rw_BDD` reads a NULL mask as `crashed`. **TestBddMen** is `main`: both
parsers, then one of the generators, whichever is not in a comment; `inc` is
`get_APs_simple_astep`, called from inside the parser. `before` in GetAPs and
GetAPsBounding is a history variable for `CutClosed` and `BoundingClosed`.

### Matrices (`all_BDD.h`)

**NetworkMatrix** is `test_BDDen.c`. `GenTris` is one link of `gen_Tri_arr_bdd`: the
rules that send over it pass what they make of their headers to the rules that
receive, first match first. `GenMatrix` sorts the elements into rows and frees all
but one of those with equal place; which one is left is the choice of `qsort`, which
is not stable. `MultiplyRow` is one row of `sparse_matrix_multiply`, by rows or, from
`Threshold` elements on, by columns; `NextProduct` is what `main` does between
products. An element has its pairs, their unions, and its references in the bag
`refs`. Headers are sets of bits here, because `nf_space_connect` composes masks and
rewrites bit by bit.

## 3 Runs

| run | question | bounds | distinct states |
|---|---|---|---|
| `table` | Insertions and removals in every order: is the MTBDD right, and does it refine the flow table? | 3 rules, 3 headers, all 512 match functions | 40552 |
| `rulechecker` | Insertions and removals in every order: are `bdd_hit` and overrides right? | 4 rules, 3 headers | 294956 |
| `testpk` | The whole program: are pairs, self sets and probes exact at rest, do the two algorithms agree, does it end? | 4 rules, 3 headers, all 4096 match functions | 157099 |
| `nodetable` | Does anything the program holds change when the table collects, reuses slots and grows? | 3 BDD variables, 11 to 13 slots, 2 BDDs, 3 operations | 90525 |
| `graph` | Do the stored graphs, with value nodes, counts and caches, do what MtbddDriver says? | 3 rules, 3 header bits, 8 match sets, 6 value nodes, caches of 1 and 7 entries, reset after 2 operations | 25888 |
| `port` | Are the tables of all ports right in the program's order, does the delta lose nothing, does it end? | 3 rules, 2 ports, 2 actions; every choice of ports on 2 headers, rules for all ports on 3 | 60576 |
| `bddmen` | Do the parsers match what the file matches, is the result of each generator a partition that keeps every rule, closed under rewriting, and does it end? | files of 3 rules over 4 headers, 2 rewritings, 2 port sets, 5 generators | 1192262 |
| `matrix` | Are elements of the matrix and its products the paths headers take, and the references exact? | 5 rules on 3 switches, 4 links of which 2 parallel, 2 bits, 513 networks, 3 products | 14598 |
| `remove_loses_headers` | violation, see 5 | 4 rules, 3 headers | |
| `collection_in_recursion` | violation, see 5 | as `graph`, 4 match sets, 26 to 60 slots | |
| `dominant_after_readd` | violation, see 5 | as `port` | |
| `merge_keeps_decisions` | violation, see 5 | as `bddmen` | |

*Bounds of the table runs.* Two headers are needed to tell a rule from its overlap
with another and a third to make two overlaps differ; three rules make a hidden
rule's hider hidden, and the fourth a pair whose second rule goes stale. Every
function from rules to sets of headers is an initial state, so that nothing depends
on a chosen rule set. During development `table` was also run with four rules and
two headers and the MTBDD driver with five and two, with the same result. `port` takes
every choice of ports with two headers, and three headers where all rules are for all
ports, the case that `DeltaExact` and `LinksCover` are about. The first action is fixed, as
actions only matter as equal or not.

*The kernel.* In `nodetable` nine of the eleven slots hold constants and variables, so
that an operation that makes new nodes collects; three variables are the least for which
both sons of a new node can be new and unreferenced, and with two a collector that
forgets the reference stack goes unnoticed. Three operations are enough to collect, take
a freed slot again, grow, hit the cache after both, let a count reach its maximum and
fill the table for good (each was seen by checking that it does not happen). In `graph`
the match sets are eight of the 256 that three bits allow, chosen so that BDDs skip
levels, share nodes, nest, overlap and are disjoint; every function from the three rules
to them is an initial state, with both orders of the recursion and both cache sizes. The
counters are reset after more than two operations (65534 in the code): after the build,
and after a cycle that put a hidden rule back but not after one that did not, so that
tags are used again over caches of every age. The node table is so large that no
collection is needed, as in the program, and `RefsEnough` checks that it stays so;
`collection_in_recursion` takes a table in which the rules just fit. The value table has
six places, one for each rule and for each pair of two, so that a pair that is made
twice ends the program and `RefsEnough` fails (with five places it does). A count of
`nodetable` that has stuck at `MAXREF` is not counted down to 0 within three operations;
that it stays, then, is part of the theorem (`Counted`).

*Atomic predicates.* Four headers let a rewriting move one half of an element onto
another element and let the parts be cut again; two rewritings are needed to have an
image due under a rule that is not at hand; of three rules the last one cuts what the
first two have settled. The first two rules of a file share their ports, the third
may have others.

*Matrices.* Three switches in a ring make paths of four links that come back to a
switch, where only rules that are not yet on the path may follow; five rules give every switch but
one a choice of first match; the parallel links lead to rules of which one receives
from only one of them in half of the networks. The threshold between rows and columns
is 2 instead of 60, so that both ways are taken. One network has no element at all.

*Deadlock* is checked except where the program stops: at the bound `MaxOps` and the
error exit in the kernel runs, and at the end of `main` or its crash in `matrix`.

*Fairness.* `TestPk`, `PortMtbddDriver`, `MtbddDriver` and `TestBddMen` state
weak fairness of the whole next step: the program is one sequential loop that
always takes its next statement. `Terminates` then says that no update blocks the
sequence, that every loop over hidden rules runs out, and, in `bddmen`, that the
loops of `get_APs`, which cut elements because they have cut elements, run out of
work. The other modules state safety only.

Every property is paired in `PROJECT.json` with a mutant, a small bug of the
kind this code could have (a dropped test, swapped arguments, a missing reset),
defined next to the operator it would replace, that makes the property fail.

## 4 Proofs

The theorems hold for every set of headers and rules the assumptions allow, finite
or not, and for every number of rules in the drivers.

**`MtbddDriver_proofs`, the table.** `TypeCorrect`, `TopIsLive`, `CoverAlwaysDescends`,
`CoverIsComplete`, `TopIsCorrect`, `NeverReports`, `SelfIsWithin` are the invariants of
the run `table`; `MtbddImplementsFlowTable` is the refinement `Implements`: a removal
that puts many hidden rules back one by one is, seen from the flow table, one
withdrawal. A header's top rule (`TopCorrect`) is not inductive: a removal clears the
headers of the removed rule and relies on `covering` to know what to put back, and
`covering` is not the set of rules that are hidden but only of those that were on top,
or came in, when some update met them. What holds is `CoverComplete`: for every live
rule and every header it matches, the rule decides the header, or waits in `readd`, or
a live higher rule that matches the header has recorded it. The inductive invariant
`IInv` is that, the types, `TopLive` (a header leads to a live rule that matches it,
also in the middle of a removal), `CoverDescends` (a rule records only lower rules, so
that "hidden by" has no cycle and putting a rule back never meets itself) and
`ReaddPending` (the state of a removal under way). `TopCorrect` follows: if a better
live rule were not on top, take the smallest such rule; it is covered by a smaller live
one that matches, a contradiction. `NeverReports` follows from `TopCorrect`.
`NextInvariant` has one lemma for each action; `AddRuleKeeps` is shared by `Insert` and
`Readd`.

**`MtbddDriver_proofs`, the order of the program.** `DriverUsesTable`: a behaviour of
the driver is one of the table. `PairsAreExact`: the second rule of every pair is exact
at rest; in the table alone it is not (see 5). `DriverInv` has one part per loop. While
building, the pairs are exact for the rules inserted so far, because a new rule is
always below them all. While rule `r_i` is out, the pair of a header that `r_i` would
decide is under repair and nothing is said of it but what `IInv` says; every other pair
is exact for all the rules, the missing one included, and no rule put back changes it.
The insertion of `r_i` puts it on top of the headers under repair.

`SelfIsExact`: at rest `self_bdd` of every terminal is its region, the headers that lead
to it. It too fails in other orders (see 5). `SelfInv` says for each loop where a set may
differ from the region, and there it is ahead of it: the leaf of a rule that waits holds
the headers it will be given, those of `VirtualMf`, the leaf of `r_i` holds all that
`r_i` matches, and the pairs under `r_i` still hold the headers they will have again
(`ExactRegion`). An insertion then moves headers out of the leaf to the pairs they
join, and as regions are disjoint it does not matter in which order the recursion meets
them: the theorem holds for both values of `lowFirst`.

**`PortMtbddDriver_proofs`, the tables**: `TopIsCorrect` and `NeverReports` for the
tables of every port. In the table of one switch `covering` was complete; here it is
not, because a reinsertion may find the entries its removal left in the operation cache
and then records nothing. Why the tables are right all the same is the invariant
(`TablesInvariant`): a higher rule `w` hides `y` if it has recorded it *or the loop is
past `w`* (`Hides`), since a rule is taken out only once. With it, `AllCovered` is
`CoverComplete` for every port; `TopsLive` and `CoveringSound` are as before; `SeenDead`
says that the cache only answers for a rule that is out, and `LoopState` which rules the
loops have inserted. A port without a table of its own reads the one for every port
(`BaseLive`, `AddBase`).

**`PortMtbddDriver_proofs`, the sets beside the tables**: `TypeCorrect`,
`DeltaLosesNothing`, `DeltaIsExact`, `LinksStillCover`, from `Invariant`, which adds `SInv`
to the above. What a rule has at
a port is what it has there and what it has at the common table (`AtPort`). `BuildCovers`: while
the tables are built, every header that a port reads in a rule is in the set of that
rule and of its merged rule, because the new rule is the lowest: it takes exactly the
headers that no rule decides, and what it loses at its start are sets of headers that
higher rules match. `BuildExact`: with all rules for all ports the sets have nothing
else. After the build they do (see 5), and the two parts that still hold are those that
`LinksStillCover` needs: `TopsHave`, a header is in the set of its decider unless the
rule that is out will take it, and `LinksBelow`, a set may be too large but each header
in it is matched by its rule or a higher one, so that a rule that is inserted loses
to the higher ones no header that it decides. `RulesOut` says what a rule that is out
starts with.

**`RuleCheckerDriver_proofs`**: `TypeCorrect`, `HitIsExact` and `ProbesAreSound` for
any order of insertions and removals. `IInv` also speaks of the states between the rules
that a removal uncovers one after the other: `TodoIsRest`, the loop has visited the
rules above the ones left; `HitsSoFar`, `bdd_hit` of a rule is what it decides, without
the headers of the removed rule if the rule has still to be visited; `OverridesSoFar`,
an override is right, or NULL while the rule that takes the place of the removed one has
not been visited. `Arrays` (`WellFormed`) is that an array has no two probes with the
same override, which the merging of probes in both operations relies on.
`RestIsComplete`, that no header is without a probe, holds only in the order of the program: both
operations drop headers in other orders (see 5). `DriverInv` has to say why. While the
rules are inserted in list order nothing is below a new one. After that one rule `j` is
out at a time: a removal leaves the rules below it `Owing`, with a probe for exactly
those of their headers that `j` does not match, or with nothing but headers of `j`, and
the insertion of `j` takes just the headers without a probe away again. `NoneEmpty` keeps
the walk of `InsertBelow` from stopping early. `IdleRules` is about rules that
match nothing, for the numbers below.

**`TestPk_proofs`** carries `PairExact`, `SelfExact` and `RestComplete` over to the whole
program: its steps are steps of a driver or leave that driver's variables alone. Then
`TestsAreTheSame`: a terminal with a region, and a probe, both stand for a pair of a rule
that decides some header and the rule that would decide it next; each side is matched with
the set of those pairs (`First`, `IsNext`), so that neither algorithm is compared
with the other directly. `NumbersAreTheSame` counts the same pairs; the probe
arrays are in bijection with them because overrides in an array differ, but for the empty
probe of a first rule that matches nothing. A program without rules has no such probe either, a case of `SameNumbers`
that the proof asked for and the run cannot show.

**Atomic predicates.** `GetAPs_proofs` starts with the lemmas about cutting: cuts
keep a partition, a union of elements stays one, cutting by several sets is cutting by
all. Then, on GetAPs: `StaysPartition`; `RulesStayUnions`; `StaysCutClosed`, the point
of the algorithm, whose invariant says of every element cut since a rewriting rule was
taken that the image of what it shares with the rule is a union of elements or still
due; `PlainIsCoarsest` where nothing is rewritten. In its last part, on GetAPsWithDiff:
`RestIsExact` (why the pass may stop early), `StaysDisjoint`, `StaysCoarsest`, and
`WithDiffImplementsSimple`, the refinement of GetAPsSimple. `TestBddMen_proofs` puts
them together for the rules the parsers make of any file: `NoconfIsExact`,
`MergedIsExact`, `RulesAreKept`, `CutsAreClosed`, `AttachedIsExact`, `BoundingIsClosed`,
all from one `ProgramInvariant` with one part for the parsers and one for each
generator.

**`NodeTable_proofs`, the node table.** `HeldIntactHolds`, `CanonicalHolds`,
`CacheSoundHolds` and `FreeExactHolds`, the four invariants of `nodetable`, for every
number of BDD variables, every initial size, growth step and limit of the table, every
`MAXREF` and any number of BDDs that the program holds. The argument goes up from the table to the
program.

1. *A table in order* (`Shape`): the sons of a node are used and at deeper levels and
   differ, no node is stored twice, every node hangs in the chain that a search for it
   looks in, and the free list has just the free slots, each once. From this alone follows
   `OneNode`, equal functions are equal nodes: two nodes with one meaning have one level,
   since a function does not depend on variables above its node and does depend on its own (`Independent`,
   `HalvesEqual`), then equal sons, then equal slots. `CanonicalHolds` is that lemma; it
   needs that the bits of a header are independent.
2. *What stays* (`Keeps`, `Follows`). After `Collect`, `Grow` and `MakeNode` every
   node that was marked is in its slot with the same sons and the same meaning
   (`CollectFacts`, `GrowFacts`, `RefillFacts`, `MakeNodeFacts`), and every node that exists
   afterwards was there before, but for the one that is made. `Marked` is closed under sons because no chain of
   sons is longer than the table has slots (`MarkedFacts`).
3. *The recursion* (`LayerRight`): if `apply_rec` is right for calls with `k` more levels,
   it is for `k + 1`. A call gets operands that are marked, pushes nothing that it does
   not pop, and returns a node that means what the operation says. What makes it so is the
   order of the C code: the result of the first call is on the reference stack while the
   second one runs, and both are there while `bdd_makenode` collects, so that they are marked all the
   time; and the two operands are marked because their owner holds references.
   `CacheOk` is carried along and says more than `CacheSound`: an entry's result is
   not above both operands, without which a hit could put a node above its father.
4. *The program* (`IInv`). `Counted`: a node has at least as many references as the
   program has variables for it, or its count has reached `MAXREF` and stays. `Pinned`:
   the nodes of the BDD variables can always be used. `UpdateHolds` puts 1 to 4 together: the old value
   is given up after the operation and not before, so that an operand may be what is
   replaced.

Once the error handler has stopped the program the table is still in order (`Canonical` and
`FreeExact` hold there, too), but nothing is said of what the program holds.

**`MtbddGraph_proofs`, the stored graph.** `GraphOnePerPair`, `GraphRefsEnough`,
`GraphMtbddsKept`, `GraphTypeCorrect`, `GraphLossless`, for every number of header bits,
rules and value nodes, every size of the node table and of the caches, every number of
operations between resets and both orders of the recursive calls. The recursions on
MTBDDs keep their results off the reference stack, so that a collection inside one may free what it
goes on with (`collection_in_recursion`). The proofs therefore have two halves.

1. *Whatever the table.* `Typed` and `STyped` say only what holds of any table, also of
   one in which slots were freed and taken again under the program's hands; every operator keeps
   them, and none takes back a collection or an error (`Later`, `SLater`). From this half
   come `GraphTypeCorrect` and `GraphOnePerPair`: value nodes are never freed, so that no
   collection can make the search miss one, and number 0, which the search cannot find,
   names one rule, while searches are for pairs of two (`Distinct`).
2. *Until a collection comes or no value node is left* (`Failed`). A table without either is
   `Steady`, and a node in it stays as it is (`Grown`). Which nodes are whole is said with
   greatest fixed points: `Bdds` is the largest set of nodes of which each has its
   sons in the set and at deeper levels, `Mtbdds` (`Mine`, with the value nodes of the
   state) the same down to terminals with a value node. To show that a node that is made
   belongs to it is then to name one closed set it is in, without induction over the
   graph. TLC cannot enumerate these sets; `MtbddsKept` looks
   at what can be reached instead.
   `Good(st, ext)`, the invariant of every operator, says that nothing is lost: entries of
   applycache name whole MTBDDs and a result not above both operands (`Remembered`;
   without it a hit could put a node above its father), and that holds for entries of any
   age, so that a tag that is used again is no danger here; `self_bdd` of every value
   node is a whole BDD (`Selves`); and each node has the references of the value nodes
   that record it and of `ext` other holders, or a count that has reached `MAXREF` and
   stays (`Accounted`, `Total`). `ext` is a function, so that the lemmas can give up the old MTBDD, hold the new
   one, or add a rule (`WithoutHolder`, `WithHolder`) without speaking of the driver. `Fine` is the
   same with the way out: after an operation `Good` holds, or it has failed.
   The recursion (`RunFine`) and `bdd_to_mtbdd` (`ConvertFine`) follow layer by layer, as in
   NodeTable_proofs: with `k` levels left a call returns a whole MTBDD not above both
   operands, so that `bdd_makenode` may put a node above two results.
   `Lossless` is the inductive invariant of the program: `Good` with the holders the
   driver has (`Holders`), the switch's MTBDD, the rules' nodes and the virtual
   rules still to insert whole. A holder is the switch for its MTBDD, a value node for its `self_bdd`, and a rule for each of
   `mf_in`, `mf_out`, `vtnode_in` and `mtbdd_in`; that the rules' holds are in balance after
   parsing is `ParseGood`. It needs that virtual rules, which nobody
   references, stay where they are as long as no collection comes.

`GraphRefsEnough` is `Failed(s) \/ RefsEnough`: it also says that no `bdd_delref` ends the program
and that the node table cannot be full without a collection first. `GraphMtbddsKept`
is `Failed(s) \/ MtbddsKept`. The clause `Failed` is not a convenience: after a collection
`MtbddsKept` is false, which is what `collection_in_recursion` finds, and after a full
value table the program has ended. In the run `graph`
neither happens: it checks `RefsEnough` without the clause, and was run with `MtbddsKept`
during development, with the result that the theorem states.

*Assumptions.* Those named `...Assumption` in the modules: rules and headers are
natural numbers where they are compared, `NULL` is none of them and no probe set, `Rules`
are the positions below `NRules`, ports are numbered from 1, rewritings are functions on
headers. For the node table: sizes are positive, the variables fit into the first table
and it at most doubles when it grows (`SizeAssumption`), every combination of bits is some header
(`BitsAssumption`), and a program has finitely many variables (`OpsAssumption`). For the
stored graph: rules are finitely many positions from 0 on, `NULL` is no number, what a file
gives of a rule are two sets of headers, the caches have at least one entry, the limits are natural numbers
(`GraphAssumption`). The runs evaluate them all.

*Only model-checked.* `Terminates`, as liveness is beyond the prover. `ImplementsTable`:
the theorems say that the stored graphs are whole, referenced and have one value node per
pair, but not yet which function they stand for; that MtbddGraph computes the table of MtbddTable,
header by header, is checked on the instance of the run, and through it the theorems
about MtbddTable and MtbddDriver reach the graph. NetworkMatrix (`PathsExact`,
`RefsExact`), which is folds over sequences and bags: what a fold computes for every input
needs induction over data.

## 5 What was found

Violations, each with a run of its own and an entry under `findings`:

- **`remove_loses_headers`** (`all_testpk.h` 13154). `UpdateProbesRemove` extends
  `bdd_hit` of a lower rule that already has a probe set, but gives the new headers no
  probe, as it does for a rule that had none. Rule 0 matches {0}, rule 3 matches {0, 1}:
  without rule 0, rule 3 has `bdd_hit` {0, 1} and tests only {1}.
- **`collection_in_recursion`** (`all_testpk.h` 3018, 2858, 3082, 12479, 12585). The
  recursions on MTBDDs keep no result on the reference stack, and operands are given up
  before they are used. With a full node table the second of two insertions of rules for
  one header makes a terminal, collects it, and puts the node above it into its slot: a
  node that is its own son. The program's table of 100000000 nodes keeps it from
  happening.
- **`dominant_after_readd`** (`all_deltar.h` 16018, 15746). The repository's own
  comparison of `lks_in_bdd` with the conflict-free rules fails after
  `test_remove_then_readd_rules`, where all rules are for all ports and it holds after
  the build. A removal counts the tag of the operation cache before it starts and an
  insertion after it ends, so that a rule that is put back at once is inserted under the
  tag of its removal: pairs that the removal has met are answered by the cache, and
  nothing is taken off the rule's set. Rules 0 and 1 match the same header: after its
  own removal and reinsertion rule 1 has the header, too. The sets are then too large
  (`LinksCover` still holds where all rules are for all ports), not the tables.
- **`merge_keeps_decisions`** (`all_BDDM.h` 3663). The merging parser joins a rule with
  an earlier one of equal action before the rules between the two are taken off it.
  Rule 0 matches {0} and leads to p, rule 1 {0, 1} to q, rule 2 {0, 1} to p: header 1 of
  rule 1 joins the merged rule of rule 0.

The first cancels out in the order of `test_testpk.c`, which puts every removed rule
straight back: `RestComplete` and `SameTests` hold there. That is worth knowing before
the function is used in another order.

Observations that are no contradiction with anything the repository says:

- `UpdateProbesInsert` (12906): when one of the probes of a rule below the new one
  becomes empty, its array is replaced in the middle of the walk and the probes not yet
  visited are dropped. Rule 1 {0}, rule 2 {0, 1}, rule 3 {0}, inserted as 3, 2, 1: rule 2
  still decides {1} and has no probe. Insertion in list order does not meet it.
- A removal overwrites `self_bdd` of the rule's value node with 0 and never gives up the
  reference (8768), so that the old set stays in the node table. `RefsEnough` shows the
  other direction: no reference is missing.
- Outside the driver's order the second rule of a pair can be stale or missing:
  insert 1 and 2 with the same headers, remove 2, and the pair still names 2.
  `self_bdd` can differ from the headers that lead to the terminal: rule 0 matches
  {0}, rules 1, 2 and 3 match {0, 1}; insert 2 and 3, remove 2, insert 0, 2 and 1.
  The top rule stays right (`TopIsCorrect`), the test packets do not.
- RuleChecker keeps and counts an empty probe for a first rule that matches
  nothing, so that its numbers are one higher than the MTBDD's (`SameNumbers`
  says exactly when).
- Where rules are for different ports, the comparison of `lks_in_bdd` with the conflict-free
  rules differs right after the build: the conflict-free parser only takes rules of the same
  ports off a rule, an insertion takes off those of any table they share. `RightDominant`
  is therefore about rules that are all for all ports.
- A removal gives back to a hidden rule all that the removed rule matches, also headers
  that it does not match itself or that a rule above both decides (15996-15998), and
  nothing to a rule whose set is empty, because `BDDZERO` means no set, too. The hidden
  rule's own removal and reinsertion can undo it.
- The conflict-free parser of `all_BDDM.h` asks the earlier rule whether to rewrite
  (4054) and then reads the mask of the new one: a forwarding rule after a rewriting one
  with the same ports crashes (`crashed`). `all_deltar.h` has the lines the other way
  round.
- Two rules joined by two links have two elements, of which `gen_matrix_CSR_from_Tris`
  keeps one (2588; the merge is in a comment at 2590). `PathsExact` therefore speaks of
  one link for each two rules. Where the receiving rules of both links are the same, as
  for rule 22 of switch 15 in the shipped data, nothing is lost; where they differ, the
  headers of one link are.
- A network in which no rule passes a header to another makes `gen_sparse_matrix` return
  NULL, which `main` reads (`NoMatrix`).
- `links_insc` (`all_BDD.h` 2166) reads both arrays at the index of the first; its result
  is only printed. `get_link_rules` takes a link number for a position, which is right
  because the generator of the data lists link 0 first.

## 6 What is left out

- *applycache is shared* by `bdd_apply`, `bdd_to_mtbdd` and the tagged entries; in the
  models they do not evict each other, and `bdd_to_mtbdd` has no cache (it finds the nodes
  it made before in any case).
- *Dynamic reordering* is never switched on; `bdd_gbc_except_applycache` and
  `bdd_gbc_fastall` are not called. `bdd_not`, `bdd_ite` and quantification appear as what
  they do to sets of headers (`Forget`, `Rewritten`), not on node graphs.
- *Arrays without bounds* (`rules_tmp[1000]`, `arr1[500000]`, `Transformers[2000]` and the
  like) are sets and sequences without a bound.
- *Several switches*: tables, rules and predicates of different switches share nothing but
  the node table; the models take one, NetworkMatrix several.
- *The changes left over between the insertions of one removal* (`mgr_change_tmp`, 16084)
  are modelled, but no property is about the merged sets after a removal: the
  sets of the rules are too large by then (`dominant_after_readd`). The read past `lks_in` at 15803 selects rules whose
  intersection is computed and dropped.
- *Other matrix products* (rows from a port, selected rows, other orders, `is_insc_links`)
  are in comments of `main`; a collection inside a product is not modelled, nor is the
  last product, which `main` does not free.
- *Rule text, wildcard algebra, JSON*: data-parallel string and bit work without state
  that survives a call; the models take every match function.
- *Earlier programs* (`all.h`, `all_MTBDD.h`, `all_linkbdd.h`, `all_nobdd.h`, `usedMTBDD.h`,
  `MTBDD_merging.h`, `all_Netest.h`, ...) are snapshots of the same code; each operation is
  modelled from the last header that holds it. This, and the printing, timing and commented-out
  code in every program, is why the lines that the models name are a small part of the
  repository's: of the 58 implementation files about twenty hold near copies of each other.
- *Data file generator and loader* are input and output; the vendored BuDDy files that
  are not listed are not called.
- Times, formatting and the split of the printed probes by `is_action_same`.

## 7 Plan

Done, in this order: RuleOrder, FlowTable and MtbddTable (the state everything else
depends on), the drivers, RuleChecker, TestPk, the proofs about the table and the
driver, BddKernel with NodeTable, MtbddGraph with its driver and with the collector,
PortMtbdd with the delta of R, JsonRules and the generators of atomic predicates with
their proofs, NetworkMatrix, then the proofs about RuleChecker, `test_testpk`, the port
tables with their delta, the node table with `bdd_apply`, and the stored graph
(MtbddGraph with functions instead of recursive operators). What would come next:

1. Kernel operations as pure functions against their meaning for sets of headers, over
   all small BDDs: `bdd_not`, `bdd_ite`, quantification, `bdd_rw_BDD`, `mf2bdd` and the way
   back to wildcards (`genmf_fr_path`).
2. Matrix products in which the collector runs, on BddKernel.
3. `ImplementsTable` as a theorem: the layers of `RunFine` with what a result stands
   for (`Leads`) beside its being whole, and `covering` and `self_bdd` of the terminals met
   as the sets that `AddCovering` and `AddSelf` collect; the cache then has to be true as well as whole,
   for which tags matter.
4. The part of NetworkMatrix that needs no induction over data: that `free_matrix_CSR`
   gives every reference back once.
