---------------------------- MODULE NetworkMatrix ---------------------------
(***************************************************************************)
(* test_BDDen.c over all_BDD.h: the matrix whose element (r, c) says which *)
(* headers rule r sends over a link to rule c, its products, whose         *)
(* elements are the paths of two, three and four links, and the references *)
(* to BDDs that elements and their pairs hold.  A BDD is the set of        *)
(* headers it stands for, a header the set of its bits that are 1.         *)
(***************************************************************************)
EXTENDS Naturals, Bags, SequencesExt

CONSTANTS
  NRules,       \* data_allr_nums
  NLinks,       \* swl_num, the links between switches
  Bits,         \* the bits of a header
  Threshold,    \* the length from which a row is multiplied column by column
  Products,     \* how often main multiplies
  Nets,         \* the rules of a data file
  NULL

ASSUME SizesAssumption ==
  NRules \in Nat \ {0} /\ NLinks \in Nat /\ Threshold \in Nat /\ Products \in Nat \ {0}

Rules == 1 .. NRules
Links == 0 .. NLinks - 1
Headers == SUBSET Bits
Rule == [w : Headers, v : Headers, mask : Headers \union {NULL}, rewrite : Headers,
         in_link : SUBSET Links, out_link : SUBSET Links]

ASSUME NetsAssumption == Nets \subseteq [Rules -> Rule]

VARIABLES
  rules,        \* the rules of the network
  phase,        \* "tris", "multiply", "done", "crashed"
  link,         \* i of gen_Tri_arr_bdd
  tris,         \* Tri_arr
  matrix,       \* matrix_CSR: row, column -> element
  left,         \* matrix_CSR, then muti1_CSR, muti2_CSR, muti3_CSR
  hops,         \* links on the paths of left
  product,      \* what sparse_matrix_multiply has of its result
  row,          \* its i
  refs          \* the references of each BDD

vars == <<rules, phase, link, tris, matrix, left, hops, product, row, refs>>

-----------------------------------------------------------------------------
(* Sets of headers.                                                        *)

\* mf2bdd: the bits w are any, the others those of v.
Match(w, v) == {h \in Headers : h \ w = v \ w}

\* get_r_out_mf: what a rule matches.
OutMf(r) == Match(r.w, r.v)

\* get_r_in_mf: what a rule makes of all that it matches.
InMf(r) ==
  IF r.mask = NULL THEN OutMf(r)
  ELSE Match(r.w \intersect r.mask, (r.v \intersect r.mask) \union (r.rewrite \ r.mask))

\* bdd_v2x_bymask: the bits off the mask become any.
Forget(s, mask) == {h \in Headers : \E g \in s : g \intersect mask = h \intersect mask}

\* bdd_rw_BDD and rw2bdd
Rewritten(s, mask, rewrite) == {h \in Forget(s, mask) : h \ mask = rewrite \ mask}

\* bdd_rw_back_BDD
RewrittenBack(s, in, mask) == Forget(s, mask) \intersect in

-----------------------------------------------------------------------------
(* References.  bdd_addref and bdd_delref leave the two constants alone.   *)

AddRef(b, s) == IF s \in {{}, Headers} THEN b ELSE b (+) SetToBag({s})
DelRef(b, s) == IF s \in {{}, Headers} THEN b ELSE b (-) SetToBag({s})

\* The BDDs an element and its pairs refer to, once for each reference.
HeldBy(e) == <<e.in, e.out>> \o [i \in DOMAIN e.pairs |-> e.pairs[i].in]
                             \o [i \in DOMAIN e.pairs |-> e.pairs[i].out]

AddElement(b, e) == FoldLeft(AddRef, b, HeldBy(e))

\* free_matrix_element
FreeElement(b, e) == FoldLeft(DelRef, b, HeldBy(e))

\* free_matrix_CSR
FreeMatrix(b, m) ==
  FoldSet(LAMBDA r, c : FoldSet(LAMBDA k, d : FreeElement(d, m[r][k]), c, DOMAIN m[r]),
          b, DOMAIN m)

-----------------------------------------------------------------------------
(* Elements.                                                               *)

\* nf_space_connect returns a pair.
Connects(a, b) ==
  /\ a.out \intersect b.in # {}
  /\ Range(Front(a.path)) \intersect Range(b.path) = {}

\* Mutant: the bits the first rule sets win over those the second sets.
FirstRewriteWins(a, b) ==
  CASE a.mask = NULL -> [mask |-> b.mask, rewrite |-> b.rewrite]
    [] a.mask # NULL /\ b.mask = NULL -> [mask |-> a.mask, rewrite |-> a.rewrite]
    [] OTHER -> [mask |-> a.mask \intersect b.mask,
                 rewrite |-> (b.rewrite \intersect a.mask) \union (a.rewrite \ a.mask)]

\* The rewriting of both pairs in one.
Composed(a, b) ==
  CASE a.mask = NULL -> [mask |-> b.mask, rewrite |-> b.rewrite]
    [] a.mask # NULL /\ b.mask = NULL -> [mask |-> a.mask, rewrite |-> a.rewrite]
    [] OTHER -> [mask |-> a.mask \intersect b.mask,
                 rewrite |-> (a.rewrite \intersect b.mask) \union (b.rewrite \ b.mask)]

\* nf_space_connect of two pairs it connects.
Connected(a, b) ==
  LET insc == a.out \intersect b.in
      both == Composed(a, b)
  IN [in |-> CASE a.mask = NULL -> insc
               [] a.mask # NULL /\ a.out = insc -> a.in
               [] OTHER -> RewrittenBack(insc, a.in, a.mask),
      out |-> CASE b.mask = NULL -> insc
                [] b.mask # NULL /\ b.in = insc -> b.out
                [] OTHER -> Rewritten(insc, b.mask, b.rewrite),
      mask |-> both.mask, rewrite |-> both.rewrite, path |-> a.path \o Tail(b.path)]

PairsWith(p, b) ==
  LET met == SelectSeq(b.pairs, LAMBDA q : Connects(p, q))
  IN [i \in DOMAIN met |-> Connected(p, met[i])]

\* elem_connect; an element without pairs stands for NULL.
ElemConnect(a, b) ==
  LET ps == FoldLeft(LAMBDA s, p : s \o PairsWith(p, b), <<>>, a.pairs)
  IN [pairs |-> ps, in |-> UNION {p.in : p \in Range(ps)}, out |-> UNION {p.out : p \in Range(ps)}]

\* matrix_elem_plus
ElemPlus(a, b) ==
  [pairs |-> a.pairs \o b.pairs, in |-> a.in \union b.in, out |-> a.out \union b.out]

\* Mutant: two equal BDDs keep the references of both elements.
KeepsBothRefs(b, s, t) ==
  IF s = t THEN b ELSE AddRef(DelRef(DelRef(b, s), t), s \union t)

\* The references matrix_elem_plus moves for one side of two elements.
PlusRefs(b, s, t) ==
  IF s = t THEN DelRef(b, s) ELSE AddRef(DelRef(DelRef(b, s), t), s \union t)

-----------------------------------------------------------------------------
(* Rows.  A row under construction comes with the references: acc.         *)

Ascending(S) == SetToSortSeq(S, <)

\* The product of element a and element b of column c, added to the row.
AddProduct(acc, a, b, c) ==
  LET e == ElemConnect(a, b)
      held == AddElement(acc.refs, e)
      old == acc.row[c]
  IN IF a.out \intersect b.in = {} \/ e.pairs = <<>> THEN acc
     ELSE IF c \in DOMAIN acc.row
          THEN [row |-> [acc.row EXCEPT ![c] = ElemPlus(old, e)],
                refs |-> PlusRefs(PlusRefs(held, old.in, e.in), old.out, e.out)]
          ELSE [row |-> acc.row @@ (c :> e), refs |-> held]

\* row_matrix_CSR_multiply
RowByRows(line, m, b) ==
  FoldLeft(LAMBDA acc, k :
             FoldLeft(LAMBDA d, c : AddProduct(d, line[k], m[k][c], c), acc,
                      Ascending(DOMAIN m[k])),
           [row |-> <<>>, refs |-> b], Ascending(DOMAIN line))

\* The rows with an element in column c, as gen_CSC_from_CSR lists them.
Column(m, c) == {k \in Rules : c \in DOMAIN m[k]}

\* row_col_multiply
RowTimesColumn(acc, line, m, c) ==
  FoldLeft(LAMBDA d, k : AddProduct(d, line[k], m[k][c], c), acc,
           Ascending(DOMAIN line \intersect Column(m, c)))

\* row_all_col_multiply
RowByColumns(line, m, b) ==
  FoldLeft(LAMBDA acc, c : RowTimesColumn(acc, line, m, c),
           [row |-> <<>>, refs |-> b], Ascending(Rules))

\* The functions that select for each x of S one of the options of x.
Selections(S, options(_)) ==
  FoldSet(LAMBDA x, fs : {f @@ (x :> y) : f \in fs, y \in options(x)}, {<<>>}, S)

-----------------------------------------------------------------------------
(* The program.                                                            *)

NoRows == [r \in Rules |-> <<>>]

Init ==
  /\ rules \in Nets
  /\ phase = "tris" /\ link = 0 /\ tris = <<>>
  /\ matrix = NoRows /\ left = NoRows /\ product = NoRows
  /\ hops = 1 /\ row = 1
  /\ refs = EmptyBag

\* The rules that send over link l, and those that receive from it, in order.
InRules(l) == Ascending({r \in Rules : l \in rules[r].out_link})
OutRules(l) == Ascending({r \in Rules : l \in rules[r].in_link})

\* insc_to_Tri_express_rlimit
Tri(r_in, r_out, v_and) ==
  LET r == rules[r_in]
      pair == [in |-> IF r.mask = NULL THEN v_and
                      ELSE RewrittenBack(v_and, OutMf(r), r.mask),
               out |-> v_and, mask |-> r.mask, rewrite |-> r.rewrite,
               path |-> <<r_in, r_out>>]
  IN [row |-> r_in, col |-> r_out,
      elem |-> [pairs |-> <<pair>>, in |-> pair.in, out |-> pair.out]]

\* What r_in sends over l to each receiving rule: none takes what one before it took.
TrisOfRule(l, r_in) ==
  LET take(acc, r_out) ==
        LET v_and == acc.v_in \intersect OutMf(rules[r_out])
        IN [v_in |-> acc.v_in \ v_and,
            tris |-> IF v_and = {} THEN acc.tris ELSE Append(acc.tris, Tri(r_in, r_out, v_and))]
  IN FoldLeft(take, [v_in |-> InMf(rules[r_in]), tris |-> <<>>], OutRules(l)).tris

\* gen_Tri_arr_bdd, one link.
GenTris ==
  /\ phase = "tris" /\ link < NLinks
  /\ LET new == FoldLeft(LAMBDA s, r : s \o TrisOfRule(link, r), <<>>, InRules(link))
     IN /\ tris' = tris \o new
        /\ refs' = FoldLeft(LAMBDA b, t : AddElement(b, t.elem), refs, new)
  /\ link' = link + 1
  /\ UNCHANGED <<rules, phase, matrix, left, hops, product, row>>

\* gen_matrix_CSR_from_Tris: of the elements of one place, the one that qsort
\* leaves first is kept and the others are freed.
GenMatrix ==
  /\ phase = "tris" /\ link = NLinks /\ tris # <<>>
  /\ LET places == {<<t.row, t.col>> : t \in Range(tris)}
         at(p) == {i \in DOMAIN tris : <<tris[i].row, tris[i].col>> = p}
     IN \E first \in Selections(places, at) :
          /\ matrix' = [r \in Rules |->
                          [c \in {d \in Rules : <<r, d>> \in places} |-> tris[first[<<r, c>>]].elem]]
          /\ refs' = FoldSet(LAMBDA i, b : FreeElement(b, tris[i].elem), refs,
                             DOMAIN tris \ Range(first))
  /\ left' = matrix'
  /\ phase' = "multiply" /\ tris' = <<>>
  /\ UNCHANGED <<rules, link, hops, product, row>>

\* Without an element gen_sparse_matrix returns NULL, which main prints.
NoMatrix ==
  /\ phase = "tris" /\ link = NLinks /\ tris = <<>>
  /\ phase' = "crashed"
  /\ UNCHANGED <<rules, link, tris, matrix, left, hops, product, row, refs>>

\* sparse_matrix_multiply, one row.
MultiplyRow ==
  /\ phase = "multiply" /\ row <= NRules
  /\ LET line == left[row]
         acc == IF Cardinality(DOMAIN line) < Threshold
                THEN RowByRows(line, matrix, refs) ELSE RowByColumns(line, matrix, refs)
     IN /\ product' = [product EXCEPT ![row] = acc.row]
        /\ refs' = acc.refs
  /\ row' = row + 1
  /\ UNCHANGED <<rules, phase, link, tris, matrix, left, hops>>

\* main after a product: the left operand is freed, except matrix_CSR after the
\* first; after the last product matrix_CSR is freed too.
NextProduct ==
  /\ phase = "multiply" /\ row > NRules
  /\ LET rest == IF hops = 1 THEN refs ELSE FreeMatrix(refs, left)
         last == hops = Products
     IN /\ refs' = IF last THEN FreeMatrix(rest, matrix) ELSE rest
        /\ matrix' = IF last THEN NoRows ELSE matrix
        /\ phase' = IF last THEN "done" ELSE phase
  /\ left' = product /\ product' = NoRows
  /\ hops' = hops + 1 /\ row' = 1
  /\ UNCHANGED <<rules, link, tris>>

Next == GenTris \/ GenMatrix \/ NoMatrix \/ MultiplyRow \/ NextProduct

Spec == Init /\ [][Next]_vars

-----------------------------------------------------------------------------
(* Properties.                                                             *)

\* What the rewriting of a rule or of a pair makes of one header.
Apply(x, h) ==
  IF x.mask = NULL THEN h ELSE (h \intersect x.mask) \union (x.rewrite \ x.mask)

\* Header h of rule r is taken by rule c at the end of link l: c is the first of
\* the receiving rules that match what r makes of h.
Goes(h, r, c, l) ==
  LET matching == {d \in Rules : l \in rules[d].in_link /\ Apply(rules[r], h) \in OutMf(rules[d])}
  IN /\ h \in OutMf(rules[r]) /\ l \in rules[r].out_link
     /\ c \in matching /\ \A d \in matching : c <= d

\* The rules that pass headers to each other, and a link for each two.
Ways ==
  LET links(p) == {l \in Links : \E h \in Headers : Goes(h, p[1], p[2], l)}
      joined == {p \in Rules \X Rules : links(p) # {}}
  IN Selections(joined, links)

\* The trips of single headers over n of the links f that no rule sees twice: the
\* rules on the path, the header at the first of them and at the last.
Trips(f, n) ==
  LET onwards(t) == {p \in DOMAIN f : /\ p[1] = Last(t.path) /\ p[2] \notin Range(t.path)
                                     /\ Goes(t.now, p[1], p[2], f[p])}
      of[k \in 0 .. n] ==
        IF k = 0 THEN UNION {{[path |-> <<r>>, entered |-> h, now |-> h] : h \in OutMf(rules[r])}
                             : r \in Rules}
        ELSE UNION {{[t EXCEPT !.path = Append(@, p[2]), !.now = Apply(rules[p[1]], @)] : p \in onwards(t)}
                    : t \in of[k - 1]}
  IN of[n]

\* The elements of the rows R of matrix m are the paths of n links, each once,
\* with the headers that enter it, as what they arrive and what rewrites them.
PathsOf(m, R, n, f) ==
  LET trips == Trips(f, n)
  IN \A r \in R :
       LET from == {t \in trips : t.path[1] = r}
       IN /\ DOMAIN m[r] = {t.path[n + 1] : t \in from}
          /\ \A c \in DOMAIN m[r] :
               LET e == m[r][c]
                   to == {t \in from : t.path[n + 1] = c}
               IN /\ Len(e.pairs) = Cardinality({t.path : t \in to})
                  /\ {t.path : t \in to} = {q.path : q \in Range(e.pairs)}
                  /\ \A q \in Range(e.pairs) :
                       LET by == {t \in to : t.path = q.path}
                       IN /\ q.in = {t.entered : t \in by}
                          /\ q.out = {t.now : t \in by}
                          /\ \A t \in by : t.now = Apply(q, t.entered)
                  /\ e.in = {t.entered : t \in to}
                  /\ e.out = {t.now : t \in to}

\* The matrix and every product of it hold exactly the paths that headers can
\* take, rule by rule and first match first: for one choice of a link between
\* any two rules, as the matrix keeps the headers of one link only where two
\* rules are joined by several (gen_sparse_matrix, sparse_matrix_multiply).
PathsExact ==
  phase = "multiply" =>
    \E f \in Ways :
      /\ PathsOf(matrix, Rules, 1, f)
      /\ PathsOf(left, Rules, hops, f)
      /\ PathsOf(product, 1 .. row - 1, hops + 1, f)

\* The references of every BDD are those of the elements and pairs in use: no
\* collection takes a BDD a matrix still names, and none is kept that no matrix
\* names (matrix_elem_plus, gen_matrix_CSR_from_Tris, free_matrix_CSR in main).
RefsExact ==
  LET elements(m, b) ==
        FoldSet(LAMBDA r, c : FoldSet(LAMBDA k, d : AddElement(d, m[r][k]), c, DOMAIN m[r]),
                b, Rules)
      ofTris == FoldLeft(LAMBDA b, t : AddElement(b, t.elem), EmptyBag, tris)
      ofLeft == IF hops = 1 THEN ofTris ELSE elements(left, ofTris)
  IN refs = elements(product, elements(matrix, ofLeft))

=============================================================================
