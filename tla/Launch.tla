-------------------------------- MODULE Launch --------------------------------
(***************************************************************************)
(* The kernels of crates/moearc-kernels, each as one launch: what its work *)
(* items write, [by, at, val], and what they read, <<buffer, place>>.  The *)
(* items of a launch run in any order and at once, so a launch says        *)
(* something only if no place is written twice.                            *)
(*                                                                         *)
(* A value is not a float but where it comes from: a sum is the bag of its *)
(* terms, a product the places of its factors, a weight of the softmax the *)
(* exponent of two that it is.  A buffer is counted in elements, a matrix  *)
(* in blocks.                                                              *)
(*                                                                         *)
(* A kernel has three descriptions: the launch (kernels.cpp), its twin on  *)
(* the CPU (reference.rs), and what the wrapper (lib.rs) refuses and       *)
(* requires of the buffers.  The arguments of a call are the fields of s.  *)
(***************************************************************************)
EXTENDS Integers, FiniteSets, SequencesExt

CONSTANTS
  WG,                \* lanes of a sub-group: 32
  MATVEC_ROWS,       \* rows of a work-group: 8
  UnitElems,         \* elements of a unit: 32
  MAX_TOPK, MAX_BATCHED_MATS, MaxHeadDim,      \* 32, 32, 1024
  ClampBits          \* a sum of weights is clamped to 2^-ClampBits: 14

Below(n) == 0 .. n - 1
NegMax == -99                   \* -FLT_MAX, below every score
CeilDiv(a, b) == (a + b - 1) \div b

\* for (i = lane; i < n; i += WG)
Strided(lane, n) == {lane + WG * step : step \in 0 .. n} \cap Below(n)

\* What terms, pairs of who adds and what, sum up to.
Sum(terms) == {<<t[2], Cardinality({u \in terms : u[2] = t[2]})>> : t \in terms}

\* The largest and the smallest of a set of numbers.
Largest(S) == CHOOSE x \in S : \A y \in S : y <= x
Smallest(S) == CHOOSE x \in S : \A y \in S : x <= y

-----------------------------------------------------------------------------
(* Matrix times vector.  Every matrix has n_rows rows of whole blocks; a   *)
(* product is <<matrix, block, element of the block, place in x>>.         *)
BlockElemsOf(s) == s.upb * UnitElems
RowBlocks(s) == s.n_cols \div BlockElemsOf(s)

\* unit_acc at unit u of a row that begins at block first, against x from x0 on.
UnitProducts(mat, first, u, x0, s) ==
  {<<mat, first + (u \div s.upb), (u % s.upb) * UnitElems + l, x0 + u * UnitElems + l>> :
     l \in Below(UnitElems)}
LaneProducts(mat, first, x0, s) ==
  UNION {UNION {{lane} \X UnitProducts(mat, first, u, x0, s) :
                  u \in Strided(lane, RowBlocks(s) * s.upb)} : lane \in Below(WG)}
ReadsOf(products) ==
  UNION {{<<"w", p[2][2]>>, <<"x", p[2][4]>>} : p \in products}

\* The matrix and the first row of work-group g.
GroupRow(g, per_mat) ==
  [mat |-> g \div per_mat, first |-> (g - (g \div per_mat) * per_mat) * MATVEC_ROWS]

\* A tail group's rows past the end read row 0 and write nothing.
BatchedLaunch(s) ==
  LET per_mat == CeilDiv(s.n_rows, MATVEC_ROWS)
      rows == {[mat |-> GroupRow(g, per_mat).mat, row |-> GroupRow(g, per_mat).first + sg] :
                 g \in Below(per_mat * s.n_mat), sg \in Below(MATVEC_ROWS)}
      products == [r \in rows |->
        LaneProducts(r.mat, (IF r.row < s.n_rows THEN r.row ELSE 0) * RowBlocks(s),
                     r.mat * s.x_stride, s)]
  IN [writes |-> {[by |-> r, at |-> r.mat * s.n_rows + r.row, val |-> Sum(products[r])] :
                    r \in {q \in rows : q.row < s.n_rows}},
      reads |-> UNION {ReadsOf(products[r]) : r \in rows}]

\* f32 and f16: a work-group per row, an element per step; batched, a launch per matrix.
GenericLaunch(s) ==
  LET rows == {[mat |-> m, row |-> r] : m \in Below(s.n_mat), r \in Below(s.n_rows)}
      products == [r \in rows |->
        {<<li[1], <<r.mat, r.row * s.n_cols + li[2], 0, r.mat * s.x_stride + li[2]>>>> :
           li \in {q \in Below(WG) \X Below(s.n_cols) : q[2] \in Strided(q[1], s.n_cols)}}]
  IN [writes |-> {[by |-> r, at |-> r.mat * s.n_rows + r.row, val |-> Sum(products[r])] :
                    r \in rows},
      reads |-> UNION {ReadsOf(products[r]) : r \in rows}]

\* The reference expands a row and multiplies it, column by column.
MatvecTwin(s) ==
  LET be == IF s.generic THEN 1 ELSE BlockElemsOf(s)
      nb == s.n_cols \div be
  IN {<<m * s.n_rows + r,
        Sum({<<0, <<m, r * nb + (c \div be), c % be, m * s.x_stride + c>>>> :
               c \in Below(s.n_cols)})>> : m \in Below(s.n_mat), r \in Below(s.n_rows)}
MatvecRefuses(s) ==
  (~s.generic /\ s.n_cols % BlockElemsOf(s) # 0) \/ s.n_mat > MAX_BATCHED_MATS
MatvecRequires(s) ==
  {<<"w", s.n_rows * IF s.generic THEN s.n_cols ELSE RowBlocks(s)>>,    \* each of them
   <<"x", IF s.x_stride = 0 THEN s.n_cols ELSE (s.n_mat - 1) * s.x_stride + s.n_cols>>,
   <<"out", s.n_mat * s.n_rows>>}

-----------------------------------------------------------------------------
(* The expert bank's other launches.                                       *)

\* out[m * n_rows + r] += bias[idx[m] * n_rows + r], in place.
BiasLaunch(s) ==
  LET items == Below(Len(s.idx) * s.n_rows)
      From(g) == s.idx[(g \div s.n_rows) + 1] * s.n_rows + (g - (g \div s.n_rows) * s.n_rows)
  IN [writes |-> {[by |-> g, at |-> g, val |-> <<g, From(g)>>] : g \in items},
      reads |-> UNION {{<<"out", g>>, <<"bias", From(g)>>} : g \in items}]
BiasTwin(s) ==
  {<<(m - 1) * s.n_rows + r, <<(m - 1) * s.n_rows + r, s.idx[m] * s.n_rows + r>>>> :
     m \in DOMAIN s.idx, r \in Below(s.n_rows)}
BiasRequires(s) ==
  {<<"out", Len(s.idx) * s.n_rows>>,
   <<"bias", IF s.idx = <<>> THEN 0 ELSE (Largest(Range(s.idx)) + 1) * s.n_rows>>}

\* The combine: out[i] is the sum over m, ascending, of weights[m] * parts[m * n + i].
CombineLaunch(s) ==
  [writes |-> {[by |-> i, at |-> i, val |-> [m \in 1 .. s.n_mat |-> <<m - 1, (m - 1) * s.n + i>>]] :
                 i \in Below(s.n)},
   reads |-> UNION {{<<"weights", m>>, <<"parts", m * s.n + i>>} :
                      m \in Below(s.n_mat), i \in Below(s.n)}]
\* A zero and an axpy for each of the parts, which the one launch replaces.
CombineTwin(s) ==
  {<<i, FoldLeft(LAMBDA acc, m : Append(acc, <<m - 1, (m - 1) * s.n + i>>), <<>>,
                 [m \in 1 .. s.n_mat |-> m])>> : i \in Below(s.n)}
CombineRequires(s) ==
  {<<"out", s.n>>, <<"weights", s.n_mat>>, <<"parts", s.n_mat * s.n>>}

\* The activation of a gate and an up half that one launch laid end to end.
HalvesLaunch(s) ==
  [writes |-> {[by |-> i, at |-> i, val |-> <<i, s.n + i>>] : i \in Below(s.n)},
   reads |-> {<<"gu", i>> : i \in Below(2 * s.n)}]
HalvesTwin(s) == {<<i, <<i, s.n + i>>>> : i \in Below(s.n)}
HalvesRequires(s) == {<<"out", s.n>>, <<"gu", 2 * s.n>>}

\* Rows of an embedding table: <<block of the table, element>>.
EmbedLaunch(s) ==
  LET be == BlockElemsOf(s)  row_blocks == s.n_cols \div be
      From(g) == <<s.idx[(g \div s.n_cols) + 1] * row_blocks + ((g % s.n_cols) \div be),
                   (g % s.n_cols) % be>>
      items == Below(Len(s.idx) * s.n_cols)
  IN [writes |-> {[by |-> g, at |-> g, val |-> From(g)] : g \in items},
      reads |-> {<<"table", From(g)[1]>> : g \in items}]
EmbedTwin(s) ==
  LET be == BlockElemsOf(s)
      Expand(row) == FlattenSeq([b \in 1 .. s.n_cols \div be |->
        [e \in 1 .. be |-> <<row * (s.n_cols \div be) + b - 1, e - 1>>]])
      all == FlattenSeq([t \in DOMAIN s.idx |-> Expand(s.idx[t])])
  IN {<<i - 1, all[i]>> : i \in DOMAIN all}
EmbedRefuses(s) == s.n_cols % BlockElemsOf(s) # 0

\* A pool's slots, gathered into one buffer as words of four bytes.
GatherLaunch(s) ==
  LET words == s.slot_bytes \div 4
      items == Below(Len(s.idx)) \X Below(words) \X Below(4)
      Byte(slot, t) == 4 * (slot * words + t[2]) + t[3]
  IN [writes |-> {[by |-> t, at |-> Byte(t[1], t), val |-> Byte(s.idx[t[1] + 1], t)] : t \in items},
      reads |-> {<<"pool", Byte(s.idx[t[1] + 1], t)>> : t \in items}]
GatherTwin(s) ==
  {<<slot * s.slot_bytes + b, s.idx[slot + 1] * s.slot_bytes + b>> :
     slot \in Below(Len(s.idx)), b \in Below(s.slot_bytes)}
GatherRefuses(s) == s.slot_bytes % 4 # 0

\* Blocks expanded to f32, an element by each item.
ExpandLaunch(s) ==
  LET be == BlockElemsOf(s)  items == Below(s.nblocks * be)
  IN [writes |-> {[by |-> g, at |-> g, val |-> <<g \div be, g % be>>] : g \in items},
      reads |-> {<<"src", g \div be>> : g \in items}]
ExpandTwin(s) ==
  LET be == BlockElemsOf(s)
      all == FlattenSeq([b \in 1 .. s.nblocks |-> [e \in 1 .. be |-> <<b - 1, e - 1>>]])
  IN {<<i - 1, all[i]>> : i \in DOMAIN all}
ExpandRequires(s) == {<<"src", s.nblocks>>, <<"out", s.nblocks * BlockElemsOf(s)>>}

-----------------------------------------------------------------------------
(* Rows.                                                                   *)

\* norm_wg: a long row takes more lanes.
NormWg(n_cols) == IF n_cols >= 32 * WG THEN 8 * WG ELSE IF n_cols >= 8 * WG THEN 2 * WG ELSE WG
\* rmsnorm: a work-group per row adds up its columns by lanes, and then each lane scales its own.
NormLaunch(s) ==
  LET width == NormWg(s.n_cols)
      Of(lane) == {lane + width * step : step \in 0 .. s.n_cols \div width} \cap Below(s.n_cols)
      RowSum(row) == Sum(UNION {{lane} \X {row * s.n_cols + i : i \in Of(lane)} : lane \in Below(width)})
      items == Below(s.n_rows) \X UNION {{lane} \X Of(lane) : lane \in Below(width)}
  IN [writes |-> UNION {LET sum == RowSum(row) IN
                   {[by |-> t, at |-> row * s.n_cols + t[2][2],
                     val |-> <<row * s.n_cols + t[2][2], sum, t[2][2]>>] :
                      t \in {u \in items : u[1] = row}} : row \in Below(s.n_rows)},
      reads |-> {<<"x", t[1] * s.n_cols + t[2][2]>> : t \in items}
                  \cup {<<"weight", t[2][2]>> : t \in items}]
NormTwin(s) ==
  UNION {LET sum == Sum({<<0, r * s.n_cols + i>> : i \in Below(s.n_cols)}) IN
    {<<r * s.n_cols + c, <<r * s.n_cols + c, sum, c>>>> : c \in Below(s.n_cols)} :
      r \in Below(s.n_rows)}
NormRequires(s) ==
  {<<"out", s.n_rows * s.n_cols>>, <<"x", s.n_rows * s.n_cols>>, <<"weight", s.n_cols>>}

\* softmax of x * scale + mask: the exponent of column i of a row is s.scores[i], and the
\* places in masked, of all the rows, are those the mask makes -infinity.
Place(s, row, i) == row * s.n_cols + i
SeenIn(s, row) == {i \in Below(s.n_cols) : Place(s, row, i) \notin s.masked}
\* The value of a place: its weight over the bag of the row's; a masked one has no weight.
Softened(s, row, i, mx, sum) ==
  IF i \notin SeenIn(s, row) THEN <<>> ELSE <<s.scores[i] - mx, sum>>
SoftmaxLaunch(s) ==
  LET items == Below(s.n_rows) \X {li \in Below(WG) \X Below(s.n_cols) : li[2] \in Strided(li[1], s.n_cols)}
      Highest(row) == Largest({NegMax} \cup {s.scores[i] : i \in SeenIn(s, row)})
      RowSum(row) == Sum({<<t[2][1], <<t[2][2], s.scores[t[2][2]] - Highest(row)>>>> :
                            t \in {u \in items : u[1] = row /\ u[2][2] \in SeenIn(s, row)}})
  IN [writes |-> {[by |-> t, at |-> Place(s, t[1], t[2][2]),
                   val |-> Softened(s, t[1], t[2][2], Highest(t[1]), RowSum(t[1]))] : t \in items},
      reads |-> UNION {{<<"x", Place(s, t[1], t[2][2])>>, <<"mask", Place(s, t[1], t[2][2])>>} : t \in items}]
\* A row of which nothing is seen is no number: -infinity less itself.
SoftmaxTwin(s) ==
  UNION {LET seen == SeenIn(s, row)
             mx == Largest({s.scores[i] : i \in seen})
             sum == Sum({<<0, <<i, s.scores[i] - mx>>>> : i \in seen})
         IN {<<Place(s, row, i), IF seen = {} THEN <<"nan">> ELSE Softened(s, row, i, mx, sum)>> :
               i \in Below(s.n_cols)} : row \in Below(s.n_rows)}
SoftmaxRequires(s) == {<<b, s.n_rows * s.n_cols>> : b \in {"x", "mask", "out"}}
\* The queries are the last n_rows of the n_cols keys.
CausalMask(n_rows, n_cols) ==
  {t[1] * n_cols + t[2] : t \in {u \in Below(n_rows) \X Below(n_cols) : u[2] > n_cols - n_rows + u[1]}}

\* rope of heads of head_dim channels, the first n_dims of which turn in pairs: which of the
\* pair, the pair, and the step of its angle.
RopeLaunch(s) ==
  LET half == s.n_dims \div 2
      Turned(base, d) ==
        LET is_lo == IF s.neox THEN d < half ELSE d % 2 = 0
            lo == IF is_lo THEN d ELSE d - (IF s.neox THEN half ELSE 1)
            hi == lo + (IF s.neox THEN half ELSE 1)
            i0 == IF s.neox THEN 2 * lo ELSE lo
        IN <<is_lo, base + lo, base + hi, i0 \div 2>>
      Written(g) ==
        LET d == g % s.head_dim  base == (g \div s.head_dim) * s.head_dim
        IN IF d >= s.n_dims THEN <<g>> ELSE Turned(base, d)
      items == Below(s.n_heads * s.head_dim)
  IN [writes |-> {[by |-> g, at |-> g, val |-> Written(g)] : g \in items},
      reads |-> {<<"src", g>> : g \in items}]
RopeTwin(s) ==
  LET pairs == Below(s.n_heads) \X Below(s.n_dims \div 2)
      Lo(p) == p[1] * s.head_dim + IF s.neox THEN p[2] ELSE 2 * p[2]
      Hi(p) == p[1] * s.head_dim + IF s.neox THEN p[2] + (s.n_dims \div 2) ELSE 2 * p[2] + 1
      turned == {<<Lo(p), <<TRUE, Lo(p), Hi(p), p[2]>>>> : p \in pairs}
                  \cup {<<Hi(p), <<FALSE, Lo(p), Hi(p), p[2]>>>> : p \in pairs}
  IN turned \cup {<<i, <<i>>>> : i \in Below(s.n_heads * s.head_dim) \ {t[1] : t \in turned}}
RopeRefuses(s) == s.n_dims = 0 \/ s.n_dims % 2 # 0 \/ s.n_dims > s.head_dim
RopeRequires(s) == {<<"out", s.n_heads * s.head_dim>>, <<"src", s.n_heads * s.head_dim>>}

-----------------------------------------------------------------------------
(* The router: s.logits[j] is the logit of expert j, a power of two.       *)

\* One round: each lane offers the best of its experts not yet taken, the lowest on a tie,
\* and the group takes the lowest of the best offers.
Offer(logits, lane, taken) ==
  LET own == Strided(lane, Cardinality(DOMAIN logits)) \ taken
  IN {j \in own : \A i \in own : logits[i] < logits[j] \/ (logits[i] = logits[j] /\ j <= i)}
Pick(logits, taken) ==
  LET offers == UNION {Offer(logits, lane, taken) : lane \in Below(WG)}
      gmax == Largest({logits[j] : j \in offers})
  IN Smallest({j \in offers : logits[j] = gmax})
Rounds(s) ==
  FoldLeft(LAMBDA sel, r : Append(sel, Pick(s.logits, Range(sel))), <<>>, [r \in 1 .. s.k |-> r])

Exps(logits, S) == MapThenSumSet(LAMBDA j : 2 ^ logits[j], S)
\* Of the denominators, with the numerator 2^logit.
Weighted(s, sel, r) ==
  LET w == 2 ^ s.logits[sel[r]]
      all == Exps(s.logits, DOMAIN s.logits)
      chosen == Exps(s.logits, Range(sel))
  IN CASE s.gating = "softmax" -> <<w, all>>
       [] s.gating = "after_topk" -> <<w, chosen>>
       [] s.gating = "normalised" ->
            <<w * 2 ^ ClampBits, Largest({chosen * 2 ^ ClampBits, all})>>
TopkLaunch(s) ==
  LET sel == Rounds(s)
  IN [writes |-> {[by |-> r, at |-> r - 1, val |-> <<sel[r], Weighted(s, sel, r)>>] : r \in 1 .. s.k},
      reads |-> {<<"logits", j>> : j \in DOMAIN s.logits}]
\* A stable sort, largest first.
TopkTwin(s) ==
  LET order == SetToSortSeq(DOMAIN s.logits, LAMBDA i, j :
                 s.logits[i] > s.logits[j] \/ (s.logits[i] = s.logits[j] /\ i < j))
      sel == SubSeq(order, 1, s.k)
  IN {<<r - 1, <<sel[r], Weighted(s, sel, r)>>>> : r \in 1 .. s.k}
TopkRefuses(s) == s.k = 0 \/ s.k > MAX_TOPK \/ s.k > Cardinality(DOMAIN s.logits)
TopkRequires(s) == {<<"logits", Cardinality(DOMAIN s.logits)>>, <<"out", s.k>>}

-----------------------------------------------------------------------------
(* The paged cache and the attention over it.                              *)

KvIndex(s, page, slot, head, d) ==
  ((page * s.page_tokens + slot) * s.n_kv_heads + head) * s.head_dim + d
AppendLaunch(s, page, slot) ==
  LET n == s.n_kv_heads * s.head_dim  base == (page * s.page_tokens + slot) * n
  IN [writes |-> {[by |-> i, at |-> base + i, val |-> i] : i \in Below(n)},
      reads |-> {<<"k", i>> : i \in Below(n)}]
AppendTwin(s, page, slot) ==
  {<<KvIndex(s, page, slot, h, d), h * s.head_dim + d>> :
     h \in Below(s.n_kv_heads), d \in Below(s.head_dim)}

\* (A mutant keeps what it has added up as it is when the maximum moves.)
FoldKeyUnscaled(state, j, score) ==
  LET m_new == Largest({state.m, score})
  IN [m |-> m_new, keys |-> state.keys \cup {<<j, score - m_new>>}]
\* One step of the online softmax: what has been added up is rescaled to the new maximum.
\* keys holds, for each key (and the sink, -1), the exponent of the weight it has so far.
FoldKey(state, j, score) ==
  LET m_new == Largest({state.m, score})
  IN [m |-> m_new,
      keys |-> {<<e[1], e[2] + (state.m - m_new)>> : e \in state.keys} \cup {<<j, score - m_new>>}]
Online(s) ==
  FoldLeft(LAMBDA state, j : FoldKey(state, j, s.scores[j]),
           IF s.sink = NegMax THEN [m |-> NegMax, keys |-> {}]
           ELSE [m |-> s.sink, keys |-> {<<-1, 0>>}],
           [j \in 1 .. s.n_kv - s.kv_begin |-> s.kv_begin + j - 1]).keys
\* The place of key j's channel d of the head's group.
KeyPlace(s, h, d, j) ==
  LET page == s.table[(j \div s.page_tokens) + 1]
      slot == j % s.page_tokens
      kvh == h \div (s.n_heads \div s.n_kv_heads)
  IN (page * s.page_tokens + slot) * (s.n_kv_heads * s.head_dim) + kvh * s.head_dim + d
AttnLaunch(s) ==
  LET items == Below(s.n_heads) \X Below(s.head_dim)
      weights == Online(s)
      Attended(p) == {<<e[2], IF e[1] = -1 THEN -1 ELSE KeyPlace(s, p[1], p[2], e[1])>> : e \in weights}
  IN [writes |-> {[by |-> p, at |-> p[1] * s.head_dim + p[2], val |-> Attended(p)] : p \in items},
      reads |-> {<<"q", p[1] * s.head_dim + p[2]>> : p \in items}
                  \cup {<<"table", j \div s.page_tokens>> : j \in s.kv_begin .. s.n_kv - 1}]
\* All scores, their maximum, then the exponents; a sink is one more score without a value.
AttnTwin(s) ==
  LET keys == s.kv_begin .. s.n_kv - 1
      mx == Largest({s.scores[j] : j \in keys} \cup {s.sink})
      Places(h, d) == {<<s.scores[j] - mx,
        KvIndex(s, s.table[(j \div s.page_tokens) + 1], j % s.page_tokens,
                h \div (s.n_heads \div s.n_kv_heads), d)>> : j \in keys}
      sink == IF s.sink = NegMax THEN {} ELSE {<<s.sink - mx, -1>>}
  IN {<<h * s.head_dim + d, Places(h, d) \cup sink>> : h \in Below(s.n_heads), d \in Below(s.head_dim)}
AttnRefuses(s) ==
  \/ s.n_kv_heads = 0 \/ s.n_heads % s.n_kv_heads # 0 \/ s.kv_begin >= s.n_kv
  \/ s.head_dim > MaxHeadDim
AttnRequires(s) ==
  {<<"q", s.n_heads * s.head_dim>>, <<"out", s.n_heads * s.head_dim>>,
   <<"table", CeilDiv(s.n_kv, s.page_tokens)>>}

-----------------------------------------------------------------------------
(* A launch writes every place of its result once, with the twin's value,  *)
(* and touches no element the wrapper did not require the buffer to have.  *)
Once(launch) == Cardinality({w.at : w \in launch.writes}) = Cardinality(launch.writes)
Within(launch, requires) ==
  /\ \A r \in launch.reads : \E q \in requires : q[1] = r[1] /\ r[2] \in Below(q[2])
  /\ \A w \in launch.writes : \E q \in requires : q[1] = "out" /\ w.at \in Below(q[2])
Sound(launch, twin, requires) ==
  /\ Once(launch) /\ Within(launch, requires)
  /\ {<<w.at, w.val>> : w \in launch.writes} = twin

MatvecSound(s) ==
  \/ MatvecRefuses(s)
  \/ Sound(IF s.generic THEN GenericLaunch(s) ELSE BatchedLaunch(s), MatvecTwin(s), MatvecRequires(s))
\* The wrapper of gather_experts does not look at its buffers: a packed slot is whole, and the
\* bytes are that slot's.
GatherSound(s) ==
  \/ GatherRefuses(s)
  \/ Sound(GatherLaunch(s), GatherTwin(s),
           {<<"out", Len(s.idx) * s.slot_bytes>>,
            <<"pool", (Largest(Range(s.idx)) + 1) * s.slot_bytes>>})
\* A softmax agrees with its twin wherever the row has something to see, and a causal mask
\* leaves every query a key.  Of a row without, nothing is said of the value.
SoftmaxSound(s) ==
  LET launch == SoftmaxLaunch(s)
      sighted == {row \in Below(s.n_rows) : SeenIn(s, row) # {}}
      places == {Place(s, row, i) : row \in sighted, i \in Below(s.n_cols)}
  IN /\ Once(launch) /\ Within(launch, SoftmaxRequires(s))
     /\ {<<w.at, w.val>> : w \in {w \in launch.writes : w.at \in places}}
          = {t \in SoftmaxTwin(s) : t[1] \in places}
     /\ s.masked = CausalMask(s.n_rows, s.n_cols) => sighted = Below(s.n_rows)
BankSound(s) ==
  CASE s.kernel = "bias" -> Sound(BiasLaunch(s), BiasTwin(s), BiasRequires(s))
    [] s.kernel = "combine" -> Sound(CombineLaunch(s), CombineTwin(s), CombineRequires(s))
    [] s.kernel = "halves" -> Sound(HalvesLaunch(s), HalvesTwin(s), HalvesRequires(s))
    [] s.kernel = "rmsnorm" -> Sound(NormLaunch(s), NormTwin(s), NormRequires(s))
    [] s.kernel = "expand" -> Sound(ExpandLaunch(s), ExpandTwin(s), ExpandRequires(s))
    [] s.kernel = "gather" -> GatherSound(s)
    [] s.kernel = "softmax" -> SoftmaxSound(s)
\* The wrapper does not look at the table: every id is below the vocabulary, decode sees to it.
EmbedSound(s) ==
  \/ EmbedRefuses(s)
  \/ Sound(EmbedLaunch(s), EmbedTwin(s),
           {<<"out", Len(s.idx) * s.n_cols>>,
            <<"table", s.vocab * (s.n_cols \div BlockElemsOf(s))>>})
RopeSound(s) == RopeRefuses(s) \/ Sound(RopeLaunch(s), RopeTwin(s), RopeRequires(s))

\* The router names k different experts.  Their weights, with one denominator for all, sum to
\* one when the softmax is taken of them only or normalised, unless the sum was clamped; and
\* otherwise to no more (reference.rs:518-531).
TopkSound(s) ==
  \/ TopkRefuses(s)
  \/ /\ Sound(TopkLaunch(s), TopkTwin(s), TopkRequires(s))
     /\ LET sel == Rounds(s)
            total == MapThenSumSet(LAMBDA r : Weighted(s, sel, r)[1], 1 .. s.k)
            clamped == /\ s.gating = "normalised"
                       /\ Exps(s.logits, Range(sel)) * 2 ^ ClampBits < Exps(s.logits, DOMAIN s.logits)
        IN /\ Cardinality(Range(sel)) = s.k
           /\ \A r \in 1 .. s.k :
                IF s.gating = "softmax" \/ clamped THEN total <= Weighted(s, sel, r)[2]
                ELSE total = Weighted(s, sel, r)[2]

\* Attention is that of the twin, and a head reads of key j what was appended as token j: the
\* elements of its own group's key.
AttnSound(s) ==
  \/ AttnRefuses(s)
  \/ /\ Sound(AttnLaunch(s), AttnTwin(s), AttnRequires(s))
     /\ \A j \in s.kv_begin .. s.n_kv - 1 :
          LET page == s.table[(j \div s.page_tokens) + 1]
              appended == AppendLaunch(s, page, j % s.page_tokens)
          IN /\ {<<w.at, w.val>> : w \in appended.writes} = AppendTwin(s, page, j % s.page_tokens)
             /\ \A h \in Below(s.n_heads), d \in Below(s.head_dim) : \E w \in appended.writes :
                  /\ w.at = KeyPlace(s, h, d, j)
                  /\ w.val = (h \div (s.n_heads \div s.n_kv_heads)) * s.head_dim + d
     /\ \A i, j \in s.kv_begin .. s.n_kv - 1, h \in Below(s.n_heads), d \in Below(s.head_dim) :
          i # j => KeyPlace(s, h, d, i) # KeyPlace(s, h, d, j)
=============================================================================
