--------------------------------- MODULE Gguf ---------------------------------
(***************************************************************************)
(* A model file as crates/moearc-model reads it: the index and its checks  *)
(* (gguf.rs), views of tensors and slices of them (tensors.rs), and the    *)
(* sizes the planners are given (lib.rs).  A file is                       *)
(*   [version, head, size, align, arch, rope, keys, tensors]               *)
(* where head is the number of bytes before the data, keys a function from *)
(* the numeric keys it has to [array, of], and tensors a sequence of       *)
(* [block, name, dims, type, offset].  Sums and products of a file's       *)
(* numbers saturate, as the code's do.  The text of names is left out.     *)
(***************************************************************************)
EXTENDS Integers, FiniteSetsExt, SequencesExt

CONSTANTS
  MaxU,    \* u64::MAX
  Quants   \* type -> [elems, bytes], the geometry of one of its blocks

Global == -1   \* the block of a tensor whose name is not blk.<n>.<name>
MaxDims == 4
Banks == {"ffn_gate_exps", "ffn_up_exps", "ffn_down_exps"}
KvTensors == {"attn_k", "attn_v", "attn_k_b", "attn_v_b"}

Saturated(n) == IF n > MaxU THEN MaxU ELSE n
Plus(a, b) == Saturated(a + b)
Times(a, b) == Saturated(a * b)
DivUp(a, b) == (a + b - 1) \div b
PadTo(n, align) == Times(DivUp(n, align), align)

-----------------------------------------------------------------------------
(* The index.                                                              *)
Elements(dims) ==
  LET product[i \in 0 .. Len(dims)] == IF i = 0 THEN 1 ELSE Times(product[i - 1], dims[i])
  IN product[Len(dims)]
Known(t) == t.type \in DOMAIN Quants
Whole(t) == Elements(t.dims) % Quants[t.type].elems = 0
Bytes(t) == Times(Elements(t.dims) \div Quants[t.type].elems, Quants[t.type].bytes)

DataOffset(f) == PadTo(f.head, f.align)
Start(f, t) == Plus(DataOffset(f), t.offset)
Fits(f, t) == Plus(Start(f, t), PadTo(Bytes(t), f.align)) <= f.size

\* gguf::read: the header of f is accepted.
Reads(f) ==
  /\ f.version \in 2 .. 3 /\ f.head <= f.size
  /\ f.align # 0 /\ \E k \in 0 .. 30 : f.align = 2^k
  /\ \A i \in DOMAIN f.tensors :
       LET t == f.tensors[i]
       IN Len(t.dims) <= MaxDims /\ Known(t) /\ Whole(t) /\ Fits(f, t)

IsNumber(h, k) == k \in DOMAIN h.keys /\ ~h.keys[k].array
Number(h, k) == h.keys[k].of[1]
NumberOr(h, k, default) == IF IsNumber(h, k) THEN Number(h, k) ELSE default

\* A number, or an array that says one number for every layer.
Agrees(h, k) ==
  /\ k \in DOMAIN h.keys /\ h.keys[k].of # <<>>
  /\ \A i \in DOMAIN h.keys[k].of : h.keys[k].of[i] = h.keys[k].of[1]
AgreedOr(h, k, default) == IF k \in DOMAIN h.keys THEN h.keys[k].of[1] ELSE default

-----------------------------------------------------------------------------
(* Views.  Of two tensors with one name the first is found.                *)
Named(h, block, name) ==
  {i \in DOMAIN h.tensors : h.tensors[i].block = block /\ h.tensors[i].name = name}
Has(h, block, name) == Named(h, block, name) # {}
Tensor(h, block, name) == h.tensors[Min(Named(h, block, name))]

\* A view is [type, dims, start, len]; start is the offset in the file.
View(h, block, name) ==
  LET t == Tensor(h, block, name)
  IN [type |-> t.type, dims |-> t.dims, start |-> Start(h, t), len |-> Bytes(t)]

\* One index of the slowest dimension.
SliceBytes(v) ==
  (Elements(Front(v.dims)) \div Quants[v.type].elems) * Quants[v.type].bytes
Slices(v, index) ==
  /\ Len(v.dims) >= 2 /\ index < Last(v.dims)
  /\ Elements(Front(v.dims)) % Quants[v.type].elems = 0
  /\ Times(SliceBytes(v), Last(v.dims)) = v.len
\* (A mutant counts elements where the file has bytes.)
SliceByElements(v, index) ==
  [type |-> v.type, dims |-> Front(v.dims), start |-> v.start + Elements(Front(v.dims)) * index,
   len |-> SliceBytes(v)]
Slice(v, index) ==
  [type |-> v.type, dims |-> Front(v.dims), start |-> v.start + SliceBytes(v) * index,
   len |-> SliceBytes(v)]

\* One expert's matrix; the bank must stack as many as the model declares.
HasExpert(h, block, bank, e) ==
  /\ Has(h, block, bank)
  /\ LET v == View(h, block, bank) IN
       /\ IsNumber(h, "expert_count") =>
            v.dims # <<>> /\ Last(v.dims) = Number(h, "expert_count")
       /\ Slices(v, e)
Expert(h, block, bank, e) == Slice(View(h, block, bank), e)

-----------------------------------------------------------------------------
(* ModelInfo, and the footprint both planners make of it.  Weights no bank *)
(* holds are dense.                                                        *)
BytesOf(h, indices) == MapThenSumSet(LAMBDA i : Bytes(h.tensors[i]), indices)
BankTensors(h) ==
  {i \in DOMAIN h.tensors : h.tensors[i].block # Global /\ h.tensors[i].name \in Banks}
BlocksWith(h, names) ==
  {h.tensors[i].block :
     i \in {j \in DOMAIN h.tensors : h.tensors[j].name \in names}} \ {Global}
MoeBlocks(h) == BlocksWith(h, Banks)
BlockBytes(h, b) == BytesOf(h, {i \in BankTensors(h) : h.tensors[i].block = b})

\* The largest expert of any block, or, in a mutant, the smallest.
ExpertSizes(h) == {BlockBytes(h, b) \div Number(h, "expert_count") : b \in MoeBlocks(h)}
SmallestExpert(h) == Min(ExpertSizes(h))
PerExpert(h) == Max(ExpertSizes(h))

KvLayers(h) ==
  IF BlocksWith(h, KvTensors) = {} THEN Number(h, "block_count")
  ELSE Cardinality(BlocksWith(h, KvTensors))
Quotient(h) ==
  IF AgreedOr(h, "head_count", 0) = 0 THEN 0
  ELSE Number(h, "embedding_length") \div AgreedOr(h, "head_count", 0)
KvPerToken(h) ==
  KvLayers(h) * AgreedOr(h, "head_count_kv", 0)
    * (AgreedOr(h, "key_length", Quotient(h)) + AgreedOr(h, "value_length", Quotient(h))) * 2

Informs(h) ==
  /\ \A k \in {"expert_count", "expert_used_count", "block_count", "embedding_length",
               "context_length"} : IsNumber(h, k)
  /\ Number(h, "expert_count") > 0 /\ MoeBlocks(h) # {}
  /\ \A b \in MoeBlocks(h) : BlockBytes(h, b) % Number(h, "expert_count") = 0
  /\ \A k \in {"head_count", "head_count_kv"} : Agrees(h, k)
  /\ \A k \in {"key_length", "value_length"} : k \in DOMAIN h.keys => Agrees(h, k)

\* Slots, not experts: every block has its own.
Footprint(h) ==
  LET blocks == Cardinality(MoeBlocks(h)) IN
  [dense |-> BytesOf(h, DOMAIN h.tensors \ BankTensors(h)), expert |-> PerExpert(h),
   total |-> blocks * Number(h, "expert_count"),
   active |-> blocks * Number(h, "expert_used_count"), kv |-> KvPerToken(h)]
==============================================================================
