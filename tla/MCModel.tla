-------------------------------- MODULE MCModel --------------------------------
(* Model on a small instance.  A file has two blocks of two experts, or one  *)
(* flaw.                                                                     *)
EXTENDS Model, SequencesExt

IdSymmetry == Permutations(Ids)

MCQuants == [f32 |-> [elems |-> 1, bytes |-> 4], q4 |-> [elems |-> 2, bytes |-> 1],
             q6 |-> [elems |-> 2, bytes |-> 2], i8 |-> [elems |-> 1, bytes |-> 1]]
G == INSTANCE Gguf WITH MaxU <- 9999, Quants <- MCQuants

Scalar(n) == [array |-> FALSE, of |-> <<n>>]
PlainKeys ==
  [block_count |-> Scalar(2), embedding_length |-> Scalar(2), head_count |-> Scalar(1),
   head_count_kv |-> Scalar(1), expert_count |-> Scalar(2), expert_used_count |-> Scalar(1),
   expert_feed_forward_length |-> Scalar(4), context_length |-> Scalar(8)]

T(b, name, dims, type) ==
  [block |-> b, name |-> name, dims |-> dims, type |-> type, offset |-> 0]
Heavy(b, peaks, bank) == IF <<b, bank>> \in peaks THEN "q6" ELSE "q4"
BlockTensors(b, peaks, biased) ==
  <<T(b, "attn_norm", <<2>>, "f32"), T(b, "attn_q", <<2, 2>>, "q4"),
    T(b, "attn_k", <<2, 2>>, "q4"), T(b, "attn_v", <<2, 2>>, "q4"),
    T(b, "attn_output", <<2, 2>>, "q4"), T(b, "post_attention_norm", <<2>>, "f32"),
    T(b, "ffn_gate_inp", <<2, 2>>, "f32"),
    T(b, "ffn_gate_exps", <<2, 4, 2>>, Heavy(b, peaks, "ffn_gate_exps")),
    T(b, "ffn_up_exps", <<2, 4, 2>>, Heavy(b, peaks, "ffn_up_exps")),
    T(b, "ffn_down_exps", <<4, 2, 2>>, Heavy(b, peaks, "ffn_down_exps"))>>
  \o IF b \notin biased THEN <<>>
     ELSE <<T(b, "ffn_gate_exps.bias", <<4, 2>>, "f32"),
            T(b, "ffn_up_exps.bias", <<4, 2>>, "f32"),
            T(b, "ffn_down_exps.bias", <<2, 2>>, "f32")>>
Tensors(peaks, biased) ==
  <<T(-1, "token_embd", <<2, 3>>, "q4"), T(-1, "output_norm", <<2>>, "f32"),
    T(-1, "output", <<2, 3>>, "q6")>>
  \o BlockTensors(0, peaks, biased) \o BlockTensors(1, peaks, biased)

\* Laid out one after the other, as a writer does.
After(ts, i) == FoldLeft(LAMBDA n, t : n + G!PadTo(G!Bytes(t), 4), 0, SubSeq(ts, 1, i - 1))
Placed(ts) == [i \in DOMAIN ts |-> [ts[i] EXCEPT !.offset = After(ts, i)]]
File(ts, keys) ==
  [version |-> 3, head |-> 3, align |-> 4, size |-> 4 + After(ts, Len(ts) + 1),
   arch |-> "gpt-oss", rope |-> "yarn", keys |-> keys, tensors |-> Placed(ts)]

AllOf(b) == {b} \X G!Banks
Crossed == {<<0, "ffn_gate_exps">>, <<1, "ffn_down_exps">>}
Whole == {File(Tensors(p, b), PlainKeys) : p \in {{}, AllOf(1), Crossed}, b \in SUBSET {0, 1}}
Windowed ==
  File(Tensors(AllOf(0), {}), PlainKeys @@ [sliding_window |-> Scalar(3)])
Plain == File(Tensors({}, {}), PlainKeys)
\* Only the biases of the down banks.
Gates == {"ffn_gate_exps.bias", "ffn_up_exps.bias"}
DownBiased ==
  File(SelectSeq(Tensors({}, {0, 1}), LAMBDA t : t.name \notin Gates), PlainKeys)

EmptyFile ==
  [version |-> 3, head |-> 0, align |-> 4, size |-> 0, arch |-> "none", rope |-> "plain",
   keys |-> <<>>, tensors |-> <<>>]

\* The same with one thing wrong.
Retyped(i, f) == [Plain EXCEPT !.tensors[i] = f]
Flawed ==
  {[Plain EXCEPT !.size = @ - 1], [Plain EXCEPT !.version = 1], [Plain EXCEPT !.align = 3],
   [Plain EXCEPT !.rope = "linear"], [Plain EXCEPT !.arch = "llama"],
   [Plain EXCEPT !.keys = @ @@ [key_length |-> Scalar(3)]],
   [Plain EXCEPT !.keys.expert_count = Scalar(4)],
   [Plain EXCEPT !.keys.head_count_kv = [array |-> TRUE, of |-> <<1, 1>>]],
   [Plain EXCEPT !.tensors[2].dims = <<90, 900, 900>>],
   [Plain EXCEPT !.tensors[8].dims = <<1, 3>>], [Plain EXCEPT !.tensors[9].name = "attn_qkv"],
   [Plain EXCEPT !.tensors[11].type = "f32", !.tensors[11].dims = <<2, 4, 1>>],
   [Plain EXCEPT !.tensors[11].type = "i8", !.tensors[11].dims = <<2, 2, 2>>],
   [Plain EXCEPT !.tensors[12].type = "i8", !.tensors[12].dims = <<2, 4, 1>>],
   [Plain EXCEPT !.tensors[12].offset = 9998]}
MCReplacements == {Windowed, [Plain EXCEPT !.size = @ - 1]}
MCFiles == Whole \union {Windowed, DownBiased, EmptyFile} \union Flawed

MCHostRams == {-1, 0, 30, 60}
MCResidencies ==
  {[kind |-> "all", n |-> 0, ctx |-> 4], [kind |-> "static", n |-> 1, ctx |-> 5]}
    \union {[kind |-> "slots", n |-> n, ctx |-> 5] : n \in {0, 3, 9}}
    \union {[kind |-> "planned", n |-> n, ctx |-> c] : n \in {180, 220, 257, 300, 460}, c \in {4, 5}}
=============================================================================
