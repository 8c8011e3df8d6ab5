------------------------------- MODULE MCEngine --------------------------------
(* The engine's launches on sub-groups of two lanes, rows of at most six   *)
(* blocks and heads of up to five channels: every loop has a full pass, a  *)
(* part of one and none, every mask has something to mask.                 *)
EXTENDS Engine

Sequences(values, n) == UNION {[1 .. len -> values] : len \in 1 .. n}
MCMatvecs ==
  [kernel : {"matvec"}, generic : BOOLEAN, upb : {1, 2}, n_mat : {1, 3}, n_rows : {0, 1, 2, 3, 5},
   n_cols : {2, 4, 8, 12}, x_stride : {0}]
    \cup UNION {[kernel : {"matvec"}, generic : BOOLEAN, upb : {1, 2}, n_mat : {1, 2, 3, 5},
                 n_rows : {2, 3}, n_cols : {cols}, x_stride : {cols}] : cols \in {4, 6}}
MCBanks ==
  [kernel : {"bias"}, idx : Sequences(0 .. 2, 3), n_rows : {1, 3}]
    \cup [kernel : {"combine", "halves"}, n_mat : 1 .. 3, n : 1 .. 3]
    \cup [kernel : {"rmsnorm"}, n_rows : 1 .. 2, n_cols : (1 .. 5) \cup {17, 65}]
    \cup [kernel : {"expand"}, upb : {1, 2}, nblocks : 0 .. 3]
    \cup [kernel : {"gather"}, idx : Sequences(0 .. 2, 3), slot_bytes : {4, 6, 8, 12}]
\* A softmax of two rows with every mask, one of a row of more columns, and causal ones.
MCSoftmaxes ==
  [kernel : {"softmax"}, n_rows : {2}, n_cols : {3}, scores : [0 .. 2 -> {0, 2}], masked : SUBSET (0 .. 5)]
    \cup [kernel : {"softmax"}, n_rows : {1}, n_cols : {5}, scores : [0 .. 4 -> {0, 3}],
          masked : {{}, {4}, {0, 2}}]
    \cup {[kernel |-> "softmax", n_rows |-> q, n_cols |-> 4, scores |-> [i \in 0 .. 3 |-> (3 * i) % 4],
           masked |-> UNION {{i * 4 + j : j \in (5 - q + i) .. 3} : i \in 0 .. q - 1}] : q \in 1 .. 4}
MCEmbeds ==
  [kernel : {"embed"}, idx : {<<0>>, <<2>>, <<1, 2>>}, n_cols : {2, 4, 6, 8}, upb : {1, 2}, vocab : {3}]
MCRopes == [kernel : {"rope"}, n_heads : 1 .. 3, head_dim : 1 .. 5, n_dims : 0 .. 6, neox : BOOLEAN]
MCTopks ==
  [kernel : {"topk"}, logits : UNION {[0 .. n -> 0 .. 2] : n \in 0 .. 4}, k : 0 .. 4,
   gating : {"softmax", "normalised", "after_topk"}]
\* A sink of -99 is none.
MCAttns ==
  [kernel : {"attn"}, n_heads : {1, 2, 4}, n_kv_heads : 0 .. 2, head_dim : {2}, kv_begin : 0 .. 2,
   n_kv : {1, 3, 4}, page_tokens : {2}, table : {<<2, 0>>, <<0, 1>>}, scores : [0 .. 3 -> {0, 2}],
   sink : {-99, 1}]
MCShapes == MCMatvecs \cup MCBanks \cup MCSoftmaxes \cup MCEmbeds \cup MCRopes \cup MCTopks \cup MCAttns

\* Three experts of four; the host takes some, none or all of them.
AttnBiases == {"attn_q", "attn_k", "attn_v", "attn_output"}
Pass(biases, qk_norm, same_type, named, cpu, has_host) ==
  [kernel |-> "forward", biases |-> biases, qk_norm |-> qk_norm, same_type |-> same_type,
   wanted |-> named, cpu |-> cpu, host |-> has_host]
MCForwards ==
  UNION {{Pass(biases, "none", same_type, named, cpu, TRUE) :
            biases \in SUBSET {"router", "gate_up", "down"}, same_type \in BOOLEAN,
            cpu \in SUBSET {named[i] : i \in 1 .. 3}} :
           named \in {<<0, 2, 3>>, <<2, 0, 1>>, <<3, 1, 2>>}}
    \cup {Pass(biases, qk_norm, TRUE, <<3, 0, 2>>, {}, has_host) :
            biases \in SUBSET AttnBiases, qk_norm \in {"none", "head", "whole"}, has_host \in BOOLEAN}
==============================================================================
