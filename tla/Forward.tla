-------------------------------- MODULE Forward --------------------------------
(***************************************************************************)
(* What decode (moe.rs) launches for one token: a program over the scratch *)
(* buffers of State, which every block and every token use again.  A       *)
(* launch is a record; running the program computes terms, what each       *)
(* buffer would hold, and starts with what an earlier block left in every  *)
(* buffer but h.  A buffer of a batch holds a sequence, one part for each  *)
(* of its matrices.  What a kernel does with its elements is in Launch,    *)
(* what happens to the slots and to a call that fails in Decode.           *)
(*                                                                         *)
(* c is a model and a token: the biases it has, how far its QK-norm goes,  *)
(* whether gate and up have the same type, the experts the router names,   *)
(* in its order, and the misses the host takes.                            *)
(***************************************************************************)
EXTENDS Integers, FiniteSets, SequencesExt

CONSTANTS
  NEmbd, NHead, NHeadKv, HeadDim, NFf, NExpert, NExpertUsed, NVocab,
  Batched           \* MAX_BATCHED_MATS: 32

NEmbdQ == NHead * HeadDim
NEmbdKv == NHeadKv * HeadDim

\* State::new: the elements of each buffer.
Capacities ==
  [h |-> NEmbd, x |-> NEmbd, q |-> NEmbdQ, k |-> NEmbdKv, v |-> NEmbdKv,
   q_normed |-> NEmbdQ, k_normed |-> NEmbdKv, q_roped |-> NEmbdQ, k_roped |-> NEmbdKv,
   attn |-> NEmbdQ, proj |-> NEmbd, router |-> NExpert, idx |-> NExpertUsed,
   weights |-> NExpertUsed, weights_sub |-> NExpertUsed, gate |-> 2 * NExpertUsed * NFf,
   up |-> NExpertUsed * NFf, act |-> NExpertUsed * NFf, expert_out |-> NExpertUsed * NEmbd,
   ffn |-> NEmbd, cpu_ffn |-> NEmbd, logits_dev |-> NVocab, kv |-> NEmbdKv,
   x_host |-> NEmbd, w_host |-> NExpertUsed, cpu_out |-> NEmbd]
PerExpert == {"weights", "weights_sub", "gate", "up", "act", "expert_out", "w_host"}

\* The parts of a batch, one of each of its matrices.
Parts(Part(_), n) == SubSeq([m \in 1 .. n |-> Part(m)], 1, n)

Stale == <<"stale">>
\* Part m of a batch's buffer, stale past its end.
PartOf(buffer, m) == IF m \in DOMAIN buffer THEN buffer[m] ELSE Stale
Leftovers(h) ==
  [b \in DOMAIN Capacities |-> IF b = "h" THEN h ELSE IF b \in PerExpert THEN <<>> ELSE Stale]

-----------------------------------------------------------------------------
(* Launches.  needs is what the wrapper requires of the buffers, value     *)
(* what is in out afterwards.                                              *)
Launch(op, out, ins, arg, needs) ==
  [op |-> op, out |-> out, ins |-> ins, arg |-> arg, needs |-> needs]

Norm(out, x, weight, rows, cols) ==
  Launch("norm", out, <<x>>, <<weight, rows>>, {<<out, rows * cols>>, <<x, rows * cols>>})
Matvec(out, w, x, n_rows, n_cols) ==
  Launch("mat", out, <<x>>, w, {<<out, n_rows>>, <<x, n_cols>>})
Add(out, a, b, n) == Launch("add", out, <<a, b>>, <<>>, {<<out, n>>, <<a, n>>, <<b, n>>})
AddBias(out, bias, n) == Launch("add_bias", out, <<out>>, bias, {<<out, n>>})
Rope(out, src, heads) ==
  Launch("rope", out, <<src>>, <<>>, {<<out, heads * HeadDim>>, <<src, heads * HeadDim>>})
KvAppend == Launch("append", "kv", <<"k_roped", "v">>, <<>>, {<<"k_roped", NEmbdKv>>, <<"v", NEmbdKv>>})
Attend == Launch("attend", "attn", <<"q_roped", "kv">>, <<>>, {<<"q_roped", NEmbdQ>>, <<"attn", NEmbdQ>>})
TopkRouter(wanted) ==
  Launch("topk", "weights", <<"router">>, wanted,
         {<<"router", NExpert>>, <<"idx", NExpertUsed>>, <<"weights", NExpertUsed>>})
Copy(out, from) == Launch("copy", out, <<from>>, <<>>, {<<out, Capacities[from]>>})
Zero(out, n) == Launch("zero", out, <<>>, <<>>, {<<out, n>>})
MatvecBatched(out, mats, x, x_stride, n_rows, n_cols) ==
  Launch("batched", out, <<x>>, [mats |-> mats, shared |-> x_stride = 0],
         {<<out, Len(mats) * n_rows>>,
          <<x, IF x_stride = 0 THEN n_cols ELSE (Len(mats) - 1) * x_stride + n_cols>>})
AddBiasId(out, bias, rows, n_rows) ==
  Launch("bias_id", out, <<out>>, [m \in DOMAIN rows |-> <<bias, rows[m]>>],
         {<<out, Len(rows) * n_rows>>})
Swiglu(k, n) == Launch("act", "act", <<"gate", "up">>, k, {<<"act", n>>, <<"gate", n>>, <<"up", n>>})
SwigluHalves(k, n) == Launch("halves", "act", <<"gate">>, k, {<<"act", n>>, <<"gate", 2 * n>>})
MoeCombine(out, parts, w, k) ==
  Launch("combine", out, <<parts, w>>, k, {<<out, NEmbd>>, <<parts, k * NEmbd>>, <<w, k>>})
\* What the host keeps of w_host for the experts that stay on the device.
Compact(out, kept) == Launch("compact", out, <<"w_host">>, kept, {<<out, Len(kept)>>})
\* The job of the host executor, expert_ffn_ext for each pick and a weighted sum.
HostFfn(picks) == Launch("host", "cpu_out", <<"x_host", "w_host">>, picks, {<<"cpu_out", NEmbd>>})

Biased(has, t, bias) == IF has THEN <<"add", t, <<"w", bias>>>> ELSE t
Mat(w, t) == <<"mat", w, t>>
Activated(gate, up) == <<"act", gate, up>>
\* The sum of two sums is one.
Plus(a, b) == IF a[1] = "sum" /\ b[1] = "sum" THEN <<"sum", a[2] \o b[2]>> ELSE <<"add", a, b>>
\* Row r of the table that holds the gate biases of all experts and then the up biases.
BiasRow(bias, r) ==
  IF bias = "down" THEN <<"down", r>>
  ELSE IF r < NExpert THEN <<"gate", r>> ELSE <<"up", r - NExpert>>
BiasedExpert(has, t, bank, e) == IF has THEN <<"add", t, <<"w", <<bank, e>>>>>> ELSE t

\* One expert on x: an activation of two products, through a third.
ExpertFfn(biases, e, x) ==
  LET gate == BiasedExpert("gate_up" \in biases, Mat(<<"gate", e>>, x), "gate", e)
      up == BiasedExpert("gate_up" \in biases, Mat(<<"up", e>>, x), "up", e)
  IN BiasedExpert("down" \in biases, Mat(<<"down", e>>, Activated(gate, up)), "down", e)

Read(b, l, i) == b[l.ins[i]]
Value(c, l, b) ==
  CASE l.op = "norm" -> <<"norm", l.arg, Read(b, l, 1)>>
    [] l.op = "mat" -> Mat(l.arg, Read(b, l, 1))
    [] l.op = "add" -> Plus(Read(b, l, 1), Read(b, l, 2))
    [] l.op = "add_bias" -> <<"add", Read(b, l, 1), <<"w", l.arg>>>>
    [] l.op = "rope" -> <<"rope", Read(b, l, 1)>>
    [] l.op = "copy" -> Read(b, l, 1)
    [] l.op \in {"append", "attend"} -> <<l.op, Read(b, l, 1), Read(b, l, 2)>>
    [] l.op = "zero" -> <<"sum", <<>>>>
    [] l.op = "topk" ->
         Parts(LAMBDA i : <<"weight", l.arg[i], Read(b, l, 1)>>, Len(l.arg))
    [] l.op = "batched" ->
         Parts(LAMBDA m : Mat(l.arg.mats[m],
                              IF l.arg.shared THEN Read(b, l, 1) ELSE PartOf(Read(b, l, 1), m)),
               Len(l.arg.mats))
    [] l.op = "bias_id" ->
         Parts(LAMBDA m : <<"add", PartOf(Read(b, l, 1), m), <<"w", BiasRow(l.arg[m][1], l.arg[m][2])>>>>,
               Len(l.arg))
    [] l.op = "act" ->
         Parts(LAMBDA m : Activated(PartOf(Read(b, l, 1), m), PartOf(Read(b, l, 2), m)), l.arg)
    [] l.op = "halves" ->
         Parts(LAMBDA m : Activated(PartOf(Read(b, l, 1), m), PartOf(Read(b, l, 1), l.arg + m)), l.arg)
    [] l.op = "combine" ->
         <<"sum", Parts(LAMBDA m : <<PartOf(Read(b, l, 2), m), PartOf(Read(b, l, 1), m)>>, l.arg)>>
    [] l.op = "compact" -> Parts(LAMBDA m : PartOf(Read(b, l, 1), l.arg[m]), Len(l.arg))
    [] l.op = "host" ->
         <<"sum", Parts(LAMBDA m : <<PartOf(Read(b, l, 2), l.arg[m]),
                                     ExpertFfn(c.biases, c.wanted[l.arg[m]], Read(b, l, 1))>>,
                        Len(l.arg))>>

Run(c, program, h) ==
  LET after[n \in 0 .. Len(program)] ==
        IF n = 0 THEN Leftovers(h)
        ELSE LET b == after[n - 1] IN [b EXCEPT ![program[n].out] = Value(c, program[n], b)]
  IN after[Len(program)]

-----------------------------------------------------------------------------
(* The program.                                                            *)
If(condition, launches) == IF condition THEN launches ELSE <<>>
Has(c, bias) == bias \in c.biases

Project(c, out, w, n) ==
  <<Matvec(out, w, "x", n, NEmbd)>> \o If(Has(c, w), <<AddBias(out, w, n)>>)
QkNorm(c) ==
  IF c.qk_norm = "head"
  THEN <<Norm("q_normed", "q", "q_norm", NHead, HeadDim), Norm("k_normed", "k", "k_norm", NHeadKv, HeadDim)>>
  ELSE If(c.qk_norm = "whole",
          <<Norm("q_normed", "q", "q_norm", 1, NEmbdQ), Norm("k_normed", "k", "k_norm", 1, NEmbdKv)>>)
Attention(c) ==
  <<Norm("x", "h", "attn_norm", 1, NEmbd)>>
    \o Project(c, "q", "attn_q", NEmbdQ) \o Project(c, "k", "attn_k", NEmbdKv)
    \o Project(c, "v", "attn_v", NEmbdKv)
    \o QkNorm(c)
    \o <<Rope("q_roped", IF c.qk_norm = "none" THEN "q" ELSE "q_normed", NHead),
         Rope("k_roped", IF c.qk_norm = "none" THEN "k" ELSE "k_normed", NHeadKv),
         KvAppend, Attend, Matvec("proj", "attn_output", "attn", NEmbd, NEmbdQ)>>
    \o If(Has(c, "attn_output"), <<AddBias("proj", "attn_output", NEmbd)>>)
    \o <<Add("h", "h", "proj", NEmbd)>>

Router(c) ==
  <<Norm("x", "h", "ffn_norm", 1, NEmbd), Matvec("router", "router", "x", NExpert, NEmbd)>>
    \o If(Has(c, "router"), <<AddBias("router", "router", NExpert)>>)
    \o <<TopkRouter(c.wanted)>> \o If(c.host, <<Copy("w_host", "weights")>>)

\* Places in wanted: what the host takes, and what stays with the device.
Picks(c) == SelectSeq([i \in DOMAIN c.wanted |-> i], LAMBDA i : c.wanted[i] \in c.cpu)
GpuWanted(c) == SelectSeq([i \in DOMAIN c.wanted |-> i], LAMBDA i : c.wanted[i] \notin c.cpu)

\* The router's own vector only when the device has all it named.  (The first form, a mutant's,
\* takes it always.)
WeightsAsRouted(c) == "weights"
WeightsOf(c) == IF c.cpu = {} THEN "weights" ELSE "weights_sub"
Fused(c) == c.same_type /\ 2 * Len(GpuWanted(c)) <= Batched
Bank(c, bank) == [m \in DOMAIN GpuWanted(c) |-> <<bank, c.wanted[GpuWanted(c)[m]]>>]
BiasIds(c, first) == [m \in DOMAIN GpuWanted(c) |-> first + c.wanted[GpuWanted(c)[m]]]

GateUp(c) ==
  IF Fused(c)
  THEN <<MatvecBatched("gate", Bank(c, "gate") \o Bank(c, "up"), "x", 0, NFf, NEmbd)>>
         \o If(Has(c, "gate_up"),
               <<AddBiasId("gate", "gate_up", BiasIds(c, 0) \o BiasIds(c, NExpert), NFf)>>)
  ELSE <<MatvecBatched("gate", Bank(c, "gate"), "x", 0, NFf, NEmbd),
         MatvecBatched("up", Bank(c, "up"), "x", 0, NFf, NEmbd)>>
         \o If(Has(c, "gate_up"),
               <<AddBiasId("gate", "gate_up", BiasIds(c, 0), NFf),
                 AddBiasId("up", "gate_up", BiasIds(c, NExpert), NFf)>>)
DeviceExperts(c) ==
  LET k == Len(GpuWanted(c)) IN
  IF k = 0 THEN <<Zero("ffn", NEmbd)>>
  ELSE GateUp(c)
         \o <<IF Fused(c) THEN SwigluHalves(k, k * NFf) ELSE Swiglu(k, k * NFf),
              MatvecBatched("expert_out", Bank(c, "down"), "act", NFf, NEmbd, NFf)>>
         \o If(Has(c, "down"), <<AddBiasId("expert_out", "down", BiasIds(c, 0), NEmbd)>>)
         \o <<MoeCombine("ffn", "expert_out", WeightsOf(c), k)>>
Experts(c) ==
  If(c.cpu # {}, <<Copy("x_host", "x"), Compact("weights_sub", GpuWanted(c))>>)
    \o DeviceExperts(c)
    \o If(c.cpu # {}, <<HostFfn(Picks(c)), Copy("cpu_ffn", "cpu_out"), Add("ffn", "ffn", "cpu_ffn", NEmbd)>>)
    \o <<Add("h", "h", "ffn", NEmbd)>>

BlockProgram(c) == Attention(c) \o Router(c) \o Experts(c)
Output == <<Norm("x", "h", "output_norm", 1, NEmbd), Matvec("logits_dev", "output", "x", NVocab, NEmbd)>>

-----------------------------------------------------------------------------
(* The model itself, written without buffers.                              *)
AfterAttention(c, h) ==
  LET x == <<"norm", <<"attn_norm", 1>>, h>>
      Projected(w) == Biased(Has(c, w), Mat(w, x), w)
      Normed(t, w, heads) ==
        IF c.qk_norm = "none" THEN t ELSE <<"norm", <<w, IF c.qk_norm = "head" THEN heads ELSE 1>>, t>>
      q == <<"rope", Normed(Projected("attn_q"), "q_norm", NHead)>>
      k == <<"rope", Normed(Projected("attn_k"), "k_norm", NHeadKv)>>
      attn == <<"attend", q, <<"append", k, Projected("attn_v")>>>>
  IN <<"add", h, Biased(Has(c, "attn_output"), Mat("attn_output", attn), "attn_output")>>
\* The share of expert e: its own output, its down bias added, times its own weight.
Share(c, e, x) ==
  <<<<"weight", e, Biased(Has(c, "router"), Mat("router", x), "router")>>, ExpertFfn(c.biases, e, x)>>

\* Whichever of the experts the host takes and however the launches are put together, a block
\* adds to h what attention gives and then the share of each expert the router named, once;
\* nothing an earlier block left in a buffer is in it.  The logits are those of this h.
OwnShares(c, b) ==
  LET after == AfterAttention(c, <<"h">>)
      x == <<"norm", <<"ffn_norm", 1>>, after>>
  IN /\ b.h[1] = "add" /\ b.h[2] = after /\ b.h[3][1] = "sum"
     /\ Len(b.h[3][2]) = Len(c.wanted)
     /\ Range(b.h[3][2]) = {Share(c, e, x) : e \in Range(c.wanted)}
     /\ b.logits_dev = Mat("output", <<"norm", <<"output_norm", 1>>, b.h>>)
SharesAreTheirOwn(c) == OwnShares(c, Run(c, BlockProgram(c) \o Output, <<"h">>))

\* No launch asks a buffer for more than State gave it or the kernel for more matrices than it
\* takes, and only a launch that writes each element from the same element works in place.
Elementwise == {"add", "add_bias", "bias_id"}
LaunchesFit(c) ==
  \A l \in Range(BlockProgram(c) \o Output) :
    /\ \A n \in l.needs : n[2] <= Capacities[n[1]]
    /\ l.op = "batched" => Len(l.arg.mats) <= Batched
    /\ l.op = "bias_id" => Len(l.arg) <= Batched
    /\ l.out \in Range(l.ins) => l.op \in Elementwise
==============================================================================
