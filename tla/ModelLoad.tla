------------------------------- MODULE ModelLoad -------------------------------
(***************************************************************************)
(* Loading a model, crates/moearc-engine/src/moe.rs: the file is read and  *)
(* mapped, its header becomes a Config, the dense weights are uploaded and *)
(* the banks measured, a residency is turned into slots, the pool and the  *)
(* sequence's State are allocated, and the host executor takes its table.  *)
(* A download may put another file in the place of this one between the    *)
(* two opens; a mapping keeps the file it was made of.                     *)
(*                                                                         *)
(* Of a header, rope stands for the float and string keys (the epsilon and *)
(* the RoPE scaling): plain, yarn, or anything that is refused.            *)
(***************************************************************************)
EXTENDS Gguf

CONSTANTS
  Files,            \* what a path may hold
  Replacements,     \* those of them a download may put there meanwhile
  Residencies,      \* [kind |-> "all" | "slots" | "planned" | "static", n, ctx], where n
                    \* is what the kind needs and ctx the context asked for
  HostPolicies,     \* subset of {"off", "on"}
  HostRams,         \* budgets of host RAM, None if it cannot be measured
  EnginePage, PlannerPage, HeadroomPercent,
  DeviceTypes, HostTypes,  \* what each side has kernels for
  MaxBatchedMats

VARIABLES
  disk, header, mapped,   \* the file under the path, the one read, the one mapped
  stage,
  weights,                \* [dense, slot, biased] of Weights
  residency, slots, kv,   \* what was asked, the pool's capacity, bytes of KV
  host, routing           \* the executor; what RAM is said to back, and its budget

\* A header's numbers are unsigned, and no file is as long as the largest of them.
LoadAssumption ==
  /\ MaxU \in Nat
  /\ \A type \in DOMAIN Quants : {Quants[type].elems, Quants[type].bytes} \subseteq Nat \ {0}
  /\ \A f \in Files \cup Replacements :
       /\ f.size \in Nat /\ f.size < MaxU /\ {f.head, f.align} \subseteq Nat
       /\ \A k \in DOMAIN f.keys :
            f.keys[k].of \in Seq(Nat) /\ (f.keys[k].array \/ f.keys[k].of # <<>>)
       /\ f.tensors \in Seq(ToSet(f.tensors))
       /\ \A t \in ToSet(f.tensors) : t.dims \in Seq(Nat) /\ t.offset \in Nat

loading == <<disk, header, mapped, stage, weights, residency, slots, kv, host, routing>>

Planner(ctx) == INSTANCE VramPlan WITH PageTokens <- PlannerPage, MinContext <- ctx
Lesser(a, b) == IF a <= b THEN a ELSE b
Greater(a, b) == IF a >= b THEN a ELSE b
NoRam == -1   \* host memory could not be measured

-----------------------------------------------------------------------------
(* Config::from_model.                                                     *)
NBlock(h) == Number(h, "block_count")
ExpertsOf(h) == Number(h, "expert_count")
Used(h) == Number(h, "expert_used_count")
Embd(h) == Number(h, "embedding_length")
Heads(h) == Number(h, "head_count")
HeadsKv(h) == Number(h, "head_count_kv")
HeadDim(h) == NumberOr(h, "key_length", Embd(h) \div Heads(h))
FfnKey(h) ==
  IF h.arch = "olmoe" THEN "feed_forward_length" ELSE "expert_feed_forward_length"
FfnNorm(h) == IF h.arch = "gpt-oss" THEN "post_attention_norm" ELSE "ffn_norm"
BlockIds(h) == 0 .. (NBlock(h) - 1)

Second(dims) == IF Len(dims) < 2 THEN 0 ELSE dims[2]
NormAgrees(h, name, heads) ==
  /\ Has(h, 0, name)
  /\ Elements(View(h, 0, name).dims)
       = IF h.arch = "qwen3moe" THEN HeadDim(h) ELSE heads * HeadDim(h)
NormsAgree(h) ==
  IF h.arch = "gpt-oss" THEN ~Has(h, 0, "attn_q_norm")
  ELSE NormAgrees(h, "attn_q_norm", Heads(h)) /\ NormAgrees(h, "attn_k_norm", HeadsKv(h))

\* The optional tensors are looked for in block 0 only.
HasExpertBias(h) == Has(h, 0, "ffn_gate_exps.bias")
BiasesTogether(h) ==
  /\ Has(h, 0, "attn_q.bias") =>
       \A n \in {"attn_k.bias", "attn_v.bias", "attn_output.bias"} : Has(h, 0, n)
  /\ HasExpertBias(h) =>
       \A n \in {"ffn_up_exps.bias", "ffn_down_exps.bias"} : Has(h, 0, n)

Shaped(h) ==
  /\ Heads(h) # 0 /\ HeadsKv(h) # 0 /\ Heads(h) % HeadsKv(h) = 0
  /\ IsNumber(h, "key_length") \/ Embd(h) % Heads(h) = 0
  /\ HeadDim(h) # 0 /\ NumberOr(h, "value_length", HeadDim(h)) = HeadDim(h)
Configures(h) ==
  /\ h.arch \in {"olmoe", "qwen3moe", "gpt-oss"}
  /\ \A k \in {"block_count", "embedding_length", "head_count", "head_count_kv", FfnKey(h),
               "expert_count", "expert_used_count", "context_length"} : IsNumber(h, k)
  /\ Shaped(h)
  /\ Has(h, 0, "ffn_gate_exps")
  /\ Second(View(h, 0, "ffn_gate_exps").dims) = Number(h, FfnKey(h))
  /\ Used(h) \in 1 .. ExpertsOf(h) /\ Used(h) <= MaxBatchedMats
  /\ Has(h, Global, "token_embd") /\ Len(View(h, Global, "token_embd").dims) >= 2
  /\ NormsAgree(h) /\ BiasesTogether(h)
  /\ h.rope \in {"plain", "yarn"}

-----------------------------------------------------------------------------
(* KvGeometry: windowed blocks keep a ring of pages.                       *)
Window(h) == NumberOr(h, "sliding_window", 0)
Pattern(h) ==
  IF NumberOr(h, "sliding_window_pattern", 0) > 0
  THEN Number(h, "sliding_window_pattern") ELSE 2
IsSwa(h, il) == Window(h) > 0 /\ il % Pattern(h) < Pattern(h) - 1

Pages(ctx) == Greater(DivUp(ctx, EnginePage), 1)
SwaPages(h, ctx) ==
  IF Window(h) = 0 THEN Pages(ctx) ELSE Lesser(DivUp(Window(h), EnginePage), Pages(ctx))
PagesOf(h, ctx, il) == IF IsSwa(h, il) THEN SwaPages(h, ctx) ELSE Pages(ctx)
KvPageBytes(h) == EnginePage * HeadsKv(h) * HeadDim(h) * 2 * 2
KvFull(h, ctx) == KvPageBytes(h) * NBlock(h) * Pages(ctx)
KvPlanned(h, ctx) ==
  LET windowed == Cardinality({il \in BlockIds(h) : IsSwa(h, il)})
  IN KvPageBytes(h) * ((NBlock(h) - windowed) * Pages(ctx) + windowed * SwaPages(h, ctx))
\* What State::new allocates.
KvAllocated(h, ctx) ==
  MapThenSumSet(LAMBDA il : PagesOf(h, ctx, il) * KvPageBytes(h), BlockIds(h))

-----------------------------------------------------------------------------
(* Weights::upload.                                                        *)
GlobalWeights == {"token_embd", "output_norm", "output"}
BlockMatrices == {"attn_q", "attn_k", "attn_v", "attn_output", "ffn_gate_inp"}
BlockWeights(h) == BlockMatrices \union {"attn_norm", FfnNorm(h)}
BlockOptions ==
  {"attn_q_norm", "attn_k_norm", "attn_q.bias", "attn_k.bias", "attn_v.bias",
   "attn_output.bias", "attn_sinks", "ffn_gate_inp.bias", "ffn_gate_exps.bias",
   "ffn_up_exps.bias", "ffn_down_exps.bias"}

Matrix(h, b, name) ==
  Has(h, b, name) /\ View(h, b, name).type \in DeviceTypes /\ View(h, b, name).dims # <<>>
Measured(h, b, bank) ==
  HasExpert(h, b, bank, 0) /\ View(h, b, bank).type \in DeviceTypes
Uploads(h) ==
  /\ \A n \in GlobalWeights : Has(h, Global, n)
  /\ Matrix(h, Global, "token_embd") /\ Matrix(h, Global, "output")
  /\ \A b \in BlockIds(h) :
       /\ \A n \in BlockWeights(h) : Has(h, b, n)
       /\ \A n \in BlockMatrices : Matrix(h, b, n)
       /\ \A bank \in Banks : Measured(h, b, bank)

Dense(h) ==
  ({Global} \X GlobalWeights)
    \union {p \in BlockIds(h) \X (BlockWeights(h) \union BlockOptions) : Has(h, p[1], p[2])}
BankBytes(h, bank) == {Expert(h, b, bank, 0).len : b \in BlockIds(h)} \union {0}
Biased(h, b) ==
  {bank \in Banks :
     IF bank = "ffn_down_exps" THEN Has(h, b, "ffn_down_exps.bias")
     ELSE Has(h, b, "ffn_gate_exps.bias") /\ Has(h, b, "ffn_up_exps.bias")}
Uploaded(h) ==
  [dense |-> MapThenSumSet(LAMBDA p : View(h, p[1], p[2]).len, Dense(h)),
   slot |-> [bank \in Banks |-> Max(BankBytes(h, bank))],
   biased |-> [b \in BlockIds(h) |-> Biased(h, b)]]
NothingUploaded == [dense |-> 0, slot |-> [bank \in Banks |-> 0], biased |-> <<>>]
SlotBytes == MapThenSumSet(LAMBDA bank : weights.slot[bank], Banks)

-----------------------------------------------------------------------------
(* Model::build.                                                           *)
NSlots(h) == NBlock(h) * ExpertsOf(h)

\* The planner is told what the windowed blocks save.
Scaled(h, ctx) ==
  [Footprint(h) EXCEPT
     !.kv = DivUp(Times(@, KvPlanned(h, ctx)), Greater(KvFull(h, ctx), 1))]
PlanFor(h, free, ctx) ==
  Planner(ctx)!Plan(free, Scaled(h, ctx), Planner(ctx)!None, "experts", ctx)

Clamped(n, h) == Greater(Used(h), Lesser(n, NSlots(h)))
Admits(h, r) ==
  CASE r.kind = "all" -> NSlots(h) > 0
    [] r.kind = "slots" -> Used(h) <= NSlots(h)
    [] r.kind = "planned" -> Informs(h) /\ PlanFor(h, r.n, r.ctx).ok /\ Used(h) <= NSlots(h)
    [] r.kind = "static" -> TRUE
SlotsFor(h, r) ==
  CASE r.kind = "all" -> NSlots(h)
    [] r.kind = "slots" -> Clamped(r.n, h)
    [] r.kind = "planned" -> Clamped(PlanFor(h, r.n, r.ctx).resident, h)
    [] r.kind = "static" -> Lesser(r.n, NBlock(h)) * ExpertsOf(h) + Used(h)

\* host_residency and routing_backing: what of the rest the RAM budget holds.
NotInVram(h) == Greater(0, Footprint(h).total - slots)
Covered(h, ram) ==
  IF PerExpert(h) = 0 THEN 0 ELSE Lesser(ram \div PerExpert(h), NotInVram(h))
Said(h, ram, policy) ==
  IF policy = "off" THEN "not routing"
  ELSE IF PerExpert(h) = 0 \/ Covered(h, ram) = NotInVram(h) THEN "backed"
  ELSE "partly"
Unmeasured == [said |-> "unknown", ram |-> 0]
Backing(h, ram, policy) ==
  IF ram = NoRam \/ ~Informs(h) THEN Unmeasured
  ELSE [said |-> Said(h, ram, policy), ram |-> ram]

\* HostExecutor::new.
HostBank(h, b, bank, rows, cols) ==
  LET v == Expert(h, b, bank, 0) IN
  /\ v.type \in HostTypes /\ v.dims[1] % Quants[v.type].elems = 0
  /\ v.dims[1] = cols /\ Elements(Tail(v.dims)) = rows
HostBias(h, b, name, rows) ==
  /\ Has(h, b, name)
  /\ View(h, b, name).dims = <<rows, ExpertsOf(h)>>
  /\ View(h, b, name).len = rows * ExpertsOf(h) * 4
\* The biases of a block, a row for every expert.
HostBiases(h, b) ==
  /\ HostBias(h, b, "ffn_gate_exps.bias", Number(h, FfnKey(h)))
  /\ HostBias(h, b, "ffn_up_exps.bias", Number(h, FfnKey(h)))
  /\ HostBias(h, b, "ffn_down_exps.bias", Embd(h))
HostBanks(h, b) ==
  LET ff == Number(h, FfnKey(h)) IN
  /\ \A bank \in {"ffn_gate_exps", "ffn_up_exps"} : HostBank(h, b, bank, ff, Embd(h))
  /\ HostBank(h, b, "ffn_down_exps", Embd(h), ff)
  /\ \A bank \in Banks : \A e \in 0 .. (ExpertsOf(h) - 1) : HasExpert(h, b, bank, e)
\* Every block must have the biases that block 0 has.  (A mutant asks block 0 again.)
HostTakesFirst(h) ==
  \A b \in BlockIds(h) : HostBanks(h, b) /\ (HasExpertBias(h) => HostBiases(h, 0))
HostTakes(h) ==
  \A b \in BlockIds(h) : HostBanks(h, b) /\ (HasExpertBias(h) => HostBiases(h, b))

-----------------------------------------------------------------------------
Unasked == [kind |-> "none", n |-> 0, ctx |-> 0]
LoadInit ==
  /\ disk \in Files /\ header = disk /\ mapped = disk /\ stage = "read"
  /\ weights = NothingUploaded /\ residency = Unasked
  /\ slots = 0 /\ kv = 0 /\ host = "off" /\ routing = Unmeasured

\* Another file is renamed into the path.
Replace ==
  /\ stage \in {"read", "map"} /\ disk' \in Replacements
  /\ UNCHANGED <<header, mapped, stage, weights, residency, slots, kv, host, routing>>

Read ==
  /\ stage = "read" /\ header' = disk
  /\ stage' = IF Reads(disk) THEN "map" ELSE "failed"
  /\ UNCHANGED <<disk, mapped, weights, residency, slots, kv, host, routing>>

\* Only a file that has become shorter is refused.
Map ==
  /\ stage = "map" /\ mapped' = disk
  /\ stage' = IF disk.size >= header.size THEN "config" ELSE "failed"
  /\ UNCHANGED <<disk, header, weights, residency, slots, kv, host, routing>>

Configure ==
  /\ stage = "config"
  /\ stage' = IF Configures(header) THEN "upload" ELSE "failed"
  /\ UNCHANGED <<disk, header, mapped, weights, residency, slots, kv, host, routing>>

Upload ==
  /\ stage = "upload" /\ Uploads(header)
  /\ weights' = Uploaded(header) /\ stage' = "admit"
  /\ UNCHANGED <<disk, header, mapped, residency, slots, kv, host, routing>>

Admit ==
  /\ stage = "admit"
  /\ \E r \in Residencies :
       /\ residency' = r
       /\ IF Admits(header, r)
          THEN slots' = SlotsFor(header, r) /\ stage' = "allocate"
          ELSE UNCHANGED slots /\ stage' = "failed"
  /\ UNCHANGED <<disk, header, mapped, weights, kv, host, routing>>

\* ExpertPool::new and State::new.
Allocate ==
  /\ stage = "allocate" /\ kv' = KvAllocated(header, residency.ctx) /\ stage' = "host"
  /\ UNCHANGED <<disk, header, mapped, weights, residency, slots, host, routing>>

\* The executor is told of a bias by the Config.
Attach ==
  /\ stage = "host"
  /\ \E policy \in HostPolicies, ram \in HostRams :
       /\ policy # "off" => HostTakes(header)
       /\ host' = IF policy = "off" THEN "off"
                  ELSE IF HasExpertBias(header) THEN "biased" ELSE "plain"
       /\ routing' = Backing(header, ram, policy)
  /\ stage' = "ready"
  /\ UNCHANGED <<disk, header, mapped, weights, residency, slots, kv>>

\* A tensor is missing or of a kind nobody expands, the executor refuses, or a call of
\* the device or of the system fails.
LoadFails ==
  /\ stage \in {"upload", "allocate", "host"} /\ stage' = "failed"
  /\ UNCHANGED <<disk, header, mapped, weights, residency, slots, kv, host, routing>>

\* What was built is dropped, and the path may be loaded again.
Unload ==
  /\ stage \in {"ready", "failed"} /\ stage' = "read"
  /\ header' = disk /\ mapped' = disk /\ weights' = NothingUploaded
  /\ residency' = Unasked
  /\ slots' = 0 /\ kv' = 0 /\ host' = "off" /\ routing' = Unmeasured
  /\ UNCHANGED disk

LoadNext ==
  \/ Replace \/ Read \/ Map \/ Configure \/ Upload \/ Admit \/ Allocate \/ Attach
  \/ LoadFails \/ Unload

-----------------------------------------------------------------------------
(* Which expert a byte of a file belongs to, by the coordinates of the     *)
(* elements its quantisation block holds.                                  *)
OwnBytes(f, b, bank, e) ==
  LET t == Tensor(f, b, bank)
      q == Quants[t.type]
      stride == Elements(Front(t.dims))
      whole == {k \in 0 .. (Elements(t.dims) \div q.elems - 1) :
                  \A x \in (k * q.elems) .. (k * q.elems + q.elems - 1) : x \div stride = e}
  IN UNION {(Start(f, t) + k * q.bytes) .. (Start(f, t) + k * q.bytes + q.bytes - 1) : k \in whole}

Span(v) == v.start .. (v.start + v.len - 1)

\* The bytes handed out as an expert's are inside the mapping, and are exactly the blocks of
\* that expert, of its bank and its block, unless the file was replaced between the header's
\* open and the mapping's (tensors.rs:24-32).
ExpertsAreTheirOwn ==
  stage = "ready" =>
    \A b \in BlockIds(header), bank \in Banks, e \in 0 .. (ExpertsOf(header) - 1) :
      HasExpert(header, b, bank, e) =>
        /\ Span(Expert(header, b, bank, e)) \subseteq 0 .. (mapped.size - 1)
        /\ mapped = header =>
             Span(Expert(header, b, bank, e)) = OwnBytes(mapped, b, bank, e)

\* The planner takes a width nobody stated to be the quotient, the engine takes the values'
\* to be the keys'.
OneWidth(h) ==
  AgreedOr(h, "value_length", Quotient(h)) = AgreedOr(h, "key_length", Quotient(h))
Committed == weights.dense + slots * SlotBytes + kv
PlanKept ==
  stage = "ready" /\ residency.kind = "planned" /\ OneWidth(header) =>
    Committed <= residency.n - Planner(residency.ctx)!Reserve(residency.n)
\* Some block has the largest expert in every bank.
OnePeak(h) ==
  \E b \in BlockIds(h) : \A bank \in Banks : Expert(h, b, bank, 0).len = Max(BankBytes(h, bank))

AllBanks(h, b) == MapThenSumSet(LAMBDA bank : Expert(h, b, bank, 0).len, Banks)
\* A planned load commits no more than the plan left it (but see PoolWithinPlan), every
\* expert fits the slot it is staged into, and RAM said to back every miss can hold as many
\* experts of any block as the pool does not (host_budget.rs:516-525).
BudgetsHold ==
  stage = "ready" =>
    /\ OnePeak(header) => PlanKept
    /\ \A b \in BlockIds(header) :
         /\ \A bank \in Banks, e \in 0 .. (ExpertsOf(header) - 1) :
              HasExpert(header, b, bank, e) =>
                Expert(header, b, bank, e).len <= weights.slot[bank]
         /\ routing.said = "backed" =>
              (NSlots(header) - slots) * AllBanks(header, b) <= routing.ram

\* The planner's size of an expert is what a slot commits: a slot "must be able to hold any
\* expert, so it has to be sized for the largest", or the engine would "overrun VRAM"
\* (crates/moearc-model/src/lib.rs:329-331).
PoolWithinPlan == PlanKept

\* A bias tensor is a row of the device's bank for every expert, so that both sides find an
\* expert's row at the same place.
BiasBytes(h, b, bank) == Elements(Tail(Expert(h, b, bank, 0).dims)) * ExpertsOf(h) * 4
BiasName(bank) ==
  CASE bank = "ffn_gate_exps" -> "ffn_gate_exps.bias"
    [] bank = "ffn_up_exps" -> "ffn_up_exps.bias"
    [] bank = "ffn_down_exps" -> "ffn_down_exps.bias"

\* What a host that was told of biases adds, the device adds in every block, however much the
\* blocks differ: a file of which a later block lacks one is refused, and so is one whose rows
\* are not the bank's.  A host that was told of none agrees with the device on the gate and the
\* up bank of block 0, and on no more: of "the host must compute the same function as the
\* device" (moe.rs:1759-1760) a file breaks the rest whose block 0 has no bias of a gate, while
\* another block has one, or any block one of its down bank.
HostBiasesAreTheDevices ==
  stage = "ready" =>
    \A b \in BlockIds(header) :
      /\ host = "biased" =>
           /\ weights.biased[b] = Banks
           /\ \A bank \in Banks :
                View(header, b, BiasName(bank)).len = BiasBytes(header, b, bank)
      /\ host = "plain" /\ b = 0 => weights.biased[b] \subseteq {"ffn_down_exps"}
==============================================================================
