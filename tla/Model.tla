--------------------------------- MODULE Model ---------------------------------
(***************************************************************************)
(* The Model of crates/moearc-engine/src/moe.rs in three views, none of    *)
(* which shares a variable with another:                                   *)
(*   "admission"  its two admission policies behind one interface: which   *)
(*                of them decides is settled when the model is loaded, and *)
(*                every call goes to that one (ExpertCache, StaticSplit);  *)
(*   "decode"     the experts of a token, with the device's queue, the     *)
(*                cache and the host executor's promise (Decode);          *)
(*   "load"       how it is built from a file (ModelLoad).                 *)
(***************************************************************************)
EXTENDS ExpertCache, TLC

CONSTANTS
  Views,
  Blocks, NExpert, ResidentBlocks, RingSlots, \* the shape the static split sees
  SplitDemands, SplitSteps,                   \* bounds on it
  DecodeBlocks, Ids, K, DecodeCapacity, MaxHost, FailAt, DecodeClock, DecodeSteps,
  MaxU, Quants, Files, Replacements, Residencies, HostPolicies, HostRams, EnginePage,
  PlannerPage, HeadroomPercent, DeviceTypes, HostTypes, MaxBatchedMats

VARIABLES
  view,
  \* The policy, and StaticSplit.
  policy,
  pinned_filled, ring, ring_next, split_stats,
  split_at, split_needed, split_next, split_hits, split_loads,
  \* Decode.
  d_occupant, d_slot_of, d_last_used, d_clock, d_stats, d_at, d_needed, d_next, d_hits,
  d_loads, pc, block, wanted, cpu_pick, staged, job, host, cpu_out, queue, lost, pool,
  weights, weights_sub, ffn, cpu_ffn, h,
  \* ModelLoad.
  disk, header, mapped, stage, l_weights, residency, slots, kv, l_host, routing

split == <<pinned_filled, ring, ring_next, split_stats, split_at, split_needed,
           split_next, split_hits, split_loads>>
decoding ==
  <<d_occupant, d_slot_of, d_last_used, d_clock, d_stats, d_at, d_needed, d_next, d_hits,
    d_loads, pc, block, wanted, cpu_pick, staged, job, host, cpu_out, queue, lost, pool,
    weights, weights_sub, ffn, cpu_ffn, h>>
loading == <<disk, header, mapped, stage, l_weights, residency, slots, kv, l_host, routing>>

Split == INSTANCE StaticSplit WITH
  MaxDemands <- SplitDemands, MaxSteps <- SplitSteps, stats <- split_stats,
  at <- split_at, needed <- split_needed, next <- split_next,
  hits <- split_hits, loads <- split_loads
D == INSTANCE Decode WITH
  Blocks <- DecodeBlocks, Capacity <- DecodeCapacity, MaxClock <- DecodeClock,
  MaxSteps <- DecodeSteps, occupant <- d_occupant, slot_of <- d_slot_of,
  last_used <- d_last_used, clock <- d_clock, stats <- d_stats, at <- d_at,
  needed <- d_needed, next <- d_next, hits <- d_hits, loads <- d_loads
L == INSTANCE ModelLoad WITH weights <- l_weights, host <- l_host

ASSUME ModelAssumption ==
  Split!ShapeAssumption /\ Split!BoundsAssumption /\ D!ConfigAssumption
  /\ L!LoadAssumption

-----------------------------------------------------------------------------
AdmissionInit == policy \in {"lru", "static"} /\ Init /\ Split!Init

AdmissionNext ==
  \/ policy = "lru" /\ Next /\ UNCHANGED <<policy, split>>
  \/ policy = "static" /\ Split!Next /\ UNCHANGED <<policy, vars>>

ModelInit ==
  /\ view \in Views /\ AdmissionInit /\ D!Init /\ L!LoadInit
  /\ view = "admission" \/ policy = "lru"
  /\ view = "load" \/ disk.tensors = <<>>

ModelNext ==
  /\ UNCHANGED view
  /\ \/ view = "admission" /\ AdmissionNext /\ UNCHANGED <<decoding, loading>>
     \/ view = "decode" /\ D!Next /\ UNCHANGED <<policy, vars, split, loading>>
     \/ view = "load" /\ L!LoadNext /\ UNCHANGED <<policy, vars, split, decoding>>

ModelSpec == ModelInit /\ [][ModelNext]_<<view, policy, vars, split, decoding, loading>>

-----------------------------------------------------------------------------
(* The properties of the views; their modules say what each is about.      *)
\* admission: the plan of the static split keeps what it promised until it is handed over;
\* its ring holds streamed experts only, none of them twice; and a miss above the split always
\* finds a position the step can spare, so that admit never returns with half a plan committed.
SplitPlanKept ==
  Split!TypeOK /\ Split!PinnedKept /\ Split!RingDistinct /\ Split!VictimExists
\* decode: every answer is the sum the router asked for.
AnswersAreWhole == D!AnswersAreWhole
\* decode: what the cache calls resident is filled.
ResidentIsFilled == D!ResidentIsFilled
\* decode: cpu_out is not written while a copy of it is queued.
CpuOutStable == D!CpuOutStable
\* load: an expert's bytes are its own.
ExpertsAreTheirOwn == L!ExpertsAreTheirOwn
\* load: a planned load stays within its plan, an expert within its slot.
BudgetsHold == L!BudgetsHold
\* load: the biases the host adds are the device's, in every block.
HostBiasesAreTheDevices == L!HostBiasesAreTheDevices
\* load: a planned load stays within its plan, whichever block is largest in which bank.
PoolWithinPlan == L!PoolWithinPlan
==============================================================================
