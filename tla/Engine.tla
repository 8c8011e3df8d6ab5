-------------------------------- MODULE Engine ---------------------------------
(***************************************************************************)
(* Four views of the engine, crates/moearc-engine, none of which shares a  *)
(* variable with another:                                                  *)
(*   "pages"    the page allocator with several sequences (PagedKv);       *)
(*   "session"  the callers of a Session, its device thread, and what      *)
(*              decode does with the pages of its one sequence (Session    *)
(*              over KvAttention);                                         *)
(*   "experts"  what the same decode does with the experts, the host       *)
(*              executor and the device's queue, when any of its calls may *)
(*              fail (Decode);                                             *)
(*   "kernels"  what it launches, each launch by itself and the launches   *)
(*              of one token together (Launch, Quant and Forward).  A call *)
(*              is a shape, the fields of the record `launch`, and a       *)
(*              weight format, a number or a forward pass is one as well.  *)
(*              There is nothing but initial states: a launch changes no   *)
(*              state of the program's own.                                *)
(***************************************************************************)
EXTENDS PagedKv, FiniteSets

CONSTANTS
  Views,
  NBlock, SwaPattern, NSwa, NCtx, SessionFails, MaxSequences,
  Callers, Nobody, Prompts, Limits, MaxCalls,
  ExpertBlocks, Ids, K, Capacity, NoExpert, MaxHost, CallFails, MaxClock, MaxSteps,
  HalfExp, HalfMant, FloatExp, FloatMant,
  WG, MATVEC_ROWS, UnitElems, MAX_TOPK, MAX_BATCHED_MATS, MaxHeadDim, ClampBits,
  NEmbd, NHead, NHeadKv, HeadDim, NFf, NExpert, NExpertUsed, NVocab,
  Shapes,   \* the kernel calls, each with its kernel
  Forwards  \* the forward passes

VARIABLES
  view,
  \* Session.
  s_free, s_active, s_pages, s_tokens, begun, n_kv, table_host, block_table, cells, attn,
  s_pc, s_block, page, slot, sequence,
  session, thread, cmd, reply, holder, poisoned, call, calls, context,
  \* Decode.
  occupant, slot_of, last_used, clock, stats, at, needed, next, hits, loads, pc, block,
  wanted, cpu_pick, staged, job, host, cpu_out, queue, lost, pool, weights, weights_sub,
  ffn, cpu_ffn, h,
  \* Kernels.
  launch

sessions == <<s_free, s_active, s_pages, s_tokens, begun, n_kv, table_host, block_table,
              cells, attn, s_pc, s_block, page, slot, sequence, session, thread, cmd,
              reply, holder, poisoned, call, calls, context>>
experts == <<occupant, slot_of, last_used, clock, stats, at, needed, next, hits, loads,
             pc, block, wanted, cpu_pick, staged, job, host, cpu_out, queue, lost, pool,
             weights, weights_sub, ffn, cpu_ffn, h>>

S == INSTANCE Session WITH
  FailAt <- SessionFails, free <- s_free, active <- s_active, pages <- s_pages,
  tokens <- s_tokens, pc <- s_pc, block <- s_block
D == INSTANCE Decode WITH FailAt <- CallFails, Blocks <- ExpertBlocks
Q == INSTANCE Quant
L == INSTANCE Launch
F == INSTANCE Forward WITH Batched <- MAX_BATCHED_MATS

\* Config::from_model refuses a model that uses more experts than a launch takes matrices.
KernelAssumption == NExpertUsed <= MAX_BATCHED_MATS

ASSUME EngineAssumption ==
  S!ShapeAssumption /\ S!SessionAssumption /\ D!ConfigAssumption /\ KernelAssumption

-----------------------------------------------------------------------------
Numbers ==
  [kernel : {"format"}, type : Q!Types] \cup [kernel : {"f16"}, half : Q!Halfs]
    \cup [kernel : {"f32"}, float : Q!Floats] \cup [kernel : {"e8m0"}, byte : 0 .. 254]
    \cup [kernel : {"e2m1"}, code : 0 .. 15]
NoLaunch == [kernel |-> "none"]
KernelInit == launch \in Shapes \cup Forwards \cup Numbers

EngineInit ==
  /\ view \in Views /\ Init /\ S!SessionInit /\ D!Init
  /\ IF view = "kernels" THEN KernelInit ELSE launch = NoLaunch

EngineNext ==
  /\ UNCHANGED <<view, launch>>
  /\ \/ view = "pages" /\ Next /\ UNCHANGED <<sessions, experts>>
     \/ view = "session" /\ S!SessionNext /\ UNCHANGED <<vars, experts>>
     \/ view = "experts" /\ D!Next /\ UNCHANGED <<vars, sessions>>

EngineFairness ==
  /\ WF_sessions(view = "session" /\ S!DeviceThread)
  /\ WF_sessions(view = "session" /\ S!Joined)
  /\ WF_sessions(view = "session" /\ (S!Loaded \/ S!LoadFailed))
  /\ \A caller \in Callers : WF_sessions(view = "session" /\ S!Calling(caller))
  /\ WF_experts(view = "experts" /\ D!Host)
  /\ WF_experts(view = "experts" /\ D!Device)

EngineSpec == EngineInit /\ [][EngineNext]_<<view, launch, vars, sessions, experts>> /\ EngineFairness

-----------------------------------------------------------------------------
(* The properties of the views; their modules say what each is about.      *)
\* session: attention reads exactly the keys of its own sequence that it may see.
AttentionSeesItsOwn == S!TypeOK /\ S!AttentionSeesItsOwn
\* session: whoever holds the lock has the device to itself, and a failed load and a drop
\* return after the teardown.
CallOwnsTheDevice == S!CallOwnsTheDevice /\ S!TornDownFirst
\* session: every call and every drop returns; experts: so does decode, whatever fails.
CallsReturn ==
  (view = "session" => S!CallsReturn) /\ (view = "experts" => D!DecodeReturns)
\* kernels: the four walks over a block of weights read the same element from the same bits,
\* the conversions are exact or round to the nearest, and every launch writes each place once,
\* with its CPU twin's value, and stays inside what its wrapper checked.
KernelsAgree ==
  CASE launch.kernel = "format" -> Q!WalksAgree(launch.type) /\ Q!Packed(launch.type)
    [] launch.kernel = "f16" -> Q!Widened(launch.half)
    [] launch.kernel = "f32" -> Q!Narrowed(launch.float)
    [] launch.kernel = "e8m0" -> Q!Halved(launch.byte)
    [] launch.kernel = "e2m1" -> Q!Doubled(launch.code)
    [] launch.kernel = "matvec" -> L!MatvecSound(launch)
    [] launch.kernel \in {"bias", "combine", "halves", "rmsnorm", "expand", "gather", "softmax"} -> L!BankSound(launch)
    [] launch.kernel = "embed" -> L!EmbedSound(launch)
    [] launch.kernel = "rope" -> L!RopeSound(launch)
    [] launch.kernel = "topk" -> L!TopkSound(launch)
    [] launch.kernel = "attn" -> L!AttnSound(launch)
    [] OTHER -> TRUE
\* kernels: a forward pass gives each expert its own share and asks no buffer for more than it
\* has.
SharesAreTheirOwn ==
  launch.kernel = "forward" => F!SharesAreTheirOwn(launch) /\ F!LaunchesFit(launch)
==============================================================================
