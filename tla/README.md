# MoEArc: a verification project

MoEArc runs mixture-of-experts models on Intel Arc GPUs: it keeps the weights of
as many experts as fit on the device, streams the others in, and gives some of
them to the CPU. Around that engine are an HTTP server over llama.cpp or the
engine, and a command that downloads models, plans, launches and watches
`llama-server`, benchmarks, and has a terminal interface. This directory holds
TLA+ modules for the parts that are hard to test, the TLC configurations that
check them on small instances, and TLAPS proofs that some of their properties
hold for every instance. Line numbers are those of the sources under
`src/crates/`.

## 1. The system

| Component | State | Operations | Talks to |
|---|---|---|---|
| **Host expert executor** `moearc-engine/host_experts.rs` | job cell, epoch, acks, two task cursors, a counter and a gate between the phases, buffers | `submit`, `sync`, `Drop`; worker loop `run_job` | called by `Model::decode`; threads share atomics |
| **Expert cache** `cache.rs` and **static split** `moe.rs:1179-1300` | slot occupants, reverse index, times of use; filled slots, ring and cursor | `admit`, `resident`, `clear` | decide for `decode` |
| **Decode** `moe.rs:1885-2443`, `State` | activations on the device, staging, a host job; position, page tables, KV pools, ring of windowed blocks | one token: attention, then experts, block by block; `reset` | cache, executor, allocator, kernels |
| **Paged KV allocator** `kv.rs` | free list, page tables, token counts | `begin`, `append`, `end` | `State` |
| **Loading** `moe.rs:1-1180, 1580-1780`, `moearc-model/{gguf,tensors,lib}.rs` | index of a file, mapping, weights, slots, pools | `Gguf::parse`, `Config::from_model`, `Weights::upload`, residency, `State::new` | the file, the planner |
| **Kernels** `moearc-kernels/` | buffers of the device | launches, their CPU twins, the wrappers' checks | `decode` |
| **Engine session** `session.rs` | a mutex, two channels, the device thread | `load_with`, `run`, `generate_with`, `reset`, `Drop` | device thread owning `Model` and `State` |
| **Planners** `memory.rs`, `host_budget.rs` | none | `plan`, `plan_llama`, `place` | loading, `serve`, the interface |
| **Residency simulator** `residency.rs` | one of ten replacement policies at work | `simulate` | `bench` |
| **Server: engine link, token loop, streaming** `moearc-server/{engine,generate,routes,tokenize}.rs` | a mutex, two channels, a context; transcript, text, what was emitted | `generate`, `drive`, `chat_stream`, `completion_stream`, `serve` | llama.cpp, clients |
| **Server: start, requests, sampling** `bin/moearc-server.rs`, `chat.rs`, `gguf.rs`, `openai.rs`, `sampling.rs` | tokenizer, template, generator; knobs, ids | `main`, `to_params`, `sample` | the token loop |
| **llama.cpp binding** `moearc-llama/` | tail of a log all threads share, contexts | `load`, `new`, `generate`, `reset` | llama.cpp |
| **Download** `moearc-model/pull.rs` | final file, partial file, stamp | `pull_async` | the Hub, the file system |
| **Serve** `moearc-cli/{serve,fit}.rs`, `tuning/` | profiles, plan; child, its log, confirmation | `build_plan`, `resolve`, `info`; `run`, `await_ready`, `Drop` | planners, the child, `/health` |
| **Bench** `moearc-cli/bench/` | findings, points, curves | `run`, the guards, `bench-run` children, replay | simulator, engine, `llama-bench` |
| **Interface** `moearc-cli/tui/` | cursors, reports, fits, placements | `update`, `on_key`, the loop | detection, catalogue, planners |
| **Devices** `moearc-device/`, `detect.rs` | three views of the machine | scan, enumerate, join | sysfs, Level Zero, Sysman |
| **Catalogue** `catalog.rs`, `source.rs` | handles of the models in a directory | `scan`, `resolve`, selection of a file | the directory, the Hub |

### What is hard

* **Threads over shared memory without locks.** The executor's workers claim
  tasks with `fetch_add` on cursors that the next `submit` resets, read buffers
  other workers wrote, and are told apart from late ones only by epochs.
* **Work that has been submitted and has not happened.** The device executes in
  order and later; host buffers handed to it must not change until then, and what
  the cache calls resident is filled only after the copies have run.
* **A call that fails in the middle.** `decode` has a dozen `?` between a cache
  decision or a published job and the point where it has been carried out; a load
  has six stages; a device is asked of three sources one after the other.
* **Reuse.** KV pages, ring positions, slots, scratch buffers and contexts are
  used again by the next token, block, sequence or request and never cleared.
* **Two descriptions of one thing.** Four walks over every weight format, a CPU
  twin for every kernel, a planner beside the allocation it plans for, two sources
  (`-c`, `-ncmoe`) for one pool: each must agree with the other.
* **Several clients of one context**, each of which may leave at any frame.
* **What outlives a process**: a partial download, a child, a handle printed by one
  command and typed into the next, a profile measured on another machine.
* **Numbers that look right.** A benchmark rests on readings taken at different
  moments; a wrong hit rate, speed, budget or verdict is as plausible as a right one.

## 2. The modules

Each module is one component; four of them compose others into something TLC runs.

| Module | Models | Composed in |
|---|---|---|
| `ForkJoin` | abstract: what `submit`/`sync`/`Drop` promise | refined by `HostExecutor` |
| `HostExecutor`, `HostExecutorProofs` | `host_experts.rs`, an action per atomic access | itself |
| `PinnedLru` | abstract: what `ExpertCache` promises | refined by `ExpertCache` |
| `ExpertCache`, `ExpertCacheProofs`, `StaticSplit` | `cache.rs`; `StaticSplit` of `moe.rs`; an action per demand of an `admit` | `Model` |
| `Decode`, `DecodeProofs` | expert half of `decode`, with the cache, the executor's promise and the device queue | `Model`, `Engine` |
| `Gguf`, `ModelLoad` | a file's index, its checks, slices; a load in its stages | `Model` |
| **`Model`**, `ModelProofs` | views *admission* (the enum over both policies), *decode*, *load* | `MCModel` |
| `PagedKv`, `PagedKvProofs` | `kv.rs` | `Engine`, `KvAttention` |
| `KvAttention` | attention half of `decode`, `State` | `Session` |
| `Session` | `session.rs` over `KvAttention` | `Engine` |
| `Quant`, `Launch`, `Forward` | weight formats; each launch with its twin; the launches of a token | `Engine` |
| **`Engine`**, `EngineProofs` | views *pages*, *session*, *experts*, *kernels* | `MCEngine` |
| `Server` | `engine.rs`, `generate.rs`, `routes.rs` with their text helpers | `Serving` |
| `Startup`, `Sampling`, `Llama` | `main` of the server; knobs to tokens; the binding | `Serving` |
| **`Serving`**, `ServerProofs` | views *requests*, *startup*, *sampling*, *llama* | `MCServer` |
| `Pull` | `pull_async` and what outlives it | `Cli` |
| `VramPlan`, `Tuning`, `ServePlan` | the planner; profiles, resolution, comparison; `build_plan` and `info` | `Cli` |
| `Supervisor` | the child of `serve` | `Cli` |
| `Residency`, `Shape` | the simulator; captures replayed at a ladder of capacities | `Cli` |
| `Bench`, `Timed` | the run and its guards; its timing children | `Cli` |
| `Tui` | the interface | `Cli` |
| `Devices`, `Catalog` | detection; handles and selection of files | `Cli` |
| **`Cli`**, `CliProofs` | one process, one command: *pull, plan, serve, replay, bench, bench-run, tui, devices, models* | `MCCli` |

Views and commands share no variable: they are separate questions asked in one
run. The real compositions are `Decode` (cache, executor, queue), `Session` over
`KvAttention` over `PagedKv`, `Model`'s admission, `Server` (routes, token loop, link,
engine thread), `ServePlan` over `Tuning` over `VramPlan`, `Shape` over
`Residency`, and `Model`'s load of a file that `Pull` may replace (as another file
under the same path).

How state corresponds to code, where it is not one variable for one field:

* **HostExecutor.** Buffers (`act`, `xsum_act`, `out`) hold the number of the job
  each element was computed for. `dev` and `pc[w]` are the program points between
  two atomic accesses. Parking is left out: a parked worker wakes by itself after
  50 ms. `stray` is a history variable: a job was dropped and no sync has
  succeeded yet.
* **ExpertCache, StaticSplit.** `needed`, `next`, `hits`, `loads` are the locals of
  the running `admit`, kept so that its half-made plan can be spoken about.
* **Decode.** An activation is the sequence of its summands, each naming the
  expert whose three matrices were multiplied and whose weight scaled it. `queue`
  holds what was submitted and has not run; `host` says what the executor still
  promises (`HostExecutor` implements `ForkJoin`, which is all that is used).
* **KvAttention, Session.** A key is the sequence and position it was computed
  for; `attn` is what the last attention read. `holder` is the lock; `cmd` and
  `reply` the channels.
* **ModelLoad, Gguf.** Sizes are small numbers, sums saturate at `MaxU`; a file is
  its index, its bytes are whose they are. The stages of `load` are actions, and
  between two opens the path may be renamed over.
* **Kernels.** A value is where it comes from: a sum the bag of its terms, an
  element the bits that make it. There is nothing but initial states; an
  invariant is an equality over all shapes.
* **Server.** A prompt of request `r` is a sequence of `r`s, so `kv` shows whose
  tokens it holds. `outbox` is what the request's thread must still send before it
  goes on; `wire` all it has sent.
* **Sampling.** Logits are integers, knobs fractions, the softmax is to base two,
  and overflow to infinity is at `Huge`.
* **Pull.** Block `i` of version `v` is `<<v, i>>`. `synced` counts the blocks that
  survive a power loss for certain.
* **Bench.** The load average is another value whenever it is read. **Timed**
  counts time in steps; the machine's disk counters go on when a child ends.
* **Tui.** A fit or a tuning is what it was computed from.

Operators named for a fault (`ClaimALoadOnly`, `ResetThenUnlock`,
`RenameUnchecked`, `TrustsOneRun`, ...) are not part of the specifications. Each
is a version of the definition after it with a plausible bug, and putting it in
that definition's place makes the property named for it in `PROJECT.json` fail.

## 3. The runs

| Run | Instance | Properties |
|---|---|---|
| `HostExecutor` | 3 workers, 2 jobs of 0-2 experts, 2 chunks in phase A; no panic, no dropped job | `JobExclusive`, `NoTaskTwice`, `BarrierHolds`, `ImplementsForkJoin`, `DropJoins` |
| `HostExecutorFaults` | 2 workers, 3 jobs of 0-1 experts, of which the first may be dropped; panics | `SyncReturns`; `ImplementsForkJoin` but for one torn success after the dropped job, the next being whole again |
| `HostExecutorAbandonRace` | 2 jobs, either of them dropped, no panic | **violated** `JobExclusive` |
| `Model` | admission: 2 slots, 4 experts, 0-3 demands with repetitions; split: 2 blocks of 3 experts, one of them resident, ring of 2; decode: 2 blocks of 2 experts, 3 slots, 2 on the CPU, submit, sync and add may fail; load: 14 whole files, 15 flawed and an empty one, 15 residencies | `CacheIsSound`, `SplitPlanKept`, `ImplementsPinnedLru`; `AnswersAreWhole`, `ResidentIsFilled`, `CpuOutStable`; `ExpertsAreTheirOwn`, `BudgetsHold`, `HostBiasesAreTheDevices` |
| `LoadPoolOverrun` | the loads | **violated** `PoolWithinPlan` |
| `DecodeStageFault` | `Decode`, a refused staging copy | **violated** `ResidentIsFilled` |
| `Engine` | pages: 3 sequences over 5 pages of 2; session: 2 callers, 2 calls, 3 sequences, 3 blocks, window 3, context 5, table and block uploads fail; experts: 1 slot, every call fails; kernels: section below | `PagesAccounted`, `TokensStay`; `AttentionSeesItsOwn`, `CallOwnsTheDevice`; `CallsReturn`; `KernelsAgree`, `SharesAreTheirOwn` |
| `Server` | 2 requests of all kinds, context 3, batch 1, stream of 1, panics on both sides; every combination of files beside a model; 14 sets of knobs over three-token vocabularies; one thread that generates twice or two that load | `ContextIsTranscript`, `StreamIsBody`, `Completes`; `NothingIsSilent`; `DrawnFromItsOwn` |
| `Cli` | section below | `DownloadIsWhole`, `Converges`; `CommandFits`, `MeasuredIsMeasured`; `ConfirmedIsTrue`, `NothingLeftBehind`, `CommandEnds`; `ComparedFairly`; `TrustIsEarned`; `ScreenIsTrue`; `DevicesAreTrue`; `NamesAreKept` |
| `PullPowerLoss` | pulls, publications only between calls | **violated** `DestIsWhole` |
| `BenchSweepRefused` | a sweep of the incumbent over two thread counts | **violated** `SweepIsNotRefused` |
| `TuiServeFindsNoDevice` | `moearc serve` opened in a terminal | **violated** `NoDeviceIsTrue` |

What the less obvious properties say:

* `CacheIsSound`: index and slots are each other's inverse, a plan takes nothing
  back, moves nothing twice and always finds a victim. `SplitPlanKept`: the same of
  the ring.
* `CallOwnsTheDevice`: from its first command to its last reply a caller gets only
  its own replies, the context holds only what its call fed, and a failed load and
  a drop return after the teardown.
* `KernelsAgree`: every launch writes each place at most once, reads inside the
  buffers its wrapper requires, and makes of them what its CPU twin does, in every
  format and walk. Of a softmax row with nothing to see it claims no agreement, and of the
  two softmax gatings only that each is what its twin computes (section 7). `SharesAreTheirOwn`: after the launches of a token, started from
  arbitrary leftovers, the block's output is each named expert's product with its
  own weight and biases, whoever computed it.
* `BudgetsHold`: what a planned load allocates stays within its plan when all blocks
  peak together. `HostBiasesAreTheDevices`: in any file that loads, a host that was told of
  biases adds, in every block, what the device adds there; a host told of none agrees with
  block 0's gate and up banks and, as section 7 says, with no more.
* `NothingIsSilent`: a fallback at startup is said; a failed load carries its cause.
  `DrawnFromItsOwn`: a token is one the request's knobs allow (compared with an
  order-free definition of top-k and top-p), from logits of its own context.
* `CommandFits`: the launched `-c` and `-ncmoe` fit the card together, whatever mix of
  profile, planner, trained context and override they come from; the planner's
  answer is the best feasible one and is refused only when there is none.
* `MeasuredIsMeasured`: every setting labelled measured has a profile of this card,
  model, quantisation and CPU for a witness; and `info` calls a tweak a win or a
  regression only between two scores of more than one run each and of the same question.
  Between two with error bars a verdict also means that they are further apart than either's,
  far enough apart means a verdict, it is the opposite the other way round, and wins never
  lead back. Of a score without spread nothing more is said (section 7).
* `ConfirmedIsTrue`: a device said to be confirmed has, in the child's own numbering, the
  pinned id and the name planned for; it is the card itself when the child numbers the
  devices as `--list-devices` did, and otherwise it or a namesake listed beside it.
* `TrustIsEarned`: a citable number passed every guard with readings that were of its
  own process; a child's report is of its own pass, and nobody else's counters.
* `ComparedFairly`: no policy holds more than its capacity, none (but W-TinyLFU, which
  may bypass) misses less often than the bound; every leg of a row is of the same
  demands; the knee and the claims follow from the rows.
* `ScreenIsTrue`: fits, tunings and placements are of the device, card, context and
  budget shown beside them; cursors and fields point at what is there.
* `DevicesAreTrue`: a budget is video memory of its own device, discrete devices come
  first; a card is on one device of its model or said to be missing. `NamesAreKept`: a handle means one file, the same to the next
  command or none, with the exceptions section 7 names.

Most type invariants are conjuncts of these properties (`DownloadIsWhole`,
`CommandFits`, `ConfirmedIsTrue`, `ComparedFairly`, `TrustIsEarned`,
`AttentionSeesItsOwn`, `ContextIsTranscript`, `SplitPlanKept`); those of
`ExpertCache`, `PagedKv`, `HostExecutor` and `Decode` are proved or part of what
is, and are not run again.

### Bounds, and why they are enough

* *HostExecutor*: what goes wrong between jobs goes wrong between one and the next
  (a late worker, a cursor not reset, a leftover buffer). Two chunks and two experts
  give more tasks than workers, so that claims race and a worker takes several. Job
  sizes include 0, which takes its own path through `run_job`. A dropped job needs two after
  it, one that it may tear and one that must be whole again: three in the run with faults.
  The proofs remove these bounds.
* *Admission*: two slots and four experts give hits, fills, evictions, a step as large
  as the pool, one larger than it (refused) and an eviction chosen by age. A ring of
  two meets a streamed block of three experts, so that one is evicted for another,
  skipped because it is still needed, and refused when three are asked for. Proved
  for all.
* *Decode*: two blocks and two tokens, so slots, weights and `cpu_out` are used again
  within a token and across tokens, by a pool that holds neither all nor enough for two
  blocks. Proved for all.
* *Loading*: a file has two blocks of two experts, with either block and either bank the
  larger one, or one flaw, one with the down banks'
  biases alone; fifteen residencies from "none fits" to "all fit".
* *Pages*: proved for all. *Session*: a window of 3 is no multiple of the page of 2, and a
  context of 5 wraps the ring; two callers are a holder and a waiter; three sequences let
  what a failed or reset one left be met by two others. Proved for all, but for
  `CallsReturn`.
* *Kernels*: sub-groups of two lanes, rows of up to 65 columns and heads of up to five
  channels: every loop has a full pass, a part of one and none, and every mask has
  something to mask. Half floats have 3+2 bits and floats 4+5, so that rounding,
  subnormals, overflow and ties all occur. The fused launches go up to and past
  `MAX_BATCHED_MATS` = 4; the router names three experts of four, of which the host
  takes some, none or all. `Forward` starts one block from arbitrary leftovers, which is
  why one block is enough.
* *Server*: a context of 3 with prompts of 2 makes both refusal and a full context
  happen; a batch of 1 makes every prompt longer than a batch, a stream of 1 makes every
  sender wait. The stop string spans tokens and ends inside one; one token ends inside a
  character.
* *Sampling*: three tokens, fields out of range in either direction, logits that overflow.
  *Startup*: every combination of seven headers with the files beside it. *Llama*: threads
  that overlap in `load` or `new`, and one that generates twice.
* *Pull*: versions of 2 and 3 blocks make every comparison of lengths come out both ways;
  two publications allow going back to an earlier version, the one case in which a stamp
  is right and the partial file too long; two failures, one forced call, one power loss.
* *Plan*: cards from "nothing fits" to "all fits", profiles that differ from the machine in
  one field each, two in either order. *Serve*: lists of one and two devices in either
  order, two of one name, one line of noise.
* *Replay*: all traces of three steps over four experts and three of fourteen steps, long
  enough for W-TinyLFU's counters to halve; every policy; malformed captures.
* *Bench*: the sound machine and every guard failing alone. *Bench-run*: every field of a job
  at its limits; one other tenant of the disk.
* *Tui*: two devices, two models, two readings of the machine, three sets of keys.
  *Devices*: machines of up to three cards, every enumeration and order that differ, one where
  two classes share a name, and two upsets. *Models*: six names that differ in a tag, in case, in a prefix or in none, two edits
  between one command and the next.

`CHECK_DEADLOCK FALSE` is set where the system may stop: `HostExecutorFaults` (section 7),
`Engine`, `Server` and `Cli` and their violation runs (after a drop, a shutdown, the end of a
command).

### Fairness

* *Threads are scheduled*: weak fairness of each worker, of each caller and request thread,
  of the device and engine threads. Nothing stronger is needed: a lock is free or held by a
  thread that will release it, and a bounded number of requests competes for it.
* *What was begun is finished*: the host executor's device thread ends the call it is in, but
  is never obliged to submit, to drop or to panic; a load answers, a join returns.
* *The device executes its queue* and the host part of `decode` goes on (`Engine`, *experts*).
* *A client takes what it is sent or goes away* (`Server`), which TCP and the HTTP server
  give; without it a client that does neither keeps the lock for ever.
* *After a failed call the command is run again* (`Pull`; `pull.rs:668-669` calls it "the
  natural response to any failure"), and failures are bounded.
* *Serve*: the supervisor's loop runs, the kernel delivers what is in a pipe or a signal, time
  passes. *Bench*: its steps are taken. Nothing is assumed of a child, of the user or of the
  other commands.

## 4. What is proved

TLAPS checks these for all values of the constants that satisfy the modules' named
assumptions: finite sets where the code has finite ones, sizes that are natural
numbers and not zero where the code divides by them or rejects zero, `None`-like
values outside the set they extend.

| Theorem | Statement | Assumes besides |
|---|---|---|
| `HostExecutorProofs`: `JobExclusiveHolds`, `NoTaskTwiceHolds`, `BarrierHoldsHolds` | `Spec => []...` | no panics, no dropped jobs |
| `ForkJoinImplemented` | `Spec => ImplementsForkJoin` | the same |
| `ExpertCacheProofs`: `TypeCorrect`, `IndexAgreesHolds`, `PinnedKeptHolds`, `NothingMovedTwiceHolds`, `VictimExistsHolds`, `CacheIsSoundHolds` | invariants of `ExpertCache` | - |
| `PinnedLruImplemented` | `Spec => ImplementsPinnedLru` | - |
| `PagedKvProofs`: `TypeCorrect`, `PagesAccountedHolds`, `WasteBoundedHolds` | invariants of `PagedKv` | no sequence is begun while active |
| `TokensStayHolds` | the action property | the same |
| `EngineProofs!CallOwnsTheDeviceHolds` | `EngineSpec => []CallOwnsTheDevice` | - |
| `EngineProofs!AttentionSeesItsOwnHolds` | `EngineSpec => []AttentionSeesItsOwn` | - |
| `DecodeProofs!CpuOutStableHolds`, `ModelProofs!CpuOutStableHolds` | the action property, of `Decode` and of `Model` | - |
| `ResidentIsFilledHolds`, in both | the invariant | `stage` and `copy` do not fail |
| `AnswersAreWholeHolds`, in both | the invariant | only `submit`, `sync` and `add` fail |
| `CliProofs!DownloadIsWholeHolds`, `ConfirmedIsTrueHolds`, `ScreenIsTrueHolds`, `NamesAreKeptHolds`, `DevicesAreTrueHolds` | invariants of `Cli` | - |
| `ModelProofs!SplitPlanKeptHolds`, `LoadInvariant`, `HostBiasesAreTheDevicesHolds`, `ExpertsAreTheirOwnHolds` | invariants of `Model` | - |
| `ServerProofs!LinkInvariant`, `ContextIsTranscriptHolds`, `StreamIsBodyHolds` | invariants of `Server` | - |
| `ServerProofs!ViewsInvariant`, `NothingIsSilentHolds`, `BindingSamplesItsOwn`, `ServedInEveryView` | invariants of `Serving` | - |

**HostExecutor.** `IInv` is the handshake: while a job is in flight every worker has not
woken for it, is inside it or has acknowledged it, and at any other time all have
acknowledged the last epoch. That is inductive by itself and gives `JobExclusive`. The
other three need `FullInv`, which adds the tasks: every task below a cursor is finished
or in the hands of exactly one worker, and `done_a` is the number of finished ones (a
cardinality), so when the counter reaches the total the gate may open. `ForkJoin` follows
from a sync waiting for every acknowledgement, and a worker acknowledging only when no
task is left. The two assumptions are the caller's side: without them `JobExclusive` is
false (the violation run), and `HostExecutorFaults` shows what remains true.

**ExpertCache.** `IInv` strengthens the properties by `PlanTruth` (every entry of the plan
names a slot that holds its expert, one the step needs), `Covered`, `Fits` and
`EvictedUnneeded`. A victim exists by counting: a full pool holds `Capacity` experts, the
step needs at most as many different ones, and the demand in hand is one of them and not
resident. The refinement maps the time stamps to the order of use; `NewestIsLast` says the
clock makes the last one used the youngest.

**StaticSplit** (`ModelProofs!SplitInv`). Slots of the ring are distinct, what the plan
names is where the plan says, and what is still pinned fits the ring, so a miss that
passed the refusal finds a slot that is free to go. No step of another view touches it.

**Decode.** Three invariants, each on top of the one before. `BaseInv`: the cache's own
(`ExpertCacheProofs` by instance), `SharesInv` (the two shares of what the router named have
its length and its elements between them) and `QueueInv` (the order of the device's queue at
each point of the host's program). That is enough for `CpuOutStable`: where `sync` may write,
the queue holds no copy of `cpu_out`. `FilledInv`: every bank of an occupied slot holds the
slot's expert, or a copy of it is queued, or is about to be staged. `SumInv`: the executor's
job is this block's, the products are of the right experts, and what is in `h` or will be
once the queue has run is the whole sum of every block done. The hypotheses are what the code
needs. A refused staging copy leaves a slot that the cache believes in (`DecodeStageFault`
violates `ResidentIsFilled`); a failed upload or launch leaves a job nobody synced, which may
tear the next one (`HostExecutorAbandonRace`). `ModelProofs` carries the theorems over to the
specification that is run.

**Load** (`ModelProofs!LoadInv`). Every stage goes by the one header that was read: it
configures, the weights are its weights, and the executor is told of its first block's bias.
That a host with biases agrees with the device in every block, and not only in the block that
was asked, goes by what it uploads for itself: it refuses a file in which any block lacks a
bias of any bank, and reads what the device reads (`HostIsTold`). That an expert's slice is its own
blocks of elements goes by widths. Sizes saturate at the largest unsigned number, and the file
is shorter than that, so a tensor that fits has a size nothing was lost from, and all factors
of its element count are exact. The slice the code takes, bytes over experts, times the number
of experts is then the whole bank, so every expert has a whole number of blocks and those of
expert `e` follow those of the experts before it. The product over the dimensions is a
recursive function; what a longer prefix multiplies to goes by the least prefix at which it
would be wrong (`LeastOf`). `LoadAssumption` says that a header's numbers are unsigned, the
widths of a quantisation positive and no file as long as the largest number.

**Server.** `IInv` says where the request past the lock is (resetting, decoding, sampling,
emitting), and with that what is on the two channels and how much of its prompt and of what
it has accepted is in the context. At most one request is past the lock, because it is
given back only when nothing is under way.

**Streams** (`ServerProofs!StreamInv`). Between two tokens, everything that may be shown has
been sent or is in the outbox: the text so far without the longest end of it that could still
become a stop string. Once a stop is found the text is what precedes it, all of it is on its
way, and nothing follows but the end. Two facts about text carry this over a token. The text
that was safe stays the beginning of the text that is safe with one more token: what is held
back is never taken back (`HeldGrows`, and `WholeGrows` for a character that is not whole
yet). And the first stop string that a token completes begins no earlier than what was held
back (`StopIsBeyond`), so cutting it off takes nothing from what was sent. The client enters
only by leaving: what was sent then stands. The order of the frames, one `finish` or `error`
and then `done`, is the other half. Strings, their overlaps and the concatenation of pieces
are finite sequences and recursive functions; the lemmas about them go by the least length at
which a claim would fail.

**Startup** (`StartInv`). For each stage, what it has chosen and said as a function of the
files and options of the launch, with nothing said early and nothing said twice; a refusal is
one of the known ones. So what a served request is answered by can be traced to the warning
that announces it.

**Binding** (`BindingInv`). While a call is alone, what the process-wide log has grown by since
it began is its own, so the tail it reads explains it. Within `generate()` the memory
continued by what is still to be fed is what the context held before the call, the prompt and
the tokens so far, which is `BindingSamplesItsOwn`. The patterns for `-ncmoe` name a block by
its numeral, so the proof needs that two blocks have different numerals and that no numeral
contains the delimiter (`DigitsApart`), and that the reserved list of overrides never grows
past its room, which would take the text away from those before.

**Serving** puts them together: `ViewsInv` holds in every view, the variables of the others at
rest. Recursive functions (`Digits`, the text of the tokens, the lines that the log keeps) are dealt with by
`Recursion`, which says that a step function has exactly one run of any length; it and
`Ladder` replace induction by the least number that escapes. Besides the shapes of their
arguments, `TextAssumption`, `StartupAssumption` and `LlamaAssumption` say that a token has a
text, that a file beside a model is of one of the known kinds, that a row of a cache is a whole
number of the 32 elements a quantized type scales together, and that counts are natural numbers.

**Session** (`EngineProofs!CallInv`). The same argument over more callers and a device thread
that may die: where the holder is decides what is on the channels, what the thread is doing
and how many of the call's tokens are in context. Between calls there is nothing on either
channel but a shutdown. A failed load, a drop, a panic in decode and one in a callback, which
poisons the lock, are steps like the others.

**KvAttention** (`EngineProofs!KvInv`). The page accounts are those of `PagedKvProofs`, by
instance for the model's one sequence; the guard that allocator asks of its callers, not to
begin an active sequence again, is proved here of `State::begun` instead of being assumed. To
them the invariant adds that `n_kv` is the sequence's count, that the device's table agrees
with the host's unless a call has failed, and that every block still has the key of every
position it has written and not overwritten: all of them for a full block, the last
`SwaPages * PageTokens` for a windowed one. The ring arithmetic (`RingPlaces`, `WindowKept`)
shows that two such positions never share a place and that the window lies among them, for
any window, page size, context and pattern of blocks.

**Pull** (`CliProofs!PullInv`). The property speaks of files at rest; what makes it inductive
is what a call has in hand. Undisturbed, a running call asks for the version the Hub has; from
the stamp on, the stamp is that version's; and while it streams, the partial file, the blocks
in its buffer and those still to be served continue one another and together are no longer
than the version. So any prefix of the buffer may reach the file when the call fails, and the
next call resumes at its length; a file is renamed only at the full length. `PullAssumption`
says that an absent file and a torn stamp are neither a file nor a version.

**Supervisor** (`CliProofs!SupInv`). Every row in the pipe, on the channel or taken is one of
the table the child numbers its devices by, and a confirmation reads only what was taken; so
it does not matter what the earlier listing said, where the log breaks off, or who is killed.
That gives the name (`PinIsNamed`). For the card itself the child's table must be the list the
pin was chosen from: then the row with the pinned id is the one chosen, ids being unique, and
of the candidates the card is the closest to its own size (`SelectedIsWanted`).
`SupAssumption` says that a list names each of its devices once, that sizes are natural
numbers, and that the card planned for is still in the machine.

**Tui** (`CliProofs!TuiInv`). The plans follow from the reducer alone: whatever changes an
input computes them again or clears them. That no answer moves the screen away under the open
field needs the loop: effects are performed before a key is polled and their answers are
queued before it, so when a key opens the field nothing is pending and only a tick is left in
the inbox (`LoopInv`). The cursors need that they go round by a remainder, the dial that a
least covering rung exists, the budget that every way to it is cut to the machine measured
last. `TuiAssumption` says that lists are lists, sizes natural numbers, and an absent option
neither a transfer nor a served model.

**Models** (`CliProofs!CatalogInv`). A scan reads every path once, so two cards are of different
files and the order by size and then by place is total. That is what lists them: an ordered
finite set is enumerated by how many come before each, once each (`Enumerated`, by counting).
Handles then go by claims: a handle that was shortened has one claimant, so two equal handles
mean two equal names or a tag that follows the same tag, and those two cases the property
excepts. For a listed handle looked up in a later scan the file's own handle is either the same
(and first, being the only one), longer (and mentions it, so that the part search finds it or
too many), or shorter, the exception. `CatalogAssumption` says that names are sequences of parts,
sizes and places numbers, no two files have one place, and a directory is finite.

**Devices** (`CliProofs!DetectInv`). A reading is of a card and holds a figure its memory has had,
which neither a lost card nor taken memory undoes (`free` only grows); so whichever order Sysman
lists the cards in, the reading with a device's uuid is one of that device, and a budget is cut
to what is installed. Evidence is settled when the detection fails, and a failure ends it. The
pairing is followed device by device: what the first n took, no two the same and each of its
device's model, and what is left over add up to what was scanned (`TakenBy`, `Accounted`), and a
device that got none never finds one later, since what is left only shrinks. The rows are the
devices in an order that is total, each once (`Enumerated` again); the first row that is ready is
therefore discrete if any ready device is, provided the class looked up by name is the device's
own: `NamesTellClass`, without which TLC finds the counterexample of section 7.
`DevicesAssumption` says that a machine has finitely many cards, addresses are not 0, sizes are
natural numbers, and the lists name cards it has.

**Left to TLC.** Liveness under fairness (`SyncReturns`, `DropJoins`, `CallsReturn`,
`Completes`, `Converges`, `NothingLeftBehind`, `CommandEnds`), which the prover does not
handle. `KernelsAgree`, `SharesAreTheirOwn`, `ComparedFairly`, `CommandFits`,
`BudgetsHold`, `MeasuredIsMeasured` and `TrustIsEarned`, which rest on folds or recursive
functions over data (sums, a simulator, a search), whose results would need induction. Of
`DrawnFromItsOwn` the binding's half is proved (`BindingSamplesItsOwn`: the context a token
is drawn from); that the draw is one the request's knobs allow, a sort and a cut of the
candidates, is left.

## 5. Order of work

Done: every component named in section 1, composed and run; the proofs of section 4. The
number of runs is kept at twelve and that of properties at forty, so that a full
verification stays small enough to run on every change.

Next: the benchmark's half of `TrustIsEarned`, whose fold over the depths could be written as
a recursive function and reasoned about step by step, as the pairing of cards is (`Ladder`,
`Recursion`).

## 6. Hazards

`PROJECT.json` lists every hazard at its line with the properties that would catch it, and
what of it they leave out. Three have none: the spin on `gate_b` after a panic, a `Drop` that
meets a poisoned lock, and a publication that meets a running download (all below).

## 7. What the models show about the code

Violated, as runs:

1. **A job dropped unsynced.** Between `submit` (`moe.rs:2210`) and `sync` (2399) `decode` can
   return through `?`; nothing waits for the job, and the next `submit` rewrites the job cell
   under the workers (`HostExecutorAbandonRace`). The SAFETY comment of `submit`
   (`host_experts.rs:646-647`) argues from a sync that did not take place.
2. **A plan not carried out.** A refused staging copy (`moe.rs:2232`) leaves the cache certain
   of a slot that was not filled (`DecodeStageFault`), which `moe.rs:2171-2176` says must not
   happen.
3. **A rename without a sync.** A partial file already at full length is renamed without
   `sync_all`, which `pull.rs:744-746` calls necessary (`PullPowerLoss`).
4. **A pool larger than its plan.** A plan counts a slot as the largest block's three banks
   together, a slot holds the largest of each bank (`moe.rs:972-974`): with mixed
   quantisations the pool exceeds what the plan left (`LoadPoolOverrun`), against
   `moearc-model/lib.rs:329-331`.
5. **A sweep refused.** A sweep of the incumbent over several thread counts is held against
   the first of them by the count of its last point (`incumbent.rs:216-292`) and always
   refused, although `docs/bench.md:119` says it is quoted at its best (`BenchSweepRefused`).
6. **No device, says the interface.** `moearc serve` opened in a terminal serves before the
   result of its own detection is read from the inbox (`tui/mod.rs:53-86`), so it never finds
   a device (`TuiServeFindsNoDevice`), against `cli.rs:15`.

Seen while modelling, and not runs. *Engine:*

* `host_experts.rs:892-899`: a worker that panics in phase A leaves the others spinning on
  `gate_b`, where `stop` is not looked at; `sync` reports `WorkerDied` but `Drop` then waits
  for ever. Only in builds that unwind.
* `host_experts.rs:69-71`: after `WorkerDied`, `submit` still accepts jobs; each fails at
  `sync`. `new` that fails to spawn a later worker leaks the earlier ones.
* A job submitted while a dropped one still runs may never finish: cursors and counter are
  reset under the old job's workers. `SyncReturns` speaks of jobs not so submitted.
* `kv.rs:136`: `begin` of an active sequence loses its pages. The only caller guards against
  it (`State::begun`); `MayRebegin` is that guard, and `EngineProofs` proves it.
* `moe.rs:1174-1176`: the ring is not "flushed" between two visits of a block when the host
  policy has taken some misses; `SplitPlanKept` holds all the same.
* `moe.rs:1898-1900`: `table_host` is replaced before the upload. A failed upload would be
  taken for a done one, were it not that every caller resets.
* `session.rs:205-218, 456-465`: a panic in `sample` or `on_token` poisons the lock, and `Drop`
  then neither sends Shutdown nor joins.
* `moearc-kernels/lib.rs:184-216`: `Context::finish` claims every wrapper goes through it, but
  upload, download, `gather_experts` and the `require` checks return with work queued.
* A fully masked softmax row is zeros on the device and NaN in the twin, although
  `reference.rs:424-426` says "the kernel does the same"; a causal mask makes no such row, and
  `KernelsAgree` claims nothing of one.
  Infinite logits can leave `topk_router` with 0x7FFFFFFF.
  `embed_rows` does not check its table, `attn_decode_ext` its pages, `gather_experts` its
  sizes.
* `reference.rs:529-531`: the two softmax gatings are said to give different weights; they are
  equal unless the clamp bites, and `KernelsAgree` claims neither. `head_dim` over 1024 and a zero or odd `n_rot` are accepted
  at load and refused at the first decode.
* Loading: `key_length` without `value_length` makes the planner's KV (`lib.rs:402-440`)
  smaller than the engine's (`moe.rs:408-414`); biases are "required to be consistent across
  blocks" (`moe.rs:528-530`) but only block 0 is asked. A file in which block 0 has no
  `ffn_gate_exps.bias` while another block has one, or any block an `ffn_down_exps.bias`
  alone, is loaded; the device adds the bias (`moe.rs:2366`) and the host does not
  (`moe.rs:537, 1761`), though "the host must compute the same function as the device"
  (`moe.rs:1759-1760`). `HostBiasesAreTheDevices` therefore leaves that direction out; with
  equality in every block in its place the run finds both files. `block_count` 0 makes a `clamp` panic;
  `WeightsPartitionMismatch` cannot fire; a file replaced by one at least as long between the
  two opens is mapped under the old header; rows may straddle quantisation blocks.
* Residency: W-TinyLFU may beat "optimal" (`residency.rs:230`), having bypassed; 2Q's ghost
  queue and set drift apart; pins can leave no room, although `residency.rs:270` says
  "eviction can never starve".

*Server:*

* `engine.rs:239-245`: `Drop` does not enter a poisoned lock, so the engine thread is not told
  to stop and the join waits for ever. Release builds abort on panic (`Cargo.toml:42`).
* `routes.rs:389-396`: a request for a body goes on generating after its client has left.
  `routes.rs:29`: a slow client's full channel blocks a thread that holds the engine's lock.
* `engine.rs:214-219`: an empty prompt is refused only after the context was reset.
* `generate.rs:148-150` calls `max_tokens = 0` legitimate, `openai.rs:112` makes it 1. A
  penalty counts once per occurrence; `frequency_penalty` -2 makes positive logits infinite,
  which are then filtered out; a tiny temperature over negative logits does the same to all,
  and the last of an unordered list is drawn (the exception in `Allowed`); with no finite logit
  it is token 0.
* A sibling `tokenizer.json` in a directory of several models is taken for all; a base model
  whose vocabulary holds `<|im_end|>` gets it for its end; the size warning also fires for
  padded vocabularies; an unreadable header is passed over without a word by
  `ChatTemplate::discover`; a directory gets the stub without a warning; `req.model` is echoed
  though `/v1/models/{other}` is 404.
* The binding: two threads loading at once may take each other's cause (`runtime.rs:14`);
  `copy_out` drops the last byte of a full tail; an empty prompt without a BOS is sampled from
  old logits; `generate` neither splits the prompt nor resets; `kv_bytes` of `n_ctx` 0 is 0.

*Commands:*

* `pull.rs:623-636` and 717-724 are two requests: a publication between them puts the new
  version's bytes under the old one's stamp, and a later resume may splice them. `MidCall` with
  `DestIsWhole` shows it; passing a commit as revision avoids it.
* `pull.rs:671`: a finished file counts as current by its size alone. `pull.rs:687, 694`: the
  result of removing the partial file is ignored. Two processes that pull one file share its
  partial file without a lock. Subdirectories of a repository are flattened.
* Plan: `resolve.rs:245` keeps `bank_resident` when it is stale. `info` with `--json` ignores a
  candidate that does not parse, where the text form exits 1; a score typed with its runs
  and without its deviation, `128/5`, counts as an exact one and can win, although
  `compare.rs:236-239` and `cli.rs:378-381` call such a score untrustworthy; and two scores
  without variance differ by 0 sigmas with verdict Win, "the most confident possible wrong
  answer" (`compare.rs:153-155`). `MeasuredIsMeasured` claims neither way of both.
* Plan: a derived `-c` past the trained context is planned again for the trained number
  (`resolve.rs:671-677`), which the planner rounds up to whole pages, so that it may still end
  past it by less than a page, although it "must never exceed" it "on ANY path"
  (`resolve.rs:1399`). `CommandFits` allows that (`launch.ctx < trained + PageTokens`).
* Serve: `confirm_device` is to confirm "the card MoEArc planned against" (`serve.rs:1029`)
  and compares a name: of two cards of one name, renumbered between `--list-devices` and the
  child, the wrong one is confirmed. `ConfirmedIsTrue` allows exactly that. It is to be "before a
  byte of the model is read" (1030) but is looked at every 250 ms, and serving does not require
  it.
* Bench: the incumbent starts without a look at the load (`mod.rs:715`,
  `bench/PROTOCOL.md:55-56`). A sweep that stops in a later invocation drops the earlier results
  of that depth, though "the rows already taken are kept" (`mod.rs:615-626`). A partial total of
  disk reads is not marked as one (`timed.rs:159-191`), holds other tenants' reads, and knows
  only the first device of a pool. With a host policy the hit rate leaves out what the CPU
  took. Depth 0 is reported though the prompt has a token.
* Replay: the foot of a cliff is named the knee, since `shape.rs:401` takes the absolute
  distance while line 194 says past it each doubling buys less (the exception `Cliff`); a trace
  of trivial rows counts against the claim and its gap prints as infinite; `shape.rs:348` "never
  evicts" is false of W-TinyLFU; `covers` matches substrings; a capture cut off at a line is
  taken as shorter.
* Interface: a rescan turns the default budget into a clamped one and ratchets it down; `r`
  clears fits and not tunings; `]` skips a rung from an odd context and lowers it past the last;
  an old failure stays in the status after a rescan that worked. Downloads and serving
  statistics are fixtures.
* Devices: `detect.rs` sorts by kind and name, while `inference_target` takes the first discrete
  device in the order of enumeration. `is_integrated` is looked up under the row's name: where a
  discrete and an integrated device share one, both get the class of the first enumerated, and
  an integrated device may head the list and be what is ready, though `detect.rs:69` says
  "Discrete first" (found when the proof of `DevicesAreTrue` needed it; the property excepts
  it by `NamesTellClass`). A count that drops to 0 says "0 driver(s) are loaded".
* Catalogue: handles can collide after shortening when tags nest (the exception `Nested`,
  against `catalog.rs:218`), of two stems equal but for case the first is taken
  (`catalog.rs:126-128`, `Twins`), and the full stem without `.gguf` no longer resolves.
  A listed handle may come to mean another file: `x-q4` is listed whole beside `x`; once `x` is
  deleted, the same file's handle is `x`, and `x-q4` is looked up as a part of a name, which
  `y-x-q4` may be the only one to hold (`catalog.rs:136-144` promises "exactly one model", and
  it is one). `HandlesKeepTheirFile` excepts this, and the attempt to prove it without found it.

## 8. What is not modelled

* Floating-point error, `silu`, `mul` and `quantize_f16`; event profiling; llama.cpp itself.
* The view of the interface, the printed report, JSON and SSE encoding, log text and error
  wording except where a property is about them.
* `/proc`, sysfs and Level Zero are what their readers make of them; an arriving device is left
  out. `NotExposed` and the advice are left out.
* Memory order of atomics: each access is a step, so reorderings weaker than sequential
  consistency are not explored; the code uses acquire/release pairs on epoch, acks, counters and
  gate, and the buffers are only accessed across them. Parking, hash tables (total functions).
* The load's failing stages are one step of `Session`; views and commands share only what
  section 2 and the head of `Cli` say.
* Simplifications of data: softmax and random noise of the sampler are to base two and a choice;
  text matching is by whole dash-separated parts; logarithms are a table in hundredths; the pool
  of `Timed` is LRU; time is counted in steps.
* Columns of listings, token pieces, metadata getters, `set_n_threads`, coverage curves.

In `PROJECT.json`, rows of one-line helpers that lie inside the lines of the definitions using
them are left out of "map".
