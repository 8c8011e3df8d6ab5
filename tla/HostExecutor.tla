---------------------------- MODULE HostExecutor ----------------------------
(***************************************************************************)
(* The fork-join pool of crates/moearc-engine/src/host_experts.rs: one     *)
(* device thread that submits a block's host-side experts and later syncs, *)
(* and a fixed set of workers that claim tasks from two shared cursors     *)
(* with a barrier between them.                                            *)
(*                                                                         *)
(* One action per atomic access the threads synchronise through.  The      *)
(* bytes of a buffer are abstracted to the job they were computed for:     *)
(* act, xsum_act and out hold job numbers, 0 for anything else, so an      *)
(* expert computed from another job's data is visible in the model.        *)
(* Unparking is not modelled: a parked worker wakes after 50 ms by itself. *)
(***************************************************************************)
EXTENDS Integers, FiniteSets

CONSTANTS
  Workers,      \* the worker threads
  MaxExperts,   \* n_expert_used, the capacity the executor was built for
  ChunksA,      \* row chunks of one expert in phase A (gate and up)
  ChunksB,      \* row chunks of one expert in phase B (down)
  MaxJobs,      \* bound on the jobs of a behaviour
  MaxDropped,   \* bound: of the jobs of a behaviour only the first so many may be dropped
  MayPanic,     \* a task may panic, in a build that unwinds
  MayAbandon    \* the caller may drop a HostJob without syncing it

ASSUME WorkersAssumption == IsFiniteSet(Workers) /\ Workers # {}
ASSUME SizesAssumption ==
  /\ MaxExperts \in Nat \ {0}
  /\ ChunksA \in Nat \ {0}
  /\ ChunksB \in Nat \ {0}
  /\ MaxJobs \in Nat
  /\ MaxDropped \in Nat
ASSUME SwitchesAssumption == MayPanic \in BOOLEAN /\ MayAbandon \in BOOLEAN

VARIABLES
  dev,        \* where the device thread is
  job,        \* the job cell: the job written there and how many experts
  held,       \* the epoch of the HostJob the device thread holds, 0 for none
  reply,      \* what the last sync returned
  stray,      \* history: a job was dropped and no sync has succeeded since
  stop, epoch, acks,
  cursor_a, done_a, gate_b, cursor_b,
  act, xsum_act, out,
  pc,         \* where each worker is
  seen,       \* the epoch each worker last woke for
  mine,       \* n_experts as each worker read it on entering run_job
  claim       \* the task each worker has claimed

device   == <<job, held, reply, stray>>
counters == <<cursor_a, done_a, gate_b, cursor_b>>
buffers  == <<act, xsum_act, out>>
locals   == <<seen, mine, claim>>
vars == <<dev, device, stop, epoch, acks, counters, buffers, pc, locals>>

TasksA == 0 .. (MaxExperts * ChunksA - 1)
TasksB == 0 .. (MaxExperts * ChunksB - 1)
TotalA(n) == n * ChunksA
TotalB(n) == n * ChunksB
NoReply == [epoch |-> 0, outcome |-> "none", value |-> {}]

\* What a worker may be reading or writing the job cell and the buffers in.
InJob == {"claimA", "taskA", "prepare", "barrier", "claimB", "taskB"}
DevAt == {"idle", "writing", "publishing", "inflight",
          "dropping", "joining", "joined"}
WorkerAt == InJob \cup {"idle", "woken", "ack", "dying", "exited"}

Init ==
  /\ dev = "idle" /\ job = [id |-> 0, n |-> 0] /\ held = 0 /\ reply = NoReply
  /\ stray = FALSE
  /\ stop = FALSE /\ epoch = 0 /\ acks = [w \in Workers |-> 0]
  /\ cursor_a = 0 /\ done_a = 0 /\ gate_b = FALSE /\ cursor_b = 0
  /\ act = [i \in TasksA |-> 0] /\ xsum_act = 0 /\ out = [i \in TasksB |-> 0]
  /\ pc = [w \in Workers |-> "idle"]
  /\ seen = [w \in Workers |-> 0]
  /\ mine = [w \in Workers |-> 0]
  /\ claim = [w \in Workers |-> 0]

-----------------------------------------------------------------------------
(* The device thread.                                                      *)

\* submit, to the end of the job's fields.  chunk_for cuts an expert into fewer chunks
\* as the job's experts become more; here it has as many in every job.  The call is
\* refused before this point, with nothing changed, when it names too many experts.
BeginSubmit(n) ==
  /\ dev = "idle" /\ epoch < MaxJobs
  /\ dev' = "writing"
  /\ job' = [id |-> epoch + 1, n |-> n]
  /\ UNCHANGED <<held, reply, stray, stop, epoch, acks, counters, buffers, pc, locals>>

\* submit's error return for a spec that does not match the bank's bytes: the
\* job cell has been partly overwritten and no epoch is published for it.
RefuseSubmit ==
  /\ dev = "writing"
  /\ dev' = "idle"
  /\ UNCHANGED <<device, stop, epoch, acks, counters, buffers, pc, locals>>

ResetCounters ==
  /\ dev = "writing"
  /\ dev' = "publishing"
  /\ cursor_a' = 0 /\ cursor_b' = 0 /\ done_a' = 0 /\ gate_b' = FALSE
  /\ UNCHANGED <<device, stop, epoch, acks, buffers, pc, locals>>

Publish ==
  /\ dev = "publishing"
  /\ dev' = "inflight"
  /\ epoch' = epoch + 1
  /\ held' = epoch + 1
  /\ UNCHANGED <<job, reply, stray, stop, acks, counters, buffers, pc, locals>>

\* The weighted sum reads one slice of out per expert of the job.
Combined == {out[i] : i \in 0 .. (TotalB(job.n) - 1)}

SyncOkOnDrainedTasks ==
  /\ dev = "inflight" /\ ~stop
  /\ cursor_b >= TotalB(job.n) /\ \A w \in Workers : pc[w] # "taskB"
  /\ dev' = "idle" /\ held' = 0 /\ stray' = FALSE
  /\ reply' = [epoch |-> held, outcome |-> "ok", value |-> Combined]
  /\ UNCHANGED <<job, stop, epoch, acks, counters, buffers, pc, locals>>

SyncOkUnawaited ==
  /\ dev = "inflight" /\ ~stop
  /\ dev' = "idle" /\ held' = 0 /\ stray' = FALSE
  /\ reply' = [epoch |-> held, outcome |-> "ok", value |-> Combined]
  /\ UNCHANGED <<job, stop, epoch, acks, counters, buffers, pc, locals>>

\* sync: every worker has acknowledged the job's epoch and stop is still clear.  The
\* caller's buffer is an embedding long, as decode's is, and the return for a shorter one,
\* after the same wait, is not taken.
SyncOk ==
  /\ dev = "inflight"
  /\ \A w \in Workers : acks[w] >= held
  /\ ~stop
  /\ dev' = "idle" /\ held' = 0 /\ stray' = FALSE
  /\ reply' = [epoch |-> held, outcome |-> "ok", value |-> Combined]
  /\ UNCHANGED <<job, stop, epoch, acks, counters, buffers, pc, locals>>

\* sync's two error returns: stop seen while waiting, or after the wait.
SyncDied ==
  /\ dev = "inflight" /\ stop
  /\ dev' = "idle" /\ held' = 0
  /\ reply' = [epoch |-> held, outcome |-> "died", value |-> {}]
  /\ UNCHANGED <<job, stray, stop, epoch, acks, counters, buffers, pc, locals>>

\* Model::decode returns early between its submit and its sync, through the ?
\* of a failed upload, admission, staging copy or launch: the HostJob is dropped.
Abandon ==
  /\ MayAbandon /\ dev = "inflight" /\ held <= MaxDropped
  /\ dev' = "idle" /\ held' = 0 /\ stray' = TRUE
  /\ UNCHANGED <<job, reply, stop, epoch, acks, counters, buffers, pc, locals>>

BeginDropQuietly ==
  /\ dev = "idle"
  /\ dev' = "dropping"
  /\ UNCHANGED <<device, stop, epoch, acks, counters, buffers, pc, locals>>

\* Drop: raise stop, bump the epoch so that nobody sleeps through it, join.
BeginDrop ==
  /\ dev = "idle"
  /\ dev' = "dropping" /\ stop' = TRUE
  /\ UNCHANGED <<device, epoch, acks, counters, buffers, pc, locals>>

BumpEpoch ==
  /\ dev = "dropping"
  /\ dev' = "joining" /\ epoch' = epoch + 1
  /\ UNCHANGED <<device, stop, acks, counters, buffers, pc, locals>>

Join ==
  /\ dev = "joining" /\ \A w \in Workers : pc[w] = "exited"
  /\ dev' = "joined"
  /\ UNCHANGED <<device, stop, epoch, acks, counters, buffers, pc, locals>>

-----------------------------------------------------------------------------
(* A worker.                                                               *)

Goto(w, to) == pc' = [pc EXCEPT ![w] = to]

Wake(w) ==
  /\ pc[w] = "idle" /\ epoch # seen[w]
  /\ seen' = [seen EXCEPT ![w] = epoch]
  /\ Goto(w, "woken")
  /\ UNCHANGED <<dev, device, stop, epoch, acks, counters, buffers, mine, claim>>

\* stop seen in the idle loop, after a load of epoch that still showed seen, or
\* just after waking.
Exit(w) ==
  /\ pc[w] \in {"idle", "woken"} /\ stop
  /\ Goto(w, "exited")
  /\ UNCHANGED <<dev, device, stop, epoch, acks, counters, buffers, locals>>

\* run_job up to its first loop; a job of no experts is over at once.
EnterJob(w) ==
  /\ pc[w] = "woken" /\ ~stop
  /\ mine' = [mine EXCEPT ![w] = job.n]
  /\ Goto(w, IF job.n = 0 THEN "ack" ELSE "claimA")
  /\ UNCHANGED <<dev, device, stop, epoch, acks, counters, buffers, seen, claim>>

ClaimALoadOnly(w) ==
  /\ pc[w] = "claimA"
  /\ IF cursor_a < TotalA(mine[w])
       THEN claim' = [claim EXCEPT ![w] = cursor_a] /\ Goto(w, "taskA")
       ELSE UNCHANGED claim /\ Goto(w, "barrier")
  /\ UNCHANGED <<dev, device, stop, epoch, acks, counters, buffers, seen, mine>>

\* cursor_a.fetch_add(1): a claim, or the end of the phase.
ClaimA(w) ==
  /\ pc[w] = "claimA"
  /\ cursor_a' = cursor_a + 1
  /\ IF cursor_a < TotalA(mine[w])
       THEN claim' = [claim EXCEPT ![w] = cursor_a] /\ Goto(w, "taskA")
       ELSE UNCHANGED claim /\ Goto(w, "barrier")
  /\ UNCHANGED <<dev, device, stop, epoch, acks, done_a, gate_b, cursor_b,
                 buffers, seen, mine>>

\* The rows of one task, written into act and counted; the worker that
\* completes the count goes on to prepare phase B.
TaskA(w) ==
  /\ pc[w] = "taskA"
  /\ act' = [act EXCEPT ![claim[w]] = job.id]
  /\ done_a' = done_a + 1
  /\ Goto(w, IF done_a + 1 = TotalA(mine[w]) THEN "prepare" ELSE "claimA")
  /\ UNCHANGED <<dev, device, stop, epoch, acks, cursor_a, gate_b, cursor_b,
                 xsum_act, out, locals>>

\* xsum_act sums the whole activation: it is the job's only if every row is.
SumOfAct(n) ==
  IF \A i \in 0 .. (TotalA(n) - 1) : act[i] = job.id THEN job.id ELSE 0

Prepare(w) ==
  /\ pc[w] = "prepare"
  /\ xsum_act' = SumOfAct(mine[w])
  /\ gate_b' = TRUE
  /\ Goto(w, "claimA")
  /\ UNCHANGED <<dev, device, stop, epoch, acks, cursor_a, done_a, cursor_b,
                 act, out, locals>>

PassBarrierUngated(w) ==
  /\ pc[w] = "barrier"
  /\ Goto(w, "claimB")
  /\ UNCHANGED <<dev, device, stop, epoch, acks, counters, buffers, locals>>

\* The spin on gate_b.  Nothing else ends it.
PassBarrier(w) ==
  /\ pc[w] = "barrier" /\ gate_b
  /\ Goto(w, "claimB")
  /\ UNCHANGED <<dev, device, stop, epoch, acks, counters, buffers, locals>>

ClaimBPastTheEnd(w) ==
  /\ pc[w] = "claimB"
  /\ cursor_b' = cursor_b + 1
  /\ IF cursor_b <= TotalB(mine[w])
       THEN claim' = [claim EXCEPT ![w] = cursor_b] /\ Goto(w, "taskB")
       ELSE UNCHANGED claim /\ Goto(w, "ack")
  /\ UNCHANGED <<dev, device, stop, epoch, acks, cursor_a, done_a, gate_b,
                 buffers, seen, mine>>

ClaimB(w) ==
  /\ pc[w] = "claimB"
  /\ cursor_b' = cursor_b + 1
  /\ IF cursor_b < TotalB(mine[w])
       THEN claim' = [claim EXCEPT ![w] = cursor_b] /\ Goto(w, "taskB")
       ELSE UNCHANGED claim /\ Goto(w, "ack")
  /\ UNCHANGED <<dev, device, stop, epoch, acks, cursor_a, done_a, gate_b,
                 buffers, seen, mine>>

\* One expert's rows of the down projection read that expert's whole activation.
InputsOf(i) ==
  {act[j] : j \in {k \in TasksA : k \div ChunksA = i \div ChunksB}}
    \cup {xsum_act}

TaskB(w) ==
  /\ pc[w] = "taskB"
  /\ out' = [out EXCEPT ![claim[w]] =
               IF InputsOf(claim[w]) = {job.id} THEN job.id ELSE 0]
  /\ Goto(w, "claimB")
  /\ UNCHANGED <<dev, device, stop, epoch, acks, counters, act, xsum_act, locals>>

AckNothing(w) ==
  /\ pc[w] = "ack"
  /\ Goto(w, "idle")
  /\ UNCHANGED <<dev, device, stop, epoch, acks, counters, buffers, locals>>

\* The acknowledgement of whatever is in flight, not of the job the worker woke for.
AckLatest(w) ==
  /\ pc[w] = "ack"
  /\ acks' = [acks EXCEPT ![w] = epoch]
  /\ Goto(w, "idle")
  /\ UNCHANGED <<dev, device, stop, epoch, counters, buffers, locals>>

Ack(w) ==
  /\ pc[w] = "ack"
  /\ acks' = [acks EXCEPT ![w] = seen[w]]
  /\ Goto(w, "idle")
  /\ UNCHANGED <<dev, device, stop, epoch, counters, buffers, locals>>

PanicWithoutStop(w) ==
  /\ MayPanic /\ pc[w] \in {"taskA", "taskB"}
  /\ Goto(w, "dying")
  /\ UNCHANGED <<dev, device, stop, epoch, acks, counters, buffers, locals>>

\* A task unwinds; catch_unwind raises stop, then acknowledges and returns.
Panic(w) ==
  /\ MayPanic /\ pc[w] \in {"taskA", "taskB"}
  /\ stop' = TRUE
  /\ Goto(w, "dying")
  /\ UNCHANGED <<dev, device, epoch, acks, counters, buffers, locals>>

AckDying(w) ==
  /\ pc[w] = "dying"
  /\ acks' = [acks EXCEPT ![w] = seen[w]]
  /\ Goto(w, "exited")
  /\ UNCHANGED <<dev, device, stop, epoch, counters, buffers, locals>>

-----------------------------------------------------------------------------
Submit == (\E n \in 0 .. MaxExperts : BeginSubmit(n))
            \/ RefuseSubmit \/ ResetCounters \/ Publish
Sync == SyncOk \/ SyncDied
Drop == BeginDrop \/ BumpEpoch \/ Join

\* One step of worker(), other than a panic.
WorkerStep(w) ==
  \/ Wake(w) \/ Exit(w) \/ EnterJob(w)
  \/ ClaimA(w) \/ TaskA(w) \/ Prepare(w)
  \/ PassBarrier(w) \/ ClaimB(w) \/ TaskB(w)
  \/ Ack(w) \/ AckDying(w)

\* After the join the executor is gone and nothing more happens.
Gone == dev = "joined" /\ UNCHANGED vars

Next ==
  \/ Submit \/ Sync \/ Abandon \/ Drop \/ Gone
  \/ \E w \in Workers : WorkerStep(w) \/ Panic(w)

\* Threads are scheduled: each worker keeps taking steps, and the device thread
\* finishes the call it is in.  No fairness on starting a call, on dropping the
\* executor, on abandoning a job or on panicking.
Fairness ==
  /\ \A w \in Workers : WF_vars(WorkerStep(w))
  /\ WF_vars(ResetCounters) /\ WF_vars(Publish) /\ WF_vars(Sync)
  /\ WF_vars(BumpEpoch) /\ WF_vars(Join)

Spec == Init /\ [][Next]_vars
FairSpec == Spec /\ Fairness

-----------------------------------------------------------------------------
(* What the device thread may rely on: ForkJoin, one job at a time.        *)
Promise == INSTANCE ForkJoin WITH
  phase   <- CASE dev \in {"idle", "writing", "publishing"} -> "idle"
               [] dev = "inflight" -> "busy"
               [] OTHER -> "closed",
  current <- IF dev \in {"joining", "joined"} THEN epoch - 1 ELSE epoch,
  size    <- IF dev = "inflight" THEN job.n ELSE 0,
  torn    <- stray

\* The pool implements ForkJoin: a sync that reports success has combined every
\* expert of its own job and of no other, and none succeeds after a death.  Only
\* the first success after a job was dropped unsynced may be torn: its workers have
\* all left the dropped job by the time it returns.
ImplementsForkJoin == Promise!Spec

-----------------------------------------------------------------------------
(* Properties.                                                             *)

\* The epochs: MaxJobs submissions and the one of Drop.
Epochs == 0 .. (MaxJobs + 1)

\* Every variable stays in its range; in particular a claim is always the index
\* of a slice that exists in act or out.
TypeOK ==
  /\ dev \in DevAt
  /\ job \in [id : Epochs, n : 0 .. MaxExperts]
  /\ held \in Epochs
  /\ reply \in [epoch : Epochs, outcome : {"none", "ok", "died"},
                 value : SUBSET Epochs]
  /\ stray \in BOOLEAN /\ stop \in BOOLEAN /\ epoch \in Epochs /\ acks \in [Workers -> Epochs]
  /\ cursor_a \in Nat /\ cursor_b \in Nat /\ done_a \in Nat
  /\ gate_b \in BOOLEAN
  /\ act \in [TasksA -> Epochs] /\ xsum_act \in Epochs
  /\ out \in [TasksB -> Epochs]
  /\ pc \in [Workers -> WorkerAt]
  /\ seen \in [Workers -> Epochs]
  /\ mine \in [Workers -> 0 .. MaxExperts]
  /\ claim \in [Workers -> Nat]
  /\ \A w \in Workers :
       /\ pc[w] = "taskA" => claim[w] \in TasksA
       /\ pc[w] = "taskB" => claim[w] \in TasksB

\* The SAFETY comment of submit: while the device thread writes the job cell or
\* resets the counters, no worker is inside run_job.
JobExclusive ==
  dev \in {"writing", "publishing"} => \A w \in Workers : pc[w] \notin InJob

\* "Every output element is written by exactly one task": two workers never hold
\* the same task, and a task in hand has not been run for this job before.
NoTaskTwice ==
  \A w \in Workers :
    /\ pc[w] = "taskA" => act[claim[w]] # job.id
    /\ pc[w] = "taskB" => out[claim[w]] # job.id
    /\ pc[w] \in {"taskA", "taskB"} =>
         \A v \in Workers \ {w} : pc[v] = pc[w] => claim[v] # claim[w]

\* The barrier: while any worker is in phase B, the whole activation and its
\* sums belong to this job and no worker can still write them.
BarrierHolds ==
  (\E w \in Workers : pc[w] \in {"claimB", "taskB"}) =>
    /\ \A i \in 0 .. (TotalA(job.n) - 1) : act[i] = job.id
    /\ xsum_act = job.id
    /\ \A w \in Workers : pc[w] \notin {"taskA", "prepare"}

\* sync returns, a result or WorkerDied, whatever the workers do; only a job
\* submitted on top of a dropped one may hang it.
SyncReturns == dev = "inflight" /\ ~stray ~> dev # "inflight"

\* Dropping the executor ends: every worker leaves and is joined.
DropJoins == dev = "dropping" ~> dev = "joined"
=============================================================================
