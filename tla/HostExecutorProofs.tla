------------------------- MODULE HostExecutorProofs -------------------------
(***************************************************************************)
(* Proofs about HostExecutor, for every set of workers, every job size and *)
(* every number of jobs.  The assumption of all of them is the caller's    *)
(* side of the contract: jobs are synced, and tasks do not panic.          *)
(***************************************************************************)
EXTENDS HostExecutor, FiniteSetTheorems, TLAPS

\* The range of each variable, and no panic in sight.
Typed ==
  /\ dev \in DevAt
  /\ job.id \in Nat /\ job.n \in 0 .. MaxExperts
  /\ stop \in BOOLEAN /\ epoch \in Nat /\ held \in Nat
  /\ acks \in [Workers -> Nat] /\ seen \in [Workers -> Nat]
  /\ pc \in [Workers -> WorkerAt \ {"dying"}]

\* Where a worker may be while a job is in flight: it has not woken for it, it
\* is inside it, or it has acknowledged it.
AtEpoch(w) ==
  \/ pc[w] = "idle" /\ seen[w] = epoch - 1 /\ acks[w] = epoch - 1
  \/ pc[w] \in InJob \cup {"woken", "ack"} /\ seen[w] = epoch /\ acks[w] = epoch - 1
  \/ pc[w] = "idle" /\ seen[w] = epoch /\ acks[w] = epoch

\* The handshake, by the device thread's position.
Handshake ==
  /\ dev \in {"idle", "writing", "publishing"} =>
       ~stop /\ \A w \in Workers : pc[w] = "idle" /\ seen[w] = epoch /\ acks[w] = epoch
  /\ dev = "inflight" =>
       /\ ~stop /\ epoch # 0 /\ held = epoch
       /\ \A w \in Workers : AtEpoch(w)
  /\ dev \in {"dropping", "joining", "joined"} =>
       stop /\ \A w \in Workers : pc[w] \in {"idle", "woken", "exited"}

IInv == Typed /\ Handshake

\* The handshake holds of an executor with nothing published.
LEMMA InitIInv == Init => IInv
<1> SUFFICES ASSUME Init PROVE IInv
  OBVIOUS
<1>1. Typed
  <2>1. job.id \in Nat /\ job.n \in 0 .. MaxExperts
    BY SizesAssumption DEF Init
  <2>2. /\ acks \in [Workers -> Nat] /\ seen \in [Workers -> Nat]
    BY DEF Init
  <2>3. pc \in [Workers -> WorkerAt \ {"dying"}]
    BY DEF Init, WorkerAt
  <2>4. dev \in DevAt /\ stop \in BOOLEAN /\ epoch \in Nat /\ held \in Nat
    BY DEF Init, DevAt
  <2>5. QED
    BY <2>1, <2>2, <2>3, <2>4 DEF Typed
<1>2. Handshake
  BY DEF Init, Handshake
<1>3. QED
  BY <1>1, <1>2 DEF IInv

\* The handshake is inductive when jobs are neither abandoned nor panic.
LEMMA StepIInv ==
  ASSUME ~MayPanic, ~MayAbandon
  PROVE  IInv /\ [Next]_vars => IInv'
<1> SUFFICES ASSUME IInv, [Next]_vars PROVE IInv'
  OBVIOUS
<1> USE DEF IInv, Typed, Handshake, AtEpoch, DevAt, WorkerAt, InJob,
            device, counters, buffers, locals
<1>1. ASSUME NEW n \in 0 .. MaxExperts, BeginSubmit(n) PROVE IInv'
  BY <1>1, SizesAssumption DEF BeginSubmit
<1>2. CASE RefuseSubmit
  BY <1>2 DEF RefuseSubmit
<1>3. CASE ResetCounters
  BY <1>3 DEF ResetCounters
<1>4. CASE Publish
  BY <1>4 DEF Publish
<1>5. CASE SyncOk
  BY <1>5 DEF SyncOk
<1>6. CASE SyncDied
  BY <1>6 DEF SyncDied
<1>7. CASE Abandon
  BY <1>7 DEF Abandon
<1>8. CASE BeginDrop
  BY <1>8 DEF BeginDrop
<1>9. CASE BumpEpoch
  BY <1>9 DEF BumpEpoch
<1>10. CASE Join
  BY <1>10 DEF Join
<1>11. ASSUME NEW w \in Workers, WorkerStep(w) PROVE IInv'
  <2>1. CASE Wake(w)
    BY <2>1 DEF Wake, Goto
  <2>2. CASE Exit(w)
    BY <2>2 DEF Exit, Goto
  <2>3. CASE EnterJob(w)
    BY <2>3 DEF EnterJob, Goto
  <2>4. CASE ClaimA(w)
    BY <2>4 DEF ClaimA, Goto
  <2>5. CASE TaskA(w)
    BY <2>5 DEF TaskA, Goto
  <2>6. CASE Prepare(w)
    BY <2>6 DEF Prepare, Goto
  <2>7. CASE PassBarrier(w)
    BY <2>7 DEF PassBarrier, Goto
  <2>8. CASE ClaimB(w)
    BY <2>8 DEF ClaimB, Goto
  <2>9. CASE TaskB(w)
    BY <2>9 DEF TaskB, Goto
  <2>10. CASE Ack(w)
    BY <2>10 DEF Ack, Goto
  <2>11. CASE AckDying(w)
    BY <2>11 DEF AckDying
  <2>12. QED
    BY <1>11, <2>1, <2>2, <2>3, <2>4, <2>5, <2>6, <2>7, <2>8, <2>9, <2>10, <2>11
    DEF WorkerStep
<1>12. ASSUME NEW w \in Workers, Panic(w) PROVE IInv'
  BY <1>12 DEF Panic
<1>13. CASE UNCHANGED vars
  BY <1>13 DEF vars
<1>14. QED
  BY <1>1, <1>2, <1>3, <1>4, <1>5, <1>6, <1>7, <1>8, <1>9, <1>10, <1>11, <1>12, <1>13
  DEF Next, Submit, Sync, Drop, Gone

\* While submit writes the job cell or resets the counters, no worker is inside
\* run_job, whatever the number of workers, tasks and jobs.
THEOREM JobExclusiveHolds ==
  ASSUME ~MayPanic, ~MayAbandon
  PROVE  Spec => []JobExclusive
<1>1. IInv => JobExclusive
  BY DEF IInv, Handshake, JobExclusive, InJob
<1>2. QED
  BY <1>1, InitIInv, StepIInv, PTL DEF Spec

-----------------------------------------------------------------------------
(* The tasks of a job: that a sync delivers every expert of its own job.   *)

FinishedA == {i \in 0 .. (TotalA(job.n) - 1) : act[i] = epoch}
AllOfA == 0 .. (TotalA(job.n) - 1)

\* Ranges of what the tasks use; no buffer holds a job that is not published.
TaskTyped ==
  /\ cursor_a \in Nat /\ cursor_b \in Nat /\ done_a \in Nat
  /\ gate_b \in BOOLEAN
  /\ act \in [TasksA -> Nat] /\ out \in [TasksB -> Nat] /\ xsum_act \in Nat
  /\ \A i \in TasksA : act[i] <= epoch
  /\ \A i \in TasksB : out[i] <= epoch
  /\ xsum_act <= epoch
  /\ mine \in [Workers -> Nat] /\ claim \in [Workers -> Nat]
  /\ reply.outcome # "died"
  /\ dev = "writing" => job.id = epoch + 1
  /\ dev = "publishing" =>
       /\ job.id = epoch + 1
       /\ cursor_a = 0 /\ cursor_b = 0 /\ done_a = 0 /\ gate_b = FALSE

\* A worker inside the job uses this job's number of experts, which is not zero.
Locals ==
  /\ job.id = epoch
  /\ \A w \in Workers : pc[w] \in InJob => mine[w] = job.n /\ job.n # 0

\* What lies below cursor_a is finished or in exactly one worker's hands.
ClaimsA ==
  /\ \A i \in AllOfA : act[i] = epoch => i < cursor_a
  /\ \A i \in AllOfA : i < cursor_a =>
       act[i] = epoch \/ \E w \in Workers : pc[w] = "taskA" /\ claim[w] = i
  /\ \A w \in Workers : pc[w] = "taskA" =>
       /\ claim[w] \in AllOfA /\ claim[w] < cursor_a /\ act[claim[w]] # epoch
       /\ \A v \in Workers : pc[v] = "taskA" /\ claim[v] = claim[w] => v = w

\* done_a counts the finished tasks.
CountA == done_a = Cardinality(FinishedA)

\* The gate opens once, on a complete phase A with its sums prepared.
Gate ==
  /\ gate_b => FinishedA = AllOfA /\ xsum_act = epoch
  /\ \A w \in Workers : pc[w] = "prepare" =>
       /\ FinishedA = AllOfA /\ ~gate_b
       /\ \A v \in Workers : pc[v] = "prepare" => v = w
  /\ \A w \in Workers : pc[w] \in {"claimB", "taskB"} => gate_b

AllOfB == 0 .. (TotalB(job.n) - 1)

ClaimsB ==
  /\ \A i \in AllOfB : out[i] = epoch => i < cursor_b
  /\ \A i \in AllOfB : i < cursor_b =>
       out[i] = epoch \/ \E w \in Workers : pc[w] = "taskB" /\ claim[w] = i
  /\ \A w \in Workers : pc[w] = "taskB" =>
       /\ claim[w] \in AllOfB /\ claim[w] < cursor_b /\ out[claim[w]] # epoch
       /\ \A v \in Workers : pc[v] = "taskB" /\ claim[v] = claim[w] => v = w

\* A worker leaves the job only when every phase-B task has been claimed.
Drained ==
  \A w \in Workers : (pc[w] = "ack" \/ acks[w] = epoch) /\ job.n # 0 =>
    cursor_b >= TotalB(job.n)

Tasks ==
  dev = "inflight" =>
    Locals /\ ClaimsA /\ CountA /\ Gate /\ ClaimsB /\ Drained

FullInv == IInv /\ TaskTyped /\ Tasks

\* The index of a task of a job is the index of a slice of the buffers.
LEMMA TaskRanges ==
  ASSUME NEW n \in 0 .. MaxExperts
  PROVE  /\ TotalA(n) \in Nat /\ 0 .. (TotalA(n) - 1) \subseteq TasksA
         /\ TotalB(n) \in Nat /\ 0 .. (TotalB(n) - 1) \subseteq TasksB
<1>1. /\ n \in Nat /\ n <= MaxExperts /\ MaxExperts \in Nat
      /\ ChunksA \in Nat /\ ChunksB \in Nat
  BY SizesAssumption
<1>2. /\ n * ChunksA \in Nat /\ MaxExperts * ChunksA \in Nat
      /\ n * ChunksA <= MaxExperts * ChunksA
  BY <1>1
<1>3. /\ n * ChunksB \in Nat /\ MaxExperts * ChunksB \in Nat
      /\ n * ChunksB <= MaxExperts * ChunksB
  BY <1>1
<1>4. QED
  BY <1>2, <1>3 DEF TotalA, TotalB, TasksA, TasksB

\* A task below an expert's last belongs to an expert below the last.
LEMMA ExpertOfTask ==
  ASSUME NEW n \in Nat, NEW c \in Nat \ {0}, NEW i \in Nat
  PROVE  i < n * c <=> i \div c < n
<1>1. ASSUME i < n * c PROVE i \div c < n
  BY <1>1
<1>2. ASSUME i \div c < n PROVE i < n * c
  BY <1>2
<1>3. QED
  BY <1>1, <1>2

\* No task has run.
LEMMA InitTasks == Init => TaskTyped /\ Tasks
<1> SUFFICES ASSUME Init PROVE TaskTyped /\ Tasks
  OBVIOUS
<1>1. TaskTyped
  <2>1. /\ act \in [TasksA -> Nat] /\ \A i \in TasksA : act[i] <= epoch
        /\ out \in [TasksB -> Nat] /\ \A i \in TasksB : out[i] <= epoch
    BY DEF Init
  <2>2. mine \in [Workers -> Nat] /\ claim \in [Workers -> Nat]
    BY DEF Init
  <2>3. /\ cursor_a \in Nat /\ cursor_b \in Nat /\ done_a \in Nat
        /\ gate_b \in BOOLEAN
    BY DEF Init
  <2>4. xsum_act \in Nat /\ xsum_act <= epoch
    <3>1. xsum_act = 0 /\ epoch = 0
      BY DEF Init
    <3>2. QED
      BY <3>1
  <2>5. reply.outcome # "died"
    BY DEF Init, NoReply
  <2>6. dev # "writing" /\ dev # "publishing"
    BY DEF Init
  <2>7. QED
    BY <2>1, <2>2, <2>3, <2>4, <2>5, <2>6 DEF TaskTyped
<1>2. QED
  BY <1>1 DEF Init, Tasks

\* A set of tasks of phase A is finite, and is all of them exactly when there
\* are as many as the job has.
LEMMA FinishedCount ==
  ASSUME NEW n \in 0 .. MaxExperts, NEW S \in SUBSET (0 .. (TotalA(n) - 1))
  PROVE  /\ IsFiniteSet(S) /\ Cardinality(S) \in Nat
         /\ Cardinality(S) = TotalA(n) <=> S = 0 .. (TotalA(n) - 1)
<1>1. TotalA(n) \in Nat
  BY TaskRanges
<1>2. /\ IsFiniteSet(0 .. (TotalA(n) - 1))
      /\ Cardinality(0 .. (TotalA(n) - 1)) = TotalA(n)
  <2> DEFINE last == TotalA(n) - 1
  <2>1. /\ IsFiniteSet(0 .. last)
        /\ Cardinality(0 .. last) = IF 0 > last THEN 0 ELSE last - 0 + 1
    <3>1. last \in Int
      BY <1>1
    <3>2. 0 \in Int
      OBVIOUS
    <3>3. QED
      BY ONLY <3>1, <3>2, FS_Interval
  <2>2. QED
    BY <1>1, <2>1
<1>3. QED
  BY <1>2, FS_Subset, FS_CardinalityType

\* The device thread's steps, and those after which no job is in flight.
LEMMA StepTasksDevice ==
  ASSUME ~MayPanic, ~MayAbandon, FullInv, IInv',
         Submit \/ Sync \/ Abandon \/ Drop \/ UNCHANGED vars
  PROVE  TaskTyped' /\ Tasks'
<1> USE DEF FullInv, device, counters, buffers, locals
<1>1. ASSUME NEW n \in 0 .. MaxExperts, BeginSubmit(n) PROVE TaskTyped' /\ Tasks'
  BY <1>1 DEF BeginSubmit, TaskTyped, Tasks
<1>2. CASE RefuseSubmit
  BY <1>2 DEF RefuseSubmit, TaskTyped, Tasks
<1>3. CASE ResetCounters
  BY <1>3 DEF ResetCounters, TaskTyped, Tasks
<1>4. CASE Publish
  <2>1. TaskTyped'
    <3>1. /\ epoch' = epoch + 1 /\ epoch \in Nat /\ dev' = "inflight"
          /\ UNCHANGED <<act, out, xsum_act>>
      BY <1>4 DEF Publish, IInv, Typed
    <3>2. /\ \A i \in TasksA : act'[i] <= epoch'
          /\ \A i \in TasksB : out'[i] <= epoch'
          /\ xsum_act' <= epoch'
      BY <3>1 DEF TaskTyped
    <3>3. QED
      BY <1>4, <3>1, <3>2 DEF Publish, TaskTyped
  <2>2. /\ job' = job /\ epoch' = epoch + 1 /\ job.id = epoch'
        /\ job.n \in 0 .. MaxExperts /\ epoch \in Nat
        /\ cursor_a' = 0 /\ cursor_b' = 0 /\ done_a' = 0 /\ gate_b' = FALSE
        /\ \A w \in Workers : pc'[w] = "idle" /\ acks'[w] # epoch'
    BY <1>4 DEF Publish, TaskTyped, IInv, Typed, Handshake
  <2>3. /\ AllOfA' \subseteq TasksA /\ AllOfB' \subseteq TasksB
    BY <2>2, TaskRanges DEF AllOfA, AllOfB
  <2>4. /\ \A i \in AllOfA' : act'[i] # epoch' /\ i \in Nat
        /\ \A i \in AllOfB' : out'[i] # epoch' /\ i \in Nat
    BY <1>4, <2>2, <2>3 DEF Publish, TaskTyped, AllOfA, AllOfB
  <2>5. FinishedA' = {}
    BY <2>4 DEF FinishedA, AllOfA
  <2>6. Locals' /\ ClaimsA' /\ Gate' /\ ClaimsB' /\ Drained'
    BY <2>2, <2>4 DEF Locals, ClaimsA, Gate, ClaimsB, Drained, InJob
  <2>7. CountA'
    BY <2>2, <2>5, FS_EmptySet DEF CountA
  <2>8. QED
    BY <2>1, <2>6, <2>7 DEF Tasks
<1>5. CASE SyncOk
  BY <1>5 DEF SyncOk, TaskTyped, Tasks
<1>6. CASE SyncDied
  BY <1>6 DEF SyncDied, IInv, Handshake
<1>7. CASE Abandon
  BY <1>7 DEF Abandon
<1>8. CASE BeginDrop
  BY <1>8 DEF BeginDrop, TaskTyped, Tasks
<1>9. CASE BumpEpoch
  BY <1>9 DEF BumpEpoch, TaskTyped, Tasks, IInv, Typed
<1>10. CASE Join
  BY <1>10 DEF Join, TaskTyped, Tasks
<1>11. CASE UNCHANGED vars
  BY <1>11 DEF vars, TaskTyped, Tasks, Locals, ClaimsA, CountA, Gate, ClaimsB,
     Drained, FinishedA, AllOfA, AllOfB
<1>12. QED
  BY <1>1, <1>2, <1>3, <1>4, <1>5, <1>6, <1>7, <1>8, <1>9, <1>10, <1>11
  DEF Submit, Sync, Drop

\* A worker that claims, finishes or prepares does so for the job in flight.
LEMMA WorkersInFlight ==
  ASSUME IInv, TaskTyped, NEW w \in Workers, pc[w] \in InJob \cup {"ack"}
  PROVE  /\ dev = "inflight" /\ ~stop /\ epoch \in Nat \ {0}
         /\ job.n \in 0 .. MaxExperts
         /\ AllOfA \subseteq TasksA /\ AllOfB \subseteq TasksB
         /\ TotalA(job.n) \in Nat /\ TotalB(job.n) \in Nat
<1>1. dev = "inflight" /\ ~stop /\ epoch \in Nat \ {0} /\ job.n \in 0 .. MaxExperts
  BY DEF IInv, Typed, Handshake, InJob, DevAt
<1>2. QED
  BY <1>1, TaskRanges DEF AllOfA, AllOfB

\* Steps that touch neither a buffer nor a counter.
LEMMA StepTasksQuiet ==
  ASSUME ~MayPanic, FullInv, IInv', NEW w \in Workers,
         Wake(w) \/ Exit(w) \/ EnterJob(w) \/ PassBarrier(w) \/ Ack(w) \/ AckDying(w)
  PROVE  TaskTyped' /\ Tasks'
<1> USE DEF FullInv, device, counters, buffers, locals
<1>1. TaskTyped'
  <2>1. mine' \in [Workers -> Nat]
    BY DEF Wake, Exit, EnterJob, PassBarrier, Ack, AckDying, TaskTyped, IInv, Typed
  <2>2. /\ dev' = dev /\ reply' = reply /\ epoch' = epoch /\ job' = job
        /\ UNCHANGED <<counters, buffers, claim>>
    BY DEF Wake, Exit, EnterJob, PassBarrier, Ack, AckDying
  <2>3. QED
    BY <2>1, <2>2 DEF TaskTyped
<1>2. SUFFICES ASSUME dev' = "inflight" PROVE Tasks'
  BY <1>1 DEF Tasks
<1>3. dev = "inflight" /\ Locals /\ ClaimsA /\ CountA /\ Gate /\ ClaimsB /\ Drained
  BY <1>2 DEF Wake, Exit, EnterJob, PassBarrier, Ack, AckDying, Tasks
<1>4. /\ job' = job /\ epoch' = epoch
      /\ UNCHANGED <<counters, buffers, claim>>
  BY DEF Wake, Exit, EnterJob, PassBarrier, Ack, AckDying
<1>5. AllOfA' = AllOfA /\ AllOfB' = AllOfB /\ FinishedA' = FinishedA
  BY <1>4 DEF AllOfA, AllOfB, FinishedA
<1>6. /\ pc \in [Workers -> WorkerAt] /\ job.n \in 0 .. MaxExperts
      /\ \A v \in Workers : pc[v] # "dying" /\ AtEpoch(v)
      /\ ~stop /\ epoch \in Nat \ {0}
  BY <1>3 DEF IInv, Typed, Handshake
<1>7. \A v \in Workers :
        /\ pc'[v] = "taskA" <=> pc[v] = "taskA"
        /\ pc'[v] = "taskB" <=> pc[v] = "taskB"
        /\ pc'[v] = "prepare" <=> pc[v] = "prepare"
  BY <1>6 DEF Wake, Exit, EnterJob, PassBarrier, Ack, AckDying, Goto
<1>8. Locals'
  BY <1>3, <1>4, <1>6
  DEF Wake, Exit, EnterJob, PassBarrier, Ack, AckDying, Goto, Locals, InJob,
      TaskTyped
<1>9. ClaimsA' /\ ClaimsB'
  BY <1>3, <1>4, <1>5, <1>7 DEF ClaimsA, ClaimsB
<1>10. CountA'
  BY <1>3, <1>4, <1>5 DEF CountA
<1>11. Gate'
  BY <1>3, <1>4, <1>5, <1>6, <1>7
  DEF Wake, Exit, EnterJob, PassBarrier, Ack, AckDying, Goto, Gate
<1>12. Drained'
  BY <1>3, <1>4, <1>6
  DEF Wake, Exit, EnterJob, PassBarrier, Ack, AckDying, Goto, Drained, AtEpoch,
      InJob, IInv, Typed
<1>13. QED
  BY <1>8, <1>9, <1>10, <1>11, <1>12 DEF Tasks

\* A task of the first phase is claimed by nobody else.
LEMMA StepTasksClaimA ==
  ASSUME FullInv, IInv', NEW w \in Workers, ClaimA(w)
  PROVE  TaskTyped' /\ Tasks'
<1> USE DEF FullInv, device, counters, buffers, locals
<1>1. /\ dev = "inflight" /\ epoch \in Nat \ {0} /\ pc[w] = "claimA"
      /\ job.n \in 0 .. MaxExperts /\ AllOfA \subseteq TasksA
      /\ TotalA(job.n) \in Nat /\ TotalB(job.n) \in Nat
  BY WorkersInFlight DEF ClaimA, InJob
<1>2. Locals /\ ClaimsA /\ CountA /\ Gate /\ ClaimsB /\ Drained
  BY <1>1 DEF Tasks
<1>3. /\ dev' = dev /\ job' = job /\ epoch' = epoch /\ mine' = mine
      /\ cursor_a' = cursor_a + 1 /\ cursor_a \in Nat /\ mine[w] = job.n
      /\ UNCHANGED <<acks, reply, done_a, gate_b, cursor_b, buffers>>
  BY <1>1, <1>2 DEF ClaimA, TaskTyped, Locals, InJob
<1>4. /\ pc \in [Workers -> WorkerAt] /\ claim \in [Workers -> Nat]
      /\ claim' \in [Workers -> Nat]
  BY <1>3 DEF IInv, Typed, TaskTyped, ClaimA
<1>5. TaskTyped'
  BY <1>1, <1>3, <1>4 DEF TaskTyped
<1>6. AllOfA' = AllOfA /\ AllOfB' = AllOfB /\ FinishedA' = FinishedA
  BY <1>3 DEF AllOfA, AllOfB, FinishedA
<1>7. Locals' /\ CountA' /\ Gate' /\ Drained'
  BY <1>1, <1>2, <1>3, <1>4, <1>6
  DEF ClaimA, Goto, Locals, CountA, Gate, Drained, InJob
<1>8. ClaimsB'
  <2>1. \A v \in Workers :
          /\ pc'[v] = "taskB" <=> pc[v] = "taskB"
          /\ pc[v] = "taskB" => claim'[v] = claim[v]
    BY <1>1, <1>4 DEF ClaimA, Goto
  <2>2. QED
    BY <1>2, <1>3, <1>6, <2>1 DEF ClaimsB
<1>9. ClaimsA'
  <2>1. CASE cursor_a < TotalA(job.n)
    <3>1. /\ claim' = [claim EXCEPT ![w] = cursor_a]
          /\ pc' = [pc EXCEPT ![w] = "taskA"]
      BY <1>3, <2>1 DEF ClaimA, Goto
    <3>2. cursor_a \in AllOfA
      BY <1>1, <1>3, <2>1 DEF AllOfA
    <3>3. /\ claim'[w] = cursor_a /\ pc'[w] = "taskA"
          /\ \A v \in Workers \ {w} : claim'[v] = claim[v] /\ pc'[v] = pc[v]
      BY <1>4, <3>1
    <3>4. \A i \in AllOfA : act[i] = epoch => i < cursor_a'
      BY <1>2, <1>3 DEF ClaimsA, AllOfA
    <3>5. ASSUME NEW i \in AllOfA, i < cursor_a'
          PROVE  act[i] = epoch
                   \/ \E v \in Workers : pc'[v] = "taskA" /\ claim'[v] = i
      <4>1. i < cursor_a \/ i = cursor_a
        BY <1>3, <3>5 DEF AllOfA
      <4>2. QED
        BY <1>1, <1>2, <3>3, <4>1 DEF ClaimsA
    <3>6. ASSUME NEW v \in Workers, pc'[v] = "taskA"
          PROVE  /\ claim'[v] \in AllOfA /\ claim'[v] < cursor_a'
                 /\ act[claim'[v]] # epoch
                 /\ \A u \in Workers :
                      pc'[u] = "taskA" /\ claim'[u] = claim'[v] => u = v
      <4>1. CASE v = w
        BY <1>2, <1>3, <1>4, <3>2, <3>3, <4>1 DEF ClaimsA
      <4>2. CASE v # w
        BY <1>2, <1>3, <1>4, <3>3, <3>6, <4>2 DEF ClaimsA
      <4>3. QED
        BY <4>1, <4>2
    <3>7. QED
      BY <1>3, <1>6, <3>4, <3>5, <3>6 DEF ClaimsA
  <2>2. CASE ~(cursor_a < TotalA(job.n))
    <3>1. claim' = claim /\ pc' = [pc EXCEPT ![w] = "barrier"]
      BY <1>3, <2>2 DEF ClaimA, Goto
    <3>2. \A v \in Workers : pc'[v] = "taskA" <=> pc[v] = "taskA"
      BY <1>1, <1>4, <3>1
    <3>3. \A i \in AllOfA : i < cursor_a
      BY <1>1, <1>3, <2>2 DEF AllOfA
    <3>4. \A i \in AllOfA : i < cursor_a /\ i < cursor_a'
      BY <1>3, <3>3 DEF AllOfA
    <3>5. \A v \in Workers : pc[v] = "taskA" => claim[v] < cursor_a'
      BY <1>2, <3>4 DEF ClaimsA
    <3>6. QED
      BY <1>2, <1>3, <1>6, <3>1, <3>2, <3>4, <3>5 DEF ClaimsA
  <2>3. QED
    BY <2>1, <2>2
<1>10. QED
  BY <1>5, <1>7, <1>8, <1>9 DEF Tasks

\* Finishing a task of phase A: the count stays the number of finished tasks,
\* so exactly the worker that finishes the last one goes on to prepare.
LEMMA StepTasksTaskA ==
  ASSUME FullInv, IInv', NEW w \in Workers, TaskA(w)
  PROVE  TaskTyped' /\ Tasks'
<1> USE DEF FullInv, device, counters, buffers, locals
<1>1. /\ dev = "inflight" /\ epoch \in Nat \ {0} /\ pc[w] = "taskA"
      /\ job.n \in 0 .. MaxExperts /\ AllOfA \subseteq TasksA
      /\ TotalA(job.n) \in Nat /\ TotalB(job.n) \in Nat
  BY WorkersInFlight DEF TaskA, InJob
<1>2. Locals /\ ClaimsA /\ CountA /\ Gate /\ ClaimsB /\ Drained
  BY <1>1 DEF Tasks
<1>3. /\ dev' = dev /\ job' = job /\ epoch' = epoch /\ mine' = mine
      /\ claim' = claim /\ job.id = epoch /\ mine[w] = job.n
      /\ done_a' = done_a + 1 /\ done_a \in Nat
      /\ act' = [act EXCEPT ![claim[w]] = epoch]
      /\ UNCHANGED <<acks, reply, cursor_a, gate_b, cursor_b, xsum_act, out>>
  BY <1>1, <1>2 DEF TaskA, TaskTyped, Locals, InJob
<1>4. /\ pc \in [Workers -> WorkerAt] /\ act \in [TasksA -> Nat]
      /\ claim[w] \in AllOfA /\ claim[w] \in TasksA /\ act[claim[w]] # epoch
  BY <1>1, <1>2 DEF IInv, Typed, TaskTyped, ClaimsA
<1>5. TaskTyped'
  <2>1. act' \in [TasksA -> Nat] /\ \A i \in TasksA : act'[i] <= epoch
    BY <1>1, <1>3, <1>4 DEF TaskTyped
  <2>2. QED
    BY <1>1, <1>3, <2>1 DEF TaskTyped
<1>6. AllOfA' = AllOfA /\ AllOfB' = AllOfB
  BY <1>3 DEF AllOfA, AllOfB
<1>7. \A i \in AllOfA : act'[i] = IF i = claim[w] THEN epoch ELSE act[i]
  BY <1>1, <1>3, <1>4
<1>8. /\ FinishedA' = FinishedA \cup {claim[w]} /\ claim[w] \notin FinishedA
      /\ FinishedA \in SUBSET AllOfA /\ FinishedA' \in SUBSET AllOfA
  BY <1>3, <1>4, <1>6, <1>7 DEF FinishedA, AllOfA
<1>9. CountA'
  <2>1. Cardinality(FinishedA') = Cardinality(FinishedA) + 1
    BY <1>1, <1>8, FinishedCount, FS_AddElement DEF AllOfA
  <2>2. QED
    BY <1>2, <1>3, <2>1 DEF CountA
<1>10. done_a' = TotalA(job.n) <=> FinishedA' = AllOfA'
  <2>1. Cardinality(FinishedA') = TotalA(job.n) <=> FinishedA' = AllOfA
    BY <1>1, <1>8, FinishedCount DEF AllOfA
  <2>2. QED
    BY <1>6, <1>9, <2>1 DEF CountA
<1>11. /\ ~gate_b /\ \A v \in Workers : pc[v] # "prepare"
       /\ \A v \in Workers : pc[v] \notin {"claimB", "taskB"}
  BY <1>2, <1>4, <1>8 DEF Gate
<1>12. /\ pc'[w] = IF FinishedA' = AllOfA' THEN "prepare" ELSE "claimA"
       /\ \A v \in Workers \ {w} : pc'[v] = pc[v]
  BY <1>3, <1>4, <1>10 DEF TaskA, Goto
<1>13. Locals' /\ Drained' /\ ClaimsB'
  BY <1>1, <1>2, <1>3, <1>6, <1>11, <1>12 DEF Locals, Drained, ClaimsB, InJob
<1>14. Gate'
  BY <1>1, <1>2, <1>3, <1>11, <1>12 DEF Gate
<1>15. ClaimsA'
  <2>1. \A i \in AllOfA : act'[i] = epoch => i < cursor_a
    BY <1>1, <1>2, <1>4, <1>7 DEF ClaimsA
  <2>2. ASSUME NEW i \in AllOfA, i < cursor_a
        PROVE  act'[i] = epoch
                 \/ \E v \in Workers : pc'[v] = "taskA" /\ claim[v] = i
    BY <1>2, <1>7, <1>12, <2>2 DEF ClaimsA
  <2>3. ASSUME NEW v \in Workers, pc'[v] = "taskA"
        PROVE  /\ claim[v] \in AllOfA /\ claim[v] < cursor_a
               /\ act'[claim[v]] # epoch
               /\ \A u \in Workers :
                    pc'[u] = "taskA" /\ claim[u] = claim[v] => u = v
    <3>1. v # w /\ pc[v] = "taskA"
      BY <1>12, <2>3
    <3>2. claim[v] \in AllOfA /\ claim[v] # claim[w]
      BY <1>1, <1>2, <3>1 DEF ClaimsA
    <3>3. \A u \in Workers : pc'[u] = "taskA" => pc[u] = "taskA"
      BY <1>12
    <3>4. QED
      BY <1>2, <1>7, <3>1, <3>2, <3>3 DEF ClaimsA
  <2>4. QED
    BY <1>3, <1>6, <2>1, <2>2, <2>3 DEF ClaimsA
<1>16. QED
  BY <1>5, <1>9, <1>13, <1>14, <1>15 DEF Tasks

\* The quantisation between the phases finds every activation of the job.
LEMMA StepTasksPrepare ==
  ASSUME FullInv, IInv', NEW w \in Workers, Prepare(w)
  PROVE  TaskTyped' /\ Tasks'
<1> USE DEF FullInv, device, counters, buffers, locals
<1>1. /\ dev = "inflight" /\ epoch \in Nat \ {0} /\ pc[w] = "prepare"
      /\ job.n \in 0 .. MaxExperts
  BY WorkersInFlight DEF Prepare, InJob
<1>2. Locals /\ ClaimsA /\ CountA /\ Gate /\ ClaimsB /\ Drained
  BY <1>1 DEF Tasks
<1>3. /\ dev' = dev /\ job' = job /\ epoch' = epoch /\ mine' = mine
      /\ claim' = claim /\ job.id = epoch /\ mine[w] = job.n /\ gate_b' = TRUE
      /\ UNCHANGED <<acks, reply, cursor_a, done_a, cursor_b, act, out>>
  BY <1>1, <1>2 DEF Prepare, Locals, InJob
<1>4. FinishedA = AllOfA /\ \A v \in Workers : pc[v] = "prepare" => v = w
  BY <1>1, <1>2 DEF Gate
<1>5. xsum_act' = epoch
  <2>1. \A i \in 0 .. (TotalA(job.n) - 1) : act[i] = epoch
    BY <1>4 DEF FinishedA, AllOfA
  <2>2. QED
    BY <1>3, <2>1 DEF Prepare, SumOfAct
<1>6. pc'[w] = "claimA" /\ \A v \in Workers \ {w} : pc'[v] = pc[v]
  BY DEF Prepare, Goto, IInv, Typed
<1>7. /\ AllOfA' = AllOfA /\ AllOfB' = AllOfB /\ FinishedA' = FinishedA
  BY <1>3 DEF AllOfA, AllOfB, FinishedA
<1>8. TaskTyped'
  BY <1>1, <1>3, <1>5 DEF TaskTyped
<1>9. \A v \in Workers : /\ pc'[v] = "taskA" <=> pc[v] = "taskA"
                         /\ pc'[v] = "taskB" <=> pc[v] = "taskB"
  BY <1>1, <1>6
<1>10. Locals' /\ CountA' /\ Drained' /\ ClaimsA' /\ ClaimsB'
  BY <1>1, <1>2, <1>3, <1>6, <1>7, <1>9
  DEF Locals, CountA, Drained, ClaimsA, ClaimsB, InJob
<1>11. Gate'
  BY <1>2, <1>3, <1>4, <1>5, <1>6, <1>7 DEF Gate
<1>12. QED
  BY <1>8, <1>10, <1>11 DEF Tasks

\* A task of the second phase is claimed by nobody else.
LEMMA StepTasksClaimB ==
  ASSUME FullInv, IInv', NEW w \in Workers, ClaimB(w)
  PROVE  TaskTyped' /\ Tasks'
<1> USE DEF FullInv, device, counters, buffers, locals
<1>1. /\ dev = "inflight" /\ epoch \in Nat \ {0} /\ pc[w] = "claimB"
      /\ job.n \in 0 .. MaxExperts /\ AllOfB \subseteq TasksB
      /\ TotalA(job.n) \in Nat /\ TotalB(job.n) \in Nat
  BY WorkersInFlight DEF ClaimB, InJob
<1>2. Locals /\ ClaimsA /\ CountA /\ Gate /\ ClaimsB /\ Drained
  BY <1>1 DEF Tasks
<1>3. /\ dev' = dev /\ job' = job /\ epoch' = epoch /\ mine' = mine
      /\ cursor_b' = cursor_b + 1 /\ cursor_b \in Nat /\ mine[w] = job.n
      /\ gate_b /\ UNCHANGED <<acks, reply, done_a, gate_b, cursor_a, buffers>>
  BY <1>1, <1>2 DEF ClaimB, TaskTyped, Locals, Gate, InJob
<1>4. /\ pc \in [Workers -> WorkerAt] /\ claim \in [Workers -> Nat]
      /\ claim' \in [Workers -> Nat]
  BY <1>3 DEF IInv, Typed, TaskTyped, ClaimB
<1>5. TaskTyped'
  BY <1>1, <1>3, <1>4 DEF TaskTyped
<1>6. AllOfA' = AllOfA /\ AllOfB' = AllOfB /\ FinishedA' = FinishedA
  BY <1>3 DEF AllOfA, AllOfB, FinishedA
<1>7. Locals' /\ CountA' /\ Gate' /\ Drained'
  BY <1>1, <1>2, <1>3, <1>4, <1>6
  DEF ClaimB, Goto, Locals, CountA, Gate, Drained, InJob
<1>8. ClaimsA'
  <2>1. \A v \in Workers :
          /\ pc'[v] = "taskA" <=> pc[v] = "taskA"
          /\ pc[v] = "taskA" => claim'[v] = claim[v]
    BY <1>1, <1>4 DEF ClaimB, Goto
  <2>2. QED
    BY <1>2, <1>3, <1>6, <2>1 DEF ClaimsA
<1>9. ClaimsB'
  <2>1. CASE cursor_b < TotalB(job.n)
    <3>1. /\ claim' = [claim EXCEPT ![w] = cursor_b]
          /\ pc' = [pc EXCEPT ![w] = "taskB"]
      BY <1>3, <2>1 DEF ClaimB, Goto
    <3>2. cursor_b \in AllOfB
      BY <1>1, <1>3, <2>1 DEF AllOfB
    <3>3. /\ claim'[w] = cursor_b /\ pc'[w] = "taskB"
          /\ \A v \in Workers \ {w} : claim'[v] = claim[v] /\ pc'[v] = pc[v]
      BY <1>4, <3>1
    <3>4. \A i \in AllOfB : out[i] = epoch => i < cursor_b'
      BY <1>2, <1>3 DEF ClaimsB, AllOfB
    <3>5. ASSUME NEW i \in AllOfB, i < cursor_b'
          PROVE  out[i] = epoch
                   \/ \E v \in Workers : pc'[v] = "taskB" /\ claim'[v] = i
      <4>1. i < cursor_b \/ i = cursor_b
        BY <1>3, <3>5 DEF AllOfB
      <4>2. QED
        BY <1>1, <1>2, <3>3, <4>1 DEF ClaimsB
    <3>6. ASSUME NEW v \in Workers, pc'[v] = "taskB"
          PROVE  /\ claim'[v] \in AllOfB /\ claim'[v] < cursor_b'
                 /\ out[claim'[v]] # epoch
                 /\ \A u \in Workers :
                      pc'[u] = "taskB" /\ claim'[u] = claim'[v] => u = v
      <4>1. CASE v = w
        BY <1>2, <1>3, <1>4, <3>2, <3>3, <4>1 DEF ClaimsB
      <4>2. CASE v # w
        BY <1>2, <1>3, <1>4, <3>3, <3>6, <4>2 DEF ClaimsB
      <4>3. QED
        BY <4>1, <4>2
    <3>7. QED
      BY <1>3, <1>6, <3>4, <3>5, <3>6 DEF ClaimsB
  <2>2. CASE ~(cursor_b < TotalB(job.n))
    <3>1. claim' = claim /\ pc' = [pc EXCEPT ![w] = "ack"]
      BY <1>3, <2>2 DEF ClaimB, Goto
    <3>2. \A v \in Workers : pc'[v] = "taskB" <=> pc[v] = "taskB"
      BY <1>1, <1>4, <3>1
    <3>3. \A i \in AllOfB : i < cursor_b
      BY <1>1, <1>3, <2>2 DEF AllOfB
    <3>4. \A i \in AllOfB : i < cursor_b /\ i < cursor_b'
      BY <1>3, <3>3 DEF AllOfB
    <3>5. \A v \in Workers : pc[v] = "taskB" => claim[v] < cursor_b'
      BY <1>2, <3>4 DEF ClaimsB
    <3>6. QED
      BY <1>2, <1>3, <1>6, <3>1, <3>2, <3>4, <3>5 DEF ClaimsB
  <2>3. QED
    BY <2>1, <2>2
<1>10. QED
  BY <1>5, <1>7, <1>8, <1>9 DEF Tasks

\* With the gate open, one expert's task of phase B reads this job's activation
\* and this job's sums, and nothing else.
LEMMA InputsAreThisJob ==
  ASSUME IInv, TaskTyped, Locals, Gate, gate_b, job.n # 0,
         NEW i \in AllOfB
  PROVE  InputsOf(i) = {epoch}
<1>1. job.n \in Nat /\ ChunksA \in Nat \ {0} /\ ChunksB \in Nat \ {0}
  BY SizesAssumption DEF IInv, Typed
<1>2. i \in Nat /\ i \div ChunksB < job.n
  <2>1. i \in Nat /\ i < job.n * ChunksB
    BY <1>1 DEF AllOfB, TotalB
  <2>2. QED
    BY <1>1, <2>1, ExpertOfTask
<1>3. ASSUME NEW k \in TasksA, k \div ChunksA = i \div ChunksB
      PROVE  act[k] = epoch
  <2>1. k \in Nat
    BY DEF TasksA
  <2>2. k < job.n * ChunksA
    BY <1>1, <1>2, <1>3, <2>1, ExpertOfTask
  <2>3. k \in AllOfA
    BY <1>1, <2>1, <2>2 DEF AllOfA, TotalA
  <2>4. QED
    BY <2>3 DEF Gate, FinishedA, AllOfA
<1>4. xsum_act = epoch
  BY DEF Gate
<1>5. QED
  BY <1>3, <1>4 DEF InputsOf

\* A task of the second phase writes its own rows.
LEMMA StepTasksTaskB ==
  ASSUME FullInv, IInv', NEW w \in Workers, TaskB(w)
  PROVE  TaskTyped' /\ Tasks'
<1> USE DEF FullInv, device, counters, buffers, locals
<1>1. /\ dev = "inflight" /\ epoch \in Nat \ {0} /\ pc[w] = "taskB"
      /\ job.n \in 0 .. MaxExperts /\ AllOfB \subseteq TasksB
  BY WorkersInFlight DEF TaskB, InJob
<1>2. Locals /\ ClaimsA /\ CountA /\ Gate /\ ClaimsB /\ Drained
  BY <1>1 DEF Tasks
<1>3. /\ dev' = dev /\ job' = job /\ epoch' = epoch /\ mine' = mine
      /\ claim' = claim /\ job.id = epoch /\ job.n # 0 /\ gate_b
      /\ UNCHANGED <<acks, reply, counters, act, xsum_act>>
  BY <1>1, <1>2 DEF TaskB, Locals, Gate, InJob
<1>4. /\ pc \in [Workers -> WorkerAt] /\ out \in [TasksB -> Nat]
      /\ claim[w] \in AllOfB /\ claim[w] \in TasksB /\ out[claim[w]] # epoch
  BY <1>1, <1>2 DEF IInv, Typed, TaskTyped, ClaimsB
<1>5. out' = [out EXCEPT ![claim[w]] = epoch]
  BY <1>2, <1>3, <1>4, InputsAreThisJob DEF TaskB
<1>6. TaskTyped'
  <2>1. out' \in [TasksB -> Nat] /\ \A i \in TasksB : out'[i] <= epoch
    BY <1>1, <1>4, <1>5 DEF TaskTyped
  <2>2. QED
    BY <1>1, <1>3, <2>1 DEF TaskTyped
<1>7. AllOfA' = AllOfA /\ AllOfB' = AllOfB /\ FinishedA' = FinishedA
  BY <1>3 DEF AllOfA, AllOfB, FinishedA
<1>8. \A i \in AllOfB : out'[i] = IF i = claim[w] THEN epoch ELSE out[i]
  BY <1>1, <1>4, <1>5
<1>9. pc'[w] = "claimB" /\ \A v \in Workers \ {w} : pc'[v] = pc[v]
  BY <1>4 DEF TaskB, Goto
<1>10. \A v \in Workers : /\ pc'[v] = "taskA" <=> pc[v] = "taskA"
                          /\ pc'[v] = "prepare" <=> pc[v] = "prepare"
  BY <1>1, <1>9
<1>11. Locals' /\ CountA' /\ Gate' /\ Drained' /\ ClaimsA'
  BY <1>1, <1>2, <1>3, <1>7, <1>9, <1>10
  DEF Locals, CountA, Gate, Drained, ClaimsA, InJob
<1>12. ClaimsB'
  <2>1. \A i \in AllOfB : out'[i] = epoch => i < cursor_b
    BY <1>1, <1>2, <1>4, <1>8 DEF ClaimsB
  <2>2. ASSUME NEW i \in AllOfB, i < cursor_b
        PROVE  out'[i] = epoch
                 \/ \E v \in Workers : pc'[v] = "taskB" /\ claim[v] = i
    BY <1>2, <1>8, <1>9, <2>2 DEF ClaimsB
  <2>3. ASSUME NEW v \in Workers, pc'[v] = "taskB"
        PROVE  /\ claim[v] \in AllOfB /\ claim[v] < cursor_b
               /\ out'[claim[v]] # epoch
               /\ \A u \in Workers :
                    pc'[u] = "taskB" /\ claim[u] = claim[v] => u = v
    <3>1. v # w /\ pc[v] = "taskB"
      BY <1>9, <2>3
    <3>2. claim[v] \in AllOfB /\ claim[v] # claim[w]
      BY <1>1, <1>2, <3>1 DEF ClaimsB
    <3>3. \A u \in Workers : pc'[u] = "taskB" => pc[u] = "taskB"
      BY <1>9
    <3>4. QED
      BY <1>2, <1>8, <3>1, <3>2, <3>3 DEF ClaimsB
  <2>4. QED
    BY <1>3, <1>7, <2>1, <2>2, <2>3 DEF ClaimsB
<1>13. QED
  BY <1>6, <1>11, <1>12 DEF Tasks

\* Jobs that are synced and do not panic keep the whole invariant.
LEMMA StepFullInv ==
  ASSUME ~MayPanic, ~MayAbandon
  PROVE  FullInv /\ [Next]_vars => FullInv'
<1> SUFFICES ASSUME FullInv, [Next]_vars PROVE FullInv'
  OBVIOUS
<1>1. IInv'
  BY StepIInv DEF FullInv
<1>2. CASE Submit \/ Sync \/ Abandon \/ Drop \/ UNCHANGED vars
  BY <1>1, <1>2, StepTasksDevice DEF FullInv
<1>3. ASSUME NEW w \in Workers, WorkerStep(w) PROVE TaskTyped' /\ Tasks'
  BY <1>1, <1>3, StepTasksQuiet, StepTasksClaimA, StepTasksTaskA,
     StepTasksPrepare, StepTasksClaimB, StepTasksTaskB DEF WorkerStep
<1>4. ASSUME NEW w \in Workers, Panic(w) PROVE FALSE
  BY <1>4 DEF Panic
<1>5. QED
  BY <1>1, <1>2, <1>3, <1>4 DEF Next, Gone, FullInv

\* Both parts hold in every state.
LEMMA AlwaysFullInv ==
  ASSUME ~MayPanic, ~MayAbandon
  PROVE  Spec => []FullInv
<1>1. Init => FullInv
  BY InitIInv, InitTasks DEF FullInv
<1>2. QED
  BY <1>1, StepFullInv, PTL DEF Spec

\* No output element is computed by two workers, or twice for one job.
THEOREM NoTaskTwiceHolds ==
  ASSUME ~MayPanic, ~MayAbandon
  PROVE  Spec => []NoTaskTwice
<1>1. FullInv => NoTaskTwice
  <2> SUFFICES ASSUME FullInv, NEW w \in Workers, pc[w] \in {"taskA", "taskB"}
               PROVE  /\ pc[w] = "taskA" => act[claim[w]] # job.id
                      /\ pc[w] = "taskB" => out[claim[w]] # job.id
                      /\ \A v \in Workers \ {w} :
                           pc[v] = pc[w] => claim[v] # claim[w]
    BY DEF NoTaskTwice
  <2>1. dev = "inflight"
    BY WorkersInFlight DEF FullInv, InJob
  <2>2. Locals /\ ClaimsA /\ ClaimsB
    BY <2>1 DEF FullInv, Tasks
  <2>3. QED
    BY <2>2 DEF Locals, ClaimsA, ClaimsB
<1>2. QED
  BY <1>1, AlwaysFullInv, PTL

\* The gate of phase B opens on a complete phase A, with nobody left to write it.
THEOREM BarrierHoldsHolds ==
  ASSUME ~MayPanic, ~MayAbandon
  PROVE  Spec => []BarrierHolds
<1>1. FullInv => BarrierHolds
  <2> SUFFICES ASSUME FullInv, NEW w \in Workers, pc[w] \in {"claimB", "taskB"}
               PROVE  /\ \A i \in AllOfA : act[i] = job.id
                      /\ xsum_act = job.id
                      /\ \A v \in Workers : pc[v] \notin {"taskA", "prepare"}
    BY DEF BarrierHolds, AllOfA
  <2>1. dev = "inflight"
    BY WorkersInFlight DEF FullInv, InJob
  <2>2. Locals /\ ClaimsA /\ Gate
    BY <2>1 DEF FullInv, Tasks
  <2>3. gate_b /\ FinishedA = AllOfA /\ xsum_act = epoch /\ job.id = epoch
    BY <2>2 DEF Gate, Locals
  <2>4. \A i \in AllOfA : act[i] = epoch
    BY <2>3 DEF FinishedA, AllOfA
  <2>5. \A v \in Workers : pc[v] \notin {"taskA", "prepare"}
    BY <2>2, <2>3, <2>4 DEF Gate, ClaimsA
  <2>6. QED
    BY <2>3, <2>4, <2>5
<1>2. QED
  BY <1>1, AlwaysFullInv, PTL

-----------------------------------------------------------------------------
(* The refinement of ForkJoin.                                             *)

\* A worker computes exactly the outputs of its job: when every worker has
\* acknowledged the epoch, each slice the sum reads belongs to the job.
LEMMA SyncCombinesTheJob ==
  ASSUME FullInv, SyncOk
  PROVE  Combined = IF job.n = 0 THEN {} ELSE {epoch}
<1>1. /\ dev = "inflight" /\ held = epoch /\ epoch \in Nat \ {0}
      /\ job.n \in 0 .. MaxExperts
      /\ \A w \in Workers : acks[w] >= epoch /\ AtEpoch(w)
      /\ acks \in [Workers -> Nat]
  BY DEF FullInv, IInv, Typed, Handshake, SyncOk
<1>2. Locals /\ ClaimsB /\ Drained
  BY <1>1 DEF FullInv, Tasks
<1>3. \A w \in Workers : acks[w] = epoch /\ pc[w] = "idle"
  BY <1>1 DEF AtEpoch
<1>4. /\ TotalB(job.n) = job.n * ChunksB /\ TotalB(job.n) \in Nat
      /\ ChunksB \in Nat \ {0} /\ job.n \in Nat
  BY <1>1, TaskRanges, SizesAssumption DEF TotalB
<1>5. CASE job.n = 0
  <2>1. AllOfB = {}
    BY <1>4, <1>5 DEF AllOfB
  <2>2. QED
    BY <1>5, <2>1 DEF Combined, AllOfB
<1>6. CASE job.n # 0
  <2>1. cursor_b >= TotalB(job.n) /\ cursor_b \in Nat
    BY <1>2, <1>3, <1>6, WorkersAssumption DEF Drained, FullInv, TaskTyped
  <2>2. \A i \in AllOfB : i < cursor_b
    BY <1>4, <2>1 DEF AllOfB
  <2>3. \A i \in AllOfB : out[i] = epoch
    BY <1>2, <1>3, <2>2 DEF ClaimsB
  <2>4. 0 \in AllOfB
    <3>1. TotalB(job.n) >= 1
      BY <1>4, <1>6
    <3>2. QED
      BY <1>4, <3>1 DEF AllOfB
  <2>5. QED
    BY <1>6, <2>3, <2>4 DEF Combined, AllOfB
<1>7. QED
  BY <1>5, <1>6

\* An executor with nothing published promises nothing.
LEMMA InitRefines == Init => Promise!Init
BY DEF Init, NoReply, Promise!Init

\* Every step of the executor is a step of the fork and join, or leaves it alone.
LEMMA StepRefines ==
  ASSUME ~MayPanic, ~MayAbandon, FullInv, FullInv', [Next]_vars
  PROVE  [Promise!Next]_(Promise!vars)
<1> USE DEF device, counters, buffers, locals, Promise!vars
<1>1. ASSUME NEW n \in 0 .. MaxExperts, BeginSubmit(n)
      PROVE  UNCHANGED Promise!vars
  BY <1>1 DEF BeginSubmit
<1>2. CASE RefuseSubmit
  BY <1>2 DEF RefuseSubmit
<1>3. CASE ResetCounters
  BY <1>3 DEF ResetCounters
<1>4. CASE Publish
  <2>1. job.n \in 0 .. MaxExperts
    BY DEF FullInv, IInv, Typed
  <2>2. Promise!Submit
    BY <1>4, <2>1 DEF Publish, Promise!Submit
  <2>3. QED
    BY <2>2 DEF Promise!Next
<1>5. CASE SyncOk
  <2>1. Combined = IF job.n = 0 THEN {} ELSE {epoch}
    BY <1>5, SyncCombinesTheJob
  <2>2. dev = "inflight" /\ held = epoch /\ reply.outcome # "died"
    BY <1>5 DEF SyncOk, FullInv, IInv, Handshake, TaskTyped
  <2>3. epoch \in Nat /\ Combined \in SUBSET (0 .. epoch)
    BY <2>1 DEF FullInv, IInv, Typed
  <2>4. /\ reply' = [epoch |-> epoch, outcome |-> "ok", value |-> Combined]
        /\ dev' = "idle" /\ stray' = FALSE /\ epoch' = epoch
    BY <1>5, <2>2 DEF SyncOk
  <2>5. Promise!Deliver
    BY <2>1, <2>2, <2>3, <2>4 DEF Promise!Deliver
  <2>6. QED
    BY <2>5 DEF Promise!Next
<1>6. CASE SyncDied
  BY <1>6 DEF SyncDied, FullInv, IInv, Handshake
<1>7. CASE Abandon
  BY <1>7 DEF Abandon
<1>8. CASE BeginDrop
  BY <1>8 DEF BeginDrop, Promise!Next, Promise!Close
<1>9. CASE BumpEpoch
  <2>1. epoch \in Nat
    BY DEF FullInv, IInv, Typed
  <2>2. QED
    BY <1>9, <2>1 DEF BumpEpoch
<1>10. CASE Join
  BY <1>10 DEF Join
<1>11. ASSUME NEW w \in Workers, WorkerStep(w) PROVE UNCHANGED Promise!vars
  BY <1>11
  DEF WorkerStep, Wake, Exit, EnterJob, ClaimA, TaskA, Prepare, PassBarrier,
      ClaimB, TaskB, Ack, AckDying
<1>12. ASSUME NEW w \in Workers, Panic(w) PROVE FALSE
  BY <1>12 DEF Panic
<1>13. CASE UNCHANGED vars
  BY <1>13 DEF vars
<1>14. QED
  BY <1>1, <1>2, <1>3, <1>4, <1>5, <1>6, <1>7, <1>8, <1>9, <1>10, <1>11, <1>12, <1>13
  DEF Next, Submit, Sync, Drop, Gone

\* A sync that reports success has combined every expert of its own job and of
\* no other: the pool implements ForkJoin.
THEOREM ForkJoinImplemented ==
  ASSUME ~MayPanic, ~MayAbandon
  PROVE  Spec => ImplementsForkJoin
BY InitRefines, StepRefines, AlwaysFullInv, PTL
DEF Spec, ImplementsForkJoin, Promise!Spec
=============================================================================
