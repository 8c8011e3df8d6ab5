------------------------------- MODULE Decode -------------------------------
(***************************************************************************)
(* The mixture-of-experts half of Model::decode, in                        *)
(* crates/moearc-engine/src/moe.rs: for every block of a token the router  *)
(* names experts, a policy gives some of the missing ones to the CPU, the  *)
(* expert cache plans the rest, the misses are copied into the device pool *)
(* and both halves are added up.                                           *)
(*                                                                         *)
(* Two threads of control take part.  The host thread runs decode and only *)
(* submits; the device runs what was submitted, in order and whenever it   *)
(* likes.  Blocking calls wait for the queue to be empty.  The executor of *)
(* the CPU share is HostExecutor, seen here through what it promises: a    *)
(* sync returns the sum of the job, or an error which is final.            *)
(*                                                                         *)
(* An activation is the sequence of its summands: which expert's three     *)
(* matrices were multiplied, and whose router weight scaled the product.   *)
(***************************************************************************)
EXTENDS Integers, Sequences, FiniteSets

CONSTANTS
  Blocks,       \* the number of blocks
  Ids,          \* the experts of a block
  K,            \* the experts the router names per block
  Capacity,     \* the slots of the pool
  NoExpert,     \* what a slot holds before it is filled, or a torn result
  MaxHost,      \* bound on the misses the host policy takes; 0 is HostPolicy::Off
  FailAt,       \* the calls of decode that may return an error
  MaxClock,     \* bound on the demands between two clears
  MaxSteps      \* bound on the blocks between two resets of the counters

ConfigAssumption ==
  /\ Blocks \in Nat \ {0} /\ IsFiniteSet(Ids) /\ Capacity \in Nat
  /\ NoExpert \notin (1 .. Blocks) \X Ids
  /\ {MaxHost, MaxClock, MaxSteps} \subseteq Nat
  /\ K \in 1 .. Cardinality(Ids) /\ Capacity >= K     \* build's floor
  /\ FailAt \subseteq {"submit", "upload", "stage", "copy", "launch", "sync", "add"}

VARIABLES
  occupant, slot_of, last_used, clock, stats, at, needed, next, hits, loads,
  pc,           \* the call decode makes next; "idle" between tokens
  block,        \* the block it is in
  wanted,       \* the experts the router named, in router order
  cpu_pick,     \* those the CPU computes
  staged,       \* the loads of the plan already submitted
  job,          \* the experts of the job published to the executor and not yet synced
  host,         \* "whole", "stray" once a job was dropped unsynced, or "dead"
  cpu_out,      \* host memory sync writes the CPU's sum to
  queue,        \* the operations submitted to the device and not yet executed
  lost,         \* a copy failed and no blocking call has reported it yet
  pool,         \* what each bank of each slot holds
  weights, weights_sub,   \* device: the router's weights, and those of the device's share
  ffn, cpu_ffn, h         \* device: the block's sum, the CPU's share, the residual stream

ExpertRefs == (1 .. Blocks) \X Ids

Cache == INSTANCE ExpertCache WITH
  Experts <- ExpertRefs, MaxDemands <- K

cache == <<occupant, slot_of, last_used, clock, stats, at, needed, next, hits, loads>>
split == <<block, wanted, cpu_pick>>
cpu == <<job, host, cpu_out>>
device == <<lost, pool, weights, weights_sub, ffn, cpu_ffn, h>>
vars == <<cache, pc, split, staged, cpu, queue, device>>

Banks == {"gate", "up", "down"}

\* One summand of an activation, and the only right one for expert e.
Own(e) == [gate |-> e, up |-> e, down |-> e, weight |-> e]
Owns(s) == [i \in DOMAIN s |-> Own(s[i])]

Init ==
  /\ Cache!Init
  /\ pc = "idle" /\ block = 1 /\ wanted = <<>> /\ cpu_pick = <<>> /\ staged = {}
  /\ job = <<>> /\ host = "whole" /\ cpu_out = <<>>
  /\ queue = <<>> /\ lost = FALSE
  /\ pool = [s \in Cache!Slots |-> [b \in Banks |-> NoExpert]]
  /\ weights = <<>> /\ weights_sub = <<>>
  /\ ffn = <<>> /\ cpu_ffn = <<>> /\ h = <<>>

-----------------------------------------------------------------------------
(* The host thread.                                                        *)

\* A blocking call has waited for everything submitted, and it all succeeded.
Drained == queue = <<>> /\ ~lost

\* An error returns from decode at once.  A job in hand is dropped, not awaited.
GiveUp ==
  /\ pc' = "idle" /\ job' = <<>>
  /\ host' = IF job # <<>> /\ host = "whole" THEN "stray" ELSE host

\* The token's own uploads block; the embedding lookup starts the residual stream.
\* The scratch of the last token stays in the code and is emptied here, so that a
\* read of it before it is written again shows as a summand missing.
Begin ==
  /\ pc = "idle" /\ Drained
  /\ clock + Blocks * K <= MaxClock /\ stats.steps + Blocks <= MaxSteps
  /\ pc' = "route" /\ block' = 1 /\ wanted' = <<>> /\ cpu_pick' = <<>> /\ staged' = {}
  /\ cpu_out' = <<>> /\ weights' = <<>> /\ weights_sub' = <<>>
  /\ ffn' = <<>> /\ cpu_ffn' = <<>> /\ h' = <<>>
  /\ UNCHANGED <<cache, job, host, queue, lost, pool>>

RouterPicks(b) == {w \in [1 .. K -> {b} \X Ids] : \A i, j \in 1 .. K : w[i] = w[j] => i = j}

\* The elements of s at the positions I, in their order.
Rank(i, I) == Cardinality({j \in I : j <= i})
Keep(s, I) == [n \in 1 .. Cardinality(I) |-> s[CHOOSE i \in I : Rank(i, I) = n]]

\* The first n experts of w that are not resident.
Misses(w) == {i \in DOMAIN w : w[i] \notin Cache!Resident}
FirstMisses(w, n) == Keep(w, {i \in Misses(w) : Rank(i, Misses(w)) <= n})

\* The top-k kernel and the blocking readback of what it chose, then the split:
\* the policy takes the first n misses, asking the cache without telling it.
Route ==
  /\ pc = "route" /\ Drained
  /\ \E w \in RouterPicks(block), n \in 0 .. MaxHost :
       /\ wanted' = w /\ weights' = w
       /\ n <= Cardinality(Misses(w))
       /\ cpu_pick' = FirstMisses(w, n)
  /\ pc' = "submit"
  /\ UNCHANGED <<cache, block, staged, cpu, queue, lost, pool, weights_sub, ffn,
                 cpu_ffn, h>>

InSeq(e, s) == \E i \in DOMAIN s : s[i] = e
GpuWanted == Keep(wanted, {i \in DOMAIN wanted : ~InSeq(wanted[i], cpu_pick)})

SkipHost ==
  /\ pc = "submit" /\ cpu_pick = <<>>
  /\ pc' = "admit"
  /\ UNCHANGED <<cache, split, staged, cpu, queue, device>>

\* The job is published before anything of the block is submitted to the device.
Submit ==
  /\ pc = "submit" /\ cpu_pick # <<>> /\ Drained
  /\ job' = cpu_pick /\ pc' = "upload"
  /\ UNCHANGED <<cache, split, staged, host, cpu_out, queue, device>>

\* The device's batch is a subset of the router's choice: its own weights.
UploadSub ==
  /\ pc = "upload" /\ Drained
  /\ weights_sub' = GpuWanted /\ pc' = "admit"
  /\ UNCHANGED <<cache, split, staged, cpu, queue, lost, pool, weights, ffn, cpu_ffn, h>>

\* Only what the device is going to keep is admitted.
Admit ==
  /\ pc = "admit" /\ Cache!Admit(GpuWanted)
  /\ pc' = "stage" /\ staged' = {}
  /\ UNCHANGED <<split, cpu, queue, device>>

Plan ==
  /\ pc = "stage" /\ Cache!Serve
  /\ UNCHANGED <<pc, split, staged, cpu, queue, device>>

Planned == pc = "stage" /\ at = "planned"

Copies(l) == [i \in 1 .. 3 |-> [op |-> "copy", slot |-> l.slot, expert |-> l.expert,
                                bank |-> <<"gate", "up", "down">>[i]]]

\* The load to issue next: the plan lists them in the order of the demands.
NextLoad(l) ==
  /\ l \in loads \ staged
  /\ \A m \in loads \ staged : \E i \in DOMAIN needed :
       needed[i] = l.expert /\ \A j \in 1 .. (i - 1) : needed[j] # m.expert

StageTwoBanks ==
  /\ Planned
  /\ \E l \in loads :
       /\ NextLoad(l)
       /\ queue' = queue \o SubSeq(Copies(l), 1, 2)
       /\ staged' = staged \cup {l}
  /\ UNCHANGED <<cache, pc, split, cpu, device>>

\* stage: three asynchronous copies straight out of the mapped file.
Stage ==
  /\ Planned
  /\ \E l \in loads :
       /\ NextLoad(l)
       /\ queue' = queue \o Copies(l)
       /\ staged' = staged \cup {l}
  /\ UNCHANGED <<cache, pc, split, cpu, device>>

\* slots_for: the slot the plan gives each expert, in router order.
SlotFor(e) == CHOOSE s \in Cache!Slots : Cache!Planned(e, s)

Products ==
  LET gpu == GpuWanted IN
  IF gpu = <<>> THEN [op |-> "zero"]
  ELSE [op |-> "experts", slots |-> [i \in DOMAIN gpu |-> SlotFor(gpu[i])],
        sub |-> cpu_pick # <<>>]

LaunchEarly ==
  /\ Planned
  /\ queue' = Append(queue, Products)
  /\ pc' = IF job = <<>> THEN "residual" ELSE "sync"
  /\ UNCHANGED <<cache, split, staged, cpu, device>>

LaunchAndCopyUp ==
  /\ Planned /\ staged = loads
  /\ queue' = queue \o <<Products, [op |-> "cpu"]>>
  /\ pc' = IF job = <<>> THEN "residual" ELSE "sync"
  /\ UNCHANGED <<cache, split, staged, cpu, device>>

\* The batched products and moe_combine, once every miss is staged.  The queue
\* is in order and nothing comes between them, so they are one operation.
Launch ==
  /\ Planned /\ staged = loads
  /\ queue' = Append(queue, Products)
  /\ pc' = IF job = <<>> THEN "residual" ELSE "sync"
  /\ UNCHANGED <<cache, split, staged, cpu, device>>

\* sync copies the job's sum out.  After a job was dropped unsynced its workers
\* may have torn this one (HostExecutorAbandonRace).
SyncOk ==
  /\ pc = "sync" /\ host # "dead"
  /\ \/ cpu_out' = Owns(job)
     \/ host = "stray" /\ cpu_out' = <<Own(NoExpert)>>
  /\ job' = <<>> /\ host' = "whole" /\ pc' = "add"
  /\ UNCHANGED <<cache, split, staged, queue, device>>

\* The host's share is copied up asynchronously, out of cpu_out, and added.
Add ==
  /\ pc = "add"
  /\ queue' = queue \o <<[op |-> "cpu"], [op |-> "add"]>>
  /\ pc' = "residual"
  /\ UNCHANGED <<cache, split, staged, cpu, device>>

ResidualPastTheEnd ==
  /\ pc = "residual"
  /\ queue' = Append(queue, [op |-> "residual", asked |-> wanted])
  /\ pc' = IF block = Blocks THEN "answer" ELSE "route"
  /\ block' = block + 1
  /\ UNCHANGED <<cache, wanted, cpu_pick, staged, cpu, device>>

\* h += ffn, and on to the next block.
Residual ==
  /\ pc = "residual"
  /\ queue' = Append(queue, [op |-> "residual", asked |-> wanted])
  /\ pc' = IF block = Blocks THEN "answer" ELSE "route"
  /\ block' = IF block = Blocks THEN block ELSE block + 1
  /\ UNCHANGED <<cache, wanted, cpu_pick, staged, cpu, device>>

\* The blocking readback of the logits ends the token.
Answer ==
  /\ pc = "answer" /\ Drained
  /\ pc' = "idle"
  /\ UNCHANGED <<cache, split, staged, cpu, queue, device>>

-----------------------------------------------------------------------------
(* Errors.  What they leave alone is in HostFails.                         *)

NothingMore == UNCHANGED <<queue, device>>

\* The x_host download or submit fails: no job was published.
SubmitFails == "submit" \in FailAt /\ pc = "submit" /\ cpu_pick # <<>> /\ GiveUp /\ NothingMore

UploadFails == "upload" \in FailAt /\ pc = "upload" /\ GiveUp /\ NothingMore

\* One of the three copies of a load is refused; the rest is not attempted.
StageFails ==
  /\ "stage" \in FailAt /\ Planned
  /\ \E l \in loads, n \in 0 .. 2 :
       NextLoad(l) /\ queue' = queue \o SubSeq(Copies(l), 1, n)
  /\ GiveUp /\ UNCHANGED device

\* A wrapper whose kernel fails waits for the queue and throws the verdict away,
\* so that nothing is in flight when it returns the error.
Finish == queue = <<>> /\ lost' = FALSE
FinishFails ==
  Finish /\ GiveUp /\ UNCHANGED <<queue, pool, weights, weights_sub, ffn, cpu_ffn, h>>

LaunchFails == "launch" \in FailAt /\ Planned /\ staged = loads /\ FinishFails

\* WorkerDied, which every later sync returns too.
SyncFails ==
  /\ pc = "sync" /\ ("sync" \in FailAt \/ host = "dead")
  /\ pc' = "idle" /\ job' = <<>> /\ host' = "dead"
  /\ NothingMore

\* The copy up is refused, or it is submitted and the addition fails after it.
AddFails ==
  /\ "add" \in FailAt /\ pc = "add"
  /\ \/ GiveUp /\ NothingMore
     \/ /\ Finish /\ GiveUp
        /\ cpu_ffn' = cpu_out /\ UNCHANGED <<queue, pool, weights, weights_sub, ffn, h>>

\* A blocking call reports the copy that failed before it.
ReportLost ==
  /\ pc \in {"idle", "route", "answer"} /\ queue = <<>> /\ lost
  /\ lost' = FALSE
  /\ GiveUp
  /\ UNCHANGED <<queue, pool, weights, weights_sub, ffn, cpu_ffn, h>>

HostFails ==
  /\ UNCHANGED <<cache, split, staged, cpu_out>>
  /\ \/ SubmitFails \/ UploadFails \/ StageFails \/ LaunchFails \/ SyncFails \/ AddFails
     \/ ReportLost

\* clear_residency and reset_cache_stats are called between tokens.
ClearResidency ==
  /\ pc = "idle" /\ (Cache!Clear \/ Cache!ResetStats)
  /\ UNCHANGED <<pc, split, staged, cpu, queue, device>>

-----------------------------------------------------------------------------
(* The device: the operation at the head of the queue.                     *)

Op == queue[1]
Executes(op) == queue # <<>> /\ Op.op = op /\ queue' = Tail(queue)
HostWaits == UNCHANGED <<cache, pc, split, staged, cpu>>

DoCopy ==
  /\ Executes("copy")
  /\ pool' = [pool EXCEPT ![Op.slot][Op.bank] = Op.expert]
  /\ UNCHANGED <<lost, weights, weights_sub, ffn, cpu_ffn, h>>

CopyFails ==
  /\ "copy" \in FailAt /\ Executes("copy")
  /\ lost' = TRUE
  /\ UNCHANGED <<pool, weights, weights_sub, ffn, cpu_ffn, h>>

DoExperts ==
  /\ Executes("experts")
  /\ LET w == IF Op.sub THEN weights_sub ELSE weights IN
     ffn' = [i \in DOMAIN Op.slots |->
               [gate |-> pool[Op.slots[i]]["gate"], up |-> pool[Op.slots[i]]["up"],
                down |-> pool[Op.slots[i]]["down"], weight |-> w[i]]]
  /\ UNCHANGED <<lost, pool, weights, weights_sub, cpu_ffn, h>>

DoZero ==
  /\ Executes("zero")
  /\ ffn' = <<>>
  /\ UNCHANGED <<lost, pool, weights, weights_sub, cpu_ffn, h>>

DoCpu ==
  /\ Executes("cpu")
  /\ cpu_ffn' = cpu_out
  /\ UNCHANGED <<lost, pool, weights, weights_sub, ffn, h>>

DoAdd ==
  /\ Executes("add")
  /\ ffn' = ffn \o cpu_ffn
  /\ UNCHANGED <<lost, pool, weights, weights_sub, cpu_ffn, h>>

DoResidual ==
  /\ Executes("residual")
  /\ h' = Append(h, [sum |-> ffn, asked |-> Op.asked])
  /\ UNCHANGED <<lost, pool, weights, weights_sub, ffn, cpu_ffn>>

Device ==
  /\ HostWaits
  /\ DoCopy \/ CopyFails \/ DoExperts \/ DoZero \/ DoCpu \/ DoAdd \/ DoResidual

Host ==
  \/ Route \/ SkipHost \/ Submit \/ UploadSub \/ Admit \/ Plan \/ Stage \/ Launch
  \/ SyncOk \/ Add \/ Residual \/ Answer \/ HostFails

Next == Begin \/ Host \/ Device \/ ClearResidency

Spec == Init /\ [][Next]_vars

\* The host thread runs decode to its end, and the device drains its queue.
LiveSpec == Spec /\ WF_vars(Host) /\ WF_vars(Device)

-----------------------------------------------------------------------------
(* Properties.                                                             *)

Summands == Seq([gate : ExpertRefs \cup {NoExpert}, up : ExpertRefs \cup {NoExpert},
                 down : ExpertRefs \cup {NoExpert}, weight : ExpertRefs \cup {NoExpert}])

\* Every variable stays in its range.
TypeOK ==
  /\ Cache!TypeOK
  /\ pc \in {"idle", "route", "submit", "upload", "admit", "stage", "sync", "add",
             "residual", "answer"}
  /\ block \in 1 .. Blocks
  /\ \A s \in {wanted, cpu_pick, job, weights, weights_sub} :
       s \in Seq(ExpertRefs) /\ Len(s) <= K
  /\ staged \subseteq Cache!LoadType
  /\ host \in {"whole", "stray", "dead"} /\ lost \in BOOLEAN
  /\ pool \in [Cache!Slots -> [Banks -> ExpertRefs \cup {NoExpert}]]
  /\ cpu_out \in Summands /\ ffn \in Summands /\ cpu_ffn \in Summands
  /\ Len(h) <= Blocks

\* A block's sum has each expert the router named exactly once, multiplied by its
\* own three matrices and scaled by its own weight.
Whole(r) ==
  /\ Len(r.sum) = Len(r.asked)
  /\ {r.sum[i] : i \in DOMAIN r.sum} = {Own(r.asked[i]) : i \in DOMAIN r.asked}

\* When decode returns logits, every block contributed its whole sum: no product
\* read a slot still being filled, no weight was paired with another expert, and
\* the CPU's share is that of its own block.
AnswersAreWhole ==
  pc = "answer" /\ Drained => Len(h) = Blocks /\ \A i \in DOMAIN h : Whole(h[i])

\* Between tokens the cache is certain of no slot that was never filled: what it
\* calls resident is in all three banks of its slot.
ResidentIsFilled ==
  pc = "idle" /\ Drained =>
    \A e \in Cache!Resident : \A b \in Banks : pool[slot_of[e]][b] = e

\* "cpu_out stays alive and unmodified until the copy runs": sync never writes it
\* while an asynchronous copy out of it is still queued.
CpuOutStable ==
  [][cpu_out' # cpu_out => \A i \in DOMAIN queue : queue[i].op # "cpu"]_vars

\* A decode that began returns, with logits or with an error.
DecodeReturns == pc # "idle" ~> pc = "idle"
=============================================================================
