--------------------------------- MODULE Timed ---------------------------------
(***************************************************************************)
(* `moearc bench-run`, crates/moearc-cli/src/bench/timed.rs: the children  *)
(* `moearc bench` spawns, one after the other, and what it makes of the    *)
(* lines they print.  A child loads the model, generates twice from the    *)
(* same prompt, cold and warm, and reports differences: of the engine's    *)
(* counters, of the clock at the tokens, of the machine's disk counters.   *)
(* The machine outlives a child, the engine and the profile do not.        *)
(*                                                                         *)
(* Time is counted in steps of the engine.  The router's experts and the   *)
(* greedy token are functions of the whole sequence.  A job is             *)
(*   [readable, ids, depth, tokens, ctx, parses, slots, host, threads,     *)
(*    device, zfs, profile]                                                *)
(* where host is a policy <<"off">>, <<"frac", n, d>> or <<"over", n>> and *)
(* device is whether a disk was named to count the reads of.               *)
(***************************************************************************)
EXTENDS Integers, Sequences, FiniteSets, SequencesExt, FiniteSetsExt

CONSTANTS
  Jobs,
  Routes,        \* the experts of a sequence, in the router's order, by its digest
  Invocations,   \* the children of a point
  MaxTenants     \* what others on the machine may do to it

VARIABLES
  worker,        \* where the child is
  job,
  box,           \* the machine: [cached, disk, seen, hits, misses, own, tenants, reset]
  bracket,       \* the machine's counters before the load
  prompt,
  engine,        \* [threads, sequence, pool, demands, hits, staged, computed]
  clock,         \* the steps the engine has run
  profiled,      \* the calls of decode.total in the profile
  pass,          \* the generation in hand: [before, started, fed, marks, ids]
  passes,        \* the cold one and the warm one, as measured
  reports        \* what the children printed

timedVars ==
  <<worker, job, box, bracket, prompt, engine, clock, profiled, pass, passes, reports>>

Unattributed == -1
Dense == -1      \* the pages of everything that is no expert
Digest(seq) == FoldSeq(+, 0, seq) % Len(Routes)

-----------------------------------------------------------------------------
(* The machine.                                                            *)
IoNow ==
  [disk |-> IF job.device /\ box.seen THEN box.disk ELSE Unattributed,
   hits |-> IF job.zfs THEN box.hits ELSE Unattributed,
   misses |-> IF job.zfs THEN box.misses ELSE Unattributed]
\* A counter that went backwards counts nothing.
Difference(now, before) ==
  IF Unattributed \in {now, before} THEN Unattributed ELSE Max({now - before, 0})
Since(now, before) == [f \in DOMAIN now |-> Difference(now[f], before[f])]

Touch(pages) ==
  LET faults == Cardinality(pages \ box.cached)
  IN box' = [box EXCEPT !.cached = @ \cup pages, !.disk = @ + faults, !.own = @ + faults,
                        !.hits = @ + Cardinality(pages \cap box.cached), !.misses = @ + faults]

\* Another tenant reads, and takes the page cache; the device is renumbered, or is gone.
Tenant ==
  /\ box.tenants < MaxTenants /\ worker \notin {"done", "failed"}
  /\ \/ box' = [box EXCEPT !.tenants = @ + 1, !.disk = @ + 1, !.misses = @ + 1, !.cached = {}]
     \/ box' = [box EXCEPT !.tenants = @ + 1, !.disk = 0, !.reset = TRUE]
     \/ box' = [box EXCEPT !.tenants = @ + 1, !.seen = ~@]
  /\ UNCHANGED <<worker, job, bracket, prompt, engine, clock, profiled, pass, passes, reports>>

-----------------------------------------------------------------------------
(* The engine: one step, with a pool of slots in order of use.             *)
IsOff(policy) == policy[1] = "off" \/ (policy[1] = "frac" /\ policy[2] = 0)
HostCount(policy, misses) ==
  CASE policy[1] = "off" -> 0
    [] policy[1] = "frac" -> (misses * policy[2] + policy[3] - 1) \div policy[3]
    [] policy[1] = "over" -> Max({misses - policy[2], 0})

Newest(seq, n) == SubSeq(seq, Max({Len(seq) - n, 0}) + 1, Len(seq))
Without(seq, xs) == SelectSeq(seq, LAMBDA x : x \notin xs)

\* A step is a scope of the profile, when the profile is on.
Recorded == profiled' = IF job.profile THEN profiled + 1 ELSE profiled

\* Of the experts that are not resident the first in the router's order go to the CPU.
Step(token) ==
  LET sequence == Append(engine.sequence, token)
      wanted == Routes[Digest(sequence) + 1]
      missing == Without(wanted, ToSet(engine.pool))
      picked == ToSet(SubSeq(missing, 1, HostCount(job.host, Len(missing))))
      kept == Without(wanted, picked)
  IN /\ engine' = [engine EXCEPT
            !.sequence = sequence,
            !.pool = Newest(Without(@, ToSet(kept)) \o kept, job.slots),
            !.demands = @ + Len(kept),
            !.hits = @ + Len(wanted) - Len(missing),
            !.staged = @ + Len(missing) - Cardinality(picked),
            !.computed = @ + Cardinality(picked)]
     /\ Touch(ToSet(missing))
     /\ clock' = clock + 1
     /\ Recorded

NoEngine ==
  [threads |-> 0, sequence |-> <<>>, pool |-> <<>>, demands |-> 0, hits |-> 0, staged |-> 0,
   computed |-> 0]
NoPass == [before |-> NoEngine, started |-> 0, fed |-> 0, marks |-> <<>>, ids |-> <<>>]

-----------------------------------------------------------------------------
TimedInit ==
  /\ job \in Jobs
  /\ worker = "start"
  /\ box = [cached |-> {}, disk |-> 0, seen |-> TRUE, hits |-> 0, misses |-> 0, own |-> 0,
            tenants |-> 0, reset |-> FALSE]
  /\ bracket = [disk |-> 0, hits |-> 0, misses |-> 0]
  /\ prompt = <<>> /\ engine = NoEngine /\ clock = 0 /\ profiled = 0
  /\ pass = NoPass /\ passes = <<>> /\ reports = <<>>

\* A child that fails ends the parent's sweep.
Fails ==
  /\ worker' = "failed"
  /\ UNCHANGED <<job, box, bracket, prompt, engine, clock, profiled, pass, passes, reports>>

Refusal == ~job.readable \/ job.ids = <<>> \/ job.depth > Len(job.ids)
RunWorker ==
  /\ worker = "start"
  /\ \/ Refusal /\ Fails
     \/ /\ ~Refusal
        /\ prompt' = SubSeq(job.ids, 1, Max({job.depth, 1}))
        /\ bracket' = IoNow
        /\ worker' = "load"
        /\ UNCHANGED <<job, box, engine, clock, profiled, pass, passes, reports>>

\* Without a host policy there is no pool of threads to report; with one, it has the threads
\* it could be given.
Load ==
  /\ worker = "load"
  /\ \/ Fails
     \/ /\ job.parses
        /\ \E n \in (IF IsOff(job.host) THEN {0} ELSE job.threads) :
             engine' = [NoEngine EXCEPT !.threads = n]
        /\ Touch({Dense})
        /\ worker' = "clear"
        /\ UNCHANGED <<job, bracket, prompt, clock, profiled, pass, passes, reports>>

\* The cache is made anew: it loses its counters with its experts.
ClearResidency ==
  /\ worker = "clear"
  /\ engine' = [engine EXCEPT !.pool = <<>>, !.demands = 0, !.hits = 0, !.staged = 0]
  /\ worker' = "begin"
  /\ UNCHANGED <<job, box, bracket, prompt, clock, profiled, pass, passes, reports>>

BeginPass ==
  /\ worker = "begin"
  /\ pass' = [NoPass EXCEPT !.before = engine, !.started = clock]
  /\ engine' = [engine EXCEPT !.sequence = <<>>]
  /\ worker' = "prefill"
  /\ UNCHANGED <<job, box, bracket, prompt, clock, profiled, passes, reports>>

ContextFull == Len(engine.sequence) >= job.ctx
Prefill ==
  /\ worker = "prefill"
  /\ \/ ContextFull /\ Fails
     \/ /\ ~ContextFull
        /\ Step(prompt[pass.fed + 1])
        /\ pass' = [pass EXCEPT !.fed = @ + 1]
        /\ worker' = CASE pass.fed + 1 < Len(prompt) -> "prefill"
                       [] pass.fed + 1 = Len(prompt) /\ job.tokens = 0 -> "ended"
                       [] OTHER -> "sample"
        /\ UNCHANGED <<job, bracket, prompt, passes, reports>>

\* The first token of a pass empties the process's profile.
OnToken ==
  /\ worker = "sample"
  /\ profiled' = IF pass.marks = <<>> THEN 0 ELSE profiled
  /\ pass' = [pass EXCEPT !.marks = Append(@, clock), !.ids = Append(@, Digest(engine.sequence))]
  /\ worker' = IF Len(pass.marks) + 1 >= job.tokens THEN "ended" ELSE "decode"
  /\ UNCHANGED <<job, box, bracket, prompt, engine, clock, passes, reports>>

Decode ==
  /\ worker = "decode"
  /\ \/ ContextFull /\ Fails
     \/ /\ ~ContextFull
        /\ Step(Last(pass.ids))
        /\ worker' = "sample"
        /\ UNCHANGED <<job, bracket, prompt, pass, passes, reports>>

Measured ==
  [decode_steps |-> Len(pass.marks) - 1,
   decode_seconds |-> Last(pass.marks) - Head(pass.marks),
   prefill_seconds |-> Head(pass.marks) - pass.started,
   demands |-> Max({engine.demands - pass.before.demands, 0}),
   hits |-> Max({engine.hits - pass.before.hits, 0}),
   staged |-> Max({engine.staged - pass.before.staged, 0}),
   computed |-> engine.computed - pass.before.computed,
   token_ids |-> pass.ids]
EndPass ==
  /\ worker = "ended"
  /\ \/ Len(pass.marks) < 2 /\ Fails
     \/ /\ Len(pass.marks) >= 2
        /\ passes' = Append(passes, Measured)
        /\ worker' = IF Len(passes) = 0 THEN "begin" ELSE "report"
        /\ UNCHANGED <<job, box, bracket, prompt, engine, clock, profiled, pass, reports>>

WorkerResult ==
  [depth |-> job.depth, prompt |-> Len(prompt), host_threads |-> engine.threads,
   cold |-> passes[1], warm |-> passes[2], io |-> Since(IoNow, bracket), phases |-> profiled]
\* The line is printed and the process is gone.
Report ==
  /\ worker = "report"
  /\ reports' = Append(reports, WorkerResult)
  /\ worker' = IF Len(reports) + 1 = Invocations THEN "done" ELSE "start"
  /\ engine' = NoEngine /\ profiled' = 0 /\ pass' = NoPass /\ passes' = <<>>
  /\ UNCHANGED <<job, box, bracket, prompt, clock>>

TimedNext ==
  \/ Tenant \/ RunWorker \/ Load \/ ClearResidency \/ BeginPass \/ Prefill \/ OnToken \/ Decode
  \/ EndPass \/ Report

TimedSpec == TimedInit /\ [][TimedNext]_timedVars

-----------------------------------------------------------------------------
(* TimedPoint, over the children.                                          *)
Answered(field) == {i \in DOMAIN reports : reports[i].io[field] # Unattributed}
Total(Of(_), children) == FoldSet(LAMBDA i, sum : Of(i) + sum, 0, children)
DiskReadBytes ==
  IF Answered("disk") = {} THEN Unattributed
  ELSE Total(LAMBDA i : reports[i].io.disk, Answered("disk"))
ArcMisses ==
  LET both == Answered("hits") \cap Answered("misses")
  IN IF both = {} THEN Unattributed ELSE Total(LAMBDA i : reports[i].io.misses, both)
ThreadsReported ==
  LET said == {reports[i].host_threads : i \in DOMAIN reports}
  IN IF Cardinality(said) = 1 THEN CHOOSE n \in said : TRUE ELSE Unattributed

-----------------------------------------------------------------------------
(* Properties.                                                             *)
Both(r) == {r.cold, r.warm}

\* The rate is over the steps that were asked for and the time that those steps took: every
\* pass has one step fewer than tokens, and prefill has one for each token of the prompt.
RateIsOfDecode ==
  \A i \in DOMAIN reports : \A p \in Both(reports[i]) :
    /\ p.decode_steps = job.tokens - 1 /\ p.decode_steps > 0
    /\ p.decode_seconds = p.decode_steps
    /\ p.prefill_seconds = reports[i].prompt

\* The cold pass pays for every expert the first time: what it hits it has staged itself.  The
\* warm one starts with what the cold one left, and both do the same work.
ColdIsCold ==
  \A i \in DOMAIN reports :
    LET r == reports[i]
    IN /\ r.cold.hits > 0 => r.cold.staged > 0
       /\ \A p \in Both(r) : p.demands = p.hits + p.staged
       /\ r.warm.token_ids = r.cold.token_ids
       /\ r.warm.demands + r.warm.computed = r.cold.demands + r.cold.computed
       /\ r.warm.hits >= r.cold.hits

\* Every child did the same work: the passes of one are the passes of another.
InvocationsAgree ==
  \A i, j \in DOMAIN reports : reports[i].cold = reports[j].cold /\ reports[i].warm = reports[j].warm

\* A policy that sends every miss to the CPU freezes the pool: after the clearing it is
\* empty, nothing is demanded, and the hit rate is 0 cold and warm.
AllFreezesThePool ==
  job.host = <<"frac", 1, 1>> =>
    \A i \in DOMAIN reports : \A p \in Both(reports[i]) : p.demands = 0 /\ p.hits = 0

\* The phases are of the warm pass's decode steps and of nothing else.
PhasesAreOfDecode ==
  \A i \in DOMAIN reports :
    reports[i].phases = IF job.profile THEN reports[i].warm.decode_steps ELSE 0

\* The disk column has what the children read themselves and at most what others read beside
\* them, each read once, unless the counter was reset under it; or less, when one of the
\* children could not see the device: a total of some of them is not marked as one
\* (timed.rs:159-170).
Partial == Answered("disk") \notin {{}, DOMAIN reports}
DiskIsCounted ==
  worker = "done" =>
    /\ DiskReadBytes # Unattributed /\ ~Partial /\ ~box.reset => DiskReadBytes >= box.own
    /\ ~box.reset => DiskReadBytes <= box.own + box.tenants
    /\ ~job.device => DiskReadBytes = Unattributed
    /\ job.zfs => ArcMisses >= box.own
    /\ Answered("hits") = Answered("misses")

\* A depth that was reported is a depth of real tokens; but depth 0 is a prompt of one.
DepthIsReal ==
  \A i \in DOMAIN reports :
    /\ reports[i].prompt <= Len(job.ids)
    /\ reports[i].depth > 0 => reports[i].prompt = reports[i].depth
\* A thread count is printed only when every child ran on it.
ThreadsAreOfAll ==
  ThreadsReported # Unattributed =>
    \A i \in DOMAIN reports : reports[i].host_threads = ThreadsReported

TimedIsTrue ==
  /\ RateIsOfDecode /\ ColdIsCold /\ InvocationsAgree /\ AllFreezesThePool
  /\ PhasesAreOfDecode /\ DiskIsCounted /\ DepthIsReal /\ ThreadsAreOfAll
==============================================================================
