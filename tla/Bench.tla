--------------------------------- MODULE Bench ---------------------------------
(***************************************************************************)
(* `moearc bench`, crates/moearc-cli/src/bench: one run from the reading   *)
(* of the machine to the verdict.  It replays the traces, times this       *)
(* program in children of its own and llama-bench as the incumbent, and    *)
(* lets the guards say what the numbers are worth.                         *)
(*                                                                         *)
(* The load average is whatever it is whenever it is read: at most the     *)
(* warning threshold ("quiet"), at most the refusing one ("warm"), above   *)
(* it ("busy"), or not to be read.  An order is                            *)
(*   [shape, absolutes, check, force, settle, offload, incumbent, prompt,  *)
(*    machine]                                                             *)
(* where settle bounds the times a wait looks again, incumbent is the      *)
(* thread counts llama-bench is swept over (none: it is not run) and       *)
(* machine is what the probes find                                         *)
(*   [commit, gpu, device, runtime, free, cache, backend].                 *)
(***************************************************************************)
EXTENDS Integers, Sequences, FiniteSets, SequencesExt, FiniteSetsExt

CONSTANTS
  BenchOrders,
  Depths, Repeats,   \* how many depths are timed, and how often each
  MinInvocations,    \* min_invocations
  Asked, Other       \* the threads asked for, and another count

VARIABLES
  at, ask,
  load1,     \* the reading's load average
  found,     \* the findings, pairs of a code and a level
  shaped,    \* whether a trace was replayed
  rows,      \* the rows of the depth in hand: [threads, over] of each child
  points,    \* the finished depths, sequences of rows
  looks,     \* how often this wait has looked again
  pins,      \* the pin of this engine's threads, none or one
  inc,       \* llama-bench: [runs, seen], seen the [asked, threads, over] of each
  outcome    \* [verdict, headline, exit]

benchVars == <<at, ask, load1, found, shaped, rows, points, looks, pins, inc, outcome>>

Loads == {"quiet", "warm", "busy", "unreadable"}
OverLimit(l) == l \in {"busy", "unreadable"}

Pass == 0
Warn == 1
Refusal == 2
Finding(code, level) == <<code, level>>
Worst(findings) == Max({f[2] : f \in findings} \cup {Pass})
Verdict(findings) == <<"trusted", "qualified", "refused">>[Worst(findings) + 1]

-----------------------------------------------------------------------------
(* guard.rs.                                                               *)
Unknown == -1

Build == Finding("build-commit", IF ask.machine.commit = "clean" THEN Pass ELSE Warn)
Load == Finding("load", CASE load1 = "quiet" -> Pass [] load1 = "warm" -> Warn
                          [] OTHER -> Refusal)
PageCache == Finding("page-cache", IF ask.machine.cache = "fits" THEN Pass ELSE Warn)

PinFinding(code, pin) == Finding(code, IF pin.reported = pin.requested THEN Pass ELSE Refusal)
\* With no host pool the engine reports no threads.
EnginePin(pin) ==
  IF ask.offload THEN PinFinding("threads-moearc", pin)
  ELSE Finding("threads-moearc", IF pin.reported = 0 THEN Pass ELSE Refusal)

\* Per point: what the processes of the point reported must be what it asked for.  Of
\* several thread counts the last is reported, and compared with the first.
SweepReported ==
  IF \E p \in inc.seen : p.threads # p.asked THEN Unknown
  ELSE ask.incumbent[Len(ask.incumbent)]
IncumbentPin == [requested |-> ask.incumbent[1], reported |-> SweepReported]

Threads ==
  {EnginePin(p) : p \in pins} \cup
  (IF inc.runs = 0 THEN {} ELSE {PinFinding("threads-incumbent", IncumbentPin)})

IncumbentBackend ==
  Finding("incumbent-backend", CASE ask.machine.backend = "same" -> Pass
                                 [] ask.machine.backend = "unmapped" -> Warn
                                 [] OTHER -> Refusal)
Backend ==
  {Finding("build-no-gpu", IF ask.machine.gpu THEN Pass ELSE Refusal),
   Finding("device", IF ask.machine.device = "expected" THEN Pass ELSE Refusal),
   Finding("runtime-build", IF ask.machine.runtime = "old" THEN Warn ELSE Pass)}
  \cup (IF inc.runs = 0 THEN {} ELSE {IncumbentBackend})

DeviceIdle ==
  Finding("device-busy", CASE ask.machine.device = "none" -> Pass
                           [] ask.machine.device # "none" /\ ask.machine.free = "unmeasured" -> Warn
                           [] ask.machine.device # "none" /\ ask.machine.free = "held" -> Refusal
                           [] OTHER -> Pass)

Evaluated ==
  {Build} \cup IF ask.absolutes
               THEN {Load, PageCache, DeviceIdle} \cup Threads \cup Backend ELSE {}

-----------------------------------------------------------------------------
Nothing == [verdict |-> "none", headline |-> {}, exit |-> -1]

BenchInit ==
  /\ at = "start" /\ ask \in BenchOrders
  /\ load1 = "quiet" /\ found = {} /\ shaped = FALSE
  /\ rows = <<>> /\ points = <<>> /\ looks = 0 /\ pins = {} /\ inc = [runs |-> 0, seen |-> {}]
  /\ outcome = Nothing

MaySettle == ask.absolutes /\ ~ask.check /\ ~ask.force /\ ask.settle > 0

TakeReading ==
  /\ at = "start"
  /\ load1' \in Loads
  /\ at' = IF MaySettle /\ load1' = "busy" THEN "settling" ELSE "preflight"
  /\ UNCHANGED <<ask, found, shaped, rows, points, looks, pins, inc, outcome>>

\* wait_for_quiet: it looks, and looks again until settle is used up.
Goes(l) == ~OverLimit(l)
GivesUp(l) == l = "unreadable" \/ (l = "busy" /\ looks >= ask.settle)
LooksAgain(l) == l = "busy" /\ looks < ask.settle
CountLook == looks' = looks + 1

\* Before the pre-flight its answer is dropped and the load is read once more.
Settle ==
  /\ at = "settling"
  /\ \E l \in Loads :
       IF LooksAgain(l) THEN CountLook /\ UNCHANGED <<at, load1>>
       ELSE at' = "preflight" /\ looks' = 0 /\ load1' \in Loads
  /\ UNCHANGED <<ask, found, shaped, rows, points, pins, inc, outcome>>

ShapeOrTimed == IF ask.shape THEN "shape" ELSE "timed"
Preflight ==
  /\ at = "preflight"
  /\ at' = ShapeOrTimed
  /\ UNCHANGED <<ask, load1, found, shaped, rows, points, looks, pins, inc, outcome>>

Shape ==
  /\ at = "shape"
  /\ \/ shaped' = TRUE /\ UNCHANGED found
     \/ UNCHANGED shaped /\ found' = found \cup {Finding("shape-empty", Warn)}
  /\ at' = "timed"
  /\ UNCHANGED <<ask, load1, rows, points, looks, pins, inc, outcome>>

Refused == Verdict(Evaluated) = "refused"
NotTimed == ~ask.absolutes \/ (Refused /\ ~ask.force) \/ ask.check

\* An error ends the command with nothing written: there is no trace, a child fails, or
\* the prompt is too short for a depth.
Error ==
  /\ at' = "error" /\ outcome' = [Nothing EXCEPT !.exit = 1]
  /\ UNCHANGED <<ask, load1, found, shaped, rows, points, looks, pins, inc>>
Bails == at \in {"shape", "worker", "incumbent"} /\ Error
ShortPrompt == at = "timed" /\ ~NotTimed /\ ~ask.prompt /\ Error

SkipTimed ==
  /\ at = "timed" /\ NotTimed
  /\ at' = "judge"
  /\ UNCHANGED <<ask, load1, found, shaped, rows, points, looks, pins, inc, outcome>>

\* The model is read once into the page cache, if it fits.
BeginTimed ==
  /\ at = "timed" /\ ~NotTimed /\ ask.prompt
  /\ found' = found \cup {Finding("warm-cache",
                             IF ask.machine.cache \in {"fits", "tight"} THEN Pass ELSE Warn)}
  /\ at' = IF ask.force THEN "worker" ELSE "waiting"
  /\ UNCHANGED <<ask, load1, shaped, rows, points, looks, pins, inc, outcome>>

-----------------------------------------------------------------------------
(* The sweep.                                                              *)
\* A mutant's: the first child speaks for all.
ReportedFirst(all) == IF all = <<>> THEN Unknown ELSE all[1].threads
Reported(all) ==
  IF all = <<>> \/ \E i \in DOMAIN all : all[i].threads # all[1].threads THEN Unknown
  ELSE all[1].threads

Swept == FoldLeft(LAMBDA acc, p : acc \o p, <<>>, points)
\* The children of the depth in hand count for the pin, whether the depth is kept or not.
EndSweep(all) ==
  /\ pins' = {[requested |-> Asked, reported |-> Reported(all)]}
  /\ at' = IF ask.incumbent = <<>> THEN "judge" ELSE "incumbent"
\* A wait that gives up ends the sweep; as a mutant it waits once more.
GaveUpWaiting == at' = "waiting" /\ UNCHANGED pins
GaveUp == EndSweep(Swept \o rows)

Wait ==
  /\ at = "waiting"
  /\ \E l \in Loads :
       \/ /\ Goes(l) /\ at' = "worker" /\ looks' = 0
          /\ rows' = Append(rows, [threads |-> Unknown, over |-> OverLimit(l)])
          /\ UNCHANGED <<found, pins>>
       \/ /\ LooksAgain(l) /\ CountLook
          /\ UNCHANGED <<at, rows, found, pins>>
       \/ /\ GivesUp(l) /\ looks' = 0
          /\ found' = found \cup {Finding("load-settle", Refusal)}
          /\ GaveUp /\ rows' = <<>>
  /\ UNCHANGED <<ask, load1, shaped, points, inc, outcome>>

\* A child of this program: what it says it ran on.
RunsOn == IF ask.offload THEN {Asked, Other} ELSE {0, Other}
Latest(l) == IF ask.force THEN Append(rows, [threads |-> Unknown, over |-> OverLimit(l)]) ELSE rows
Worker ==
  /\ at = "worker"
  /\ \E t \in RunsOn, l \in (IF ask.force THEN {"quiet", "busy"} ELSE {"quiet"}) :
       LET all == Latest(l)
           done == [all EXCEPT ![Len(all)].threads = t]
       IN IF Len(done) < Repeats
          THEN /\ rows' = done /\ at' = (IF ask.force THEN "worker" ELSE "waiting")
               /\ UNCHANGED <<points, pins>>
          ELSE /\ rows' = <<>> /\ points' = Append(points, done)
               /\ IF Len(points) + 1 < Depths
                  THEN at' = (IF ask.force THEN "worker" ELSE "waiting") /\ UNCHANGED pins
                  ELSE EndSweep(Swept \o done)
  /\ UNCHANGED <<ask, load1, found, shaped, looks, inc, outcome>>

\* llama-bench, for every thread count at every depth: nothing waits for it.
InSweep == Len(ask.incumbent) * Depths * Repeats
AskedNow == ask.incumbent[(inc.runs \div (Depths * Repeats)) + 1]
Incumbent ==
  /\ at = "incumbent"
  /\ \E t \in {AskedNow, Other}, l \in {"quiet", "busy"} :
       inc' = [runs |-> inc.runs + 1,
               seen |-> inc.seen \cup {[asked |-> AskedNow, threads |-> t, over |-> OverLimit(l)]}]
  /\ at' = IF inc.runs + 1 = InSweep THEN "judge" ELSE "incumbent"
  /\ UNCHANGED <<ask, load1, found, shaped, rows, points, looks, pins, outcome>>

-----------------------------------------------------------------------------
\* The spread of a quantity over its invocations; too few are refused.
Dispersion(spread) ==
  IF points = <<>> /\ inc.runs = 0 THEN {}
  ELSE {Finding("dispersion", IF Repeats < MinInvocations THEN Refusal ELSE spread)}
Forced == IF ask.force THEN {Finding("forced", Warn)} ELSE {}

Headline(verdict, findings) ==
  IF verdict = "refused" THEN {}
  ELSE (IF shaped THEN {"shape"} ELSE {}) \cup
       (IF points = <<>> THEN {}
        ELSE IF Finding("dispersion", Refusal) \in findings THEN {"withheld"} ELSE {"absolutes"})

Judge ==
  /\ at = "judge"
  /\ \E spread \in {Pass, Warn, Refusal} :
       LET all == Evaluated \cup found \cup Dispersion(spread) \cup Forced IN
       /\ found' = all
       /\ outcome' = [verdict |-> Verdict(all), headline |-> Headline(Verdict(all), all),
                      exit |-> IF Verdict(all) = "refused" THEN 3 ELSE 0]
  /\ at' = "ended"
  /\ UNCHANGED <<ask, load1, shaped, rows, points, looks, pins, inc>>

BenchStep ==
  \/ TakeReading \/ Settle \/ Preflight \/ Shape \/ SkipTimed \/ ShortPrompt \/ BeginTimed
  \/ Wait \/ Worker \/ Incumbent \/ Judge
BenchNext == BenchStep \/ Bails

BenchFairness == WF_benchVars(BenchStep)

-----------------------------------------------------------------------------
(* Properties.                                                             *)
Citable == at = "ended" /\ outcome.verdict # "refused"
Full(p) == Len(p) = Repeats

\* What may be cited was earned: every timed row was begun on a box below the refusing
\* load and ran on the threads it was given, every depth is complete and repeated often
\* enough, the card, the build and every process of the incumbent are what was asked for;
\* and what was refused says nothing and fails.  --force gives that up and says so
\* (guard.rs, stats.rs; mod.rs:99-296, 542-745).
TrustIsEarned ==
  /\ at = "ended" =>
       /\ outcome.verdict = "refused" <=> outcome.exit = 3
       /\ outcome.verdict = "refused" => outcome.headline = {}
       /\ ask.force => outcome.verdict # "trusted"
  /\ Citable /\ (points # <<>> \/ inc.runs # 0) =>
       /\ Len(points) = Depths /\ Repeats >= MinInvocations
       /\ \A i \in DOMAIN points :
            /\ Full(points[i])
            /\ \A r \in Range(points[i]) :
                 /\ r.threads = IF ask.offload THEN Asked ELSE 0
                 /\ ~ask.force => ~r.over
       /\ \A p \in inc.seen : p.threads = p.asked
       /\ ask.machine.gpu /\ ask.machine.device = "expected" /\ ask.machine.free # "held"

\* However the load moves and whatever the children do, the command ends.
BenchEnds == (at = "start") ~> (at \in {"ended", "error"})

\* "The incumbent is swept over `--llama-bench-threads` and quoted at its best
\* configuration" (docs/bench.md:119): a sweep whose processes all ran on what they were
\* asked to run on is not refused for its threads.
SweepIsNotRefused ==
  at = "ended" /\ (\A p \in inc.seen : p.threads = p.asked)
    => Finding("threads-incumbent", Refusal) \notin found

BenchTypeOK ==
  /\ Len(rows) <= Repeats /\ Len(points) <= Depths /\ inc.runs <= InSweep
  /\ looks <= ask.settle
==============================================================================
