---------------------------------- MODULE Cli ----------------------------------
(***************************************************************************)
(* The program a user runs, crates/moearc-cli: one process, one command.   *)
(*   "pull"    downloads a model (Pull);                                   *)
(*   "plan"    is the first half of serve, from the profiles and the       *)
(*             planner to llama-server's flags, or info (ServePlan);       *)
(*   "serve"   is its second half, the child and its log (Supervisor): of  *)
(*             the plan it reads the flags it passes on and the device;    *)
(*   "replay"  is the first half of bench, captures replayed at a ladder of *)
(*             capacities (Shape, over Residency);                         *)
(*   "bench"   is the rest of it (Bench): of the replay it reads whether   *)
(*             there was anything to replay;                               *)
(*   "bench-run" is the children bench spawns, one after the other, and    *)
(*             what it makes of their lines (Timed); of them Bench reads   *)
(*             the threads and that a child may fail;                      *)
(*   "tui"     is the interface, which every other command without a       *)
(*             terminal option opens on a screen of its own (Tui).         *)
(*   "devices" is `moearc` itself and moearc-device-report, what is in the *)
(*             machine (Devices);                                            *)
(*   "models"  is `moearc ls` and the command after it, and the file a pull *)
(*             picks (Catalog).                                              *)
(* What a process does not run stays as it would begin.                    *)
(***************************************************************************)
EXTENDS Integers, Sequences

CONSTANTS
  Commands,
  NoFile, Torn, Zero, Sizes, MidCall, MaxPublished, MaxForced, MaxFailures, MaxPowerLosses,
  PageTokens, MinContext, HeadroomPercent, Orders, TypedScores,
  Lists, Wanted, MaxNoise,
  Experts, PerLayer, Share, GhostShare, Warmup,
  ShapeOrders, LadderPoints, Prominence, Within,
  BenchOrders, Depths, Repeats, MinInvocations, Asked, Other,
  Jobs, Routes, Invocations, MaxTenants,
  Absent, Openings, Reports, Catalogs, Hosts, Transfers, Rungs, ReservePercent, GiB,
  Machines, FreeSizes, MaxUpsets,
  Files, Contents, Directories, MaxEdits, Wants, Repositories, Selectors

VARIABLES
  command,
  remote, dest, part, stamp, synced, pc, force, ident, resumed, served, buffer, counts,
  disturbed,
  stage, order, fit, resolved, launch, judged,
  sup, ending, child, doomed, listed, table, stranger, rows, noise, pipe, chan, reader,
  seen, confirmed, late,
  trace, policy, capacity, step, ref, c, split, stats,
  shapeOrder, captures, leg, ladder, row, curve, replayed, passed,
  at, ask, load1, found, shaped, timed, points, looks, pins, inc, outcome,
  worker, job, box, bracket, prompt, engine, clock, profiled, pass, passes, reports,
  keyboard, turn, pending, inbox, screen, report, device_row, models, fits, tunings,
  model_row, editing, typed, download, serving, ctx_request, host, budget, budget_request,
  placements, status, quit,
  machine, present, free, upsets, dpc, hardware, driver, count, handles, gpus, others,
  failure, readings, answer,
  dir, edits, cpc, paths, cards, skipped, listing, want, got, repo, chosen

pull == <<remote, dest, part, stamp, synced, pc, force, ident, resumed, served, buffer,
          counts, disturbed>>
plan == <<stage, order, fit, resolved, launch, judged>>
supervisor == <<sup, ending, child, doomed, listed, table, stranger, rows, noise, pipe,
                chan, reader, seen, confirmed, late>>
replay == <<trace, policy, capacity, step, ref, c, split, stats,
            shapeOrder, captures, leg, ladder, row, curve, replayed, passed>>
bench == <<at, ask, load1, found, shaped, timed, points, looks, pins, inc, outcome>>
timing == <<worker, job, box, bracket, prompt, engine, clock, profiled, pass, passes, reports>>
tui == <<keyboard, turn, pending, inbox, screen, report, device_row, models, fits, tunings,
         model_row, editing, typed, download, serving, ctx_request, host, budget,
         budget_request, placements, status, quit>>
devices == <<machine, present, free, upsets, dpc, hardware, driver, count, handles, gpus,
             others, failure, readings, answer>>
models_dir == <<dir, edits, cpc, paths, cards, skipped, listing, want, got, repo, chosen>>
cliVars == <<command, pull, plan, supervisor, replay, bench, timing, tui, devices,
             models_dir>>

P == INSTANCE Pull
L == INSTANCE ServePlan
S == INSTANCE Supervisor
R == INSTANCE Shape
B == INSTANCE Bench WITH rows <- timed
M == INSTANCE Timed
T == INSTANCE Tui
D == INSTANCE Devices
C == INSTANCE Catalog WITH listed <- listing

ASSUME CliAssumption ==
  /\ P!PullAssumption /\ L!PlanAssumption /\ S!SupAssumption /\ T!TuiAssumption
  /\ C!CatalogAssumption /\ D!DevicesAssumption

-----------------------------------------------------------------------------
\* One of the inputs, for a part that is not run.
Some(inputs) == CHOOSE i \in inputs : TRUE
NoPull == remote = 1 /\ P!Init
NoPlan == order = Some(Orders) /\ L!PlanInit
NoSupervisor ==
  listed = Some(Lists) /\ table = Some(Lists) /\ stranger = FALSE /\ S!SupInit
NoReplay == shapeOrder = Some(ShapeOrders) /\ R!ShapeInit
NoBench == ask = Some(BenchOrders) /\ B!BenchInit
NoTimed == job = Some(Jobs) /\ M!TimedInit
NoTui == T!TuiOpens(Some(Openings))
NoDevices == machine = Some(Machines) /\ D!DevicesInit
NoCatalog == dir = Some(Directories) /\ repo = Some(Repositories) /\ cpc = "list" /\ C!CatalogInit

CliInit ==
  /\ command \in Commands
  /\ IF command = "pull" THEN TRUE ELSE NoPull
  /\ IF command = "plan" THEN TRUE ELSE NoPlan
  /\ IF command = "serve" THEN TRUE ELSE NoSupervisor
  /\ IF command = "replay" THEN TRUE ELSE NoReplay
  /\ IF command = "bench" THEN TRUE ELSE NoBench
  /\ IF command = "bench-run" THEN TRUE ELSE NoTimed
  /\ IF command = "tui" THEN TRUE ELSE NoTui
  /\ IF command = "devices" THEN TRUE ELSE NoDevices
  /\ IF command = "models" THEN TRUE ELSE NoCatalog
  /\ IF command = "pull" THEN P!Init ELSE TRUE
  /\ IF command = "plan" THEN L!PlanInit ELSE TRUE
  /\ IF command = "serve" THEN S!SupInit ELSE TRUE
  /\ IF command = "replay" THEN R!ShapeInit ELSE TRUE
  /\ IF command = "bench" THEN B!BenchInit ELSE TRUE
  /\ IF command = "bench-run" THEN M!TimedInit ELSE TRUE
  /\ IF command = "tui" THEN T!TuiInit ELSE TRUE
  /\ IF command = "devices" THEN D!DevicesInit ELSE TRUE
  /\ IF command = "models" THEN C!CatalogInit ELSE TRUE

CliNext ==
  /\ UNCHANGED command
  /\ IF command = "pull" THEN P!Next ELSE UNCHANGED pull
  /\ IF command = "plan" THEN L!PlanNext ELSE UNCHANGED plan
  /\ IF command = "serve" THEN S!SupNext ELSE UNCHANGED supervisor
  /\ IF command = "replay" THEN R!ShapeNext ELSE UNCHANGED replay
  /\ IF command = "bench" THEN B!BenchNext ELSE UNCHANGED bench
  /\ IF command = "bench-run" THEN M!TimedNext ELSE UNCHANGED timing
  /\ IF command = "tui" THEN T!TuiNext ELSE UNCHANGED tui
  /\ IF command = "devices" THEN D!DevicesNext ELSE UNCHANGED devices
  /\ IF command = "models" THEN C!CatalogNext ELSE UNCHANGED models_dir

\* Each command under the fairness of its own part.
CliFairness ==
  /\ WF_pull(command = "pull" /\ P!PullStep)
  /\ WF_supervisor(command = "serve" /\ S!SupStep)
  /\ WF_supervisor(command = "serve" /\ S!KernelStep)
  /\ WF_supervisor(command = "serve" /\ S!TimePasses)
  /\ WF_bench(command = "bench" /\ B!BenchStep)

CliSpec == CliInit /\ [][CliNext]_cliVars /\ CliFairness

-----------------------------------------------------------------------------
(* The properties of the commands; their modules say what each is about.   *)
\* pull: undisturbed, only a whole version is ever under the final name, and what a call
\* resumes is a prefix of the version its stamp names.
DownloadIsWhole ==
  command = "pull" => P!TypeOK /\ P!DestIsWholeUndisturbed /\ P!PartIsPrefix
\* pull: the same after a power loss, as the comment at pull.rs:744-746 has it.
DestIsWhole == command = "pull" => P!DestIsWhole
\* pull: run again, it ends with the whole file.
Converges == command = "pull" => P!Converges

\* plan: the flags that are launched fit the card, at the context asked for, and the
\* planner's answer is the best there is.
CommandFits == command = "plan" => L!PlanTypeOK /\ L!CommandFits /\ L!PlanIsBest
\* plan: what is called measured was measured here.
MeasuredIsMeasured == command = "plan" => L!MeasuredIsMeasured

\* serve: a confirmed device is the one the plan was made for, or a namesake beside it.
ConfirmedIsTrue == command = "serve" => S!SupTypeOK /\ S!ConfirmedIsTrue
\* serve: no child outlives its supervisor.
NothingLeftBehind == command = "serve" => S!NothingLeftBehind
\* replay: nobody beats the bound, and everybody keeps to the same budget.
ComparedFairly == command = "replay" => R!SimTypeOK /\ R!ComparedFairly

\* bench: a number that may be cited was earned; bench-run: and is of what it says it is of.
TrustIsEarned ==
  /\ command = "bench" => B!BenchTypeOK /\ B!TrustIsEarned
  /\ command = "bench-run" => M!TimedIsTrue
\* serve and bench: the wait for a child ends, and the measurement does.
CommandEnds == (command = "serve" => S!WaitEnds) /\ (command = "bench" => B!BenchEnds)
\* bench: a sweep of the incumbent is not refused for its threads (docs/bench.md:119).
SweepIsNotRefused == command = "bench" => B!SweepIsNotRefused

\* tui: what is on screen is of what is on screen beside it, and no cursor, tab, field or
\* budget points at what is not there.
ScreenIsTrue == command = "tui" => T!PlansAreCurrent /\ T!NothingDangles
\* tui: no device is missed that the interface knows of (cli.rs:15).
NoDeviceIsTrue == command = "tui" => T!NoDeviceIsTrue

\* devices: a budget is video memory of its own device, and every card is told of.
DevicesAreTrue == command = "devices" => D!DevicesAreTrue
\* models: a handle means one file, the same to the next command, and nothing is guessed.
NamesAreKept == command = "models" => C!NamesAreKept
==============================================================================
