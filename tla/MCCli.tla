--------------------------------- MODULE MCCli ---------------------------------
(***************************************************************************)
(* Cli on small inputs: two versions of a file; a card of a few pages and  *)
(* a handful of profiles; one and two devices, listed in either order;     *)
(* all traces of a few steps and three long ones; every way a machine      *)
(* can fall short, one at a time; two devices, two models and two readings *)
(* of the machine on screen; machines of up to three cards; and models     *)
(* whose names differ in a tag, in case, or in nothing but that.           *)
(***************************************************************************)
EXTENDS Cli

MCSizes == <<2, 3>>

\* Models, profiles and orders of a plan.
Shape(expert) == [dense |-> 1, expert |-> expert, total |-> 4, active |-> 1, kv |-> 1]
Card(quant, expert, trained) ==
  [id |-> "m", quant |-> quant, m |-> Shape(expert), blocks |-> 2, perBlock |-> 2,
   trained |-> trained]
None == -1     \* VramPlan's None and Largest
Largest == -1
Scored(mean, sd, runs) == [of |-> 1, mean |-> mean, sd |-> sd, runs |-> runs]
Profile(ncmoe, ctx) ==
  [gpu |-> "g", vram |-> 12, cores |-> 4, id |-> "m", quant |-> "q4", blocks |-> 2,
   slots |-> 4, at |-> 2, ncmoe |-> ncmoe, threads |-> 3, ctx |-> ctx, batch |-> 1,
   score |-> Scored(20, 2, 2)]
Base == Profile(0, 8)
Others ==
  {[Base EXCEPT !.quant = "q3"], [Base EXCEPT !.gpu = "h"], [Base EXCEPT !.id = "o"],
   [Base EXCEPT !.slots = 5], [Profile(1, 4) EXCEPT !.cores = None, !.score = Scored(20, 4, 3)],
   [Base EXCEPT !.score = Scored(20, 0, 1)], [Base EXCEPT !.score = Scored(20, 0, 3)],
   [Profile(1, 4) EXCEPT !.cores = 8], [Profile(1, 4) EXCEPT !.quant = "mxfp4"]}
Alone == {Profile(n, x) : n \in {None, 0, 2}, x \in {None, 4, 8}} \cup Others
Old == [Profile(0, 4) EXCEPT !.at = 1]
Known(profiles) == [understood |-> TRUE, profiles |-> profiles]
ProfileFiles == {Known(<<>>), [understood |-> FALSE, profiles |-> <<Base>>]}
         \cup {Known(<<p>>) : p \in Alone}
         \cup {Known(<<Old, p>>) : p \in Others} \cup {Known(<<p, Old>>) : p \in Others}
Devices == {[gpu |-> "g", free |-> f] : f \in {2, 4, 6, 7, 9, 11, 16}}
Order(file, device, card, cores, ctx, slots) ==
  [file |-> file, device |-> device, card |-> card, cores |-> cores, ctx |-> ctx,
   slots |-> slots]
MCOrders ==
  {Order(f, d, Card("q4", e, t), 4, x, None) :
     f \in ProfileFiles, d \in Devices, e \in {1, 2}, t \in {3, 4, 20}, x \in {Largest, 3, 6}}
  \cup {Order(f, d, Card(q, 1, 20), n, x, s) :
     f \in ProfileFiles, d \in Devices, q \in {"q4", "mxfp4"}, n \in {None, 4},
     x \in {Largest, 1}, s \in {0, 3}}

\* What is typed after --candidate: the baselines' own scores, near ones and far ones with
\* and without an error bar, and what is no score.
Typing(mean, sd, runs) == [mean |-> mean, sd |-> sd, runs |-> runs]
Garbled == -2
MCTypedScores ==
  {Typing(20, 2, 2), Typing(22, 1, 50), Typing(23, 4, 2), Typing(26, 2, 4), Typing(26, None, 4),
   Typing(15, 1, 2), Typing(30, None, None), Typing(30, 2, 1), Typing(30, 6, 5), Typing(0, None, 3),
   Typing(Garbled, None, None), Typing(30, Garbled, 3)}

\* Devices of a supervisor.
Row(id, name, size) == [id |-> id, sycl |-> id # "V0", name |-> name, size |-> size]
MCWanted == [name |-> "arc", size |-> 12]
MCLists ==
  {<<Row("V0", "arc", 12)>>,
   <<Row("S0", "igpu", 76), Row("S1", "arc", 12)>>,
   <<Row("S0", "arc", 12), Row("S1", "igpu", 76)>>,
   <<Row("S0", "arc", 16), Row("S1", "arc", 12)>>}

\* Traces of a replay.
MCExperts == 0 .. 3
Steps == {<<0>>, <<0, 2>>, <<1, 2>>, <<1, 3>>}
Long(a, b, d) == [i \in 1 .. 14 |-> <<a, b, d>>[(i % 3) + 1]]
MCTraces ==
  [1 .. 3 -> Steps] \cup {t \o <<<<1, 2>>, <<1, 3>>>> : t \in [1 .. 2 -> Steps]}
  \cup {Long(<<0, 2>>, <<1, 3>>, <<1, 2>>),
        Long(<<0>>, <<0, 2>>, <<1, 3>>), Long(<<0>>, <<1>>, <<2, 3>>)}
OnlinePolicies == {"lru", "lfu", "lru-k", "phase-lru", "pinned-hot", "slru", "2q", "w-tinylfu"}

\* Captures and orders of the shape section.
LineOf(s) == [kind |-> "step", experts |-> s]
NoStep(k) == [kind |-> k, experts |-> <<>>]
CaptureOf(n, k, m, ls) == [name |-> n, kind |-> k, opens |-> TRUE, model |-> m, lines |-> ls]
Good(t) == <<NoStep("header")>> \o [i \in DOMAIN t |-> LineOf(t[i])]
Few == <<<<0, 2>>, <<1, 3>>, <<1, 2>>, <<1, 3>>>>
Quiet == <<<<0>>, <<0>>>>
BareOrder == [captures |-> <<>>, given |-> TRUE, policy |-> "lru", slots |-> <<>>,
              model |-> <<>>, all |-> FALSE, optimal |-> FALSE]
OneTrace(t, p) ==
  [BareOrder EXCEPT !.captures = <<CaptureOf(1, "decode", "a", Good(t))>>, !.policy = p,
                    !.optimal = p \in {"lru", "2q"}]
Assorted ==
  <<CaptureOf(5, "decode", "a", Good(Few)), CaptureOf(3, "prefill", "a", Good(Few)),
    CaptureOf(4, "not ndjson", "a", Good(Few)), CaptureOf(2, "decode", "xa", Good(Quiet)),
    [CaptureOf(6, "decode", "a", <<>>) EXCEPT !.opens = FALSE],
    CaptureOf(1, "decode", "b", <<NoStep("blank")>> \o Good(Few) \o <<NoStep("blank")>>)>>
BadLines ==
  {<<>>, <<NoStep("blank")>>, <<NoStep("header")>>, <<NoStep("header"), LineOf(<<0>>), NoStep("bad")>>,
   <<LineOf(<<0>>)>>}
MCModelAsked == {<<>>, <<[file |-> "a", card |-> <<3>>]>>, <<[file |-> "", card |-> <<>>]>>}
MCShapeOrders ==
  {OneTrace(t, p) : t \in MCTraces, p \in OnlinePolicies \cup {"optimal"}}
  \cup {[BareOrder EXCEPT !.captures = Assorted, !.given = g, !.model = m, !.all = a] :
         g, a \in BOOLEAN, m \in MCModelAsked}
  \cup {[BareOrder EXCEPT !.captures = <<CaptureOf(1, "decode", "a", b)>>] : b \in BadLines}
  \cup {[BareOrder EXCEPT !.given = FALSE],
        [OneTrace(Few, "lru") EXCEPT !.slots = <<5, 1, 3, 3>>],
        [OneTrace(Few, "lru") EXCEPT !.slots = <<1>>]}
MCWithin == {<<"a", "xa">>}

\* Machines and orders of a benchmark.
Sound == [commit |-> "clean", gpu |-> TRUE, device |-> "expected", runtime |-> "new",
          free |-> "idle", cache |-> "fits", backend |-> "same"]
BenchMachines ==
  {Sound, [Sound EXCEPT !.commit = "dirty"], [Sound EXCEPT !.gpu = FALSE],
   [Sound EXCEPT !.device = "none"], [Sound EXCEPT !.device = "other"],
   [Sound EXCEPT !.runtime = "old"], [Sound EXCEPT !.free = "unmeasured"],
   [Sound EXCEPT !.free = "held"], [Sound EXCEPT !.cache = "exceeds"]}
Plain == [shape |-> FALSE, absolutes |-> TRUE, check |-> FALSE, force |-> FALSE,
          settle |-> 1, offload |-> TRUE, incumbent |-> <<>>, prompt |-> TRUE,
          machine |-> Sound]
Versus == [Plain EXCEPT !.incumbent = <<4>>, !.offload = FALSE]
MCBenchOrders ==
  {[Plain EXCEPT !.machine = m] : m \in BenchMachines}
  \cup {[Plain EXCEPT !.absolutes = FALSE, !.shape = TRUE], [Plain EXCEPT !.check = TRUE],
        [Plain EXCEPT !.prompt = FALSE], [Plain EXCEPT !.settle = 0],
        [Plain EXCEPT !.force = TRUE, !.machine = [Sound EXCEPT !.gpu = FALSE]]}
  \cup {[Versus EXCEPT !.machine.backend = b] : b \in {"same", "unmapped", "other"}}
SweepOrders == {[Versus EXCEPT !.incumbent = <<4, 8>>]}

\* Jobs of bench's children: a plain one, those that are refused or fail, an empty machine's
\* counters, every policy for the host, and a pool that holds every expert of a sequence.
PlainJob ==
  [readable |-> TRUE, ids |-> <<1, 0, 2, 2>>, depth |-> 3, tokens |-> 3, ctx |-> 9,
   parses |-> TRUE, slots |-> 2, host |-> <<"off">>, threads |-> {2}, device |-> TRUE,
   zfs |-> TRUE, profile |-> TRUE]
MCJobs ==
  {PlainJob} \cup {[PlainJob EXCEPT !.depth = d] : d \in {0, 5}}
  \cup {[PlainJob EXCEPT !.tokens = n] : n \in {0, 1}}
  \cup {[PlainJob EXCEPT !.ctx = n] : n \in {2, 4}}
  \cup {[PlainJob EXCEPT !.readable = FALSE], [PlainJob EXCEPT !.parses = FALSE],
        [PlainJob EXCEPT !.profile = FALSE], [PlainJob EXCEPT !.slots = 3],
        [PlainJob EXCEPT !.device = FALSE], [PlainJob EXCEPT !.zfs = FALSE]}
  \cup {[PlainJob EXCEPT !.host = h, !.threads = {2, 3}] :
          h \in {<<"frac", 1, 1>>, <<"frac", 1, 2>>, <<"frac", 0, 2>>, <<"over", 1>>}}
MCRoutes == <<<<0, 1>>, <<1, 2>>, <<2, 3>>>>

\* Openings of the interface: on every command's screen, with the keys of the budget, of
\* the context dial, and of everything else.
Big == [id |-> "a", bytes |-> 6, local |-> TRUE]
Small == [id |-> "b", bytes |-> 3, local |-> FALSE]
Opened(what, dial, bytes, keys) ==
  [what |-> what, card |-> Big, ctx |-> dial, bytes |-> bytes, keys |-> keys]
BudgetKeys == {"r", "-", "+", "0", "m", "esc", "tab"}
ContextKeys == {"r", "[", "]", "enter", "s", "tab"}
OtherKeys ==
  {"tab", "back-tab", "1", "4", "/", "enter", "esc", "d", "s", "x", "q", "ctrl-c", "up",
   "down"}
MCOpenings ==
  {Opened("none", Absent, Absent, BudgetKeys), Opened("ls", 3, 9, BudgetKeys),
   Opened("none", 9, 3, ContextKeys), Opened("serve", Absent, Absent, ContextKeys),
   Opened("info", 3, 3, OtherKeys), Opened("pull", Absent, Absent, OtherKeys)}
Igpu == [name |-> "igpu", target |-> FALSE]
Arc == [name |-> "arc", target |-> TRUE]
MCReports == {<<Igpu>>, <<Arc, Igpu>>}
MCCatalogs == {<<>>, <<Big, Small>>}
MCHosts == {[available |-> 10, free |-> 4], [available |-> 5, free |-> 2]}
MCTransfers == {[resume |-> 1, total |-> 4, perTick |-> 2]}
MCRungs == <<Absent, 2, 4>>

\* Machines to detect on: the reference one and what can be wrong with it, two of one card,
\* an NPU, an integrated device with memory of its own, one under a discrete card's name,
\* and nothing.
CardOf(name, model, igpu, total, pool, left) ==
  [name |-> name, model |-> model, display |-> TRUE, gpu |-> TRUE, igpu |-> igpu,
   total |-> total, pool |-> pool, free |-> left]
ArcCard == CardOf(2, "b580", FALSE, 12, TRUE, 13)
IgpuCard == CardOf(1, "arl", TRUE, 85, FALSE, 91)
NpuCard == [IgpuCard EXCEPT !.display = FALSE, !.gpu = FALSE, !.model = "npu"]
MachineOf(of, core, sysman) ==
  [cards |-> of, core |-> core, sysman |-> sysman, loader |-> "ok", init |-> "ok",
   telemetry |-> TRUE]
Reference == MachineOf(<<IgpuCard, ArcCard>>, <<<<2, 1>>>>, <<1, 2>>)
Twins == MachineOf(<<ArcCard, [ArcCard EXCEPT !.free = 6]>>, <<<<2>>, <<1>>>>, <<1, 2>>)
Broken ==
  {[Reference EXCEPT !.loader = l] : l \in {"no loader", "not a loader"}}
  \cup {[Reference EXCEPT !.init = i] : i \in {"uninitialized", "ze"}}
  \cup {[Reference EXCEPT !.telemetry = FALSE], [Reference EXCEPT !.core = <<>>]}
Stale == [Reference EXCEPT !.core = <<<<1>>>>, !.sysman = <<1>>]
MCMachines ==
  {Reference, Twins, Stale, [Stale EXCEPT !.telemetry = FALSE],
   MachineOf(<<IgpuCard, ArcCard, NpuCard>>, <<<<3>>, <<2, 1>>>>, <<3, 1, 2>>),
   MachineOf(<<[IgpuCard EXCEPT !.pool = TRUE, !.free = 5], ArcCard>>, <<<<1, 2>>>>, <<2, 1>>),
   MachineOf(<<[IgpuCard EXCEPT !.name = 2, !.pool = TRUE], ArcCard>>, <<<<1, 2>>>>, <<1, 2>>),
   MachineOf(<<NpuCard>>, <<<<1>>>>, <<1>>), MachineOf(<<ArcCard, NpuCard>>, <<<<2>>>>, <<>>),
   MachineOf(<<ArcCard>>, <<<<>>>>, <<>>)}
  \cup Broken

\* Directories of models, by their places in the order of the paths, and repositories.
FileOf(stem, upper, place) == [stem |-> stem, upper |-> upper, place |-> place]
MCFiles ==
  {FileOf(<<"x", "q4">>, TRUE, 1), FileOf(<<"x">>, FALSE, 2), FileOf(<<"x", "q4">>, FALSE, 3),
   FileOf(<<"x", "q4", "q4">>, FALSE, 4), FileOf(<<"x", "q8">>, FALSE, 5),
   FileOf(<<"y", "x", "q4">>, FALSE, 6)}
Holds(kind, quant, bytes) == [kind |-> kind, quant |-> quant, bytes |-> bytes]
MCContents == {Holds("moe", "q4", 2), Holds("moe", "q8", 3), Holds("dense", "q4", 2)}
Kept(names, quants) ==
  [f \in {g \in MCFiles : \E i \in DOMAIN names : g.place = names[i]} |->
     Holds("moe", quants[CHOOSE i \in DOMAIN names : names[i] = f.place], f.place)]
MCDirectories ==
  {<<>>, Kept(<<3>>, <<"q4">>), Kept(<<2, 3>>, <<"q8", "q4">>),
   Kept(<<3, 5>>, <<"q4", "q8">>), Kept(<<2, 3, 6>>, <<"q8", "q4", "q8">>),
   Kept(<<3, 4>>, <<"q8", "q4">>), Kept(<<1, 3>>, <<"q4", "q4">>)}
MCWants ==
  {[text |-> <<"x">>, ext |-> FALSE], [text |-> <<"x", "q4">>, ext |-> TRUE]}
MCRepositories == SUBSET {<<"m", "q4">>, <<"m", "q4", "s">>, <<"m","q8">>}
Selector(exact, text) == [exact |-> exact, text |-> text]
MCSelectors ==
  {Selector(TRUE, <<"m", "q4">>), Selector(FALSE, <<"q4">>), Selector(FALSE, <<"q8">>)}
==============================================================================
