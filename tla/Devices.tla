-------------------------------- MODULE Devices --------------------------------
(***************************************************************************)
(* What is in this machine and how much of it a plan may use:              *)
(* crates/moearc-device and the command `moearc devices`                   *)
(* (crates/moearc-cli/src/detect.rs, source.rs).  Three views of one       *)
(* machine are taken one after the other, the kernel's (pci.rs), core      *)
(* Level Zero's (lib.rs) and Sysman's (sysman.rs), each in an order of its *)
(* own, and joined: the first two on vendor and device, the last two on    *)
(* the uuid.  In between a card may be lost, its free memory change, or a  *)
(* call fail.                                                              *)
(*                                                                         *)
(* A machine is                                                            *)
(*   [cards, core, sysman, loader, init, telemetry]                        *)
(* cards maps a card's PCI address, which stands for its uuid too, to      *)
(*   [name, model, display, gpu, igpu, total, pool, free]                  *)
(* core is the drivers' lists of devices, sysman the telemetry's list.     *)
(***************************************************************************)
EXTENDS Integers, Sequences, FiniteSetsExt, Functions

CONSTANTS
  Machines,   \* the machines detected on
  FreeSizes,  \* what a card's free memory may become
  MaxUpsets   \* bound on lost cards, changes of free memory and failing calls

VARIABLES
  machine, present, free, upsets,         \* the world
  dpc,                                    \* where the detection is
  hardware,                               \* pci::scan
  driver, count, handles, gpus, others,  \* enumerate: GPUs, and how many are not
  failure,                                \* DetectError, root cause and evidence
  readings,                               \* sysman::telemetry
  answer                                  \* the rows and the verdict

world == <<machine, present, free>>
probe == <<driver, count, handles, gpus, others>>
devicesVars == <<world, upsets, dpc, hardware, probe, failure, readings, answer>>

Least(a, b) == IF a < b THEN a ELSE b
\* The elements of a finite set, each after those that come before it.
InOrder(set, before) ==
  [i \in 1 .. Cardinality(set) |->
     CHOOSE e \in set : Cardinality({f \in set : <<f, e>> \in before}) = i - 1]
Below(set) == {p \in set \X set : p[1] < p[2]}

Of(c) == machine.cards[c]
\* The cards of a list that are there, in its order.
Here(cards) ==
  LET kept == {i \in DOMAIN cards : cards[i] \in present} IN
  [k \in 1 .. Cardinality(kept) |-> cards[InOrder(kept, Below(kept))[k]]]
Current(c) == free[c][Len(free[c])]
Sound == [cause |-> "none", evidence |-> FALSE]
Unanswered == [rows |-> <<>>, verdict |-> [is |-> "none", row |-> 0]]

DevicesInit ==
  /\ machine \in Machines /\ present = DOMAIN machine.cards /\ upsets = 0
  /\ free = [c \in present |-> <<machine.cards[c].free>>]
  /\ dpc = "scan" /\ hardware = <<>> /\ driver = 1 /\ count = 0 /\ handles = <<>>
  /\ gpus = <<>> /\ others = 0 /\ failure = Sound /\ readings = <<>>
  /\ answer = Unanswered

\* What a machine is; a card's address is never 0, which stands for none.
DevicesAssumption ==
  /\ FreeSizes \subseteq Nat
  /\ \A m \in Machines :
       /\ IsFiniteSet(DOMAIN m.cards) /\ DOMAIN m.cards \subseteq Nat \ {0}
       /\ \A c \in DOMAIN m.cards :
            /\ m.cards[c].igpu \in BOOLEAN /\ m.cards[c].name \in Nat
            /\ m.cards[c].total \in Nat /\ m.cards[c].free \in Nat
       /\ m.core \in Seq(Seq(DOMAIN m.cards)) /\ m.sysman \in Seq(DOMAIN m.cards)
       /\ m.loader \in {"ok", "no loader", "not a loader"}
       /\ m.init \in {"ok", "uninitialized", "ze"}

-----------------------------------------------------------------------------
(* The world.  free[c] keeps every value c's free memory has had, the last *)
(* of them being the present one.                                          *)
Upset == upsets < MaxUpsets /\ upsets' = upsets + 1 /\ dpc # "done"

CardLost(c) ==
  /\ Upset /\ present' = present \ {c}
  /\ UNCHANGED <<machine, free, dpc, hardware, probe, failure, readings, answer>>

MemoryTaken(c, left) ==
  /\ Upset /\ left # Current(c) /\ free' = [free EXCEPT ![c] = Append(@, left)]
  /\ UNCHANGED <<machine, present, dpc, hardware, probe, failure, readings, answer>>

-----------------------------------------------------------------------------
(* The kernel's view, in the order of the addresses.                       *)
Scan ==
  /\ dpc = "scan"
  /\ LET shown == {c \in present : Of(c).display} IN
     hardware' = InOrder(shown, Below(shown))
  /\ dpc' = "open"
  /\ UNCHANGED <<world, upsets, probe, failure, readings, answer>>

-----------------------------------------------------------------------------
(* Core Level Zero's view.                                                 *)
WantsHardwareEvidence(cause) ==
  cause \in {"no loader", "not a loader", "uninitialized", "no drivers", "no devices",
             "no gpu"}

\* finish, on an error.
Fails(cause) ==
  /\ failure' = [cause |-> cause,
                 evidence |-> hardware # <<>> /\ WantsHardwareEvidence(cause)]
  /\ dpc' = "done"
  /\ UNCHANGED <<world, hardware, readings, answer>>

Open ==
  /\ dpc = "open" /\ UNCHANGED <<upsets, probe>>
  /\ IF machine.loader # "ok" THEN Fails(machine.loader)
     ELSE IF machine.init # "ok" THEN Fails(machine.init)
     ELSE IF machine.core = <<>> THEN Fails("no drivers")
     ELSE /\ dpc' = "count"
          /\ UNCHANGED <<world, hardware, failure, readings, answer>>

\* A driver's devices are counted, and then there is room for that many.
Count ==
  /\ dpc = "count" /\ driver <= Len(machine.core)
  /\ count' = Len(Here(machine.core[driver]))
  /\ IF count' = 0 THEN driver' = driver + 1 /\ UNCHANGED dpc
     ELSE dpc' = "fill" /\ UNCHANGED driver
  /\ UNCHANGED <<world, upsets, hardware, handles, gpus, others, failure, readings, answer>>

Fill ==
  /\ dpc = "fill"
  /\ LET now == Here(machine.core[driver]) IN
     handles' = SubSeq(now, 1, Least(count, Len(now)))
  /\ dpc' = "describe"
  /\ UNCHANGED <<world, upsets, hardware, driver, count, gpus, others, failure, readings,
                 answer>>

Describe ==
  /\ dpc = "describe" /\ handles # <<>> /\ Head(handles) \in present
  /\ IF Of(Head(handles)).gpu
     THEN gpus' = Append(gpus, [card |-> Head(handles), at |-> 0]) /\ UNCHANGED others
     ELSE others' = others + 1 /\ UNCHANGED gpus
  /\ handles' = Tail(handles)
  /\ UNCHANGED <<world, upsets, dpc, hardware, driver, count, failure, readings, answer>>

NextDriver ==
  /\ dpc = "describe" /\ handles = <<>>
  /\ driver' = driver + 1 /\ dpc' = "count"
  /\ UNCHANGED <<world, upsets, hardware, count, handles, gpus, others, failure, readings,
                 answer>>

\* A handle whose card is lost answers with an error; any call may.
CallFails ==
  /\ dpc \in {"count", "fill", "describe"} /\ driver <= Len(machine.core)
  /\ IF dpc = "describe" /\ handles # <<>> /\ Head(handles) \notin present
     THEN UNCHANGED upsets ELSE Upset
  /\ UNCHANGED probe /\ Fails("ze")

\* The first of those left that is a device's model; 0 when none is.
FirstOf(model, left, of) ==
  LET found == {i \in DOMAIN left : of[left[i]].model = model} IN
  IF found = {} THEN 0 ELSE Min(found)
Without(left, i) ==
  IF i = 0 THEN left ELSE [k \in 1 .. (Len(left) - 1) |-> left[IF k < i THEN k ELSE k + 1]]

\* What is left of the scanned cards, once the first n devices have taken theirs.
Unmatched(devices, scanned, of) ==
  LET left[n \in 0 .. Len(devices)] ==
        IF n = 0 THEN scanned
        ELSE Without(left[n - 1], FirstOf(of[devices[n]].model, left[n - 1], of))
  IN left
\* A device is paired with the first of its own model that is not taken.
Paired(devices, scanned, of) ==
  [n \in DOMAIN devices |->
     LET left == Unmatched(devices, scanned, of)[n - 1]
         first == FirstOf(of[devices[n]].model, left, of)
     IN IF first = 0 THEN 0 ELSE left[first]]
OnDevices == [i \in DOMAIN gpus |-> gpus[i].card]
UnusableHardware == Unmatched(OnDevices, hardware, machine.cards)[Len(gpus)]

Finish ==
  /\ dpc = "count" /\ driver > Len(machine.core) /\ UNCHANGED upsets
  /\ IF gpus = <<>>
     THEN UNCHANGED probe /\ Fails(IF others = 0 THEN "no devices" ELSE "no gpu")
     ELSE /\ gpus' = [i \in DOMAIN gpus |->
                      [card |-> gpus[i].card, at |-> Paired(OnDevices, hardware, machine.cards)[i]]]
          /\ handles' = Here(machine.sysman) /\ dpc' = "telemetry"
          /\ UNCHANGED <<world, hardware, driver, count, others, failure, readings, answer>>

-----------------------------------------------------------------------------
(* Sysman's view: all of it, or none.                                      *)
Read ==
  /\ dpc = "telemetry" /\ machine.telemetry /\ handles # <<>> /\ Head(handles) \in present
  /\ readings' = Append(readings, [uuid |-> Head(handles), pool |-> Of(Head(handles)).pool,
                                   free |-> Current(Head(handles))])
  /\ handles' = Tail(handles)
  /\ UNCHANGED <<world, upsets, dpc, hardware, driver, count, gpus, others, failure, answer>>

ReadFails ==
  /\ dpc = "telemetry" /\ machine.telemetry /\ handles # <<>>
  /\ IF Head(handles) \in present THEN Upset ELSE UNCHANGED upsets
  /\ readings' = <<>> /\ dpc' = "judge"
  /\ UNCHANGED <<world, hardware, probe, failure, answer>>

ReadAll ==
  /\ dpc = "telemetry" /\ (handles = <<>> \/ ~machine.telemetry)
  /\ dpc' = "judge"
  /\ UNCHANGED <<world, upsets, hardware, probe, failure, readings, answer>>

-----------------------------------------------------------------------------
(* The budget of a device, the rows, and what is said of them.             *)
ReadingAtPlace(c) == {i \in DOMAIN readings \cap DOMAIN gpus : gpus[i].card = c}
ReadingFor(c) == {i \in DOMAIN readings : readings[i].uuid = c}
\* The first reading of a card, if it is one of a pool on the card.
FreeDeviceMemory(c) == {i \in ReadingFor(c) : i = Min(ReadingFor(c)) /\ readings[i].pool}

VramBudget(c) ==
  IF FreeDeviceMemory(c) # {}
  THEN [source |-> "measured",
        bytes |-> Least(readings[Min(FreeDeviceMemory(c))].free, Of(c).total)]
  ELSE IF ~Of(c).igpu THEN [source |-> "installed", bytes |-> Of(c).total]
  ELSE [source |-> "refused", bytes |-> 0]

\* detect.rs looks for the class of a row under its name.
NamedIgpu(c) ==
  Of(gpus[Min({i \in DOMAIN gpus : Of(gpus[i].card).name = Of(c).name})].card).igpu
Before(i, j) ==
  LET a == gpus[i].card  b == gpus[j].card IN
  IF NamedIgpu(a) # NamedIgpu(b) THEN NamedIgpu(b)
  ELSE IF Of(a).name # Of(b).name THEN Of(a).name < Of(b).name ELSE i < j
Ahead == {p \in (DOMAIN gpus) \X (DOMAIN gpus) : Before(p[1], p[2])}
Rows ==
  [i \in DOMAIN gpus |->
     LET c == gpus[InOrder(DOMAIN gpus, Ahead)[i]].card IN
     [card |-> c, budget |-> VramBudget(c)]]

\* Ready, refused with the device's own reason, or nothing at all.
VerdictFor(all) ==
  LET ready == {i \in DOMAIN all : all[i].budget.source # "refused"} IN
  IF ready # {} THEN [is |-> "ready", row |-> Min(ready)]
  ELSE IF all # <<>> THEN [is |-> "refused", row |-> 1] ELSE [is |-> "no device", row |-> 0]

Judge ==
  /\ dpc = "judge"
  /\ answer' = [rows |-> Rows, verdict |-> VerdictFor(Rows)]
  /\ dpc' = "done"
  /\ UNCHANGED <<world, upsets, hardware, probe, failure, readings>>

\* moearc-device-report asks for itself: the first discrete device with a budget, or the
\* first of any kind.
Usable(igpu) ==
  {i \in DOMAIN gpus : /\ Of(gpus[i].card).igpu = igpu
                       /\ VramBudget(gpus[i].card).source # "refused"}
InferenceTarget ==
  CASE Usable(FALSE) # {} -> Min(Usable(FALSE))
    [] Usable(FALSE) = {} /\ Usable(TRUE) # {} -> Min(Usable(TRUE))
    [] OTHER -> 0

DevicesNext ==
  \/ Scan \/ Open \/ Count \/ Fill \/ Describe \/ NextDriver \/ CallFails \/ Finish
  \/ Read \/ ReadFails \/ ReadAll \/ Judge
  \/ \E c \in present : CardLost(c) \/ \E left \in FreeSizes : MemoryTaken(c, left)

-----------------------------------------------------------------------------
(* Properties.                                                             *)
Answered == dpc = "done" /\ failure.cause = "none"

\* Devices of one name are of one class.
NamesTellClass ==
  \A d, e \in Range(gpus) : Of(d.card).name = Of(e.card).name => Of(d.card).igpu = Of(e.card).igpu

\* A budget is video memory of that very device: no more than it has, a figure of its own
\* that was true while the command ran, and never host memory, in whatever orders the three
\* views list the cards (fitness.rs:210-258).  What is ready is ready for both programs, and
\* an integrated device only where there is no other, unless one of the others has its name.
BudgetIsItsOwn ==
  Answered =>
    /\ \A i \in DOMAIN answer.rows :
         LET r == answer.rows[i] IN
         /\ r.budget.bytes <= Of(r.card).total
         /\ Of(r.card).igpu /\ ~Of(r.card).pool => r.budget.source = "refused"
         /\ r.budget.source = "measured" =>
              r.budget.bytes \in {Least(f, Of(r.card).total) : f \in Range(free[r.card])}
    /\ (answer.verdict.is = "ready") <=> (InferenceTarget # 0)
    /\ answer.verdict.is = "ready" /\ NamesTellClass =>
         LET first == answer.rows[answer.verdict.row].card IN
         /\ Of(first).igpu = Of(gpus[InferenceTarget].card).igpu
         /\ Of(first).igpu => \A d \in Range(gpus) : Of(d.card).igpu

\* Every card the kernel showed is told of once, as a device's or as left over; a device's is
\* of its model, and a card is left over only when there are more of its model than devices
\* (lib.rs:421-437).  A failure names the hardware exactly when nothing was found to run on
\* and there is some (lib.rs:289-303).
EveryCardIsTold ==
  /\ Answered =>
       LET given == {d.at : d \in Range(gpus)} \ {0}
           left == Range(UnusableHardware) IN
       /\ \A i, j \in DOMAIN gpus : gpus[i].at = gpus[j].at => i = j \/ gpus[i].at = 0
       /\ given \cup left = Range(hardware) /\ given \cap left = {}
       /\ \A d \in Range(gpus) : d.at # 0 => Of(d.at).model = Of(d.card).model
       /\ \A c \in left, d \in Range(gpus) : d.at = 0 => Of(c).model # Of(d.card).model
  /\ dpc = "done" /\ failure.cause # "none" =>
       (failure.evidence <=> hardware # <<>> /\ failure.cause # "ze")

DevicesAreTrue == BudgetIsItsOwn /\ EveryCardIsTold
==============================================================================
