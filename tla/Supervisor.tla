------------------------------ MODULE Supervisor ------------------------------
(***************************************************************************)
(* `moearc serve` once its plan is made: the choice of llama.cpp's device, *)
(* the child that is forked, the thread that reads what the child says,    *)
(* the confirmation of the device, the polling of /health, the wait for    *)
(* the child and its death with its parent (crates/moearc-cli/src/serve.rs,*)
(* select_device and from Supervisor to run).                              *)
(*                                                                         *)
(* A row of a device list is [id, sycl, name, size].  The child lists the  *)
(* devices by itself, and what it lists need not be what --list-devices    *)
(* listed before.  Its progress is its own: it may stop at any point or    *)
(* die.  A line that is not UTF-8 ends the reading of the log.             *)
(***************************************************************************)
EXTENDS Integers, Sequences, Functions

CONSTANTS
  Lists,     \* the device lists there may be
  Wanted,    \* the device the plan is for, [name, size]
  MaxNoise   \* bound on the lines that are not rows

\* What is planned for is a row's card.
IsWanted(row) == row.name = Wanted.name /\ row.size = Wanted.size

\* A list names each of its devices once, and the card is still in the machine, whether SYCL
\* lists it or another backend.
SupAssumption ==
  /\ Wanted.size \in Nat
  /\ \A list \in Lists :
       /\ list \in Seq(Range(list))
       /\ \A i, j \in DOMAIN list : list[i].id = list[j].id => i = j
       /\ \A i \in DOMAIN list : list[i].size \in Nat
       /\ \E i \in DOMAIN list : IsWanted(list[i])

VARIABLES
  sup,       \* where the supervisor is
  ending,    \* how its run ended
  child,     \* how far the child is
  doomed,    \* it has a deadly signal pending
  listed,    \* what --list-devices said
  table,     \* what the child will say of its devices
  stranger,  \* another server has the port
  rows, noise, \* how many rows and other lines the child has written
  pipe,      \* what it wrote and the reader has not read
  chan,      \* what the reader sent and the supervisor has not taken
  reader,    \* the thread that reads the pipe
  seen,      \* the rows taken, the first of each id
  confirmed, \* the device was confirmed
  late       \* READY_TIMEOUT is over

childVars == <<child, doomed, rows, noise, table, stranger>>
logVars == <<pipe, chan, reader, seen>>
supVars == <<sup, ending, childVars, listed, logVars, confirmed, late>>

Distance(a, b) == IF a > b THEN a - b ELSE b - a

-----------------------------------------------------------------------------
(* The device, by its name among SYCL's; of several the closest in size,   *)
(* the first of those.                                                     *)
Candidates(list) == {i \in DOMAIN list : list[i].sycl /\ list[i].name = Wanted.name}
Selected(list) ==
  LET off(i) == Distance(list[i].size, Wanted.size)
      before(i, j) == off(i) < off(j) \/ (off(i) = off(j) /\ i < j)
  IN list[CHOOSE i \in Candidates(list) : \A j \in Candidates(list) \ {i} : before(i, j)]
Pin == Selected(listed).id

RowsOf(list, id) == {d \in Range(list) : d.id = id}

-----------------------------------------------------------------------------
SupInit ==
  /\ sup = "planned" /\ ending = "none"
  /\ child = "none" /\ doomed = FALSE
  /\ listed \in Lists /\ table \in Lists /\ stranger \in BOOLEAN
  /\ rows = 0 /\ noise = 0
  /\ pipe = <<>> /\ chan = <<>> /\ reader = "none" /\ seen = <<>>
  /\ confirmed = FALSE /\ late = FALSE

End(how) == sup' = "ended" /\ ending' = how

\* select_device finds nothing to pin.
NoDevice ==
  /\ sup = "planned" /\ Candidates(listed) = {}
  /\ End("deviceless")
  /\ UNCHANGED <<childVars, listed, logVars, confirmed, late>>

Fork ==
  /\ sup = "planned" /\ Candidates(listed) # {}
  /\ sup' = "spawning" /\ child' = "forked"
  /\ UNCHANGED <<ending, doomed, rows, noise, table, stranger, listed, logVars, confirmed, late>>

ForkFails ==
  /\ sup = "planned" /\ Candidates(listed) # {}
  /\ End("unstarted")
  /\ UNCHANGED <<childVars, listed, logVars, confirmed, late>>

-----------------------------------------------------------------------------
(* The child.                                                              *)
Alive == {"forked", "armed", "starting", "loading", "listening"}
Unparented == sup = "dead"
Corpse == IF Unparented THEN "gone" ELSE "zombie"  \* init reaps an orphan

\* prctl: from now on the death of the parent sends a signal.
Arm ==
  /\ child = "forked"
  /\ child' = "armed"
  /\ UNCHANGED <<sup, ending, doomed, rows, noise, table, stranger, listed, logVars,
                 confirmed, late>>

\* A parent that died before the prctl sent nothing: the child looks, and leaves.
\* (The first form, a mutant's, does not look.)
AfterArmingBlind == "starting"
AfterArming == IF Unparented THEN "gone" ELSE "starting"

Exec ==
  /\ child = "armed"
  /\ child' = AfterArming
  /\ UNCHANGED <<sup, ending, doomed, rows, noise, table, stranger, listed, logVars,
                 confirmed, late>>

\* prctl or exec fails, and spawn returns the error after reaping the child.
ExecFails ==
  /\ child \in {"forked", "armed"} /\ sup = "spawning"
  /\ child' = "gone" /\ End("unstarted")
  /\ UNCHANGED <<doomed, rows, noise, table, stranger, listed, logVars, confirmed, late>>

Read == sup = "spawning" \/ reader = "on"   \* the pipe has a reading end

\* What a write does: nobody at the other end is SIGPIPE, unless it is ignored.
Writes(line) ==
  \/ Read /\ pipe' = Append(pipe, line) /\ UNCHANGED child
  \/ ~Read /\ UNCHANGED pipe /\ child' \in {child, Corpse}

PrintRow ==
  /\ child = "starting" /\ rows < Len(table)
  /\ Writes([kind |-> "row", row |-> table[rows + 1]])
  /\ rows' = rows + 1
  /\ UNCHANGED <<sup, ending, doomed, noise, table, stranger, listed, chan, reader, seen,
                 confirmed, late>>

Talk ==
  /\ child \in {"starting", "loading", "listening"} /\ noise < MaxNoise
  /\ \E kind \in {"noise", "torn"} : Writes([kind |-> kind])
  /\ noise' = noise + 1
  /\ UNCHANGED <<sup, ending, doomed, rows, table, stranger, listed, chan, reader, seen,
                 confirmed, late>>

\* It loads once its device list is out, and then listens if the port is free.
Progress ==
  /\ \/ child = "starting" /\ rows = Len(table) /\ child' = "loading"
     \/ child = "loading" /\ child' = IF stranger THEN Corpse ELSE "listening"
  /\ UNCHANGED <<sup, ending, doomed, rows, noise, table, stranger, listed, logVars,
                 confirmed, late>>

Dies ==
  /\ child \in {"starting", "loading", "listening"}
  /\ child' = Corpse
  /\ UNCHANGED <<sup, ending, doomed, rows, noise, table, stranger, listed, logVars,
                 confirmed, late>>

\* The pending signal is taken.
Sigterm ==
  /\ doomed /\ child \in Alive
  /\ child' = Corpse
  /\ UNCHANGED <<sup, ending, doomed, rows, noise, table, stranger, listed, logVars,
                 confirmed, late>>

-----------------------------------------------------------------------------
(* The reader: lines() ends with the first error, map_while with it.       *)
ReadLine ==
  /\ reader = "on" /\ pipe # <<>>
  /\ pipe' = Tail(pipe)
  /\ IF Head(pipe).kind = "torn" THEN reader' = "over" /\ UNCHANGED chan
     ELSE chan' = Append(chan, Head(pipe)) /\ UNCHANGED reader
  /\ UNCHANGED <<sup, ending, childVars, listed, seen, confirmed, late>>

\* The child's end is closed.
ReadEnd ==
  /\ reader = "on" /\ pipe = <<>> /\ child \notin Alive
  /\ reader' = "over"
  /\ UNCHANGED <<sup, ending, childVars, listed, pipe, chan, seen, confirmed, late>>

-----------------------------------------------------------------------------
(* The supervisor.                                                         *)
\* spawn returns when the child has called exec.
Spawned ==
  /\ sup = "spawning" /\ child \notin {"forked", "armed"}
  /\ sup' = "draining" /\ reader' = "on"
  /\ UNCHANGED <<ending, childVars, listed, pipe, chan, seen, confirmed, late>>

\* The first row of an id counts.
Keep(row) == IF RowsOf(seen, row.id) = {} THEN Append(seen, row) ELSE seen

TakeLine ==
  /\ sup \in {"draining", "serving"} /\ chan # <<>>
  /\ chan' = Tail(chan)
  /\ seen' = IF Head(chan).kind = "row" THEN Keep(Head(chan).row) ELSE seen
  /\ UNCHANGED <<sup, ending, childVars, listed, pipe, reader, confirmed, late>>

\* The slice is over; a message that is there is taken even so.
DrainEnds ==
  /\ sup = "draining" /\ chan = <<>>
  /\ sup' = "checking"
  /\ UNCHANGED <<ending, childVars, listed, logVars, confirmed, late>>

\* confirm_device: the row the child printed for the pinned id (there is at most one, as
\* Keep keeps them) must have the name.
\* (The first form, a mutant's, takes any row with the name for it.)
DisagreesAnywhere == seen # <<>> /\ \A i \in DOMAIN seen : seen[i].name # Wanted.name
Disagrees == \E row \in RowsOf(seen, Pin) : row.name # Wanted.name

Mismatch ==
  /\ sup = "checking" /\ ~confirmed /\ Disagrees
  /\ sup' = "dropping" /\ ending' = "mismatch"
  /\ UNCHANGED <<childVars, listed, logVars, confirmed, late>>

Agreed == confirmed \/ ~Disagrees
Confirms == confirmed' = (confirmed \/ RowsOf(seen, Pin) # {})

Alright ==
  /\ sup = "checking" /\ Agreed /\ child # "zombie"
  /\ Confirms
  /\ sup' = "probing"
  /\ UNCHANGED <<ending, childVars, listed, logVars, late>>

\* try_wait finds the child dead.
DiedLoading ==
  /\ sup = "checking" /\ Agreed /\ child = "zombie"
  /\ Confirms
  /\ child' = "gone" /\ sup' = "dropping" /\ ending' = "died"
  /\ UNCHANGED <<doomed, rows, noise, table, stranger, listed, logVars, late>>

\* Whoever has the port answers.
Ready ==
  /\ sup = "probing" /\ (child = "listening" \/ stranger)
  /\ sup' = "serving"
  /\ UNCHANGED <<ending, childVars, listed, logVars, confirmed, late>>

\* No answer, or none in time.  (A mutant, Patient, never gives up.)
Patient == sup' = "draining" /\ UNCHANGED ending
Unanswered ==
  IF late THEN sup' = "dropping" /\ ending' = "late"
  ELSE sup' = "draining" /\ UNCHANGED ending

NotReady ==
  /\ sup = "probing"
  /\ Unanswered
  /\ UNCHANGED <<childVars, listed, logVars, confirmed, late>>

TimePasses ==
  /\ sup \in {"draining", "checking", "probing"} /\ ~late
  /\ late' = TRUE
  /\ UNCHANGED <<sup, ending, childVars, listed, logVars, confirmed>>

\* try_wait of the last loop.
Stopped ==
  /\ sup = "serving" /\ chan = <<>> /\ child = "zombie"
  /\ child' = "gone" /\ sup' = "dropping" /\ ending' = "stopped"
  /\ UNCHANGED <<doomed, rows, noise, table, stranger, listed, logVars, confirmed, late>>

\* Drop: kill and wait; the end of the process is the end of the reader.
Drop ==
  /\ sup = "dropping"
  /\ child' = "gone" /\ sup' = "ended" /\ reader' = "over"
  /\ UNCHANGED <<ending, doomed, rows, noise, table, stranger, listed, pipe, chan, seen,
                 confirmed, late>>

\* The supervisor is killed, with no destructor run: the kernel signals a child that
\* has asked for it.  A Ctrl-C goes to the child as well.
Killed ==
  /\ sup \notin {"planned", "ended", "dead"}
  /\ sup' = "dead" /\ reader' = "over"
  /\ child' = IF child = "zombie" THEN "gone" ELSE child
  /\ \/ doomed' = (child \in Alive \ {"forked"})
     \/ doomed' = (child \in Alive)
  /\ UNCHANGED <<ending, rows, noise, table, stranger, listed, pipe, chan, seen,
                 confirmed, late>>

SupStep ==
  \/ NoDevice \/ Fork \/ Spawned \/ TakeLine \/ DrainEnds \/ Mismatch \/ Alright
  \/ DiedLoading \/ Ready \/ NotReady \/ Stopped \/ Drop
KernelStep == Arm \/ Exec \/ Sigterm \/ ReadLine \/ ReadEnd
ChildStep == PrintRow \/ Talk \/ Progress \/ Dies
SupNext == SupStep \/ KernelStep \/ ChildStep \/ ForkFails \/ ExecFails \/ TimePasses \/ Killed

\* The process runs, the kernel does what it is asked to, and time passes; nothing is
\* assumed of the child once it is llama-server, nor that anything fails.
SupFairness == WF_supVars(SupStep) /\ WF_supVars(KernelStep) /\ WF_supVars(TimePasses)

-----------------------------------------------------------------------------
\* What is reported as confirmed is so, in the child's own numbering, whatever --list-devices
\* had said of the pinned id and in whatever pieces the log arrives: the id is a card of the
\* name the plan was made for.  It is the card itself as long as the child numbers the devices
\* as --list-devices did and lists that card with SYCL.  Only a namesake can be taken for it,
\* one that the child lists beside it: the check knows a card by its name, while serve.rs:1029
\* has it confirm "the card MoEArc planned against".
PinIsNamed == confirmed => \E i \in DOMAIN table : table[i].id = Pin /\ table[i].name = Wanted.name
ConfirmedIsTrue ==
  confirmed =>
    \E i \in DOMAIN table :
      /\ table[i].id = Pin /\ table[i].name = Wanted.name
      /\ IsWanted(table[i]) \/ \E j \in DOMAIN table \ {i} : IsWanted(table[j])
      /\ table = listed /\ (\E j \in DOMAIN table : table[j].sycl /\ IsWanted(table[j])) =>
           IsWanted(table[i])

\* However the supervisor ends, killed between any two steps included, no llama-server
\* is left holding the card and the port (serve.rs:917-967).
NothingLeftBehind ==
  /\ [](sup = "ended" => child \in {"none", "gone"})
  /\ (sup = "dead") ~> (child = "gone")

\* A child that never answers is given up: the wait for it ends, one way or another
\* (serve.rs:1085-1158).
WaitEnds == (sup = "spawning") ~> (sup \in {"serving", "ended", "dead"})

SupTypeOK ==
  /\ sup \in {"planned", "spawning", "draining", "checking", "probing", "serving",
              "dropping", "ended", "dead"}
  /\ child \in Alive \cup {"none", "zombie", "gone"}
  /\ confirmed => RowsOf(seen, Pin) # {}
==============================================================================
