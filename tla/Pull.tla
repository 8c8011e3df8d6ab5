--------------------------------- MODULE Pull ---------------------------------
(***************************************************************************)
(* Model acquisition, crates/moearc-model/src/pull.rs: the calls of        *)
(* pull_async that fetch one file into one directory, one after another,   *)
(* the partial file and its stamp that outlive them, and the Hub, which    *)
(* may publish another version of the file.  A block stands for any number *)
(* of bytes; block i of version v is <<v, i>>.                             *)
(*                                                                         *)
(* A call may fail at every network and disk step and be killed between    *)
(* any two; both leave the files as they are, except that a failing call   *)
(* drops its BufWriter, which writes what it still holds.  When the power  *)
(* goes, what was written and not yet synced may come back as zeroes.      *)
(***************************************************************************)
EXTENDS Integers, Sequences

CONSTANTS
  NoFile, Torn, Zero,
  Sizes,             \* the blocks of each version the Hub may publish
  MidCall,           \* it may publish while a call is running
  MaxPublished, MaxForced, MaxFailures, MaxPowerLosses \* bounds on these events

Versions == DOMAIN Sizes
Blocks == (Versions \X Nat) \union {Zero}

PullAssumption ==
  /\ Sizes \in Seq(Nat \ {0}) /\ Len(Sizes) > 0
  /\ NoFile \notin Seq(Blocks) /\ {NoFile, Torn} \cap Nat = {}
  /\ MidCall \in BOOLEAN
  /\ {MaxPublished, MaxForced, MaxFailures, MaxPowerLosses} \subseteq Nat

Content(v) == [i \in 1 .. Sizes[v] |-> <<v, i>>]

VARIABLES
  remote,      \* the version on the Hub
  dest,        \* the finished file
  part, stamp, \* the partial file, and the version it is said to be a part of
  synced,      \* how many blocks of dest and of part are on the disk for certain
  pc,          \* where the call is
  force,       \* its request
  ident,       \* the version paths-info named
  resumed,     \* resumed_from
  served,      \* the blocks the Hub has yet to send
  buffer,      \* its BufWriter
  counts,      \* how often each bounded event has happened
  disturbed    \* a publication met a running call, or the power has gone

files == <<dest, part, stamp, synced>>
call == <<pc, force, ident, resumed, served, buffer>>
vars == <<remote, files, call, counts, disturbed>>

Total == Sizes[ident]
Length(file) == IF file = NoFile THEN 0 ELSE Len(file)
Data(file) == IF file = NoFile THEN <<>> ELSE file

Init ==
  /\ remote \in Versions
  /\ dest = NoFile /\ part = NoFile /\ stamp = NoFile
  /\ synced = [dest |-> 0, part |-> 0]
  /\ pc = "idle" /\ force = FALSE /\ ident = 1 /\ resumed = 0
  /\ served = <<>> /\ buffer = <<>>
  /\ counts = [published |-> 0, forced |-> 0, failures |-> 0, losses |-> 0]
  /\ disturbed = FALSE

Happens(event, max) ==
  /\ counts[event] < max
  /\ counts' = [counts EXCEPT ![event] = @ + 1]

\* The call is over and its locals are gone.
Leave ==
  /\ pc' = "idle" /\ force' = FALSE /\ ident' = 1 /\ resumed' = 0
  /\ served' = <<>> /\ buffer' = <<>>

-----------------------------------------------------------------------------
\* paths-info: the size and the identity of what is on the Hub now.
LookUp ==
  /\ pc = "idle"
  /\ \/ force' = FALSE /\ UNCHANGED counts
     \/ force' = TRUE /\ Happens("forced", MaxForced)
  /\ ident' = remote
  /\ pc' = "looked"
  /\ UNCHANGED <<remote, files, resumed, served, buffer, disturbed>>

\* A file of the right size is there: it is only verified.
AlreadyThere ==
  /\ pc = "looked" /\ ~force /\ Length(dest) = Total
  /\ Leave
  /\ UNCHANGED <<remote, files, counts, disturbed>>

\* The partial file is reused when its stamp names this version and it is not
\* longer than the whole; otherwise it is removed.  (The first two are what the
\* mutants of Reusable put in its place.)
ReusableAtAnyLength == ~force /\ stamp = ident
ReusableUnstamped == ~force /\ Length(part) <= Total
Reusable == ~force /\ stamp = ident /\ Length(part) <= Total

Prepare ==
  /\ pc = "looked" /\ (force \/ Length(dest) # Total)
  /\ IF Reusable
     THEN resumed' = Length(part) /\ UNCHANGED <<part, synced>>
     ELSE resumed' = 0 /\ part' = NoFile /\ synced' = [synced EXCEPT !.part = 0]
  /\ pc' = IF resumed' = Total THEN "written" ELSE "prepared"
  /\ UNCHANGED <<remote, dest, stamp, force, ident, served, buffer, counts, disturbed>>

\* From here on the partial file claims to be a part of ident.
Stamp ==
  /\ pc = "prepared"
  /\ stamp' = ident
  /\ pc' = "stamped"
  /\ UNCHANGED <<remote, dest, part, synced, force, ident, resumed, served, buffer,
                 counts, disturbed>>

\* A stamp that was created and not filled names nothing.
StampTorn ==
  /\ pc = "prepared" /\ Happens("failures", MaxFailures)
  /\ stamp' = Torn
  /\ Leave
  /\ UNCHANGED <<remote, dest, part, synced, disturbed>>

\* The Hub sends the version it has now: the range that is left when resuming,
\* the whole of it otherwise.
OpenStream ==
  /\ pc = "stamped" /\ resumed < Sizes[remote]
  /\ LET last == IF resumed > 0 /\ Total < Sizes[remote] THEN Total ELSE Sizes[remote]
     IN served' = SubSeq(Content(remote), resumed + 1, last)
  /\ part' = Data(part)
  /\ pc' = "streaming"
  /\ UNCHANGED <<remote, dest, stamp, synced, force, ident, resumed, buffer, counts, disturbed>>

\* A range that begins past the end is an error.
RangeRefused ==
  /\ pc = "stamped" /\ resumed >= Sizes[remote]
  /\ Leave
  /\ UNCHANGED <<remote, files, counts, disturbed>>

Receive ==
  /\ pc = "streaming" /\ served # <<>>
  /\ served' = Tail(served)
  /\ buffer' = Append(buffer, Head(served))
  /\ UNCHANGED <<remote, files, pc, force, ident, resumed, counts, disturbed>>

\* The buffer goes to the end of the file, which is open for append.
Write ==
  /\ pc = "streaming" /\ buffer # <<>>
  /\ part' = part \o buffer
  /\ buffer' = <<>>
  /\ UNCHANGED <<remote, dest, stamp, synced, pc, force, ident, resumed, served, counts, disturbed>>

\* The stream ends early and says so to nobody.
Truncated ==
  /\ pc = "streaming" /\ served # <<>> /\ Happens("failures", MaxFailures)
  /\ served' = <<>>
  /\ UNCHANGED <<remote, files, pc, force, ident, resumed, buffer, disturbed>>

\* The stream is over and flushed: sync_all.
Sync ==
  /\ pc = "streaming" /\ served = <<>> /\ buffer = <<>>
  /\ synced' = [synced EXCEPT !.part = Len(part)]
  /\ pc' = "written"
  /\ UNCHANGED <<remote, dest, part, stamp, force, ident, resumed, served, buffer,
                 counts, disturbed>>

Renamed ==
  /\ dest' = part /\ part' = NoFile
  /\ synced' = [dest |-> synced.part, part |-> 0]
  /\ pc' = "renamed"
  /\ UNCHANGED <<remote, stamp, force, ident, resumed, served, buffer, counts, disturbed>>

RenameUnchecked == pc = "written" /\ Renamed

Rename == pc = "written" /\ Length(part) = Total /\ Renamed

\* What is there stays for the next call to judge.
SizeMismatch ==
  /\ pc = "written" /\ Length(part) # Total
  /\ Leave
  /\ UNCHANGED <<remote, files, counts, disturbed>>

\* The stamp goes last; then the file is verified.
Unstamp ==
  /\ pc = "renamed"
  /\ stamp' = NoFile
  /\ Leave
  /\ UNCHANGED <<remote, dest, part, synced, counts, disturbed>>

\* The call fails or is killed.  What its buffer held is written, in part or not
\* at all.
Fail ==
  /\ pc # "idle" /\ Happens("failures", MaxFailures)
  /\ \E n \in 0 .. Len(buffer) :
       part' = IF n = 0 THEN part ELSE part \o SubSeq(buffer, 1, n)
  /\ Leave
  /\ UNCHANGED <<remote, dest, stamp, synced, disturbed>>

\* Some of what was not synced comes back as zeroes.
Spoiled(file, safe) ==
  {[i \in DOMAIN Data(file) |-> IF i <= n THEN file[i] ELSE Zero] : n \in safe .. Length(file)}

PowerLoss ==
  /\ Happens("losses", MaxPowerLosses)
  /\ IF dest = NoFile THEN UNCHANGED dest ELSE dest' \in Spoiled(dest, synced.dest)
  /\ IF part = NoFile THEN UNCHANGED part ELSE part' \in Spoiled(part, synced.part)
  /\ synced' = [dest |-> Length(dest), part |-> Length(part)]
  /\ disturbed' = TRUE
  /\ Leave
  /\ UNCHANGED <<remote, stamp>>

Publish ==
  /\ MidCall \/ pc = "idle"
  /\ Happens("published", MaxPublished)
  /\ remote' \in Versions \ {remote}
  /\ disturbed' = (disturbed \/ pc # "idle")
  /\ UNCHANGED <<files, call>>

PullStep ==
  \/ LookUp \/ AlreadyThere \/ Prepare \/ Stamp \/ OpenStream \/ RangeRefused \/ Receive
  \/ Write \/ Sync \/ Rename \/ SizeMismatch \/ Unstamp

Next == PullStep \/ StampTorn \/ Truncated \/ Fail \/ PowerLoss \/ Publish

\* A running call goes on, and after a failure the command is run again.
Fairness == WF_vars(PullStep)

Spec == Init /\ [][Next]_vars /\ Fairness

-----------------------------------------------------------------------------
\* The variables keep their types: a call never resumes past the end of the file
\* it is fetching (`total - resumed_from` does not wrap), and never holds more
\* than the Hub can have sent.
TypeOK ==
  /\ remote \in Versions /\ ident \in Versions
  /\ dest = NoFile \/ \A i \in DOMAIN dest : dest[i] \in Blocks
  /\ part = NoFile \/ \A i \in DOMAIN part : part[i] \in Blocks
  /\ stamp \in Versions \union {NoFile, Torn}
  /\ synced.dest <= Length(dest) /\ synced.part <= Length(part)
  /\ pc \in {"idle", "looked", "prepared", "stamped", "streaming", "written", "renamed"}
  /\ force \in BOOLEAN /\ disturbed \in BOOLEAN
  /\ resumed \in 0 .. Total
  /\ pc # "streaming" => served = <<>> /\ buffer = <<>>

\* Under its final name a file is, byte for byte, one version the Hub had.
DestIsWhole == dest = NoFile \/ \E v \in Versions : dest = Content(v)

\* So it is as long as no publication meets a running call and the power stays
\* on: kills, refused writes, truncated streams and publications between calls
\* never splice two versions or cut one short.
DestIsWholeUndisturbed == disturbed \/ DestIsWhole

\* And as long, the partial file is a prefix of the version its stamp names, at
\* every point a call can be killed at.
PartIsPrefix ==
  ~disturbed /\ stamp \in Versions =>
    \E n \in 0 .. Sizes[stamp] : Data(part) = SubSeq(Content(stamp), 1, n)

\* Run again after every failure, the command ends with a file of the size the
\* Hub states: nothing a failed call leaves behind stands in the way for good.
Converges == <>[](Length(dest) = Sizes[remote])
==============================================================================
