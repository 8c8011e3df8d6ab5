------------------------------ MODULE CliProofs ------------------------------
(***************************************************************************)
(* Proofs about the commands of Cli: about "pull", for any versions of a   *)
(* file, any number of failures, power losses and publications; about      *)
(* "serve", for any lists of devices and whatever the child does; about    *)
(* "tui", for any reports, catalogues, machines and keys; about "models",  *)
(* for any directory, edits and names; and about "devices", for any        *)
(* machine, any order of its three views, and any loss, change or failure. *)
(***************************************************************************)
EXTENDS Cli, SequenceTheorems, FiniteSetTheorems, WellFoundedInduction, TLAPS

-----------------------------------------------------------------------------
(* pull: what is in the files, and what a running call still has to bring. *)

\* f begins as version v does.
Begins(f, v) == Len(f) <= Sizes[v] /\ \A i \in 1 .. Len(f) : f[i] = <<v, i>>
\* f is version v, whole.
Whole(f, v) == Len(f) = Sizes[v] /\ Begins(f, v)
\* A file that may not be there.
MaybeFile == {NoFile} \cup Seq(P!Blocks)

\* What the variables of a pull hold.
PullTypes ==
  /\ remote \in P!Versions /\ ident \in P!Versions
  /\ dest \in MaybeFile /\ part \in MaybeFile
  /\ stamp \in P!Versions \cup {NoFile, Torn}
  /\ synced \in [dest : Nat, part : Nat]
  /\ synced.dest <= P!Length(dest) /\ synced.part <= P!Length(part)
  /\ pc \in {"idle", "looked", "prepared", "stamped", "streaming", "written", "renamed"}
  /\ force \in BOOLEAN /\ disturbed \in BOOLEAN
  /\ resumed \in Nat /\ resumed <= Sizes[ident] /\ (pc \in {"idle", "looked"} => resumed = 0)
  /\ served \in Seq(P!Blocks) /\ buffer \in Seq(P!Blocks)
  /\ pc # "streaming" => served = <<>> /\ buffer = <<>>
  /\ pc = "streaming" => part # NoFile

\* What has arrived and what is to come go on where the partial file ends.
Continues ==
  LET n == Len(part)
      m == Len(buffer)
  IN /\ (n + m) + Len(served) <= Sizes[ident]
     /\ \A i \in 1 .. m : buffer[i] = <<ident, n + i>>
     /\ \A i \in 1 .. Len(served) : served[i] = <<ident, (n + m) + i>>

\* Undisturbed, a call fetches the version the Hub has.
Undisturbed ==
  /\ dest = NoFile \/ \E v \in P!Versions : Whole(dest, v)
  /\ stamp \in P!Versions => Begins(P!Data(part), stamp)
  /\ pc # "idle" => ident = remote
  /\ pc \in {"prepared", "stamped"} =>
       Begins(P!Data(part), ident) /\ P!Length(part) = resumed /\ resumed < Sizes[ident]
  /\ pc \in {"stamped", "streaming", "written", "renamed"} => stamp = ident
  /\ pc = "streaming" => Continues

\* The inductive invariant of a pull.
PullInv == PullTypes /\ (~disturbed => Undisturbed)

\* What is assumed of the versions.
LEMMA SizesAre ==
  /\ 1 \in P!Versions /\ P!Versions \subseteq Nat
  /\ \A v \in P!Versions : Sizes[v] \in Nat \ {0}
  /\ NoFile \notin P!Versions /\ Torn \notin P!Versions /\ NoFile \notin Seq(P!Blocks)
<1>1. /\ Sizes \in Seq(Nat \ {0}) /\ Len(Sizes) > 0
      /\ NoFile \notin Seq(P!Blocks) /\ {NoFile, Torn} \cap Nat = {}
  BY CliAssumption DEF P!PullAssumption
<1>2. P!Versions = 1 .. Len(Sizes) /\ Len(Sizes) \in Nat
  BY <1>1 DEF P!Versions
<1>3. 1 \in P!Versions /\ P!Versions \subseteq Nat
  BY <1>1, <1>2
<1>4. \A v \in P!Versions : Sizes[v] \in Nat \ {0}
  BY <1>1, <1>2
<1>5. NoFile \notin Nat /\ Torn \notin Nat
  BY <1>1
<1> QED
  BY <1>1, <1>3, <1>4, <1>5

\* What a file holds, when it is there and when it is not.
LEMMA DataOf ==
  ASSUME NEW f \in MaybeFile
  PROVE  /\ P!Data(f) \in Seq(P!Blocks) /\ P!Length(f) = Len(P!Data(f)) /\ P!Length(f) \in Nat
         /\ f = NoFile => P!Data(f) = <<>>
         /\ f # NoFile => P!Data(f) = f
BY SizesAre DEF MaybeFile, P!Data, P!Length

\* The blocks of a version are blocks.
LEMMA ContentIs ==
  ASSUME NEW v \in P!Versions
  PROVE  /\ P!Content(v) \in Seq(P!Blocks) /\ Len(P!Content(v)) = Sizes[v]
         /\ \A i \in 1 .. Sizes[v] : P!Content(v)[i] = <<v, i>>
BY SizesAre DEF P!Content, P!Blocks

\* Nothing has been downloaded.
LEMMA PullBegins == P!Init => PullInv
<1> SUFFICES ASSUME P!Init PROVE PullInv
  OBVIOUS
<1>1. NoFile \in MaybeFile /\ P!Length(NoFile) = 0 /\ P!Data(NoFile) = <<>> /\ <<>> \in Seq(P!Blocks)
  BY DEF MaybeFile, P!Length, P!Data
<1>2. PullTypes
  <2>1. synced \in [dest : Nat, part : Nat] /\ synced.dest = 0 /\ synced.part = 0
    BY DEF P!Init
  <2>2. ident \in P!Versions /\ 0 <= Sizes[ident]
    BY SizesAre DEF P!Init
  <2>3. P!Length(dest) = 0 /\ P!Length(part) = 0 /\ dest \in MaybeFile /\ part \in MaybeFile
    BY <1>1 DEF P!Init
  <2>4. served \in Seq(P!Blocks) /\ buffer \in Seq(P!Blocks) /\ remote \in P!Versions
    BY <1>1 DEF P!Init
  <2>5. /\ stamp = NoFile /\ pc = "idle" /\ force = FALSE /\ disturbed = FALSE /\ resumed = 0
        /\ served = <<>> /\ buffer = <<>>
    BY DEF P!Init
  <2>6. /\ synced.dest <= P!Length(dest) /\ synced.part <= P!Length(part)
        /\ resumed \in Nat /\ resumed <= Sizes[ident]
    BY <2>1, <2>2, <2>3, <2>5
  <2>7. pc # "streaming" /\ stamp \in P!Versions \cup {NoFile, Torn}
    BY <2>5
  <2> QED
    BY <2>1, <2>2, <2>3, <2>4, <2>5, <2>6, <2>7, Zenon DEF PullTypes
<1>3. Undisturbed
  BY <1>1, SizesAre DEF P!Init, Undisturbed
<1> QED
  BY <1>2, <1>3 DEF PullInv

\* A call that ends leaves its files for the next one.
LEMMA CallEnds ==
  ASSUME PullInv, P!Leave, UNCHANGED <<remote, dest, part, synced, disturbed>>,
         stamp' \in {stamp, NoFile, Torn}
  PROVE  PullInv'
<1>1. /\ pc' = "idle" /\ force' = FALSE /\ ident' = 1 /\ resumed' = 0
      /\ served' = <<>> /\ buffer' = <<>>
  BY DEF P!Leave
<1>2. PullTypes'
  <2>1. ident' \in P!Versions /\ resumed' \in Nat /\ resumed' <= Sizes[ident']
    BY <1>1, SizesAre
  <2>2. served' \in Seq(P!Blocks) /\ buffer' \in Seq(P!Blocks)
    BY <1>1
  <2> QED
    BY <1>1, <2>1, <2>2 DEF PullInv, PullTypes
<1>3. ~disturbed' => Undisturbed'
  BY <1>1, SizesAre DEF PullInv, Undisturbed
<1> QED
  BY <1>2, <1>3 DEF PullInv

\* The call asks the Hub for the version it has.
LEMMA LookUpKeeps == PullInv /\ P!LookUp => PullInv'
<1> SUFFICES ASSUME PullInv, P!LookUp PROVE PullInv'
  OBVIOUS
<1>1. /\ pc = "idle" /\ force' \in BOOLEAN /\ ident' = remote /\ pc' = "looked"
      /\ UNCHANGED <<remote, dest, part, stamp, synced, resumed, served, buffer, disturbed>>
  BY DEF P!LookUp, P!files
<1>2. PullTypes'
  <2>1. remote \in P!Versions /\ resumed = 0 /\ 0 <= Sizes[remote]
    BY <1>1, SizesAre DEF PullInv, PullTypes
  <2> QED
    BY <1>1, <2>1 DEF PullInv, PullTypes
<1>3. ~disturbed' => Undisturbed'
  BY <1>1 DEF PullInv, Undisturbed
<1> QED
  BY <1>2, <1>3 DEF PullInv

\* A file of the right size is there.
LEMMA AlreadyThereKeeps == PullInv /\ P!AlreadyThere => PullInv'
BY CallEnds DEF P!AlreadyThere, P!files

\* The partial file is kept for this version, or removed.
LEMMA PrepareKeeps == PullInv /\ P!Prepare => PullInv'
<1> SUFFICES ASSUME PullInv, P!Prepare PROVE PullInv'
  OBVIOUS
<1>1. /\ pc = "looked"
      /\ \/ /\ ~force /\ stamp = ident /\ P!Length(part) <= Sizes[ident]
            /\ resumed' = P!Length(part) /\ UNCHANGED <<part, synced>>
         \/ resumed' = 0 /\ part' = NoFile /\ synced' = [synced EXCEPT !.part = 0]
      /\ pc' = IF resumed' = Sizes[ident] THEN "written" ELSE "prepared"
      /\ UNCHANGED <<remote, dest, stamp, force, ident, served, buffer, disturbed>>
  BY DEF P!Prepare, P!Reusable, P!Total
<1>2. /\ part \in MaybeFile /\ ident \in P!Versions /\ Sizes[ident] \in Nat \ {0}
      /\ synced \in [dest : Nat, part : Nat] /\ synced.part <= P!Length(part)
      /\ synced.dest <= P!Length(dest) /\ P!Length(part) = Len(P!Data(part))
      /\ P!Length(part) \in Nat
  BY SizesAre, DataOf DEF PullInv, PullTypes
<1>3. /\ NoFile \in MaybeFile /\ P!Length(NoFile) = 0 /\ P!Data(NoFile) = <<>>
  BY DEF MaybeFile, P!Length, P!Data
<1>4. part' \in MaybeFile /\ resumed' = P!Length(part)' /\ resumed' \in Nat /\ resumed' <= Sizes[ident]
  <2>1. CASE resumed' = P!Length(part) /\ part' = part /\ P!Length(part) <= Sizes[ident]
    BY <1>2, <2>1
  <2>2. CASE resumed' = 0 /\ part' = NoFile
    BY <1>2, <1>3, <2>2
  <2> QED
    BY <1>1, <2>1, <2>2
<1>5. /\ synced' \in [dest : Nat, part : Nat] /\ synced'.dest = synced.dest
      /\ synced'.part <= P!Length(part)'
  <2>1. CASE UNCHANGED <<part, synced>>
    BY <1>2, <2>1
  <2>2. CASE part' = NoFile /\ synced' = [synced EXCEPT !.part = 0]
    BY <1>2, <1>3, <2>2
  <2> QED
    BY <1>1, <2>1, <2>2
<1>6. PullTypes'
  <2>1. pc' \in {"written", "prepared"}
    BY <1>1
  <2> QED
    BY <1>1, <1>2, <1>4, <1>5, <2>1 DEF PullInv, PullTypes
<1>7. ASSUME ~disturbed PROVE Undisturbed'
  <2>1. /\ dest = NoFile \/ \E v \in P!Versions : Whole(dest, v)
        /\ stamp \in P!Versions => Begins(P!Data(part), stamp)
        /\ ident = remote
    BY <1>1, <1>7 DEF PullInv, Undisturbed
  <2>2. \A v \in P!Versions : Begins(<<>>, v)
    BY SizesAre DEF Begins
  <2>3. /\ stamp \in P!Versions => Begins(P!Data(part)', stamp)
        /\ Begins(P!Data(part)', ident)
        /\ resumed' = Sizes[ident] => stamp = ident
    <3>1. CASE stamp = ident /\ UNCHANGED part
      BY <1>2, <2>1, <3>1
    <3>2. CASE resumed' = 0 /\ part' = NoFile
      BY <1>2, <1>3, <2>2, <3>2
    <3> QED
      BY <1>1, <3>1, <3>2
  <2>4. pc' = "prepared" => resumed' < Sizes[ident]
    BY <1>1, <1>2, <1>4
  <2>5. pc' = "written" => stamp = ident
    BY <1>1, <2>3
  <2> QED
    BY <1>1, <1>4, <2>1, <2>3, <2>4, <2>5 DEF Undisturbed
<1> QED
  BY <1>1, <1>6, <1>7 DEF PullInv

\* The partial file is stamped as a part of the version asked for.
LEMMA StampKeeps == PullInv /\ P!Stamp => PullInv'
<1> SUFFICES ASSUME PullInv, P!Stamp PROVE PullInv'
  OBVIOUS
<1>1. /\ pc = "prepared" /\ stamp' = ident /\ pc' = "stamped"
      /\ UNCHANGED <<remote, dest, part, synced, force, ident, resumed, served, buffer, disturbed>>
  BY DEF P!Stamp
<1>2. PullTypes'
  BY <1>1 DEF PullInv, PullTypes
<1>3. ~disturbed' => Undisturbed'
  BY <1>1 DEF PullInv, Undisturbed
<1> QED
  BY <1>2, <1>3 DEF PullInv

\* A stamp is created and not filled.
LEMMA StampTornKeeps == PullInv /\ P!StampTorn => PullInv'
BY CallEnds DEF P!StampTorn

\* The Hub refuses a range.
LEMMA RangeRefusedKeeps == PullInv /\ P!RangeRefused => PullInv'
BY CallEnds DEF P!RangeRefused, P!files

\* The Hub sends what is left of the version.
LEMMA OpenStreamKeeps == PullInv /\ P!OpenStream => PullInv'
<1> SUFFICES ASSUME PullInv, P!OpenStream PROVE PullInv'
  OBVIOUS
<1> DEFINE last == IF resumed > 0 /\ Sizes[ident] < Sizes[remote] THEN Sizes[ident] ELSE Sizes[remote]
<1>1. /\ pc = "stamped" /\ resumed < Sizes[remote]
      /\ served' = SubSeq(P!Content(remote), resumed + 1, last)
      /\ part' = P!Data(part) /\ pc' = "streaming"
      /\ UNCHANGED <<remote, dest, stamp, synced, force, ident, resumed, buffer, disturbed>>
  BY DEF P!OpenStream, P!Total
<1>2. /\ part \in MaybeFile /\ ident \in P!Versions /\ Sizes[ident] \in Nat \ {0}
      /\ remote \in P!Versions /\ Sizes[remote] \in Nat \ {0}
      /\ resumed \in Nat /\ resumed <= Sizes[ident] /\ buffer = <<>>
  BY <1>1, SizesAre DEF PullInv, PullTypes
<1>3. last \in Nat /\ last <= Sizes[remote] /\ (ident = remote => last = Sizes[ident])
  BY <1>2
<1> HIDE DEF last
<1>4. /\ P!Data(part) \in Seq(P!Blocks) /\ P!Length(part) = Len(P!Data(part)) /\ P!Length(part) \in Nat
  BY <1>2, DataOf
<1>5. part' \in Seq(P!Blocks) /\ part' # NoFile /\ P!Length(part)' = P!Length(part)
      /\ P!Data(part)' = P!Data(part) /\ part' \in MaybeFile
  BY <1>1, <1>4, SizesAre DEF P!Length, P!Data, MaybeFile
<1>6. /\ P!Content(remote) \in Seq(P!Blocks) /\ Len(P!Content(remote)) = Sizes[remote]
      /\ \A i \in 1 .. Sizes[remote] : P!Content(remote)[i] = <<remote, i>>
  BY <1>2, ContentIs
<1>7. served' \in Seq(P!Blocks)
      /\ \A i \in 1 .. Len(served') : served'[i] = <<remote, resumed + i>>
      /\ resumed + Len(served') <= IF last > resumed THEN last ELSE resumed
  <2> DEFINE w == P!Content(remote)
  <2>1. w \in Seq(P!Blocks) /\ resumed + 1 \in 1 .. (Len(w) + 1) /\ last \in 0 .. Len(w)
    BY <1>1, <1>2, <1>3, <1>6
  <2> HIDE DEF w
  <2>2. /\ SubSeq(w, resumed + 1, last) \in Seq(P!Blocks)
        /\ Len(SubSeq(w, resumed + 1, last)) =
             IF resumed + 1 <= last THEN (last - (resumed + 1)) + 1 ELSE 0
        /\ \A i \in 1 .. ((last - (resumed + 1)) + 1) :
             SubSeq(w, resumed + 1, last)[i] = w[((resumed + 1) + i) - 1]
    BY <1>2, <2>1
  <2>3. served' = SubSeq(w, resumed + 1, last)
    BY <1>1 DEF w
  <2>4. served' \in Seq(P!Blocks) /\ Len(served') = IF resumed < last THEN last - resumed ELSE 0
    BY <1>2, <1>3, <2>2, <2>3
  <2>5. ASSUME NEW i \in 1 .. Len(served') PROVE served'[i] = <<remote, resumed + i>>
    <3>1. i \in Nat /\ 1 <= i /\ i <= last - resumed /\ resumed + i \in 1 .. Sizes[remote]
      BY <1>2, <1>3, <2>4
    <3>2. i \in 1 .. ((last - (resumed + 1)) + 1) /\ ((resumed + 1) + i) - 1 = resumed + i
      BY <1>2, <1>3, <3>1
    <3>3. served'[i] = w[resumed + i]
      BY <2>2, <2>3, <3>2
    <3> QED
      BY <1>6, <3>1, <3>3 DEF w
  <2> QED
    BY <1>2, <1>3, <2>4, <2>5
<1>8. PullTypes'
  BY <1>1, <1>2, <1>5, <1>7 DEF PullInv, PullTypes
<1>9. ASSUME ~disturbed PROVE Undisturbed'
  <2>1. /\ dest = NoFile \/ \E v \in P!Versions : Whole(dest, v)
        /\ ident = remote /\ stamp = ident /\ Begins(P!Data(part), ident)
        /\ P!Length(part) = resumed
    BY <1>1, <1>9 DEF PullInv, Undisturbed
  <2>2. Continues'
    <3>1. Len(part') = resumed /\ Len(buffer') = 0
      BY <1>1, <1>2, <1>4, <2>1
    <3>2. resumed + Len(served') <= Sizes[ident] /\ Len(served') \in Nat
      BY <1>1, <1>2, <1>3, <1>7, <2>1
    <3>3. \A i \in 1 .. Len(served') : served'[i] = <<ident, resumed + i>>
      BY <1>7, <2>1
    <3>4. (Len(part') + Len(buffer')) = resumed
      BY <1>2, <3>1
    <3>5. \A i \in 1 .. Len(buffer') : buffer'[i] = <<ident', Len(part') + i>>
      BY <3>1
    <3>6. /\ (Len(part') + Len(buffer')) + Len(served') <= Sizes[ident']
          /\ \A i \in 1 .. Len(served') : served'[i] = <<ident', (Len(part') + Len(buffer')) + i>>
      BY <1>1, <3>2, <3>3, <3>4
    <3> QED
      BY <3>5, <3>6 DEF Continues
  <2> QED
    BY <1>1, <1>5, <2>1, <2>2 DEF Undisturbed
<1> QED
  BY <1>1, <1>8, <1>9 DEF PullInv

\* A running stream has its partial file, and what it still has to write.
LEMMA StreamIs ==
  ASSUME PullInv, pc = "streaming"
  PROVE  /\ part \in Seq(P!Blocks) /\ part # NoFile /\ P!Data(part) = part
         /\ P!Length(part) = Len(part) /\ Len(part) \in Nat
         /\ buffer \in Seq(P!Blocks) /\ Len(buffer) \in Nat
         /\ served \in Seq(P!Blocks) /\ Len(served) \in Nat
         /\ synced \in [dest : Nat, part : Nat] /\ synced.part <= Len(part)
         /\ ident \in P!Versions /\ Sizes[ident] \in Nat \ {0}
         /\ ~disturbed => stamp = ident /\ ident = remote /\ Begins(part, ident) /\ Continues
<1>1. /\ part \in Seq(P!Blocks) /\ part # NoFile
      /\ buffer \in Seq(P!Blocks) /\ served \in Seq(P!Blocks)
      /\ synced \in [dest : Nat, part : Nat] /\ synced.part <= P!Length(part)
      /\ ident \in P!Versions
  BY SizesAre DEF PullInv, PullTypes, MaybeFile
<1>2. /\ P!Data(part) = part /\ P!Length(part) = Len(part)
      /\ Len(part) \in Nat /\ Len(buffer) \in Nat /\ Len(served) \in Nat
  BY <1>1 DEF P!Data, P!Length
<1>3. Sizes[ident] \in Nat \ {0}
  BY <1>1, SizesAre
<1>4. ~disturbed => stamp = ident /\ ident = remote /\ Begins(part, ident) /\ Continues
  BY <1>1, <1>2 DEF PullInv, Undisturbed
<1> QED
  BY <1>1, <1>2, <1>3, <1>4

\* A file that begins as a version does, with the blocks that come next.
LEMMA Extended ==
  ASSUME NEW f \in Seq(P!Blocks), NEW g \in Seq(P!Blocks), NEW v \in P!Versions
  PROVE  /\ f \o g \in Seq(P!Blocks) /\ Len(f \o g) = Len(f) + Len(g)
         /\ Begins(f, v) /\ Len(f) + Len(g) <= Sizes[v]
              /\ (\A i \in 1 .. Len(g) : g[i] = <<v, Len(f) + i>>) => Begins(f \o g, v)
<1>1. /\ f \o g \in Seq(P!Blocks) /\ Len(f \o g) = Len(f) + Len(g)
      /\ Len(f) \in Nat /\ Len(g) \in Nat
      /\ \A i \in 1 .. Len(f) + Len(g) :
           (f \o g)[i] = IF i <= Len(f) THEN f[i] ELSE g[i - Len(f)]
  BY ConcatProperties
<1>2. ASSUME Begins(f, v), Len(f) + Len(g) <= Sizes[v],
             \A i \in 1 .. Len(g) : g[i] = <<v, Len(f) + i>>,
             NEW i \in 1 .. Len(f \o g)
      PROVE  (f \o g)[i] = <<v, i>>
  <2>1. CASE i <= Len(f)
    BY <1>1, <1>2, <2>1 DEF Begins
  <2>2. CASE i > Len(f)
    <3>1. i - Len(f) \in 1 .. Len(g) /\ Len(f) + (i - Len(f)) = i
      BY <1>1, <2>2
    <3>2. g[i - Len(f)] = <<v, i>>
      BY <1>2, <3>1
    <3> QED
      BY <1>1, <1>2, <2>2, <3>2
  <2> QED
    BY <1>1, <2>1, <2>2
<1> QED
  BY <1>1, <1>2 DEF Begins

\* A block arrives.
LEMMA ReceiveKeeps == PullInv /\ P!Receive => PullInv'
<1> SUFFICES ASSUME PullInv, P!Receive PROVE PullInv'
  OBVIOUS
<1>1. /\ pc = "streaming" /\ served # <<>> /\ served' = Tail(served)
      /\ buffer' = Append(buffer, Head(served))
      /\ UNCHANGED <<remote, dest, part, stamp, synced, pc, force, ident, resumed, disturbed>>
  BY DEF P!Receive, P!files
<1>2. /\ part \in Seq(P!Blocks) /\ Len(part) \in Nat
      /\ buffer \in Seq(P!Blocks) /\ Len(buffer) \in Nat
      /\ served \in Seq(P!Blocks) /\ Len(served) \in Nat /\ Sizes[ident] \in Nat
      /\ ~disturbed => Continues
  BY <1>1, StreamIs
<1>3. /\ Head(served) \in P!Blocks /\ Head(served) = served[1] /\ served' \in Seq(P!Blocks)
      /\ Len(served') = Len(served) - 1 /\ Len(served) > 0
      /\ \A i \in 1 .. Len(served') : served'[i] = served[i + 1]
  BY <1>1, <1>2, HeadTailProperties, EmptySeq
<1>4. /\ buffer' \in Seq(P!Blocks) /\ Len(buffer') = Len(buffer) + 1
      /\ \A i \in 1 .. Len(buffer) : buffer'[i] = buffer[i]
      /\ buffer'[Len(buffer) + 1] = served[1]
  BY <1>1, <1>2, <1>3, AppendProperties
<1>5. PullTypes'
  BY <1>1, <1>3, <1>4 DEF PullInv, PullTypes
<1>6. ASSUME ~disturbed PROVE Continues'
  <2> DEFINE n == Len(part)
             m == Len(buffer)
             k == Len(served)
  <2>1. /\ n \in Nat /\ m \in Nat /\ k \in Nat /\ k > 0
        /\ Len(part') = n /\ Len(buffer') = m + 1 /\ Len(served') = k - 1
    BY <1>1, <1>2, <1>3, <1>4
  <2>2. /\ (n + m) + k <= Sizes[ident]
        /\ \A i \in 1 .. m : buffer[i] = <<ident, n + i>>
        /\ \A i \in 1 .. k : served[i] = <<ident, (n + m) + i>>
    BY <1>2, <1>6 DEF Continues
  <2> HIDE DEF n, m, k
  <2>3. (n + (m + 1)) + (k - 1) <= Sizes[ident]
    BY <1>2, <2>1, <2>2
  <2>4. ASSUME NEW i \in 1 .. (m + 1) PROVE buffer'[i] = <<ident, n + i>>
    <3>1. CASE i \in 1 .. m
      BY <1>4, <2>2, <3>1 DEF m
    <3>2. CASE i = m + 1
      <4>1. served[1] = <<ident, (n + m) + 1>> /\ (n + m) + 1 = n + (m + 1)
        BY <2>1, <2>2
      <4> QED
        BY <1>4, <3>2, <4>1 DEF m
    <3> QED
      BY <2>1, <3>1, <3>2
  <2>5. ASSUME NEW i \in 1 .. (k - 1) PROVE served'[i] = <<ident, (n + (m + 1)) + i>>
    <3>1. i + 1 \in 1 .. k /\ (n + m) + (i + 1) = (n + (m + 1)) + i
      BY <2>1
    <3>2. served[i + 1] = <<ident, (n + (m + 1)) + i>>
      BY <2>2, <3>1
    <3> QED
      BY <1>3, <2>1, <3>2
  <2>6. ident' = ident
    BY <1>1
  <2> QED
    BY <2>1, <2>3, <2>4, <2>5, <2>6 DEF Continues
<1>7. ~disturbed' => Undisturbed'
  BY <1>1, <1>6 DEF PullInv, Undisturbed
<1> QED
  BY <1>5, <1>7 DEF PullInv

\* The buffer is written at the end of the file.
LEMMA WriteKeeps == PullInv /\ P!Write => PullInv'
<1> SUFFICES ASSUME PullInv, P!Write PROVE PullInv'
  OBVIOUS
<1>1. /\ pc = "streaming" /\ part' = part \o buffer /\ buffer' = <<>>
      /\ UNCHANGED <<remote, dest, stamp, synced, pc, force, ident, resumed, served, disturbed>>
  BY DEF P!Write
<1>2. /\ part \in Seq(P!Blocks) /\ Len(part) \in Nat
      /\ buffer \in Seq(P!Blocks) /\ Len(buffer) \in Nat
      /\ served \in Seq(P!Blocks) /\ Len(served) \in Nat
      /\ ident \in P!Versions /\ Sizes[ident] \in Nat /\ synced.part <= Len(part)
      /\ synced \in [dest : Nat, part : Nat]
      /\ ~disturbed => stamp = ident /\ ident = remote /\ Begins(part, ident) /\ Continues
  BY <1>1, StreamIs
<1>3. part' \in Seq(P!Blocks) /\ Len(part') = Len(part) + Len(buffer)
  BY <1>1, <1>2, Extended
<1>4. /\ part' \in MaybeFile /\ part' # NoFile /\ P!Data(part)' = part'
      /\ P!Length(part)' = Len(part') /\ synced.part <= Len(part')
  BY <1>2, <1>3, SizesAre DEF MaybeFile, P!Data, P!Length
<1>5. buffer' \in Seq(P!Blocks) /\ Len(buffer') = 0
  BY <1>1
<1>6. PullTypes'
  BY <1>1, <1>4, <1>5 DEF PullInv, PullTypes
<1>7. ASSUME ~disturbed PROVE Begins(part', ident) /\ Continues'
  <2>1. /\ (Len(part) + Len(buffer)) + Len(served) <= Sizes[ident]
        /\ \A i \in 1 .. Len(buffer) : buffer[i] = <<ident, Len(part) + i>>
        /\ \A i \in 1 .. Len(served) : served[i] = <<ident, (Len(part) + Len(buffer)) + i>>
    BY <1>2, <1>7 DEF Continues
  <2>2. Len(part) + Len(buffer) <= Sizes[ident]
    BY <1>2, <2>1
  <2>3. Begins(part', ident)
    BY <1>1, <1>2, <1>7, <2>1, <2>2, Extended
  <2>4. Len(part') + Len(buffer') = Len(part) + Len(buffer)
    BY <1>2, <1>3, <1>5
  <2>5. /\ (Len(part') + Len(buffer')) + Len(served') <= Sizes[ident']
        /\ \A i \in 1 .. Len(served') : served'[i] = <<ident', (Len(part') + Len(buffer')) + i>>
    BY <1>1, <2>1, <2>4
  <2>6. \A i \in 1 .. Len(buffer') : buffer'[i] = <<ident', Len(part') + i>>
    BY <1>5
  <2> QED
    BY <2>3, <2>5, <2>6 DEF Continues
<1>8. ~disturbed' => Undisturbed'
  BY <1>1, <1>2, <1>4, <1>7 DEF PullInv, Undisturbed
<1> QED
  BY <1>6, <1>8 DEF PullInv

\* The stream ends early.
LEMMA TruncatedKeeps == PullInv /\ P!Truncated => PullInv'
<1> SUFFICES ASSUME PullInv, P!Truncated PROVE PullInv'
  OBVIOUS
<1>1. /\ pc = "streaming" /\ served' = <<>>
      /\ UNCHANGED <<remote, dest, part, stamp, synced, pc, force, ident, resumed, buffer, disturbed>>
  BY DEF P!Truncated, P!files
<1>2. /\ Len(part) \in Nat /\ Len(buffer) \in Nat /\ Len(served) \in Nat /\ Sizes[ident] \in Nat
      /\ ~disturbed => Continues
  BY <1>1, StreamIs
<1>3. served' \in Seq(P!Blocks) /\ Len(served') = 0
  BY <1>1
<1>4. PullTypes'
  BY <1>1, <1>3 DEF PullInv, PullTypes
<1>5. ASSUME ~disturbed PROVE Continues'
  <2>1. (Len(part) + Len(buffer)) + Len(served') <= Sizes[ident]
    BY <1>2, <1>3, <1>5 DEF Continues
  <2>2. \A i \in 1 .. Len(served') : served'[i] = <<ident, (Len(part) + Len(buffer)) + i>>
    BY <1>3
  <2> QED
    BY <1>1, <1>2, <1>5, <2>1, <2>2 DEF Continues
<1>6. ~disturbed' => Undisturbed'
  BY <1>1, <1>5 DEF PullInv, Undisturbed
<1> QED
  BY <1>4, <1>6 DEF PullInv

\* All of it has been written and is on the disk.
LEMMA SyncKeeps == PullInv /\ P!Sync => PullInv'
<1> SUFFICES ASSUME PullInv, P!Sync PROVE PullInv'
  OBVIOUS
<1>1. /\ pc = "streaming" /\ synced' = [synced EXCEPT !.part = Len(part)] /\ pc' = "written"
      /\ served = <<>> /\ buffer = <<>>
      /\ UNCHANGED <<remote, dest, part, stamp, force, ident, resumed, served, buffer, disturbed>>
  BY DEF P!Sync
<1>2. /\ Len(part) \in Nat /\ P!Length(part) = Len(part)
      /\ synced \in [dest : Nat, part : Nat] /\ synced.dest <= P!Length(dest)
  BY <1>1, StreamIs DEF PullInv, PullTypes
<1>3. synced' \in [dest : Nat, part : Nat] /\ synced'.dest = synced.dest /\ synced'.part = Len(part)
  BY <1>1, <1>2
<1>4. synced'.dest <= P!Length(dest) /\ synced'.part <= P!Length(part)
  BY <1>2, <1>3
<1>5. PullTypes'
  BY <1>1, <1>3, <1>4 DEF PullInv, PullTypes
<1>6. ~disturbed' => Undisturbed'
  BY <1>1 DEF PullInv, Undisturbed
<1> QED
  BY <1>5, <1>6 DEF PullInv

\* The whole file gets its name.
LEMMA RenameKeeps == PullInv /\ P!Rename => PullInv'
<1> SUFFICES ASSUME PullInv, P!Rename PROVE PullInv'
  OBVIOUS
<1>1. /\ pc = "written" /\ P!Length(part) = Sizes[ident]
      /\ dest' = part /\ part' = NoFile
      /\ synced' = [dest |-> synced.part, part |-> 0] /\ pc' = "renamed"
      /\ UNCHANGED <<remote, stamp, force, ident, resumed, served, buffer, disturbed>>
  BY DEF P!Rename, P!Renamed, P!Total
<1>2. /\ part \in MaybeFile /\ ident \in P!Versions /\ Sizes[ident] \in Nat \ {0}
      /\ synced \in [dest : Nat, part : Nat] /\ synced.part <= P!Length(part)
  BY SizesAre DEF PullInv, PullTypes
<1>3. part # NoFile /\ P!Data(part) = part /\ P!Length(part) = Len(part)
  <2>1. part # NoFile
    BY <1>1, <1>2 DEF P!Length
  <2> QED
    BY <2>1 DEF P!Data, P!Length
<1>4. NoFile \in MaybeFile /\ P!Length(NoFile) = 0 /\ P!Data(NoFile) = <<>>
  BY DEF MaybeFile, P!Length, P!Data
<1>5. /\ synced' \in [dest : Nat, part : Nat]
      /\ synced'.dest <= P!Length(dest)' /\ synced'.part <= P!Length(part)'
  BY <1>1, <1>2, <1>4
<1>6. dest' \in MaybeFile /\ part' \in MaybeFile
  BY <1>1, <1>2, <1>4
<1>7. PullTypes'
  BY <1>1, <1>5, <1>6 DEF PullInv, PullTypes
<1>8. ASSUME ~disturbed PROVE Undisturbed'
  <2>1. stamp = ident /\ ident = remote /\ Begins(P!Data(part), ident)
    BY <1>1, <1>2, <1>8 DEF PullInv, Undisturbed
  <2>2. Whole(dest', ident)
    BY <1>1, <1>3, <2>1 DEF Whole
  <2>3. Begins(P!Data(part)', stamp)
    BY <1>1, <1>2, <1>4, <2>1 DEF Begins
  <2> QED
    BY <1>1, <1>2, <2>1, <2>2, <2>3 DEF Undisturbed
<1> QED
  BY <1>1, <1>7, <1>8 DEF PullInv

\* A partial file of another size is left for the next call.
LEMMA SizeMismatchKeeps == PullInv /\ P!SizeMismatch => PullInv'
BY CallEnds DEF P!SizeMismatch, P!files

\* The stamp goes, and the call is done.
LEMMA UnstampKeeps == PullInv /\ P!Unstamp => PullInv'
BY CallEnds DEF P!Unstamp

\* The call fails or is killed: some of its buffer is still written.
LEMMA FailKeeps == PullInv /\ P!Fail => PullInv'
<1> SUFFICES ASSUME PullInv, P!Fail PROVE PullInv'
  OBVIOUS
<1>1. PICK k \in 0 .. Len(buffer) : part' = IF k = 0 THEN part ELSE part \o SubSeq(buffer, 1, k)
  BY DEF P!Fail
<1>2. P!Leave /\ UNCHANGED <<remote, dest, stamp, synced, disturbed>>
  BY DEF P!Fail
<1>3. CASE k = 0
  BY <1>1, <1>2, <1>3, CallEnds
<1>4. CASE k # 0
  <2>1. pc = "streaming"
    <3>1. buffer # <<>>
      BY <1>1, <1>4
    <3> QED
      BY <3>1 DEF PullInv, PullTypes
  <2>2. /\ part \in Seq(P!Blocks) /\ Len(part) \in Nat
        /\ buffer \in Seq(P!Blocks) /\ Len(buffer) \in Nat /\ Len(served) \in Nat
        /\ synced.part <= Len(part) /\ synced \in [dest : Nat, part : Nat]
        /\ ident \in P!Versions /\ Sizes[ident] \in Nat
        /\ ~disturbed => stamp = ident /\ Begins(part, ident) /\ Continues
    BY <2>1, StreamIs
  <2> DEFINE g == SubSeq(buffer, 1, k)
  <2>3. k \in Nat /\ k <= Len(buffer)
    BY <1>1, <2>2
  <2>4. g \in Seq(P!Blocks) /\ Len(g) = k /\ \A i \in 1 .. k : g[i] = buffer[i]
    <3>1. \A i \in 1 .. k : buffer[i] \in P!Blocks
      BY <2>2, <2>3
    <3>2. k \in Int /\ 1 \in Int /\ 1 <= k
      BY <1>4, <2>3
    <3>3. /\ g \in Seq(P!Blocks) /\ Len(g) = (IF 1 <= k THEN k - 1 + 1 ELSE 0)
          /\ \A i \in 1 .. k - 1 + 1 : g[i] = buffer[1 + i - 1]
      BY <3>1, <3>2, SubSeqProperties
    <3>4. k - 1 + 1 = k /\ \A i \in 1 .. k : 1 + i - 1 = i
      BY <2>3
    <3> QED
      BY <3>2, <3>3, <3>4
  <2>5. part' = part \o g
    BY <1>1, <1>4
  <2> HIDE DEF g
  <2>6. part' \in Seq(P!Blocks) /\ Len(part') = Len(part) + Len(g)
    BY <2>2, <2>4, <2>5, Extended
  <2>7. /\ part' \in MaybeFile /\ P!Data(part)' = part'
        /\ P!Length(part)' = Len(part') /\ synced.part <= Len(part')
    BY <2>2, <2>3, <2>4, <2>6, SizesAre DEF MaybeFile, P!Data, P!Length
  <2>8. /\ pc' = "idle" /\ force' = FALSE /\ ident' = 1 /\ resumed' = 0
        /\ served' = <<>> /\ buffer' = <<>>
    BY <1>2 DEF P!Leave
  <2>9. PullTypes'
    <3>1. ident' \in P!Versions /\ resumed' \in Nat /\ resumed' <= Sizes[ident']
      BY <2>8, SizesAre
    <3>2. served' \in Seq(P!Blocks) /\ buffer' \in Seq(P!Blocks)
      BY <2>8
    <3>3. synced' \in [dest : Nat, part : Nat] /\ synced'.dest <= P!Length(dest)'
      BY <1>2 DEF PullInv, PullTypes
    <3>4. synced'.part <= P!Length(part)'
      BY <1>2, <2>7
    <3>5. remote' \in P!Versions /\ dest' \in MaybeFile /\ stamp' \in P!Versions \cup {NoFile, Torn}
      BY <1>2 DEF PullInv, PullTypes
    <3>6. /\ disturbed' \in BOOLEAN /\ force' \in BOOLEAN /\ pc' # "streaming" /\ resumed' = 0
          /\ pc' \in {"idle", "looked", "prepared", "stamped", "streaming", "written", "renamed"}
      BY <1>2, <2>8 DEF PullInv, PullTypes
    <3> QED
      BY <2>7, <2>8, <3>1, <3>2, <3>3, <3>4, <3>5, <3>6, Zenon DEF PullTypes
  <2>10. ASSUME ~disturbed PROVE Begins(part', stamp)
    <3>1. /\ (Len(part) + Len(buffer)) + Len(served) <= Sizes[ident]
          /\ \A i \in 1 .. Len(buffer) : buffer[i] = <<ident, Len(part) + i>>
      BY <2>2, <2>10 DEF Continues
    <3>2. Len(part) + Len(g) <= Sizes[ident]
      <4>1. /\ Len(part) \in Nat /\ Len(buffer) \in Nat /\ Len(served) \in Nat
            /\ Sizes[ident] \in Nat /\ Len(g) = k
        BY <2>2, <2>4, Zenon
      <4>2. (Len(part) + Len(buffer)) + Len(served) <= Sizes[ident]
        BY <3>1, Zenon
      <4> QED
        BY <2>3, <4>1, <4>2
    <3>3. ASSUME NEW i \in 1 .. k PROVE i \in 1 .. Len(buffer)
      <4>1. Len(buffer) \in Nat
        BY <2>2, Zenon
      <4> QED
        BY <2>3, <3>3, <4>1
    <3>4. \A i \in 1 .. k : g[i] = <<ident, Len(part) + i>>
      BY <2>4, <3>1, <3>3, Zenon
    <3>5. \A i \in 1 .. Len(g) : g[i] = <<ident, Len(part) + i>>
      BY <2>4, <3>4, Zenon
    <3> QED
      BY <2>2, <2>4, <2>5, <2>10, <3>2, <3>5, Extended
  <2>11. ~disturbed' => Undisturbed'
    BY <1>2, <2>7, <2>8, <2>10 DEF PullInv, Undisturbed
  <2> QED
    BY <2>9, <2>11 DEF PullInv
<1> QED
  BY <1>3, <1>4

\* What comes back of a file after a power loss is as long as it was.
LEMMA SpoiledIs ==
  ASSUME NEW f \in Seq(P!Blocks), NEW k, NEW h \in P!Spoiled(f, k)
  PROVE  h \in Seq(P!Blocks) /\ Len(h) = Len(f)
<1>1. f # NoFile /\ P!Data(f) = f /\ P!Length(f) = Len(f) /\ Len(f) \in Nat /\ DOMAIN f = 1 .. Len(f)
  BY SizesAre DEF P!Data, P!Length
<1>2. PICK j : h = [i \in DOMAIN f |-> IF i <= j THEN f[i] ELSE Zero]
  BY <1>1 DEF P!Spoiled
<1>3. Zero \in P!Blocks
  BY DEF P!Blocks
<1>4. \A i \in 1 .. Len(f) : h[i] \in P!Blocks
  BY <1>1, <1>2, <1>3
<1>5. DOMAIN h = 1 .. Len(f) /\ h = [i \in 1 .. Len(f) |-> h[i]]
  BY <1>1, <1>2
<1> QED
  BY <1>1, <1>4, <1>5

\* The power goes: what was not on the disk may come back as zeroes.
LEMMA PowerLossKeeps == PullInv /\ P!PowerLoss => PullInv'
<1> SUFFICES ASSUME PullInv, P!PowerLoss PROVE PullInv'
  OBVIOUS
<1>1. /\ IF dest = NoFile THEN UNCHANGED dest ELSE dest' \in P!Spoiled(dest, synced.dest)
      /\ IF part = NoFile THEN UNCHANGED part ELSE part' \in P!Spoiled(part, synced.part)
      /\ synced' = [dest |-> P!Length(dest), part |-> P!Length(part)]
      /\ disturbed' = TRUE /\ UNCHANGED <<remote, stamp>>
  BY DEF P!PowerLoss
<1>2. /\ pc' = "idle" /\ force' = FALSE /\ ident' = 1 /\ resumed' = 0
      /\ served' = <<>> /\ buffer' = <<>>
  BY DEF P!PowerLoss, P!Leave
<1>3. ASSUME NEW f \in MaybeFile, NEW k, NEW h,
             IF f = NoFile THEN h = f ELSE h \in P!Spoiled(f, k)
      PROVE  h \in MaybeFile /\ P!Length(h) = P!Length(f) /\ P!Length(f) \in Nat
  <2>1. CASE f = NoFile
    BY <1>3, <2>1 DEF P!Length
  <2>2. CASE f # NoFile
    <3>1. f \in Seq(P!Blocks) /\ h \in P!Spoiled(f, k)
      BY <1>3, <2>2 DEF MaybeFile
    <3>2. h \in Seq(P!Blocks) /\ Len(h) = Len(f) /\ Len(f) \in Nat
      BY <3>1, SpoiledIs
    <3>3. h # NoFile
      BY <3>2, SizesAre
    <3> QED
      BY <2>2, <3>2, <3>3 DEF MaybeFile, P!Length
  <2> QED
    BY <2>1, <2>2
<1>4. dest \in MaybeFile /\ part \in MaybeFile
  BY DEF PullInv, PullTypes
<1>5. /\ dest' \in MaybeFile /\ P!Length(dest') = P!Length(dest) /\ P!Length(dest) \in Nat
      /\ part' \in MaybeFile /\ P!Length(part') = P!Length(part) /\ P!Length(part) \in Nat
  BY <1>1, <1>3, <1>4
<1>6. /\ synced' \in [dest : Nat, part : Nat]
      /\ synced'.dest <= P!Length(dest)' /\ synced'.part <= P!Length(part)'
  BY <1>1, <1>5
<1>7. ident' \in P!Versions /\ resumed' \in Nat /\ resumed' <= Sizes[ident']
      /\ served' \in Seq(P!Blocks) /\ buffer' \in Seq(P!Blocks)
  BY <1>2, SizesAre
<1>8. PullTypes'
  <2>1. remote' \in P!Versions /\ stamp' \in P!Versions \cup {NoFile, Torn}
    BY <1>1 DEF PullInv, PullTypes
  <2>2. /\ disturbed' \in BOOLEAN /\ force' \in BOOLEAN /\ pc' # "streaming" /\ resumed' = 0
        /\ pc' \in {"idle", "looked", "prepared", "stamped", "streaming", "written", "renamed"}
    BY <1>1, <1>2
  <2>3. dest' \in MaybeFile /\ part' \in MaybeFile
    BY <1>5
  <2> QED
    BY <1>2, <1>6, <1>7, <2>1, <2>2, <2>3, Zenon DEF PullTypes
<1> QED
  BY <1>1, <1>8 DEF PullInv

\* The Hub has another version.
LEMMA PublishKeeps == PullInv /\ P!Publish => PullInv'
<1> SUFFICES ASSUME PullInv, P!Publish PROVE PullInv'
  OBVIOUS
<1>1. /\ remote' \in P!Versions /\ disturbed' = (disturbed \/ pc # "idle")
      /\ UNCHANGED <<dest, part, stamp, synced, pc, force, ident, resumed, served, buffer>>
  BY DEF P!Publish, P!files, P!call
<1>2. PullTypes'
  BY <1>1 DEF PullInv, PullTypes
<1>3. ~disturbed' => ~disturbed /\ pc = "idle"
  BY <1>1 DEF PullInv, PullTypes
<1>4. ~disturbed' => Undisturbed'
  BY <1>1, <1>3 DEF PullInv, Undisturbed
<1> QED
  BY <1>2, <1>4 DEF PullInv

\* Every step of every command.
LEMMA StepKeepsPull == PullInv /\ [CliNext]_cliVars => PullInv'
<1> SUFFICES ASSUME PullInv, [CliNext]_cliVars PROVE PullInv'
  OBVIOUS
<1>1. CASE UNCHANGED pull
  <2>1. UNCHANGED <<remote, dest, part, stamp, synced, pc, force, ident, resumed, served, buffer,
                    disturbed>>
    BY <1>1 DEF pull
  <2>2. PullTypes'
    BY <2>1 DEF PullInv, PullTypes
  <2>3. ~disturbed' => Undisturbed'
    BY <2>1 DEF PullInv, Undisturbed, Continues
  <2> QED
    BY <2>2, <2>3 DEF PullInv
<1>2. CASE P!Next
  BY <1>2, LookUpKeeps, AlreadyThereKeeps, PrepareKeeps, StampKeeps, OpenStreamKeeps,
     RangeRefusedKeeps, ReceiveKeeps, WriteKeeps, SyncKeeps, RenameKeeps, SizeMismatchKeeps,
     UnstampKeeps, StampTornKeeps, TruncatedKeeps, FailKeeps, PowerLossKeeps, PublishKeeps
     DEF P!Next, P!PullStep
<1> QED
  BY <1>1, <1>2 DEF CliNext, cliVars

\* What the invariant says of the files.
LEMMA PullIsWhole == PullInv => DownloadIsWhole
<1> SUFFICES ASSUME PullInv PROVE P!TypeOK /\ P!DestIsWholeUndisturbed /\ P!PartIsPrefix
  BY DEF DownloadIsWhole
<1>1. P!TypeOK
  <2>1. \A f \in MaybeFile : f = NoFile \/ \A i \in DOMAIN f : f[i] \in P!Blocks
    BY DEF MaybeFile
  <2>2. resumed \in 0 .. Sizes[ident]
    <3>1. resumed \in Nat /\ resumed <= Sizes[ident] /\ Sizes[ident] \in Nat
      BY SizesAre DEF PullInv, PullTypes
    <3> QED
      BY <3>1
  <2> QED
    BY <2>1, <2>2 DEF PullInv, PullTypes, P!TypeOK, P!Total
<1>2. ASSUME ~disturbed, dest # NoFile PROVE \E v \in P!Versions : dest = P!Content(v)
  <2>1. PICK v \in P!Versions : Whole(dest, v)
    BY <1>2 DEF PullInv, Undisturbed
  <2>2. dest \in Seq(P!Blocks)
    BY <1>2 DEF PullInv, PullTypes, MaybeFile
  <2>3. /\ P!Content(v) \in Seq(P!Blocks) /\ Len(P!Content(v)) = Sizes[v]
        /\ \A i \in 1 .. Sizes[v] : P!Content(v)[i] = <<v, i>>
    BY ContentIs
  <2>4. Len(dest) = Len(P!Content(v)) /\ \A i \in 1 .. Len(dest) : dest[i] = P!Content(v)[i]
    BY <2>1, <2>3 DEF Whole, Begins
  <2>5. dest = P!Content(v)
    BY <2>2, <2>3, <2>4, SeqEqual
  <2> QED
    BY <2>5
<1>3. ASSUME ~disturbed, stamp \in P!Versions
      PROVE  \E n \in 0 .. Sizes[stamp] : P!Data(part) = SubSeq(P!Content(stamp), 1, n)
  <2> DEFINE f == P!Data(part)
             w == P!Content(stamp)
  <2>1. Begins(f, stamp)
    BY <1>3 DEF PullInv, Undisturbed
  <2>2. f \in Seq(P!Blocks) /\ Len(f) \in Nat
    BY DataOf DEF PullInv, PullTypes
  <2>3. /\ w \in Seq(P!Blocks) /\ Len(w) = Sizes[stamp] /\ Len(w) \in Nat
        /\ \A i \in 1 .. Sizes[stamp] : w[i] = <<stamp, i>>
    BY <1>3, ContentIs
  <2> HIDE DEF f, w
  <2>4. Len(f) <= Len(w) /\ \A i \in 1 .. Len(f) : f[i] = w[i]
    <3>1. Len(f) <= Sizes[stamp] /\ \A i \in 1 .. Len(f) : f[i] = <<stamp, i>>
      BY <2>1, Zenon DEF Begins
    <3>2. Len(w) = Sizes[stamp] /\ Len(w) \in Nat /\ \A i \in 1 .. Len(w) : w[i] = <<stamp, i>>
      BY <2>3
    <3>3. Len(f) <= Len(w)
      BY <3>1, <3>2, Zenon
    <3>4. ASSUME NEW i \in 1 .. Len(f) PROVE i \in 1 .. Len(w)
      BY <2>2, <3>2, <3>3, <3>4
    <3>5. \A i \in 1 .. Len(f) : f[i] = w[i]
      BY <3>1, <3>2, <3>4, Zenon
    <3> QED
      BY <3>3, <3>5
  <2>5. f = SubSeq(w, 1, Len(f)) /\ Len(f) \in 0 .. Sizes[stamp]
    BY <2>2, <2>3, <2>4
  <2> QED
    BY <2>5 DEF f, w
<1> QED
  BY <1>1, <1>2, <1>3 DEF P!DestIsWholeUndisturbed, P!DestIsWhole, P!PartIsPrefix

\* Undisturbed by a publication in the middle of a call and by a power loss, a file under its
\* final name is one version of the Hub, whole, and a partial file is a prefix of the version its
\* stamp names, whichever calls fail or are killed and however often.
THEOREM DownloadIsWholeHolds == CliSpec => []DownloadIsWhole
<1>1. CliInit => PullInv
  BY PullBegins DEF CliInit, NoPull
<1>2. PullInv /\ [CliNext]_cliVars => PullInv'
  BY StepKeepsPull
<1>3. PullInv => DownloadIsWhole
  BY PullIsWhole
<1> QED
  BY <1>1, <1>2, <1>3, PTL DEF CliSpec

-----------------------------------------------------------------------------
(* serve: where the lines of the child's log come from.                    *)

\* What the child may write.
Lines ==
  {[kind |-> "row", row |-> table[i]] : i \in DOMAIN table}
    \cup {[kind |-> k] : k \in {"noise", "torn"}}

\* Where the supervisor and the child may be.
Sups == {"planned", "spawning", "draining", "checking", "probing", "serving", "dropping",
         "ended", "dead"}
Children == S!Alive \cup {"none", "zombie", "gone"}

\* What the variables of serve hold.
SupTypes ==
  /\ listed \in Lists /\ table \in Lists /\ rows \in Nat
  /\ pipe \in Seq(Lines) /\ chan \in Seq(Lines)
  /\ seen \in Seq({table[i] : i \in DOMAIN table})
  /\ confirmed \in BOOLEAN
  /\ sup \in Sups /\ child \in Children

\* The inductive invariant of serve: every row the supervisor has taken is one the child wrote,
\* and a confirmed device is among them with the name of the planned one.
SupInv ==
  /\ SupTypes
  /\ confirmed => \E i \in DOMAIN seen : seen[i].id = S!Pin
  /\ S!PinIsNamed

\* A list of devices is a list.
LEMMA TableIs ==
  ASSUME table \in Lists
  PROVE  Len(table) \in Nat /\ DOMAIN table = 1 .. Len(table)
<1>1. table \in Seq(S!Range(table))
  BY CliAssumption DEF S!SupAssumption
<1> QED
  BY <1>1

\* A step that neither writes nor reads the log, nor confirms.
LEMMA OtherStepKeeps ==
  ASSUME SupInv, UNCHANGED <<listed, table, rows, pipe, chan, seen, confirmed>>,
         sup' \in Sups, child' \in Children
  PROVE  SupInv'
<1>1. SupTypes'
  BY DEF SupInv, SupTypes, Lines, Sups, Children, S!Alive
<1>2. S!Pin' = S!Pin
  BY DEF S!Pin
<1>3. (confirmed => \E i \in DOMAIN seen : seen[i].id = S!Pin)'
  BY <1>2 DEF SupInv
<1>4. S!PinIsNamed'
  BY <1>2 DEF SupInv, S!PinIsNamed
<1> QED
  BY <1>1, <1>3, <1>4 DEF SupInv

\* A step that moves lines along: none is confirmed by it.
LEMMA LogStepKeeps ==
  ASSUME SupInv, UNCHANGED <<listed, table, confirmed, seen>>,
         rows' \in Nat, pipe' \in Seq(Lines), chan' \in Seq(Lines),
         sup' \in Sups, child' \in Children
  PROVE  SupInv'
<1>1. Lines' = Lines
  BY DEF Lines
<1>2. SupTypes'
  BY <1>1 DEF SupInv, SupTypes, Sups, Children, S!Alive
<1>3. S!Pin' = S!Pin
  BY DEF S!Pin
<1>4. (confirmed => \E i \in DOMAIN seen : seen[i].id = S!Pin)'
  BY <1>3 DEF SupInv
<1>5. S!PinIsNamed'
  BY <1>3 DEF SupInv, S!PinIsNamed
<1> QED
  BY <1>2, <1>4, <1>5 DEF SupInv

\* A line the child writes is in the pipe, or lost with its reader.
LEMMA WrittenIs ==
  ASSUME SupInv, NEW line \in Lines, S!Writes(line)
  PROVE  pipe' \in Seq(Lines) /\ child' \in Children
<1>1. pipe \in Seq(Lines) /\ child \in Children
  BY DEF SupInv, SupTypes, Children
<1>2. S!Corpse \in Children
  BY DEF S!Corpse, Children
<1>3. CASE pipe' = Append(pipe, line) /\ UNCHANGED child
  BY <1>1, <1>3
<1>4. CASE UNCHANGED pipe /\ child' \in {child, S!Corpse}
  BY <1>1, <1>2, <1>4
<1> QED
  BY <1>3, <1>4 DEF S!Writes

\* The child writes a row of its table.
LEMMA PrintRowKeeps == SupInv /\ S!PrintRow => SupInv'
<1> SUFFICES ASSUME SupInv, S!PrintRow PROVE SupInv'
  OBVIOUS
<1>1. /\ rows < Len(table) /\ S!Writes([kind |-> "row", row |-> table[rows + 1]])
      /\ rows' = rows + 1 /\ UNCHANGED <<sup, listed, table, chan, seen, confirmed>>
  BY DEF S!PrintRow
<1>2. table \in Lists /\ rows \in Nat /\ chan \in Seq(Lines) /\ sup \in Sups
  BY DEF SupInv, SupTypes, Sups
<1>3. rows + 1 \in DOMAIN table /\ rows' \in Nat
  BY <1>1, <1>2, TableIs
<1>4. [kind |-> "row", row |-> table[rows + 1]] \in Lines
  BY <1>3 DEF Lines
<1>5. pipe' \in Seq(Lines) /\ child' \in Children
  BY <1>1, <1>4, WrittenIs
<1> QED
  BY <1>1, <1>2, <1>3, <1>5, LogStepKeeps

\* The child writes something else.
LEMMA TalkKeeps == SupInv /\ S!Talk => SupInv'
<1> SUFFICES ASSUME SupInv, S!Talk PROVE SupInv'
  OBVIOUS
<1>1. PICK kind \in {"noise", "torn"} : S!Writes([kind |-> kind])
  BY DEF S!Talk
<1>2. UNCHANGED <<sup, listed, table, rows, chan, seen, confirmed>>
  BY DEF S!Talk
<1>3. [kind |-> kind] \in Lines
  BY DEF Lines
<1>4. pipe' \in Seq(Lines) /\ child' \in Children
  BY <1>1, <1>3, WrittenIs
<1>5. rows \in Nat /\ chan \in Seq(Lines) /\ sup \in Sups
  BY DEF SupInv, SupTypes, Sups
<1> QED
  BY <1>2, <1>4, <1>5, LogStepKeeps

\* The reader passes a line on.
LEMMA ReadLineKeeps == SupInv /\ S!ReadLine => SupInv'
<1> SUFFICES ASSUME SupInv, S!ReadLine PROVE SupInv'
  OBVIOUS
<1>1. /\ pipe # <<>> /\ pipe' = Tail(pipe) /\ (chan' = Append(chan, Head(pipe)) \/ UNCHANGED chan)
      /\ UNCHANGED <<sup, child, listed, table, rows, seen, confirmed>>
  BY DEF S!ReadLine, S!childVars
<1>2. /\ rows \in Nat /\ pipe \in Seq(Lines) /\ chan \in Seq(Lines)
      /\ sup \in Sups /\ child \in Children
  BY DEF SupInv, SupTypes, Sups, Children
<1>3. Tail(pipe) \in Seq(Lines) /\ Head(pipe) \in Lines
  BY <1>1, <1>2
<1>4. pipe' \in Seq(Lines) /\ chan' \in Seq(Lines)
  BY SMTT(30), <1>1, <1>2, <1>3
<1> QED
  BY <1>1, <1>2, <1>4, LogStepKeeps

\* The supervisor takes a line; the first row of an id is kept.
LEMMA TakeLineKeeps == SupInv /\ S!TakeLine => SupInv'
<1> SUFFICES ASSUME SupInv, S!TakeLine PROVE SupInv'
  OBVIOUS
<1>1. /\ chan # <<>> /\ chan' = Tail(chan)
      /\ UNCHANGED <<sup, child, listed, table, rows, pipe, confirmed>>
      /\ \/ seen' = seen
         \/ Head(chan).kind = "row" /\ seen' = Append(seen, Head(chan).row)
  BY DEF S!TakeLine, S!Keep, S!childVars
<1> DEFINE rowsOfTable == {table[i] : i \in DOMAIN table}
<1>2. /\ chan \in Seq(Lines) /\ seen \in Seq(rowsOfTable)
  BY DEF SupInv, SupTypes
<1>3. Tail(chan) \in Seq(Lines) /\ Head(chan) \in Lines
  BY <1>1, <1>2
<1>4. ASSUME Head(chan).kind = "row" PROVE Head(chan).row \in rowsOfTable
  BY <1>3, <1>4 DEF Lines
<1> HIDE DEF rowsOfTable
<1>5. /\ seen' \in Seq(rowsOfTable) /\ DOMAIN seen \subseteq DOMAIN seen'
      /\ \A i \in DOMAIN seen : seen'[i] = seen[i]
  <2>1. CASE seen' = seen
    BY <1>2, <2>1
  <2>2. CASE Head(chan).kind = "row" /\ seen' = Append(seen, Head(chan).row)
    BY <1>2, <1>4, <2>2
  <2> QED
    BY <1>1, <2>1, <2>2
<1>6. Lines' = Lines /\ rowsOfTable' = rowsOfTable /\ S!Pin' = S!Pin
  BY <1>1 DEF Lines, rowsOfTable, S!Pin
<1>7. SupTypes'
  BY <1>1, <1>2, <1>3, <1>5, <1>6 DEF SupInv, SupTypes, S!Alive, rowsOfTable
<1>8. (confirmed => \E i \in DOMAIN seen : seen[i].id = S!Pin)'
  BY <1>1, <1>5, <1>6 DEF SupInv
<1>9. S!PinIsNamed'
  BY <1>1, <1>6 DEF SupInv, S!PinIsNamed
<1> QED
  BY <1>7, <1>8, <1>9 DEF SupInv

\* A confirmed device has been seen, in the child's own words, with the name of the planned one.
LEMMA ConfirmKeeps ==
  ASSUME SupInv, S!Agreed, S!Confirms,
         UNCHANGED <<listed, table, rows, pipe, chan, seen>>, sup' \in Sups, child' \in Children
  PROVE  SupInv'
<1>1. confirmed \in BOOLEAN /\ seen \in Seq({table[i] : i \in DOMAIN table})
  BY DEF SupInv, SupTypes
<1>2. CASE confirmed' = confirmed
  BY <1>2, OtherStepKeeps
<1>3. CASE confirmed' # confirmed
  <2>1. ~confirmed /\ confirmed' = TRUE /\ S!RowsOf(seen, S!Pin) # {} /\ ~S!Disagrees
    BY <1>1, <1>3 DEF S!Confirms, S!Agreed
  <2>2. PICK d \in S!Range(seen) : d.id = S!Pin
    BY <2>1 DEF S!RowsOf
  <2>3. d.name = Wanted.name
    BY <2>1, <2>2 DEF S!Disagrees, S!RowsOf
  <2>4. PICK j \in DOMAIN seen : d = seen[j]
    BY <2>2 DEF S!Range
  <2>5. PICK i \in DOMAIN table : d = table[i]
    BY <1>1, <2>4
  <2>6. S!Pin' = S!Pin /\ Lines' = Lines
    BY DEF S!Pin, Lines
  <2>7. SupTypes'
    BY <2>1, <2>6 DEF SupInv, SupTypes, Sups, Children, S!Alive
  <2>8. (confirmed => \E n \in DOMAIN seen : seen[n].id = S!Pin)'
    BY <2>2, <2>4, <2>6
  <2>9. S!PinIsNamed'
    BY <2>2, <2>3, <2>5, <2>6 DEF S!PinIsNamed
  <2> QED
    BY <2>7, <2>8, <2>9 DEF SupInv
<1> QED
  BY <1>2, <1>3

\* The steps that confirm.
LEMMA CheckKeeps == SupInv /\ (S!Alright \/ S!DiedLoading) => SupInv'
<1> SUFFICES ASSUME SupInv, S!Alright \/ S!DiedLoading PROVE SupInv'
  OBVIOUS
<1>1. /\ S!Agreed /\ S!Confirms /\ UNCHANGED <<listed, table, rows, pipe, chan, seen>>
      /\ sup' \in {"probing", "dropping"} /\ child' \in {child, "gone"}
  <2>1. CASE S!Alright
    BY <2>1 DEF S!Alright, S!childVars, S!logVars
  <2>2. CASE S!DiedLoading
    BY <2>2 DEF S!DiedLoading, S!logVars
  <2> QED
    BY <2>1, <2>2
<1>2. sup' \in Sups /\ child' \in Children
  BY <1>1 DEF SupInv, SupTypes, Sups, Children
<1> QED
  BY <1>1, <1>2, ConfirmKeeps

\* All the others.
LEMMA OthersKeep ==
  ASSUME SupInv,
         \/ S!NoDevice \/ S!Fork \/ S!ForkFails \/ S!Arm \/ S!Exec \/ S!ExecFails \/ S!Progress
         \/ S!Dies \/ S!Sigterm \/ S!ReadEnd \/ S!Spawned \/ S!DrainEnds \/ S!Mismatch
         \/ S!Ready \/ S!NotReady \/ S!TimePasses \/ S!Stopped \/ S!Drop \/ S!Killed
  PROVE  SupInv'
<1> DEFINE Same == UNCHANGED <<listed, table, rows, pipe, chan, seen, confirmed>>
           Places == sup' \in Sups /\ child' \in Children
<1>1. sup \in Sups /\ child \in Children
  BY DEF SupInv, SupTypes
<1>2. CASE S!NoDevice
  <2>1. Same
    BY <1>2 DEF S!NoDevice, S!childVars, S!logVars
  <2>2. Places
    BY <1>1, <1>2 DEF S!NoDevice, S!childVars, S!End, Sups, Children, S!Alive
  <2> QED
    BY <2>1, <2>2, OtherStepKeeps
<1>3. CASE S!Fork
  <2>1. Same
    BY <1>3 DEF S!Fork, S!childVars, S!logVars
  <2>2. Places
    BY <1>1, <1>3 DEF S!Fork, S!childVars, Sups, Children, S!Alive
  <2> QED
    BY <2>1, <2>2, OtherStepKeeps
<1>4. CASE S!ForkFails
  <2>1. Same
    BY <1>4 DEF S!ForkFails, S!childVars, S!logVars
  <2>2. Places
    BY <1>1, <1>4 DEF S!ForkFails, S!childVars, S!End, Sups, Children, S!Alive
  <2> QED
    BY <2>1, <2>2, OtherStepKeeps
<1>5. CASE S!Arm
  <2>1. Same
    BY <1>5 DEF S!Arm, S!childVars, S!logVars
  <2>2. Places
    BY <1>1, <1>5 DEF S!Arm, S!childVars, Sups, Children, S!Alive
  <2> QED
    BY <2>1, <2>2, OtherStepKeeps
<1>6. CASE S!Exec
  <2>1. Same
    BY <1>6 DEF S!Exec, S!childVars, S!logVars
  <2>2. Places
    BY <1>1, <1>6 DEF S!Exec, S!childVars, S!AfterArming, Sups, Children, S!Alive
  <2> QED
    BY <2>1, <2>2, OtherStepKeeps
<1>7. CASE S!ExecFails
  <2>1. Same
    BY <1>7 DEF S!ExecFails, S!childVars, S!logVars
  <2>2. Places
    BY <1>1, <1>7 DEF S!ExecFails, S!childVars, S!End, Sups, Children, S!Alive
  <2> QED
    BY <2>1, <2>2, OtherStepKeeps
<1>8. CASE S!Progress
  <2>1. Same
    BY <1>8 DEF S!Progress, S!childVars, S!logVars
  <2>2. Places
    BY <1>1, <1>8 DEF S!Progress, S!childVars, S!Corpse, Sups, Children, S!Alive
  <2> QED
    BY <2>1, <2>2, OtherStepKeeps
<1>9. CASE S!Dies
  <2>1. Same
    BY <1>9 DEF S!Dies, S!childVars, S!logVars
  <2>2. Places
    BY <1>1, <1>9 DEF S!Dies, S!childVars, S!Corpse, Sups, Children, S!Alive
  <2> QED
    BY <2>1, <2>2, OtherStepKeeps
<1>10. CASE S!Sigterm
  <2>1. Same
    BY <1>10 DEF S!Sigterm, S!childVars, S!logVars
  <2>2. Places
    BY <1>1, <1>10 DEF S!Sigterm, S!childVars, S!Corpse, Sups, Children, S!Alive
  <2> QED
    BY <2>1, <2>2, OtherStepKeeps
<1>11. CASE S!ReadEnd
  <2>1. Same
    BY <1>11 DEF S!ReadEnd, S!childVars, S!logVars
  <2>2. Places
    BY <1>1, <1>11 DEF S!ReadEnd, S!childVars, Sups, Children, S!Alive
  <2> QED
    BY <2>1, <2>2, OtherStepKeeps
<1>12. CASE S!Spawned
  <2>1. Same
    BY <1>12 DEF S!Spawned, S!childVars, S!logVars
  <2>2. Places
    BY <1>1, <1>12 DEF S!Spawned, S!childVars, Sups, Children, S!Alive
  <2> QED
    BY <2>1, <2>2, OtherStepKeeps
<1>13. CASE S!DrainEnds
  <2>1. Same
    BY <1>13 DEF S!DrainEnds, S!childVars, S!logVars
  <2>2. Places
    BY <1>1, <1>13 DEF S!DrainEnds, S!childVars, Sups, Children, S!Alive
  <2> QED
    BY <2>1, <2>2, OtherStepKeeps
<1>14. CASE S!Mismatch
  <2>1. Same
    BY <1>14 DEF S!Mismatch, S!childVars, S!logVars
  <2>2. Places
    BY <1>1, <1>14 DEF S!Mismatch, S!childVars, Sups, Children, S!Alive
  <2> QED
    BY <2>1, <2>2, OtherStepKeeps
<1>15. CASE S!Ready
  <2>1. Same
    BY <1>15 DEF S!Ready, S!childVars, S!logVars
  <2>2. Places
    BY <1>1, <1>15 DEF S!Ready, S!childVars, Sups, Children, S!Alive
  <2> QED
    BY <2>1, <2>2, OtherStepKeeps
<1>16. CASE S!NotReady
  <2>1. Same
    BY <1>16 DEF S!NotReady, S!childVars, S!logVars
  <2>2. Places
    BY <1>1, <1>16 DEF S!NotReady, S!childVars, S!Unanswered, Sups, Children, S!Alive
  <2> QED
    BY <2>1, <2>2, OtherStepKeeps
<1>17. CASE S!TimePasses
  <2>1. Same
    BY <1>17 DEF S!TimePasses, S!childVars, S!logVars
  <2>2. Places
    BY <1>1, <1>17 DEF S!TimePasses, S!childVars, Sups, Children, S!Alive
  <2> QED
    BY <2>1, <2>2, OtherStepKeeps
<1>18. CASE S!Stopped
  <2>1. Same
    BY <1>18 DEF S!Stopped, S!childVars, S!logVars
  <2>2. Places
    BY <1>1, <1>18 DEF S!Stopped, S!childVars, Sups, Children, S!Alive
  <2> QED
    BY <2>1, <2>2, OtherStepKeeps
<1>19. CASE S!Drop
  <2>1. Same
    BY <1>19 DEF S!Drop, S!childVars, S!logVars
  <2>2. Places
    BY <1>1, <1>19 DEF S!Drop, S!childVars, Sups, Children, S!Alive
  <2> QED
    BY <2>1, <2>2, OtherStepKeeps
<1>20. CASE S!Killed
  <2>1. Same
    BY <1>20 DEF S!Killed, S!childVars, S!logVars
  <2>2. Places
    BY <1>1, <1>20 DEF S!Killed, S!childVars, Sups, Children, S!Alive
  <2> QED
    BY <2>1, <2>2, OtherStepKeeps
<1> QED
  BY <1>2, <1>3, <1>4, <1>5, <1>6, <1>7, <1>8, <1>9, <1>10, <1>11, <1>12, <1>13, <1>14,
     <1>15, <1>16, <1>17, <1>18, <1>19, <1>20

\* Every step of every command.
LEMMA StepKeepsSup == SupInv /\ [CliNext]_cliVars => SupInv'
<1> SUFFICES ASSUME SupInv, [CliNext]_cliVars PROVE SupInv'
  OBVIOUS
<1>1. CASE UNCHANGED supervisor
  <2>1. UNCHANGED <<listed, table, rows, pipe, chan, seen, confirmed, sup, child>>
    BY <1>1 DEF supervisor
  <2>2. sup' \in Sups /\ child' \in Children
    BY <2>1 DEF SupInv, SupTypes, Sups, Children
  <2> QED
    BY <2>1, <2>2, OtherStepKeeps
<1>2. CASE S!SupNext
  BY <1>2, PrintRowKeeps, TalkKeeps, ReadLineKeeps, TakeLineKeeps, CheckKeeps, OthersKeep
     DEF S!SupNext, S!SupStep, S!KernelStep, S!ChildStep
<1> QED
  BY <1>1, <1>2 DEF CliNext, cliVars

\* The plan is made and nothing is started.
LEMMA SupBegins ==
  ASSUME S!SupInit, table \in Lists, listed \in Lists
  PROVE  SupInv
<1>1. /\ sup = "planned" /\ child = "none" /\ rows = 0 /\ pipe = <<>> /\ chan = <<>>
      /\ seen = <<>> /\ confirmed = FALSE
  BY DEF S!SupInit
<1>2. SupTypes
  <2>1. pipe \in Seq(Lines) /\ chan \in Seq(Lines) /\ seen \in Seq({table[i] : i \in DOMAIN table})
    BY <1>1
  <2>2. rows \in Nat /\ confirmed \in BOOLEAN /\ sup \in Sups /\ child \in Children
    BY <1>1 DEF Sups, Children
  <2> QED
    BY <2>1, <2>2 DEF SupTypes
<1> QED
  BY <1>1, <1>2 DEF SupInv, S!PinIsNamed

\* The order of the naturals, as a set of pairs.
Lower == {p \in Nat \X Nat : p[1] < p[2]}

\* A set of naturals that is not empty has a least element.
LEMMA LeastOf ==
  ASSUME NEW set \in SUBSET Nat, set # {}
  PROVE  \E m \in set : \A k \in set : m <= k
<1>1. OpToRel(<, Nat) = Lower
  BY DEF OpToRel, Lower
<1>2. IsWellFoundedOn(Lower, Nat)
  BY <1>1, NatLessThanWellFounded
<1>3. PICK m \in set : \A k \in set : ~(<<k, m>> \in Lower)
  BY <1>2, WFMin
<1>4. ASSUME NEW k \in set PROVE m <= k
  <2>1. k \in Nat /\ m \in Nat /\ <<k, m>> \in Nat \X Nat
    OBVIOUS
  <2>2. ~(k < m)
    BY <1>3, <2>1 DEF Lower
  <2> QED
    BY <2>1, <2>2
<1> QED
  BY <1>4

\* The first card of the list that is the one wanted is the one that is selected.
LEMMA SelectedIsWanted ==
  ASSUME NEW list \in Lists,
         \E i \in DOMAIN list : list[i].sycl /\ S!IsWanted(list[i])
  PROVE  \E k \in DOMAIN list : S!Selected(list) = list[k] /\ S!IsWanted(list[k])
<1> DEFINE off(i) == S!Distance(list[i].size, Wanted.size)
           before(i, j) == off(i) < off(j) \/ (off(i) = off(j) /\ i < j)
           best(i) == \A j \in S!Candidates(list) \ {i} : before(i, j)
           exact == {i \in S!Candidates(list) : list[i].size = Wanted.size}
<1>1. /\ DOMAIN list \subseteq Nat /\ Wanted.size \in Nat
      /\ \A i \in DOMAIN list : list[i].size \in Nat
  <2>1. list \in Seq(S!Range(list))
    BY CliAssumption DEF S!SupAssumption
  <2> QED
    BY <2>1, CliAssumption DEF S!SupAssumption
<1>2. S!Candidates(list) \subseteq DOMAIN list
  BY DEF S!Candidates
<1>3. \A i \in S!Candidates(list) : off(i) \in Nat /\ (off(i) = 0 <=> list[i].size = Wanted.size)
  BY <1>1, <1>2 DEF S!Distance
<1>4. exact # {} /\ exact \in SUBSET Nat
  <2>1. PICK i \in DOMAIN list : list[i].sycl /\ S!IsWanted(list[i])
    OBVIOUS
  <2>2. i \in exact
    BY <2>1 DEF S!Candidates, S!IsWanted
  <2> QED
    BY <1>1, <1>2, <2>2
<1>5. PICK k \in exact : \A m \in exact : k <= m
  BY <1>4, LeastOf
<1>6. best(k)
  <2> SUFFICES ASSUME NEW j \in S!Candidates(list), j # k PROVE before(k, j)
    OBVIOUS
  <2>1. off(k) = 0 /\ off(j) \in Nat /\ k \in Nat /\ j \in Nat
    BY <1>1, <1>2, <1>3
  <2>2. CASE off(j) = 0
    <3>1. k <= j
      BY <1>3, <1>5, <2>2
    <3> QED
      BY <2>1, <2>2, <3>1
  <2>3. CASE off(j) # 0
    BY <2>1, <2>3
  <2> QED
    BY <2>2, <2>3
<1> DEFINE x == CHOOSE i \in S!Candidates(list) : best(i)
<1>7. x \in S!Candidates(list) /\ best(x)
  BY <1>6
<1>8. S!Selected(list) = list[x]
  BY DEF S!Selected
<1> HIDE DEF x
<1>9. off(x) = 0
  <2>1. off(k) = 0 /\ off(x) \in Nat
    BY <1>3, <1>7
  <2>2. CASE x = k
    BY <2>1, <2>2
  <2>3. CASE x # k
    <3>1. before(x, k)
      BY <1>7, <2>3
    <3> QED
      BY <2>1, <3>1
  <2> QED
    BY <2>2, <2>3
<1>10. x \in DOMAIN list /\ S!IsWanted(list[x])
  BY <1>3, <1>7, <1>9 DEF S!Candidates, S!IsWanted
<1> QED
  BY <1>8, <1>10

\* The card at the pinned id, by its name.
LEMMA ConfirmedCard == SupInv => S!ConfirmedIsTrue
<1> SUFFICES ASSUME SupInv, confirmed PROVE S!ConfirmedIsTrue
  BY DEF S!ConfirmedIsTrue
<1>1. /\ listed \in Lists /\ table \in Lists
      /\ \A i, j \in DOMAIN table : table[i].id = table[j].id => i = j
      /\ \E i \in DOMAIN table : S!IsWanted(table[i])
  BY CliAssumption DEF SupInv, SupTypes, S!SupAssumption
<1>2. PICK i \in DOMAIN table : table[i].id = S!Pin /\ table[i].name = Wanted.name
  BY DEF SupInv, S!PinIsNamed
<1>3. S!IsWanted(table[i]) \/ \E j \in DOMAIN table \ {i} : S!IsWanted(table[j])
  BY <1>1
<1>4. ASSUME table = listed, \E j \in DOMAIN table : table[j].sycl /\ S!IsWanted(table[j])
      PROVE  S!IsWanted(table[i])
  <2>1. PICK k \in DOMAIN table : S!Selected(table) = table[k] /\ S!IsWanted(table[k])
    BY <1>1, <1>4, SelectedIsWanted
  <2>2. table[k].id = table[i].id
    BY <1>2, <1>4, <2>1 DEF S!Pin
  <2> QED
    BY <1>1, <2>1, <2>2
<1> QED
  BY <1>2, <1>3, <1>4 DEF S!ConfirmedIsTrue

\* A device reported as confirmed has, in the child's own numbering of the machine, the name the
\* plan was made for, whatever was listed before, in whatever pieces the log arrives and wherever
\* the child or the supervisor is killed.  It is the card itself when the child numbers the cards
\* as they were listed, and otherwise it or a namesake listed beside it.
THEOREM ConfirmedIsTrueHolds == CliSpec => []ConfirmedIsTrue
<1>1. CliInit => SupInv
  <2>1. CliInit => S!SupInit
    BY DEF CliInit, NoSupervisor
  <2>2. S!SupInit => table \in Lists /\ listed \in Lists
    BY DEF S!SupInit
  <2> QED
    BY <2>1, <2>2, SupBegins
<1>2. SupInv /\ [CliNext]_cliVars => SupInv'
  BY StepKeepsSup
<1>3. SupInv => ConfirmedIsTrue
  <2> SUFFICES ASSUME SupInv PROVE S!SupTypeOK /\ S!ConfirmedIsTrue
    BY DEF ConfirmedIsTrue
  <2>1. confirmed => S!RowsOf(seen, S!Pin) # {}
    BY DEF SupInv, S!RowsOf, S!Range
  <2> QED
    BY <2>1, ConfirmedCard DEF SupInv, SupTypes, Sups, Children, S!SupTypeOK
<1> QED
  BY <1>1, <1>2, <1>3, PTL DEF CliSpec

-----------------------------------------------------------------------------
(* tui: whose turn it is, and what may still arrive.                       *)

\* What is answered to an effect, and what else the inbox may hold.
Answers ==
  {<<"devices">>, <<"catalog">>, <<"host">>, <<"skipped">>, <<"transfer">>}
  \cup {<<"failed", "failed">>, <<"failed", "no_device">>}
  \cup {<<"serving", s>> : s \in T!Servings}
KeyMessage == <<"key">>
TickMessage == <<"tick">>
Messages == Answers \cup {KeyMessage, TickMessage}
Effects == {<<"detect">>, <<"download">>} \cup {<<"serve", card>> : card \in T!Cards}

\* Answers come first, then a key, then a tick; while effects are performed there are only
\* answers, and none is left to perform when a key is read.  So the field that a key has opened
\* has nothing under way that could change the screen below it.
LoopInv ==
  /\ turn \in {"perform", "update"} /\ editing \in BOOLEAN
  /\ pending \in Seq(Effects) /\ inbox \in Seq(Messages)
  /\ turn = "perform" => \A i \in 1 .. Len(inbox) : inbox[i] \in Answers
  /\ \A i \in 1 .. Len(inbox) : inbox[i] = KeyMessage =>
       /\ pending = <<>>
       /\ \A j \in 1 .. Len(inbox) : j > i => inbox[j] = TickMessage
  /\ editing => /\ pending = <<>>
                /\ \A i \in 1 .. Len(inbox) : inbox[i] \in {KeyMessage, TickMessage}

\* The screens there are.
Tab(s) ==
  \/ s \in {"devices", "models"}
  \/ s = "download" /\ download # Absent
  \/ s = "serving" /\ serving # Absent

ScreenInv ==
  /\ download \in T!Downloads \cup {Absent} /\ serving \in T!Servings \cup {Absent}
  /\ Tab(screen) /\ (editing => screen = "models")

CursorInv ==
  /\ report \in Reports \cup {Absent} /\ models \in Catalogs \cup {<<>>}
  /\ device_row \in Nat /\ model_row \in Nat
  /\ model_row < T!Larger(Len(models), 1)
  /\ report # Absent => device_row < T!Larger(Len(report), 1)

Budgeted ==
  [bytes : Int, memory : Hosts, source : {"default", "clamped", "requested"}]
RamInv ==
  /\ host \in Hosts \cup {Absent} /\ budget \in Budgeted \cup {Absent}
  /\ budget_request \in Nat \cup {Absent}
  /\ budget # Absent => budget.memory = host /\ budget.bytes <= T!CeilingOf(host)

\* The inductive invariant of the interface.
TuiInv ==
  /\ LoopInv /\ ScreenInv /\ CursorInv /\ RamInv /\ ctx_request \in T!Contexts
  /\ T!PlansAreCurrent

\* A step of the interface that delivers one message, or performs one effect, or polls.
LEMMA KindsDiffer ==
  /\ KeyMessage \notin Answers /\ TickMessage \notin Answers /\ KeyMessage # TickMessage
  /\ KeyMessage[1] = "key" /\ TickMessage[1] = "tick"
  /\ \A m \in Answers : m[1] \notin {"key", "tick"}
  /\ \A m \in Messages : m[1] = "key" => m = KeyMessage
  /\ \A m \in Answers : m[1] = "serving" => m[2] \in T!Servings
<1>1. \A m \in Answers : m[1] \notin {"key", "tick"}
  BY DEF Answers
<1>2. KeyMessage[1] = "key" /\ TickMessage[1] = "tick"
  BY DEF KeyMessage, TickMessage
<1>3. \A m \in Answers : m[1] = "serving" => m[2] \in T!Servings
  BY DEF Answers
<1>4. \A m \in Messages : m[1] = "key" => m = KeyMessage
  BY <1>1, <1>2 DEF Messages
<1> QED
  BY <1>1, <1>2, <1>3, <1>4

\* An effect is performed: its answers come after those there are.
LEMMA PerformedKeepsLoop ==
  ASSUME LoopInv, NEW answers \in Seq(Answers), T!Performed(answers)
  PROVE  LoopInv'
<1>1. /\ turn = "perform" /\ pending # <<>> /\ pending' = Tail(pending)
      /\ inbox' = inbox \o answers /\ turn' = turn /\ editing' = editing
  BY DEF T!Performed, T!forms
<1>2. pending \in Seq(Effects) /\ inbox \in Seq(Messages) /\ ~editing
  BY <1>1 DEF LoopInv
<1>3. \A i \in 1 .. Len(inbox) : inbox[i] \in Answers
  BY <1>1 DEF LoopInv
<1>4. inbox \in Seq(Answers)
  BY <1>2, <1>3
<1>5. inbox' \in Seq(Answers)
  BY <1>1, <1>4
<1>6. inbox' \in Seq(Messages)
  BY <1>5 DEF Messages
<1>7. pending' \in Seq(Effects)
  BY <1>1, <1>2
<1>8. \A i \in 1 .. Len(inbox') : inbox'[i] \in Answers
  BY <1>5
<1> QED
  BY <1>1, <1>2, <1>6, <1>7, <1>8, KindsDiffer DEF LoopInv

\* One message or none.
LEMMA OneOrNone ==
  ASSUME NEW there \in BOOLEAN, NEW m
  PROVE  LET s == IF there THEN <<m>> ELSE <<>> IN s \in Seq({m}) /\ Len(s) \in 0 .. 1
<1>1. CASE there
  BY <1>1
<1>2. CASE ~there
  BY <1>2
<1> QED
  BY <1>1, <1>2

\* A frame: a key and a tick go last.
LEMMA PollKeepsLoop ==
  ASSUME LoopInv, T!Poll
  PROVE  LoopInv'
<1>1. PICK key \in BOOLEAN, tick \in BOOLEAN :
        inbox' = inbox \o (IF key THEN <<KeyMessage>> ELSE <<>>)
                       \o (IF tick THEN <<TickMessage>> ELSE <<>>)
  BY DEF T!Poll, T!Polled, KeyMessage, TickMessage
<1>2. /\ turn = "perform" /\ pending = <<>> /\ pending' = pending
      /\ turn' = "update" /\ editing' = editing
  BY DEF T!Poll, T!Polled, T!forms
<1> DEFINE k == IF key THEN <<KeyMessage>> ELSE <<>>
           t == IF tick THEN <<TickMessage>> ELSE <<>>
           n == Len(inbox)
<1>3. inbox \in Seq(Messages) /\ \A i \in 1 .. n : inbox[i] \in Answers
  BY <1>2 DEF LoopInv
<1>4. k \in Seq({KeyMessage}) /\ t \in Seq({TickMessage}) /\ Len(k) \in 0 .. 1 /\ Len(t) \in 0 .. 1
  <2>1. k \in Seq({KeyMessage}) /\ Len(k) \in 0 .. 1
    BY OneOrNone
  <2>2. t \in Seq({TickMessage}) /\ Len(t) \in 0 .. 1
    BY OneOrNone
  <2> QED
    BY <2>1, <2>2
<1>5. k \in Seq(Messages) /\ t \in Seq(Messages)
  <2> HIDE DEF k, t
  <2>1. {KeyMessage} \subseteq Messages /\ {TickMessage} \subseteq Messages
    BY DEF Messages
  <2> QED
    BY <1>4, <2>1
<1>6. inbox' = inbox \o k \o t
  BY <1>1
<1>7. inbox' \in Seq(Messages) /\ Len(inbox') = n + Len(k) + Len(t) /\ n \in Nat
  BY <1>3, <1>5, <1>6
<1>8. \A i \in 1 .. Len(inbox') :
        /\ i <= n => inbox'[i] = inbox[i]
        /\ n < i /\ i <= n + Len(k) => inbox'[i] = KeyMessage /\ i = n + 1
        /\ n + Len(k) < i => inbox'[i] = TickMessage
  <2> HIDE DEF k, t
  <2>1. \A i \in 1 .. Len(k) : k[i] = KeyMessage
    BY <1>4
  <2>2. \A i \in 1 .. Len(t) : t[i] = TickMessage
    BY <1>4
  <2> QED
    BY <2>1, <2>2, <1>3, <1>4, <1>5, <1>6, <1>7
<1> HIDE DEF k, t
<1>9. \A i \in 1 .. Len(inbox') : inbox'[i] = KeyMessage =>
        \A j \in 1 .. Len(inbox') : j > i => inbox'[j] = TickMessage
  <2> SUFFICES ASSUME NEW i \in 1 .. Len(inbox'), inbox'[i] = KeyMessage,
                      NEW j \in 1 .. Len(inbox'), j > i
               PROVE  inbox'[j] = TickMessage
    OBVIOUS
  <2>1. i > n
    BY <1>3, <1>7, <1>8, KindsDiffer
  <2>2. i <= n + Len(k)
    BY <1>4, <1>7, <1>8, KindsDiffer
  <2>3. i = n + 1
    BY <2>1, <2>2, <1>8
  <2>4. Len(k) = 0 \/ Len(k) = 1
    BY <1>4
  <2>5. n + Len(k) <= n + 1
    <3> DEFINE l == Len(k)
    <3>1. n \in Nat /\ (l = 0 \/ l = 1)
      BY <2>4, <1>7
    <3> HIDE DEF n, l
    <3>2. n + l <= n + 1
      BY <3>1
    <3> QED
      BY <3>2 DEF l
  <2>6. j > n + Len(k)
    BY <2>3, <2>5, <2>4, <1>7
  <2> QED
    BY <2>6, <1>8
<1>10. editing => n = 0
  <2>1. editing => \A i \in 1 .. n : inbox[i] \in {KeyMessage, TickMessage}
    BY DEF LoopInv
  <2> QED
    BY <2>1, <1>3, <1>7, KindsDiffer
<1>11. editing => \A i \in 1 .. Len(inbox') : inbox'[i] \in {KeyMessage, TickMessage}
  BY <1>4, <1>7, <1>8, <1>10
<1> QED
  BY <1>2, <1>7, <1>9, <1>11 DEF LoopInv

\* What is delivered is the first message, and the rest stays in order.
LEMMA DeliveredTakesOne ==
  ASSUME LoopInv, NEW what, T!Delivered(what)
  PROVE  /\ turn = "update" /\ inbox[1] \in Messages /\ inbox[1][1] = what
         /\ inbox' \in Seq(Messages) /\ Len(inbox) \in Nat /\ Len(inbox') = Len(inbox) - 1
         /\ 1 \in 1 .. Len(inbox)
         /\ \A i \in 1 .. Len(inbox') : inbox'[i] = inbox[i + 1] /\ i + 1 \in 1 .. Len(inbox)
         /\ turn' \in {"perform", "update"} /\ (turn' = "perform" => inbox' = <<>>)
<1>1. /\ turn = "update" /\ inbox # <<>> /\ Head(inbox)[1] = what /\ inbox' = Tail(inbox)
      /\ turn' = IF Tail(inbox) = <<>> THEN "perform" ELSE "update"
  BY DEF T!Delivered
<1>2. inbox \in Seq(Messages)
  BY DEF LoopInv
<1> QED
  BY <1>1, <1>2

\* An answer or a tick asks for nothing.
LEMMA AnswerKeepsLoop ==
  ASSUME LoopInv, NEW what, T!Delivered(what), pending' = pending, editing' = editing
  PROVE  LoopInv'
<1>1. \A i \in 1 .. Len(inbox') : inbox'[i] = KeyMessage =>
        \A j \in 1 .. Len(inbox') : j > i => inbox'[j] = TickMessage
  <2> SUFFICES ASSUME NEW i \in 1 .. Len(inbox'), inbox'[i] = KeyMessage,
                      NEW j \in 1 .. Len(inbox'), j > i
               PROVE  inbox'[j] = TickMessage
    OBVIOUS
  <2>1. /\ inbox[i + 1] = KeyMessage /\ inbox'[j] = inbox[j + 1] /\ j + 1 > i + 1
        /\ i + 1 \in 1 .. Len(inbox) /\ j + 1 \in 1 .. Len(inbox)
    BY DeliveredTakesOne
  <2> QED
    BY <2>1 DEF LoopInv
<1>2. \A i \in 1 .. Len(inbox') : inbox'[i] = KeyMessage => pending = <<>>
  BY DeliveredTakesOne DEF LoopInv
<1>3. editing => \A i \in 1 .. Len(inbox') : inbox'[i] \in {KeyMessage, TickMessage}
  BY DeliveredTakesOne DEF LoopInv
<1>4. turn' = "perform" => \A i \in 1 .. Len(inbox') : inbox'[i] \in Answers
  BY DeliveredTakesOne
<1> QED
  BY <1>1, <1>2, <1>3, <1>4, DeliveredTakesOne DEF LoopInv

\* After a key only a tick can follow, whatever the key asks for and whether it opens the field.
LEMMA KeyKeepsLoop ==
  ASSUME LoopInv, T!Delivered("key"), editing' \in BOOLEAN,
         \/ pending' = pending
         \/ \E e \in Effects : pending' = Append(pending, e) /\ ~editing'
  PROVE  LoopInv'
<1>1. inbox[1] = KeyMessage /\ pending = <<>>
  BY DeliveredTakesOne, KindsDiffer DEF LoopInv
<1>2. \A i \in 1 .. Len(inbox') : inbox'[i] = TickMessage
  BY <1>1, DeliveredTakesOne DEF LoopInv
<1>3. pending' \in Seq(Effects) /\ (editing' => pending' = <<>>)
  <2>1. \A e \in Effects : Append(pending, e) \in Seq(Effects)
    BY DEF LoopInv
  <2> QED
    BY <1>1, <2>1 DEF LoopInv
<1>4. \A i \in 1 .. Len(inbox') : inbox'[i] # KeyMessage
  BY <1>2, KindsDiffer
<1>5. turn' = "perform" => \A i \in 1 .. Len(inbox') : inbox'[i] \in Answers
  BY DeliveredTakesOne
<1> QED
  BY <1>2, <1>3, <1>4, <1>5, DeliveredTakesOne DEF LoopInv

\* An effect is answered by answers.
LEMMA EffectsAreAnswered ==
  ASSUME TuiInv, T!PerformDetect \/ T!PerformDownload \/ T!PerformServe
  PROVE  \E answers \in Seq(Answers) : T!Performed(answers)
<1>1. CASE T!PerformDetect
  <2>1. <<<<"devices">>, <<"catalog">>, <<"host">>, <<"skipped">>>> \in Seq(Answers)
    BY DEF Answers
  <2> QED
    BY <1>1, <2>1 DEF T!PerformDetect
<1>2. CASE T!PerformDownload
  <2>1. <<<<"transfer">>>> \in Seq(Answers)
    BY DEF Answers
  <2> QED
    BY <1>2, <2>1 DEF T!PerformDownload
<1>3. CASE T!PerformServe
  <2> DEFINE card == Head(pending)[2]
             planned == <<T!Device(report), card, ctx_request>>
             reply == <<"serving", [card |-> card, fit |-> planned]>>
  <2>1. <<<<"failed", "failed">>>> \in Seq(Answers) /\ <<<<"failed", "no_device">>>> \in Seq(Answers)
    BY DEF Answers
  <2>2. ASSUME T!Device(report) # Absent
        PROVE  <<reply>> \in Seq(Answers)
    <3>1. report \in Reports
      BY <2>2 DEF TuiInv, CursorInv, T!Device
    <3>2. card \in T!Cards
      <4>1. Head(pending) \in Effects /\ Head(pending)[1] = "serve"
        BY <1>3 DEF T!PerformServe, TuiInv, LoopInv
      <4>2. <<"detect">>[1] = "detect" /\ <<"download">>[1] = "download"
        OBVIOUS
      <4>3. PICK k \in T!Cards : Head(pending) = <<"serve", k>>
        BY <4>1, <4>2 DEF Effects
      <4> QED
        BY <4>3
    <3>3. [card |-> card, fit |-> planned] \in T!Servings
      BY <3>1, <3>2 DEF T!Servings, TuiInv
    <3>4. reply \in Answers
      BY <3>3 DEF Answers
    <3> QED
      BY <3>4
  <2>3. \/ T!Performed(<<<<"failed", "failed">>>>)
        \/ T!Performed(<<<<"failed", "no_device">>>>)
        \/ T!Device(report) # Absent /\ T!Performed(<<reply>>)
    BY <1>3 DEF T!PerformServe
  <2> HIDE DEF reply
  <2> QED
    BY <2>1, <2>2, <2>3
<1> QED
  BY <1>1, <1>2, <1>3

\* A key that asks for something asks for an effect there is, with the field closed.
LEMMA KeysKeepLoop ==
  ASSUME TuiInv, T!Key
  PROVE  LoopInv'
<1> USE DEF T!Pressed, T!Quietly, T!forms, T!Ask
<1> editing \in BOOLEAN /\ LoopInv
  BY DEF TuiInv, LoopInv
<1>1. CASE T!KeyEditing
  <2>1. T!Delivered("key") /\ editing' \in BOOLEAN
    BY <1>1 DEF T!KeyEditing
  <2>2. <<"download">> \in Effects
    BY DEF Effects
  <2>3. pending' = pending \/ (pending' = Append(pending, <<"download">>) /\ ~editing')
    BY <1>1 DEF T!KeyEditing
  <2> QED
    BY <2>1, <2>2, <2>3, KeyKeepsLoop
<1>2. CASE T!KeyRescan
  <2>1. T!Delivered("key") /\ editing' \in BOOLEAN /\ ~editing' /\ pending' = Append(pending, <<"detect">>)
    BY <1>2 DEF T!KeyRescan
  <2>2. <<"detect">> \in Effects
    BY DEF Effects
  <2> QED
    BY <2>1, <2>2, KeyKeepsLoop
<1>3. CASE T!KeyModel
  <2>1. T!Delivered("key") /\ editing' \in BOOLEAN /\ ~editing' /\ T!OnModels
    BY <1>3 DEF T!KeyModel
  <2>2. T!Selected \in T!Cards
    BY <2>1 DEF T!OnModels, T!Selected, T!Cards, T!ItemsOf, TuiInv, CursorInv
  <2>3. <<"download">> \in Effects /\ <<"serve", T!Selected>> \in Effects
    BY <2>2 DEF Effects
  <2>4. pending' = Append(pending, <<"download">>) \/ pending' = Append(pending, <<"serve", T!Selected>>)
    BY <1>3 DEF T!KeyModel
  <2> QED
    BY <2>1, <2>3, <2>4, KeyKeepsLoop
<1>4. CASE T!KeyField
  <2>1. T!Delivered("key") /\ editing' \in BOOLEAN /\ pending' = pending
    BY <1>4 DEF T!KeyField
  <2> QED
    BY <2>1, KeyKeepsLoop
<1>5. CASE \/ T!KeyQuit \/ T!KeyScreen \/ T!KeyDigit \/ T!KeyBudget \/ T!KeyContext \/ T!KeyMove
           \/ T!KeyLeave \/ T!KeyCancel \/ T!KeyStop \/ T!KeyIgnored
  <2>1. T!Delivered("key") /\ editing' = editing /\ pending' = pending
    BY <1>5 DEF T!KeyQuit, T!KeyScreen, T!KeyDigit, T!KeyBudget, T!KeyContext, T!KeyMove,
         T!KeyLeave, T!KeyCancel, T!KeyStop, T!KeyIgnored
  <2> QED
    BY <2>1, KeyKeepsLoop
<1> QED
  BY <1>1, <1>2, <1>3, <1>4, <1>5 DEF T!Key

\* Every step of the interface keeps the order.
LEMMA LoopKept ==
  ASSUME TuiInv, T!TuiNext
  PROVE  LoopInv'
<1> LoopInv
  BY DEF TuiInv
<1>1. CASE T!PerformDetect \/ T!PerformDownload \/ T!PerformServe
  BY <1>1, EffectsAreAnswered, PerformedKeepsLoop
<1>2. CASE T!Poll
  BY <1>2, PollKeepsLoop
<1>3. CASE T!Key
  BY <1>3, KeysKeepLoop
<1>4. CASE \/ T!UpdateDetected \/ T!UpdateCatalog \/ T!UpdateHost \/ T!UpdateSkipped
           \/ T!UpdateTransferReady \/ T!UpdateServing \/ T!UpdateFailed \/ T!UpdateTick
  <2>1. /\ pending' = pending /\ editing' = editing
        /\ \E what \in {"devices", "catalog", "host", "skipped", "transfer", "serving", "failed", "tick"} :
             T!Delivered(what)
    BY <1>4 DEF T!UpdateDetected, T!UpdateCatalog, T!UpdateHost, T!UpdateSkipped,
         T!UpdateTransferReady, T!UpdateServing, T!UpdateFailed, T!UpdateTick, T!Quietly,
         T!Failed, T!forms
  <2> QED
    BY <2>1, AnswerKeepsLoop
<1> QED
  BY <1>1, <1>2, <1>3, <1>4 DEF T!TuiNext, T!Update

-----------------------------------------------------------------------------
(* tui: the screens, the cursors and the budget.                           *)

\* What answers and keys leave alone.
LEMMA TuiWrites ==
  ASSUME T!TuiNext
  PROVE  /\ \/ UNCHANGED <<screen, editing, download, serving>>
            \/ T!UpdateTransferReady \/ T!UpdateServing \/ T!UpdateTick \/ T!KeyEditing
            \/ T!KeyScreen \/ T!KeyDigit \/ T!KeyField \/ T!KeyLeave \/ T!KeyCancel \/ T!KeyStop
         /\ \/ UNCHANGED <<report, models, device_row, model_row>>
            \/ T!UpdateDetected \/ T!UpdateCatalog \/ T!KeyMove \/ T!KeyRescan
         /\ UNCHANGED <<host, budget, budget_request>> \/ T!UpdateHost \/ T!KeyBudget
         /\ UNCHANGED ctx_request \/ T!KeyContext
         /\ \/ UNCHANGED <<report, models, ctx_request, fits, tunings, host, budget, placements>>
            \/ T!UpdateDetected \/ T!UpdateCatalog \/ T!UpdateHost \/ T!KeyBudget
            \/ T!KeyContext \/ T!KeyRescan
<1> DEFINE all == <<report, models, fits, tunings, host, budget, budget_request, placements>>
<1> USE DEF T!forms, T!rows, T!facts, T!plans, T!ram
<1>1. ASSUME T!PerformDetect \/ T!PerformDownload \/ T!PerformServe \/ T!Poll
      PROVE  UNCHANGED <<all, screen, editing, download, serving, device_row, model_row, ctx_request>>
  BY <1>1 DEF T!PerformDetect, T!PerformDownload, T!PerformServe, T!Performed, T!Poll, T!Polled
<1>2. ASSUME T!KeyQuit \/ T!KeyModel \/ T!KeyIgnored \/ T!UpdateSkipped
      PROVE  UNCHANGED <<all, screen, editing, download, serving, device_row, model_row, ctx_request>>
  BY <1>2 DEF T!KeyQuit, T!KeyModel, T!KeyIgnored, T!UpdateSkipped, T!Failed
<1>3. ASSUME T!UpdateFailed
      PROVE  UNCHANGED <<all, screen, editing, download, serving, device_row, model_row, ctx_request>>
  BY <1>3 DEF T!UpdateFailed, T!Failed
<1>4. ASSUME \/ T!UpdateTransferReady \/ T!UpdateServing \/ T!UpdateTick \/ T!KeyEditing
             \/ T!KeyScreen \/ T!KeyDigit \/ T!KeyField \/ T!KeyLeave \/ T!KeyCancel \/ T!KeyStop
      PROVE  UNCHANGED <<all, device_row, model_row, ctx_request>>
  BY <1>4 DEF T!UpdateTransferReady, T!UpdateServing, T!UpdateTick, T!KeyEditing,
       T!KeyScreen, T!KeyDigit, T!KeyField, T!KeyLeave, T!KeyCancel, T!KeyStop, T!Failed
<1>5. ASSUME T!UpdateDetected \/ T!UpdateCatalog \/ T!KeyRescan
      PROVE  UNCHANGED <<screen, editing, download, serving, host, budget, budget_request, ctx_request>>
  BY <1>5 DEF T!UpdateDetected, T!UpdateCatalog, T!KeyRescan, T!Failed
<1>6. ASSUME T!KeyMove
      PROVE  UNCHANGED <<all, screen, editing, download, serving, ctx_request>>
  BY <1>6 DEF T!KeyMove
<1>7. ASSUME T!UpdateHost \/ T!KeyBudget
      PROVE  UNCHANGED <<screen, editing, download, serving, report, models, device_row, model_row,
                         ctx_request>>
  BY <1>7 DEF T!UpdateHost, T!KeyBudget, T!Failed
<1>8. ASSUME T!KeyContext
      PROVE  UNCHANGED <<screen, editing, download, serving, report, models, device_row, model_row,
                         host, budget, budget_request>>
  BY <1>8 DEF T!KeyContext
<1> QED
  BY <1>1, <1>2, <1>3, <1>4, <1>5, <1>6, <1>7, <1>8 DEF T!TuiNext, T!Update, T!Key

\* Where a cursor that goes round may be.
LEMMA WrappedIsWithin ==
  ASSUME NEW from \in Nat, NEW by \in {-1, 1}, NEW len \in Nat \ {0}
  PROVE  T!Wrapped(from, by, len) \in Nat /\ T!Wrapped(from, by, len) < len
<1>1. from + by + len \in Nat
  OBVIOUS
<1> QED
  BY <1>1 DEF T!Wrapped

\* A report and a catalogue are lists.
LEMMA ListsAre ==
  /\ \A r \in Reports : Len(r) \in Nat /\ (r # <<>> => Len(r) # 0)
  /\ \A list \in Catalogs \cup {<<>>} : Len(list) \in Nat /\ (list # <<>> => Len(list) # 0)
<1>1. Reports \subseteq Seq(T!ItemsOf(Reports)) /\ Catalogs \subseteq Seq(T!ItemsOf(Catalogs))
  BY CliAssumption DEF T!TuiAssumption, T!TuiInputs
<1> QED
  BY <1>1

\* The cursors stay on the lists when these are replaced, dropped or gone through.
LEMMA CursorsKept ==
  ASSUME TuiInv, T!TuiNext
  PROVE  CursorInv'
<1> CursorInv
  BY DEF TuiInv
<1> USE DEF T!Larger
<1>1. CASE T!UpdateDetected
  <2>1. UNCHANGED <<models, model_row>>
    BY <1>1 DEF T!UpdateDetected, T!Failed, T!forms, T!rows
  <2>2. UNCHANGED <<report, device_row>> \/ (report' \in Reports /\ device_row' = 0)
    BY <1>1 DEF T!UpdateDetected, T!Failed, T!forms, T!rows
  <2> QED
    BY <2>1, <2>2, ListsAre DEF CursorInv
<1>2. CASE T!UpdateCatalog
  <2>1. UNCHANGED <<report, device_row>>
    BY <1>2 DEF T!UpdateCatalog, T!Failed, T!forms, T!rows
  <2>2. UNCHANGED <<models, model_row>> \/ (models' \in Catalogs /\ model_row' = 0)
    BY <1>2 DEF T!UpdateCatalog, T!Failed, T!forms, T!rows
  <2> QED
    BY <2>1, <2>2, ListsAre DEF CursorInv
<1>3. CASE T!KeyMove
  <2>1. PICK by \in {-1, 1} :
          /\ device_row' = IF screen = "devices" /\ report # Absent /\ report # <<>>
                           THEN T!Wrapped(device_row, by, Len(report)) ELSE device_row
          /\ model_row' = IF screen = "models" /\ models # <<>>
                          THEN T!Wrapped(model_row, by, Len(models)) ELSE model_row
    BY <1>3 DEF T!KeyMove
  <2>2. UNCHANGED <<report, models>>
    BY <1>3 DEF T!KeyMove, T!facts
  <2>3. report # Absent /\ report # <<>> =>
          /\ T!Wrapped(device_row, by, Len(report)) \in Nat
          /\ T!Wrapped(device_row, by, Len(report)) < Len(report) /\ Len(report) \in Nat
    BY ListsAre, WrappedIsWithin DEF CursorInv
  <2>4. models # <<>> =>
          /\ T!Wrapped(model_row, by, Len(models)) \in Nat
          /\ T!Wrapped(model_row, by, Len(models)) < Len(models) /\ Len(models) \in Nat
    BY ListsAre, WrappedIsWithin DEF CursorInv
  <2>5. /\ device_row' \in Nat
        /\ report' # Absent => device_row' < T!Larger(Len(report'), 1)
    BY <2>1, <2>2, <2>3 DEF CursorInv
  <2>6. model_row' \in Nat /\ model_row' < T!Larger(Len(models'), 1)
    BY <2>1, <2>2, <2>4 DEF CursorInv
  <2> QED
    BY <2>2, <2>5, <2>6 DEF CursorInv
<1>4. CASE T!KeyRescan
  <2>1. report' = Absent /\ UNCHANGED <<models, model_row, device_row>>
    BY <1>4 DEF T!KeyRescan, T!forms, T!rows
  <2> QED
    BY <2>1 DEF CursorInv
<1>5. CASE UNCHANGED <<report, models, device_row, model_row>>
  BY <1>5 DEF CursorInv
<1> QED
  BY <1>1, <1>2, <1>3, <1>4, <1>5, TuiWrites

TabNames == {"devices", "models", "download", "serving"}

\* The tabs, and no other screens, are in the bar.
LEMMA TabsAre ==
  /\ Len(T!Screens) \in Nat /\ Len(T!Screens) > 1 /\ DOMAIN T!Screens = 1 .. Len(T!Screens)
  /\ \A i \in 1 .. Len(T!Screens) : Tab(T!Screens[i])
  /\ \A s : Tab(s) => \E i \in DOMAIN T!Screens : T!Screens[i] = s
<1> DEFINE a == <<"devices", "models">>
           b == IF download = Absent THEN <<>> ELSE <<"download">>
           d == IF serving = Absent THEN <<>> ELSE <<"serving">>
           s == T!Screens
<1>1. s = (a \o b) \o d
  BY DEF T!Screens, T!ScreensOf
<1>2. /\ a \in Seq(TabNames) /\ Len(a) = 2 /\ a[1] = "devices" /\ a[2] = "models"
      /\ b \in Seq(TabNames) /\ Len(b) = IF download = Absent THEN 0 ELSE 1
      /\ download # Absent => b[1] = "download"
      /\ d \in Seq(TabNames) /\ Len(d) = IF serving = Absent THEN 0 ELSE 1
      /\ serving # Absent => d[1] = "serving"
  <2>1. a \in Seq(TabNames) /\ Len(a) = 2 /\ a[1] = "devices" /\ a[2] = "models"
    BY DEF TabNames
  <2>2. /\ b \in Seq(TabNames) /\ Len(b) = IF download = Absent THEN 0 ELSE 1
        /\ download # Absent => b[1] = "download"
    <3>1. CASE download = Absent
      BY <3>1 DEF TabNames
    <3>2. CASE download # Absent
      BY <3>2 DEF TabNames
    <3> QED
      BY <3>1, <3>2
  <2>3. /\ d \in Seq(TabNames) /\ Len(d) = IF serving = Absent THEN 0 ELSE 1
        /\ serving # Absent => d[1] = "serving"
    <3>1. CASE serving = Absent
      BY <3>1 DEF TabNames
    <3>2. CASE serving # Absent
      BY <3>2 DEF TabNames
    <3> QED
      BY <3>1, <3>2
  <2> HIDE DEF a, b, d
  <2> QED
    BY <2>1, <2>2, <2>3
<1> HIDE DEF a, b, d, s
<1>3. /\ a \o b \in Seq(TabNames) /\ Len(a \o b) = 2 + Len(b)
      /\ \A i \in 1 .. 2 : (a \o b)[i] = a[i]
      /\ \A i \in 1 .. Len(b) : (a \o b)[2 + i] = b[i]
  <2>1. /\ a \o b \in Seq(TabNames) /\ Len(a \o b) = Len(a) + Len(b)
        /\ \A i \in 1 .. Len(a) + Len(b) :
             (a \o b)[i] = IF i <= Len(a) THEN a[i] ELSE b[i - Len(a)]
    BY <1>2, ConcatProperties
  <2>2. Len(a) = 2 /\ Len(b) \in Nat
    BY <1>2
  <2> QED
    BY <2>1, <2>2
<1>4. /\ s \in Seq(TabNames) /\ Len(s) = 2 + Len(b) + Len(d)
      /\ \A i \in 1 .. 2 + Len(b) : s[i] = (a \o b)[i]
      /\ \A i \in 1 .. Len(d) : s[2 + Len(b) + i] = d[i]
  <2> DEFINE ab == a \o b
  <2>1. ab \in Seq(TabNames) /\ d \in Seq(TabNames) /\ Len(ab) = 2 + Len(b) /\ s = ab \o d
    BY <1>1, <1>2, <1>3
  <2>2. Len(b) \in Nat /\ Len(d) \in Nat
    BY <1>2
  <2> HIDE DEF ab
  <2>3. /\ s \in Seq(TabNames) /\ Len(s) = Len(ab) + Len(d)
        /\ \A i \in 1 .. Len(ab) + Len(d) :
             s[i] = IF i <= Len(ab) THEN ab[i] ELSE d[i - Len(ab)]
    <3>1. /\ ab \o d \in Seq(TabNames) /\ Len(ab \o d) = Len(ab) + Len(d)
          /\ \A i \in 1 .. Len(ab) + Len(d) :
               (ab \o d)[i] = IF i <= Len(ab) THEN ab[i] ELSE d[i - Len(ab)]
      BY ZenonT(40), <2>1, ConcatProperties
    <3> QED
      BY <3>1, <2>1, Zenon
  <2>4. \A i \in 1 .. 2 + Len(b) : s[i] = ab[i]
    BY <2>1, <2>2, <2>3
  <2>5. \A i \in 1 .. Len(d) : s[2 + Len(b) + i] = d[i]
    BY <2>1, <2>2, <2>3
  <2> QED
    BY <2>1, <2>3, <2>4, <2>5 DEF ab
<1>5. /\ s[1] = "devices" /\ s[2] = "models"
      /\ download # Absent => s[3] = "download" /\ Len(b) = 1
      /\ serving # Absent => s[3 + Len(b)] = "serving" /\ Len(d) = 1
  BY <1>2, <1>3, <1>4
<1>6. Len(s) \in Nat /\ Len(s) > 1 /\ DOMAIN s = 1 .. Len(s)
  BY <1>2, <1>4
<1>7. ASSUME NEW i \in 1 .. Len(s) PROVE Tab(s[i])
  <2>1. \/ i = 1 \/ i = 2
        \/ i = 3 /\ download # Absent
        \/ i = 3 + Len(b) /\ serving # Absent
    BY <1>2, <1>4
  <2> QED
    BY <2>1, <1>5 DEF Tab
<1>8. ASSUME NEW t, Tab(t) PROVE \E i \in DOMAIN s : s[i] = t
  <2>1. /\ 1 \in DOMAIN s /\ 2 \in DOMAIN s /\ (download # Absent => 3 \in DOMAIN s)
        /\ serving # Absent => 3 + Len(b) \in DOMAIN s
    BY <1>2, <1>4, <1>6
  <2> QED
    BY <2>1, <1>5, <1>8 DEF Tab
<1> QED
  BY <1>6, <1>7, <1>8 DEF s

\* Going round the bar ends on a tab.
LEMMA RoundTheBar ==
  ASSUME T!KeyScreen
  PROVE  Tab(screen')
<1> DEFINE n == Len(T!Screens)
           tab == CHOOSE i \in 1 .. n + 1 : i > n \/ T!Screens[i] = screen
           here == IF tab > n THEN 0 ELSE tab - 1
<1>1. n \in Nat \ {0}
  BY TabsAre
<1>2. here \in Nat
  <2>1. n + 1 \in 1 .. n + 1 /\ n + 1 > n
    BY <1>1
  <2>2. tab \in 1 .. n + 1
    BY <2>1
  <2> HIDE DEF tab, n
  <2> QED
    BY <2>2, <1>1
<1>3. PICK by \in {-1, 1} : screen' = T!Screens[T!Wrapped(here, by, n) + 1]
  BY DEF T!KeyScreen
<1> HIDE DEF here, n
<1>4. T!Wrapped(here, by, n) + 1 \in 1 .. n
  BY <1>1, <1>2, WrappedIsWithin
<1> QED
  BY <1>3, <1>4, TabsAre DEF n

\* A transfer and what is served are there, however far they have come.
LEMMA NoneIsNoValue == Absent \notin T!Downloads /\ Absent \notin T!Servings
BY CliAssumption DEF T!TuiAssumption

\* A download that goes on is a download.
LEMMA AdvancedIsThere ==
  ASSUME NEW d \in T!Downloads
  PROVE  T!Advanced(d) \in T!Downloads
<1>1. Transfers \subseteq [resume : Nat, total : Nat, perTick : Nat]
  BY CliAssumption DEF T!TuiAssumption, T!TuiInputs
<1>2. d.plan \in Transfers /\ d.done \in Nat
  BY DEF T!Downloads
<1>3. T!Smaller(d.done + d.plan.perTick, d.plan.total) \in Nat
  BY <1>1, <1>2 DEF T!Smaller
<1> QED
  BY <1>3 DEF T!Advanced, T!Downloads

\* The screen is always a tab there is, and the field never loses the screen below it: no
\* answer that changes the screen is under way while it is open.
LEMMA ScreenKept ==
  ASSUME TuiInv, T!TuiNext
  PROVE  ScreenInv'
<1> ScreenInv /\ LoopInv
  BY DEF TuiInv
<1>1. ASSUME NEW what, T!Delivered(what), what \notin {"key", "tick"}
      PROVE  ~editing
  <2>1. editing => inbox[1] \in {KeyMessage, TickMessage}
    BY <1>1, DeliveredTakesOne DEF LoopInv
  <2> QED
    BY <2>1, <1>1, DeliveredTakesOne, KindsDiffer
<1>2. CASE T!UpdateTransferReady
  <2>1. ~editing /\ UNCHANGED <<editing, serving>>
    BY <1>1, <1>2 DEF T!UpdateTransferReady, T!Failed, T!forms
  <2>2. CASE UNCHANGED <<screen, download>>
    BY <2>1, <2>2 DEF ScreenInv, Tab
  <2>3. CASE /\ \E t \in Transfers :
                  download' = [plan |-> t, done |-> t.resume, cancelled |-> FALSE]
             /\ screen' = "download"
    <3>1. Transfers \subseteq [resume : Nat, total : Nat, perTick : Nat]
      BY CliAssumption DEF T!TuiAssumption, T!TuiInputs
    <3>2. download' \in T!Downloads
      BY <2>3, <3>1 DEF T!Downloads
    <3> QED
      BY <2>1, <2>3, <3>2, NoneIsNoValue DEF ScreenInv, Tab
  <2> QED
    BY <1>2, <2>2, <2>3 DEF T!UpdateTransferReady, T!Failed, T!forms
<1>3. CASE T!UpdateServing
  <2>1. /\ T!Delivered("serving") /\ serving' = Head(inbox)[2] /\ screen' = "serving"
        /\ UNCHANGED <<editing, download>>
    BY <1>3 DEF T!UpdateServing
  <2>2. Head(inbox) = inbox[1] /\ inbox[1] \in Messages /\ inbox[1][1] = "serving"
    BY <2>1, DeliveredTakesOne DEF LoopInv
  <2>3. serving' \in T!Servings
    BY <2>1, <2>2, KindsDiffer DEF Messages
  <2> QED
    BY <1>1, <2>1, <2>3, NoneIsNoValue DEF ScreenInv, Tab
<1>4. CASE T!UpdateTick
  <2>1. /\ UNCHANGED <<screen, editing, serving>>
        /\ download' = IF download = Absent THEN Absent ELSE T!Advanced(download)
    BY <1>4 DEF T!UpdateTick, T!forms
  <2>2. download # Absent => download' \in T!Downloads
    BY <2>1, AdvancedIsThere DEF ScreenInv
  <2> QED
    BY <2>1, <2>2, NoneIsNoValue DEF ScreenInv, Tab
<1>5. CASE T!KeyEditing
  <2>1. UNCHANGED <<screen, download, serving>> /\ editing
    BY <1>5 DEF T!KeyEditing
  <2> QED
    BY <2>1 DEF ScreenInv, Tab
<1>6. CASE T!KeyScreen \/ T!KeyDigit
  <2>1. ~editing /\ UNCHANGED <<editing, download, serving>>
    BY <1>6 DEF T!KeyScreen, T!KeyDigit
  <2>2. Tab(screen')
    <3>1. CASE T!KeyScreen
      BY <3>1, RoundTheBar
    <3>2. CASE T!KeyDigit
      BY <3>2, TabsAre DEF T!KeyDigit, ScreenInv
    <3> QED
      BY <1>6, <3>1, <3>2
  <2> QED
    BY <2>1, <2>2 DEF ScreenInv, Tab
<1>7. CASE T!KeyField
  <2>1. screen = "models" /\ UNCHANGED <<screen, download, serving>>
    BY <1>7 DEF T!KeyField
  <2> QED
    BY <2>1 DEF ScreenInv, Tab
<1>8. CASE T!KeyLeave
  <2>1. ~editing /\ screen' \in {"devices", "models"} /\ UNCHANGED <<editing, download, serving>>
    BY <1>8 DEF T!KeyLeave
  <2> QED
    BY <2>1 DEF ScreenInv, Tab
<1>9. CASE T!KeyCancel
  <2>1. /\ screen = "download" /\ download' = [download EXCEPT !.cancelled = TRUE]
        /\ UNCHANGED <<screen, editing, serving>>
    BY <1>9 DEF T!KeyCancel, T!forms
  <2>2. download \in T!Downloads
    BY <2>1 DEF ScreenInv, Tab
  <2>3. download' \in T!Downloads
    BY <2>1, <2>2 DEF T!Downloads
  <2> QED
    BY <2>1, <2>3, NoneIsNoValue DEF ScreenInv, Tab
<1>10. CASE T!KeyStop
  <2>1. ~editing /\ serving' = Absent /\ screen' = "models" /\ UNCHANGED <<editing, download>>
    BY <1>10 DEF T!KeyStop
  <2> QED
    BY <2>1 DEF ScreenInv, Tab
<1>11. CASE UNCHANGED <<screen, editing, download, serving>>
  BY <1>11 DEF ScreenInv, Tab
<1> QED
  BY <1>2, <1>3, <1>4, <1>5, <1>6, <1>7, <1>8, <1>9, <1>10, <1>11, TuiWrites

-----------------------------------------------------------------------------
(* tui: the context dial and the budget of host memory.                    *)

\* Wherever the dial stands, a step of it ends on a rung.
LEMMA DialKept ==
  ASSUME TuiInv, T!TuiNext
  PROVE  ctx_request' \in T!Contexts
<1>1. Rungs \in Seq(T!ItemsOf({Rungs})) /\ Rungs # <<>>
  BY CliAssumption DEF T!TuiAssumption, T!TuiInputs
<1> DEFINE n == Len(Rungs)
<1>2. n \in Nat \ {0} /\ \A i \in 1 .. n : Rungs[i] \in T!Contexts
  BY <1>1 DEF T!Contexts
<1>3. ASSUME NEW dial PROVE T!LadderIndex(dial) \in Int
  <2> DEFINE covering == {i \in 2 .. n : dial # Absent => Rungs[i] >= dial}
  <2>1. covering \in SUBSET Nat
    BY <1>2
  <2> HIDE DEF covering
  <2>2. covering # {} => (CHOOSE i \in covering : \A j \in covering : i <= j) \in Nat
    BY <2>1, LeastOf
  <2>3. T!LadderIndex(dial) = IF dial = Absent THEN 1
                           ELSE IF covering = {} THEN n
                           ELSE CHOOSE i \in covering : \A j \in covering : i <= j
    BY DEF T!LadderIndex, covering
  <2> QED
    BY <1>2, <2>2, <2>3
<1>4. ASSUME NEW dial, NEW by \in {-1, 1} PROVE T!LadderStep(dial, by) \in T!Contexts
  <2> DEFINE to == T!Larger(1, T!Smaller(T!LadderIndex(dial) + by, n))
  <2>1. to \in 1 .. n
    BY <1>2, <1>3 DEF T!Larger, T!Smaller
  <2> HIDE DEF to, n
  <2>2. Rungs[to] \in T!Contexts
    BY <1>2, <2>1
  <2> QED
    BY <2>2 DEF T!LadderStep, to, n
<1>5. CASE T!KeyContext
  BY <1>4, <1>5 DEF T!KeyContext
<1>6. CASE UNCHANGED ctx_request
  BY <1>6 DEF TuiInv
<1> QED
  BY <1>5, <1>6, TuiWrites

\* What a machine allows is a number, and a budget is cut to it.
LEMMA BudgetsAreCut ==
  ASSUME NEW memory \in Hosts, NEW wish \in Int
  PROVE  /\ T!CeilingOf(memory) \in Int
         /\ T!Smaller(wish, T!CeilingOf(memory)) \in Int
         /\ T!Smaller(wish, T!CeilingOf(memory)) <= T!CeilingOf(memory)
<1>1. memory.available \in Nat /\ ReservePercent \in Nat
  BY CliAssumption DEF T!TuiAssumption, T!TuiInputs
<1>2. memory.available * ReservePercent \in Nat
  BY <1>1
<1>3. T!CeilingOf(memory) \in Int
  BY <1>1, <1>2 DEF T!CeilingOf, T!RoundUp
<1> QED
  BY <1>3 DEF T!Smaller

\* The budget is one of the machine as last measured, whatever is typed, turned or measured.
LEMMA RamKept ==
  ASSUME TuiInv, T!TuiNext
  PROVE  RamInv'
<1> RamInv
  BY DEF TuiInv
<1>1. CASE T!UpdateHost
  <2>1. budget_request' = budget_request
    BY <1>1 DEF T!UpdateHost, T!Failed, T!ram
  <2>2. CASE UNCHANGED <<host, budget>>
    BY <2>1, <2>2 DEF RamInv
  <2>3. CASE /\ host' \in Hosts
             /\ budget' = IF budget # Absent THEN T!Requested(host', budget.bytes)
                          ELSE IF budget_request # Absent THEN T!Requested(host', budget_request)
                          ELSE T!DefaultBudget(host')
    <3>1. ASSUME NEW wish \in Int
          PROVE  LET b == T!Requested(host', wish)
                 IN b \in Budgeted /\ b.memory = host' /\ b.bytes <= T!CeilingOf(host')
      BY <2>3, BudgetsAreCut DEF T!Requested, Budgeted
    <3>2. LET b == T!DefaultBudget(host')
          IN b \in Budgeted /\ b.memory = host' /\ b.bytes <= T!CeilingOf(host')
      <4>1. T!CeilingOf(host') \in Int
        BY <2>3, BudgetsAreCut
      <4> QED
        BY <4>1, <2>3 DEF T!DefaultBudget, Budgeted
    <3>3. (budget # Absent => budget.bytes \in Int) /\ (budget_request # Absent => budget_request \in Int)
      BY DEF RamInv, Budgeted
    <3>4. budget' \in Budgeted /\ budget'.memory = host' /\ budget'.bytes <= T!CeilingOf(host')
      BY <2>3, <3>1, <3>2, <3>3
    <3> QED
      BY <2>1, <2>3, <3>4 DEF RamInv
  <2> QED
    BY <1>1, <2>2, <2>3 DEF T!UpdateHost, T!Failed, T!ram
<1>2. CASE T!KeyBudget
  <2>1. UNCHANGED <<host, budget_request>>
    BY <1>2 DEF T!KeyBudget
  <2>2. CASE budget = Absent
    <3>1. budget' = Absent
      BY <1>2, <2>2 DEF T!KeyBudget
    <3> QED
      BY <2>1, <3>1 DEF RamInv
  <2>3. CASE budget # Absent
    <3>1. /\ budget \in Budgeted /\ budget.memory = host /\ budget.bytes \in Int
          /\ budget.memory \in Hosts
      BY <2>3 DEF RamInv, Budgeted
    <3>2. T!CeilingOf(budget.memory) \in Int
      BY <3>1, BudgetsAreCut
    <3>3. T!StepBytes(budget) \in Int
      <4>1. GiB \in Nat \ {0}
        BY CliAssumption DEF T!TuiAssumption, T!TuiInputs
      <4>2. T!RoundUp(T!CeilingOf(budget.memory) \div 32, GiB) \in Int
        BY <3>2, <4>1 DEF T!RoundUp
      <4>3. T!Larger(T!RoundUp(T!CeilingOf(budget.memory) \div 32, GiB), 1) \in Int
        BY <4>2 DEF T!Larger
      <4> QED
        BY <4>1, <4>3 DEF T!StepBytes
    <3>4. PICK wish \in Int : budget' = T!MovedTo(budget, wish)
      <4>1. PICK key \in {"-", "+", "0", "m"} :
              budget' = T!MovedTo(budget,
                          CASE key = "-" -> T!Larger(budget.bytes - T!StepBytes(budget), 0)
                            [] key = "+" -> budget.bytes + T!StepBytes(budget)
                            [] key = "0" -> 0
                            [] key = "m" -> T!CeilingOf(budget.memory))
        BY <1>2, <2>3 DEF T!KeyBudget
      <4>2. /\ T!Larger(budget.bytes - T!StepBytes(budget), 0) \in Int
            /\ budget.bytes + T!StepBytes(budget) \in Int /\ 0 \in Int
        BY <3>1, <3>3 DEF T!Larger
      <4> QED
        BY <4>1, <4>2, <3>2
    <3>5. /\ T!Smaller(wish, T!CeilingOf(budget.memory)) \in Int
          /\ T!Smaller(wish, T!CeilingOf(budget.memory)) <= T!CeilingOf(budget.memory)
      BY <3>1, BudgetsAreCut
    <3>6. /\ budget' \in Budgeted /\ budget'.memory = budget.memory
          /\ budget'.bytes <= T!CeilingOf(budget.memory)
      BY <3>1, <3>4, <3>5 DEF T!MovedTo, Budgeted
    <3> QED
      BY <2>1, <3>1, <3>6 DEF RamInv
  <2> QED
    BY <2>2, <2>3
<1>3. CASE UNCHANGED <<host, budget, budget_request>>
  BY <1>3 DEF RamInv
<1> QED
  BY <1>1, <1>2, <1>3, TuiWrites

-----------------------------------------------------------------------------
(* tui: what is shown is of what is shown beside it.                       *)

\* Whatever changes what a plan is made of makes it again, or takes it away.
LEMMA PlansKept ==
  ASSUME TuiInv, T!TuiNext
  PROVE  T!PlansAreCurrent'
<1> T!PlansAreCurrent
  BY DEF TuiInv
<1> USE DEF T!PlansAreCurrent, T!RecomputeFits, T!RecomputePlacements
<1> DEFINE of == <<report, models, ctx_request>>
           on == <<budget, host, models>>
<1>1. CASE T!UpdateDetected
  BY <1>1 DEF T!UpdateDetected, T!Failed, T!plans, T!ram
<1>2. CASE T!UpdateCatalog
  BY <1>2 DEF T!UpdateCatalog, T!Failed, T!plans, T!ram
<1>3. CASE T!UpdateHost
  BY <1>3 DEF T!UpdateHost, T!Failed, T!plans, T!ram
<1>4. CASE T!KeyBudget
  <2>1. UNCHANGED <<report, models, fits, tunings, ctx_request, host>>
    BY <1>4 DEF T!KeyBudget, T!plans
  <2>2. placements' = T!PlacementsOf(budget', host', models')
    BY <1>4, <2>1 DEF T!KeyBudget
  <2> QED
    BY <2>1, <2>2
<1>5. CASE T!KeyContext
  BY <1>5 DEF T!KeyContext, T!ram
<1>6. CASE T!KeyRescan
  <2>1. report' = Absent /\ fits' = <<>> /\ UNCHANGED <<models, ctx_request, budget, host, placements>>
    BY <1>6 DEF T!KeyRescan, T!ram
  <2> QED
    BY <2>1 DEF T!FitsOf, T!Device
<1>7. CASE UNCHANGED <<report, models, ctx_request, fits, tunings, host, budget, placements>>
  BY <1>7
<1> QED
  BY <1>1, <1>2, <1>3, <1>4, <1>5, <1>6, <1>7, TuiWrites

\* Every step of every command.
LEMMA StepKeepsTui ==
  ASSUME command = "tui" => TuiInv, [CliNext]_cliVars
  PROVE  (command = "tui" => TuiInv)'
<1> SUFFICES ASSUME command' = "tui" PROVE TuiInv'
  OBVIOUS
<1>1. command = "tui" /\ TuiInv
  BY DEF CliNext, cliVars
<1>2. CASE T!TuiNext
  BY <1>1, <1>2, LoopKept, ScreenKept, CursorsKept, RamKept, DialKept, PlansKept DEF TuiInv
<1>3. CASE UNCHANGED tui
  BY <1>1, <1>3 DEF tui, TuiInv, LoopInv, ScreenInv, Tab, CursorInv, RamInv, T!PlansAreCurrent
<1> QED
  BY <1>1, <1>2, <1>3 DEF CliNext, cliVars

\* However it is opened, there is nothing yet that could be stale.
LEMMA TuiBegins ==
  ASSUME T!TuiInit
  PROVE  TuiInv
<1>1. PICK o \in Openings : T!TuiOpens(o)
  BY DEF T!TuiInit
<1> USE DEF T!TuiOpens
<1>2. LoopInv
  <2>1. turn = "perform" /\ inbox = <<>> /\ editing = FALSE
    BY <1>1
  <2>2. o.card \in T!Cards
    BY DEF T!Cards
  <2>3. pending \in Seq(Effects)
    <3>1. <<"detect">> \in Effects /\ <<"download">> \in Effects /\ <<"serve", o.card>> \in Effects
      BY <2>2 DEF Effects
    <3>2. \/ pending = <<<<"detect">>>> \o <<<<"download">>>>
          \/ pending = <<<<"detect">>>> \o <<<<"serve", o.card>>>>
          \/ pending = <<<<"detect">>>> \o <<>>
      BY <1>1
    <3>3. /\ <<<<"detect">>>> \in Seq(Effects) /\ <<<<"download">>>> \in Seq(Effects)
          /\ <<<<"serve", o.card>>>> \in Seq(Effects) /\ <<>> \in Seq(Effects)
      BY <3>1
    <3> HIDE DEF Effects
    <3> QED
      BY <3>2, <3>3, ConcatProperties
  <2>4. inbox \in Seq(Messages) /\ 1 .. Len(inbox) = {}
    BY <2>1
  <2> QED
    BY <2>1, <2>3, <2>4 DEF LoopInv
<1>3. ScreenInv
  BY <1>1 DEF ScreenInv, Tab
<1>4. CursorInv
  BY <1>1 DEF CursorInv, T!Larger
<1>5. RamInv
  <2>1. o.bytes # Absent => o.bytes \in Nat
    BY CliAssumption DEF T!TuiAssumption, T!TuiInputs
  <2> QED
    BY <1>1, <2>1 DEF RamInv
<1>6. ctx_request \in T!Contexts
  BY <1>1 DEF T!Contexts
<1>7. T!PlansAreCurrent
  BY <1>1 DEF T!PlansAreCurrent, T!FitsOf, T!Device, T!PlacementsOf
<1> QED
  BY <1>2, <1>3, <1>4, <1>5, <1>6, <1>7 DEF TuiInv

\* Whatever keys are pressed and whatever is answered between them: fits and placements are of
\* the device, the catalogue, the dial, the budget and the machine on screen beside them, the
\* screen is a tab there is, the field has the focus on the models screen only, and no cursor
\* and no budget is beyond what there is.
THEOREM ScreenIsTrueHolds == CliSpec => []ScreenIsTrue
<1>1. CliInit => (command = "tui" => TuiInv)
  BY TuiBegins DEF CliInit
<1>2. (command = "tui" => TuiInv) /\ [CliNext]_cliVars => (command = "tui" => TuiInv)'
  BY StepKeepsTui
<1>3. (command = "tui" => TuiInv) => ScreenIsTrue
  <2> SUFFICES ASSUME TuiInv PROVE T!PlansAreCurrent /\ T!NothingDangles
    BY DEF ScreenIsTrue
  <2>1. \E i \in DOMAIN T!Screens : T!Screens[i] = screen
    BY TabsAre DEF TuiInv, ScreenInv
  <2> QED
    BY <2>1 DEF TuiInv, ScreenInv, CursorInv, RamInv, T!NothingDangles
<1> QED
  BY <1>1, <1>2, <1>3, PTL DEF CliSpec

-----------------------------------------------------------------------------
(* models: what a handle stands for.                                       *)

\* The catalogue counts as everybody does.
LEMMA SameCount ==
  \A set : C!Cardinality(set) = Cardinality(set) /\ (C!IsFiniteSet(set) <=> IsFiniteSet(set))
BY DEF C!Cardinality, Cardinality, C!IsFiniteSet, IsFiniteSet

\* An order of a set.
Ordered(set, before) ==
  /\ \A e \in set : <<e, e>> \notin before
  /\ \A d, e, f \in set : <<d, e>> \in before /\ <<e, f>> \in before => <<d, f>> \in before
  /\ \A d, e \in set : d = e \/ <<d, e>> \in before \/ <<e, d>> \in before

\* A finite set that is ordered is enumerated in that order, every element once.
LEMMA Enumerated ==
  ASSUME NEW set, IsFiniteSet(set), NEW before, Ordered(set, before)
  PROVE  /\ C!InOrder(set, before) \in Seq(set)
         /\ \A i, j \in DOMAIN C!InOrder(set, before) :
              C!InOrder(set, before)[i] = C!InOrder(set, before)[j] => i = j
         /\ \A e \in set : \E i \in DOMAIN C!InOrder(set, before) : C!InOrder(set, before)[i] = e
         /\ \A i, j \in DOMAIN C!InOrder(set, before) :
              i < j => <<C!InOrder(set, before)[i], C!InOrder(set, before)[j]>> \in before
         /\ DOMAIN C!InOrder(set, before) = 1 .. Cardinality(set)
<1> DEFINE below(e) == {f \in set : <<f, e>> \in before}
           n == Cardinality(set)
           rank == [e \in set |-> Cardinality(below(e)) + 1]
<1>1. n \in Nat
  BY FS_CardinalityType
<1>2. ASSUME NEW e \in set PROVE IsFiniteSet(below(e)) /\ Cardinality(below(e)) \in 0 .. n - 1
  <2>1. below(e) \in SUBSET set /\ e \notin below(e)
    BY DEF Ordered
  <2>2. IsFiniteSet(below(e)) /\ Cardinality(below(e)) <= n /\ Cardinality(below(e)) # n
    BY <2>1, FS_Subset
  <2>3. Cardinality(below(e)) \in Nat
    BY <2>2, FS_CardinalityType
  <2> HIDE DEF below, n
  <2> QED
    BY <1>1, <2>2, <2>3
<1>3. ASSUME NEW d \in set, NEW e \in set, <<d, e>> \in before
      PROVE  Cardinality(below(d)) < Cardinality(below(e))
  <2>1. below(d) \in SUBSET below(e) /\ d \in below(e) /\ d \notin below(d)
    BY <1>3 DEF Ordered
  <2>2. /\ Cardinality(below(d)) <= Cardinality(below(e))
        /\ Cardinality(below(d)) # Cardinality(below(e))
    BY <1>2, <2>1, FS_Subset
  <2>3. Cardinality(below(d)) \in Nat /\ Cardinality(below(e)) \in Nat
    BY <1>2, FS_CardinalityType
  <2> HIDE DEF below
  <2> QED
    BY <2>2, <2>3
<1>4. rank \in Injection(set, 1 .. n)
  <2>1. ASSUME NEW d \in set, NEW e \in set, rank[d] = rank[e] PROVE d = e
    <3>1. Cardinality(below(d)) = Cardinality(below(e))
      <4>1. Cardinality(below(d)) \in Nat /\ Cardinality(below(e)) \in Nat
        BY <1>2, FS_CardinalityType
      <4>2. Cardinality(below(d)) + 1 = Cardinality(below(e)) + 1
        BY <2>1
      <4> HIDE DEF below, rank
      <4> QED
        BY <4>1, <4>2
    <3>2. ~(Cardinality(below(d)) < Cardinality(below(d)))
      BY <1>2, FS_CardinalityType
    <3>3. <<d, e>> \notin before /\ <<e, d>> \notin before
      <4> HIDE DEF below, rank
      <4> QED
        BY <1>3, <3>1, <3>2
    <3> QED
      BY <3>3 DEF Ordered
  <2>2. \A e \in set : rank[e] \in 1 .. n
    <3> TAKE e \in set
    <3>1. Cardinality(below(e)) \in 0 .. n - 1
      BY <1>2
    <3>2. rank[e] = Cardinality(below(e)) + 1
      OBVIOUS
    <3> HIDE DEF below, rank, n
    <3> QED
      BY <1>1, <3>1, <3>2
  <2>3. rank \in [set -> 1 .. n]
    BY <2>2
  <2> HIDE DEF rank, n
  <2> QED
    BY <2>1, <2>3 DEF Injection, IsInjective
<1>5. rank \in Surjection(set, 1 .. n)
  <2>1. IsFiniteSet(1 .. n) /\ Cardinality(1 .. n) = n
    BY <1>1, FS_Interval
  <2> HIDE DEF rank
  <2> QED
    BY <1>4, <2>1, FS_Injection
<1>6. ASSUME NEW i \in 1 .. n
      PROVE  /\ C!InOrder(set, before)[i] \in set
             /\ rank[C!InOrder(set, before)[i]] = i
  <2>1. PICK e \in set : rank[e] = i
    BY <1>5 DEF Surjection
  <2>2. Cardinality(below(e)) = i - 1
    <3>1. Cardinality(below(e)) \in Nat /\ Cardinality(below(e)) + 1 = i
      BY <1>2, <2>1, FS_CardinalityType
    <3> HIDE DEF below
    <3> QED
      BY <3>1
  <2>3. C!InOrder(set, before)[i] =
          CHOOSE d \in set : C!Cardinality({f \in set : <<f, d>> \in before}) = i - 1
    BY SameCount DEF C!InOrder
  <2>4. /\ C!InOrder(set, before)[i] \in set
        /\ Cardinality(below(C!InOrder(set, before)[i])) = i - 1
    BY <2>2, <2>3, SameCount
  <2>5. rank[C!InOrder(set, before)[i]] = Cardinality(below(C!InOrder(set, before)[i])) + 1
    BY <2>4
  <2> HIDE DEF below, rank
  <2> QED
    BY <2>4, <2>5
<1>7. DOMAIN C!InOrder(set, before) = 1 .. n
  BY SameCount DEF C!InOrder
<1>8. C!InOrder(set, before) = [i \in 1 .. n |-> C!InOrder(set, before)[i]]
  <2> DEFINE pick(i) == CHOOSE d \in set : C!Cardinality({f \in set : <<f, d>> \in before}) = i - 1
  <2>1. C!InOrder(set, before) = [i \in 1 .. C!Cardinality(set) |-> pick(i)]
    BY DEF C!InOrder
  <2>2. C!Cardinality(set) = n
    BY SameCount
  <2> HIDE DEF pick, n
  <2> QED
    BY <2>1, <2>2
<1>9. C!InOrder(set, before) \in Seq(set)
  <2>1. \A i \in 1 .. n : C!InOrder(set, before)[i] \in set
    BY <1>6
  <2>2. C!InOrder(set, before) \in [1 .. n -> set]
    <3> HIDE DEF n
    <3> QED
      BY <1>8, <2>1
  <2> HIDE DEF n
  <2> QED
    BY <1>1, <2>2, SeqDef
<1>10. ASSUME NEW e \in set PROVE \E i \in 1 .. n : C!InOrder(set, before)[i] = e
  <2>1. rank[e] \in 1 .. n
    BY <1>4 DEF Injection
  <2>2. C!InOrder(set, before)[rank[e]] \in set /\ rank[C!InOrder(set, before)[rank[e]]] = rank[e]
    BY <1>6, <2>1
  <2> HIDE DEF rank, n
  <2> QED
    BY <1>4, <2>1, <2>2 DEF Injection, IsInjective
<1>11. ASSUME NEW i \in 1 .. n, NEW j \in 1 .. n, i < j
       PROVE  <<C!InOrder(set, before)[i], C!InOrder(set, before)[j]>> \in before
  <2> DEFINE d == C!InOrder(set, before)[i]
             e == C!InOrder(set, before)[j]
  <2>1. d \in set /\ e \in set /\ rank[d] = i /\ rank[e] = j
    BY <1>6
  <2>2. rank[d] = Cardinality(below(d)) + 1 /\ rank[e] = Cardinality(below(e)) + 1
    BY <2>1
  <2>3. Cardinality(below(d)) \in Nat /\ Cardinality(below(e)) \in Nat
    BY <1>2, <2>1, FS_CardinalityType
  <2> HIDE DEF below, rank, n, d, e
  <2>4. Cardinality(below(d)) < Cardinality(below(e)) /\ d # e
    BY <1>11, <2>1, <2>2, <2>3
  <2>5. <<e, d>> \notin before
    BY <1>3, <2>1, <2>3, <2>4
  <2>6. <<d, e>> \in before
    BY <2>1, <2>4, <2>5 DEF Ordered
  <2> QED
    BY <2>6 DEF d, e
<1> HIDE DEF rank
<1> QED
  BY <1>6, <1>7, <1>9, <1>10, <1>11

\* What a file may hold, and what a scan reads of one.
Holdings == Contents \cup UNION {{d[f] : f \in DOMAIN d} : d \in Directories}
CardOf(f, holds) == [id |-> f.stem, file |-> f, holds |-> holds]
ReadCards == {CardOf(f, holds) : f \in Files, holds \in Holdings}

\* A card's handle without its tag.
Short(card) == C!WithoutQuantTag(CardOf(card.file, card.holds))

\* Cards as a command lists them.
Handled(all) == \E read \in Seq(ReadCards) : all = C!ShortenHandles(read)

\* A handle is the file's name or the short one, and then nobody else's name shortens to it.
LEMMA HandlesAre ==
  ASSUME NEW all, Handled(all)
  PROVE  /\ DOMAIN all \subseteq Nat /\ IsFiniteSet(DOMAIN all)
         /\ \A i \in DOMAIN all : all[i].file \in Files /\ all[i].holds \in Holdings
         /\ \A i \in DOMAIN all : all[i].id \in {all[i].file.stem, Short(all[i])}
         /\ \A i, j \in DOMAIN all :
              all[i].id # all[i].file.stem /\ Short(all[j]) = all[i].id => i = j
<1>1. PICK read \in Seq(ReadCards) : all = C!ShortenHandles(read)
  BY DEF Handled
<1> DEFINE n == Len(read)
<1>2. n \in Nat /\ DOMAIN read = 1 .. n /\ \A i \in 1 .. n : read[i] \in ReadCards
  BY <1>1
<1>3. all = [i \in 1 .. n |-> all[i]] /\ DOMAIN all = 1 .. n
  BY <1>1, <1>2 DEF C!ShortenHandles
<1>4. ASSUME NEW i \in 1 .. n
      PROVE  /\ read[i] = CardOf(read[i].file, read[i].holds)
             /\ read[i].file \in Files /\ read[i].holds \in Holdings
             /\ read[i].id = read[i].file.stem
  BY <1>2 DEF ReadCards, CardOf
<1>5. ASSUME NEW i \in 1 .. n
      PROVE  all[i] = IF C!Claimed(read, C!WithoutQuantTag(read[i])) = 1
                      THEN [read[i] EXCEPT !.id = C!WithoutQuantTag(read[i])] ELSE read[i]
  BY <1>1, <1>2 DEF C!ShortenHandles
<1>6. ASSUME NEW i \in 1 .. n
      PROVE  /\ all[i].file = read[i].file /\ all[i].holds = read[i].holds
             /\ Short(all[i]) = C!WithoutQuantTag(read[i])
             /\ \/ all[i].id = read[i].file.stem
                \/ all[i].id = Short(all[i]) /\ C!Claimed(read, Short(all[i])) = 1
             /\ all[i] = [id |-> all[i].id, file |-> all[i].file, holds |-> all[i].holds]
  <2>1. /\ [read[i] EXCEPT !.id = C!WithoutQuantTag(read[i])]
             = [id |-> C!WithoutQuantTag(read[i]), file |-> read[i].file, holds |-> read[i].holds]
        /\ read[i] = [id |-> read[i].file.stem, file |-> read[i].file, holds |-> read[i].holds]
    BY <1>4 DEF CardOf
  <2>2. CASE C!Claimed(read, C!WithoutQuantTag(read[i])) = 1
    <3>1. all[i] = [id |-> C!WithoutQuantTag(read[i]), file |-> read[i].file,
                    holds |-> read[i].holds]
      BY <1>5, <2>1, <2>2
    <3>2. all[i].file = read[i].file /\ all[i].holds = read[i].holds
      BY <3>1
    <3>3. Short(all[i]) = C!WithoutQuantTag(read[i])
      BY <1>4, <3>2 DEF Short
    <3> QED
      BY <2>2, <3>1, <3>2, <3>3
  <2>3. CASE C!Claimed(read, C!WithoutQuantTag(read[i])) # 1
    <3>1. all[i] = [id |-> read[i].file.stem, file |-> read[i].file, holds |-> read[i].holds]
      BY <1>5, <2>1, <2>3
    <3>2. all[i].file = read[i].file /\ all[i].holds = read[i].holds
      BY <3>1
    <3>3. Short(all[i]) = C!WithoutQuantTag(read[i])
      BY <1>4, <3>2 DEF Short
    <3> QED
      BY <3>1, <3>2, <3>3
  <2> QED
    BY <2>2, <2>3
<1>7. /\ DOMAIN all \subseteq Nat /\ IsFiniteSet(DOMAIN all)
      /\ \A i \in DOMAIN all : all[i].file \in Files /\ all[i].holds \in Holdings
  <2>1. IsFiniteSet(1 .. n) /\ 1 .. n \subseteq Nat
    BY <1>2, FS_Interval
  <2>2. \A i \in 1 .. n : all[i].file \in Files /\ all[i].holds \in Holdings
    BY <1>4, <1>6
  <2> QED
    BY <1>3, <2>1, <2>2
<1>8. \A i \in DOMAIN all : all[i].id \in {all[i].file.stem, Short(all[i])}
  BY <1>3, <1>6
<1>9. ASSUME NEW i \in DOMAIN all, NEW j \in DOMAIN all,
             all[i].id # all[i].file.stem, Short(all[j]) = all[i].id
      PROVE  i = j
  <2>1. all[i].id = Short(all[i]) /\ C!Claimed(read, Short(all[i])) = 1
    BY <1>3, <1>6, <1>9
  <2> DEFINE claim == {k \in DOMAIN read : C!WithoutQuantTag(read[k]) = Short(all[i])}
  <2>2. i \in claim /\ j \in claim
    BY <1>2, <1>3, <1>6, <1>9, <2>1
  <2>3. Cardinality(claim) = 1
    BY <2>1, SameCount DEF C!Claimed
  <2>4. IsFiniteSet(claim)
    <3>1. IsFiniteSet(1 .. n)
      BY <1>2, FS_Interval
    <3>2. claim \in SUBSET (1 .. n)
      BY <1>2
    <3> QED
      BY <3>1, <3>2, FS_Subset
  <2> HIDE DEF claim
  <2> QED
    BY <2>2, <2>3, <2>4, FS_Singleton
<1> QED
  BY <1>7, <1>8, <1>9

\* The short form of a name: the name without its last part, when that is the quantisation.
LEMMA ShortIs ==
  ASSUME NEW card, card.file.stem \in Seq(C!Range(card.file.stem))
  PROVE  \/ Short(card) = card.file.stem
         \/ /\ Len(card.file.stem) > 1
            /\ C!Tag(card.file.stem) = card.holds.quant
            /\ Short(card) = C!Untagged(card.file.stem)
            /\ Len(Short(card)) = Len(card.file.stem) - 1
            /\ C!Mentions(card.file.stem, Short(card))
<1> DEFINE stem == card.file.stem
<1>1. Short(card) = IF Len(stem) > 1 /\ C!Tag(stem) = card.holds.quant
                    THEN C!Untagged(stem) ELSE stem
  BY DEF Short, CardOf, C!WithoutQuantTag
<1>2. CASE Len(stem) > 1 /\ C!Tag(stem) = card.holds.quant
  <2>1. Short(card) = C!Untagged(stem)
    BY <1>1, <1>2
  <2>2. C!Untagged(stem) = SubSeq(stem, 1, Len(stem) - 1)
    BY DEF C!Untagged
  <2>3. Len(stem) \in Nat /\ Len(C!Untagged(stem)) = Len(stem) - 1
    BY <1>2, <2>2
  <2>4. C!Mentions(stem, C!Untagged(stem))
    <3>1. 0 \in 0 .. Len(stem) - Len(C!Untagged(stem))
      BY <2>3
    <3>2. SubSeq(stem, 0 + 1, 0 + Len(C!Untagged(stem))) = C!Untagged(stem)
      BY <2>2, <2>3
    <3> QED
      BY <3>1, <3>2 DEF C!Mentions
  <2> QED
    BY <1>2, <2>1, <2>3, <2>4
<1>3. CASE ~(Len(stem) > 1 /\ C!Tag(stem) = card.holds.quant)
  BY <1>1, <1>3
<1> QED
  BY <1>2, <1>3

\* Where no two names are alike and none is another with its tag twice, no two handles are.
LEMMA HandlesDiffer ==
  ASSUME NEW all, Handled(all), C!Plain(all), NEW i \in DOMAIN all, NEW j \in DOMAIN all,
         all[i].id = all[j].id
  PROVE  i = j
<1>1. DOMAIN all \subseteq Nat /\ \A k \in DOMAIN all : all[k].file \in Files
  BY HandlesAre
<1>2. \A k \in DOMAIN all : all[k].file.stem \in Seq(C!Range(all[k].file.stem))
  BY <1>1, CliAssumption DEF C!CatalogAssumption
<1>3. \A k \in DOMAIN all : all[k].id \in {all[k].file.stem, Short(all[k])}
  BY HandlesAre
<1>4. ASSUME NEW k \in DOMAIN all, NEW m \in DOMAIN all, all[k].file.stem = all[m].file.stem
      PROVE  k = m
  BY <1>1, <1>4 DEF C!Plain, C!Twins
<1>5. ASSUME NEW k \in DOMAIN all, NEW m \in DOMAIN all,
             all[k].id = all[m].id, all[m].id # all[m].file.stem
      PROVE  k = m
  <2>1. CASE all[k].id = Short(all[k])
    BY <1>5, <2>1, HandlesAre
  <2>2. CASE all[k].id = all[k].file.stem /\ all[k].id # Short(all[k])
    <3>1. C!Tag(all[k].file.stem) = all[k].holds.quant
      BY <1>2, <2>2, ShortIs
    <3>2. /\ Len(all[m].file.stem) > 1
          /\ C!Untagged(all[m].file.stem) = all[m].id
      BY <1>2, <1>3, <1>5, ShortIs
    <3> QED
      BY <1>5, <2>2, <3>1, <3>2 DEF C!Plain, C!Nested
  <2> QED
    BY <1>3, <2>1, <2>2
<1> QED
  BY <1>3, <1>4, <1>5

\* The card a name was resolved to.
Meant(w, m) ==
  /\ m \in DOMAIN cards /\ got.file = {cards[m].file}
  /\ \/ C!Named(cards[m], w)
     \/ /\ ~w.ext /\ C!Mentions(cards[m].id, w.text)
        /\ \A i \in DOMAIN cards :
             ~C!Named(cards[i], w) /\ (C!Mentions(cards[i].id, w.text) => i = m)

\* What a listed handle comes to mean.
LEMMA HandleKept ==
  ASSUME Handled(cards), Handled(listing), C!Plain(cards),
         NEW w, ~w.ext, NEW m, Meant(w, m),
         NEW i \in DOMAIN listing, NEW b \in DOMAIN cards, NEW k \in DOMAIN cards,
         got.file = {cards[k].file}, listing[i].id = w.text,
         cards[b].file = listing[i].file, cards[b].holds = listing[i].holds
  PROVE  \/ cards[k] = cards[b] \/ cards[k].file.stem = w.text
         \/ Len(cards[b].id) < Len(w.text) /\ C!Mentions(cards[k].id, w.text)
<1> DEFINE stem == cards[b].file.stem
           short == Short(cards[b])
<1>1. /\ \A j \in DOMAIN cards :
           /\ cards[j].file \in Files /\ cards[j].file.stem \in Seq(C!Range(cards[j].file.stem))
           /\ cards[j].id \in {cards[j].file.stem, Short(cards[j])}
      /\ DOMAIN cards \subseteq Nat
  BY HandlesAre, CliAssumption DEF C!CatalogAssumption
<1>2. m = k
  <2>1. cards[m].file = cards[k].file /\ m \in DOMAIN cards
    BY DEF Meant
  <2>2. m \in Nat /\ k \in Nat /\ ~(m < k) /\ ~(k < m)
    BY <1>1, <2>1 DEF C!Plain, C!Twins
  <2> QED
    BY <2>2
<1>3. w.text \in {stem, short} /\ cards[b].id \in {stem, short}
  BY <1>1, HandlesAre DEF Short
<1>4. \A j \in DOMAIN cards : C!Named(cards[j], w) <=> cards[j].id = w.text
  BY DEF C!Named
<1>5. CASE cards[b].id = w.text
  BY <1>2, <1>4, <1>5, HandlesDiffer DEF Meant
<1>6. CASE cards[b].id # w.text /\ w.text = short
  <2>1. cards[b].id = stem /\ C!Mentions(cards[b].id, w.text)
    BY <1>1, <1>3, <1>6, ShortIs
  <2>2. CASE cards[k].id = w.text
    BY <1>1, <1>6, <2>2, HandlesAre
  <2>3. CASE cards[k].id # w.text
    BY <1>2, <1>4, <2>1, <2>3 DEF Meant
  <2> QED
    BY <2>2, <2>3
<1>7. CASE cards[b].id # w.text /\ w.text = stem
  <2>1. /\ cards[b].id = short /\ short # stem
        /\ C!Tag(stem) = cards[b].holds.quant /\ Len(cards[b].id) < Len(w.text)
    BY <1>1, <1>3, <1>7, ShortIs
  <2>2. CASE cards[k].id = w.text
    <3>1. CASE cards[k].file.stem # w.text
      <4>1. Len(cards[k].file.stem) > 1 /\ C!Untagged(cards[k].file.stem) = stem
        BY <1>1, <1>7, <2>2, <3>1, ShortIs
      <4> QED
        BY <2>1, <4>1 DEF C!Plain, C!Nested
    <3> QED
      BY <3>1
  <2>3. CASE cards[k].id # w.text
    BY <1>2, <1>4, <2>1, <2>3 DEF Meant
  <2> QED
    BY <2>2, <2>3
<1> QED
  BY <1>3, <1>5, <1>6, <1>7

-----------------------------------------------------------------------------
(* models: the scans, and what is asked.                                   *)

\* The directory is one.
DirInv ==
  /\ DOMAIN dir \subseteq Files /\ C!IsFiniteSet(DOMAIN dir)
  /\ \A f \in DOMAIN dir : dir[f] \in Holdings

\* A scan reads every path once.
ScanInv ==
  /\ paths \in Seq(Files) /\ cards \in Seq(ReadCards)
  /\ \A i, j \in DOMAIN paths : paths[i] = paths[j] => i = j
  /\ \A i, j \in DOMAIN cards : cards[i].file = cards[j].file => i = j
  /\ \A i \in DOMAIN paths, j \in DOMAIN cards : paths[i] # cards[j].file

\* What was listed is cards with handles, and so is what a name is looked up in.
NamesInv ==
  /\ Handled(listing)
  /\ cpc \in {"ask", "resolve"} => Handled(cards)
  /\ \A v, w \in want : v = w
  /\ cpc # "done" => got = C!NoCard
  /\ cpc = "done" /\ got.is = "found" =>
       Handled(cards) /\ \E w \in want : \E m \in DOMAIN cards : Meant(w, m)

\* What a selector was taken for.
ChosenInv ==
  /\ edits \in Nat
  /\ chosen.is = "found" =>
       /\ cpc \in {"confirm", "done"}
       /\ \E s \in want, f \in chosen.file :
            /\ chosen.file = {f}
            /\ s.exact => f = s.text
            /\ ~s.exact /\ cpc = "confirm" /\ edits = 0 => C!Hits(s) = {f}
            /\ cpc = "done" => f \in repo

\* The inductive invariant of the catalogue.
CatalogInv ==
  /\ DirInv /\ (cpc = "read" => ScanInv) /\ NamesInv /\ ChosenInv

\* Nothing is listed yet.
LEMMA CatalogBegins ==
  ASSUME C!CatalogInit
  PROVE  CatalogInv
<1>1. /\ dir \in Directories
      /\ edits = 0 /\ cpc \in {"list", "select"} /\ listing = <<>> /\ want = {}
      /\ got = C!NoCard /\ chosen = C!NoCard
  BY DEF C!CatalogInit
<1>2. DirInv
  <2>1. DOMAIN dir \subseteq Files /\ C!IsFiniteSet(DOMAIN dir)
    BY <1>1, CliAssumption DEF C!CatalogAssumption
  <2>2. \A f \in DOMAIN dir : dir[f] \in Holdings
    BY <1>1 DEF Holdings
  <2> QED
    BY <2>1, <2>2 DEF DirInv
<1>3. Handled(listing)
  <2>1. <<>> \in Seq(ReadCards) /\ DOMAIN <<>> = {}
    OBVIOUS
  <2>2. C!ShortenHandles(<<>>) = <<>>
    BY <2>1 DEF C!ShortenHandles
  <2> QED
    BY <1>1, <2>1, <2>2 DEF Handled
<1>4. NamesInv /\ ChosenInv
  BY <1>1, <1>3 DEF NamesInv, ChosenInv, C!NoCard
<1> QED
  BY <1>1, <1>2, <1>4 DEF CatalogInv

\* The directory is edited while nobody has read all of it.
LEMMA EditKeeps == CatalogInv /\ C!Edit => CatalogInv'
<1> SUFFICES ASSUME CatalogInv, C!Edit PROVE CatalogInv'
  OBVIOUS
<1>1. /\ UNCHANGED <<cpc, paths, cards, skipped, listing, want, got, repo, chosen>>
      /\ edits' = edits + 1
  BY DEF C!Edit, C!scan
<1>2. DirInv'
  <2>1. CASE \E f \in DOMAIN dir : dir' = [g \in DOMAIN dir \ {f} |-> dir[g]]
    <3>1. PICK f \in DOMAIN dir : dir' = [g \in DOMAIN dir \ {f} |-> dir[g]]
      BY <2>1
    <3>2. DOMAIN dir' = DOMAIN dir \ {f} /\ \A g \in DOMAIN dir' : dir'[g] = dir[g]
      BY <3>1
    <3>3. C!IsFiniteSet(DOMAIN dir')
      BY <3>2, FS_RemoveElement, SameCount DEF CatalogInv, DirInv
    <3> QED
      BY <3>2, <3>3 DEF CatalogInv, DirInv
  <2>2. CASE \E f \in Files, h \in Contents :
               dir' = [g \in DOMAIN dir \cup {f} |-> IF g = f THEN h ELSE dir[g]]
    <3>1. PICK f \in Files, h \in Contents :
             dir' = [g \in DOMAIN dir \cup {f} |-> IF g = f THEN h ELSE dir[g]]
      BY <2>2
    <3>2. /\ DOMAIN dir' = DOMAIN dir \cup {f}
          /\ \A g \in DOMAIN dir' : dir'[g] = h \/ (g \in DOMAIN dir /\ dir'[g] = dir[g])
      BY <3>1
    <3>3. C!IsFiniteSet(DOMAIN dir')
      BY <3>2, FS_AddElement, SameCount DEF CatalogInv, DirInv
    <3>4. h \in Holdings
      BY DEF Holdings
    <3> QED
      BY <3>2, <3>3, <3>4 DEF CatalogInv, DirInv
  <2> QED
    BY <2>1, <2>2 DEF C!Edit
<1>3. NamesInv'
  BY <1>1 DEF CatalogInv, NamesInv, Meant
<1>4. ChosenInv'
  <2>1. edits' \in Nat /\ cpc # "confirm"
    BY <1>1 DEF C!Edit, CatalogInv, ChosenInv
  <2> QED
    BY <1>1, <2>1 DEF CatalogInv, ChosenInv
<1>5. cpc' = "read" => ScanInv'
  BY <1>1 DEF CatalogInv, ScanInv
<1> QED
  BY <1>2, <1>3, <1>4, <1>5 DEF CatalogInv

\* What is chosen is chosen before somebody publishes again.
LEMMA PublishesKeeps == CatalogInv /\ C!Publish => CatalogInv'
<1> SUFFICES ASSUME CatalogInv, C!Publish PROVE CatalogInv'
  OBVIOUS
<1>1. /\ UNCHANGED <<dir, cpc, paths, cards, skipped, listing, want, got, chosen>>
      /\ edits' = edits + 1 /\ cpc = "confirm"
  BY DEF C!Publish, C!scan
<1>2. edits' \in Nat /\ edits' # 0
  BY <1>1 DEF CatalogInv, ChosenInv
<1>3. ChosenInv'
  BY <1>1, <1>2 DEF CatalogInv, ChosenInv
<1> QED
  BY <1>1, <1>3 DEF CatalogInv, DirInv, NamesInv, Meant

\* The paths are the directory's, in order.
LEMMA ListPathsKeeps == CatalogInv /\ C!ListPaths => CatalogInv'
<1> SUFFICES ASSUME CatalogInv, C!ListPaths PROVE CatalogInv'
  OBVIOUS
<1>1. /\ UNCHANGED <<dir, edits, listing, want, got, repo, chosen>>
      /\ cpc = "list" /\ cpc' = "read" /\ cards' = <<>>
      /\ paths' = C!InOrder(DOMAIN dir, C!Earlier(DOMAIN dir))
  BY DEF C!ListPaths
<1>2. DOMAIN dir \subseteq Files /\ IsFiniteSet(DOMAIN dir)
  BY SameCount DEF CatalogInv, DirInv
<1>3. Ordered(DOMAIN dir, C!Earlier(DOMAIN dir))
  <2>1. \A f \in DOMAIN dir : f.place \in Nat
    BY <1>2, CliAssumption DEF C!CatalogAssumption
  <2>2. \A f, g \in DOMAIN dir : f.place = g.place => f = g
    BY <1>2, CliAssumption DEF C!CatalogAssumption
  <2>3. \A f, g \in DOMAIN dir : <<f, g>> \in C!Earlier(DOMAIN dir) <=> f.place < g.place
    BY DEF C!Earlier
  <2> QED
    BY <2>1, <2>2, <2>3 DEF Ordered
<1>4. /\ paths' \in Seq(DOMAIN dir)
      /\ \A i, j \in DOMAIN paths' : paths'[i] = paths'[j] => i = j
  BY <1>1, <1>2, <1>3, Enumerated
<1>5. paths' \in Seq(Files)
  BY <1>2, <1>4
<1>6. ScanInv'
  <2>1. cards' \in Seq(ReadCards) /\ DOMAIN cards' = {}
    BY <1>1
  <2> QED
    BY <1>4, <1>5, <2>1 DEF ScanInv
<1> QED
  BY <1>1, <1>6 DEF CatalogInv, DirInv, NamesInv, ChosenInv

\* A file is read once.
LEMMA ReadCardKeeps == CatalogInv /\ C!ReadCard => CatalogInv'
<1> SUFFICES ASSUME CatalogInv, C!ReadCard PROVE CatalogInv'
  OBVIOUS
<1> DEFINE f == Head(paths)
<1>1. /\ UNCHANGED <<dir, edits, cpc, listing, want, got, repo, chosen>>
      /\ cpc = "read" /\ paths # <<>> /\ paths' = Tail(paths) /\ ScanInv
      /\ \/ /\ f \in DOMAIN dir
            /\ cards' = Append(cards, [id |-> f.stem, file |-> f, holds |-> dir[f]])
         \/ cards' = cards
  BY DEF C!ReadCard, CatalogInv
<1>2. /\ paths' \in Seq(Files) /\ f = paths[1] /\ f \in Files /\ 1 \in DOMAIN paths
      /\ \A i \in DOMAIN paths' : i + 1 \in DOMAIN paths /\ paths'[i] = paths[i + 1] /\ i \in Nat
      /\ DOMAIN paths \subseteq Nat
  <2>1. paths \in Seq(Files) /\ paths # <<>>
    BY <1>1 DEF ScanInv
  <2>2. Len(paths) \in Nat \ {0} /\ Len(Tail(paths)) = Len(paths) - 1 /\ DOMAIN paths = 1 .. Len(paths)
    BY <2>1
  <2>3. Tail(paths) \in Seq(Files) /\ Head(paths) = paths[1] /\ paths[1] \in Files
    BY <2>1, <2>2
  <2>4. ASSUME NEW i \in DOMAIN Tail(paths)
        PROVE  i \in Nat /\ i + 1 \in DOMAIN paths /\ Tail(paths)[i] = paths[i + 1]
    BY <2>1, <2>2, <2>3
  <2> QED
    BY <1>1, <2>2, <2>3, <2>4
<1>3. /\ \A i, j \in DOMAIN paths' : paths'[i] = paths'[j] => i = j
      /\ \A i \in DOMAIN paths' : paths'[i] # f
  <2>1. \A i, j \in DOMAIN paths : paths[i] = paths[j] => i = j
    BY <1>1 DEF ScanInv
  <2>2. ASSUME NEW i \in DOMAIN paths', NEW j \in DOMAIN paths', paths'[i] = paths'[j]
        PROVE  i = j
    <3>1. i + 1 = j + 1 /\ i \in Nat /\ j \in Nat
      BY <1>2, <2>1, <2>2
    <3> QED
      BY <3>1
  <2>3. ASSUME NEW i \in DOMAIN paths', paths'[i] = f
        PROVE  FALSE
    <3>1. i + 1 = 1 /\ i \in Nat /\ i \in DOMAIN paths'
      BY <1>2, <2>1, <2>3
    <3>2. i # 0
      <4>1. DOMAIN paths' = 1 .. Len(paths')
        BY <1>2
      <4> QED
        BY <4>1
    <3> QED
      BY <3>1, <3>2
  <2> QED
    BY <2>2, <2>3
<1>4. CASE cards' = cards
  <2>1. ScanInv'
    BY <1>1, <1>2, <1>3, <1>4 DEF ScanInv
  <2> QED
    BY <1>1, <2>1 DEF CatalogInv, DirInv, NamesInv, ChosenInv
<1>5. CASE f \in DOMAIN dir /\ cards' = Append(cards, [id |-> f.stem, file |-> f, holds |-> dir[f]])
  <2> DEFINE card == [id |-> f.stem, file |-> f, holds |-> dir[f]]
  <2>1. card \in ReadCards /\ card.file = f
    BY <1>2, <1>5 DEF CatalogInv, DirInv, ReadCards, CardOf
  <2>2. cards \in Seq(ReadCards)
    BY <1>1 DEF ScanInv
  <2>3. /\ cards' \in Seq(ReadCards) /\ Len(cards') = Len(cards) + 1 /\ Len(cards) \in Nat
        /\ DOMAIN cards' = 1 .. Len(cards) + 1 /\ DOMAIN cards = 1 .. Len(cards)
        /\ cards'[Len(cards) + 1] = card
        /\ \A i \in DOMAIN cards : cards'[i] = cards[i]
    <3> HIDE DEF card
    <3> QED
      BY <1>5, <2>1, <2>2 DEF card
  <2>4. \A i \in DOMAIN cards' : \/ i \in DOMAIN cards /\ cards'[i] = cards[i]
                                 \/ i = Len(cards) + 1 /\ cards'[i] = card
    <3>1. \A i \in 1 .. Len(cards) + 1 : i \in 1 .. Len(cards) \/ i = Len(cards) + 1
      BY <2>3
    <3> HIDE DEF card
    <3> QED
      BY <2>3, <3>1
  <2>5. \A i \in DOMAIN cards : cards[i].file # f
    BY <1>1, <1>2 DEF ScanInv
  <2>6. \A i, j \in DOMAIN cards' : cards'[i].file = cards'[j].file => i = j
    <3> HIDE DEF card
    <3> QED
      BY <1>1, <2>1, <2>4, <2>5 DEF ScanInv
  <2>7. \A i \in DOMAIN paths', j \in DOMAIN cards' : paths'[i] # cards'[j].file
    <3> HIDE DEF card
    <3> QED
      BY <1>1, <1>2, <1>3, <2>1, <2>4 DEF ScanInv
  <2>8. ScanInv'
    BY <1>2, <1>3, <2>3, <2>6, <2>7 DEF ScanInv
  <2> QED
    BY <1>1, <2>8 DEF CatalogInv, DirInv, NamesInv, ChosenInv
<1> QED
  BY <1>1, <1>4, <1>5

\* What was read is put in order and given handles.
LEMMA ShortenKeeps == CatalogInv /\ C!Shorten => CatalogInv'
<1> SUFFICES ASSUME CatalogInv, C!Shorten PROVE CatalogInv'
  OBVIOUS
<1> DEFINE set == C!Range(cards)
<1>1. /\ UNCHANGED <<dir, edits, want, got, repo, chosen>>
      /\ cpc = "read" /\ cards' = C!ShortenHandles(C!Sorted(cards)) /\ ScanInv
      /\ \/ listing' = cards' /\ cpc' = "ask"
         \/ listing' = listing /\ cpc' = "resolve"
  BY DEF C!Shorten, CatalogInv
<1>2. /\ cards \in Seq(ReadCards)
      /\ \A i, j \in DOMAIN cards : cards[i].file = cards[j].file => i = j
  BY <1>1 DEF ScanInv
<1>3. set = {cards[i] : i \in DOMAIN cards} /\ set \subseteq ReadCards
  BY <1>2 DEF C!Range
<1>4. IsFiniteSet(set)
  <2>1. Len(cards) \in Nat /\ DOMAIN cards = 1 .. Len(cards) /\ IsFiniteSet(DOMAIN cards)
    BY <1>2, FS_Interval
  <2> DEFINE placed == [i \in DOMAIN cards |-> cards[i]]
  <2>2. placed \in Surjection(DOMAIN cards, set)
    BY <1>3 DEF Surjection
  <2> HIDE DEF placed, set
  <2> QED
    BY <2>1, <2>2, FS_Surjection
<1>5. \A d, e \in set : d.file = e.file => d = e
  BY <1>2, <1>3
<1>6. \A d \in set : d.file \in Files /\ d.holds \in Holdings
  BY <1>3 DEF ReadCards, CardOf
<1>7. Ordered(set, C!Bigger(set))
  <2>1. \A h \in Holdings : h.bytes \in Nat
    BY CliAssumption DEF C!CatalogAssumption, Holdings
  <2>2. /\ \A f \in Files : f.place \in Nat
        /\ \A f, g \in Files : f.place = g.place => f = g
    BY CliAssumption DEF C!CatalogAssumption
  <2>3. \A d \in set : d.file.place \in Nat /\ d.holds.bytes \in Nat
    BY <1>6, <2>1, <2>2
  <2>4. \A d, e \in set : d.file.place = e.file.place => d = e
    BY <1>5, <1>6, <2>2
  <2>5. \A d, e \in set : <<d, e>> \in C!Bigger(set)
                            <=> \/ d.holds.bytes > e.holds.bytes
                                \/ d.holds.bytes = e.holds.bytes /\ d.file.place < e.file.place
    BY DEF C!Bigger
  <2> HIDE DEF set
  <2>6. \A e \in set : <<e, e>> \notin C!Bigger(set)
    BY <2>3, <2>5
  <2>7. \A d, e, f \in set : <<d, e>> \in C!Bigger(set) /\ <<e, f>> \in C!Bigger(set)
                               => <<d, f>> \in C!Bigger(set)
    BY <2>3, <2>5
  <2>8. \A d, e \in set : d = e \/ <<d, e>> \in C!Bigger(set) \/ <<e, d>> \in C!Bigger(set)
    <3> TAKE d, e \in set
    <3>1. d.file.place = e.file.place => d = e
      BY <2>4
    <3>2. /\ d.holds.bytes \in Nat /\ e.holds.bytes \in Nat
          /\ d.file.place \in Nat /\ e.file.place \in Nat
      BY <2>3
    <3>3. \/ d.holds.bytes > e.holds.bytes \/ e.holds.bytes > d.holds.bytes
          \/ /\ d.holds.bytes = e.holds.bytes
             /\ \/ d.file.place < e.file.place \/ e.file.place < d.file.place
                \/ d.file.place = e.file.place
      BY <3>2
    <3> QED
      BY <2>5, <3>1, <3>3
  <2> QED
    BY <2>6, <2>7, <2>8 DEF Ordered
<1>8. C!Sorted(cards) \in Seq(set)
  BY <1>4, <1>7, Enumerated DEF C!Sorted
<1>9. Handled(cards')
  <2>1. C!Sorted(cards) \in Seq(ReadCards)
    BY <1>3, <1>8
  <2> QED
    BY <1>1, <2>1 DEF Handled
<1>10. NamesInv'
  BY <1>1, <1>9 DEF CatalogInv, NamesInv
<1> QED
  BY <1>1, <1>10 DEF CatalogInv, DirInv, ChosenInv

\* One name is asked for.
LEMMA AskKeeps == CatalogInv /\ C!Ask => CatalogInv'
<1> SUFFICES ASSUME CatalogInv, C!Ask PROVE CatalogInv'
  OBVIOUS
<1>1. /\ UNCHANGED <<dir, edits, listing, got, repo, chosen>>
      /\ cpc = "ask" /\ cpc' = "list" /\ \E w : want' = {w}
  BY DEF C!Ask
<1>2. \A v, w \in want' : v = w
  BY <1>1
<1> QED
  BY <1>1, <1>2 DEF CatalogInv, DirInv, NamesInv, ChosenInv

\* The only card, or the first, that a name is for.
LEMMA ResolveKeeps == CatalogInv /\ C!Resolve => CatalogInv'
<1> SUFFICES ASSUME CatalogInv, C!Resolve PROVE CatalogInv'
  OBVIOUS
<1>1. /\ UNCHANGED <<dir, edits, cards, listing, want, repo, chosen>>
      /\ cpc = "resolve" /\ cpc' = "done" /\ Handled(cards)
  BY DEF C!Resolve, C!scan, CatalogInv, NamesInv
<1> DEFINE exact(w) == {i \in DOMAIN cards : C!Named(cards[i], w)}
           hits(w) == {i \in DOMAIN cards : ~w.ext /\ C!Mentions(cards[i].id, w.text)}
<1>2. PICK w \in want :
        got' = CASE exact(w) # {} -> C!Found(cards[C!Min(exact(w))].file)
                 [] exact(w) = {} /\ C!Cardinality(hits(w)) = 1 ->
                      C!Found(cards[C!Min(hits(w))].file)
                 [] exact(w) = {} /\ hits(w) = {} -> C!Error("no model")
                 [] OTHER -> C!Error("several")
  BY DEF C!Resolve
<1>3. DOMAIN cards \subseteq Nat
  BY <1>1, HandlesAre
<1>4. \A set \in SUBSET Nat : set # {} => C!Min(set) \in set
  BY LeastOf DEF C!Min
<1>5. CASE exact(w) # {}
  <2>1. C!Min(exact(w)) \in exact(w)
    BY <1>3, <1>4, <1>5
  <2>2. PICK m \in exact(w) : got' = C!Found(cards[m].file)
    <3> HIDE DEF exact, hits
    <3> QED
      BY <1>2, <1>5, <2>1
  <2>3. Meant(w, m)'
    <3>1. m \in DOMAIN cards' /\ got' = [is |-> "found", file |-> {cards'[m].file}]
      BY <1>1, <2>2 DEF C!Found
    <3>2. C!Named(cards[m], w)'
      BY <1>1, <2>2 DEF C!Named
    <3> QED
      BY <3>1, <3>2 DEF Meant
  <2> QED
    BY <1>1, <2>2, <2>3 DEF CatalogInv, NamesInv, DirInv, ChosenInv
<1>6. CASE exact(w) = {} /\ C!Cardinality(hits(w)) = 1
  <2>1. IsFiniteSet(hits(w))
    <3>1. IsFiniteSet(DOMAIN cards)
      BY <1>1, HandlesAre
    <3> QED
      BY <3>1, FS_Subset
  <2>2. Cardinality(hits(w)) = 1
    BY <1>6, SameCount
  <2>3. PICK k : hits(w) = {k}
    BY <2>1, <2>2, FS_Singleton
  <2>4. C!Min(hits(w)) \in hits(w)
    BY <1>3, <1>4, <2>3
  <2>5. /\ k \in DOMAIN cards /\ ~w.ext /\ C!Mentions(cards[k].id, w.text)
        /\ \A i \in DOMAIN cards : C!Mentions(cards[i].id, w.text) => i = k
        /\ \A i \in DOMAIN cards : ~C!Named(cards[i], w)
    BY <1>6, <2>3
  <2>6. got' = C!Found(cards[k].file)
    <3>1. C!Min(hits(w)) = k /\ hits(w) # {}
      BY <2>3, <2>4
    <3> HIDE DEF exact, hits
    <3> QED
      BY <1>2, <1>6, <3>1
  <2>7. Meant(w, k)'
    <3>1. k \in DOMAIN cards' /\ got' = [is |-> "found", file |-> {cards'[k].file}]
      BY <1>1, <2>5, <2>6 DEF C!Found
    <3>2. /\ C!Mentions(cards[k].id, w.text)'
          /\ \A i \in DOMAIN cards' :
               ~C!Named(cards[i], w)' /\ (C!Mentions(cards[i].id, w.text)' => i = k)
      BY <1>1, <2>5 DEF C!Named, C!Mentions
    <3> QED
      BY <2>5, <3>1, <3>2 DEF Meant
  <2> QED
    BY <1>1, <2>5, <2>7 DEF CatalogInv, NamesInv, DirInv, ChosenInv
<1>7. CASE ~(exact(w) # {}) /\ ~(exact(w) = {} /\ C!Cardinality(hits(w)) = 1)
  <2>1. got'.is # "found"
    BY <1>2, <1>7 DEF C!Error
  <2> QED
    BY <1>1, <2>1 DEF CatalogInv, NamesInv, DirInv, ChosenInv
<1> QED
  BY <1>5, <1>6, <1>7

\* A selector is taken for the one file it may mean.
LEMMA ResolveFilenameKeeps == CatalogInv /\ C!ResolveFilename => CatalogInv'
<1> SUFFICES ASSUME CatalogInv, C!ResolveFilename PROVE CatalogInv'
  OBVIOUS
<1>1. /\ UNCHANGED <<dir, edits, cards, listing, got, repo>>
      /\ cpc = "select" /\ got = C!NoCard
      /\ cpc' = IF chosen'.is = "found" THEN "confirm" ELSE "done"
  BY DEF C!ResolveFilename, C!scan, CatalogInv, NamesInv
<1>2. PICK s \in Selectors :
        /\ want' = {s}
        /\ chosen' = CASE s.exact -> C!Found(s.text)
                       [] ~s.exact /\ repo = {} -> C!Error("no files")
                       [] ~s.exact /\ repo # {} /\ C!Hits(s) = {} -> C!Error("not found")
                       [] ~s.exact /\ \E f \in repo : C!Hits(s) = {f} ->
                            [is |-> "found", file |-> C!Hits(s)]
                       [] OTHER -> C!Error("ambiguous")
  BY DEF C!ResolveFilename
<1>3. C!Hits(s)' = C!Hits(s)
  BY <1>1 DEF C!Hits, C!Mentions
<1>4. ASSUME chosen'.is = "found"
      PROVE  \E f \in chosen'.file :
               /\ chosen'.file = {f}
               /\ s.exact => f = s.text
               /\ ~s.exact => C!Hits(s)' = {f}
  <2>1. CASE s.exact
    <3>1. chosen' = [is |-> "found", file |-> {s.text}]
      BY <1>2, <2>1 DEF C!Found
    <3> QED
      BY <2>1, <3>1
  <2>2. CASE ~s.exact /\ \E f \in repo : C!Hits(s) = {f}
    <3>1. chosen' = [is |-> "found", file |-> C!Hits(s)]
      <4>1. repo # {} /\ C!Hits(s) # {}
        BY <2>2
      <4> QED
        BY <1>2, <2>2, <4>1
    <3> QED
      BY <1>3, <2>2, <3>1
  <2>3. CASE ~s.exact /\ ~ \E f \in repo : C!Hits(s) = {f}
    <3>1. \/ chosen' = [is |-> "no files", file |-> {}]
          \/ chosen' = [is |-> "not found", file |-> {}]
          \/ chosen' = [is |-> "ambiguous", file |-> {}]
      BY <1>2, <2>3 DEF C!Error
    <3>2. CASE chosen' = [is |-> "no files", file |-> {}]
      BY <1>4, <3>2
    <3>3. CASE chosen' = [is |-> "not found", file |-> {}]
      BY <1>4, <3>3
    <3>4. CASE chosen' = [is |-> "ambiguous", file |-> {}]
      BY <1>4, <3>4
    <3> QED
      BY <3>1, <3>2, <3>3, <3>4
  <2> QED
    BY <2>1, <2>2, <2>3
<1>5. ChosenInv'
  BY <1>1, <1>2, <1>4 DEF CatalogInv, ChosenInv
<1>6. NamesInv'
  BY <1>1, <1>2 DEF CatalogInv, NamesInv, C!NoCard
<1> QED
  BY <1>1, <1>5, <1>6 DEF CatalogInv, DirInv

\* And it is asked for under that very path.
LEMMA PathsInfoKeeps == CatalogInv /\ C!PathsInfo => CatalogInv'
<1> SUFFICES ASSUME CatalogInv, C!PathsInfo PROVE CatalogInv'
  OBVIOUS
<1>1. /\ UNCHANGED <<dir, edits, cards, listing, want, got, repo>>
      /\ cpc = "confirm" /\ cpc' = "done" /\ got = C!NoCard
      /\ chosen' = IF chosen.file \subseteq repo THEN chosen ELSE C!Error("not found")
  BY DEF C!PathsInfo, C!scan, CatalogInv, NamesInv
<1>2. ChosenInv'
  BY <1>1 DEF CatalogInv, ChosenInv, C!Error
<1>3. NamesInv'
  BY <1>1 DEF CatalogInv, NamesInv, C!NoCard
<1> QED
  BY <1>1, <1>2, <1>3 DEF CatalogInv, DirInv

\* Every step of every command.
LEMMA StepKeepsCatalog == CatalogInv /\ [CliNext]_cliVars => CatalogInv'
<1> SUFFICES ASSUME CatalogInv, [CliNext]_cliVars PROVE CatalogInv'
  OBVIOUS
<1>1. CASE UNCHANGED models_dir
  BY <1>1 DEF models_dir, CatalogInv, DirInv, ScanInv, NamesInv, Meant, ChosenInv, C!Hits
<1>2. CASE C!CatalogNext
  BY <1>2, EditKeeps, PublishesKeeps, ListPathsKeeps, ReadCardKeeps, ShortenKeeps, AskKeeps,
     ResolveKeeps, ResolveFilenameKeeps, PathsInfoKeeps DEF C!CatalogNext
<1> QED
  BY <1>1, <1>2 DEF CliNext, cliVars

\* No two cards of a scan answer to one handle; a handle that was listed means its file to the
\* next command as long as that is there, unless a file of that very name has come or the
\* handle has become shorter since; and what a selector picks is the only file it could mean
\* and is there to be had.  For any directory, any edits and any name.
THEOREM NamesAreKeptHolds == CliSpec => []NamesAreKept
<1>1. CliInit => CatalogInv
  BY CatalogBegins DEF CliInit, NoCatalog
<1>2. CatalogInv /\ [CliNext]_cliVars => CatalogInv'
  BY StepKeepsCatalog
<1>3. CatalogInv => NamesAreKept
  <2> SUFFICES ASSUME CatalogInv
               PROVE  C!HandlesAreDistinct /\ C!HandlesKeepTheirFile /\ C!NothingIsGuessed
    BY DEF NamesAreKept, C!NamesAreKept
  <2>1. C!HandlesAreDistinct
    BY HandlesDiffer DEF CatalogInv, NamesInv, C!HandlesAreDistinct
  <2>2. C!HandlesKeepTheirFile
    <3> SUFFICES ASSUME cpc = "done", got.is = "found", C!Plain(cards), C!Plain(listing),
                        NEW w \in want, NEW i \in DOMAIN listing,
                        NEW b \in DOMAIN cards, NEW k \in DOMAIN cards,
                        got.file = {cards[k].file}, ~w.ext, listing[i].id = w.text,
                        cards[b].file = listing[i].file, cards[b].holds = listing[i].holds
                 PROVE  \/ cards[k] = cards[b] \/ cards[k].file.stem = w.text
                        \/ Len(cards[b].id) < Len(w.text) /\ C!Mentions(cards[k].id, w.text)
      BY DEF C!HandlesKeepTheirFile, C!Range
    <3>1. Handled(listing) /\ Handled(cards) /\ \E m \in DOMAIN cards : Meant(w, m)
      BY DEF CatalogInv, NamesInv
    <3> QED
      BY <3>1, HandleKept
  <2>3. C!NothingIsGuessed
    BY DEF CatalogInv, NamesInv, ChosenInv, C!NothingIsGuessed
  <2> QED
    BY <2>1, <2>2, <2>3
<1> QED
  BY <1>1, <1>2, <1>3, PTL DEF CliSpec

-----------------------------------------------------------------------------
(* devices: three lists of cards, and what is told of them.                *)

\* A set of naturals that has zero and with each its successor has them all.
LEMMA Ladder ==
  ASSUME NEW set, 0 \in set, \A n \in Nat : n \in set => n + 1 \in set
  PROVE  Nat \subseteq set
<1> DEFINE out == Nat \ set
<1>1. SUFFICES ASSUME out # {} PROVE FALSE
  OBVIOUS
<1>2. PICK m \in out : \A k \in out : m <= k
  BY <1>1, LeastOf
<1>3. m # 0 /\ m - 1 \in Nat
  BY <1>2
<1>4. m - 1 \in set
  BY <1>2, <1>3
<1> QED
  BY <1>2, <1>3, <1>4

\* f starts at base, and move gives each of its values from the one before.
StepsTo(f, base, move, n) ==
  f = [i \in 0 .. n |-> IF i = 0 THEN base ELSE move[<<i, f[i - 1]>>]]

\* A function defined step by step from a base exists.
LEMMA Recursion ==
  ASSUME NEW set, NEW base \in set, NEW n \in Nat, NEW move \in [(1 .. n) \X set -> set]
  PROVE  \E f \in [0 .. n -> set] : StepsTo(f, base, move, n)
<1> DEFINE reach == {k \in Nat : k <= n => \E f \in [0 .. k -> set] : StepsTo(f, base, move, k)}
<1>1. 0 \in reach
  <2>1. [i \in 0 .. 0 |-> base] \in [0 .. 0 -> set]
    OBVIOUS
  <2>2. StepsTo([i \in 0 .. 0 |-> base], base, move, 0)
    BY DEF StepsTo
  <2> QED
    BY <2>1, <2>2
<1>2. ASSUME NEW k \in Nat, k \in reach PROVE k + 1 \in reach
  <2>1. SUFFICES ASSUME k + 1 <= n
                 PROVE  \E f \in [0 .. (k + 1) -> set] : StepsTo(f, base, move, k + 1)
    OBVIOUS
  <2>2. PICK f \in [0 .. k -> set] : StepsTo(f, base, move, k)
    BY <1>2, <2>1
  <2> DEFINE g == [i \in 0 .. (k + 1) |-> IF i <= k THEN f[i] ELSE move[<<i, f[k]>>]]
  <2>3. g \in [0 .. (k + 1) -> set]
    <3>1. \A i \in 0 .. (k + 1) : i <= k \/ i = k + 1
      OBVIOUS
    <3>2. move[<<k + 1, f[k]>>] \in set
      <4>1. <<k + 1, f[k]>> \in (1 .. n) \X set
        BY <2>1, <2>2
      <4> QED BY <4>1
    <3> QED BY <2>2, <3>1, <3>2
  <2>4. ASSUME NEW i \in 0 .. (k + 1)
        PROVE  g[i] = IF i = 0 THEN base ELSE move[<<i, g[i - 1]>>]
    <3>1. CASE i = k + 1
      BY <3>1
    <3>2. CASE i <= k
      <4>1. g[i] = f[i]
        BY <3>2
      <4>2. f[i] = IF i = 0 THEN base ELSE move[<<i, f[i - 1]>>]
        BY <2>2, <3>2 DEF StepsTo
      <4>3. i # 0 => g[i - 1] = f[i - 1]
        BY <3>2
      <4> QED BY <4>1, <4>2, <4>3
    <3> QED BY <3>1, <3>2
  <2>5. StepsTo(g, base, move, k + 1)
    BY <2>4 DEF StepsTo
  <2> QED BY <2>3, <2>5
<1>3. n \in reach
  <2> HIDE DEF reach
  <2> QED BY <1>1, <1>2, Ladder
<1> QED BY <1>3

\* The least of a set of naturals.
LEMMA MinIs ==
  ASSUME NEW set \in SUBSET Nat, set # {}
  PROVE  D!Min(set) \in set /\ \A k \in set : D!Min(set) <= k
BY LeastOf DEF D!Min

\* The detection orders as the catalogue does.
LEMMA SameOrder == \A set, before : D!InOrder(set, before) = C!InOrder(set, before)
BY DEF D!InOrder, C!InOrder, D!Cardinality, C!Cardinality

\* A set of numbers in order.
LEMMA NumbersInOrder ==
  ASSUME NEW set \in SUBSET Nat, IsFiniteSet(set)
  PROVE  /\ D!InOrder(set, D!Below(set)) \in Seq(set)
         /\ \A i, j \in DOMAIN D!InOrder(set, D!Below(set)) :
              D!InOrder(set, D!Below(set))[i] = D!InOrder(set, D!Below(set))[j] => i = j
         /\ DOMAIN D!InOrder(set, D!Below(set)) = 1 .. D!Cardinality(set)
<1>1. Ordered(set, D!Below(set))
  <2>1. \A e \in set : <<e, e>> \notin D!Below(set)
    BY DEF D!Below
  <2>2. \A d, e, f \in set :
          <<d, e>> \in D!Below(set) /\ <<e, f>> \in D!Below(set) => <<d, f>> \in D!Below(set)
    BY DEF D!Below
  <2>3. \A d, e \in set : d = e \/ <<d, e>> \in D!Below(set) \/ <<e, d>> \in D!Below(set)
    BY DEF D!Below
  <2> QED
    BY <2>1, <2>2, <2>3 DEF Ordered
<1>2. D!Cardinality(set) = Cardinality(set)
  BY DEF D!Cardinality, Cardinality
<1> QED
  BY <1>1, <1>2, Enumerated, SameOrder

\* The first of those left that is of a model.
LEMMA FirstIs ==
  ASSUME NEW Things, NEW left \in Seq(Things), NEW of, NEW model
  PROVE  /\ D!FirstOf(model, left, of) \in 0 .. Len(left)
         /\ D!FirstOf(model, left, of) # 0 => of[left[D!FirstOf(model, left, of)]].model = model
         /\ D!FirstOf(model, left, of) = 0 => \A k \in DOMAIN left : of[left[k]].model # model
<1> DEFINE those == {i \in DOMAIN left : of[left[i]].model = model}
<1>1. D!FirstOf(model, left, of) = IF those = {} THEN 0 ELSE D!Min(those)
  BY DEF D!FirstOf
<1>2. DOMAIN left = 1 .. Len(left) /\ Len(left) \in Nat /\ those \in SUBSET Nat
  OBVIOUS
<1>3. those # {} => D!Min(those) \in those
  <2> HIDE DEF those
  <2> QED
    BY <1>2, MinIs
<1> QED
  BY <1>1, <1>2, <1>3

\* Those left without one of them.
LEMMA WithoutIs ==
  ASSUME NEW Things, NEW left \in Seq(Things), NEW i \in 0 .. Len(left)
  PROVE  /\ D!Without(left, i) \in Seq(Things)
         /\ \A k \in DOMAIN D!Without(left, i) :
              \E j \in DOMAIN left : j # i /\ D!Without(left, i)[k] = left[j]
         /\ \A j \in DOMAIN left :
              j # i => \E k \in DOMAIN D!Without(left, i) : D!Without(left, i)[k] = left[j]
         /\ (\A j, k \in DOMAIN left : left[j] = left[k] => j = k) =>
              \A j, k \in DOMAIN D!Without(left, i) :
                D!Without(left, i)[j] = D!Without(left, i)[k] => j = k
<1>1. CASE i = 0
  BY <1>1 DEF D!Without
<1>2. CASE i # 0
  <2> DEFINE n == Len(left)
             to(k) == IF k < i THEN k ELSE k + 1
             w == [k \in 1 .. (n - 1) |-> left[to(k)]]
  <2>1. n \in Nat \ {0} /\ DOMAIN left = 1 .. n /\ i \in 1 .. n
    BY <1>2
  <2>2. D!Without(left, i) = w
    BY <1>2 DEF D!Without
  <2>3. ASSUME NEW k \in 1 .. (n - 1) PROVE to(k) \in 1 .. n /\ to(k) # i
    <3> HIDE DEF n
    <3> QED
      BY <2>1
  <2>4. \A k \in 1 .. (n - 1) : left[to(k)] \in Things
    <3> HIDE DEF to
    <3> QED
      BY <2>3
  <2>5. w \in Seq(Things)
    <3>1. n - 1 \in Nat
      BY <2>1
    <3> HIDE DEF to, n
    <3> QED
      BY <2>4, <3>1, SeqDef
  <2>6. ASSUME NEW j \in 1 .. n, j # i PROVE \E k \in 1 .. (n - 1) : to(k) = j
    <3>1. CASE j < i
      <4>1. j \in 1 .. (n - 1) /\ to(j) = j
        BY <2>1, <3>1
      <4> QED
        BY <4>1
    <3>2. CASE ~(j < i)
      <4>1. j - 1 \in 1 .. (n - 1) /\ to(j - 1) = j
        BY <2>1, <2>6, <3>2
      <4> QED
        BY <4>1
    <3> QED
      BY <3>1, <3>2
  <2>7. ASSUME NEW j \in 1 .. (n - 1), NEW k \in 1 .. (n - 1), to(j) = to(k) PROVE j = k
    BY <2>1, <2>7
  <2> HIDE DEF n, to
  <2>8. DOMAIN w = 1 .. (n - 1) /\ \A k \in 1 .. (n - 1) : w[k] = left[to(k)]
    OBVIOUS
  <2> HIDE DEF w
  <2>9. \A k \in DOMAIN w : \E j \in DOMAIN left : j # i /\ w[k] = left[j]
    BY <2>1, <2>3, <2>8
  <2>10. \A j \in DOMAIN left : j # i => \E k \in DOMAIN w : w[k] = left[j]
    BY <2>1, <2>6, <2>8
  <2>11. (\A j, k \in DOMAIN left : left[j] = left[k] => j = k) =>
           \A j, k \in DOMAIN w : w[j] = w[k] => j = k
    BY <2>1, <2>3, <2>7, <2>8
  <2> QED
    BY <2>2, <2>5, <2>9, <2>10, <2>11
<1> QED
  BY <1>1, <1>2

\* What is left after each device is what was left before it, without its card.
LEMMA UnmatchedIs ==
  ASSUME NEW Things, NEW cs \in Seq(Things), NEW scanned \in Seq(Things), NEW of
  PROVE  LET u == D!Unmatched(cs, scanned, of)
         IN /\ u \in [0 .. Len(cs) -> Seq(Things)] /\ u[0] = scanned
            /\ \A n \in 1 .. Len(cs) :
                 u[n] = D!Without(u[n - 1], D!FirstOf(of[cs[n]].model, u[n - 1], of))
<1> DEFINE m == Len(cs)
           next(n, left) == D!Without(left, D!FirstOf(of[cs[n]].model, left, of))
           move == [p \in (1 .. m) \X Seq(Things) |-> next(p[1], p[2])]
           u == D!Unmatched(cs, scanned, of)
<1>1. m \in Nat
  OBVIOUS
<1>2. ASSUME NEW n \in 1 .. m, NEW left \in Seq(Things)
      PROVE  next(n, left) \in Seq(Things) /\ move[<<n, left>>] = next(n, left)
  <2>1. next(n, left) \in Seq(Things)
    BY FirstIs, WithoutIs
  <2>2. <<n, left>> \in (1 .. m) \X Seq(Things)
    OBVIOUS
  <2> HIDE DEF next
  <2> QED
    BY <2>1, <2>2
<1>3. move \in [(1 .. m) \X Seq(Things) -> Seq(Things)]
  <2>1. \A p \in (1 .. m) \X Seq(Things) : next(p[1], p[2]) \in Seq(Things)
    <3> TAKE p \in (1 .. m) \X Seq(Things)
    <3>1. p[1] \in 1 .. m /\ p[2] \in Seq(Things)
      OBVIOUS
    <3> HIDE DEF next
    <3> QED
      BY <1>2, <3>1
  <2> HIDE DEF next
  <2> QED
    BY <2>1
<1> HIDE DEF move, next, m
<1>4. PICK f \in [0 .. m -> Seq(Things)] : StepsTo(f, scanned, move, m)
  BY <1>1, <1>3, Recursion
<1>5. f[0] = scanned /\ \A n \in 1 .. m : f[n] = next(n, f[n - 1])
  <2>1. f[0] = scanned
    BY <1>1, <1>4 DEF StepsTo
  <2>2. ASSUME NEW n \in 1 .. m PROVE f[n] = next(n, f[n - 1])
    <3>1. n \in 0 .. m /\ n - 1 \in 0 .. m /\ n # 0
      BY <1>1
    <3>2. f[n] = move[<<n, f[n - 1]>>]
      BY <1>4, <3>1 DEF StepsTo
    <3> QED
      BY <1>2, <1>4, <3>1, <3>2
  <2> QED
    BY <2>1, <2>2
<1>6. ASSUME NEW g, g = [n \in 0 .. m |-> IF n = 0 THEN scanned ELSE next(n, g[n - 1])]
      PROVE  g = f
  <2> DEFINE same == {n \in Nat : n <= m => g[n] = f[n]}
  <2>1. 0 \in same
    BY <1>1, <1>5, <1>6
  <2>2. ASSUME NEW n \in Nat, n \in same PROVE n + 1 \in same
    <3>1. SUFFICES ASSUME n + 1 <= m PROVE g[n + 1] = f[n + 1]
      OBVIOUS
    <3>2. n + 1 \in 1 .. m /\ n + 1 \in 0 .. m /\ (n + 1) - 1 = n /\ n + 1 # 0
      BY <1>1, <3>1
    <3>3. g[n] = f[n]
      BY <1>1, <2>2, <3>1
    <3>4. g[n + 1] = next(n + 1, g[(n + 1) - 1])
      BY <1>6, <3>2
    <3> QED
      BY <1>5, <3>2, <3>3, <3>4
  <2>3. \A n \in 0 .. m : g[n] = f[n]
    <3> HIDE DEF same
    <3>1. Nat \subseteq same
      BY <2>1, <2>2, Ladder
    <3> QED
      BY <1>1, <3>1 DEF same
  <2>4. g = [n \in 0 .. m |-> g[n]]
    BY <1>6
  <2> QED
    BY <1>4, <2>3, <2>4
<1>7. f = [n \in 0 .. m |-> IF n = 0 THEN scanned ELSE next(n, f[n - 1])]
  <2>1. \A n \in 0 .. m : f[n] = IF n = 0 THEN scanned ELSE next(n, f[n - 1])
    <3> TAKE n \in 0 .. m
    <3>1. n = 0 \/ n \in 1 .. m
      BY <1>1
    <3> QED
      BY <1>5, <3>1
  <2> QED
    BY <1>4, <2>1
<1>8. u = f
  <2>1. u = CHOOSE g : g = [n \in 0 .. m |-> IF n = 0 THEN scanned ELSE next(n, g[n - 1])]
    BY DEF D!Unmatched, next, m
  <2>2. u = [n \in 0 .. m |-> IF n = 0 THEN scanned ELSE next(n, u[n - 1])]
    BY <1>7, <2>1
  <2> HIDE DEF u
  <2> QED
    BY <1>6, <2>2
<1> QED
  BY <1>4, <1>5, <1>8 DEF next, m

\* The cards on devices and those left over, once the first n have taken theirs.
TakenBy(n, cs, p, left, of) ==
  /\ \A j, k \in DOMAIN left : left[j] = left[k] => j = k
  /\ \A i \in 1 .. n : p[i] # 0 =>
       of[p[i]].model = of[cs[i]].model /\ \A k \in DOMAIN left : left[k] # p[i]
  /\ \A i, j \in 1 .. n : p[i] = p[j] => i = j \/ p[i] = 0
  /\ \A i \in 1 .. n : p[i] = 0 => \A k \in DOMAIN left : of[left[k]].model # of[cs[i]].model
\* None is lost and none is made up.
Accounted(n, scanned, p, left) ==
  /\ \A c1 \in Range(scanned) :
       (\E k \in DOMAIN left : left[k] = c1) \/ (\E i \in 1 .. n : p[i] = c1)
  /\ \A k \in DOMAIN left : left[k] \in Range(scanned)
  /\ \A i \in 1 .. n : p[i] = 0 \/ p[i] \in Range(scanned)

\* A device takes a card of its model if there is one left, and no other device has it.
LEMMA PairedIs ==
  ASSUME NEW Things, 0 \notin Things, NEW cs \in Seq(Things), NEW scanned \in Seq(Things), NEW of,
         \A j, k \in DOMAIN scanned : scanned[j] = scanned[k] => j = k
  PROVE  LET p == D!Paired(cs, scanned, of)
             left == D!Unmatched(cs, scanned, of)[Len(cs)]
         IN /\ left \in Seq(Things) /\ p \in [DOMAIN cs -> Things \cup {0}]
            /\ TakenBy(Len(cs), cs, p, left, of) /\ Accounted(Len(cs), scanned, p, left)
<1> DEFINE m == Len(cs)
           u == D!Unmatched(cs, scanned, of)
           p == D!Paired(cs, scanned, of)
           first(n) == D!FirstOf(of[cs[n]].model, u[n - 1], of)
<1>1. m \in Nat /\ DOMAIN cs = 1 .. m
  OBVIOUS
<1>2. /\ u \in [0 .. m -> Seq(Things)] /\ u[0] = scanned
      /\ \A n \in 1 .. m : u[n] = D!Without(u[n - 1], first(n))
  BY UnmatchedIs
<1>3. /\ DOMAIN p = 1 .. m
      /\ \A n \in 1 .. m : p[n] = IF first(n) = 0 THEN 0 ELSE u[n - 1][first(n)]
  BY <1>1 DEF D!Paired
<1> HIDE DEF m, u, p
<1>4. ASSUME NEW n \in 1 .. m
      PROVE  /\ n - 1 \in 0 .. m /\ u[n - 1] \in Seq(Things)
             /\ first(n) \in 0 .. Len(u[n - 1])
             /\ first(n) # 0 => of[u[n - 1][first(n)]].model = of[cs[n]].model
             /\ first(n) = 0 => \A k \in DOMAIN u[n - 1] : of[u[n - 1][k]].model # of[cs[n]].model
  <2>1. n - 1 \in 0 .. m
    BY <1>1
  <2>2. u[n - 1] \in Seq(Things)
    BY <1>2, <2>1
  <2> QED
    BY <2>1, <2>2, FirstIs
<1> DEFINE good == {n \in Nat : n <= m =>
                     TakenBy(n, cs, p, u[n], of) /\ Accounted(n, scanned, p, u[n])}
<1>5. 0 \in good
  <2>1. \A c1 \in Range(scanned) : \E k \in DOMAIN scanned : scanned[k] = c1
    BY DEF Range
  <2>2. \A k \in DOMAIN scanned : scanned[k] \in Range(scanned)
    BY DEF Range
  <2> QED
    BY <1>2, <2>1, <2>2 DEF TakenBy, Accounted
<1>6. ASSUME NEW n \in Nat, n \in good PROVE n + 1 \in good
  <2>1. SUFFICES ASSUME n + 1 <= m
                 PROVE  /\ TakenBy(n + 1, cs, p, u[n + 1], of)
                        /\ Accounted(n + 1, scanned, p, u[n + 1])
    OBVIOUS
  <2> DEFINE l == u[n]
             i == first(n + 1)
             w == u[n + 1]
  <2>2. n + 1 \in 1 .. m /\ (n + 1) - 1 = n /\ n <= m
    BY <1>1, <2>1
  <2>3. TakenBy(n, cs, p, l, of) /\ Accounted(n, scanned, p, l)
    BY <1>6, <2>2
  <2>4. /\ l \in Seq(Things) /\ i \in 0 .. Len(l)
        /\ i # 0 => of[l[i]].model = of[cs[n + 1]].model
        /\ i = 0 => \A k \in DOMAIN l : of[l[k]].model # of[cs[n + 1]].model
    BY <1>4, <2>2
  <2>5. w = D!Without(l, i) /\ p[n + 1] = IF i = 0 THEN 0 ELSE l[i]
    BY <1>2, <1>3, <2>2
  <2> HIDE DEF l, i, w, good, first
  <2>6. /\ w \in Seq(Things)
        /\ \A k \in DOMAIN w : \E j \in DOMAIN l : j # i /\ w[k] = l[j]
        /\ \A j \in DOMAIN l : j # i => \E k \in DOMAIN w : w[k] = l[j]
        /\ (\A j, k \in DOMAIN l : l[j] = l[k] => j = k) =>
             \A j, k \in DOMAIN w : w[j] = w[k] => j = k
    <3> HIDE DEF TakenBy, Accounted
    <3>1. l \in Seq(Things) /\ i \in 0 .. Len(l)
      BY <2>4
    <3>2. /\ D!Without(l, i) \in Seq(Things)
          /\ \A k \in DOMAIN D!Without(l, i) :
               \E j \in DOMAIN l : j # i /\ D!Without(l, i)[k] = l[j]
          /\ \A j \in DOMAIN l :
               j # i => \E k \in DOMAIN D!Without(l, i) : D!Without(l, i)[k] = l[j]
          /\ (\A j, k \in DOMAIN l : l[j] = l[k] => j = k) =>
               \A j, k \in DOMAIN D!Without(l, i) :
                 D!Without(l, i)[j] = D!Without(l, i)[k] => j = k
      BY <3>1, WithoutIs
    <3> QED
      BY <2>5, <3>2
  <2>7. i # 0 => i \in DOMAIN l /\ l[i] # 0
    <3> SUFFICES ASSUME i # 0 PROVE i \in DOMAIN l /\ l[i] \in Things
      OBVIOUS
    <3> QED
      BY <2>4
  <2>8. 1 .. (n + 1) = (1 .. n) \cup {n + 1} /\ n + 1 \notin 1 .. n
    OBVIOUS
  <2>9. \A j, k \in DOMAIN l : l[j] = l[k] => j = k
    BY <2>3 DEF TakenBy
  <2>10. \A j, k \in DOMAIN w : w[j] = w[k] => j = k
    BY <2>6, <2>9
  <2>11. ASSUME NEW j \in 1 .. (n + 1), p[j] # 0
         PROVE  of[p[j]].model = of[cs[j]].model /\ \A k \in DOMAIN w : w[k] # p[j]
    <3>1. CASE j = n + 1
      <4>1. i # 0 /\ p[j] = l[i]
        BY <2>5, <2>11, <3>1
      <4>2. ASSUME NEW k \in DOMAIN w PROVE w[k] # p[j]
        <5>1. PICK h \in DOMAIN l : h # i /\ w[k] = l[h]
          BY <2>6
        <5> QED
          BY <2>7, <2>9, <4>1, <5>1
      <4> QED
        BY <2>4, <3>1, <4>1, <4>2
    <3>2. CASE j \in 1 .. n
      <4>1. of[p[j]].model = of[cs[j]].model /\ \A k \in DOMAIN l : l[k] # p[j]
        BY <2>3, <2>11, <3>2 DEF TakenBy
      <4> QED
        BY <2>6, <4>1
    <3> QED
      BY <2>8, <3>1, <3>2
  <2>12. ASSUME NEW j \in 1 .. n, p[j] = p[n + 1] PROVE p[j] = 0
    <3> SUFFICES ASSUME p[j] # 0 PROVE FALSE
      OBVIOUS
    <3>1. i # 0 /\ p[n + 1] = l[i] /\ i \in DOMAIN l
      BY <2>5, <2>7, <2>12
    <3> QED
      BY <2>3, <2>12, <3>1 DEF TakenBy
  <2>13. ASSUME NEW j \in 1 .. (n + 1), NEW k \in 1 .. (n + 1), p[j] = p[k]
         PROVE  j = k \/ p[j] = 0
    <3>1. CASE j \in 1 .. n /\ k \in 1 .. n
      BY <2>3, <2>13, <3>1 DEF TakenBy
    <3>2. CASE j = n + 1 /\ k \in 1 .. n
      BY <2>12, <2>13, <3>2
    <3>3. CASE k = n + 1 /\ j \in 1 .. n
      BY <2>12, <2>13, <3>3
    <3> QED
      BY <2>8, <3>1, <3>2, <3>3
  <2>14. ASSUME NEW j \in 1 .. (n + 1), p[j] = 0, NEW k \in DOMAIN w
         PROVE  of[w[k]].model # of[cs[j]].model
    <3>1. PICK h \in DOMAIN l : w[k] = l[h]
      BY <2>6
    <3>2. CASE j = n + 1
      BY <2>4, <2>5, <2>7, <2>14, <3>1, <3>2
    <3>3. CASE j \in 1 .. n
      BY <2>3, <2>14, <3>1, <3>3 DEF TakenBy
    <3> QED
      BY <2>8, <3>2, <3>3
  <2>15. TakenBy(n + 1, cs, p, w, of)
    BY <2>10, <2>11, <2>13, <2>14 DEF TakenBy
  <2>16. ASSUME NEW c1 \in Range(scanned)
         PROVE  (\E k \in DOMAIN w : w[k] = c1) \/ \E j \in 1 .. (n + 1) : p[j] = c1
    <3>1. CASE \E j \in 1 .. n : p[j] = c1
      BY <2>8, <3>1
    <3>2. CASE \E k \in DOMAIN l : l[k] = c1
      <4>1. PICK h \in DOMAIN l : l[h] = c1
        BY <3>2
      <4>2. CASE h = i
        <5>1. i # 0
          BY <2>4, <4>2
        <5> QED
          BY <2>5, <2>8, <4>1, <4>2, <5>1
      <4>3. CASE h # i
        BY <2>6, <4>1, <4>3
      <4> QED
        BY <4>2, <4>3
    <3> QED
      BY <2>3, <3>1, <3>2 DEF Accounted
  <2>17. \A k \in DOMAIN w : w[k] \in Range(scanned)
    BY <2>3, <2>6 DEF Accounted
  <2>18. ASSUME NEW j \in 1 .. (n + 1) PROVE p[j] = 0 \/ p[j] \in Range(scanned)
    <3>1. CASE j \in 1 .. n
      BY <2>3, <3>1 DEF Accounted
    <3>2. CASE j = n + 1
      BY <2>3, <2>5, <2>7, <3>2 DEF Accounted
    <3> QED
      BY <2>8, <3>1, <3>2
  <2>19. Accounted(n + 1, scanned, p, w)
    BY <2>16, <2>17, <2>18 DEF Accounted
  <2> QED
    BY <2>15, <2>19 DEF w
<1>7. TakenBy(m, cs, p, u[m], of) /\ Accounted(m, scanned, p, u[m])
  <2> HIDE DEF good
  <2>1. Nat \subseteq good
    BY <1>5, <1>6, Ladder
  <2> QED
    BY <1>1, <2>1 DEF good
<1>8. ASSUME NEW n \in 1 .. m PROVE p[n] \in Things \cup {0}
  <2> DEFINE l == u[n - 1]
             i == first(n)
  <2>1. l \in Seq(Things) /\ i \in 0 .. Len(l) /\ p[n] = IF i = 0 THEN 0 ELSE l[i]
    BY <1>3, <1>4
  <2> HIDE DEF l, i
  <2> QED
    BY <2>1
<1>9. p \in [1 .. m -> Things \cup {0}]
  <2>1. p = [n \in 1 .. m |-> p[n]]
    BY DEF p, D!Paired, m
  <2> QED
    BY <1>8, <2>1
<1>10. u[m] \in Seq(Things)
  BY <1>1, <1>2
<1> QED
  BY <1>1, <1>7, <1>9, <1>10 DEF m, u, p

\* The cards of the machine, and what a reading of one may be.
Cards == DOMAIN machine.cards
Readings == [uuid : Cards, pool : {D!Of(c1).pool : c1 \in Cards}, free : Nat]
GpuRows == [card : Cards, at : Cards \cup {0}]

\* What is known of the world, and the lists.
DetectTypes ==
  /\ machine \in Machines /\ present \in SUBSET Cards
  /\ free \in [Cards -> Seq(Nat)] /\ \A c1 \in Cards : Len(free[c1]) > 0
  /\ dpc \in {"scan", "open", "count", "fill", "describe", "telemetry", "judge", "done"}
  /\ hardware \in Seq(Cards) /\ \A j, k \in DOMAIN hardware : hardware[j] = hardware[k] => j = k
  /\ driver \in Nat \ {0} /\ count \in Nat /\ (dpc = "fill" => driver <= Len(machine.core))
  /\ handles \in Seq(Cards) /\ gpus \in Seq(GpuRows)
\* A reading is of a card, and true at some time.
ReadingsInv ==
  /\ readings \in Seq(Readings)
  /\ \A i \in DOMAIN readings :
       /\ readings[i].pool = D!Of(readings[i].uuid).pool
       /\ \E k \in DOMAIN free[readings[i].uuid] : readings[i].free = free[readings[i].uuid][k]
\* A failure is the end, and has evidence when there is any and none was run on.
FailureInv ==
  \/ failure = D!Sound
  \/ /\ dpc = "done" /\ failure.cause # "none"
     /\ failure.evidence <=> hardware # <<>> /\ failure.cause # "ze"
\* Past the cross-reference a device has the card it was paired with.
MatchInv ==
  dpc \in {"telemetry", "judge"} \/ D!Answered =>
    \A i \in DOMAIN gpus : gpus[i].at = D!Paired(D!OnDevices, hardware, machine.cards)[i]
AnswerInv ==
  D!Answered => answer = [rows |-> D!Rows, verdict |-> D!VerdictFor(D!Rows)]
\* The inductive invariant of a detection.
DetectInv == DetectTypes /\ ReadingsInv /\ FailureInv /\ MatchInv /\ AnswerInv

\* What is assumed of the machine detected on.
LEMMA MachineIs ==
  ASSUME machine \in Machines
  PROVE  /\ IsFiniteSet(Cards) /\ Cards \in SUBSET Nat /\ 0 \notin Cards
         /\ \A c1 \in Cards : /\ D!Of(c1).igpu \in BOOLEAN /\ D!Of(c1).name \in Nat
                              /\ D!Of(c1).total \in Nat /\ D!Of(c1).free \in Nat
         /\ machine.core \in Seq(Seq(Cards)) /\ machine.sysman \in Seq(Cards)
         /\ machine.loader \in {"ok", "no loader", "not a loader"}
         /\ machine.init \in {"ok", "uninitialized", "ze"}
         /\ FreeSizes \subseteq Nat
<1>1. \A f : D!IsFiniteSet(f) => IsFiniteSet(f)
  BY DEF D!IsFiniteSet, IsFiniteSet
<1>2. D!DevicesAssumption
  BY CliAssumption
<1> QED
  BY <1>1, <1>2 DEF D!DevicesAssumption, Cards, D!Of

\* A detection begins with what is there.
LEMMA DetectBegins == D!DevicesInit => DetectInv
<1> SUFFICES ASSUME D!DevicesInit PROVE DetectInv
  OBVIOUS
<1>1. /\ machine \in Machines /\ present = Cards /\ dpc = "scan" /\ hardware = <<>>
      /\ driver = 1 /\ count = 0 /\ handles = <<>> /\ gpus = <<>> /\ readings = <<>>
      /\ free = [c1 \in Cards |-> <<D!Of(c1).free>>] /\ failure = D!Sound
  BY DEF D!DevicesInit, Cards, D!Of
<1>2. free \in [Cards -> Seq(Nat)] /\ \A c1 \in Cards : Len(free[c1]) > 0
  <2>1. \A c1 \in Cards : <<D!Of(c1).free>> \in Seq(Nat) /\ Len(<<D!Of(c1).free>>) > 0
    <3> TAKE c1 \in Cards
    <3>1. D!Of(c1).free \in Nat
      BY <1>1, MachineIs
    <3> QED
      BY <3>1
  <2> QED
    BY <1>1, <2>1
<1>3. DetectTypes
  <2>1. hardware \in Seq(Cards) /\ handles \in Seq(Cards) /\ gpus \in Seq(GpuRows)
        /\ DOMAIN hardware = {}
    BY <1>1
  <2> QED
    BY <1>1, <1>2, <2>1 DEF DetectTypes
<1>4. ReadingsInv
  <2>1. readings \in Seq(Readings) /\ DOMAIN readings = {}
    BY <1>1
  <2> QED
    BY <2>1 DEF ReadingsInv
<1> QED
  BY <1>1, <1>3, <1>4 DEF DetectInv, FailureInv, MatchInv, AnswerInv, D!Answered

\* What is left as it is keeps what is known of it.
LEMMA ReadingsStand ==
  ASSUME DetectTypes, ReadingsInv, UNCHANGED <<machine, free, readings>>
  PROVE  ReadingsInv'
BY DEF ReadingsInv, Readings, Cards, D!Of

\* A card is lost.
LEMMA LossKeeps ==
  ASSUME DetectInv, NEW lost, D!CardLost(lost)
  PROVE  DetectInv'
<1>1. /\ UNCHANGED <<machine, free, dpc, hardware, driver, count, handles, gpus, failure>>
      /\ UNCHANGED <<readings, answer>> /\ dpc # "done" /\ present' = present \ {lost}
  BY DEF D!CardLost, D!Upset, D!probe
<1>2. DetectTypes'
  <2>1. present' \in SUBSET Cards' /\ Cards' = Cards /\ GpuRows' = GpuRows
    BY <1>1 DEF DetectInv, DetectTypes, Cards, GpuRows
  <2> QED
    BY <1>1, <2>1 DEF DetectInv, DetectTypes
<1>3. ReadingsInv'
  BY <1>1, ReadingsStand DEF DetectInv
<1>4. MatchInv'
  BY <1>1 DEF DetectInv, MatchInv, D!Answered, D!OnDevices
<1> QED
  BY <1>1, <1>2, <1>3, <1>4 DEF DetectInv, FailureInv, AnswerInv, D!Answered, D!Sound

\* What else has taken a card's memory shows in its history.
LEMMA TakingKeeps ==
  ASSUME DetectInv, NEW taken \in present, NEW size \in FreeSizes, D!MemoryTaken(taken, size)
  PROVE  DetectInv'
<1> DEFINE new == Append(free[taken], size)
<1>1. /\ UNCHANGED <<machine, present, dpc, hardware, driver, count, handles, gpus, failure>>
      /\ UNCHANGED <<readings, answer>> /\ dpc # "done" /\ free' = [free EXCEPT ![taken] = new]
  BY DEF D!MemoryTaken, D!Upset, D!probe
<1>2. Cards' = Cards /\ GpuRows' = GpuRows /\ Readings' = Readings /\ taken \in Cards
  BY <1>1 DEF DetectInv, DetectTypes, Cards, GpuRows, Readings, D!Of
<1>3. /\ new \in Seq(Nat) /\ Len(new) > 0
      /\ \A k \in DOMAIN free[taken] : k \in DOMAIN new /\ new[k] = free[taken][k]
  <2>1. free[taken] \in Seq(Nat) /\ size \in Nat
    BY <1>2, MachineIs DEF DetectInv, DetectTypes
  <2> QED
    BY <2>1
<1> HIDE DEF new
<1>4. /\ free' \in [Cards -> Seq(Nat)] /\ \A c1 \in Cards : Len(free'[c1]) > 0
      /\ \A c1 \in Cards : \A k \in DOMAIN free[c1] :
           k \in DOMAIN free'[c1] /\ free'[c1][k] = free[c1][k]
  BY <1>1, <1>2, <1>3 DEF DetectInv, DetectTypes
<1>5. DetectTypes'
  BY <1>1, <1>2, <1>4 DEF DetectInv, DetectTypes
<1>6. ReadingsInv'
  <2>1. \A i \in DOMAIN readings : readings[i].uuid \in Cards
    <3> TAKE i \in DOMAIN readings
    <3>1. readings[i] \in Readings
      BY DEF DetectInv, ReadingsInv
    <3> QED
      BY <3>1 DEF Readings
  <2>2. \A i \in DOMAIN readings : D!Of(readings[i].uuid)' = D!Of(readings[i].uuid)
    BY <1>1 DEF D!Of
  <2>3. ASSUME NEW i \in DOMAIN readings
        PROVE  \E k \in DOMAIN free'[readings[i].uuid] :
                 readings[i].free = free'[readings[i].uuid][k]
    BY <1>4, <2>1 DEF DetectInv, ReadingsInv
  <2> QED
    BY <1>1, <1>2, <2>2, <2>3 DEF DetectInv, ReadingsInv
<1>7. MatchInv'
  BY <1>1 DEF DetectInv, MatchInv, D!Answered, D!OnDevices
<1> QED
  BY <1>1, <1>5, <1>6, <1>7 DEF DetectInv, FailureInv, AnswerInv, D!Answered, D!Sound

\* The steps of the detection itself, up to the cross-reference: what they have to keep.
LEMMA EarlyKeeps ==
  ASSUME DetectInv, UNCHANGED <<machine, present, free, readings, failure>>,
         dpc' \in {"open", "count", "fill", "describe"},
         dpc # "done", driver' \in Nat \ {0}, count' \in Nat,
         dpc' = "fill" => driver' <= Len(machine.core),
         handles' \in Seq(Cards), gpus' \in Seq(GpuRows), hardware' \in Seq(Cards),
         \A j, k \in DOMAIN hardware' : hardware'[j] = hardware'[k] => j = k
  PROVE  DetectInv'
<1>1. Cards' = Cards /\ GpuRows' = GpuRows
  BY DEF Cards, GpuRows
<1>2. DetectTypes'
  BY <1>1 DEF DetectInv, DetectTypes
<1>3. ReadingsInv'
  BY ReadingsStand DEF DetectInv
<1>4. FailureInv'
  BY DEF DetectInv, FailureInv, D!Sound
<1> QED
  BY <1>2, <1>3, <1>4 DEF DetectInv, MatchInv, AnswerInv, D!Answered

\* A failure ends the detection.
LEMMA FailingKeeps ==
  ASSUME DetectInv, NEW cause, D!Fails(cause), UNCHANGED <<driver, count, handles, gpus>>,
         cause \in {"no loader", "not a loader", "uninitialized", "no drivers", "no devices",
                    "no gpu", "ze"}
  PROVE  DetectInv'
<1>1. /\ UNCHANGED <<machine, present, free, hardware, readings>> /\ dpc' = "done"
      /\ failure' = [cause |-> cause,
                     evidence |-> hardware # <<>> /\ D!WantsHardwareEvidence(cause)]
  BY DEF D!Fails, D!world
<1>2. DetectTypes'
  <2>1. Cards' = Cards /\ GpuRows' = GpuRows
    BY <1>1 DEF Cards, GpuRows
  <2> QED
    BY <1>1, <2>1 DEF DetectInv, DetectTypes
<1>3. ReadingsInv'
  BY <1>1, ReadingsStand DEF DetectInv
<1>4. failure'.cause # "none" /\ (failure'.evidence <=> hardware' # <<>> /\ failure'.cause # "ze")
  BY <1>1 DEF D!WantsHardwareEvidence
<1> QED
  BY <1>1, <1>2, <1>3, <1>4 DEF DetectInv, FailureInv, MatchInv, AnswerInv, D!Answered

\* The kernel's view lists every card once.
LEMMA ScanKeeps == DetectInv /\ D!Scan => DetectInv'
<1> SUFFICES ASSUME DetectInv, D!Scan PROVE DetectInv'
  OBVIOUS
<1> DEFINE shown == {c1 \in present : D!Of(c1).display}
<1>1. /\ UNCHANGED <<machine, present, free, driver, count, handles, gpus, failure, readings>>
      /\ dpc = "scan" /\ dpc' = "open" /\ hardware' = D!InOrder(shown, D!Below(shown))
  BY DEF D!Scan, D!world, D!probe
<1>2. shown \in SUBSET Cards /\ shown \in SUBSET Nat /\ IsFiniteSet(shown)
  <2>1. shown \in SUBSET Cards /\ IsFiniteSet(Cards) /\ Cards \in SUBSET Nat
    BY MachineIs DEF DetectInv, DetectTypes
  <2> HIDE DEF shown
  <2> QED
    BY <2>1, FS_Subset
<1> HIDE DEF shown
<1>3. /\ hardware' \in Seq(shown)
      /\ \A j, k \in DOMAIN hardware' : hardware'[j] = hardware'[k] => j = k
  BY <1>1, <1>2, NumbersInOrder
<1>4. hardware' \in Seq(Cards)
  <2>1. Len(hardware') \in Nat /\ DOMAIN hardware' = 1 .. Len(hardware')
        /\ \A k \in 1 .. Len(hardware') : hardware'[k] \in shown
    BY <1>3
  <2>2. hardware' = [k \in 1 .. Len(hardware') |-> hardware'[k]]
    BY <1>3
  <2> QED
    BY <1>2, <2>1, <2>2, SeqDef
<1>5. driver' \in Nat \ {0} /\ count' \in Nat /\ handles' \in Seq(Cards) /\ gpus' \in Seq(GpuRows)
  BY <1>1 DEF DetectInv, DetectTypes
<1> QED
  BY <1>1, <1>3, <1>4, <1>5, EarlyKeeps

\* The loader is opened, and there are drivers.
LEMMA OpenKeeps == DetectInv /\ D!Open => DetectInv'
<1> SUFFICES ASSUME DetectInv, D!Open PROVE DetectInv'
  OBVIOUS
<1>1. dpc = "open" /\ UNCHANGED <<driver, count, handles, gpus>>
  BY DEF D!Open, D!probe
<1>2. CASE \E cause \in {"no loader", "not a loader", "uninitialized", "ze", "no drivers"} :
             D!Fails(cause)
  BY <1>1, <1>2, FailingKeeps
<1>3. CASE /\ dpc' = "count"
           /\ UNCHANGED <<machine, present, free, hardware, failure, readings, answer>>
  <2>1. /\ driver' \in Nat \ {0} /\ count' \in Nat /\ handles' \in Seq(Cards)
        /\ gpus' \in Seq(GpuRows) /\ hardware' \in Seq(Cards)
        /\ \A j, k \in DOMAIN hardware' : hardware'[j] = hardware'[k] => j = k
    BY <1>1, <1>3 DEF DetectInv, DetectTypes
  <2> QED
    BY <1>1, <1>3, <2>1, EarlyKeeps
<1>4. /\ machine.loader \in {"ok", "no loader", "not a loader"}
      /\ machine.init \in {"ok", "uninitialized", "ze"}
  BY MachineIs DEF DetectInv, DetectTypes
<1> QED
  BY <1>2, <1>3, <1>4 DEF D!Open, D!world

\* Of a list of cards those that are there.
LEMMA HereIs ==
  ASSUME DetectTypes, NEW list \in Seq(Cards)
  PROVE  D!Here(list) \in Seq(Cards)
<1> DEFINE kept == {i \in DOMAIN list : list[i] \in present}
           o == D!InOrder(kept, D!Below(kept))
           n == D!Cardinality(kept)
<1>1. kept \in SUBSET Nat /\ kept \in SUBSET DOMAIN list /\ IsFiniteSet(kept)
  <2>1. Len(list) \in Nat /\ DOMAIN list = 1 .. Len(list) /\ kept \in SUBSET DOMAIN list
    OBVIOUS
  <2>2. IsFiniteSet(DOMAIN list)
    BY <2>1, FS_Interval
  <2> HIDE DEF kept
  <2> QED
    BY <2>1, <2>2, FS_Subset
<1>2. D!Here(list) = [k \in 1 .. n |-> list[o[k]]]
  BY DEF D!Here
<1>6. \A i \in kept : list[i] \in Cards
  OBVIOUS
<1> HIDE DEF kept
<1>3. o \in Seq(kept) /\ DOMAIN o = 1 .. n
  BY <1>1, NumbersInOrder
<1> HIDE DEF o, n
<1>4. n = Len(o) /\ n \in Nat /\ \A k \in 1 .. n : o[k] \in kept
  <2>1. Len(o) \in Nat /\ DOMAIN o = 1 .. Len(o)
    BY <1>3
  <2>2. n = Len(o)
    <3>1. n \in Nat
      <4>1. n = Cardinality(kept)
        BY DEF n, D!Cardinality, Cardinality
      <4> QED
        BY <1>1, <4>1, FS_CardinalityType
    <3> QED
      BY <1>3, <2>1, <3>1
  <2> QED
    BY <1>3, <2>1, <2>2
<1>5. \A k \in 1 .. n : list[o[k]] \in Cards
  BY <1>4, <1>6
<1> QED
  BY <1>2, <1>4, <1>5, SeqDef

\* A driver's devices are counted.
LEMMA CountKeeps == DetectInv /\ D!Count => DetectInv'
<1> SUFFICES ASSUME DetectInv, D!Count PROVE DetectInv'
  OBVIOUS
<1>1. /\ UNCHANGED <<machine, present, free, hardware, handles, gpus, failure, readings>>
      /\ dpc = "count" /\ driver' \in {driver, driver + 1}
      /\ dpc' = "count" \/ (dpc' = "fill" /\ driver' = driver)
      /\ driver <= Len(machine.core) /\ count' = Len(D!Here(machine.core[driver]))
  BY DEF D!Count, D!world
<1>2. count' \in Nat
  <2>1. driver \in Nat \ {0} /\ machine.core \in Seq(Seq(Cards))
    BY MachineIs DEF DetectInv, DetectTypes
  <2>2. machine.core[driver] \in Seq(Cards)
    BY <1>1, <2>1
  <2>3. D!Here(machine.core[driver]) \in Seq(Cards)
    BY <2>2, HereIs DEF DetectInv
  <2> QED
    BY <1>1, <2>3
<1>3. /\ driver' \in Nat \ {0} /\ handles' \in Seq(Cards)
      /\ gpus' \in Seq(GpuRows) /\ hardware' \in Seq(Cards)
      /\ \A j, k \in DOMAIN hardware' : hardware'[j] = hardware'[k] => j = k
  BY <1>1 DEF DetectInv, DetectTypes
<1>4. dpc' = "fill" => driver' <= Len(machine.core)
  BY <1>1
<1>5. dpc' \in {"open", "count", "fill", "describe"} /\ dpc # "done"
  BY <1>1
<1> QED
  BY <1>1, <1>2, <1>3, <1>4, <1>5, EarlyKeeps

\* As many as there was room for are listed.
LEMMA FillKeeps == DetectInv /\ D!Fill => DetectInv'
<1> SUFFICES ASSUME DetectInv, D!Fill PROVE DetectInv'
  OBVIOUS
<1> DEFINE now == D!Here(machine.core[driver])
<1>1. /\ UNCHANGED <<machine, present, free, hardware, driver, count, gpus, failure, readings>>
      /\ dpc = "fill" /\ dpc' = "describe"
      /\ handles' = SubSeq(now, 1, D!Least(count, Len(now)))
  BY DEF D!Fill, D!world
<1>2. CASE now \in Seq(Cards)
  <2>1. D!Least(count, Len(now)) \in 0 .. Len(now)
    BY <1>2 DEF D!Least, DetectInv, DetectTypes
  <2>2. handles' \in Seq(Cards)
    <3> HIDE DEF now
    <3> QED
      BY <1>1, <1>2, <2>1
  <2>3. /\ driver' \in Nat \ {0} /\ count' \in Nat
        /\ gpus' \in Seq(GpuRows) /\ hardware' \in Seq(Cards)
        /\ \A j, k \in DOMAIN hardware' : hardware'[j] = hardware'[k] => j = k
    BY <1>1 DEF DetectInv, DetectTypes
  <2> QED
    BY <1>1, <2>2, <2>3, EarlyKeeps
<1>3. now \in Seq(Cards)
  <2>1. machine.core \in Seq(Seq(Cards)) /\ driver \in Nat \ {0} /\ driver <= Len(machine.core)
    BY <1>1, MachineIs DEF DetectInv, DetectTypes
  <2>2. driver \in DOMAIN machine.core
    BY <2>1
  <2> QED
    BY <2>1, <2>2, HereIs DEF DetectInv
<1> QED
  BY <1>2, <1>3

\* A device is described, and is a GPU or is not.
LEMMA DescribeKeeps == DetectInv /\ D!Describe => DetectInv'
<1> SUFFICES ASSUME DetectInv, D!Describe PROVE DetectInv'
  OBVIOUS
<1>1. /\ UNCHANGED <<machine, present, free, dpc, hardware, driver, count, failure, readings>>
      /\ dpc = "describe" /\ handles # <<>> /\ handles' = Tail(handles)
      /\ gpus' = Append(gpus, [card |-> Head(handles), at |-> 0]) \/ gpus' = gpus
  BY DEF D!Describe, D!world
<1>2. handles' \in Seq(Cards) /\ Head(handles) \in Cards
  BY <1>1 DEF DetectInv, DetectTypes
<1>3. gpus' \in Seq(GpuRows)
  <2>1. [card |-> Head(handles), at |-> 0] \in GpuRows /\ gpus \in Seq(GpuRows)
    BY <1>2 DEF GpuRows, DetectInv, DetectTypes
  <2> QED
    BY <1>1, <2>1, AppendProperties
<1>4. /\ driver' \in Nat \ {0} /\ count' \in Nat /\ hardware' \in Seq(Cards)
      /\ \A j, k \in DOMAIN hardware' : hardware'[j] = hardware'[k] => j = k
  BY <1>1 DEF DetectInv, DetectTypes
<1> QED
  BY <1>1, <1>2, <1>3, <1>4, EarlyKeeps

\* The next driver is asked.
LEMMA NextDriverKeeps == DetectInv /\ D!NextDriver => DetectInv'
<1> SUFFICES ASSUME DetectInv, D!NextDriver PROVE DetectInv'
  OBVIOUS
<1>1. /\ UNCHANGED <<machine, present, free, hardware, count, handles, gpus, failure, readings>>
      /\ dpc = "describe" /\ dpc' = "count" /\ driver' = driver + 1
  BY DEF D!NextDriver, D!world
<1>2. /\ driver' \in Nat \ {0} /\ count' \in Nat /\ hardware' \in Seq(Cards)
      /\ \A j, k \in DOMAIN hardware' : hardware'[j] = hardware'[k] => j = k
      /\ handles' \in Seq(Cards) /\ gpus' \in Seq(GpuRows)
  BY <1>1 DEF DetectInv, DetectTypes
<1> QED
  BY <1>1, <1>2, EarlyKeeps

\* Any call may fail.
LEMMA CallFailsKeeps == DetectInv /\ D!CallFails => DetectInv'
<1> SUFFICES ASSUME DetectInv, D!CallFails PROVE DetectInv'
  OBVIOUS
<1>1. D!Fails("ze") /\ UNCHANGED <<driver, count, handles, gpus>>
  BY DEF D!CallFails, D!probe
<1> QED
  BY <1>1, FailingKeeps

\* The cards of the devices, in their order.
LEMMA OnDevicesAre ==
  ASSUME DetectTypes
  PROVE  /\ D!OnDevices \in Seq(Cards) /\ Len(D!OnDevices) = Len(gpus)
         /\ DOMAIN D!OnDevices = DOMAIN gpus /\ DOMAIN gpus = 1 .. Len(gpus) /\ Len(gpus) \in Nat
         /\ \A i \in DOMAIN gpus : D!OnDevices[i] = gpus[i].card
<1>1. gpus \in Seq(GpuRows)
  BY DEF DetectTypes
<1>2. DOMAIN gpus = 1 .. Len(gpus) /\ Len(gpus) \in Nat
  BY <1>1
<1>3. \A i \in DOMAIN gpus : gpus[i].card \in Cards
  <2> TAKE i \in DOMAIN gpus
  <2>1. gpus[i] \in GpuRows
    BY <1>1
  <2> QED
    BY <2>1 DEF GpuRows
<1>4. D!OnDevices = [i \in 1 .. Len(gpus) |-> gpus[i].card]
  BY <1>2 DEF D!OnDevices
<1>5. D!OnDevices \in Seq(Cards)
  BY <1>2, <1>3, <1>4, SeqDef
<1>6. Len(D!OnDevices) = Len(gpus)
  BY <1>2, <1>4, <1>5
<1> QED
  BY <1>2, <1>4, <1>5, <1>6

\* The two views are joined.
LEMMA FinishKeeps == DetectInv /\ D!Finish => DetectInv'
<1> SUFFICES ASSUME DetectInv, D!Finish PROVE DetectInv'
  OBVIOUS
<1>1. CASE gpus = <<>>
  <2>1. \E cause \in {"no devices", "no gpu"} : D!Fails(cause)
    BY <1>1 DEF D!Finish
  <2>2. UNCHANGED <<driver, count, handles, gpus>>
    BY <1>1 DEF D!Finish, D!probe
  <2> QED
    BY <2>1, <2>2, FailingKeeps
<1>2. CASE gpus # <<>>
  <2> DEFINE p == D!Paired(D!OnDevices, hardware, machine.cards)
  <2>1. /\ UNCHANGED <<machine, present, free, hardware, driver, count, failure, readings>>
        /\ dpc = "count" /\ dpc' = "telemetry" /\ handles' = D!Here(machine.sysman)
        /\ gpus' = [i \in DOMAIN gpus |-> [card |-> gpus[i].card, at |-> p[i]]]
    BY <1>2 DEF D!Finish, D!world
  <2>2. DetectTypes
    BY DEF DetectInv
  <2>3. handles' \in Seq(Cards)
    BY <2>1, <2>2, MachineIs, HereIs DEF DetectTypes
  <2>4. p \in [DOMAIN gpus -> Cards \cup {0}]
    <3>1. /\ D!OnDevices \in Seq(Cards) /\ hardware \in Seq(Cards) /\ 0 \notin Cards
          /\ \A j, k \in DOMAIN hardware : hardware[j] = hardware[k] => j = k
      BY <2>2, OnDevicesAre, MachineIs DEF DetectTypes
    <3>2. p \in [DOMAIN D!OnDevices -> Cards \cup {0}]
      BY <3>1, PairedIs
    <3> QED
      BY <2>2, <3>2, OnDevicesAre
  <2> HIDE DEF p
  <2>5. gpus' \in Seq(GpuRows)
    <3>1. \A i \in DOMAIN gpus : [card |-> gpus[i].card, at |-> p[i]] \in GpuRows
      <4> TAKE i \in DOMAIN gpus
      <4>1. gpus[i] \in GpuRows
        BY <2>2 DEF DetectTypes
      <4> QED
        BY <2>4, <4>1 DEF GpuRows
    <3>2. DOMAIN gpus = 1 .. Len(gpus) /\ Len(gpus) \in Nat
      BY <2>2, OnDevicesAre
    <3> QED
      BY <2>1, <3>1, <3>2, SeqDef
  <2>6. DetectTypes'
    <3>1. Cards' = Cards /\ GpuRows' = GpuRows
      BY <2>1 DEF Cards, GpuRows
    <3> QED
      BY <2>1, <2>2, <2>3, <2>5, <3>1 DEF DetectTypes
  <2>7. ReadingsInv'
    BY <2>1, ReadingsStand DEF DetectInv
  <2>8. MatchInv'
    <3>1. D!OnDevices' = D!OnDevices
      BY <2>1 DEF D!OnDevices
    <3>2. \A i \in DOMAIN gpus' : gpus'[i].at = p[i]
      BY <2>1
    <3> QED
      BY <2>1, <3>1, <3>2 DEF MatchInv, p
  <2>9. FailureInv' /\ AnswerInv'
    BY <2>1 DEF DetectInv, FailureInv, AnswerInv, D!Answered, D!Sound
  <2> QED
    BY <2>6, <2>7, <2>8, <2>9 DEF DetectInv
<1> QED
  BY <1>1, <1>2

\* A card is read.
LEMMA ReadKeeps == DetectInv /\ D!Read => DetectInv'
<1> SUFFICES ASSUME DetectInv, D!Read PROVE DetectInv'
  OBVIOUS
<1> DEFINE h == Head(handles)
           new == [uuid |-> h, pool |-> D!Of(h).pool, free |-> D!Current(h)]
<1>1. /\ UNCHANGED <<machine, present, free, dpc, hardware, driver, count, gpus, failure>>
      /\ UNCHANGED answer /\ dpc = "telemetry" /\ handles # <<>> /\ handles' = Tail(handles)
      /\ readings' = Append(readings, new)
  BY DEF D!Read, D!world
<1>2. handles' \in Seq(Cards) /\ h \in Cards
  BY <1>1 DEF DetectInv, DetectTypes
<1>3. Cards' = Cards /\ GpuRows' = GpuRows /\ Readings' = Readings
  BY <1>1 DEF Cards, GpuRows, Readings, D!Of
<1> HIDE DEF h
<1>4. D!Current(h) = free[h][Len(free[h])] /\ Len(free[h]) \in DOMAIN free[h] /\ D!Current(h) \in Nat
  <2>1. free[h] \in Seq(Nat) /\ Len(free[h]) > 0
    BY <1>2 DEF DetectInv, DetectTypes
  <2> QED
    BY <2>1 DEF D!Current
<1>5. new \in Readings
  BY <1>2, <1>4 DEF Readings
<1>6. new.uuid = h /\ new.pool = D!Of(h).pool /\ new.free = D!Current(h)
  OBVIOUS
<1> HIDE DEF new
<1>7. /\ readings' \in Seq(Readings)
      /\ \A i \in DOMAIN readings' :
           \/ readings'[i] = new
           \/ i \in DOMAIN readings /\ readings'[i] = readings[i]
  <2>1. readings \in Seq(Readings)
    BY DEF DetectInv, ReadingsInv
  <2> QED
    BY <1>1, <1>5, <2>1
<1>8. ReadingsInv'
  <2>1. ASSUME NEW i \in DOMAIN readings'
        PROVE  /\ readings'[i].pool = D!Of(readings'[i].uuid).pool
               /\ \E k \in DOMAIN free[readings'[i].uuid] :
                    readings'[i].free = free[readings'[i].uuid][k]
    <3>1. CASE readings'[i] = new
      BY <1>4, <1>6, <3>1
    <3>2. CASE i \in DOMAIN readings /\ readings'[i] = readings[i]
      BY <3>2 DEF DetectInv, ReadingsInv
    <3> QED
      BY <1>7, <3>1, <3>2
  <2>2. \A c1 : D!Of(c1)' = D!Of(c1)
    BY <1>1 DEF D!Of
  <2> QED
    BY <1>1, <1>3, <1>7, <2>1, <2>2 DEF ReadingsInv, D!Of
<1>9. DetectTypes'
  BY <1>1, <1>2, <1>3 DEF DetectInv, DetectTypes
<1>10. MatchInv'
  BY <1>1 DEF DetectInv, MatchInv, D!Answered, D!OnDevices
<1> QED
  BY <1>1, <1>8, <1>9, <1>10 DEF DetectInv, FailureInv, AnswerInv, D!Answered, D!Sound

\* The reading fails, or is done.
LEMMA ReadEndsKeeps == DetectInv /\ (D!ReadFails \/ D!ReadAll) => DetectInv'
<1> SUFFICES ASSUME DetectInv, D!ReadFails \/ D!ReadAll PROVE DetectInv'
  OBVIOUS
<1>1. /\ UNCHANGED <<machine, present, free, hardware, driver, count, handles, gpus, failure>>
      /\ dpc = "telemetry" /\ dpc' = "judge" /\ readings' \in {readings, <<>>}
  BY DEF D!ReadFails, D!ReadAll, D!world, D!probe
<1>2. Cards' = Cards /\ GpuRows' = GpuRows /\ Readings' = Readings
  BY <1>1 DEF Cards, GpuRows, Readings, D!Of
<1>3. ReadingsInv'
  <2>1. CASE readings' = readings
    BY <1>1, <2>1, ReadingsStand DEF DetectInv
  <2>2. CASE readings' = <<>>
    <3>1. readings' \in Seq(Readings') /\ DOMAIN readings' = {}
      BY <2>2
    <3> QED
      BY <3>1 DEF ReadingsInv
  <2> QED
    BY <1>1, <2>1, <2>2
<1>4. DetectTypes'
  BY <1>1, <1>2 DEF DetectInv, DetectTypes
<1>5. MatchInv'
  BY <1>1 DEF DetectInv, MatchInv, D!Answered, D!OnDevices
<1> QED
  BY <1>1, <1>3, <1>4, <1>5 DEF DetectInv, FailureInv, AnswerInv, D!Answered, D!Sound

\* The answer is of what was read, and stays so.
LEMMA RowsStand ==
  ASSUME UNCHANGED <<machine, gpus, readings>>
  PROVE  UNCHANGED <<D!Rows, D!VerdictFor(D!Rows)>>
<1>1. \A c1 : D!Of(c1)' = D!Of(c1)
  BY DEF D!Of
<1>2. \A c1 : D!FreeDeviceMemory(c1)' = D!FreeDeviceMemory(c1)
  BY DEF D!FreeDeviceMemory, D!ReadingFor
<1>3. \A c1 : D!VramBudget(c1)' = D!VramBudget(c1)
  BY <1>1, <1>2 DEF D!VramBudget
<1>4. \A c1 : D!NamedIgpu(c1)' = D!NamedIgpu(c1)
  BY DEF D!NamedIgpu, D!Of
<1>5. \A i, j : D!Before(i, j)' = D!Before(i, j)
  BY <1>4 DEF D!Before, D!Of
<1>6. D!Ahead' = D!Ahead
  BY <1>5 DEF D!Ahead
<1>7. D!Rows' = D!Rows
  BY <1>3, <1>6 DEF D!Rows
<1> QED
  BY <1>7 DEF D!VerdictFor

\* The devices are judged.
LEMMA JudgeKeeps == DetectInv /\ D!Judge => DetectInv'
<1> SUFFICES ASSUME DetectInv, D!Judge PROVE DetectInv'
  OBVIOUS
<1>1. /\ UNCHANGED <<machine, present, free, hardware, driver, count, handles, gpus, failure>>
      /\ UNCHANGED readings /\ dpc = "judge" /\ dpc' = "done"
      /\ answer' = [rows |-> D!Rows, verdict |-> D!VerdictFor(D!Rows)]
  BY DEF D!Judge, D!world, D!probe
<1>2. Cards' = Cards /\ GpuRows' = GpuRows
  BY <1>1 DEF Cards, GpuRows
<1>3. DetectTypes'
  BY <1>1, <1>2 DEF DetectInv, DetectTypes
<1>4. ReadingsInv'
  BY <1>1, ReadingsStand DEF DetectInv
<1>5. MatchInv'
  BY <1>1 DEF DetectInv, MatchInv, D!Answered, D!OnDevices
<1>6. AnswerInv'
  <2>1. D!Rows' = D!Rows /\ D!VerdictFor(D!Rows)' = D!VerdictFor(D!Rows)
    BY <1>1, RowsStand
  <2> QED
    BY <1>1, <2>1 DEF AnswerInv
<1>7. FailureInv'
  BY <1>1 DEF DetectInv, FailureInv, D!Sound
<1> QED
  BY <1>3, <1>4, <1>5, <1>6, <1>7 DEF DetectInv

\* Every step of every command.
LEMMA StepKeepsDetect ==
  (command = "devices" => DetectInv) /\ [CliNext]_cliVars => (command = "devices" => DetectInv)'
<1> SUFFICES ASSUME command = "devices" => DetectInv, [CliNext]_cliVars, command' = "devices"
             PROVE  DetectInv'
  OBVIOUS
<1>1. command = "devices" /\ (D!DevicesNext \/ UNCHANGED devices)
  BY DEF CliNext, cliVars
<1>2. DetectInv
  BY <1>1
<1>3. CASE UNCHANGED devices
  <2>1. /\ UNCHANGED <<machine, present, free, dpc, hardware, driver, count, handles, gpus>>
        /\ UNCHANGED <<failure, readings, answer>>
    BY <1>3 DEF devices
  <2>2. Cards' = Cards /\ GpuRows' = GpuRows
    BY <2>1 DEF Cards, GpuRows
  <2>3. DetectTypes'
    BY <1>2, <2>1, <2>2 DEF DetectInv, DetectTypes
  <2>4. ReadingsInv'
    BY <1>2, <2>1, ReadingsStand DEF DetectInv
  <2>5. MatchInv'
    BY <1>2, <2>1 DEF DetectInv, MatchInv, D!Answered, D!OnDevices
  <2>6. AnswerInv'
    <3>1. D!Rows' = D!Rows /\ D!VerdictFor(D!Rows)' = D!VerdictFor(D!Rows)
      BY <2>1, RowsStand
    <3> QED
      BY <1>2, <2>1, <3>1 DEF DetectInv, AnswerInv, D!Answered
  <2>7. FailureInv'
    BY <1>2, <2>1 DEF DetectInv, FailureInv, D!Sound
  <2> QED
    BY <2>3, <2>4, <2>5, <2>6, <2>7 DEF DetectInv
<1>4. CASE \E c1 \in present : D!CardLost(c1) \/ \E size \in FreeSizes : D!MemoryTaken(c1, size)
  BY <1>2, <1>4, LossKeeps, TakingKeeps
<1> QED
  BY <1>1, <1>2, <1>3, <1>4, ScanKeeps, OpenKeeps, CountKeeps, FillKeeps, DescribeKeeps,
     NextDriverKeeps, CallFailsKeeps, FinishKeeps, ReadKeeps, ReadEndsKeeps, JudgeKeeps
     DEF D!DevicesNext

\* A reading of a card is the first there is, and true of it.
LEMMA BudgetIs ==
  ASSUME DetectInv, NEW c1 \in Cards
  PROVE  /\ D!VramBudget(c1).bytes <= D!Of(c1).total
         /\ D!Of(c1).igpu /\ ~D!Of(c1).pool => D!VramBudget(c1).source = "refused"
         /\ D!VramBudget(c1).source = "measured" =>
              D!VramBudget(c1).bytes \in {D!Least(f, D!Of(c1).total) : f \in D!Range(free[c1])}
         /\ ~D!Of(c1).igpu => D!VramBudget(c1).source # "refused"
<1> DEFINE m == D!Min(D!FreeDeviceMemory(c1))
<1>1. D!Of(c1).total \in Nat /\ D!Of(c1).igpu \in BOOLEAN
  BY MachineIs DEF DetectInv, DetectTypes
<1>2. CASE D!FreeDeviceMemory(c1) # {}
  <2>1. m \in D!FreeDeviceMemory(c1)
    <3>1. readings \in Seq(Readings)
      BY DEF DetectInv, ReadingsInv
    <3>2. DOMAIN readings \in SUBSET Nat
      BY <3>1
    <3>3. D!FreeDeviceMemory(c1) \in SUBSET Nat
      BY <3>2 DEF D!FreeDeviceMemory, D!ReadingFor
    <3> QED
      BY <1>2, <3>3, MinIs
  <2>2. m \in DOMAIN readings /\ readings[m].uuid = c1 /\ readings[m].pool
    BY <2>1 DEF D!FreeDeviceMemory, D!ReadingFor
  <2> DEFINE f1 == readings[m].free
  <2>3. D!Of(c1).pool /\ \E k \in DOMAIN free[c1] : f1 = free[c1][k]
    BY <2>2 DEF DetectInv, ReadingsInv
  <2>4. f1 \in Nat
    <3>1. readings[m] \in Readings
      BY <2>2 DEF DetectInv, ReadingsInv
    <3> QED
      BY <3>1 DEF Readings
  <2>5. f1 \in D!Range(free[c1])
    BY <2>3 DEF D!Range
  <2>6. D!VramBudget(c1) = [source |-> "measured", bytes |-> D!Least(f1, D!Of(c1).total)]
    BY <1>2 DEF D!VramBudget
  <2> HIDE DEF m, f1
  <2>7. D!Least(f1, D!Of(c1).total) <= D!Of(c1).total
    BY <1>1, <2>4 DEF D!Least
  <2> QED
    BY <2>3, <2>5, <2>6, <2>7
<1>3. CASE D!FreeDeviceMemory(c1) = {}
  BY <1>1, <1>3 DEF D!VramBudget
<1> QED
  BY <1>2, <1>3

\* The rows are the devices, each once, in the order detect.rs gives them.
LEMMA RowsAre ==
  ASSUME DetectInv
  PROVE  \E o \in [DOMAIN gpus -> DOMAIN gpus] :
           /\ \A i \in DOMAIN gpus : D!Rows[i] = [card |-> gpus[o[i]].card,
                                                 budget |-> D!VramBudget(gpus[o[i]].card)]
           /\ DOMAIN D!Rows = DOMAIN gpus
           /\ \A j \in DOMAIN gpus : \E i \in DOMAIN gpus : o[i] = j
           /\ \A i, j \in DOMAIN gpus : i < j => D!Before(o[i], o[j])
<1> DEFINE set == DOMAIN gpus
           o == D!InOrder(set, D!Ahead)
<1>1. /\ set = 1 .. Len(gpus) /\ Len(gpus) \in Nat /\ set \in SUBSET Nat
      /\ IsFiniteSet(set) /\ Cardinality(set) = Len(gpus)
  <2>1. set = 1 .. Len(gpus) /\ Len(gpus) \in Nat
    BY OnDevicesAre DEF DetectInv
  <2>2. \A n \in Nat : IsFiniteSet(1 .. n) /\ Cardinality(1 .. n) = n
    <3> TAKE n \in Nat
    <3>1. IsFiniteSet(1 .. n) /\ Cardinality(1 .. n) = IF 1 > n THEN 0 ELSE n - 1 + 1
      BY FS_Interval
    <3> QED
      BY <3>1
  <2>3. IsFiniteSet(1 .. Len(gpus)) /\ Cardinality(1 .. Len(gpus)) = Len(gpus)
    BY <2>1, <2>2
  <2> HIDE DEF set
  <2> QED
    BY <2>1, <2>3
<1>2. ASSUME NEW i \in set
      PROVE  gpus[i].card \in Cards /\ D!Of(gpus[i].card).name \in Nat
             /\ D!NamedIgpu(gpus[i].card) \in BOOLEAN
  <2>1. \A k \in set : gpus[k].card \in Cards
    <3> TAKE k \in set
    <3>1. gpus[k] \in GpuRows
      BY DEF DetectInv, DetectTypes
    <3> QED
      BY <3>1 DEF GpuRows
  <2> DEFINE alike == {k \in set : D!Of(gpus[k].card).name = D!Of(gpus[i].card).name}
  <2>2. alike \in SUBSET Nat /\ alike \in SUBSET set /\ alike # {}
    BY <1>1
  <2>3. D!NamedIgpu(gpus[i].card) = D!Of(gpus[D!Min(alike)].card).igpu
    BY DEF D!NamedIgpu
  <2> HIDE DEF alike, set
  <2>4. D!Min(alike) \in set
    BY <2>2, MinIs
  <2> QED
    BY <2>1, <2>3, <2>4, MachineIs DEF DetectInv, DetectTypes
<1>3. \A i, j \in set : <<i, j>> \in D!Ahead <=> D!Before(i, j)
  BY DEF D!Ahead
<1> HIDE DEF set
<1>4. Ordered(set, D!Ahead)
  <2>1. ASSUME NEW i \in set PROVE ~D!Before(i, i)
    BY <1>1 DEF D!Before
  <2>2. ASSUME NEW i \in set, NEW j \in set, NEW k \in set, D!Before(i, j), D!Before(j, k)
        PROVE  D!Before(i, k)
    <3> DEFINE named(x) == D!NamedIgpu(gpus[x].card)
               name(x) == D!Of(gpus[x].card).name
    <3>1. \A x \in set : named(x) \in BOOLEAN /\ name(x) \in Nat /\ x \in Nat
      BY <1>1, <1>2
    <3>2. \A x, y \in set : D!Before(x, y) <=>
            IF named(x) # named(y) THEN named(y)
            ELSE IF name(x) # name(y) THEN name(x) < name(y) ELSE x < y
      BY DEF D!Before
    <3> HIDE DEF named, name
    <3> QED
      BY <2>2, <3>1, <3>2
  <2>3. ASSUME NEW i \in set, NEW j \in set PROVE i = j \/ D!Before(i, j) \/ D!Before(j, i)
    BY <1>1, <1>2 DEF D!Before
  <2> QED
    BY <1>3, <2>1, <2>2, <2>3 DEF Ordered
<1>5. /\ o \in Seq(set) /\ DOMAIN o = set /\ \A e \in set : \E i \in DOMAIN o : o[i] = e
      /\ \A i, j \in DOMAIN o : i < j => <<o[i], o[j]>> \in D!Ahead
  BY <1>1, <1>4, Enumerated, SameOrder
<1>6. D!Rows = [i \in set |-> [card |-> gpus[o[i]].card, budget |-> D!VramBudget(gpus[o[i]].card)]]
  BY DEF D!Rows, set
<1> HIDE DEF o
<1>7. o \in [set -> set]
  BY <1>1, <1>5
<1>8. \A i, j \in set : i < j => D!Before(o[i], o[j])
  BY <1>3, <1>5, <1>7
<1>9. DOMAIN D!Rows = set /\ \A i \in set :
        D!Rows[i] = [card |-> gpus[o[i]].card, budget |-> D!VramBudget(gpus[o[i]].card)]
  BY <1>6
<1> QED
  BY <1>5, <1>7, <1>8, <1>9 DEF set

\* What an answer says of a budget is so.
LEMMA BudgetsAreTheirOwn == DetectInv => D!BudgetIsItsOwn
<1> SUFFICES ASSUME DetectInv, D!Answered PROVE D!BudgetIsItsOwn
  BY DEF D!BudgetIsItsOwn
<1> DEFINE set == DOMAIN gpus
           kind(j) == D!Of(gpus[j].card).igpu
           ready == {i \in DOMAIN D!Rows : D!Rows[i].budget.source # "refused"}
<1>1. answer.rows = D!Rows /\ answer.verdict = D!VerdictFor(D!Rows)
  BY DEF DetectInv, AnswerInv
<1>2. set \in SUBSET Nat /\ 0 \notin set /\ \A j \in set : gpus[j].card \in Cards /\ kind(j) \in BOOLEAN
  <2>1. set = 1 .. Len(gpus) /\ Len(gpus) \in Nat
    BY OnDevicesAre DEF DetectInv
  <2>2. ASSUME NEW j \in set PROVE gpus[j].card \in Cards /\ kind(j) \in BOOLEAN
    <3>1. gpus[j] \in GpuRows
      BY DEF DetectInv, DetectTypes
    <3> QED
      BY <3>1, MachineIs DEF GpuRows, DetectInv, DetectTypes
  <2> QED
    BY <2>1, <2>2
<1>3. PICK o \in [set -> set] :
        /\ \A i \in set : D!Rows[i] = [card |-> gpus[o[i]].card,
                                      budget |-> D!VramBudget(gpus[o[i]].card)]
        /\ DOMAIN D!Rows = set
        /\ \A j \in set : \E i \in set : o[i] = j
        /\ \A i, j \in set : i < j => D!Before(o[i], o[j])
  BY RowsAre
<1> HIDE DEF set
<1>4. ASSUME NEW i \in DOMAIN answer.rows
      PROVE  LET r == answer.rows[i] IN
             /\ r.budget.bytes <= D!Of(r.card).total
             /\ D!Of(r.card).igpu /\ ~D!Of(r.card).pool => r.budget.source = "refused"
             /\ r.budget.source = "measured" =>
                  r.budget.bytes \in {D!Least(f, D!Of(r.card).total) : f \in D!Range(free[r.card])}
  <2>1. i \in set /\ o[i] \in set /\ gpus[o[i]].card \in Cards
    BY <1>1, <1>2, <1>3
  <2> DEFINE c1 == gpus[o[i]].card
  <2>2. answer.rows[i] = [card |-> c1, budget |-> D!VramBudget(c1)]
    BY <1>1, <1>3, <2>1
  <2> HIDE DEF c1
  <2>3. answer.rows[i].card = c1 /\ answer.rows[i].budget = D!VramBudget(c1)
    BY <2>2
  <2> QED
    BY <2>1, <2>3, BudgetIs DEF c1
<1>5. ready # {} => D!Min(ready) \in ready /\ \A i \in ready : D!Min(ready) <= i
  <2>1. ready \in SUBSET Nat
    BY <1>2, <1>3
  <2> HIDE DEF ready
  <2> QED
    BY <2>1, MinIs
<1>6. \A i \in set : i \in ready <=> D!VramBudget(gpus[o[i]].card).source # "refused"
  BY <1>3
<1>7. /\ D!VerdictFor(D!Rows).is = "ready" <=> ready # {}
      /\ ready # {} => D!VerdictFor(D!Rows).row = D!Min(ready)
  BY DEF D!VerdictFor
<1>8. \A i \in ready : i \in set
  BY <1>3
<1> HIDE DEF ready
<1>9. \A is \in BOOLEAN :
        /\ D!Usable(is) = {j \in set : kind(j) = is
                             /\ D!VramBudget(gpus[j].card).source # "refused"}
        /\ D!Usable(is) # {} => D!Min(D!Usable(is)) \in D!Usable(is)
  <2> TAKE is \in BOOLEAN
  <2>1. D!Usable(is) = {j \in set : kind(j) = is
                          /\ D!VramBudget(gpus[j].card).source # "refused"}
    BY DEF D!Usable, set
  <2>2. D!Usable(is) \in SUBSET Nat
    BY <1>2, <2>1
  <2> QED
    BY <2>1, <2>2, MinIs
<1> DEFINE t == D!InferenceTarget
<1>10. /\ D!Usable(FALSE) # {} => t \in set /\ kind(t) = FALSE
       /\ D!Usable(FALSE) = {} /\ D!Usable(TRUE) # {} => t \in set /\ kind(t) = TRUE
       /\ D!Usable(FALSE) = {} /\ D!Usable(TRUE) = {} => t = 0
  BY <1>9 DEF D!InferenceTarget
<1>11. ready # {} <=> D!Usable(FALSE) # {} \/ D!Usable(TRUE) # {}
  <2>1. ASSUME NEW i \in ready PROVE D!Usable(FALSE) # {} \/ D!Usable(TRUE) # {}
    <3>1. i \in set /\ o[i] \in set /\ D!VramBudget(gpus[o[i]].card).source # "refused"
      BY <1>3, <1>6, <1>8
    <3>2. kind(o[i]) \in BOOLEAN
      BY <1>2, <3>1
    <3> QED
      BY <1>9, <3>1, <3>2
  <2>2. ASSUME NEW is \in BOOLEAN, NEW j \in D!Usable(is) PROVE ready # {}
    <3>1. j \in set /\ D!VramBudget(gpus[j].card).source # "refused"
      BY <1>9
    <3> QED
      BY <1>3, <1>6, <3>1
  <2> QED
    BY <2>1, <2>2
<1>12. answer.verdict.is = "ready" <=> t # 0
  BY <1>1, <1>2, <1>7, <1>10, <1>11
<1>13. ASSUME answer.verdict.is = "ready", D!NamesTellClass
       PROVE  LET first == answer.rows[answer.verdict.row].card IN
              /\ D!Of(first).igpu = D!Of(gpus[t].card).igpu
              /\ D!Of(first).igpu => \A d1 \in D!Range(gpus) : D!Of(d1.card).igpu
  <2> DEFINE r == D!Min(ready)
  <2>1. ready # {} /\ r \in ready /\ r \in set /\ o[r] \in set /\ answer.verdict.row = r
    BY <1>1, <1>3, <1>5, <1>7, <1>8, <1>13
  <2>2. answer.rows[r].card = gpus[o[r]].card
    BY <1>1, <1>3, <2>1
  <2>3. \A j \in set : D!NamedIgpu(gpus[j].card) = kind(j)
    <3> TAKE j \in set
    <3> DEFINE alike == {k \in set : D!Of(gpus[k].card).name = D!Of(gpus[j].card).name}
    <3>1. alike \in SUBSET Nat /\ j \in alike
      BY <1>2
    <3>2. D!NamedIgpu(gpus[j].card) = kind(D!Min(alike))
      BY DEF D!NamedIgpu, set
    <3>3. D!Min(alike) \in alike
      <4> HIDE DEF alike
      <4> QED
        BY <3>1, MinIs
    <3>4. \A k \in alike : kind(k) = kind(j)
      <4>1. \A k \in set : gpus[k] \in D!Range(gpus)
        BY DEF D!Range, set
      <4> QED
        BY <1>13, <4>1 DEF D!NamesTellClass
    <3> QED
      BY <3>2, <3>3, <3>4
  <2>4. kind(o[r]) => \A j \in set : kind(j)
    <3> SUFFICES ASSUME kind(o[r]), NEW j \in set, ~kind(j) PROVE FALSE
      BY <1>2
    <3>1. PICK i \in set : o[i] = j
      BY <1>3
    <3>2. i \in ready
      <4>1. D!VramBudget(gpus[j].card).source # "refused"
        BY <1>2, BudgetIs
      <4> QED
        BY <1>6, <3>1, <4>1
    <3>3. r <= i /\ r # i /\ r \in Nat /\ i \in Nat
      BY <1>2, <1>5, <2>1, <3>1, <3>2
    <3>4. D!Before(o[r], j)
      <4>1. r \in set /\ i \in set /\ r < i
        BY <2>1, <3>1, <3>3
      <4>2. D!Before(o[r], o[i])
        <5>1. \A k1, k2 \in set : k1 < k2 => D!Before(o[k1], o[k2])
          BY <1>3
        <5> HIDE DEF r
        <5> QED
          BY <4>1, <5>1
      <4> QED
        BY <3>1, <4>2
    <3>5. D!NamedIgpu(gpus[o[r]].card) = kind(o[r]) /\ D!NamedIgpu(gpus[j].card) = kind(j)
      BY <2>1, <2>3
    <3> QED
      BY <3>4, <3>5 DEF D!Before
  <2>5. kind(o[r]) = kind(t)
    <3>1. CASE kind(o[r])
      <4>1. D!Usable(FALSE) = {}
        BY <1>9, <2>4, <3>1
      <4> QED
        BY <1>2, <1>10, <1>11, <2>1, <3>1, <4>1
    <3>2. CASE ~kind(o[r])
      <4>1. kind(o[r]) = FALSE /\ D!VramBudget(gpus[o[r]].card).source # "refused"
        BY <1>2, <1>6, <2>1, <3>2
      <4>2. o[r] \in D!Usable(FALSE)
        BY <1>9, <2>1, <4>1
      <4> QED
        BY <1>10, <4>1, <4>2
    <3> QED
      BY <3>1, <3>2
  <2>6. ASSUME \A j \in set : kind(j) PROVE \A d1 \in D!Range(gpus) : D!Of(d1.card).igpu
    BY <2>6 DEF D!Range, set
  <2> QED
    BY <2>1, <2>2, <2>4, <2>5, <2>6
<1> QED
  BY <1>4, <1>12, <1>13 DEF D!BudgetIsItsOwn

\* Every card is told of.
LEMMA CardsAreTold == DetectInv => D!EveryCardIsTold
<1> SUFFICES ASSUME DetectInv PROVE D!EveryCardIsTold
  OBVIOUS
<1>1. ASSUME dpc = "done", failure.cause # "none"
      PROVE  failure.evidence <=> hardware # <<>> /\ failure.cause # "ze"
  BY <1>1 DEF DetectInv, FailureInv, D!Sound
<1>2. ASSUME D!Answered
      PROVE  LET given == {d1.at : d1 \in D!Range(gpus)} \ {0}
                 left == D!Range(D!UnusableHardware) IN
             /\ \A i, j \in DOMAIN gpus : gpus[i].at = gpus[j].at => i = j \/ gpus[i].at = 0
             /\ given \cup left = D!Range(hardware) /\ given \cap left = {}
             /\ \A d1 \in D!Range(gpus) : d1.at # 0 => D!Of(d1.at).model = D!Of(d1.card).model
             /\ \A c1 \in left, d1 \in D!Range(gpus) :
                  d1.at = 0 => D!Of(c1).model # D!Of(d1.card).model
  <2> DEFINE cs == D!OnDevices
             of == machine.cards
             p == D!Paired(cs, hardware, of)
             rest == D!UnusableHardware
             m == Len(gpus)
  <2>1. /\ cs \in Seq(Cards) /\ Len(cs) = m /\ DOMAIN gpus = 1 .. m
        /\ \A i \in 1 .. m : cs[i] = gpus[i].card
    BY OnDevicesAre DEF DetectInv
  <2>2. \A i \in 1 .. m : gpus[i].at = p[i]
    BY <1>2, <2>1 DEF DetectInv, MatchInv
  <2>3. rest = D!Unmatched(cs, hardware, of)[m]
    BY DEF D!UnusableHardware
  <2>4. hardware \in Seq(Cards) /\ 0 \notin Cards
        /\ \A j, k \in DOMAIN hardware : hardware[j] = hardware[k] => j = k
    BY MachineIs DEF DetectInv, DetectTypes
  <2>5. TakenBy(m, cs, p, rest, of) /\ Accounted(m, hardware, p, rest)
    BY <2>1, <2>3, <2>4, PairedIs
  <2>6. \A c1 : D!Of(c1) = of[c1]
    BY DEF D!Of
  <2>7. /\ \A d1 : d1 \in D!Range(gpus) <=> \E i \in 1 .. m : d1 = gpus[i]
        /\ \A c1 : c1 \in D!Range(rest) <=> \E k \in DOMAIN rest : c1 = rest[k]
    BY <2>1 DEF D!Range
  <2>8. D!Range(hardware) = Range(hardware) /\ 0 \notin D!Range(hardware)
    BY <2>4 DEF D!Range, Range
  <2> HIDE DEF cs, of, p, rest, m
  <2>9. \A i, j \in DOMAIN gpus : gpus[i].at = gpus[j].at => i = j \/ gpus[i].at = 0
    BY <2>1, <2>2, <2>5 DEF TakenBy
  <2>10. \A d1 \in D!Range(gpus) : d1.at # 0 => D!Of(d1.at).model = D!Of(d1.card).model
    BY <2>1, <2>2, <2>5, <2>6, <2>7 DEF TakenBy
  <2>11. \A c1 \in D!Range(rest), d1 \in D!Range(gpus) :
           d1.at = 0 => D!Of(c1).model # D!Of(d1.card).model
    BY <2>1, <2>2, <2>5, <2>6, <2>7 DEF TakenBy
  <2> DEFINE given == {d1.at : d1 \in D!Range(gpus)} \ {0}
             left == D!Range(rest)
  <2>12. \A c1 : c1 \in given <=> c1 # 0 /\ \E i \in 1 .. m : c1 = p[i]
    BY <2>2, <2>7
  <2> HIDE DEF given, left
  <2>13. given \cap left = {}
    BY <2>5, <2>7, <2>12 DEF TakenBy, left
  <2>14. given \cup left = D!Range(hardware)
    <3>1. ASSUME NEW c1 \in D!Range(hardware) PROVE c1 \in given \cup left
      BY <2>5, <2>7, <2>8, <2>12 DEF Accounted, left
    <3>2. ASSUME NEW c1 \in given \cup left PROVE c1 \in D!Range(hardware)
      BY <2>5, <2>7, <2>8, <2>12 DEF Accounted, left
    <3> QED
      BY <3>1, <3>2
  <2> QED
    BY <2>9, <2>10, <2>11, <2>13, <2>14 DEF given, left, rest
<1> QED
  BY <1>1, <1>2 DEF D!EveryCardIsTold

\* A budget is video memory of its own device and was true, what one program calls ready the
\* other takes, and of the same class; every card the kernel shows is told of once and as its
\* own model.  For any machine, any order of the three views, any loss, change or failure.
THEOREM DevicesAreTrueHolds == CliSpec => []DevicesAreTrue
<1>1. CliInit => (command = "devices" => DetectInv)
  BY DetectBegins DEF CliInit
<1>2. (command = "devices" => DetectInv) /\ [CliNext]_cliVars
        => (command = "devices" => DetectInv)'
  BY StepKeepsDetect
<1>3. (command = "devices" => DetectInv) => DevicesAreTrue
  BY BudgetsAreTheirOwn, CardsAreTold DEF DevicesAreTrue, D!DevicesAreTrue
<1> QED
  BY <1>1, <1>2, <1>3, PTL DEF CliSpec
=============================================================================
