------------------------------ MODULE DecodeProofs ------------------------------
(***************************************************************************)
(* Proofs about Decode, for any number of blocks, experts and slots and    *)
(* whatever the router and the host policy choose.                         *)
(*                                                                         *)
(* What the device has yet to do is read off its queue.  A block submits   *)
(* its copies first, then the products, then the copy and the addition of  *)
(* the CPU's share, then the residual, and nothing of the next block       *)
(* before all of it has run: so the operation at the head finds what the   *)
(* ones before it have left, and the queue says what is still to come.     *)
(***************************************************************************)
EXTENDS Decode, SequenceTheorems, FiniteSetTheorems, TLAPS

CP == INSTANCE ExpertCacheProofs WITH Experts <- ExpertRefs, MaxDemands <- K

Phase(op) ==
  IF op = "copy" THEN 1 ELSE IF op \in {"experts", "zero"} THEN 2
  ELSE IF op = "cpu" THEN 3 ELSE IF op = "add" THEN 4 ELSE 5

CopyOps == [op : {"copy"}, slot : Cache!Slots, expert : ExpertRefs, bank : Banks]
Ops ==
  CopyOps \cup {[op |-> "zero"], [op |-> "cpu"], [op |-> "add"]}
    \cup [op : {"experts"}, slots : Seq(Cache!Slots), sub : BOOLEAN]
    \cup [op : {"residual"}, asked : Seq(ExpertRefs)]

\* What the device has yet to do.
Todo == {queue[i] : i \in DOMAIN queue}
Left(n) == \E o \in Todo : Phase(o.op) = n
Upto(n) == \A o \in Todo : Phase(o.op) <= n

InOrder(q) ==
  \A i, j \in DOMAIN q : i < j =>
    Phase(q[i].op) < Phase(q[j].op) \/ (q[i].op = "copy" /\ q[j].op = "copy")

\* The device's share and the CPU's are the router's choice, in two parts.
SharesInv ==
  /\ wanted \in Seq(ExpertRefs) /\ cpu_pick \in Seq(ExpertRefs) /\ GpuWanted \in Seq(ExpertRefs)
  /\ Len(GpuWanted) + Len(cpu_pick) = Len(wanted)
  /\ Cache!Distinct(GpuWanted) \cup Cache!Distinct(cpu_pick) = Cache!Distinct(wanted)
  /\ cpu_pick = <<>> => GpuWanted = wanted

\* What is in the queue where decode is.
QueueInv ==
  /\ queue \in Seq(Ops) /\ InOrder(queue) /\ block \in 1 .. Blocks
  /\ pc \in {"idle", "route", "submit", "upload", "admit", "stage", "sync", "add",
             "residual", "answer"}
  /\ pc \in {"submit", "upload", "admit"} => queue = <<>>
  /\ pc = "stage" =>
       /\ Upto(1) /\ at \in {"serving", "planned"}
       /\ at = "serving" => queue = <<>> /\ staged = {}
       /\ needed = GpuWanted /\ (at = "planned" => next = Len(needed) + 1)
  /\ pc \in {"sync", "add"} => Upto(2)
  /\ pc = "residual" => Upto(4)

-----------------------------------------------------------------------------
(* What is resident is filled, or is about to be.                          *)

Coming(s, b) == \E o \in Todo : o.op = "copy" /\ o.slot = s /\ o.bank = b
Unstaged(s) == pc = "stage" /\ \E l \in loads \ staged : l.slot = s

FilledInv ==
  /\ ~lost
  /\ pool \in [Cache!Slots -> [Banks -> ExpertRefs \cup {NoExpert}]]
  /\ \A o \in Todo : o.op = "copy" /\ occupant[o.slot] # NoExpert => o.expert = occupant[o.slot]
  /\ \A s \in Cache!Slots, b \in Banks :
       occupant[s] # NoExpert => pool[s][b] = occupant[s] \/ Coming(s, b) \/ Unstaged(s)

-----------------------------------------------------------------------------
(* The sum of a block.                                                     *)

Uploaded ==
  /\ weights = wanted
  /\ pc \notin {"submit", "upload"} /\ cpu_pick # <<>> => weights_sub = GpuWanted

\* The job is the CPU's share until it is synced, and what sync wrote stays.
JobInv ==
  /\ job = IF pc \in {"upload", "admit", "stage", "sync"} THEN cpu_pick ELSE <<>>
  /\ pc \in {"sync", "add"} => cpu_pick # <<>>
  /\ pc \in {"add", "residual", "answer", "route"} /\ cpu_pick # <<>> => cpu_out = Owns(cpu_pick)

ProductsRight ==
  \A o \in Todo :
    /\ o.op = "zero" => GpuWanted = <<>>
    /\ o.op = "experts" =>
         /\ o.sub <=> cpu_pick # <<>>
         /\ Len(o.slots) = Len(GpuWanted)
         /\ \A k \in DOMAIN o.slots : occupant[o.slots[k]] = GpuWanted[k]

GpuComing == Left(2) \/ ffn = Owns(GpuWanted)
SumComing ==
  \/ Left(4) /\ GpuComing /\ (Left(3) \/ cpu_ffn = Owns(cpu_pick))
  \/ ~Left(4) /\ Left(2) /\ cpu_pick = <<>>
  \/ ~Left(4) /\ ~Left(2) /\ ffn = Owns(GpuWanted) \o Owns(cpu_pick)

Done == IF pc = "answer" THEN Blocks ELSE block - 1

SumRecords == [sum : Seq({Own(e) : e \in ExpertRefs}), asked : Seq(ExpertRefs)]

TokenInv ==
  /\ Uploaded /\ JobInv /\ ProductsRight
  /\ pc \in {"sync", "add"} => GpuComing
  /\ pc = "residual" => SumComing
  /\ pc \in {"route", "answer"} => queue = <<>> \/ Left(5)
  /\ Left(5) => SumComing
  /\ \A o \in Todo : o.op = "residual" => pc \in {"route", "answer"} /\ o.asked = wanted
  /\ Left(3) \/ Left(4) => cpu_pick # <<>>
  /\ h \in Seq(SumRecords) /\ Len(h) = IF Left(5) THEN Done - 1 ELSE Done
  /\ \A i \in DOMAIN h : Whole(h[i])

SumInv ==
  /\ host # "stray"
  /\ IF pc = "idle" THEN job = <<>> ELSE TokenInv

BaseInv == CP!IInv /\ SharesInv /\ QueueInv

-----------------------------------------------------------------------------
(* The constants, and the elements of a sequence at some positions.        *)

\* What the assumption says of the constants.
LEMMA Shape ==
  ASSUME ConfigAssumption
  PROVE  /\ Blocks \in Nat \ {0} /\ IsFiniteSet(Ids) /\ Capacity \in Nat \ {0} /\ K \in Nat \ {0}
         /\ NoExpert \notin ExpertRefs /\ IsFiniteSet(ExpertRefs)
         /\ MaxClock \in Nat /\ MaxSteps \in Nat
<1>1. Cardinality(Ids) \in Nat /\ IsFiniteSet(1 .. Blocks)
  BY FS_CardinalityType, FS_Interval DEF ConfigAssumption
<1>2. IsFiniteSet((1 .. Blocks) \X Ids)
  BY <1>1, FS_Product DEF ConfigAssumption
<1>3. K \in Nat \ {0} /\ Capacity \in Nat \ {0}
  BY <1>1 DEF ConfigAssumption
<1> QED
  BY <1>2, <1>3 DEF ConfigAssumption, ExpertRefs

\* The elements kept are those at the positions, each once.
LEMMA Kept ==
  ASSUME NEW S, NEW s \in Seq(S), NEW I \in SUBSET DOMAIN s
  PROVE  /\ Cardinality(I) \in Nat /\ Keep(s, I) \in Seq(S) /\ Len(Keep(s, I)) = Cardinality(I)
         /\ \A x : (\E n \in DOMAIN Keep(s, I) : Keep(s, I)[n] = x) <=> \E i \in I : s[i] = x
<1>1. /\ IsFiniteSet(I) /\ Cardinality(I) \in Nat
      /\ \A J \in SUBSET I : IsFiniteSet(J) /\ Cardinality(J) \in Nat /\ Cardinality(J) <= Cardinality(I)
  <2>1. DOMAIN s = 1 .. Len(s) /\ Len(s) \in Nat
    OBVIOUS
  <2>2. IsFiniteSet(DOMAIN s)
    BY <2>1, FS_Interval
  <2>3. IsFiniteSet(I)
    BY <2>2, FS_Subset
  <2> QED
    BY <2>3, FS_Subset, FS_CardinalityType
<1> DEFINE c == Cardinality(I)
           r == [i \in I |-> Rank(i, I)]
<1>2. \A i \in I : i \in Int
  OBVIOUS
<1>3. ASSUME NEW i \in I
      PROVE  Rank(i, I) \in 1 .. c
  <2> DEFINE J == {j \in I : j <= i}
  <2>1. J \in SUBSET I /\ i \in J
    BY <1>2
  <2>2. Cardinality(J) # 0
    BY <1>1, <2>1, FS_EmptySet
  <2> QED
    BY <1>1, <2>1, <2>2 DEF Rank
<1>4. ASSUME NEW i \in I, NEW j \in I, i < j
      PROVE  Rank(i, I) # Rank(j, I)
  <2> DEFINE A == {k \in I : k <= i}
             B == {k \in I : k <= j}
  <2>1. A \in SUBSET B /\ j \in B /\ j \notin A
    BY <1>2, <1>4
  <2>2. IsFiniteSet(B)
    BY <1>1
  <2>3. A # B
    BY <2>1
  <2>4. Cardinality(B) # Cardinality(A)
    BY <2>1, <2>2, <2>3, FS_Subset
  <2> QED
    BY <2>4 DEF Rank
<1>5. r \in Injection(I, 1 .. c)
  <2>1. r \in [I -> 1 .. c]
    BY <1>3
  <2>2. \A i, j \in I : r[i] = r[j] => i = j
    <3> SUFFICES ASSUME NEW i \in I, NEW j \in I, i # j
                 PROVE  r[i] # r[j]
      OBVIOUS
    <3>1. i < j \/ j < i
      BY <1>2
    <3> QED
      BY <1>4, <3>1
  <2> QED
    BY <2>1, <2>2 DEF Injection, IsInjective
<1>6. r \in Surjection(I, 1 .. c)
  <2>1. IsFiniteSet(1 .. c) /\ Cardinality(1 .. c) = c
    BY <1>1, FS_Interval
  <2> HIDE DEF r
  <2> QED
    BY <1>5, <2>1, FS_Injection
<1>7. ASSUME NEW n \in 1 .. c
      PROVE  \E i \in I : Rank(i, I) = n
  BY <1>6, <1>7 DEF Surjection
<1> DEFINE at_(n) == CHOOSE i \in I : Rank(i, I) = n
<1>8. ASSUME NEW n \in 1 .. c
      PROVE  at_(n) \in I /\ Rank(at_(n), I) = n
  BY <1>7
<1>9. Keep(s, I) = [n \in 1 .. c |-> s[at_(n)]]
  BY DEF Keep
<1>10. \A i, j \in I : Rank(i, I) = Rank(j, I) => i = j
  <2> SUFFICES ASSUME NEW i \in I, NEW j \in I, i # j
               PROVE  Rank(i, I) # Rank(j, I)
    OBVIOUS
  <2>1. i < j \/ j < i
    BY <1>2
  <2> QED
    BY <1>4, <2>1
<1> HIDE DEF at_, r
<1>11. Keep(s, I) \in Seq(S) /\ Len(Keep(s, I)) = c /\ DOMAIN Keep(s, I) = 1 .. c
  <2>1. \A n \in 1 .. c : s[at_(n)] \in S
    BY <1>8
  <2> QED
    BY <1>1, <1>9, <2>1
<1>12. \A i \in I : Rank(i, I) \in 1 .. c /\ Keep(s, I)[Rank(i, I)] = s[i]
  BY <1>3, <1>8, <1>9, <1>10
<1>13. \A n \in 1 .. c : Keep(s, I)[n] = s[at_(n)]
  BY <1>9
<1> QED
  BY <1>1, <1>8, <1>11, <1>12, <1>13

\* A sequence kept at all of its positions is itself.
LEMMA KeptAll ==
  ASSUME NEW S, NEW s \in Seq(S)
  PROVE  Keep(s, DOMAIN s) = s
<1> DEFINE I == DOMAIN s
<1>1. I = 1 .. Len(s) /\ Len(s) \in Nat
  OBVIOUS
<1>2. ASSUME NEW i \in 1 .. Len(s)
      PROVE  Rank(i, I) = i
  <2>1. {j \in I : j <= i} = 1 .. i
    BY <1>1
  <2>2. Cardinality(1 .. i) = i
    BY <1>1, FS_Interval
  <2> QED
    BY <2>1, <2>2 DEF Rank
<1>3. Cardinality(I) = Len(s)
  BY <1>1, FS_Interval
<1>4. \A n \in 1 .. Len(s) : (CHOOSE i \in I : Rank(i, I) = n) = n
  BY <1>1, <1>2
<1>5. Keep(s, I) = [n \in 1 .. Len(s) |-> s[CHOOSE i \in I : Rank(i, I) = n]]
  BY <1>3 DEF Keep
<1>6. Keep(s, I) = [n \in 1 .. Len(s) |-> s[n]]
  BY <1>4, <1>5
<1> QED
  BY <1>1, <1>6

-----------------------------------------------------------------------------
(* The queue.                                                              *)

\* The order the operations of a block are submitted in.
LEMMA Phases ==
  /\ Phase("copy") = 1 /\ Phase("experts") = 2 /\ Phase("zero") = 2 /\ Phase("cpu") = 3
  /\ Phase("add") = 4 /\ Phase("residual") = 5
BY DEF Phase

\* An operation is known by its phase, but for the two that write the sum of the device.
LEMMA OpKinds ==
  ASSUME NEW o \in Ops
  PROVE  /\ o.op \in {"copy", "experts", "zero", "cpu", "add", "residual"}
         /\ Phase(o.op) \in 1 .. 5
         /\ Phase(o.op) = 1 <=> o.op = "copy"
         /\ Phase(o.op) = 2 <=> o.op \in {"experts", "zero"}
         /\ Phase(o.op) = 3 <=> o.op = "cpu"
         /\ Phase(o.op) = 4 <=> o.op = "add"
         /\ Phase(o.op) = 5 <=> o.op = "residual"
         /\ o.op = "copy" => o \in CopyOps
         /\ o.op = "experts" => o.slots \in Seq(Cache!Slots)
<1>1. o.op \in {"copy", "experts", "zero", "cpu", "add", "residual"}
  BY DEF Ops, CopyOps
<1>2. /\ o.op = "copy" => o \in CopyOps
      /\ o.op = "experts" => o.slots \in Seq(Cache!Slots)
  BY DEF Ops, CopyOps
<1> QED
  BY <1>1, <1>2 DEF Phase

\* The device takes the operation at the head: what is left comes after it.
LEMMA TodoTail ==
  ASSUME queue \in Seq(Ops), InOrder(queue), queue # <<>>, queue' = Tail(queue)
  PROVE  /\ queue' \in Seq(Ops) /\ InOrder(queue') /\ Op \in Todo /\ Op \in Ops
         /\ Todo = Todo' \cup {Op} /\ Todo \subseteq Ops
         /\ \A o \in Todo' : Phase(Op.op) < Phase(o.op) \/ (Op.op = "copy" /\ o.op = "copy")
<1>1. /\ Len(queue) \in Nat \ {0} /\ DOMAIN queue = 1 .. Len(queue) /\ 1 \in DOMAIN queue
      /\ \A i \in DOMAIN queue : queue[i] \in Ops
  OBVIOUS
<1>2. /\ Tail(queue) \in Seq(Ops) /\ DOMAIN Tail(queue) = 1 .. (Len(queue) - 1)
      /\ \A i \in 1 .. (Len(queue) - 1) : Tail(queue)[i] = queue[i + 1]
  BY <1>1
<1>3. \A i \in DOMAIN queue' : i + 1 \in DOMAIN queue /\ queue'[i] = queue[i + 1] /\ 1 < i + 1
  BY <1>1, <1>2
<1>4. \A i \in DOMAIN queue : i = 1 \/ (i - 1 \in DOMAIN queue' /\ queue'[i - 1] = queue[i])
  <2>1. \A i \in DOMAIN queue : i = 1 \/ (i - 1 \in 1 .. (Len(queue) - 1) /\ (i - 1) + 1 = i)
    BY <1>1
  <2> QED
    BY <1>2, <2>1
<1>5. Todo = Todo' \cup {Op}
  <2>1. \A i \in DOMAIN queue' : queue'[i] \in Todo
    BY <1>3 DEF Todo
  <2>2. \A i \in DOMAIN queue : queue[i] = Op \/ queue[i] \in Todo'
    BY <1>4 DEF Todo, Op
  <2>3. Op \in Todo
    BY <1>1 DEF Todo, Op
  <2> QED
    BY <2>1, <2>2, <2>3 DEF Todo
<1>6. InOrder(queue')
  <2> SUFFICES ASSUME NEW i \in DOMAIN queue', NEW j \in DOMAIN queue', i < j
               PROVE  \/ Phase(queue'[i].op) < Phase(queue'[j].op)
                      \/ queue'[i].op = "copy" /\ queue'[j].op = "copy"
    BY DEF InOrder
  <2>1. i + 1 < j + 1
    BY <1>2
  <2> QED
    BY <1>3, <2>1 DEF InOrder
<1>7. \A i \in DOMAIN queue' : \/ Phase(Op.op) < Phase(queue'[i].op)
                               \/ Op.op = "copy" /\ queue'[i].op = "copy"
  BY <1>1, <1>3 DEF InOrder, Op
<1> QED
  BY <1>1, <1>2, <1>5, <1>6, <1>7 DEF Todo, Op

\* What is submitted is to be done, after what was.
LEMMA TodoAppend ==
  ASSUME queue \in Seq(Ops), NEW r \in Seq(Ops), queue' = queue \o r
  PROVE  /\ queue' \in Seq(Ops) /\ Todo \subseteq Ops
         /\ Todo' = Todo \cup {r[i] : i \in DOMAIN r}
         /\ DOMAIN queue = 1 .. Len(queue) /\ Len(queue) \in Nat
         /\ \A i \in DOMAIN queue' :
              \/ i \in DOMAIN queue /\ queue'[i] = queue[i] /\ queue'[i] \in Todo
              \/ i > Len(queue) /\ i - Len(queue) \in DOMAIN r /\ queue'[i] = r[i - Len(queue)]
<1> DEFINE m == Len(queue)
           n == Len(r)
<1>1. /\ m \in Nat /\ n \in Nat /\ DOMAIN queue = 1 .. m /\ DOMAIN r = 1 .. n
      /\ queue' \in Seq(Ops) /\ DOMAIN queue' = 1 .. (m + n)
      /\ \A i \in 1 .. m : queue'[i] = queue[i]
  BY ConcatProperties
<1>2. \A i \in 1 .. n : queue'[m + i] = r[i] /\ m + i \in 1 .. (m + n)
  <2>1. \A i \in 1 .. n : m + i \in (m + 1) .. (m + n) /\ (m + i) - m = i
    BY <1>1
  <2>2. \A j \in 1 .. (m + n) : queue'[j] = IF j <= m THEN queue[j] ELSE r[j - m]
    BY ConcatProperties
  <2> QED
    BY <1>1, <2>1, <2>2
<1> HIDE DEF m, n
<1>3. \A i \in 1 .. (m + n) : i \in 1 .. m \/ (i - m \in 1 .. n /\ m + (i - m) = i /\ i > m)
  BY <1>1
<1>4. \A i \in DOMAIN queue' :
        \/ i \in DOMAIN queue /\ queue'[i] = queue[i] /\ queue'[i] \in Todo
        \/ i > m /\ i - m \in DOMAIN r /\ queue'[i] = r[i - m]
  BY <1>1, <1>2, <1>3 DEF Todo
<1>5. \A i \in DOMAIN queue : queue[i] \in Todo'
  <2>1. \A i \in DOMAIN queue : i \in DOMAIN queue'
    BY <1>1
  <2> QED
    BY <1>1, <2>1 DEF Todo
<1>6. \A i \in DOMAIN r : r[i] \in Todo'
  BY <1>1, <1>2 DEF Todo
<1>7. Todo' = Todo \cup {r[i] : i \in DOMAIN r}
  <2>1. \A o \in Todo' : o \in Todo \/ \E j \in DOMAIN r : o = r[j]
    BY <1>4 DEF Todo
  <2>2. \A o \in Todo : o \in Todo'
    BY <1>5 DEF Todo
  <2> QED
    BY <1>6, <2>1, <2>2
<1>8. Todo \subseteq Ops
  BY DEF Todo
<1> QED
  BY <1>1, <1>4, <1>7, <1>8 DEF m

\* decode submits operations that come after all that are in the queue.
LEMMA TodoMore ==
  ASSUME queue \in Seq(Ops), InOrder(queue), NEW r \in Seq(Ops), InOrder(r), queue' = queue \o r,
         \A o \in Todo, i \in DOMAIN r :
           Phase(o.op) < Phase(r[i].op) \/ (o.op = "copy" /\ r[i].op = "copy")
  PROVE  /\ queue' \in Seq(Ops) /\ InOrder(queue') /\ Todo \subseteq Ops
         /\ Todo' = Todo \cup {r[i] : i \in DOMAIN r}
<1> DEFINE m == Len(queue)
<1>1. /\ queue' \in Seq(Ops) /\ Todo \subseteq Ops
      /\ Todo' = Todo \cup {r[i] : i \in DOMAIN r}
      /\ DOMAIN queue = 1 .. m /\ m \in Nat
      /\ \A i \in DOMAIN queue' :
           \/ i \in DOMAIN queue /\ queue'[i] = queue[i] /\ queue'[i] \in Todo
           \/ i > m /\ i - m \in DOMAIN r /\ queue'[i] = r[i - m]
  BY TodoAppend
<1>2. DOMAIN queue' \subseteq Int
  BY <1>1
<1> HIDE DEF m
<1>3. InOrder(queue')
  <2> SUFFICES ASSUME NEW i \in DOMAIN queue', NEW j \in DOMAIN queue', i < j
               PROVE  \/ Phase(queue'[i].op) < Phase(queue'[j].op)
                      \/ queue'[i].op = "copy" /\ queue'[j].op = "copy"
    BY DEF InOrder
  <2>1. i \in Int /\ j \in Int
    BY <1>2
  <2>2. CASE i \in DOMAIN queue /\ j \in DOMAIN queue
    BY <1>1, <2>1, <2>2 DEF InOrder
  <2>3. CASE i \in DOMAIN queue /\ j \notin DOMAIN queue
    <3>1. i <= m /\ queue'[i] \in Todo
      BY <1>1, <2>1, <2>3
    <3>2. j - m \in DOMAIN r /\ queue'[j] = r[j - m]
      BY <1>1, <2>3
    <3> QED
      BY <3>1, <3>2
  <2>4. CASE i \notin DOMAIN queue
    <3>1. j \notin DOMAIN queue
      BY <1>1, <2>1, <2>4
    <3>2. /\ i - m \in DOMAIN r /\ queue'[i] = r[i - m]
          /\ j - m \in DOMAIN r /\ queue'[j] = r[j - m]
      BY <1>1, <2>4, <3>1
    <3>3. i - m < j - m
      BY <1>1, <2>1
    <3> QED
      BY <3>2, <3>3 DEF InOrder
  <2> QED
    BY <2>2, <2>3, <2>4
<1> QED
  BY <1>1, <1>3

-----------------------------------------------------------------------------
(* The cache: every call decode makes of it is one of its own steps.       *)

\* The assumptions of ExpertCache hold of the pool decode plans for.
LEMMA CacheShape ==
  ASSUME ConfigAssumption
  PROVE  /\ CP!IsFiniteSet(ExpertRefs) /\ NoExpert \notin ExpertRefs /\ Capacity \in Nat \ {0}
         /\ K \in Nat /\ MaxClock \in Nat /\ MaxSteps \in Nat
<1>1. CP!IsFiniteSet(ExpertRefs) <=> IsFiniteSet(ExpertRefs)
  BY DEF CP!IsFiniteSet, IsFiniteSet
<1> QED
  BY <1>1, Shape

\* A step of the cache keeps the cache's invariant.
LEMMA CacheStep ==
  ASSUME ConfigAssumption, CP!IInv, CP!Next \/ UNCHANGED cache
  PROVE  CP!IInv'
<1>1. [CP!Next]_CP!vars
  BY DEF cache, CP!vars, CP!cache, CP!call
<1> QED
  BY <1>1, CacheShape, CP!StepIInv

\* So does every step of decode: it admits its own share, plans it, or leaves the cache alone.
LEMMA CacheKept ==
  ASSUME ConfigAssumption, CP!IInv, GpuWanted \in Seq(ExpertRefs), Next
  PROVE  CP!IInv'
<1>1. CASE Admit
  <2>1. Cache!Admit(GpuWanted)
    BY <1>1 DEF Admit
  <2>2. CP!Admit(GpuWanted)
    <3> HIDE DEF GpuWanted
    <3>1. \A S : Cache!Cardinality(S) = CP!Cardinality(S)
      BY DEF Cache!Cardinality, CP!Cardinality
    <3> QED
      BY <2>1, <3>1 DEF Cache!Admit, CP!Admit, Cache!Distinct, CP!Distinct, Cache!Start, CP!Start,
         Cache!Counted, CP!Counted
  <2> QED
    BY <2>2, CacheShape, CP!StepAdmit
<1>2. CASE Plan
  <2>1. Cache!Hit \/ Cache!MissFree \/ Cache!MissEvict \/ Cache!Return
    BY <1>2 DEF Plan, Cache!Serve
  <2> USE DEF Cache!Serving, CP!Serving, Cache!Demand, CP!Demand, Cache!Resident, CP!Resident,
              Cache!Counted, CP!Counted, Cache!Slots, CP!Slots, Cache!NoSlot, CP!NoSlot
  <2>2. Cache!Hit => CP!Hit
    BY DEF Cache!Hit, CP!Hit
  <2>3. Cache!MissFree => CP!MissFree
    BY DEF Cache!MissFree, CP!MissFree, Cache!FirstEmpty, CP!FirstEmpty, Cache!Empty, CP!Empty,
       Cache!Load, CP!Load
  <2>4. Cache!MissEvict => CP!MissEvict
    BY DEF Cache!MissEvict, CP!MissEvict, Cache!LruVictim, CP!LruVictim, Cache!Empty, CP!Empty,
       Cache!Load, CP!Load, Cache!Distinct, CP!Distinct
  <2>5. Cache!Return => CP!Return
    BY DEF Cache!Return, CP!Return, Cache!cache, CP!cache
  <2>6. CP!Next
    BY <2>1, <2>2, <2>3, <2>4, <2>5 DEF CP!Next, CP!Serve
  <2> QED
    BY <2>6, CacheStep
<1>3. CASE ClearResidency
  <2>1. CP!Clear \/ CP!ResetStats
    BY <1>3 DEF ClearResidency, Cache!Clear, CP!Clear, Cache!ResetStats, CP!ResetStats,
       Cache!Slots, CP!Slots, Cache!NoSlot, CP!NoSlot, Cache!ZeroStats, CP!ZeroStats,
       Cache!Start, CP!Start, Cache!call, CP!call
  <2> QED
    BY <2>1, CacheStep DEF CP!Next
<1>4. Admit \/ Plan \/ ClearResidency \/ UNCHANGED cache
  BY DEF Next, Begin, Host, Route, SkipHost, Submit, UploadSub, Stage, Launch, SyncOk, Add,
     Residual, Answer, HostFails, Device, HostWaits
<1> QED
  BY <1>1, <1>2, <1>3, <1>4, CacheStep

\* What the proofs below use of the cache's invariant.
LEMMA CacheFacts ==
  ASSUME CP!IInv
  PROVE  /\ occupant \in [Cache!Slots -> ExpertRefs \cup {NoExpert}]
         /\ slot_of \in [ExpertRefs -> Cache!Slots \cup {Cache!NoSlot}]
         /\ needed \in Seq(ExpertRefs) /\ loads \subseteq Cache!LoadType
         /\ \A e \in Cache!Resident : occupant[slot_of[e]] = e
         /\ \A e \in ExpertRefs, s \in Cache!Slots : Cache!Planned(e, s) => occupant[s] = e
         /\ \A i \in 1 .. (next - 1) : \E s \in Cache!Slots : Cache!Planned(needed[i], s)
<1> USE DEF Cache!Slots, CP!Slots, Cache!NoSlot, CP!NoSlot, Cache!Planned, CP!Planned
<1>1. CP!TypeOK /\ CP!IndexAgrees /\ CP!PlanTruth /\ CP!Covered
  BY DEF CP!IInv
<1>2. /\ occupant \in [Cache!Slots -> ExpertRefs \cup {NoExpert}]
      /\ slot_of \in [ExpertRefs -> Cache!Slots \cup {Cache!NoSlot}]
      /\ needed \in Seq(ExpertRefs) /\ loads \subseteq Cache!LoadType
  BY <1>1 DEF CP!TypeOK, CP!LoadType, Cache!LoadType
<1>3. \A e \in Cache!Resident : occupant[slot_of[e]] = e
  BY <1>1 DEF CP!IndexAgrees, CP!Resident, Cache!Resident
<1>4. \A e \in ExpertRefs, s \in Cache!Slots : Cache!Planned(e, s) => occupant[s] = e
  BY <1>1 DEF CP!PlanTruth
<1>5. \A i \in 1 .. (next - 1) : \E s \in Cache!Slots : Cache!Planned(needed[i], s)
  BY <1>1 DEF CP!Covered
<1> QED
  BY <1>2, <1>3, <1>4, <1>5

-----------------------------------------------------------------------------
(* The two shares.                                                         *)

\* Whatever misses the policy gives away, the device's share is the rest.
LEMMA TwoShares ==
  ASSUME ConfigAssumption, NEW b \in 1 .. Blocks, NEW w \in RouterPicks(b), NEW P \in SUBSET DOMAIN w
  PROVE  LET c == Keep(w, P)
             g == Keep(w, {i \in DOMAIN w : ~InSeq(w[i], c)})
         IN  /\ w \in Seq(ExpertRefs) /\ c \in Seq(ExpertRefs) /\ g \in Seq(ExpertRefs)
             /\ Len(g) + Len(c) = Len(w)
             /\ \A x : (\E i \in DOMAIN w : w[i] = x) <=>
                         (\E i \in DOMAIN g : g[i] = x) \/ (\E i \in DOMAIN c : c[i] = x)
             /\ c = <<>> => g = w
<1> DEFINE c == Keep(w, P)
           I == {i \in DOMAIN w : ~InSeq(w[i], c)}
<1>1. /\ w \in Seq(ExpertRefs) /\ DOMAIN w = 1 .. K /\ Len(w) = K /\ K \in Nat
      /\ \A i, j \in DOMAIN w : w[i] = w[j] => i = j
  BY Shape DEF RouterPicks, ExpertRefs
<1>2. /\ c \in Seq(ExpertRefs) /\ Len(c) = Cardinality(P) /\ Cardinality(P) \in Nat
      /\ \A x : (\E n \in DOMAIN c : c[n] = x) <=> \E i \in P : w[i] = x
  <2>1. w \in Seq(ExpertRefs) /\ P \in SUBSET DOMAIN w
    BY <1>1
  <2> QED
    BY <2>1, Kept, Zenon
<1> HIDE DEF c
<1>3. I = DOMAIN w \ P
  <2>1. \A i \in DOMAIN w : InSeq(w[i], c) <=> i \in P
    BY <1>1, <1>2 DEF InSeq
  <2> QED
    BY <2>1
<1> HIDE DEF I
<1>4. I \in SUBSET DOMAIN w
  BY <1>3
<1> DEFINE g == Keep(w, I)
<1>5. /\ g \in Seq(ExpertRefs) /\ Len(g) = Cardinality(I) /\ Cardinality(I) \in Nat
      /\ \A x : (\E n \in DOMAIN g : g[n] = x) <=> \E i \in I : w[i] = x
  <2>1. w \in Seq(ExpertRefs) /\ I \in SUBSET DOMAIN w
    BY <1>1, <1>4
  <2> QED
    BY <2>1, Kept, Zenon
<1>6. Cardinality(I) = K - Cardinality(P)
  <2>1. IsFiniteSet(1 .. K) /\ Cardinality(1 .. K) = K
    BY <1>1, FS_Interval
  <2>2. (1 .. K) \cap P = P
    BY <1>1
  <2>3. Cardinality((1 .. K) \ P) = Cardinality(1 .. K) - Cardinality((1 .. K) \cap P)
    BY <2>1, FS_Difference
  <2> QED
    BY <1>1, <1>3, <2>1, <2>2, <2>3
<1>7. c = <<>> => g = w
  <2>1. SUFFICES ASSUME c = <<>>
                 PROVE  g = w
    OBVIOUS
  <2>2. DOMAIN c = {}
    BY <2>1
  <2>3. I = DOMAIN w
    BY <2>2 DEF I, InSeq
  <2> QED
    BY <1>1, <2>3, KeptAll
<1> HIDE DEF g
<1>8. Len(g) + Len(c) = Len(w)
  BY <1>1, <1>2, <1>5, <1>6
<1>9. \A x : (\E i \in DOMAIN w : w[i] = x) <=>
               (\E i \in DOMAIN g : g[i] = x) \/ (\E i \in DOMAIN c : c[i] = x)
  BY <1>2, <1>3, <1>5
<1> QED
  BY <1>1, <1>2, <1>5, <1>7, <1>8, <1>9 DEF c, g, I

\* The two shares stay those of the block.
LEMMA SharesKept ==
  ASSUME ConfigAssumption, SharesInv, QueueInv, Next
  PROVE  SharesInv'
<1>1. CASE UNCHANGED <<wanted, cpu_pick>>
  <2>1. wanted' = wanted /\ cpu_pick' = cpu_pick
    BY <1>1
  <2>2. GpuWanted' = GpuWanted
    BY <2>1 DEF GpuWanted, InSeq
  <2>3. /\ Cache!Distinct(GpuWanted)' = Cache!Distinct(GpuWanted)
        /\ Cache!Distinct(cpu_pick)' = Cache!Distinct(cpu_pick)
        /\ Cache!Distinct(wanted)' = Cache!Distinct(wanted)
    BY <2>1, <2>2 DEF Cache!Distinct
  <2> QED
    BY <2>1, <2>2, <2>3 DEF SharesInv
<1>2. CASE Begin
  <2>1. wanted' = <<>> /\ cpu_pick' = <<>>
    BY <1>2 DEF Begin
  <2>2. GpuWanted' = <<>>
    <3>1. {i \in DOMAIN <<>> : ~InSeq(<<>>[i], <<>>)} = DOMAIN <<>>
      BY DEF InSeq
    <3>2. <<>> \in Seq(ExpertRefs)
      OBVIOUS
    <3> QED
      BY <2>1, <3>1, <3>2, KeptAll DEF GpuWanted, InSeq
  <2>3. <<>> \in Seq(ExpertRefs) /\ Len(<<>>) = 0
    OBVIOUS
  <2> QED
    BY <2>1, <2>2, <2>3 DEF SharesInv, Cache!Distinct
<1>3. CASE Route
  <2>1. PICK w \in RouterPicks(block), n \in 0 .. MaxHost :
          wanted' = w /\ cpu_pick' = FirstMisses(w, n)
    BY <1>3 DEF Route
  <2> DEFINE P == {i \in Misses(w) : Rank(i, Misses(w)) <= n}
             c == Keep(w, P)
             g == Keep(w, {i \in DOMAIN w : ~InSeq(w[i], c)})
  <2>2. P \in SUBSET DOMAIN w /\ block \in 1 .. Blocks
    BY DEF Misses, QueueInv
  <2>3. wanted' = w /\ cpu_pick' = c
    BY <2>1 DEF FirstMisses
  <2>4. GpuWanted' = g
    BY <2>3 DEF GpuWanted, InSeq
  <2> HIDE DEF P
  <2>5. /\ w \in Seq(ExpertRefs) /\ c \in Seq(ExpertRefs) /\ g \in Seq(ExpertRefs)
        /\ Len(g) + Len(c) = Len(w)
        /\ \A x : (\E i \in DOMAIN w : w[i] = x) <=>
                    (\E i \in DOMAIN g : g[i] = x) \/ (\E i \in DOMAIN c : c[i] = x)
        /\ c = <<>> => g = w
    BY <2>2, TwoShares, Zenon
  <2> HIDE DEF c, g
  <2>6. Cache!Distinct(g) \cup Cache!Distinct(c) = Cache!Distinct(w)
    BY <2>5 DEF Cache!Distinct
  <2>7. SharesInv' <=>
          /\ w \in Seq(ExpertRefs) /\ c \in Seq(ExpertRefs) /\ g \in Seq(ExpertRefs)
          /\ Len(g) + Len(c) = Len(w)
          /\ Cache!Distinct(g) \cup Cache!Distinct(c) = Cache!Distinct(w)
          /\ c = <<>> => g = w
    BY <2>3, <2>4 DEF SharesInv, Cache!Distinct
  <2> QED
    BY <2>5, <2>6, <2>7
<1> QED
  BY <1>1, <1>2, <1>3 DEF Next, Host, SkipHost, Submit, UploadSub, Admit, Plan, Stage, Launch, SyncOk,
     Add, Residual, Answer, HostFails, Device, HostWaits, ClearResidency, split

-----------------------------------------------------------------------------
(* What decode submits.                                                    *)

\* The products are of the demands of the device, each from the slot the cache has it in.
LEMMA ProductsMade ==
  ASSUME ConfigAssumption, CP!IInv, SharesInv, QueueInv, Planned
  PROVE  /\ Products \in Ops /\ Phase(Products.op) = 2
         /\ Products.op = "zero" => GpuWanted = <<>>
         /\ Products.op = "experts" =>
              /\ Products.sub <=> cpu_pick # <<>>
              /\ Len(Products.slots) = Len(GpuWanted)
              /\ \A k \in DOMAIN Products.slots : occupant[Products.slots[k]] = GpuWanted[k]
<1> DEFINE g == GpuWanted
           slots == [i \in DOMAIN g |-> SlotFor(g[i])]
           sub == cpu_pick # <<>>
<1>1. g \in Seq(ExpertRefs) /\ needed = g /\ next = Len(g) + 1
  BY DEF SharesInv, QueueInv, Planned
<1> HIDE DEF g
<1>2. ASSUME NEW i \in DOMAIN g
      PROVE  SlotFor(g[i]) \in Cache!Slots /\ occupant[SlotFor(g[i])] = g[i]
  <2>1. g[i] \in ExpertRefs /\ i \in 1 .. (next - 1)
    BY <1>1
  <2>2. \E s \in Cache!Slots : Cache!Planned(g[i], s)
    BY <1>1, <2>1, CacheFacts
  <2>3. SlotFor(g[i]) \in Cache!Slots /\ Cache!Planned(g[i], SlotFor(g[i]))
    BY <2>2 DEF SlotFor
  <2> QED
    BY <2>1, <2>3, CacheFacts
<1>3. slots \in Seq(Cache!Slots) /\ Len(slots) = Len(g) /\ DOMAIN slots = DOMAIN g
      /\ \A k \in DOMAIN g : occupant[slots[k]] = g[k]
  <2>1. DOMAIN g = 1 .. Len(g) /\ Len(g) \in Nat
    BY <1>1
  <2>2. slots \in [1 .. Len(g) -> Cache!Slots]
    BY <1>2, <2>1
  <2> QED
    BY <1>2, <2>1, <2>2
<1>4. Products = IF g = <<>> THEN [op |-> "zero"] ELSE [op |-> "experts", slots |-> slots, sub |-> sub]
  BY DEF Products, g
<1> HIDE DEF slots, sub
<1>5. CASE g = <<>>
  <2>1. Products = [op |-> "zero"]
    BY <1>4, <1>5
  <2> QED
    BY <1>5, <2>1, Phases DEF g, Ops
<1>6. CASE g # <<>>
  <2>1. Products = [op |-> "experts", slots |-> slots, sub |-> sub] /\ sub \in BOOLEAN
    BY <1>4, <1>6 DEF sub
  <2>2. /\ Products.op = "experts" /\ Products.slots = slots /\ Products.sub = sub
    BY <2>1
  <2>3. Products \in Ops
    BY <1>3, <2>1 DEF Ops
  <2> QED
    BY <1>3, <2>2, <2>3, Phases DEF g, sub
<1> QED
  BY <1>5, <1>6

\* A load is three copies into its slot, one for each bank.
LEMMA CopiesMade ==
  ASSUME NEW l \in Cache!LoadType
  PROVE  /\ Copies(l) \in Seq(Ops) /\ InOrder(Copies(l)) /\ DOMAIN Copies(l) = 1 .. 3
         /\ \A i \in 1 .. 3 : /\ Copies(l)[i].op = "copy" /\ Copies(l)[i].slot = l.slot
                              /\ Copies(l)[i].expert = l.expert /\ Copies(l)[i] \in Ops
         /\ \A b \in Banks : \E i \in 1 .. 3 : Copies(l)[i].bank = b
<1> DEFINE bank(i) == <<"gate", "up", "down">>[i]
<1>1. /\ l.slot \in Cache!Slots /\ l.expert \in ExpertRefs
      /\ \A i \in 1 .. 3 : bank(i) \in Banks
      /\ bank(1) = "gate" /\ bank(2) = "up" /\ bank(3) = "down"
  BY DEF Cache!LoadType, Banks
<1>2. Copies(l) = [i \in 1 .. 3 |-> [op |-> "copy", slot |-> l.slot, expert |-> l.expert, bank |-> bank(i)]]
  BY DEF Copies
<1> HIDE DEF bank
<1>3. \A i \in 1 .. 3 : /\ Copies(l)[i].op = "copy" /\ Copies(l)[i].slot = l.slot
                        /\ Copies(l)[i].expert = l.expert /\ Copies(l)[i].bank = bank(i)
                        /\ Copies(l)[i] \in Ops
  <2>1. \A i \in 1 .. 3 : [op |-> "copy", slot |-> l.slot, expert |-> l.expert, bank |-> bank(i)] \in CopyOps
    BY <1>1 DEF CopyOps
  <2> QED
    BY <1>2, <2>1 DEF Ops
<1>4. DOMAIN Copies(l) = 1 .. 3 /\ Copies(l) \in Seq(Ops)
  BY <1>2, <1>3
<1>5. InOrder(Copies(l))
  BY <1>3, <1>4 DEF InOrder
<1>6. \A b \in Banks : \E i \in 1 .. 3 : Copies(l)[i].bank = b
  BY <1>1, <1>3 DEF Banks
<1> QED
  BY <1>3, <1>4, <1>5, <1>6

\* A load refused half-way has put some of its copies in the queue.
LEMMA SomeCopies ==
  ASSUME NEW l \in Cache!LoadType, NEW n \in 0 .. 2
  PROVE  LET r == SubSeq(Copies(l), 1, n)
         IN  r \in Seq(Ops) /\ InOrder(r) /\ \A i \in DOMAIN r : r[i].op = "copy"
<1> DEFINE r == SubSeq(Copies(l), 1, n)
<1>1. Copies(l) \in Seq(Ops)
      /\ \A i \in 1 .. 3 : Copies(l)[i].op = "copy"
  BY CopiesMade
<1>2. /\ 1 \in Int /\ n \in Int /\ n - 1 + 1 = n
      /\ \A i \in 1 .. n : 1 + i - 1 = i /\ Copies(l)[i] \in Ops
  <2>1. \A i \in 1 .. 3 : Copies(l)[i] \in Ops
    BY CopiesMade
  <2>2. \A i \in 1 .. n : i \in 1 .. 3 /\ 1 + i - 1 = i
    OBVIOUS
  <2> QED
    BY <2>1, <2>2
<1>3. /\ r \in Seq(Ops) /\ Len(r) = n
      /\ \A i \in 1 .. n : r[i] = Copies(l)[i]
  <2>1. /\ r \in Seq(Ops) /\ Len(r) = (IF 1 <= n THEN n - 1 + 1 ELSE 0)
        /\ \A i \in 1 .. (n - 1 + 1) : r[i] = Copies(l)[1 + i - 1]
    <3> DEFINE c == Copies(l)
    <3>1. 1 \in Int /\ n \in Int /\ \A i \in 1 .. n : c[i] \in Ops
      BY <1>2
    <3> HIDE DEF c
    <3>2. /\ SubSeq(c, 1, n) \in Seq(Ops)
          /\ Len(SubSeq(c, 1, n)) = (IF 1 <= n THEN n - 1 + 1 ELSE 0)
          /\ \A i \in 1 .. (n - 1 + 1) : SubSeq(c, 1, n)[i] = c[1 + i - 1]
      BY <3>1, SubSeqProperties
    <3> QED
      BY <3>2 DEF c
  <2> HIDE DEF r
  <2> QED
    BY <1>2, <2>1
<1> HIDE DEF r
<1>4. \A i \in DOMAIN r : i \in 1 .. n /\ i \in 1 .. 3
  BY <1>3
<1>5. \A i \in DOMAIN r : r[i] \in Ops /\ Phase(r[i].op) \in 1 .. 5
  BY <1>3, OpKinds
<1>6. \A i \in DOMAIN r : r[i].op = "copy"
  <2>1. \A i \in 1 .. n : r[i] = Copies(l)[i]
    BY <1>3
  <2> QED
    BY <1>1, <1>4, <2>1
<1> QED
  BY <1>3, <1>6 DEF InOrder, r

-----------------------------------------------------------------------------
(* The queue holds what the block has submitted, in its order.             *)

\* The device takes an operation: the rest stays in order.
LEMMA QueueShrinks ==
  ASSUME QueueInv, Device
  PROVE  QueueInv'
<1>1. queue # <<>> /\ queue' = Tail(queue)
      /\ UNCHANGED <<at, needed, next, pc, block, wanted, cpu_pick, staged>>
  BY DEF Device, HostWaits, cache, split, DoCopy, CopyFails, DoExperts, DoZero, DoCpu, DoAdd,
     DoResidual, Executes
<1>2. queue' \in Seq(Ops) /\ InOrder(queue') /\ Todo' \subseteq Todo
  BY <1>1, TodoTail DEF QueueInv
<1>3. GpuWanted' = GpuWanted
  BY <1>1 DEF GpuWanted, InSeq
<1>4. \A n : Upto(n) => \A o \in Todo' : Phase(o.op) <= n
  BY <1>2 DEF Upto
<1>5. \A n : (\A o \in Todo' : Phase(o.op) <= n) => Upto(n)'
  BY DEF Upto
<1> QED
  BY <1>1, <1>2, <1>3, <1>4, <1>5 DEF QueueInv

\* What a block submits comes after what it has submitted.
LEMMA QueueGrows ==
  ASSUME ConfigAssumption, CP!IInv, SharesInv, QueueInv, Stage \/ Launch \/ Add \/ Residual
  PROVE  QueueInv'
<1>1. UNCHANGED <<at, needed, next, wanted, cpu_pick>> /\ GpuWanted' = GpuWanted
  BY DEF Stage, Launch, Add, Residual, cache, split, GpuWanted, InSeq
<1>2. Todo \subseteq Ops
  BY DEF QueueInv, Todo
<1>3. CASE Stage
  <2>1. PICK l \in loads : queue' = queue \o Copies(l) /\ UNCHANGED <<pc, block>>
    BY <1>3 DEF Stage, split
  <2>2. l \in Cache!LoadType
    BY CacheFacts
  <2>3. \A o \in Todo : o.op = "copy"
    BY <1>2, <1>3, OpKinds DEF Stage, Planned, QueueInv, Upto
  <2> DEFINE r == Copies(l)
  <2>7. /\ r \in Seq(Ops) /\ InOrder(r) /\ DOMAIN r = 1 .. 3 /\ queue' = queue \o r
        /\ \A i \in DOMAIN r : r[i].op = "copy"
    BY <2>1, <2>2, CopiesMade
  <2> HIDE DEF r
  <2>4. queue' \in Seq(Ops) /\ InOrder(queue') /\ Todo' = Todo \cup {r[i] : i \in DOMAIN r}
    BY <2>3, <2>7, TodoMore DEF QueueInv
  <2>5. \A o \in Todo' : o.op = "copy"
    BY <2>3, <2>4, <2>7
  <2>6. Upto(1)'
    BY <2>5, Phases DEF Upto
  <2> QED
    BY <1>1, <1>3, <2>1, <2>4, <2>6 DEF QueueInv, Stage, Planned
<1>4. CASE Launch
  <2> DEFINE r == <<Products>>
  <2>1. queue' = queue \o r /\ UNCHANGED block /\ pc' \in {"residual", "sync"}
    BY <1>4 DEF Launch, split, QueueInv
  <2>2. Products \in Ops /\ Phase(Products.op) = 2
    BY <1>4, ProductsMade DEF Launch
  <2>3. r \in Seq(Ops) /\ DOMAIN r = {1} /\ r[1] = Products /\ InOrder(r)
    BY <2>2 DEF InOrder
  <2> HIDE DEF r
  <2>4. \A o \in Todo : Phase(o.op) <= 1 /\ Phase(o.op) \in 1 .. 5
    BY <1>2, <1>4, OpKinds DEF Launch, Planned, QueueInv, Upto
  <2>5. queue' \in Seq(Ops) /\ InOrder(queue') /\ Todo' = Todo \cup {Products}
    <3>1. {r[i] : i \in DOMAIN r} = {Products}
      BY <2>3
    <3>2. queue \in Seq(Ops) /\ InOrder(queue) /\ r \in Seq(Ops) /\ InOrder(r)
          /\ queue' = queue \o r
      BY <2>1, <2>3 DEF QueueInv
    <3>3. \A o \in Todo, i \in DOMAIN r :
            Phase(o.op) < Phase(r[i].op) \/ (o.op = "copy" /\ r[i].op = "copy")
      BY <2>2, <2>3, <2>4
    <3>4. queue' \in Seq(Ops) /\ InOrder(queue') /\ Todo' = Todo \cup {r[i] : i \in DOMAIN r}
      BY <3>2, <3>3, TodoMore, Zenon
    <3> QED
      BY <3>1, <3>4
  <2>6. Upto(2)' /\ Upto(4)'
    BY <2>2, <2>4, <2>5 DEF Upto
  <2> QED
    BY <1>1, <2>1, <2>5, <2>6 DEF QueueInv
<1>5. CASE Add
  <2> DEFINE r == <<[op |-> "cpu"], [op |-> "add"]>>
  <2>1. queue' = queue \o r /\ UNCHANGED block /\ pc' = "residual"
    BY <1>5 DEF Add, split
  <2>2. r \in Seq(Ops) /\ DOMAIN r = {1, 2} /\ r[1].op = "cpu" /\ r[2].op = "add"
    BY DEF Ops
  <2> HIDE DEF r
  <2>3. InOrder(r) /\ \A i \in DOMAIN r : Phase(r[i].op) \in 3 .. 4
    BY <2>2, Phases DEF InOrder
  <2>4. \A o \in Todo : Phase(o.op) <= 2 /\ Phase(o.op) \in 1 .. 5
    BY <1>2, <1>5, OpKinds DEF Add, QueueInv, Upto
  <2>5. queue' \in Seq(Ops) /\ InOrder(queue') /\ Todo' = Todo \cup {r[i] : i \in DOMAIN r}
    <3>1. \A o \in Todo, i \in DOMAIN r : Phase(o.op) < Phase(r[i].op)
      BY <2>3, <2>4
    <3> QED
      BY <2>1, <2>2, <2>3, <3>1, TodoMore DEF QueueInv
  <2>6. Upto(4)'
    BY <2>3, <2>4, <2>5 DEF Upto
  <2>7. pc' = "residual" /\ block' = block
    BY <1>5 DEF Add, split
  <2> QED
    BY <1>1, <2>5, <2>6, <2>7 DEF QueueInv
<1>6. CASE Residual
  <2> DEFINE o5 == [op |-> "residual", asked |-> wanted]
             r == <<o5>>
  <2>1. queue' = queue \o r /\ block' \in 1 .. Blocks /\ pc' \in {"answer", "route"}
    <3>1. queue' = Append(queue, o5) /\ pc' \in {"answer", "route"}
      BY <1>6 DEF Residual
    <3>2. block' \in 1 .. Blocks
      <4>1. block \in 1 .. Blocks /\ Blocks \in Nat
        BY Shape DEF QueueInv
      <4>2. block' = IF block = Blocks THEN block ELSE block + 1
        BY <1>6 DEF Residual
      <4> QED
        BY <4>1, <4>2
    <3>3. Append(queue, o5) = queue \o <<o5>>
      BY DEF QueueInv
    <3> QED
      BY <3>1, <3>2, <3>3
  <2>2. o5 \in Ops /\ o5.op = "residual"
    BY DEF Ops, SharesInv
  <2> HIDE DEF o5
  <2>3. r \in Seq(Ops) /\ DOMAIN r = {1} /\ r[1] = o5 /\ InOrder(r)
    BY <2>2 DEF InOrder
  <2> HIDE DEF r
  <2>4. \A o \in Todo : Phase(o.op) <= 4 /\ Phase(o.op) \in 1 .. 5
    BY <1>2, <1>6, OpKinds DEF Residual, QueueInv, Upto
  <2>5. queue' \in Seq(Ops) /\ InOrder(queue')
    <3>1. \A o \in Todo, i \in DOMAIN r : Phase(o.op) < Phase(r[i].op)
      BY <2>2, <2>3, <2>4, Phases
    <3> QED
      BY <2>1, <2>3, <3>1, TodoMore DEF QueueInv
  <2> QED
    BY <2>1, <2>5 DEF QueueInv
<1> QED
  BY <1>3, <1>4, <1>5, <1>6

\* Every step keeps the order of the queue.
LEMMA QueueKept ==
  ASSUME ConfigAssumption, CP!IInv, SharesInv, QueueInv, Next
  PROVE  QueueInv'
<1>1. ASSUME queue' = queue
      PROVE  /\ queue' \in Seq(Ops) /\ InOrder(queue')
             /\ Upto(1)' <=> Upto(1)
             /\ Upto(2)' <=> Upto(2)
             /\ queue = <<>> => Upto(1)
  BY <1>1 DEF QueueInv, Upto, Todo
<1>2. CASE Admit
  <2>1. queue' = queue /\ queue = <<>> /\ pc' = "stage" /\ staged' = {}
        /\ UNCHANGED <<block, wanted, cpu_pick>>
    BY <1>2 DEF Admit, QueueInv, split
  <2>2. at' = "serving" /\ needed' = GpuWanted
    BY <1>2 DEF Admit, Cache!Admit, Cache!Start
  <2>3. GpuWanted' = GpuWanted
    BY <2>1 DEF GpuWanted, InSeq
  <2> QED
    BY <1>1, <2>1, <2>2, <2>3 DEF QueueInv
<1>3. CASE Plan
  <2>1. queue' = queue /\ pc' = pc /\ pc = "stage" /\ staged' = staged
        /\ UNCHANGED <<block, wanted, cpu_pick>>
    BY <1>3 DEF Plan, split
  <2>2. /\ at = "serving" /\ at' \in {"serving", "planned"} /\ needed' = needed
        /\ at' = "planned" => next' = next /\ next = Len(needed) + 1
    BY <1>3 DEF Plan, Cache!Serve, Cache!Hit, Cache!MissFree, Cache!MissEvict, Cache!Load,
       Cache!Return, Cache!Serving
  <2>3. GpuWanted' = GpuWanted
    BY <2>1 DEF GpuWanted, InSeq
  <2> QED
    BY <1>1, <2>1, <2>2, <2>3 DEF QueueInv
<1>4. CASE Begin \/ Route \/ SkipHost \/ Submit \/ UploadSub \/ SyncOk \/ Answer \/ ClearResidency
  <2>1. queue' = queue /\ block' \in 1 .. Blocks
    BY <1>4, Shape DEF Begin, Route, SkipHost, Submit, UploadSub, SyncOk, Answer, ClearResidency, split,
       QueueInv
  <2>2. \/ pc' \in {"idle", "route"}
        \/ pc' \in {"submit", "upload", "admit"} /\ queue = <<>>
        \/ pc' = "add" /\ Upto(2)
    BY <1>4 DEF Begin, Route, SkipHost, Submit, UploadSub, SyncOk, Answer, ClearResidency, Drained, QueueInv
  <2> QED
    BY <1>1, <2>1, <2>2 DEF QueueInv
<1>5. CASE HostFails
  <2>1. pc' = "idle" /\ block' = block
    BY <1>5 DEF HostFails, split, SubmitFails, UploadFails, StageFails, LaunchFails, FinishFails,
       SyncFails, AddFails, ReportLost, GiveUp
  <2>2. queue' \in Seq(Ops) /\ InOrder(queue')
    <3>1. CASE queue' = queue
      BY <1>1, <3>1
    <3>2. CASE StageFails
      <4>1. PICK l \in loads, n \in 0 .. 2 : queue' = queue \o SubSeq(Copies(l), 1, n)
        BY <3>2 DEF StageFails
      <4> DEFINE r == SubSeq(Copies(l), 1, n)
      <4>2. r \in Seq(Ops) /\ InOrder(r) /\ \A i \in DOMAIN r : r[i].op = "copy"
        BY SomeCopies, CacheFacts
      <4>3. \A o \in Todo : o.op = "copy"
        <5>1. \A o \in Todo : o \in Ops /\ Phase(o.op) <= 1
          BY <3>2 DEF StageFails, Planned, QueueInv, Upto, Todo
        <5> QED
          BY <5>1, OpKinds
      <4> HIDE DEF r
      <4> QED
        BY <4>1, <4>2, <4>3, TodoMore DEF QueueInv, r
    <3> QED
      BY <1>5, <3>1, <3>2 DEF HostFails, SubmitFails, UploadFails, LaunchFails, FinishFails,
         SyncFails, AddFails, ReportLost, NothingMore
  <2> QED
    BY <2>1, <2>2 DEF QueueInv
<1> QED
  BY <1>2, <1>3, <1>4, <1>5, QueueShrinks, QueueGrows DEF Next, Host

\* A decode that has not begun is in order.
LEMMA InitBase == ConfigAssumption /\ Init => BaseInv
<1> SUFFICES ASSUME ConfigAssumption, Init
             PROVE  BaseInv
  OBVIOUS
<1>1. CP!IInv
  <2>1. CP!Init
    BY DEF Init, Cache!Init, CP!Init, Cache!Slots, CP!Slots, Cache!NoSlot, CP!NoSlot,
       Cache!ZeroStats, CP!ZeroStats
  <2> QED
    BY <2>1, CacheShape, CP!InitIInv
<1>2. <<>> \in Seq(ExpertRefs) /\ <<>> \in Seq(Ops) /\ Len(<<>>) = 0
  OBVIOUS
<1>3. SharesInv
  <2>1. {i \in DOMAIN <<>> : ~InSeq(<<>>[i], <<>>)} = DOMAIN <<>>
    BY DEF InSeq
  <2>2. wanted = <<>> /\ cpu_pick = <<>> /\ GpuWanted = <<>>
    BY <1>2, <2>1, KeptAll DEF Init, GpuWanted
  <2> QED
    BY <1>2, <2>2 DEF SharesInv, Cache!Distinct
<1>4. QueueInv
  BY <1>2, Shape DEF Init, QueueInv, InOrder
<1> QED
  BY <1>1, <1>3, <1>4 DEF BaseInv

\* The cache, the shares and the queue keep their invariants, whatever fails.
LEMMA BaseKept ==
  ASSUME ConfigAssumption, BaseInv, [Next]_vars
  PROVE  BaseInv'
<1>1. CASE Next
  BY <1>1, CacheKept, SharesKept, QueueKept DEF BaseInv, SharesInv
<1>2. CASE UNCHANGED vars
  <2>1. UNCHANGED <<cache, pc, block, wanted, cpu_pick, staged, queue>>
    BY <1>2 DEF vars, split
  <2>2. CP!IInv'
    BY <2>1, CacheStep DEF BaseInv
  <2>3. GpuWanted' = GpuWanted /\ Todo' = Todo
    BY <2>1 DEF GpuWanted, InSeq, Todo
  <2>4. /\ Cache!Distinct(GpuWanted)' = Cache!Distinct(GpuWanted)
        /\ Cache!Distinct(cpu_pick)' = Cache!Distinct(cpu_pick)
        /\ Cache!Distinct(wanted)' = Cache!Distinct(wanted)
    BY <2>1, <2>3 DEF Cache!Distinct
  <2>5. SharesInv'
    BY <2>1, <2>3, <2>4 DEF BaseInv, SharesInv
  <2>6. QueueInv'
    BY <2>1, <2>3 DEF BaseInv, QueueInv, cache, Upto
  <2> QED
    BY <2>2, <2>5, <2>6 DEF BaseInv
<1> QED
  BY <1>1, <1>2

-----------------------------------------------------------------------------
(* cpu_out.                                                                *)

\* "cpu_out stays alive and unmodified until the copy runs" (moe.rs): whatever fails, sync writes
\* it only once no copy of it is queued.
THEOREM CpuOutStableHolds == ConfigAssumption => (Spec => CpuOutStable)
<1> SUFFICES ASSUME ConfigAssumption
             PROVE  Spec => CpuOutStable
  OBVIOUS
<1> DEFINE A == cpu_out' # cpu_out => \A i \in DOMAIN queue : queue[i].op # "cpu"
<1>1. Init => BaseInv
  BY InitBase
<1>2. BaseInv /\ [Next]_vars => BaseInv'
  BY BaseKept
<1>3. BaseInv /\ [Next]_vars => [A]_vars
  <2> SUFFICES ASSUME BaseInv, Next, cpu_out' # cpu_out
               PROVE  \A i \in DOMAIN queue : queue[i].op # "cpu"
    OBVIOUS
  <2>1. Begin \/ SyncOk
    BY DEF Next, Host, Route, SkipHost, Submit, UploadSub, Admit, Plan, Stage, Launch, Add, Residual,
       Answer, HostFails, Device, HostWaits, ClearResidency, cpu
  <2>2. CASE Begin
    BY <2>2 DEF Begin, Drained
  <2>3. CASE SyncOk
    <3>1. Upto(2)
      BY <2>3 DEF SyncOk, BaseInv, QueueInv
    <3>2. \A i \in DOMAIN queue : queue[i] \in Todo
      BY DEF Todo
    <3> QED
      BY <3>1, <3>2, Phases DEF Upto
  <2> QED
    BY <2>1, <2>2, <2>3
<1> QED
  BY <1>1, <1>2, <1>3, PTL DEF Spec, CpuOutStable

-----------------------------------------------------------------------------
(* What is resident is filled.                                             *)

\* A copy that fails, or a load refused half-way, leaves the cache wrong about its slot
\* (DecodeStageFault); every other call may fail.
CopiesSucceed == "stage" \notin FailAt /\ "copy" \notin FailAt

\* Nothing is lost while the pool and its occupants stay and the queue only grows.
LEMMA StillFilled ==
  ASSUME FilledInv, UNCHANGED <<occupant, pool>>, ~lost', Todo \subseteq Todo',
         \A o \in Todo' : o \in Todo \/ o.op # "copy" \/ o.expert = occupant[o.slot],
         \A s \in Cache!Slots, b \in Banks : Unstaged(s) => Unstaged(s)' \/ Coming(s, b)'
  PROVE  FilledInv'
<1>1. ASSUME NEW o \in Todo', o.op = "copy", occupant'[o.slot] # NoExpert
      PROVE  o.expert = occupant'[o.slot]
  BY <1>1 DEF FilledInv
<1>2. ASSUME NEW s \in Cache!Slots, NEW b \in Banks, occupant'[s] # NoExpert
      PROVE  pool'[s][b] = occupant'[s] \/ Coming(s, b)' \/ Unstaged(s)'
  <2>1. Coming(s, b) => Coming(s, b)'
    BY DEF Coming
  <2> QED
    BY <1>2, <2>1 DEF FilledInv
<1> QED
  BY <1>1, <1>2 DEF FilledInv, Coming, Unstaged

\* An occupied slot is filled or about to be, after every step.
LEMMA FilledKept ==
  ASSUME ConfigAssumption, CopiesSucceed, BaseInv, FilledInv, [Next]_vars
  PROVE  FilledInv'
<1> USE DEF BaseInv
<1>1. queue' = queue => Todo' = Todo
  BY DEF Todo
<1>2. queue \in Seq(Ops) /\ Todo \subseteq Ops
  BY DEF QueueInv, Todo
<1>3. queue = <<>> => Todo = {}
  BY DEF Todo
<1>4. CASE Begin \/ Route \/ SkipHost \/ Submit \/ UploadSub \/ SyncOk \/ Answer \/ HostFails
  <2>1. queue' = queue /\ ~lost' /\ UNCHANGED <<occupant, pool>>
    BY <1>4 DEF Begin, Route, SkipHost, Submit, UploadSub, SyncOk, Answer, HostFails, SubmitFails,
       UploadFails, StageFails, LaunchFails, FinishFails, SyncFails, AddFails, ReportLost, NothingMore,
       Finish, cache, device, CopiesSucceed, FilledInv
  <2>2. \A s \in Cache!Slots : ~Unstaged(s)
    BY <1>4 DEF Begin, Route, SkipHost, Submit, UploadSub, SyncOk, Answer, HostFails, SubmitFails,
       UploadFails, StageFails, LaunchFails, SyncFails, AddFails, ReportLost, CopiesSucceed, Unstaged
  <2> QED
    BY <1>1, <2>1, <2>2, StillFilled
<1>5. CASE Add \/ Residual \/ Launch
  <2>1. ~lost' /\ UNCHANGED <<occupant, pool>>
    BY <1>5 DEF Add, Residual, Launch, cache, device, FilledInv
  <2>2. \A s \in Cache!Slots : ~Unstaged(s)
    BY <1>5 DEF Add, Residual, Launch, Unstaged
  <2>3. Todo \subseteq Todo' /\ \A o \in Todo' : o \in Todo \/ o.op # "copy"
    <3>1. ASSUME NEW r \in Seq(Ops), queue' = queue \o r, \A i \in DOMAIN r : r[i].op # "copy"
          PROVE  Todo \subseteq Todo' /\ \A o \in Todo' : o \in Todo \/ o.op # "copy"
      <4>1. Todo' = Todo \cup {r[i] : i \in DOMAIN r}
        BY <1>2, <3>1, TodoAppend
      <4> QED
        BY <3>1, <4>1
    <3>2. CASE Launch
      <4> DEFINE r == <<Products>>
      <4>1. queue' = queue \o r
        BY <3>2 DEF Launch, QueueInv
      <4>2. Products \in Ops /\ Products.op # "copy"
        BY <3>2, ProductsMade, Phases DEF Launch
      <4>3. r \in Seq(Ops) /\ \A i \in DOMAIN r : r[i].op # "copy"
        BY <4>2
      <4> HIDE DEF r
      <4> QED
        BY <3>1, <4>1, <4>3
    <3>3. CASE Add
      <4> DEFINE r == <<[op |-> "cpu"], [op |-> "add"]>>
      <4>1. queue' = queue \o r
        BY <3>3 DEF Add
      <4>2. r \in Seq(Ops) /\ \A i \in DOMAIN r : r[i].op # "copy"
        BY DEF Ops
      <4> HIDE DEF r
      <4> QED
        BY <3>1, <4>1, <4>2
    <3>4. CASE Residual
      <4> DEFINE o5 == [op |-> "residual", asked |-> wanted]
                 r == <<o5>>
      <4>1. queue' = queue \o r
        BY <1>2, <3>4 DEF Residual
      <4>2. o5 \in Ops /\ o5.op # "copy"
        BY DEF Ops, SharesInv
      <4> HIDE DEF o5
      <4>3. r \in Seq(Ops) /\ \A i \in DOMAIN r : r[i].op # "copy"
        BY <4>2
      <4> HIDE DEF r
      <4> QED
        BY <3>1, <4>1, <4>3
    <3> QED
      BY <1>5, <3>2, <3>3, <3>4
  <2> QED
    BY <2>1, <2>2, <2>3, StillFilled
<1>6. CASE Stage
  <2>1. PICK l \in loads : queue' = queue \o Copies(l) /\ staged' = staged \cup {l}
                           /\ UNCHANGED <<cache, pc>> /\ UNCHANGED device
    BY <1>6 DEF Stage
  <2>2. l \in Cache!LoadType /\ occupant[l.slot] = l.expert
    <3>1. l \in Cache!LoadType
      BY CacheFacts
    <3>2. l.expert \in ExpertRefs /\ l.slot \in Cache!Slots /\ Cache!Planned(l.expert, l.slot)
      BY <3>1 DEF Cache!LoadType, Cache!Planned
    <3> QED
      BY <3>1, <3>2, CacheFacts
  <2> DEFINE r == Copies(l)
  <2>3. /\ r \in Seq(Ops) /\ DOMAIN r = 1 .. 3 /\ queue' = queue \o r
        /\ \A i \in 1 .. 3 : r[i].op = "copy" /\ r[i].slot = l.slot /\ r[i].expert = l.expert
        /\ \A b \in Banks : \E i \in 1 .. 3 : r[i].bank = b
    BY <2>1, <2>2, CopiesMade
  <2> HIDE DEF r
  <2>4. Todo' = Todo \cup {r[i] : i \in 1 .. 3}
    BY <1>2, <2>3, TodoAppend
  <2>5. \A o \in Todo' : o \in Todo \/ o.expert = occupant[o.slot]
    BY <2>2, <2>3, <2>4
  <2>6. ASSUME NEW s \in Cache!Slots, NEW b \in Banks, Unstaged(s)
        PROVE  Unstaged(s)' \/ Coming(s, b)'
    <3>1. PICK m \in loads \ staged : m.slot = s
      BY <2>6 DEF Unstaged
    <3>2. CASE m = l
      <4>1. PICK i \in 1 .. 3 : r[i].bank = b
        BY <2>3
      <4>2. r[i] \in Todo' /\ r[i].op = "copy" /\ r[i].slot = s /\ r[i].bank = b
        BY <2>3, <2>4, <3>1, <3>2, <4>1
      <4> QED
        BY <4>2 DEF Coming
    <3>3. CASE m # l
      BY <2>1, <2>6, <3>1, <3>3 DEF Unstaged, cache
    <3> QED
      BY <3>2, <3>3
  <2>7. UNCHANGED <<occupant, pool>> /\ ~lost'
    BY <2>1 DEF cache, device, FilledInv
  <2> QED
    BY <2>4, <2>5, <2>6, <2>7, StillFilled
<1>7. CASE Admit
  <2>1. queue = <<>> /\ queue' = queue /\ ~lost' /\ UNCHANGED <<occupant, pool>> /\ pc = "admit"
    BY <1>7 DEF Admit, Cache!Admit, device, FilledInv, QueueInv
  <2>2. \A s \in Cache!Slots : ~Unstaged(s)
    BY <2>1 DEF Unstaged
  <2> QED
    BY <1>1, <2>1, <2>2, StillFilled
<1>8. CASE Plan
  <2>1. /\ queue = <<>> /\ queue' = queue /\ UNCHANGED <<pool, lost, pc, staged>>
        /\ pc = "stage" /\ staged = {}
    BY <1>8 DEF Plan, Cache!Serve, Cache!Hit, Cache!MissFree, Cache!MissEvict, Cache!Return,
       Cache!Serving, device, QueueInv
  <2>2. CASE occupant' = occupant /\ loads' = loads
    BY <1>1, <2>1, <2>2, StillFilled DEF FilledInv, Unstaged
  <2>3. ASSUME NEW t \in Cache!Slots, NEW v, Cache!Load(t, v)
        PROVE  FilledInv'
    <3>1. /\ occupant' = [occupant EXCEPT ![t] = Cache!Demand]
          /\ loads' = loads \cup {[expert |-> Cache!Demand, slot |-> t, evicted |-> v]}
      BY <2>3 DEF Cache!Load
    <3>2. Todo = {} /\ Todo' = {}
      BY <1>1, <1>3, <2>1
    <3>3. ASSUME NEW s \in Cache!Slots, NEW b \in Banks, occupant'[s] # NoExpert
          PROVE  pool'[s][b] = occupant'[s] \/ Unstaged(s)'
      <4>1. CASE s = t
        <5> DEFINE l == [expert |-> Cache!Demand, slot |-> t, evicted |-> v]
        <5>1. l \in loads' /\ l \notin staged' /\ l.slot = s
          BY <2>1, <3>1, <4>1
        <5> QED
          BY <2>1, <5>1 DEF Unstaged
      <4>2. CASE s # t
        <5>1. occupant'[s] = occupant[s]
          BY <3>1, <4>2, CacheFacts
        <5>2. pool[s][b] = occupant[s] \/ Unstaged(s)
          BY <3>2, <3>3, <5>1 DEF FilledInv, Coming
        <5>3. Unstaged(s) => Unstaged(s)'
          BY <2>1, <3>1 DEF Unstaged
        <5> QED
          BY <2>1, <5>1, <5>2, <5>3
      <4> QED
        BY <4>1, <4>2
    <3> QED
      BY <2>1, <3>2, <3>3 DEF FilledInv
  <2>4. \/ occupant' = occupant /\ loads' = loads
        \/ \E t \in Cache!Slots, v \in ExpertRefs \cup {NoExpert} : Cache!Load(t, v)
    <3>1. CASE Cache!Hit \/ Cache!Return
      BY <3>1 DEF Cache!Hit, Cache!Return, Cache!cache
    <3>2. CASE Cache!MissFree
      BY <3>2 DEF Cache!MissFree
    <3>3. CASE Cache!MissEvict
      <4>1. PICK v \in Cache!Resident : Cache!Load(slot_of[v], v)
        BY <3>3 DEF Cache!MissEvict
      <4>2. slot_of[v] \in Cache!Slots /\ v \in ExpertRefs
        BY CacheFacts DEF Cache!Resident
      <4> QED
        BY <4>1, <4>2
    <3> QED
      BY <1>8, <3>1, <3>2, <3>3 DEF Plan, Cache!Serve
  <2> QED
    BY <2>2, <2>3, <2>4
<1>9. CASE ClearResidency
  <2>1. queue' = queue /\ UNCHANGED <<pool, lost, pc>> /\ pc = "idle"
    BY <1>9 DEF ClearResidency, device
  <2>2. CASE Cache!ResetStats
    <3>1. occupant' = occupant /\ loads' = loads
      BY <2>2 DEF Cache!ResetStats, Cache!call
    <3> QED
      BY <1>1, <2>1, <3>1, StillFilled DEF FilledInv, Unstaged
  <2>3. CASE Cache!Clear
    <3>1. \A s \in Cache!Slots : occupant'[s] = NoExpert
      BY <2>3 DEF Cache!Clear
    <3>2. \A o \in Todo' : o.op = "copy" => o.slot \in Cache!Slots
      BY <1>1, <1>2, <2>1, OpKinds DEF CopyOps
    <3> QED
      BY <2>1, <3>1, <3>2 DEF FilledInv
  <2> QED
    BY <1>9, <2>2, <2>3 DEF ClearResidency
<1>10. CASE Device
  <2>1. queue # <<>> /\ queue' = Tail(queue) /\ UNCHANGED <<cache, pc, staged>>
    BY <1>10 DEF Device, HostWaits, DoCopy, CopyFails, DoExperts, DoZero, DoCpu, DoAdd, DoResidual,
       Executes
  <2>2. Op \in Ops /\ Op \in Todo /\ Todo = Todo' \cup {Op}
    BY <2>1, TodoTail DEF QueueInv
  <2>3. UNCHANGED <<occupant, loads>> /\ \A s : Unstaged(s)' <=> Unstaged(s)
    BY <2>1 DEF cache, Unstaged
  <2>4. CASE DoCopy
    <3>1. pool' = [pool EXCEPT ![Op.slot][Op.bank] = Op.expert] /\ lost' = lost /\ Op.op = "copy"
      BY <2>4 DEF DoCopy, Executes
    <3>2. Op.slot \in Cache!Slots /\ Op.bank \in Banks /\ Op.expert \in ExpertRefs
      BY <2>2, <3>1, OpKinds DEF CopyOps
    <3>3. /\ pool' \in [Cache!Slots -> [Banks -> ExpertRefs \cup {NoExpert}]]
          /\ \A s \in Cache!Slots, b \in Banks :
               pool'[s][b] = IF s = Op.slot /\ b = Op.bank THEN Op.expert ELSE pool[s][b]
      BY <3>1, <3>2 DEF FilledInv
    <3>4. ASSUME NEW s \in Cache!Slots, NEW b \in Banks, occupant'[s] # NoExpert
          PROVE  pool'[s][b] = occupant'[s] \/ Coming(s, b)' \/ Unstaged(s)'
      <4>1. CASE s = Op.slot /\ b = Op.bank
        <5>1. Op.expert = occupant[s]
          BY <2>2, <2>3, <3>1, <3>4, <4>1 DEF FilledInv
        <5> QED
          BY <2>3, <3>3, <4>1, <5>1
      <4>2. CASE ~(s = Op.slot /\ b = Op.bank)
        <5>1. Coming(s, b) => Coming(s, b)'
          BY <2>2, <4>2 DEF Coming
        <5> QED
          BY <2>3, <3>3, <3>4, <4>2, <5>1 DEF FilledInv
      <4> QED
        BY <4>1, <4>2
    <3> QED
      BY <2>2, <2>3, <3>1, <3>3, <3>4 DEF FilledInv
  <2>5. CASE ~DoCopy
    <3>1. pool' = pool /\ lost' = lost /\ Op.op # "copy"
      BY <1>10, <2>5 DEF Device, CopyFails, DoExperts, DoZero, DoCpu, DoAdd, DoResidual, Executes,
         CopiesSucceed
    <3>2. \A s, b : Coming(s, b) => Coming(s, b)'
      BY <2>2, <3>1 DEF Coming
    <3> QED
      BY <2>2, <2>3, <3>1, <3>2 DEF FilledInv
  <2> QED
    BY <2>4, <2>5
<1>11. CASE UNCHANGED vars
  <2>1. UNCHANGED <<occupant, pool, lost, queue, pc, loads, staged>>
    BY <1>11 DEF vars, cache, device
  <2> QED
    BY <2>1 DEF FilledInv, Todo, Coming, Unstaged
<1> QED
  BY <1>4, <1>5, <1>6, <1>7, <1>8, <1>9, <1>10, <1>11 DEF Next, Host

\* A pool with no occupant is filled.
LEMMA InitFilled == Init => FilledInv
<1> SUFFICES ASSUME Init
             PROVE  FilledInv
  OBVIOUS
<1>1. \A s \in Cache!Slots : occupant[s] = NoExpert
  BY DEF Init, Cache!Init
<1>2. Todo = {}
  BY DEF Init, Todo
<1>3. pool \in [Cache!Slots -> [Banks -> ExpertRefs \cup {NoExpert}]] /\ ~lost
  BY DEF Init
<1> QED
  BY <1>1, <1>2, <1>3 DEF FilledInv

\* Whatever else fails, what the cache calls resident between tokens is in all three banks of its
\* slot: a copy still queued is of the expert the cache has there.
THEOREM ResidentIsFilledHolds ==
  ConfigAssumption /\ CopiesSucceed => (Spec => []ResidentIsFilled)
<1> SUFFICES ASSUME ConfigAssumption, CopiesSucceed
             PROVE  Spec => []ResidentIsFilled
  OBVIOUS
<1>1. Init => BaseInv /\ FilledInv
  BY InitBase, InitFilled
<1>2. BaseInv /\ FilledInv /\ [Next]_vars => BaseInv' /\ FilledInv'
  BY BaseKept, FilledKept
<1>3. BaseInv /\ FilledInv => ResidentIsFilled
  <2> SUFFICES ASSUME BaseInv, FilledInv, pc = "idle", Drained,
                      NEW e \in Cache!Resident, NEW b \in Banks
               PROVE  pool[slot_of[e]][b] = e
    BY DEF ResidentIsFilled
  <2>1. /\ slot_of[e] \in Cache!Slots /\ occupant[slot_of[e]] = e /\ e \in ExpertRefs
    BY CacheFacts DEF BaseInv, Cache!Resident
  <2>2. Todo = {}
    BY DEF Drained, Todo
  <2> QED
    BY <2>1, <2>2, Shape DEF FilledInv, Coming, Unstaged
<1> QED
  BY <1>1, <1>2, <1>3, PTL DEF Spec

-----------------------------------------------------------------------------
(* The sum of a block.                                                     *)

\* The calls whose failure leaves neither a slot half filled nor a job that nobody synced
\* (DecodeStageFault, HostExecutorAbandonRace).
SumMayFail == FailAt \subseteq {"submit", "sync", "add"}

\* The residual is added to a whole sum.
LEMMA WholeSum ==
  ASSUME SharesInv
  PROVE  Whole([sum |-> Owns(GpuWanted) \o Owns(cpu_pick), asked |-> wanted])
<1> DEFINE g == GpuWanted
           c == cpu_pick
           O == {Own(e) : e \in ExpertRefs}
<1>1. /\ wanted \in Seq(ExpertRefs) /\ c \in Seq(ExpertRefs) /\ g \in Seq(ExpertRefs)
      /\ Len(g) + Len(c) = Len(wanted)
      /\ Cache!Distinct(g) \cup Cache!Distinct(c) = Cache!Distinct(wanted)
  BY DEF SharesInv
<1> HIDE DEF g, c
<1>2. ASSUME NEW s \in Seq(ExpertRefs)
      PROVE  /\ Owns(s) \in Seq(O) /\ Len(Owns(s)) = Len(s) /\ DOMAIN Owns(s) = DOMAIN s
             /\ \A i \in DOMAIN s : Owns(s)[i] = Own(s[i])
  <2>1. DOMAIN s = 1 .. Len(s) /\ Len(s) \in Nat /\ \A i \in 1 .. Len(s) : Own(s[i]) \in O
    OBVIOUS
  <2>2. Owns(s) = [i \in 1 .. Len(s) |-> Own(s[i])]
    BY <2>1 DEF Owns
  <2> QED
    BY <2>1, <2>2
<1> DEFINE a == Owns(g)
           b == Owns(c)
           sum == a \o b
<1>3. /\ a \in Seq(O) /\ Len(a) = Len(g) /\ DOMAIN a = DOMAIN g
      /\ \A i \in DOMAIN g : a[i] = Own(g[i])
      /\ b \in Seq(O) /\ Len(b) = Len(c) /\ DOMAIN b = DOMAIN c
      /\ \A i \in DOMAIN c : b[i] = Own(c[i])
  BY <1>1, <1>2
<1> HIDE DEF a, b, O
<1>4. /\ Len(sum) = Len(a) + Len(b) /\ DOMAIN sum = 1 .. (Len(a) + Len(b))
      /\ \A i \in 1 .. (Len(a) + Len(b)) : sum[i] = IF i <= Len(a) THEN a[i] ELSE b[i - Len(a)]
      /\ Len(a) \in Nat /\ Len(b) \in Nat /\ DOMAIN a = 1 .. Len(a) /\ DOMAIN b = 1 .. Len(b)
  BY <1>3, ConcatProperties
<1> HIDE DEF sum
<1>5. \A i \in DOMAIN sum : (i \in DOMAIN a /\ sum[i] = a[i])
                            \/ (i - Len(a) \in DOMAIN b /\ sum[i] = b[i - Len(a)])
  <2>1. \A i \in 1 .. (Len(a) + Len(b)) : IF i <= Len(a) THEN i \in 1 .. Len(a) ELSE i - Len(a) \in 1 .. Len(b)
    BY <1>4
  <2> QED
    BY <1>4, <2>1
<1>6. (\A i \in DOMAIN a : i \in DOMAIN sum /\ sum[i] = a[i])
      /\ \A i \in DOMAIN b : i + Len(a) \in DOMAIN sum /\ sum[i + Len(a)] = b[i]
  <2>1. \A i \in 1 .. Len(a) : i \in 1 .. (Len(a) + Len(b)) /\ i <= Len(a)
    BY <1>4
  <2>2. \A i \in 1 .. Len(b) : i + Len(a) \in 1 .. (Len(a) + Len(b)) /\ ~(i + Len(a) <= Len(a))
                               /\ (i + Len(a)) - Len(a) = i
    BY <1>4
  <2> QED
    BY <1>4, <2>1, <2>2
<1>7. \A x : (\E i \in DOMAIN g : g[i] = x) \/ (\E i \in DOMAIN c : c[i] = x)
             <=> \E i \in DOMAIN wanted : wanted[i] = x
  <2>1. \A x : x \in Cache!Distinct(g) \cup Cache!Distinct(c) <=> x \in Cache!Distinct(wanted)
    BY <1>1
  <2> QED
    BY <2>1 DEF Cache!Distinct
<1>8. {sum[i] : i \in DOMAIN sum} = {Own(wanted[i]) : i \in DOMAIN wanted}
  <2>1. ASSUME NEW i \in DOMAIN sum
        PROVE  \E j \in DOMAIN wanted : sum[i] = Own(wanted[j])
    <3>1. CASE i \in DOMAIN a /\ sum[i] = a[i]
      <4>1. PICK j \in DOMAIN wanted : wanted[j] = g[i]
        BY <1>3, <1>7, <3>1
      <4> QED
        BY <1>3, <3>1, <4>1
    <3>2. CASE i - Len(a) \in DOMAIN b /\ sum[i] = b[i - Len(a)]
      <4>1. PICK j \in DOMAIN wanted : wanted[j] = c[i - Len(a)]
        BY <1>3, <1>7, <3>2
      <4> QED
        BY <1>3, <3>2, <4>1
    <3> QED
      BY <1>5, <3>1, <3>2
  <2>2. ASSUME NEW j \in DOMAIN wanted
        PROVE  \E i \in DOMAIN sum : sum[i] = Own(wanted[j])
    <3>1. (\E i \in DOMAIN g : g[i] = wanted[j]) \/ (\E i \in DOMAIN c : c[i] = wanted[j])
      BY <1>7
    <3> QED
      BY <1>3, <1>6, <3>1
  <2> QED
    BY <2>1, <2>2
<1>9. Len(sum) = Len(wanted)
  BY <1>1, <1>3, <1>4
<1> QED
  BY <1>8, <1>9 DEF Whole, sum, a, b, g, c

\* An empty share adds nothing to a sum.
LEMMA OwnsNothing == Owns(<<>>) = <<>> /\ \A s \in Seq({Own(e) : e \in ExpertRefs}) : s \o <<>> = s
<1>1. DOMAIN Owns(<<>>) = {}
  BY DEF Owns
<1>2. Owns(<<>>) = [i \in 1 .. 0 |-> Own(<<>>[i])]
  BY DEF Owns
<1> QED
  BY <1>2

\* The device runs what is at the head: the sum comes nearer, and is whole when the residual
\* is added.
LEMMA TokenRuns ==
  ASSUME ConfigAssumption, CopiesSucceed, BaseInv, FilledInv, TokenInv, pc # "idle", Device
  PROVE  TokenInv'
<1> USE DEF BaseInv
<1>1. /\ queue # <<>> /\ queue' = Tail(queue)
      /\ UNCHANGED <<cache, pc, block, wanted, cpu_pick, staged, job, host, cpu_out>>
  BY DEF Device, HostWaits, split, cpu, DoCopy, CopyFails, DoExperts, DoZero, DoCpu, DoAdd, DoResidual,
     Executes
<1>2. /\ Op \in Ops /\ Op \in Todo /\ Todo = Todo' \cup {Op} /\ Todo \subseteq Ops
      /\ \A o \in Todo' : Phase(Op.op) < Phase(o.op) \/ (Op.op = "copy" /\ o.op = "copy")
      /\ \A o \in Todo' : o \in Ops
  BY <1>1, TodoTail DEF QueueInv
<1>3. GpuWanted' = GpuWanted /\ Owns(GpuWanted)' = Owns(GpuWanted) /\ Owns(cpu_pick)' = Owns(cpu_pick)
  <2>1. GpuWanted' = GpuWanted
    BY <1>1 DEF GpuWanted, InSeq
  <2> QED
    BY <1>1, <2>1 DEF Owns
<1>4. /\ weights' = weights /\ weights_sub' = weights_sub
      /\ Uploaded' /\ JobInv' /\ ProductsRight' /\ Done' = Done
  <2>1. weights' = weights /\ weights_sub' = weights_sub
    BY DEF Device, DoCopy, CopyFails, DoExperts, DoZero, DoCpu, DoAdd, DoResidual
  <2>2. Uploaded'
    BY <1>1, <1>3, <2>1 DEF TokenInv, Uploaded
  <2>3. JobInv'
    BY <1>1, <1>3 DEF TokenInv, JobInv
  <2>4. ProductsRight'
    BY <1>1, <1>2, <1>3 DEF TokenInv, ProductsRight, cache
  <2>5. Done' = Done
    BY <1>1 DEF Done
  <2> QED
    BY <2>1, <2>2, <2>3, <2>4, <2>5
<1>5. \A n \in 2 .. 5 : Left(n)' <=> Left(n) /\ Phase(Op.op) # n
  <2>1. \A o \in Todo' : Phase(o.op) \in 1 .. 5 /\ Phase(Op.op) \in 1 .. 5
                         /\ (Phase(o.op) = Phase(Op.op) => Phase(o.op) = 1)
    BY <1>2, OpKinds, Phases
  <2> QED
    BY <1>2, <2>1 DEF Left
<1>6. Left(Phase(Op.op)) /\ \A n \in 1 .. 5 : n < Phase(Op.op) => ~Left(n)
  <2>1. \A o \in Todo : Phase(o.op) >= Phase(Op.op) /\ Phase(o.op) \in 1 .. 5 /\ Phase(Op.op) \in 1 .. 5
    BY <1>2, OpKinds
  <2> QED
    BY <1>2, <2>1 DEF Left
<1>7. /\ Left(3) \/ Left(4) => cpu_pick # <<>>
      /\ \A o \in Todo : o.op = "residual" => pc \in {"route", "answer"} /\ o.asked = wanted
      /\ h \in Seq(SumRecords) /\ Len(h) = (IF Left(5) THEN Done - 1 ELSE Done)
      /\ \A i \in DOMAIN h : Whole(h[i])
      /\ pc \in {"sync", "add"} => GpuComing
      /\ pc = "residual" => SumComing
      /\ Left(5) => SumComing
      /\ pc \in {"route", "answer"} => Left(5)
  BY <1>1 DEF TokenInv
<1>8. pc \in {"sync", "add"} => ~Left(3) /\ ~Left(4) /\ ~Left(5)
  BY <1>2, OpKinds DEF QueueInv, Upto, Left
<1>9. pc \in {"stage", "sync", "add", "residual", "route", "answer"}
      /\ (pc = "stage" => ~Left(2) /\ ~Left(3) /\ ~Left(4) /\ ~Left(5))
  <2>1. pc \notin {"submit", "upload", "admit"}
    BY <1>1 DEF QueueInv
  <2>2. pc = "stage" => Upto(1)
    BY DEF QueueInv
  <2> QED
    BY <1>2, <2>1, <2>2, OpKinds DEF QueueInv, Upto, Left
<1>10. pc = "residual" => ~Left(5)
  BY <1>2, OpKinds DEF QueueInv, Upto, Left
\* What is to be shown of each operation.
<1> DEFINE Coming5 == Phase(Op.op) # 5 =>
             /\ h' = h
             /\ pc \in {"sync", "add"} /\ GpuComing => GpuComing'
             /\ pc \notin {"sync", "add", "stage"} /\ SumComing => SumComing'
<1>11. CASE Phase(Op.op) # 5 /\ Coming5
  <2>1. Left(5)' <=> Left(5)
    BY <1>5, <1>11
  <2>2. Left(3)' \/ Left(4)' => Left(3) \/ Left(4)
    BY <1>5
  <2>3. pc \in {"sync", "add"} => GpuComing'
    BY <1>7, <1>11
  <2>4. (pc = "residual" => SumComing') /\ (Left(5)' => SumComing')
    BY <1>7, <1>8, <1>9, <1>11, <2>1
  <2>5. \A o \in Todo' : o.op = "residual" => pc \in {"route", "answer"} /\ o.asked = wanted
    BY <1>2, <1>7
  <2>6. pc \in {"route", "answer"} => Left(5)'
    BY <1>7, <2>1
  <2> QED
    BY <1>1, <1>4, <1>7, <1>11, <2>1, <2>2, <2>3, <2>4, <2>5, <2>6 DEF TokenInv
<1>12. CASE Op.op = "residual"
  <2> DEFINE r == [sum |-> Owns(GpuWanted) \o Owns(cpu_pick), asked |-> wanted]
  <2>1. Phase(Op.op) = 5
    BY <1>12, Phases
  <2>2. Left(5) /\ ~Left(2) /\ ~Left(3) /\ ~Left(4)
    BY <1>6, <2>1
  <2>3. ~Left(5)' /\ ~Left(3)' /\ ~Left(4)'
    BY <1>5, <2>1, <2>2
  <2>4. pc \in {"route", "answer"} /\ Op.asked = wanted
    BY <1>2, <1>7, <1>12
  <2>5. ffn = Owns(GpuWanted) \o Owns(cpu_pick)
    BY <1>7, <2>2 DEF SumComing
  <2>6. h' = Append(h, r)
    BY <1>12, <2>4, <2>5 DEF Device, DoCopy, CopyFails, DoExperts, DoZero, DoCpu, DoAdd, DoResidual, Executes
  <2>7. Whole(r)
    BY WholeSum
  <2>8. h \in Seq(SumRecords)
    BY DEF TokenInv
  <2>9. r \in SumRecords
    <3>1. \A s \in Seq(ExpertRefs) : Owns(s) \in Seq({Own(e) : e \in ExpertRefs})
      BY DEF Owns
    <3>2. GpuWanted \in Seq(ExpertRefs) /\ cpu_pick \in Seq(ExpertRefs) /\ wanted \in Seq(ExpertRefs)
      BY DEF SharesInv
    <3>3. Owns(GpuWanted) \o Owns(cpu_pick) \in Seq({Own(e) : e \in ExpertRefs})
      BY <3>1, <3>2, ConcatProperties
    <3> QED
      BY <3>2, <3>3 DEF SumRecords
  <2> HIDE DEF r
  <2>10. /\ h' \in Seq(SumRecords) /\ Len(h') = Len(h) + 1
         /\ \A i \in DOMAIN h' : (i \in DOMAIN h /\ h'[i] = h[i]) \/ h'[i] = r
    BY <2>6, <2>8, <2>9
  <2>11. \A i \in DOMAIN h' : Whole(h'[i])
    BY <1>7, <2>7, <2>10
  <2>12. Done \in Int
    BY Shape DEF Done, QueueInv
  <2>13. Len(h) = Done - 1 /\ Len(h') = Done
    BY <1>7, <2>2, <2>10, <2>12
  <2>14. Todo' = {}
    BY <1>2, <2>1, OpKinds
  <2>15. queue' = <<>>
    <3>1. queue' \in Seq(Ops)
      BY <1>1, TodoTail DEF QueueInv
    <3>2. \A i \in DOMAIN queue' : FALSE
      BY <2>14 DEF Todo
    <3>3. DOMAIN queue' = 1 .. Len(queue') /\ Len(queue') \in Nat
      BY <3>1
    <3>4. Len(queue') = 0
      <4>1. Len(queue') # 0 => 1 \in DOMAIN queue'
        BY <3>3
      <4> QED
        BY <3>2, <4>1
    <3> QED
      BY <3>1, <3>4, EmptySeq
  <2>16. (\A i \in DOMAIN h : Whole(h[i]))'
    BY <2>11 DEF Whole, Own
  <2> QED
    BY <1>1, <1>4, <2>3, <2>4, <2>10, <2>13, <2>14, <2>15, <2>16 DEF TokenInv
<1>13. CASE Op.op = "copy"
  <2>1. /\ UNCHANGED <<ffn, cpu_ffn, h>> /\ Phase(Op.op) = 1
    BY <1>13, Phases DEF Device, DoCopy, CopyFails, DoExperts, DoZero, DoCpu, DoAdd, DoResidual, Executes
  <2>2. (Left(2)' <=> Left(2)) /\ (Left(3)' <=> Left(3)) /\ (Left(4)' <=> Left(4))
    BY <1>5, <2>1
  <2>3. (GpuComing => GpuComing') /\ (SumComing => SumComing')
    BY <1>1, <1>3, <2>1, <2>2 DEF GpuComing, SumComing
  <2> QED
    BY <1>11, <2>1, <2>3
<1>14. CASE Op.op \in {"experts", "zero"}
  <2>1. Phase(Op.op) = 2 /\ pc # "stage"
    <3>1. Phase(Op.op) = 2
      BY <1>14, Phases
    <3> QED
      BY <1>6, <1>9, <3>1
  <2>2. Left(2) /\ ~Left(1) /\ ~Left(2)' /\ (Left(3)' <=> Left(3)) /\ (Left(4)' <=> Left(4))
    BY <1>5, <1>6, <2>1
  <2> DEFINE g == GpuWanted
  <2>3. g \in Seq(ExpertRefs) /\ (cpu_pick = <<>> => g = wanted)
    BY DEF SharesInv
  <2>4. ASSUME ffn' = Owns(g), UNCHANGED <<cpu_ffn, h>>
        PROVE  TokenInv'
    <3>1. GpuComing'
      BY <1>3, <2>4 DEF GpuComing
    <3>2. ~Left(4) /\ SumComing => ffn' = Owns(g) \o Owns(cpu_pick)
      <4> SUFFICES ASSUME ~Left(4), SumComing
                   PROVE  ffn' = Owns(g) \o Owns(cpu_pick)
        OBVIOUS
      <4>1. cpu_pick = <<>>
        BY <2>2 DEF SumComing
      <4>2. Owns(g) \in Seq({Own(e) : e \in ExpertRefs})
        BY <2>3 DEF Owns
      <4> QED
        BY <2>4, <4>1, <4>2, OwnsNothing
    <3>3. SumComing => SumComing'
      BY <1>1, <1>3, <2>2, <2>4, <3>1, <3>2 DEF SumComing
    <3> QED
      BY <1>11, <2>1, <2>4, <3>1, <3>3
  <2>5. CASE Op.op = "zero"
    <3>1. ffn' = <<>> /\ UNCHANGED <<cpu_ffn, h>>
      BY <2>5 DEF Device, DoCopy, CopyFails, DoExperts, DoZero, DoCpu, DoAdd, DoResidual, Executes
    <3>2. g = <<>>
      BY <1>2, <2>5 DEF TokenInv, ProductsRight
    <3> QED
      BY <2>4, <3>1, <3>2, OwnsNothing
  <2>6. CASE Op.op = "experts"
    <3> DEFINE w == IF Op.sub THEN weights_sub ELSE weights
               x == [i \in DOMAIN Op.slots |->
                      [gate |-> pool[Op.slots[i]]["gate"], up |-> pool[Op.slots[i]]["up"],
                       down |-> pool[Op.slots[i]]["down"], weight |-> w[i]]]
    <3>1. ffn' = x /\ UNCHANGED <<cpu_ffn, h>>
      BY <2>6 DEF Device, DoCopy, CopyFails, DoExperts, DoZero, DoCpu, DoAdd, DoResidual, Executes
    <3>2. /\ Op.sub <=> cpu_pick # <<>>
          /\ Len(Op.slots) = Len(g)
          /\ \A k \in DOMAIN Op.slots : occupant[Op.slots[k]] = g[k]
      BY <1>2, <2>6 DEF TokenInv, ProductsRight
    <3>3. Op.slots \in Seq(Cache!Slots)
      BY <1>2, <2>6, OpKinds
    <3>4. w = g
      BY <1>9, <2>3, <3>2 DEF TokenInv, Uploaded
    <3>5. DOMAIN Op.slots = DOMAIN g /\ DOMAIN g = 1 .. Len(g)
      BY <2>3, <3>2, <3>3
    <3> HIDE DEF w
    <3>6. ASSUME NEW k \in DOMAIN g, NEW b \in Banks
          PROVE  pool[Op.slots[k]][b] = g[k]
      <4>1. /\ Op.slots[k] \in Cache!Slots /\ occupant[Op.slots[k]] = g[k]
            /\ g[k] \in ExpertRefs /\ g[k] # NoExpert
        BY <2>3, <3>2, <3>3, <3>5, Shape
      <4>2. ~Unstaged(Op.slots[k])
        BY <2>1 DEF Unstaged
      <4>3. ~Coming(Op.slots[k], b)
        BY <2>2, Phases DEF Coming, Left
      <4> QED
        BY <4>1, <4>2, <4>3 DEF FilledInv
    <3>7. \A k \in DOMAIN g : pool[Op.slots[k]]["gate"] = g[k] /\ pool[Op.slots[k]]["up"] = g[k]
                             /\ pool[Op.slots[k]]["down"] = g[k]
      BY <3>6 DEF Banks
    <3> HIDE DEF g
    <3>8. x = [i \in DOMAIN g |-> [gate |-> g[i], up |-> g[i], down |-> g[i], weight |-> g[i]]]
      BY <3>4, <3>5, <3>7
    <3>9. x = Owns(g)
      BY <3>8 DEF Owns, Own
    <3> QED
      BY <2>4, <3>1, <3>9
  <2> QED
    BY <1>14, <2>5, <2>6
<1>15. CASE Op.op = "cpu"
  <2>1. cpu_ffn' = cpu_out /\ UNCHANGED <<ffn, h>> /\ Phase(Op.op) = 3
    BY <1>15, Phases DEF Device, DoCopy, CopyFails, DoExperts, DoZero, DoCpu, DoAdd, DoResidual, Executes
  <2>2. Left(3) /\ ~Left(2) /\ ~Left(2)' /\ ~Left(3)' /\ (Left(4)' <=> Left(4))
    BY <1>5, <1>6, <2>1
  <2>3. cpu_out = Owns(cpu_pick)
    BY <1>7, <1>8, <1>9, <2>2 DEF TokenInv, JobInv
  <2>4. SumComing => SumComing'
    BY <1>1, <1>3, <2>1, <2>2, <2>3 DEF GpuComing, SumComing
  <2> QED
    BY <1>8, <1>11, <2>1, <2>2, <2>4
<1>16. CASE Op.op = "add"
  <2>1. ffn' = ffn \o cpu_ffn /\ UNCHANGED <<cpu_ffn, h>> /\ Phase(Op.op) = 4
    BY <1>16, Phases DEF Device, DoCopy, CopyFails, DoExperts, DoZero, DoCpu, DoAdd, DoResidual, Executes
  <2>2. Left(4) /\ ~Left(2) /\ ~Left(3) /\ ~Left(2)' /\ ~Left(4)'
    BY <1>5, <1>6, <2>1
  <2>3. SumComing => SumComing'
    BY <1>1, <1>3, <2>1, <2>2 DEF GpuComing, SumComing
  <2> QED
    BY <1>8, <1>11, <2>1, <2>2, <2>3
<1> QED
  BY <1>2, <1>12, <1>13, <1>14, <1>15, <1>16, OpKinds

\* While the host submits nothing and the device has not run, what is to come stays so.
LEMMA Quiet ==
  ASSUME queue' = queue, UNCHANGED <<wanted, cpu_pick>>
  PROVE  /\ Todo' = Todo /\ \A n \in 1 .. 5 : Left(n)' <=> Left(n)
         /\ GpuWanted' = GpuWanted /\ Owns(GpuWanted)' = Owns(GpuWanted)
         /\ Owns(cpu_pick)' = Owns(cpu_pick)
<1>1. Todo' = Todo /\ GpuWanted' = GpuWanted
  BY DEF Todo, GpuWanted, InSeq
<1> QED
  BY <1>1 DEF Left, Owns

\* The host's calls that submit nothing.
LEMMA TokenWaits ==
  ASSUME ConfigAssumption, BaseInv, TokenInv, host # "stray",
         SkipHost \/ Submit \/ UploadSub \/ Admit \/ Plan \/ SyncOk
  PROVE  TokenInv' /\ host' # "stray"
<1> USE DEF BaseInv
<1>1. /\ UNCHANGED <<queue, block, wanted, cpu_pick, weights, ffn, cpu_ffn, h>>
      /\ pc \in {"submit", "upload", "admit", "stage", "sync"}
      /\ pc' \in {"upload", "admit", "stage", "add"}
  BY DEF SkipHost, Submit, UploadSub, Admit, Plan, Cache!Serve, SyncOk, split, device, QueueInv
<1>2. /\ Todo' = Todo /\ (\A n \in 1 .. 5 : Left(n)' <=> Left(n))
      /\ GpuWanted' = GpuWanted /\ Owns(GpuWanted)' = Owns(GpuWanted)
      /\ Owns(cpu_pick)' = Owns(cpu_pick)
  BY <1>1, Quiet
<1>3. pc # "sync" => queue = <<>>
  BY DEF SkipHost, Submit, UploadSub, Admit, Plan, Cache!Serve, Cache!Hit, Cache!MissFree,
     Cache!MissEvict, Cache!Return, Cache!Serving, SyncOk, QueueInv
<1>4. Uploaded'
  BY <1>1, <1>2 DEF SkipHost, Submit, UploadSub, Admit, Plan, SyncOk, device, TokenInv, Uploaded
<1>5. JobInv' /\ host' # "stray"
  <2>1. CASE SyncOk
    <3>1. /\ job = cpu_pick /\ cpu_pick # <<>> /\ job' = <<>> /\ pc' = "add" /\ host' = "whole"
          /\ cpu_out' = Owns(job)
      BY <2>1 DEF SyncOk, TokenInv, JobInv
    <3>2. cpu_out' = Owns(cpu_pick)'
      BY <1>2, <3>1
    <3> QED
      BY <1>1, <3>1, <3>2 DEF JobInv
  <2>2. CASE SkipHost \/ Submit
    BY <1>1, <2>2 DEF SkipHost, Submit, cpu, TokenInv, JobInv
  <2>3. CASE UploadSub \/ Admit \/ Plan
    BY <1>1, <2>3 DEF UploadSub, Admit, Plan, cpu, TokenInv, JobInv, Cache!Serve
  <2> QED
    BY <2>1, <2>2, <2>3
<1>6. pc = "sync" => occupant' = occupant
  BY DEF SkipHost, Submit, UploadSub, Admit, Plan, SyncOk, cache, QueueInv
<1>7. ProductsRight'
  <2>1. CASE queue = <<>>
    BY <1>2, <2>1 DEF ProductsRight, Todo
  <2>2. CASE occupant' = occupant
    BY <1>1, <1>2, <2>2 DEF ProductsRight, TokenInv
  <2> QED
    BY <1>3, <1>6, <2>1, <2>2
<1>8. pc' \in {"sync", "add"} => GpuComing'
  <2>1. pc' \in {"sync", "add"} => pc = "sync"
    BY <1>1 DEF SkipHost, Submit, UploadSub, Admit, Plan, SyncOk
  <2> QED
    BY <1>1, <1>2, <2>1 DEF TokenInv, GpuComing
<1>9. ~Left(3)' /\ ~Left(4)' /\ ~Left(5)'
  <2>1. pc = "sync" => Upto(2)
    BY DEF QueueInv
  <2>2. \A o \in Todo : Phase(o.op) <= 2
    BY <1>3, <2>1 DEF Upto, Todo
  <2>3. ~Left(3) /\ ~Left(4) /\ ~Left(5)
    BY <2>2 DEF Left
  <2> QED
    BY <1>2, <2>3
<1>10. Done' = Done
  BY <1>1 DEF Done
<1>11. \A o \in Todo' : o.op # "residual"
  BY <1>9, Phases DEF Left
<1>12. h' \in Seq(SumRecords) /\ Len(h') = Done' /\ (\A i \in DOMAIN h : Whole(h[i]))'
  <2>1. h' = h /\ h \in Seq(SumRecords) /\ (\A i \in DOMAIN h : Whole(h[i]))
    BY <1>1 DEF TokenInv
  <2>2. Len(h) = Done
    BY <1>2, <1>9 DEF TokenInv
  <2> QED
    BY <1>10, <2>1, <2>2 DEF Whole, Own
<1> QED
  BY <1>1, <1>4, <1>5, <1>7, <1>8, <1>9, <1>11, <1>12 DEF TokenInv

\* A token starts with nothing of the last one, and a block with nothing of the last block.
LEMMA TokenStarts ==
  ASSUME ConfigAssumption, BaseInv, SumInv, Begin \/ Route
  PROVE  TokenInv' /\ host' # "stray"
<1> USE DEF BaseInv
<1>1. queue = <<>> /\ queue' = <<>> /\ host' = host /\ job' = job /\ job = <<>> /\ pc' \in {"route", "submit"}
  BY DEF Begin, Route, Drained, cpu, SumInv, TokenInv, JobInv
<1>2. Todo' = {} /\ Todo = {}
  BY <1>1 DEF Todo
<1>3. ~Left(3)' /\ ~Left(4)' /\ ~Left(5)' /\ ~Left(5)
  BY <1>2 DEF Left
<1>4. ProductsRight'
  BY <1>2 DEF ProductsRight
<1>5. CASE Begin
  <2>1. /\ pc' = "route" /\ block' = 1 /\ wanted' = <<>> /\ cpu_pick' = <<>> /\ weights' = <<>> /\ h' = <<>>
    BY <1>5 DEF Begin
  <2>2. Uploaded' /\ JobInv'
    BY <1>1, <2>1 DEF Uploaded, JobInv
  <2>3. Len(h') = Done' /\ h' \in Seq(SumRecords) /\ \A i \in DOMAIN h' : FALSE
    BY <2>1 DEF Done
  <2> QED
    BY <1>1, <1>2, <1>3, <1>4, <2>1, <2>2, <2>3 DEF TokenInv, SumInv
<1>6. CASE Route
  <2>1. pc = "route" /\ pc' = "submit" /\ weights' = wanted' /\ h' = h /\ block' = block
    BY <1>6 DEF Route
  <2>2. Uploaded' /\ JobInv'
    BY <1>1, <2>1 DEF Uploaded, JobInv
  <2>3. h \in Seq(SumRecords) /\ Len(h) = block - 1 /\ (\A i \in DOMAIN h : Whole(h[i]))
    BY <1>3, <2>1 DEF SumInv, TokenInv, Done
  <2>4. h' \in Seq(SumRecords) /\ Len(h') = Done' /\ (\A i \in DOMAIN h : Whole(h[i]))'
    BY <2>1, <2>3 DEF Done, Whole, Own
  <2> QED
    BY <1>1, <1>2, <1>3, <1>4, <2>1, <2>2, <2>4 DEF TokenInv, SumInv
<1> QED
  BY <1>5, <1>6

\* The host's calls that submit.
LEMMA TokenGrows ==
  ASSUME ConfigAssumption, BaseInv, TokenInv, Stage \/ Launch \/ Add \/ Residual
  PROVE  TokenInv' /\ host' = host
<1> USE DEF BaseInv
<1>1. UNCHANGED <<cache, wanted, cpu_pick, job, host, cpu_out, weights, weights_sub, ffn, cpu_ffn, h>>
  BY DEF Stage, Launch, Add, Residual, split, cpu, device
<1>2. GpuWanted' = GpuWanted /\ Owns(GpuWanted)' = Owns(GpuWanted) /\ Owns(cpu_pick)' = Owns(cpu_pick)
  BY <1>1 DEF GpuWanted, InSeq, Owns
<1>3. Todo \subseteq Ops /\ queue \in Seq(Ops)
  BY DEF QueueInv, Todo
<1>4. h \in Seq(SumRecords) /\ (\A i \in DOMAIN h : Whole(h[i])) /\ Len(h) = (IF Left(5) THEN Done - 1 ELSE Done)
      /\ Uploaded /\ JobInv /\ ProductsRight
  BY DEF TokenInv
<1>5. h' \in Seq(SumRecords) /\ (\A i \in DOMAIN h : Whole(h[i]))'
  BY <1>1, <1>4 DEF Whole, Own
<1>6. CASE Stage
  <2>1. PICK l \in loads : queue' = queue \o Copies(l)
    BY <1>6 DEF Stage
  <2> DEFINE r == Copies(l)
  <2>2. r \in Seq(Ops) /\ \A i \in DOMAIN r : r[i].op = "copy"
    BY CacheFacts, CopiesMade
  <2> HIDE DEF r
  <2>3. Todo' = Todo \cup {r[i] : i \in DOMAIN r}
    BY <1>3, <2>1, <2>2, TodoAppend DEF r
  <2>4. \A o \in Todo' : o \in Todo \/ o.op = "copy"
    BY <2>2, <2>3
  <2>5. pc = "stage" /\ pc' = "stage" /\ block' = block
    BY <1>6 DEF Stage, Planned, split
  <2>6. \A o \in Todo : o.op = "copy"
    BY <1>3, <2>5, OpKinds DEF QueueInv, Upto
  <2>7. \A o \in Todo' : o.op = "copy"
    BY <2>4, <2>6
  <2>8. ~Left(3)' /\ ~Left(4)' /\ ~Left(5)' /\ ~Left(5)
    BY <2>6, <2>7, Phases DEF Left
  <2>9. ProductsRight' /\ Uploaded' /\ JobInv' /\ Done' = Done
    BY <1>1, <1>2, <1>4, <2>5, <2>7 DEF ProductsRight, Uploaded, JobInv, Done
  <2> QED
    BY <1>1, <1>4, <1>5, <2>5, <2>7, <2>8, <2>9 DEF TokenInv
<1>7. CASE Launch
  <2>1. queue' = queue \o <<Products>> /\ pc = "stage" /\ block' = block
        /\ pc' = IF job = <<>> THEN "residual" ELSE "sync"
    BY <1>3, <1>7 DEF Launch, Planned, split
  <2>2. /\ Products \in Ops /\ Phase(Products.op) = 2
        /\ Products.op = "zero" => GpuWanted = <<>>
        /\ Products.op = "experts" =>
             /\ Products.sub <=> cpu_pick # <<>>
             /\ Len(Products.slots) = Len(GpuWanted)
             /\ \A k \in DOMAIN Products.slots : occupant[Products.slots[k]] = GpuWanted[k]
    <3>1. Planned
      BY <1>7 DEF Launch
    <3> QED
      BY <3>1, ProductsMade
  <2> DEFINE p == Products
             r == <<p>>
  <2>3. r \in Seq(Ops) /\ DOMAIN r = {1} /\ r[1] = p /\ queue' = queue \o r
    <3>1. p \in Ops /\ queue' = queue \o <<p>>
      BY <2>1, <2>2
    <3> HIDE DEF p
    <3> QED
      BY <3>1
  <2> HIDE DEF r
  <2>4. Todo' = Todo \cup {r[i] : i \in DOMAIN r}
    BY <1>3, <2>3, TodoAppend
  <2>5. Todo' = Todo \cup {p}
    <3> HIDE DEF p
    <3> QED
      BY <2>3, <2>4
  <2>6. \A o \in Todo : o.op = "copy"
    BY <1>3, <2>1, OpKinds DEF QueueInv, Upto
  <2>7. Left(2)' /\ ~Left(3)' /\ ~Left(4)' /\ ~Left(5)' /\ ~Left(5)
    <3> HIDE DEF p
    <3>1. Phase(p.op) = 2
      BY <2>2 DEF p
    <3> QED
      BY <2>5, <2>6, <3>1, Phases DEF Left
  <2>8. job = cpu_pick /\ Uploaded' /\ JobInv' /\ Done' = Done
    BY <1>1, <1>2, <1>4, <2>1 DEF Uploaded, JobInv, Done
  <2>9. ProductsRight'
    <3>1. \A o \in Todo' : o.op = "copy" \/ o = Products
      BY <2>5, <2>6
    <3> QED
      BY <1>1, <1>2, <2>2, <3>1 DEF ProductsRight, cache
  <2>10. \A o \in Todo' : o.op # "residual"
    BY <2>7, Phases DEF Left
  <2>11. GpuComing' /\ (pc' = "residual" => SumComing')
    BY <1>1, <2>1, <2>7, <2>8 DEF GpuComing, SumComing
  <2> QED
    BY <1>1, <1>4, <1>5, <2>1, <2>7, <2>8, <2>9, <2>10, <2>11 DEF TokenInv
<1>8. CASE Add
  <2> DEFINE r == <<[op |-> "cpu"], [op |-> "add"]>>
  <2>1. queue' = queue \o r /\ block' = block /\ pc = "add" /\ pc' = "residual"
    BY <1>8 DEF Add, split
  <2>2. r \in Seq(Ops) /\ DOMAIN r = {1, 2} /\ r[1].op = "cpu" /\ r[2].op = "add"
    BY DEF Ops
  <2> HIDE DEF r
  <2>3. Todo' = Todo \cup {r[1], r[2]}
    <3>1. Todo' = Todo \cup {r[i] : i \in DOMAIN r}
      BY <1>3, <2>1, <2>2, TodoAppend
    <3> QED
      BY <2>2, <3>1
  <2>4. \A o \in Todo : Phase(o.op) <= 2 /\ Phase(o.op) \in 1 .. 5
    BY <1>3, <2>1, OpKinds DEF QueueInv, Upto
  <2>5. Left(3)' /\ Left(4)' /\ ~Left(5)' /\ ~Left(5) /\ (Left(2)' <=> Left(2))
    BY <2>2, <2>3, <2>4, Phases DEF Left
  <2>6. Uploaded' /\ JobInv' /\ Done' = Done /\ cpu_pick' # <<>>
    BY <1>1, <1>2, <1>4, <2>1 DEF Uploaded, JobInv, Done
  <2>7. ProductsRight'
    <3>1. \A o \in Todo' : o \in Todo \/ o.op \in {"cpu", "add"}
      BY <2>2, <2>3
    <3> QED
      BY <1>1, <1>2, <1>4, <3>1 DEF ProductsRight, cache
  <2>8. \A o \in Todo' : o.op # "residual"
    BY <2>5, Phases DEF Left
  <2>9. SumComing'
    BY <1>1, <1>2, <2>1, <2>5 DEF TokenInv, GpuComing, SumComing
  <2> QED
    BY <1>1, <1>4, <1>5, <2>1, <2>5, <2>6, <2>7, <2>8, <2>9 DEF TokenInv
<1>9. CASE Residual
  <2> DEFINE o5 == [op |-> "residual", asked |-> wanted]
             r == <<o5>>
  <2>1. /\ queue' = queue \o r /\ pc = "residual"
        /\ pc' = IF block = Blocks THEN "answer" ELSE "route"
        /\ block' = IF block = Blocks THEN block ELSE block + 1
    BY <1>3, <1>9 DEF Residual
  <2>2. o5 \in Ops /\ o5.op = "residual" /\ o5.asked = wanted
    BY DEF Ops, SharesInv
  <2> HIDE DEF o5
  <2>3. r \in Seq(Ops) /\ DOMAIN r = {1} /\ r[1] = o5
    BY <2>2
  <2> HIDE DEF r
  <2>4. Todo' = Todo \cup {o5}
    <3>1. Todo' = Todo \cup {r[i] : i \in DOMAIN r}
      BY <1>3, <2>1, <2>3, TodoAppend
    <3> QED
      BY <2>3, <3>1
  <2>5. \A o \in Todo : Phase(o.op) <= 4 /\ Phase(o.op) \in 1 .. 5 /\ o.op # "residual"
    BY <1>3, <2>1, OpKinds DEF QueueInv, Upto
  <2>6. Left(5)' /\ ~Left(5) /\ \A n \in 2 .. 4 : Left(n)' <=> Left(n)
    BY <2>2, <2>4, <2>5, Phases DEF Left
  <2>7. Uploaded' /\ JobInv'
    BY <1>1, <1>2, <1>4, <2>1 DEF Uploaded, JobInv
  <2>8. ProductsRight'
    <3>1. \A o \in Todo' : o \in Todo \/ o.op = "residual"
      BY <2>2, <2>4
    <3> QED
      BY <1>1, <1>2, <1>4, <3>1 DEF ProductsRight, cache
  <2>9. SumComing'
    BY <1>1, <1>2, <2>1, <2>6 DEF TokenInv, GpuComing, SumComing
  <2>10. Len(h') = Done' - 1
    <3>1. Len(h) = block - 1 /\ block \in Int /\ Blocks \in Int
      BY <1>4, <2>1, <2>6, Shape DEF Done, QueueInv
    <3>2. Done' = block
      BY <2>1, <3>1 DEF Done
    <3> QED
      BY <1>1, <3>1, <3>2
  <2>11. \A o \in Todo' : o.op = "residual" => o.asked = wanted
    BY <2>2, <2>4, <2>5
  <2>12. Left(3)' \/ Left(4)' => cpu_pick # <<>>
    BY <2>6 DEF TokenInv
  <2> QED
    BY <1>1, <1>5, <2>1, <2>6, <2>7, <2>8, <2>9, <2>10, <2>11, <2>12 DEF TokenInv
<1> QED
  BY <1>6, <1>7, <1>8, <1>9

\* Every step brings the sum of the block nearer, or leaves it.
LEMMA TokenKept ==
  ASSUME ConfigAssumption, SumMayFail, BaseInv, FilledInv, SumInv, [Next]_vars
  PROVE  SumInv'
<1>1. CASE pc # "idle" /\ (SkipHost \/ Submit \/ UploadSub \/ Admit \/ Plan \/ SyncOk)
  <2>1. TokenInv' /\ host' # "stray"
    BY <1>1, TokenWaits DEF SumInv
  <2>2. pc' # "idle"
    BY <1>1 DEF SkipHost, Submit, UploadSub, Admit, Plan, SyncOk
  <2> QED
    BY <2>1, <2>2 DEF SumInv
<1>2. CASE Begin \/ Route
  <2>1. TokenInv' /\ host' # "stray"
    BY <1>2, TokenStarts
  <2>2. pc' # "idle"
    BY <1>2 DEF Begin, Route
  <2> QED
    BY <2>1, <2>2 DEF SumInv
<1>3. CASE pc # "idle" /\ (Stage \/ Launch \/ Add \/ Residual)
  <2>1. TokenInv' /\ host' = host
    BY <1>3, TokenGrows DEF SumInv
  <2>2. pc' # "idle"
    BY <1>3 DEF Stage, Launch, Add, Residual
  <2> QED
    BY <2>1, <2>2 DEF SumInv
<1>4. CASE Device
  <2>1. pc' = pc /\ job' = job /\ host' = host
    BY <1>4 DEF Device, HostWaits, cpu
  <2>2. CopiesSucceed
    BY DEF SumMayFail, CopiesSucceed
  <2> QED
    BY <1>4, <2>1, <2>2, TokenRuns DEF SumInv
<1>5. CASE Answer \/ ClearResidency
  <2>1. pc' = "idle" /\ job' = job /\ host' = host /\ job = <<>>
    BY <1>5 DEF Answer, ClearResidency, cpu, SumInv, TokenInv, JobInv
  <2> QED
    BY <2>1 DEF SumInv
<1>6. CASE HostFails
  <2>1. ~lost
    BY DEF FilledInv
  <2>2. SubmitFails \/ SyncFails \/ AddFails
    BY <1>6, <2>1 DEF HostFails, UploadFails, StageFails, LaunchFails, ReportLost, SumMayFail
  <2>3. pc \in {"submit", "add"} => job = <<>>
    BY DEF SumInv, TokenInv, JobInv
  <2> QED
    BY <2>2, <2>3 DEF SubmitFails, SyncFails, AddFails, GiveUp, SumInv
<1>7. CASE UNCHANGED vars
  <2>1. /\ UNCHANGED <<queue, wanted, cpu_pick, pc, block, job, host, cpu_out, occupant>>
        /\ UNCHANGED <<weights, weights_sub, ffn, cpu_ffn, h>>
    BY <1>7 DEF vars, cache, split, cpu, device
  <2>2. /\ Todo' = Todo /\ (\A n \in 1 .. 5 : Left(n)' <=> Left(n))
        /\ GpuWanted' = GpuWanted /\ Owns(GpuWanted)' = Owns(GpuWanted)
        /\ Owns(cpu_pick)' = Owns(cpu_pick)
    BY <2>1, Quiet
  <2>3. Uploaded' = Uploaded /\ JobInv' = JobInv /\ ProductsRight' = ProductsRight /\ Done' = Done
    BY <2>1, <2>2 DEF Uploaded, JobInv, ProductsRight, Done
  <2>4. GpuComing' = GpuComing /\ SumComing' = SumComing
    BY <2>1, <2>2 DEF GpuComing, SumComing
  <2>5. (\A i \in DOMAIN h : Whole(h[i]))' <=> \A i \in DOMAIN h : Whole(h[i])
    BY <2>1 DEF Whole, Own
  <2>6. TokenInv => TokenInv'
    BY <2>1, <2>2, <2>3, <2>4, <2>5 DEF TokenInv
  <2> QED
    BY <2>1, <2>6 DEF SumInv
<1>8. SkipHost \/ Submit \/ UploadSub \/ Admit \/ Plan \/ SyncOk \/ Stage \/ Launch \/ Add \/ Residual
        => pc # "idle"
  BY DEF SkipHost, Submit, UploadSub, Admit, Plan, SyncOk, Stage, Launch, Add, Residual, Planned
<1> QED
  BY <1>1, <1>2, <1>3, <1>4, <1>5, <1>6, <1>7, <1>8 DEF Next, Host

\* When decode returns logits every block has contributed its whole sum, as long as no call fails
\* that leaves a slot half filled or a job that nobody synced.
THEOREM AnswersAreWholeHolds ==
  ConfigAssumption /\ SumMayFail => (Spec => []AnswersAreWhole)
<1> SUFFICES ASSUME ConfigAssumption, SumMayFail
             PROVE  Spec => []AnswersAreWhole
  OBVIOUS
<1> DEFINE I == BaseInv /\ FilledInv /\ SumInv
<1>1. CopiesSucceed
  BY DEF SumMayFail, CopiesSucceed
<1>2. Init => I
  BY InitBase, InitFilled DEF Init, SumInv
<1>3. I /\ [Next]_vars => I'
  BY <1>1, BaseKept, FilledKept, TokenKept
<1>4. I => AnswersAreWhole
  <2> SUFFICES ASSUME I, pc = "answer", Drained
               PROVE  Len(h) = Blocks /\ \A i \in DOMAIN h : Whole(h[i])
    BY DEF AnswersAreWhole
  <2>1. ~Left(5)
    BY DEF Drained, Left, Todo
  <2> QED
    BY <2>1 DEF SumInv, TokenInv, Done
<1> HIDE DEF I
<1> QED
  BY <1>2, <1>3, <1>4, PTL DEF Spec

=============================================================================
