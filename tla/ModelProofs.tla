----------------------------- MODULE ModelProofs -----------------------------
(***************************************************************************)
(* Proofs about the views of Model, for any number of blocks, experts,     *)
(* slots and demands.                                                      *)
(***************************************************************************)
EXTENDS Model, FiniteSetTheorems, WellFoundedInduction, TLAPS

-----------------------------------------------------------------------------
(* The static split: what it plans it keeps until the plan is executed, for *)
(* any shape.                                                              *)

SplitTypes ==
  /\ pinned_filled \in [Split!PinnedSlots -> BOOLEAN]
  /\ ring \in [Split!Positions -> Split!ExpertRefs \cup {NoExpert}]
  /\ ring_next \in Split!Positions
  /\ split_stats \in [steps : Nat, demands : Nat, hits : Nat, misses : Nat, evictions : Nat]
  /\ split_at \in {"none", "serving", "planned", "refused"}
  /\ split_needed \in Seq(Split!ExpertRefs)
  /\ split_next \in 1 .. (Len(split_needed) + 1)
  /\ split_hits \subseteq Split!HitType /\ split_loads \subseteq Split!LoadType

\* Planned and Occupies of StaticSplit, as functions of the state they look at.
InPlan(hs, ls, e, s) == [expert |-> e, slot |-> s] \in hs \/ \E l \in ls : l.expert = e /\ l.slot = s
Found(filled, positions, e, s) ==
  IF Split!Pinned(e) THEN s = Split!PinnedSlot(e) /\ filled[s]
  ELSE s >= Split!RingBase /\ positions[s - Split!RingBase] = e

\* A plan names demands only, each where the device will find it, and every demand served
\* so far is in it.
PlanHolds ==
  /\ \A e, s : InPlan(split_hits, split_loads, e, s) =>
       e \in Split!Distinct(split_needed) /\ Found(pinned_filled, ring, e, s)
  /\ \A i \in 1 .. (split_next - 1) :
       \E s \in Split!Slots : InPlan(split_hits, split_loads, split_needed[i], s)

\* What is being served passed the check of admit.
PlanFits == split_at = "serving" => Split!Streaming(split_needed) <= RingSlots

SplitInv == SplitTypes /\ Split!RingDistinct /\ PlanHolds /\ PlanFits

\* What the assumptions say of the shape.
LEMMA SplitShape ==
  /\ Blocks \in Nat \ {0} /\ NExpert \in Nat \ {0} /\ RingSlots \in Nat \ {0}
  /\ ResidentBlocks \in 0 .. Blocks
  /\ NoExpert \notin Split!ExpertRefs
BY ModelAssumption DEF Split!ShapeAssumption, Split!ExpertRefs

\* Blocks do not overlap: the rows of a smaller block end before a larger one begins.
LEMMA Row ==
  ASSUME NEW n \in Nat, NEW a \in Nat, NEW b \in Nat, a < b
  PROVE  a * n + n <= b * n /\ a * n \in Nat /\ b * n \in Nat
<1>1. PICK d \in Nat : b = a + 1 + d
  <2>1. b - a - 1 \in Nat /\ b = a + 1 + (b - a - 1)
    OBVIOUS
  <2> QED
    BY <2>1
<1>2. (a + 1 + d) * n = a * n + n + d * n /\ a * n \in Nat /\ d * n \in Nat
  OBVIOUS
<1> DEFINE x == a * n
           y == d * n
           z == b * n
<1>3. z = x + n + y /\ x \in Nat /\ y \in Nat
  BY <1>1, <1>2
<1> HIDE DEF x, y, z
<1>4. x + n <= z /\ x \in Nat /\ z \in Nat
  BY <1>3
<1> QED
  BY <1>4 DEF x, z

\* The slots below the split are one for one the experts below it.
LEMMA PinnedPlaces ==
  /\ Split!RingBase \in Nat /\ Split!PinnedSlots = 0 .. (Split!RingBase - 1)
  /\ \A e \in Split!ExpertRefs : Split!Pinned(e) => Split!PinnedSlot(e) \in Split!PinnedSlots
  /\ \A d, e \in Split!ExpertRefs : Split!PinnedSlot(d) = Split!PinnedSlot(e) => d = e
<1> USE SplitShape
<1>1. Split!RingBase \in Nat /\ Split!PinnedSlots = 0 .. (Split!RingBase - 1)
  BY DEF Split!RingBase, Split!PinnedSlots
<1>2. ASSUME NEW e \in Split!ExpertRefs
      PROVE  /\ e[1] \in Nat /\ e[2] \in 0 .. (NExpert - 1) /\ e = <<e[1], e[2]>>
             /\ Split!PinnedSlot(e) = e[1] * NExpert + e[2] /\ e[1] * NExpert \in Nat
  BY DEF Split!ExpertRefs, Split!PinnedSlot
<1>3. ASSUME NEW e \in Split!ExpertRefs, Split!Pinned(e)
      PROVE  Split!PinnedSlot(e) \in Split!PinnedSlots
  <2>1. e[1] < ResidentBlocks /\ ResidentBlocks \in Nat
    BY <1>3 DEF Split!Pinned
  <2>2. e[1] * NExpert + NExpert <= Split!RingBase
    BY <1>2, <2>1, Row DEF Split!RingBase
  <2> DEFINE x == e[1] * NExpert
  <2>3. x \in Nat /\ x + NExpert <= Split!RingBase /\ Split!PinnedSlot(e) = x + e[2]
    BY <1>2, <2>2
  <2>4. e[2] \in 0 .. (NExpert - 1)
    BY <1>2
  <2> HIDE DEF x
  <2>5. x + e[2] \in 0 .. (Split!RingBase - 1)
    BY <1>1, <2>3, <2>4
  <2> QED
    BY <1>1, <2>3, <2>5
<1>4. ASSUME NEW d \in Split!ExpertRefs, NEW e \in Split!ExpertRefs, d[1] < e[1]
      PROVE  Split!PinnedSlot(d) # Split!PinnedSlot(e)
  <2> DEFINE x == d[1] * NExpert
             y == e[1] * NExpert
  <2>1. x + NExpert <= y /\ x \in Nat /\ y \in Nat
    BY <1>2, <1>4, Row
  <2>2. Split!PinnedSlot(d) = x + d[2] /\ Split!PinnedSlot(e) = y + e[2]
    BY <1>2
  <2> HIDE DEF x, y
  <2> QED
    BY <1>2, <2>1, <2>2
<1>5. ASSUME NEW d \in Split!ExpertRefs, NEW e \in Split!ExpertRefs,
             Split!PinnedSlot(d) = Split!PinnedSlot(e)
      PROVE  d = e
  <2>1. d[1] = e[1]
    <3>1. ~(d[1] < e[1]) /\ ~(e[1] < d[1])
      BY <1>4, <1>5
    <3> QED
      BY <1>2, <3>1
  <2> DEFINE x == d[1] * NExpert
  <2>2. x + d[2] = x + e[2] /\ x \in Nat
    BY <1>2, <1>5, <2>1
  <2> HIDE DEF x
  <2>3. d[2] \in Int /\ e[2] \in Int
    BY <1>2
  <2>4. d[2] = e[2]
    <3>1. x \in Nat /\ \A a, b \in Int : x + a = x + b => a = b
      BY <2>2
    <3> QED
      BY <2>2, <2>3, <3>1
  <2> QED
    BY <1>2, <2>1, <2>4
<1> QED
  BY <1>1, <1>3, <1>5

\* No two experts are where the device finds the same slot.
LEMMA OneOccupant ==
  ASSUME SplitTypes, Split!RingDistinct, NEW d \in Split!ExpertRefs, NEW e \in Split!ExpertRefs,
         NEW s \in Split!Slots, Found(pinned_filled, ring, d, s), Found(pinned_filled, ring, e, s)
  PROVE  d = e
<1>1. CASE Split!Pinned(d) /\ Split!Pinned(e)
  BY <1>1, PinnedPlaces DEF Found
<1>2. CASE ~Split!Pinned(d) /\ ~Split!Pinned(e)
  BY <1>2 DEF Found
<1>3. CASE Split!Pinned(d) # Split!Pinned(e)
  <2>1. \A x \in Split!ExpertRefs : Split!Pinned(x) /\ Found(pinned_filled, ring, x, s) => ~(s >= Split!RingBase)
    BY PinnedPlaces DEF Found
  <2> QED
    BY <1>3, <2>1 DEF Found, Split!Pinned
<1> QED
  BY <1>1, <1>2, <1>3 DEF Split!Pinned

\* The library's cardinality, under the name an instance gives it.
LEMMA SplitCardinality == \A S : Split!Cardinality(S) = Cardinality(S)
BY DEF Split!Cardinality, Cardinality

\* A miss above the split finds a position that the step does not need: the others of the
\* ring are its experts, and there are fewer of them left than positions.
LEMMA VictimFound ==
  ASSUME SplitInv, Split!Serving, ~Split!Pinned(Split!Demand), ~Split!Resident(Split!Demand)
  PROVE  \E p \in Split!Positions : ~Split!Needed(p)
<1> DEFINE I == {i \in DOMAIN split_needed : ~Split!Pinned(split_needed[i])}
           J == {i \in I : split_needed[i] # Split!Demand}
<1>1. /\ split_needed \in Seq(Split!ExpertRefs) /\ split_next \in DOMAIN split_needed
      /\ Split!Streaming(split_needed) <= RingSlots
  BY DEF SplitInv, SplitTypes, PlanFits, Split!Serving
<1>2. IsFiniteSet(I) /\ Cardinality(I) <= RingSlots
  <2>1. DOMAIN split_needed = 1 .. Len(split_needed) /\ Len(split_needed) \in Nat
    BY <1>1
  <2>2. IsFiniteSet(DOMAIN split_needed)
    BY <2>1, FS_Interval
  <2>3. IsFiniteSet(I)
    BY <2>2, FS_Subset
  <2>4. Split!Streaming(split_needed) = Cardinality(I)
    BY SplitCardinality DEF Split!Streaming
  <2> HIDE DEF I
  <2> QED
    BY <1>1, <2>3, <2>4
<1>3. J \subseteq I /\ split_next \in I /\ split_next \notin J
  BY <1>1 DEF Split!Demand
<1>4. J \in SUBSET DOMAIN split_needed /\ \A i \in DOMAIN split_needed :
        i \in J <=> ~Split!Pinned(split_needed[i]) /\ split_needed[i] # Split!Demand
  OBVIOUS
<1> HIDE DEF I, J
<1>5. IsFiniteSet(J) /\ Cardinality(J) < RingSlots
  <2>1. IsFiniteSet(J) /\ Cardinality(J) <= Cardinality(I) /\ Cardinality(J) # Cardinality(I)
    BY <1>2, <1>3, FS_Subset
  <2>2. Cardinality(J) \in Nat /\ Cardinality(I) \in Nat /\ RingSlots \in Nat
    BY <1>2, <2>1, FS_CardinalityType, SplitShape
  <2> QED
    BY <1>2, <2>1, <2>2
<1>6. IsFiniteSet(Split!Positions) /\ Cardinality(Split!Positions) = RingSlots
  <2>1. RingSlots \in Nat \ {0} /\ 0 \in Int /\ RingSlots - 1 \in Int /\ ~(0 > RingSlots - 1)
        /\ RingSlots - 1 - 0 + 1 = RingSlots
    BY SplitShape
  <2> QED
    BY <2>1, FS_Interval DEF Split!Positions
<1> SUFFICES ASSUME \A p \in Split!Positions : Split!Needed(p)
             PROVE  FALSE
  OBVIOUS
<1> DEFINE holds == [p \in Split!Positions |-> CHOOSE i \in J : split_needed[i] = ring[p]]
<1>7. ASSUME NEW p \in Split!Positions
      PROVE  \E i \in J : split_needed[i] = ring[p]
  <2>1. PICK i \in DOMAIN split_needed : ring[p] = split_needed[i]
    BY DEF Split!Needed, Split!Distinct
  <2>2. ring[p] # Split!Demand
    BY DEF Split!Resident
  <2>3. ring[p] # NoExpert
    BY <1>1, <2>1, SplitShape
  <2>4. ~Split!Pinned(ring[p])
    BY <2>3 DEF SplitInv, Split!RingDistinct
  <2> QED
    BY <1>4, <2>1, <2>2, <2>4
<1>8. holds \in [Split!Positions -> J] /\ \A p \in Split!Positions : split_needed[holds[p]] = ring[p]
  BY <1>7
<1> HIDE DEF holds
<1>9. PICK p, q \in Split!Positions : p # q /\ holds[p] = holds[q]
  BY <1>5, <1>6, <1>8, FS_PigeonHole
<1>10. ring[p] = ring[q] /\ ring[p] # NoExpert
  <2>1. ring[p] \in Split!ExpertRefs
    BY <1>1, <1>4, <1>8
  <2> QED
    BY <1>8, <1>9, <2>1, SplitShape
<1> QED
  BY <1>9, <1>10 DEF SplitInv, Split!RingDistinct

\* A plan that is empty, or void, says nothing.
LEMMA NothingPlanned ==
  ASSUME SplitInv, NEW ds \in Seq(Split!ExpertRefs), NEW to \in {"none", "serving", "refused"},
         Split!Start(to, ds), to = "serving" => Split!Streaming(ds) <= RingSlots,
         pinned_filled' \in [Split!PinnedSlots -> BOOLEAN],
         ring' \in [Split!Positions -> Split!ExpertRefs \cup {NoExpert}],
         ring_next' \in Split!Positions, Split!RingDistinct',
         split_stats' \in [steps : Nat, demands : Nat, hits : Nat, misses : Nat, evictions : Nat]
  PROVE  SplitInv'
<1>1. /\ split_at' = to /\ split_needed' = ds /\ split_next' = 1
      /\ split_hits' = {} /\ split_loads' = {}
  BY DEF Split!Start
<1>2. Len(ds) \in Nat /\ 1 \in 1 .. (Len(ds) + 1)
  OBVIOUS
<1>3. SplitTypes'
  BY <1>1, <1>2 DEF SplitTypes
<1>4. PlanHolds'
  BY <1>1 DEF PlanHolds, InPlan
<1>5. PlanFits'
  BY <1>1 DEF PlanFits
<1> QED
  BY <1>3, <1>4, <1>5 DEF SplitInv

\* What is being served is one of the demands of the step.
LEMMA DemandType ==
  ASSUME SplitTypes, Split!Serving
  PROVE  /\ Split!Demand \in Split!ExpertRefs /\ split_next \in 1 .. Len(split_needed)
         /\ Split!Demand \in Split!Distinct(split_needed)
         /\ split_next + 1 \in 1 .. (Len(split_needed) + 1)
BY DEF SplitTypes, Split!Serving, Split!Demand, Split!Distinct

\* A demand is served: what was planned is still where it was, and so is the demand.
LEMMA DemandServed ==
  ASSUME SplitInv, Split!Serving, NEW hit, NEW load, Split!Served(hit, load), NEW s \in Split!Slots,
         \/ hit = {[expert |-> Split!Demand, slot |-> s]} /\ load = {}
         \/ /\ hit = {}
            /\ \E v \in Split!ExpertRefs \cup {NoExpert} :
                 load = {[expert |-> Split!Demand, slot |-> s, evicted |-> v]},
         \A e, t : InPlan(split_hits, split_loads, e, t) => Found(pinned_filled', ring', e, t),
         Found(pinned_filled', ring', Split!Demand, s),
         pinned_filled' \in [Split!PinnedSlots -> BOOLEAN],
         ring' \in [Split!Positions -> Split!ExpertRefs \cup {NoExpert}],
         ring_next' \in Split!Positions, Split!RingDistinct',
         split_stats' \in [steps : Nat, demands : Nat, hits : Nat, misses : Nat, evictions : Nat]
  PROVE  SplitInv'
<1> DEFINE d == Split!Demand
<1>1. /\ split_hits' = split_hits \cup hit /\ split_loads' = split_loads \cup load
      /\ split_next' = split_next + 1 /\ UNCHANGED <<split_at, split_needed>>
  BY DEF Split!Served
<1>2. /\ d \in Split!ExpertRefs /\ split_next \in 1 .. Len(split_needed)
      /\ d \in Split!Distinct(split_needed) /\ d = split_needed[split_next]
      /\ split_next + 1 \in 1 .. (Len(split_needed) + 1)
  BY DemandType DEF SplitInv, Split!Demand
<1> HIDE DEF d
<1>3. SplitTypes'
  <2>1. hit \subseteq Split!HitType /\ load \subseteq Split!LoadType
    BY <1>2 DEF d, Split!HitType, Split!LoadType
  <2> QED
    BY <1>1, <1>2, <2>1 DEF SplitInv, SplitTypes
<1>4. \A e, t : InPlan(split_hits', split_loads', e, t) <=> InPlan(split_hits, split_loads, e, t) \/ (e = d /\ t = s)
  <2> SUFFICES ASSUME NEW e, NEW t
               PROVE  InPlan(split_hits', split_loads', e, t) <=> InPlan(split_hits, split_loads, e, t) \/ (e = d /\ t = s)
    OBVIOUS
  <2>1. CASE hit = {[expert |-> d, slot |-> s]} /\ load = {}
    <3>1. split_hits' = split_hits \cup {[expert |-> d, slot |-> s]} /\ split_loads' = split_loads
      BY <1>1, <2>1
    <3>2. [expert |-> e, slot |-> t] = [expert |-> d, slot |-> s] <=> e = d /\ t = s
      OBVIOUS
    <3> QED
      BY <3>1, <3>2 DEF InPlan
  <2>2. ASSUME NEW v, hit = {}, load = {[expert |-> d, slot |-> s, evicted |-> v]}
        PROVE  InPlan(split_hits', split_loads', e, t) <=> InPlan(split_hits, split_loads, e, t) \/ (e = d /\ t = s)
    <3> DEFINE l == [expert |-> d, slot |-> s, evicted |-> v]
    <3>1. l.expert = d /\ l.slot = s
      OBVIOUS
    <3> HIDE DEF l
    <3>2. split_hits' = split_hits /\ split_loads' = split_loads \cup {l}
      BY <1>1, <2>2 DEF l
    <3> QED
      BY <3>1, <3>2 DEF InPlan
  <2> QED
    BY <2>1, <2>2 DEF d
<1>5. PlanHolds'
  <2>1. ASSUME NEW e, NEW t, InPlan(split_hits', split_loads', e, t)
        PROVE  e \in Split!Distinct(split_needed) /\ Found(pinned_filled', ring', e, t)
    BY <1>2, <1>4, <2>1 DEF d, SplitInv, PlanHolds
  <2>2. ASSUME NEW i \in 1 .. (split_next' - 1)
        PROVE  \E t \in Split!Slots : InPlan(split_hits', split_loads', split_needed'[i], t)
    <3>1. CASE i = split_next
      BY <1>1, <1>2, <1>4, <3>1
    <3>2. CASE i # split_next
      <4>1. i \in 1 .. (split_next - 1)
        BY <1>1, <1>2, <3>2
      <4>2. PICK t \in Split!Slots : InPlan(split_hits, split_loads, split_needed[i], t)
        BY <4>1 DEF SplitInv, PlanHolds
      <4> QED
        BY <1>1, <1>4, <4>2
    <3> QED
      BY <3>1, <3>2
  <2> QED
    BY <1>1, <2>1, <2>2 DEF PlanHolds, Split!Slots, Split!Distinct
<1>6. PlanFits'
  BY <1>1 DEF SplitInv, PlanFits, Split!Streaming, Split!Pinned
<1> QED
  BY <1>3, <1>5, <1>6 DEF SplitInv

SplitStats == [steps : Nat, demands : Nat, hits : Nat, misses : Nat, evictions : Nat]

\* The counters stay natural numbers.
LEMMA CountedType ==
  ASSUME SplitTypes, NEW a \in Nat, NEW b \in Nat, NEW c \in Nat, NEW d \in Nat, NEW v \in Nat
  PROVE  Split!Counted(a, b, c, d, v) \in SplitStats
<1>1. /\ split_stats.steps \in Nat /\ split_stats.demands \in Nat /\ split_stats.hits \in Nat
      /\ split_stats.misses \in Nat /\ split_stats.evictions \in Nat
  BY DEF SplitTypes
<1>2. /\ split_stats.steps + a \in Nat /\ split_stats.demands + b \in Nat
      /\ split_stats.hits + c \in Nat /\ split_stats.misses + d \in Nat
      /\ split_stats.evictions + v \in Nat
  BY <1>1
<1> QED
  BY <1>2 DEF Split!Counted, SplitStats

\* A split just built keeps its plan.
LEMMA SplitBegins ==
  ASSUME Split!Init
  PROVE  SplitInv
<1>1. split_stats \in SplitStats
  BY DEF Split!Init, Split!ZeroStats, SplitStats
<1>2. 0 \in Split!Positions
  BY SplitShape DEF Split!Positions
<1>3. SplitTypes
  BY <1>1, <1>2 DEF Split!Init, SplitTypes, SplitStats
<1> QED
  BY <1>3 DEF Split!Init, SplitInv, Split!RingDistinct, PlanHolds, InPlan, PlanFits

\* A miss overwrites a position the step does not need, and so nothing that is planned.
LEMMA RingOverwritten ==
  ASSUME SplitInv, Split!Serving, ~Split!Pinned(Split!Demand), ~Split!Resident(Split!Demand),
         NEW p \in Split!Positions, ~Split!Needed(p), ring' = [ring EXCEPT ![p] = Split!Demand],
         pinned_filled' = pinned_filled
  PROVE  /\ ring' \in [Split!Positions -> Split!ExpertRefs \cup {NoExpert}]
         /\ Split!RingDistinct'
         /\ \A e, t : InPlan(split_hits, split_loads, e, t) => Found(pinned_filled', ring', e, t)
         /\ Found(pinned_filled', ring', Split!Demand, Split!RingBase + p)
         /\ Split!RingBase + p \in Split!Slots
<1> DEFINE d == Split!Demand
<1>0. d \in Split!ExpertRefs /\ ring \in [Split!Positions -> Split!ExpertRefs \cup {NoExpert}]
  BY DemandType DEF SplitInv, SplitTypes
<1> HIDE DEF d
<1>1. /\ ring' \in [Split!Positions -> Split!ExpertRefs \cup {NoExpert}]
      /\ ring'[p] = d /\ \A q \in Split!Positions \ {p} : ring'[q] = ring[q] /\ ring[q] # d
  BY <1>0 DEF d, Split!Resident
<1>2. Split!RingDistinct'
  BY <1>1 DEF d, SplitInv, Split!RingDistinct, Split!Pinned
<1>3. Split!RingBase \in Nat /\ p \in 0 .. (RingSlots - 1) /\ RingSlots \in Nat
  BY PinnedPlaces, SplitShape DEF Split!Positions
<1>4. (Split!RingBase + p) - Split!RingBase = p /\ Split!RingBase + p >= Split!RingBase
      /\ Split!RingBase + p \in Split!Slots
  BY <1>3 DEF Split!Slots
<1>5. Found(pinned_filled', ring', d, Split!RingBase + p)
  <2>1. ~Split!Pinned(d)
    BY DEF d
  <2>2. ring'[(Split!RingBase + p) - Split!RingBase] = d
    BY <1>1, <1>4
  <2> HIDE DEF d
  <2> QED
    <3> DEFINE t == Split!RingBase + p
    <3>1. t >= Split!RingBase /\ ring'[t - Split!RingBase] = d
      BY <1>4, <2>2
    <3> HIDE DEF t
    <3>2. Found(pinned_filled', ring', d, t)
      BY <2>1, <3>1 DEF Found
    <3> QED
      BY <3>2 DEF t
<1>6. ASSUME NEW e, NEW t, InPlan(split_hits, split_loads, e, t)
      PROVE  Found(pinned_filled', ring', e, t)
  <2>1. e \in Split!Distinct(split_needed) /\ Found(pinned_filled, ring, e, t)
    BY <1>6 DEF SplitInv, PlanHolds
  <2>2. CASE Split!Pinned(e)
    BY <2>1, <2>2 DEF Found
  <2>3. CASE ~Split!Pinned(e)
    <3>1. t >= Split!RingBase /\ ring[t - Split!RingBase] = e
      BY <2>1, <2>3 DEF Found
    <3>2. t - Split!RingBase # p
      BY <2>1, <3>1 DEF Split!Needed
    <3>3. ring'[t - Split!RingBase] = ring[t - Split!RingBase]
      <4>1. t \in Split!Slots
        BY <1>6 DEF SplitInv, SplitTypes, InPlan, Split!HitType, Split!LoadType
      <4>2. t - Split!RingBase \in Split!Positions
        BY <1>3, <3>1, <4>1 DEF Split!Slots, Split!Positions
      <4> QED
        BY <1>1, <3>2, <4>2
    <3> QED
      BY <2>3, <3>1, <3>3 DEF Found
  <2> QED
    BY <2>2, <2>3
<1> QED
  BY <1>1, <1>2, <1>4, <1>5, <1>6 DEF d

\* Serving a demand, from either part, keeps the plan and adds the demand to it.
LEMMA SplitServes ==
  ASSUME SplitInv, Split!HitPinned \/ Split!FillPinned \/ Split!HitRing \/ Split!MissRing
  PROVE  SplitInv'
<1> DEFINE d == Split!Demand
<1>1. Split!Serving
  BY DEF Split!HitPinned, Split!FillPinned, Split!HitRing, Split!MissRing
<1>2. d \in Split!ExpertRefs
  BY <1>1, DemandType DEF SplitInv
<1>3. \A a, b \in {0, 1} : Split!Counted(0, 1, a, 1 - a, b) \in SplitStats
  <2>1. \A a \in {0, 1} : a \in Nat /\ 1 - a \in Nat
    OBVIOUS
  <2> QED
    BY <2>1, CountedType DEF SplitInv
<1>4. split_stats' \in SplitStats
  <2>1. Split!Counted(0, 1, 1, 0, 0) \in SplitStats
        /\ \A b \in {0, 1} : Split!Counted(0, 1, 0, 1, b) \in SplitStats
    BY CountedType DEF SplitInv
  <2>2. \A p : (IF ring[p] = NoExpert THEN 0 ELSE 1) \in {0, 1}
    OBVIOUS
  <2> QED
    BY <2>1, <2>2 DEF Split!HitPinned, Split!FillPinned, Split!HitRing, Split!MissRing, Split!Replace
<1>5. \A e, t : InPlan(split_hits, split_loads, e, t) => Found(pinned_filled, ring, e, t)
  BY DEF SplitInv, PlanHolds
<1>6. /\ pinned_filled \in [Split!PinnedSlots -> BOOLEAN] /\ ring_next \in Split!Positions
      /\ ring \in [Split!Positions -> Split!ExpertRefs \cup {NoExpert}] /\ Split!RingDistinct
  BY DEF SplitInv, SplitTypes
<1>7. Split!PinnedSlots \subseteq Split!Slots
  BY PinnedPlaces, SplitShape DEF Split!Slots
<1> HIDE DEF d
<1>8. CASE Split!HitPinned \/ Split!FillPinned
  <2>1. Split!Pinned(d) /\ Split!PinnedSlot(d) \in Split!PinnedSlots /\ Split!PinnedSlot(d) \in Split!Slots
    BY <1>2, <1>7, <1>8, PinnedPlaces DEF d, Split!HitPinned, Split!FillPinned
  <2>2. ring' = ring /\ ring_next' = ring_next /\ Split!RingDistinct'
    BY <1>6, <1>8 DEF Split!HitPinned, Split!FillPinned, Split!RingDistinct, Split!Pinned
  <2>3. CASE Split!HitPinned
    <3>1. pinned_filled' = pinned_filled /\ pinned_filled[Split!PinnedSlot(d)]
          /\ Split!Served({[expert |-> d, slot |-> Split!PinnedSlot(d)]}, {})
      BY <2>1, <2>3 DEF d, Split!HitPinned, Split!Resident
    <3>2. Found(pinned_filled', ring', d, Split!PinnedSlot(d))
      BY <2>1, <3>1 DEF Found
    <3> QED
      BY <1>1, <1>4, <1>5, <1>6, <2>1, <2>2, <3>1, <3>2, DemandServed DEF d, SplitStats
  <2>4. CASE Split!FillPinned
    <3>1. pinned_filled' = [pinned_filled EXCEPT ![Split!PinnedSlot(d)] = TRUE]
          /\ Split!Served({}, {[expert |-> d, slot |-> Split!PinnedSlot(d), evicted |-> NoExpert]})
      BY <2>4 DEF d, Split!FillPinned
    <3>2. pinned_filled' \in [Split!PinnedSlots -> BOOLEAN] /\ pinned_filled'[Split!PinnedSlot(d)]
          /\ \A s \in Split!PinnedSlots : pinned_filled[s] => pinned_filled'[s]
      BY <1>6, <2>1, <3>1
    <3>3. Found(pinned_filled', ring', d, Split!PinnedSlot(d))
      BY <2>1, <3>2 DEF Found
    <3>4. ASSUME NEW e, NEW t, InPlan(split_hits, split_loads, e, t)
          PROVE  Found(pinned_filled', ring', e, t)
      <4>1. Found(pinned_filled, ring, e, t) /\ e \in Split!ExpertRefs
        BY <1>5, <3>4 DEF SplitInv, SplitTypes, InPlan, Split!HitType, Split!LoadType
      <4>2. Split!Pinned(e) => t \in Split!PinnedSlots
        BY <4>1, PinnedPlaces DEF Found
      <4> QED
        BY <2>2, <3>2, <4>1, <4>2 DEF Found
    <3> QED
      <4> DEFINE s == Split!PinnedSlot(d)
                 load == {[expert |-> d, slot |-> s, evicted |-> NoExpert]}
      <4>1. /\ Split!Served({}, load) /\ s \in Split!Slots /\ Found(pinned_filled', ring', d, s)
            /\ \E v \in Split!ExpertRefs \cup {NoExpert} : load = {[expert |-> d, slot |-> s, evicted |-> v]}
        BY <2>1, <3>1, <3>3
      <4>2. /\ ring' \in [Split!Positions -> Split!ExpertRefs \cup {NoExpert}]
            /\ ring_next' \in Split!Positions /\ Split!RingDistinct'
        BY <1>6, <2>2
      <4> HIDE DEF s, load
      <4> QED
        BY <1>1, <1>4, <3>2, <3>4, <4>1, <4>2, DemandServed DEF d, SplitStats
  <2> QED
    BY <1>8, <2>3, <2>4
<1>9. CASE Split!HitRing
  <2>1. PICK p \in Split!Positions :
          ring[p] = d /\ Split!Served({[expert |-> d, slot |-> Split!RingBase + p]}, {})
    BY <1>9 DEF d, Split!HitRing
  <2>2. ~Split!Pinned(d) /\ UNCHANGED <<pinned_filled, ring, ring_next>> /\ Split!RingDistinct'
    BY <1>6, <1>9 DEF d, Split!HitRing, Split!RingDistinct, Split!Pinned
  <2>3. (Split!RingBase + p) - Split!RingBase = p /\ Split!RingBase + p >= Split!RingBase
        /\ Split!RingBase + p \in Split!Slots
    <3>1. Split!RingBase \in Nat /\ p \in 0 .. (RingSlots - 1) /\ RingSlots \in Nat
      BY PinnedPlaces, SplitShape DEF Split!Positions
    <3> QED
      BY <3>1 DEF Split!Slots
  <2>4. Found(pinned_filled', ring', d, Split!RingBase + p)
    <3>1. ring'[(Split!RingBase + p) - Split!RingBase] = d
      BY <2>1, <2>2, <2>3
    <3> QED
      <4> DEFINE t == Split!RingBase + p
      <4>1. t >= Split!RingBase /\ ring'[t - Split!RingBase] = d
        BY <2>3, <3>1
      <4> HIDE DEF t
      <4>2. Found(pinned_filled', ring', d, t)
        BY <2>2, <4>1 DEF Found
      <4> QED
        BY <4>2 DEF t
  <2>5. \A e, t : InPlan(split_hits, split_loads, e, t) => Found(pinned_filled', ring', e, t)
    BY <1>5, <2>2
  <2>6. /\ pinned_filled' \in [Split!PinnedSlots -> BOOLEAN] /\ ring_next' \in Split!Positions
        /\ ring' \in [Split!Positions -> Split!ExpertRefs \cup {NoExpert}]
    BY <1>6, <2>2
  <2> DEFINE s == Split!RingBase + p
             hit == {[expert |-> d, slot |-> s]}
  <2>7. Split!Served(hit, {}) /\ s \in Split!Slots /\ Found(pinned_filled', ring', d, s)
        /\ hit = {[expert |-> d, slot |-> s]}
    BY <2>1, <2>3, <2>4
  <2> HIDE DEF s, hit
  <2> QED
    BY <1>1, <1>4, <2>2, <2>5, <2>6, <2>7, DemandServed DEF d, SplitStats
<1>10. CASE Split!MissRing
  <2>1. PICK p \in Split!Positions : Split!NextVictim(p) /\ Split!Replace(p)
    BY <1>10 DEF Split!MissRing
  <2>2. /\ ~Split!Pinned(d) /\ ~Split!Resident(d) /\ ~Split!Needed(p)
        /\ pinned_filled' = pinned_filled /\ ring' = [ring EXCEPT ![p] = d]
        /\ ring_next' = (p + 1) % RingSlots
        /\ Split!Served({}, {[expert |-> d, slot |-> Split!RingBase + p, evicted |-> ring[p]]})
    BY <1>10, <2>1 DEF d, Split!MissRing, Split!NextVictim, Split!Replace
  <2>3. ring_next' \in Split!Positions
    BY <2>2, SplitShape DEF Split!Positions
  <2>4. ring[p] \in Split!ExpertRefs \cup {NoExpert}
    BY <1>6
  <2>5. /\ ring' \in [Split!Positions -> Split!ExpertRefs \cup {NoExpert}]
        /\ Split!RingDistinct'
        /\ \A e, t : InPlan(split_hits, split_loads, e, t) => Found(pinned_filled', ring', e, t)
        /\ Found(pinned_filled', ring', d, Split!RingBase + p)
        /\ Split!RingBase + p \in Split!Slots
    BY <1>1, <2>2, RingOverwritten DEF d
  <2> DEFINE s == Split!RingBase + p
             load == {[expert |-> d, slot |-> s, evicted |-> ring[p]]}
  <2>6. Split!Served({}, load) /\ s \in Split!Slots /\ Found(pinned_filled', ring', d, s)
        /\ \E v \in Split!ExpertRefs \cup {NoExpert} : load = {[expert |-> d, slot |-> s, evicted |-> v]}
    BY <2>2, <2>4, <2>5
  <2>7. pinned_filled' \in [Split!PinnedSlots -> BOOLEAN]
    BY <1>6, <2>2
  <2> HIDE DEF s, load
  <2> QED
    BY <1>1, <1>4, <2>3, <2>5, <2>6, <2>7, DemandServed DEF d, SplitStats
<1> QED
  BY <1>8, <1>9, <1>10

\* Every step of the split keeps it.
LEMMA SplitKeeps ==
  ASSUME SplitInv, [Split!Next]_split
  PROVE  SplitInv'
<1>1. ASSUME NEW ds \in Split!Demands, Split!Admit(ds) \/ Split!Refuse(ds)
      PROVE  SplitInv'
  <2>1. ds \in Seq(Split!ExpertRefs)
    BY DEF Split!Demands, Split!ExpertRefs
  <2>2. Split!Counted(1, 0, 0, 0, 0) \in SplitStats
    BY CountedType DEF SplitInv
  <2>3. split_stats' \in SplitStats /\ UNCHANGED <<pinned_filled, ring, ring_next>>
    BY <1>1, <2>2 DEF Split!Admit, Split!Refuse, Split!policy, SplitInv, SplitTypes, SplitStats
  <2>4. Split!RingDistinct'
    BY <2>3 DEF SplitInv, Split!RingDistinct, Split!Pinned
  <2>5. \/ Split!Start("serving", ds) /\ Split!Streaming(ds) <= RingSlots
        \/ Split!Start("refused", ds)
    BY <1>1 DEF Split!Admit, Split!Refuse
  <2> QED
    BY <2>1, <2>3, <2>4, <2>5, NothingPlanned DEF SplitInv, SplitTypes, SplitStats
<1>2. CASE Split!Return
  <2>1. split_at' = "planned" /\ UNCHANGED <<pinned_filled, ring, ring_next, split_stats,
                                             split_needed, split_next, split_hits, split_loads>>
    BY <1>2 DEF Split!Return, Split!policy
  <2> QED
    BY <2>1 DEF SplitInv, SplitTypes, Split!RingDistinct, Split!Pinned, PlanHolds, PlanFits
<1>3. CASE Split!ResetStats
  <2>1. split_stats' \in SplitStats
        /\ UNCHANGED <<pinned_filled, ring, ring_next, split_at, split_needed, split_next,
                       split_hits, split_loads>>
    BY <1>3 DEF Split!ResetStats, Split!call, Split!ZeroStats, SplitStats
  <2> QED
    BY <2>1 DEF SplitInv, SplitTypes, Split!RingDistinct, Split!Pinned, PlanHolds, PlanFits,
                Split!Streaming, SplitStats
<1>4. CASE Split!Clear
  <2>1. split_stats' \in SplitStats
    BY <1>4 DEF Split!Clear, Split!ZeroStats, SplitStats
  <2>2. ring' = [p \in Split!Positions |-> NoExpert] /\ ring_next' = 0
        /\ pinned_filled' = [s \in Split!PinnedSlots |-> FALSE] /\ Split!Start("none", <<>>)
    BY <1>4 DEF Split!Clear
  <2>3. Split!RingDistinct' /\ ring_next' \in Split!Positions
    BY <2>2, SplitShape DEF Split!RingDistinct, Split!Positions
  <2>4. <<>> \in Seq(Split!ExpertRefs)
    OBVIOUS
  <2> QED
    BY <2>1, <2>2, <2>3, <2>4, NothingPlanned DEF SplitStats
<1>5. CASE UNCHANGED split
  <2>1. UNCHANGED <<pinned_filled, ring, ring_next, split_stats, split_at, split_needed,
                    split_next, split_hits, split_loads>>
    BY <1>5 DEF split
  <2> QED
    BY <2>1 DEF SplitInv, SplitTypes, Split!RingDistinct, Split!Pinned, PlanHolds, PlanFits,
                Split!Streaming
<1> QED
  BY <1>1, <1>2, <1>3, <1>4, <1>5, SplitServes DEF Split!Next

\* The invariant gives what the runs check.
LEMMA SplitSays ==
  ASSUME SplitInv
  PROVE  SplitPlanKept
<1>1. Split!TypeOK
  BY DEF SplitInv, SplitTypes, Split!TypeOK, Split!ZeroStats
<1>2. \A e, s : /\ Split!Planned(e, s) <=> InPlan(split_hits, split_loads, e, s)
                /\ Split!Occupies(e, s) <=> Found(pinned_filled, ring, e, s)
  BY DEF Split!Planned, InPlan, Split!Occupies, Found
<1>3. Split!PinnedKept
  <2>1. ASSUME NEW i \in 1 .. (split_next - 1)
        PROVE  /\ \E s \in Split!Slots : Split!Planned(split_needed[i], s)
               /\ \A s \in Split!Slots : Split!Planned(split_needed[i], s) =>
                                           Split!Occupies(split_needed[i], s)
    BY <1>2 DEF SplitInv, PlanHolds
  <2>2. ASSUME NEW s \in Split!Slots, NEW d \in Split!Distinct(split_needed),
               NEW e \in Split!Distinct(split_needed), Split!Planned(d, s), Split!Planned(e, s)
        PROVE  d = e
    <3>1. d \in Split!ExpertRefs /\ e \in Split!ExpertRefs
      BY DEF SplitInv, SplitTypes, Split!Distinct
    <3>2. Found(pinned_filled, ring, d, s) /\ Found(pinned_filled, ring, e, s)
      BY <1>2, <2>2 DEF SplitInv, PlanHolds
    <3> QED
      BY <3>1, <3>2, OneOccupant DEF SplitInv
  <2> QED
    BY <2>1, <2>2 DEF Split!PinnedKept
<1>4. Split!VictimExists
  BY VictimFound DEF Split!VictimExists
<1> QED
  BY <1>1, <1>3, <1>4 DEF SplitPlanKept, SplitInv

\* The static split keeps its plan in whichever view it is: only its own actions touch it.
THEOREM SplitPlanKeptHolds == ModelSpec => []SplitPlanKept
<1>1. ModelInit => SplitInv
  BY SplitBegins DEF ModelInit, AdmissionInit
<1>2. SplitInv /\ [ModelNext]_<<view, policy, vars, split, decoding, loading>> => SplitInv'
  <2> SUFFICES ASSUME SplitInv, [ModelNext]_<<view, policy, vars, split, decoding, loading>>
               PROVE  SplitInv'
    OBVIOUS
  <2>1. Split!Next \/ UNCHANGED split
    BY DEF ModelNext, AdmissionNext
  <2> QED
    BY <2>1, SplitKeeps
<1>3. SplitInv => SplitPlanKept
  BY SplitSays
<1> QED
  BY <1>1, <1>2, <1>3, PTL DEF ModelSpec

-----------------------------------------------------------------------------
(* Decode, as Model runs it.  What DecodeProofs proves of every decode is   *)
(* said again of the decode of this model: D and DP are two instances of    *)
(* the same definitions, with the same constants and variables.             *)

DP == INSTANCE DecodeProofs WITH
  Blocks <- DecodeBlocks, Capacity <- DecodeCapacity, MaxClock <- DecodeClock,
  MaxSteps <- DecodeSteps, occupant <- d_occupant, slot_of <- d_slot_of,
  last_used <- d_last_used, clock <- d_clock, stats <- d_stats, at <- d_at,
  needed <- d_needed, next <- d_next, hits <- d_hits, loads <- d_loads

\* What is read off the state.
LEMMA SameState ==
  /\ D!ExpertRefs = DP!ExpertRefs /\ D!Cache!Slots = DP!Cache!Slots
  /\ D!Cache!NoSlot = DP!Cache!NoSlot /\ D!Banks = DP!Banks /\ D!GpuWanted = DP!GpuWanted
  /\ D!Drained = DP!Drained /\ D!Planned = DP!Planned /\ D!Cache!Resident = DP!Cache!Resident
BY DEF D!ExpertRefs, DP!ExpertRefs, D!Cache!Slots, DP!Cache!Slots, D!Cache!NoSlot, DP!Cache!NoSlot,
   D!Banks, DP!Banks, D!GpuWanted, DP!GpuWanted, D!Keep, DP!Keep, D!Rank, DP!Rank, D!InSeq, DP!InSeq,
   D!Cardinality, DP!Cardinality, D!Drained, DP!Drained, D!Planned, DP!Planned,
   D!Cache!Resident, DP!Cache!Resident

\* The two instances begin alike.
LEMMA SameInit == D!Init => DP!Init
BY SameState DEF D!Init, DP!Init, D!Cache!Init, DP!Cache!Init, D!Cache!ZeroStats, DP!Cache!ZeroStats

\* The calls decode makes of the cache.
LEMMA SameCache ==
  /\ D!Admit => DP!Admit
  /\ D!Plan => DP!Plan
  /\ D!ClearResidency => DP!ClearResidency
<1> USE SameState DEF D!cache, DP!cache, D!split, DP!split, D!cpu, DP!cpu, D!device, DP!device,
        D!Cache!Serving, DP!Cache!Serving, D!Cache!Demand, DP!Cache!Demand,
        D!Cache!Counted, DP!Cache!Counted, D!Cache!Cardinality, DP!Cache!Cardinality
<1>1. D!Admit => DP!Admit
  BY DEF D!Admit, DP!Admit, D!Cache!Admit, DP!Cache!Admit, D!Cache!Distinct, DP!Cache!Distinct,
     D!Cache!Start, DP!Cache!Start
<1>2. D!Cache!Hit => DP!Cache!Hit
  BY DEF D!Cache!Hit, DP!Cache!Hit
<1>3. D!Cache!MissFree => DP!Cache!MissFree
  BY DEF D!Cache!MissFree, DP!Cache!MissFree, D!Cache!FirstEmpty, DP!Cache!FirstEmpty,
     D!Cache!Empty, DP!Cache!Empty, D!Cache!Load, DP!Cache!Load
<1>4. D!Cache!MissEvict => DP!Cache!MissEvict
  BY DEF D!Cache!MissEvict, DP!Cache!MissEvict, D!Cache!LruVictim, DP!Cache!LruVictim,
     D!Cache!Empty, DP!Cache!Empty, D!Cache!Load, DP!Cache!Load, D!Cache!Distinct, DP!Cache!Distinct
<1>5. D!Cache!Return => DP!Cache!Return
  BY DEF D!Cache!Return, DP!Cache!Return, D!Cache!cache, DP!Cache!cache
<1>6. D!Plan => DP!Plan
  BY <1>2, <1>3, <1>4, <1>5 DEF D!Plan, DP!Plan, D!Cache!Serve, DP!Cache!Serve
<1>7. D!ClearResidency => DP!ClearResidency
  BY DEF D!ClearResidency, DP!ClearResidency, D!Cache!Clear, DP!Cache!Clear, D!Cache!ResetStats,
     DP!Cache!ResetStats, D!Cache!ZeroStats, DP!Cache!ZeroStats, D!Cache!Start, DP!Cache!Start,
     D!Cache!call, DP!Cache!call
<1> QED
  BY <1>1, <1>6, <1>7

\* They route alike, over the same picks of the router.
LEMMA SameRoute == D!Route => DP!Route
BY DEF D!Route, DP!Route, D!Drained, DP!Drained, D!RouterPicks, DP!RouterPicks, D!Misses, DP!Misses,
   D!FirstMisses, DP!FirstMisses, D!Keep, DP!Keep, D!Rank, DP!Rank, D!Cache!Resident,
   DP!Cache!Resident, D!Cache!NoSlot, DP!Cache!NoSlot, D!ExpertRefs, DP!ExpertRefs, D!cache, DP!cache,
   D!cpu, DP!cpu, D!Cardinality, DP!Cardinality

\* The host thread.
LEMMA SameHost == D!Host \/ D!Begin => DP!Host \/ DP!Begin
<1> USE SameState DEF D!cache, DP!cache, D!split, DP!split, D!cpu, DP!cpu, D!device, DP!device
<1>1. D!Begin => DP!Begin
  BY DEF D!Begin, DP!Begin
<1>2. D!Route => DP!Route
  BY SameRoute
<1>3. (D!SkipHost => DP!SkipHost) /\ (D!Submit => DP!Submit) /\ (D!UploadSub => DP!UploadSub)
  BY DEF D!SkipHost, DP!SkipHost, D!Submit, DP!Submit, D!UploadSub, DP!UploadSub
<1>4. D!Stage => DP!Stage
  BY DEF D!Stage, DP!Stage, D!NextLoad, DP!NextLoad, D!Copies, DP!Copies
<1>5. D!Launch => DP!Launch
  BY DEF D!Launch, DP!Launch, D!Products, DP!Products, D!SlotFor, DP!SlotFor, D!Cache!Planned,
     DP!Cache!Planned
<1>6. D!SyncOk => DP!SyncOk
  BY DEF D!SyncOk, DP!SyncOk, D!Owns, DP!Owns, D!Own, DP!Own
<1>7. (D!Add => DP!Add) /\ (D!Residual => DP!Residual) /\ (D!Answer => DP!Answer)
  BY DEF D!Add, DP!Add, D!Residual, DP!Residual, D!Answer, DP!Answer
<1>8. D!HostFails => DP!HostFails
  <2> USE DEF D!GiveUp, DP!GiveUp, D!NothingMore, DP!NothingMore, D!Finish, DP!Finish,
              D!FinishFails, DP!FinishFails
  <2>1. (D!SubmitFails => DP!SubmitFails) /\ (D!UploadFails => DP!UploadFails)
    BY DEF D!SubmitFails, DP!SubmitFails, D!UploadFails, DP!UploadFails
  <2>2. D!StageFails => DP!StageFails
    BY DEF D!StageFails, DP!StageFails, D!NextLoad, DP!NextLoad, D!Copies, DP!Copies
  <2>3. (D!LaunchFails => DP!LaunchFails) /\ (D!SyncFails => DP!SyncFails)
    BY DEF D!LaunchFails, DP!LaunchFails, D!SyncFails, DP!SyncFails
  <2>4. (D!AddFails => DP!AddFails) /\ (D!ReportLost => DP!ReportLost)
    BY DEF D!AddFails, DP!AddFails, D!ReportLost, DP!ReportLost
  <2> QED
    BY <2>1, <2>2, <2>3, <2>4 DEF D!HostFails, DP!HostFails
<1> QED
  BY <1>1, <1>2, <1>3, <1>4, <1>5, <1>6, <1>7, <1>8, SameCache DEF D!Host, DP!Host

\* They step alike.
LEMMA SameNext == [D!Next]_(D!vars) => [DP!Next]_(DP!vars)
<1>1. D!Device => DP!Device
  BY SameState DEF D!cache, DP!cache, D!split, DP!split, D!cpu, DP!cpu, D!Device, DP!Device, D!HostWaits, DP!HostWaits, D!Executes, DP!Executes, D!Op, DP!Op,
     D!DoCopy, DP!DoCopy, D!CopyFails, DP!CopyFails, D!DoExperts, DP!DoExperts, D!DoZero, DP!DoZero,
     D!DoCpu, DP!DoCpu, D!DoAdd, DP!DoAdd, D!DoResidual, DP!DoResidual
<1>2. UNCHANGED D!vars => UNCHANGED DP!vars
  BY DEF D!vars, DP!vars, D!cache, DP!cache, D!split, DP!split, D!cpu, DP!cpu, D!device, DP!device
<1> QED
  BY <1>1, <1>2, SameHost, SameCache DEF D!Next, DP!Next

\* Whatever view a behaviour of Model is of, its decode is a decode.
LEMMA DecodeSpec == ModelSpec => DP!Spec
<1>1. ModelInit => DP!Init
  BY SameInit DEF ModelInit
<1>2. [ModelNext]_<<view, policy, vars, split, decoding, loading>> => [DP!Next]_(DP!vars)
  <2> SUFFICES ASSUME [ModelNext]_<<view, policy, vars, split, decoding, loading>>
               PROVE  [D!Next]_(D!vars)
    BY SameNext
  <2>1. UNCHANGED decoding => UNCHANGED D!vars
    BY DEF decoding, D!vars, D!cache, D!split, D!cpu, D!device
  <2> QED
    BY <2>1 DEF ModelNext
<1> QED
  BY <1>1, <1>2, PTL DEF ModelSpec, DP!Spec

\* The configuration the model assumes is the one DecodeProofs assumes.
LEMMA SameAssumption == DP!ConfigAssumption
BY ModelAssumption DEF D!ConfigAssumption, DP!ConfigAssumption, D!Cardinality, DP!Cardinality,
   D!IsFiniteSet, DP!IsFiniteSet

\* "cpu_out stays alive and unmodified until the copy runs": whichever calls fail, sync writes it
\* only when no copy of it is queued.
THEOREM CpuOutStableHolds == ModelSpec => CpuOutStable
<1>1. DP!Spec => DP!CpuOutStable
  BY SameAssumption, DP!CpuOutStableHolds
<1> DEFINE A == cpu_out' # cpu_out => \A i \in DOMAIN queue : queue[i].op # "cpu"
<1>2. [A]_(DP!vars) => [A]_(D!vars)
  BY DEF D!vars, DP!vars, D!cache, DP!cache, D!split, DP!split, D!cpu, DP!cpu, D!device, DP!device
<1> QED
  BY <1>1, <1>2, DecodeSpec, PTL DEF CpuOutStable, D!CpuOutStable, DP!CpuOutStable

\* What the cache calls resident between tokens is in all three banks of its slot, whichever other
\* calls fail than the copies of a load.
THEOREM ResidentIsFilledHolds ==
  "stage" \notin FailAt /\ "copy" \notin FailAt => (ModelSpec => []ResidentIsFilled)
<1> SUFFICES ASSUME "stage" \notin FailAt, "copy" \notin FailAt
             PROVE  ModelSpec => []ResidentIsFilled
  OBVIOUS
<1>1. DP!CopiesSucceed
  BY DEF DP!CopiesSucceed
<1>2. DP!Spec => []DP!ResidentIsFilled
  BY <1>1, SameAssumption, DP!ResidentIsFilledHolds
<1>3. DP!ResidentIsFilled => ResidentIsFilled
  BY SameState DEF ResidentIsFilled, D!ResidentIsFilled, DP!ResidentIsFilled
<1> QED
  BY <1>2, <1>3, DecodeSpec, PTL

\* When decode returns logits every block has contributed its whole sum: each expert the router
\* named once, its own three matrices, its own weight.
THEOREM AnswersAreWholeHolds ==
  FailAt \subseteq {"submit", "sync", "add"} => (ModelSpec => []AnswersAreWhole)
<1> SUFFICES ASSUME FailAt \subseteq {"submit", "sync", "add"}
             PROVE  ModelSpec => []AnswersAreWhole
  OBVIOUS
<1>1. DP!SumMayFail
  BY DEF DP!SumMayFail
<1>2. DP!Spec => []DP!AnswersAreWhole
  BY <1>1, SameAssumption, DP!AnswersAreWholeHolds
<1>3. DP!AnswersAreWhole => AnswersAreWhole
  BY SameState DEF AnswersAreWhole, D!AnswersAreWhole, DP!AnswersAreWhole, D!Whole, DP!Whole,
     D!Own, DP!Own
<1> QED
  BY <1>2, <1>3, DecodeSpec, PTL

-----------------------------------------------------------------------------
(* The load: what is kept of the header from stage to stage.               *)

LoadInv ==
  /\ disk \in Files \cup Replacements /\ header \in Files \cup Replacements
  /\ mapped \in Files \cup Replacements
  /\ stage \in {"map", "config", "upload", "admit", "allocate", "host", "ready"} =>
       L!Reads(header)
  /\ stage \in {"config", "upload", "admit", "allocate", "host", "ready"} =>
       header.size <= mapped.size
  /\ stage \in {"upload", "admit", "allocate", "host", "ready"} => L!Configures(header)
  /\ stage \in {"admit", "allocate", "host", "ready"} => l_weights = L!Uploaded(header)
  /\ stage = "ready" /\ l_host # "off" =>
       /\ l_host = IF L!HasExpertBias(header) THEN "biased" ELSE "plain"
       /\ L!HostTakes(header)

\* A number of a header is a number.
LEMMA NumberType ==
  ASSUME NEW f \in Files \cup Replacements, NEW k, L!IsNumber(f, k)
  PROVE  L!Number(f, k) \in Nat
<1>1. f.keys[k].of \in Seq(Nat) /\ f.keys[k].of # <<>>
  BY ModelAssumption DEF L!LoadAssumption, L!IsNumber
<1> QED
  BY <1>1 DEF L!Number

\* Every stage goes by the same header.
LEMMA LoadStepKeeps == LoadInv /\ [L!LoadNext]_loading => LoadInv'
<1> SUFFICES ASSUME LoadInv, [L!LoadNext]_loading PROVE LoadInv'
  OBVIOUS
<1>1. CASE UNCHANGED loading
  BY <1>1 DEF LoadInv, loading
<1>2. CASE L!Replace
  BY <1>2 DEF LoadInv, L!Replace
<1>3. CASE L!Read
  BY <1>3 DEF LoadInv, L!Read
<1>4. CASE L!Map
  BY <1>4 DEF LoadInv, L!Map
<1>5. CASE L!Configure
  BY <1>5 DEF LoadInv, L!Configure
<1>6. CASE L!Upload
  BY <1>6 DEF LoadInv, L!Upload
<1>7. CASE L!Admit
  BY <1>7 DEF LoadInv, L!Admit
<1>8. CASE L!Allocate
  BY <1>8 DEF LoadInv, L!Allocate
<1>9. CASE L!Attach
  BY <1>9 DEF LoadInv, L!Attach
<1>10. CASE L!LoadFails
  BY <1>10 DEF LoadInv, L!LoadFails
<1>11. CASE L!Unload
  BY <1>11 DEF LoadInv, L!Unload
<1> QED
  BY <1>1, <1>2, <1>3, <1>4, <1>5, <1>6, <1>7, <1>8, <1>9, <1>10, <1>11 DEF L!LoadNext

\* The executor is told by the header's first block, and looks at the biases of each.
LEMMA HostIsTold == LoadInv => HostBiasesAreTheDevices
<1> SUFFICES ASSUME LoadInv, stage = "ready", NEW b \in L!BlockIds(header)
             PROVE  /\ l_host = "biased" =>
                         /\ l_weights.biased[b] = L!Banks
                         /\ \A bank \in L!Banks :
                              L!View(header, b, L!BiasName(bank)).len
                                = L!BiasBytes(header, b, bank)
                    /\ l_host = "plain" /\ b = 0 =>
                         l_weights.biased[b] \subseteq {"ffn_down_exps"}
  BY DEF HostBiasesAreTheDevices, L!HostBiasesAreTheDevices
<1>1. l_weights.biased[b] = L!Biased(header, b)
  BY DEF LoadInv, L!Uploaded
<1>2. ASSUME l_host = "biased"
      PROVE  /\ l_weights.biased[b] = L!Banks
             /\ \A bank \in L!Banks :
                  L!View(header, b, L!BiasName(bank)).len = L!BiasBytes(header, b, bank)
  <2>1. L!HostBiases(header, b) /\ L!HostBanks(header, b)
    BY <1>2 DEF LoadInv, L!HostTakes
  <2>2. l_weights.biased[b] = L!Banks
    BY <1>1, <2>1 DEF L!Biased, L!HostBiases, L!HostBias
  <2>3. ASSUME NEW bank \in L!Banks
        PROVE  L!View(header, b, L!BiasName(bank)).len = L!BiasBytes(header, b, bank)
    <3>1. CASE bank = "ffn_gate_exps"
      BY <2>1, <3>1 DEF L!HostBiases, L!HostBias, L!HostBanks, L!HostBank, L!BiasName,
         L!BiasBytes
    <3>2. CASE bank = "ffn_up_exps"
      BY <2>1, <3>2 DEF L!HostBiases, L!HostBias, L!HostBanks, L!HostBank, L!BiasName,
         L!BiasBytes
    <3>3. CASE bank = "ffn_down_exps"
      BY <2>1, <3>3 DEF L!HostBiases, L!HostBias, L!HostBanks, L!HostBank, L!BiasName,
         L!BiasBytes
    <3> QED
      BY <2>3, <3>1, <3>2, <3>3 DEF L!Banks
  <2> QED
    BY <2>2, <2>3
<1>3. ASSUME l_host = "plain", b = 0
      PROVE  l_weights.biased[b] \subseteq {"ffn_down_exps"}
  <2>1. ~L!Has(header, 0, "ffn_gate_exps.bias")
    BY <1>3 DEF LoadInv, L!HasExpertBias
  <2> QED
    BY <1>1, <1>3, <2>1 DEF L!Biased
<1> QED
  BY <1>2, <1>3

\* The inductive invariant of a load: what each stage has is of the one header that was read.
THEOREM LoadInvariant == ModelSpec => []LoadInv
<1>1. ModelInit => LoadInv
  BY DEF ModelInit, L!LoadInit, LoadInv
<1>2. LoadInv /\ [ModelNext]_<<view, policy, vars, split, decoding, loading>> => LoadInv'
  BY LoadStepKeeps DEF ModelNext
<1> QED
  BY <1>1, <1>2, PTL DEF ModelSpec

\* What a host adds that was told of biases, the device adds in every block, however much the
\* blocks differ, whatever files are loaded, replaced and loaded again.
THEOREM HostBiasesAreTheDevicesHolds == ModelSpec => []HostBiasesAreTheDevices
<1>1. LoadInv => HostBiasesAreTheDevices
  BY HostIsTold
<1> QED
  BY <1>1, LoadInvariant, PTL

-----------------------------------------------------------------------------
(* The load: the bytes handed out as an expert's are its own.              *)

Before == {p \in Nat \X Nat : p[1] < p[2]}

\* A set of natural numbers that is not empty has a least element.
LEMMA LeastOf ==
  ASSUME NEW set \in SUBSET Nat, set # {}
  PROVE  \E m \in set : \A k \in set : m <= k
<1>1. OpToRel(<, Nat) = Before
  BY DEF OpToRel, Before
<1>2. IsWellFoundedOn(Before, Nat)
  BY <1>1, NatLessThanWellFounded
<1>3. PICK m \in set : \A k \in set : ~(<<k, m>> \in Before)
  BY <1>2, WFMin
<1>4. ASSUME NEW k \in set PROVE m <= k
  <2>1. k \in Nat /\ m \in Nat /\ <<k, m>> \in Nat \X Nat
    OBVIOUS
  <2>2. ~(k < m)
    BY <1>3, <2>1 DEF Before
  <2> QED
    BY <2>1, <2>2
<1> QED
  BY <1>4

\* What holds of 0, and of a number's successor when it holds of the number, holds of all.
LEMMA Ladder ==
  ASSUME NEW set, 0 \in set, \A n \in Nat : n \in set => n + 1 \in set
  PROVE  Nat \subseteq set
<1> DEFINE out == Nat \ set
<1>1. SUFFICES ASSUME out # {} PROVE FALSE
  OBVIOUS
<1>2. PICK m \in out : \A k \in out : m <= k
  BY <1>1, LeastOf
<1>3. m # 0 /\ m - 1 \in Nat
  BY <1>2
<1>4. m - 1 \in set
  BY <1>2, <1>3
<1> QED
  BY <1>2, <1>3, <1>4

\* A product of sizes is a number, and the true product unless it saturated.
LEMMA TimesType ==
  ASSUME NEW a \in Nat, NEW b \in Nat, MaxU \in Nat
  PROVE  L!Times(a, b) \in Nat /\ (L!Times(a, b) < MaxU => L!Times(a, b) = a * b)
<1>1. a * b \in Nat
  OBVIOUS
<1> QED
  BY <1>1 DEF L!Times, L!Saturated

\* The products of the first dimensions, up to n of them.
Multiplies(p, dims, n) ==
  p = [i \in 0 .. n |-> IF i = 0 THEN 1 ELSE L!Times(p[i - 1], dims[i])]

\* The products of the first dimensions, one after the other, are a function there is.
LEMMA ProductsExist ==
  ASSUME NEW dims \in Seq(Nat), MaxU \in Nat
  PROVE  \E p \in [0 .. Len(dims) -> Nat] : Multiplies(p, dims, Len(dims))
<1> DEFINE n == Len(dims)
           reach == {k \in Nat : k <= n => \E p \in [0 .. k -> Nat] : Multiplies(p, dims, k)}
<1>1. 0 \in reach
  <2>1. /\ [i \in 0 .. 0 |-> 1] \in [0 .. 0 -> Nat]
        /\ Multiplies([i \in 0 .. 0 |-> 1], dims, 0)
    BY DEF Multiplies
  <2> QED
    BY <2>1
<1>2. ASSUME NEW k \in Nat, k \in reach PROVE k + 1 \in reach
  <2>1. SUFFICES ASSUME k + 1 <= n
                 PROVE  \E p \in [0 .. (k + 1) -> Nat] : Multiplies(p, dims, k + 1)
    OBVIOUS
  <2>2. PICK p \in [0 .. k -> Nat] : Multiplies(p, dims, k)
    BY <1>2, <2>1
  <2> DEFINE q == [i \in 0 .. (k + 1) |-> IF i <= k THEN p[i] ELSE L!Times(p[k], dims[i])]
  <2>3. q \in [0 .. (k + 1) -> Nat]
    <3>1. k + 1 \in 1 .. n /\ p[k] \in Nat
      BY <2>1, <2>2
    <3>2. dims[k + 1] \in Nat
      BY <3>1
    <3>3. L!Times(p[k], dims[k + 1]) \in Nat
      BY <3>1, <3>2, TimesType
    <3>4. \A i \in 0 .. (k + 1) : i <= k \/ i = k + 1
      OBVIOUS
    <3> QED
      BY <2>2, <3>3, <3>4
  <2>4. ASSUME NEW i \in 0 .. (k + 1)
        PROVE  q[i] = IF i = 0 THEN 1 ELSE L!Times(q[i - 1], dims[i])
    <3>1. CASE i = k + 1
      BY <3>1
    <3>2. CASE i <= k
      <4>1. q[i] = p[i] /\ (i # 0 => q[i - 1] = p[i - 1])
        BY <3>2
      <4>2. p[i] = IF i = 0 THEN 1 ELSE L!Times(p[i - 1], dims[i])
        BY <2>2, <3>2 DEF Multiplies
      <4> QED
        BY <4>1, <4>2
    <3> QED
      BY <3>1, <3>2
  <2>5. Multiplies(q, dims, k + 1)
    BY <2>4 DEF Multiplies
  <2> QED
    BY <2>3, <2>5
<1>3. n \in reach
  <2> HIDE DEF reach
  <2> QED
    BY <1>1, <1>2, Ladder
<1> QED
  BY <1>3

\* Elements is the last of the products.
LEMMA ElementsIs ==
  ASSUME NEW dims \in Seq(Nat), MaxU \in Nat
  PROVE  \E p : /\ Multiplies(p, dims, Len(dims)) /\ L!Elements(dims) = p[Len(dims)]
                /\ \A i \in 0 .. Len(dims) : p[i] \in Nat
<1> DEFINE n == Len(dims)
           G(p, i) == IF i = 0 THEN 1 ELSE L!Times(p[i - 1], dims[i])
           Solves(p) == p = [i \in 0 .. n |-> G(p, i)]
           product == CHOOSE p : Solves(p)
<1>1. Solves(product)
  <2>1. \E p : Solves(p)
    BY ProductsExist DEF Multiplies
  <2> HIDE DEF Solves
  <2> QED
    BY <2>1
<1>2. L!Elements(dims) = product[n]
  BY DEF L!Elements
<1> HIDE DEF product
<1>3. Multiplies(product, dims, n)
  BY <1>1 DEF Multiplies
<1> DEFINE typed == {k \in Nat : k <= n => product[k] \in Nat}
<1>4. 0 \in typed
  <2>1. product[0] = 1
    BY <1>1
  <2> QED
    BY <2>1
<1>5. ASSUME NEW k \in Nat, k \in typed PROVE k + 1 \in typed
  <2>1. SUFFICES ASSUME k + 1 <= n PROVE product[k + 1] \in Nat
    OBVIOUS
  <2>2. product[k] \in Nat /\ k + 1 \in 1 .. n /\ k + 1 \in 0 .. n /\ (k + 1) - 1 = k
    BY <1>5, <2>1
  <2>3. product[k + 1] = G(product, k + 1)
    <3> HIDE DEF G
    <3> QED
      BY <1>1, <2>2
  <2>4. product[k + 1] = L!Times(product[k], dims[k + 1])
    BY <2>2, <2>3
  <2>5. dims[k + 1] \in Nat
    BY <2>2
  <2> QED
    BY <2>2, <2>4, <2>5, TimesType
<1>6. \A i \in 0 .. n : product[i] \in Nat
  <2> HIDE DEF typed
  <2>1. Nat \subseteq typed
    BY <1>4, <1>5, Ladder
  <2> USE DEF typed
  <2> QED
    BY <2>1
<1> QED
  BY <1>2, <1>3, <1>6

\* A tensor has its last dimension times the elements of a slice.
LEMMA ElementsSplit ==
  ASSUME NEW dims \in Seq(Nat), Len(dims) >= 1, MaxU \in Nat
  PROVE  /\ L!Front(dims) \in Seq(Nat) /\ L!Last(dims) \in Nat
         /\ L!Elements(L!Front(dims)) \in Nat /\ L!Elements(dims) \in Nat
         /\ L!Elements(dims) = L!Times(L!Elements(L!Front(dims)), L!Last(dims))
<1> DEFINE n == Len(dims)
           front == L!Front(dims)
<1>1. front \in Seq(Nat) /\ Len(front) = n - 1 /\ \A i \in 1 .. (n - 1) : front[i] = dims[i]
  <2>1. n \in Nat /\ n - 1 \in Nat /\ n - 1 <= n /\ \A i \in 1 .. n : dims[i] \in Nat
    OBVIOUS
  <2>2. front = [i \in 1 .. (n - 1) |-> dims[i]]
    BY <2>1 DEF L!Front
  <2> HIDE DEF n, front
  <2> QED
    BY <2>1, <2>2
<1>2. L!Last(dims) = dims[n] /\ dims[n] \in Nat /\ n \in Nat \ {0}
  BY DEF L!Last
<1> HIDE DEF front
<1>3. PICK p : /\ Multiplies(p, dims, n) /\ L!Elements(dims) = p[n]
               /\ \A i \in 0 .. n : p[i] \in Nat
  BY ElementsIs
<1>4. PICK q : /\ Multiplies(q, front, n - 1) /\ L!Elements(front) = q[n - 1]
               /\ \A i \in 0 .. (n - 1) : q[i] \in Nat
  BY <1>1, ElementsIs
<1> DEFINE alike == {k \in Nat : k <= n - 1 => p[k] = q[k]}
<1>5. 0 \in alike
  <2>1. p[0] = 1
    BY <1>2, <1>3 DEF Multiplies
  <2>2. q[0] = 1
    BY <1>2, <1>4 DEF Multiplies
  <2> QED
    BY <2>1, <2>2
<1>6. ASSUME NEW k \in Nat, k \in alike PROVE k + 1 \in alike
  <2>1. SUFFICES ASSUME k + 1 <= n - 1 PROVE p[k + 1] = q[k + 1]
    OBVIOUS
  <2>2. p[k] = q[k] /\ k + 1 \in 0 .. n /\ k + 1 \in 0 .. (n - 1) /\ (k + 1) - 1 = k /\ k + 1 # 0
    BY <1>2, <1>6, <2>1
  <2>3. p[k + 1] = L!Times(p[k], dims[k + 1])
    BY <1>3, <2>2 DEF Multiplies
  <2>4. q[k + 1] = L!Times(q[k], front[k + 1])
    BY <1>4, <2>2 DEF Multiplies
  <2>5. front[k + 1] = dims[k + 1]
    <3>1. k + 1 \in 1 .. (n - 1)
      BY <1>2, <2>1
    <3> QED
      BY <1>1, <3>1
  <2> QED
    BY <2>2, <2>3, <2>4, <2>5
<1>7. p[n - 1] = q[n - 1]
  <2> HIDE DEF alike
  <2>1. Nat \subseteq alike
    BY <1>5, <1>6, Ladder
  <2> USE DEF alike
  <2> QED
    BY <1>2, <2>1
<1>8. p[n] = L!Times(p[n - 1], dims[n])
  <2>1. n \in 0 .. n /\ n # 0
    BY <1>2
  <2> HIDE DEF n
  <2> QED
    BY <1>3, <2>1 DEF Multiplies
<1> QED
  BY <1>1, <1>2, <1>3, <1>4, <1>7, <1>8 DEF front

\* The first of the tensors with a name is one of them.
LEMMA FirstNamed ==
  ASSUME NEW set \in SUBSET Nat, set # {}
  PROVE  L!Min(set) \in set
<1>1. \E m \in set : \A k \in set : m <= k
  BY LeastOf
<1> QED
  BY <1>1 DEF L!Min

\* The two ways to the length of a bank: from all its blocks, and from those of a slice.
Stacked(len, blocks, by, a, stack) ==
  len = L!Times(blocks, by) /\ len = L!Times(a * by, stack)

\* A bank of a whole number of slices has as many blocks in each, and nothing saturated.
LEMMA SlicesAreWhole ==
  ASSUME NEW a \in Nat, NEW by \in Nat \ {0}, NEW stack \in Nat, NEW blocks \in Nat, MaxU \in Nat,
         NEW len \in Nat, len < MaxU, Stacked(len, blocks, by, a, stack)
  PROVE  blocks = a * stack /\ len = (a * stack) * by
<1>1. len = blocks * by
  BY TimesType DEF Stacked
<1>2. len = (a * by) * stack
  <2>1. a * by \in Nat
    OBVIOUS
  <2> QED
    BY <2>1, TimesType DEF Stacked
<1>3. (a * by) * stack = (a * stack) * by
  OBVIOUS
<1>4. a * stack \in Nat
  OBVIOUS
<1>5. ASSUME NEW x \in Nat, NEW y \in Nat, x * by = y * by PROVE x = y
  BY <1>5
<1>6. blocks * by = (a * stack) * by
  BY <1>1, <1>2, <1>3
<1> QED
  BY <1>1, <1>4, <1>5, <1>6

\* The quantisation blocks that hold only elements of slice e.
BlocksOf(e, a, el, blocks) ==
  {k \in 0 .. (blocks - 1) : \A x \in (k * el) .. (k * el + el - 1) : x \div (a * el) = e}

\* What a quotient of numbers is.
LEMMA Quotient ==
  ASSUME NEW x \in Nat, NEW s \in Nat, s > 0, NEW e \in Nat
  PROVE  x \div s = e <=> e * s <= x /\ x < e * s + s
<1>1. x \div s \in Nat /\ (x \div s) * s <= x /\ x < (x \div s) * s + s
  OBVIOUS
<1>2. ASSUME NEW q \in Nat, NEW r \in Nat, q * s <= x, x < q * s + s, r * s <= x, x < r * s + s
      PROVE  q = r
  <2>1. CASE q < r
    <3>1. (q + 1) * s <= r * s
      BY <2>1
    <3> QED
      BY <1>2, <3>1
  <2>2. CASE r < q
    <3>1. (r + 1) * s <= q * s
      BY <2>2
    <3> QED
      BY <1>2, <3>1
  <2> QED
    BY <2>1, <2>2
<1> QED
  BY <1>1, <1>2

\* The blocks an expert's slice touches are as many as it is long, after those before it.
LEMMA BlocksAre ==
  ASSUME NEW e \in Nat, NEW a \in Nat, NEW el \in Nat, el > 0, NEW stack \in Nat, e < stack
  PROVE  BlocksOf(e, a, el, a * stack) = (e * a) .. (e * a + a - 1)
<1>1. CASE a = 0
  <2>1. a * stack = 0 /\ e * a = 0
    BY <1>1
  <2> QED
    BY <1>1, <2>1 DEF BlocksOf
<1>2. CASE a > 0
  <2> DEFINE s == a * el
  <2>1. s \in Nat /\ s > 0
    BY <1>2
  <2>2. e * a \in Nat /\ e * a + a <= a * stack /\ a * stack \in Nat
    <3>1. (e + 1) * a <= stack * a
      OBVIOUS
    <3> QED
      BY <3>1
  <2>3. ASSUME NEW k \in Nat
        PROVE  /\ k * el \in Nat
               /\ e * s <= k * el <=> e * a <= k
               /\ k * el + el <= e * s + s <=> k + 1 <= e * a + a
    <3>1. e * s = (e * a) * el /\ e * s + s = (e * a + a) * el /\ k * el + el = (k + 1) * el
      OBVIOUS
    <3>2. ASSUME NEW i \in Nat, NEW j \in Nat PROVE i * el <= j * el <=> i <= j
      <4>1. CASE i <= j
        BY <4>1
      <4>2. CASE j < i
        <5>1. (j + 1) * el <= i * el
          BY <4>2
        <5> QED
          BY <4>2, <5>1
      <4> QED
        BY <4>1, <4>2
    <3>3. k * el \in Nat /\ e * a + a \in Nat
      BY <2>2
    <3> HIDE DEF s
    <3> QED
      BY <2>2, <3>1, <3>2, <3>3
  <2> HIDE DEF s
  <2>4. ASSUME NEW k \in Nat
        PROVE  (\A x \in (k * el) .. (k * el + el - 1) : x \div s = e)
                 <=> k \in (e * a) .. (e * a + a - 1)
    <3>1. e * s \in Nat
      BY <2>1
    <3>2. ASSUME \A x \in (k * el) .. (k * el + el - 1) : x \div s = e
          PROVE  k \in (e * a) .. (e * a + a - 1)
      <4>1. k * el \in Nat /\ k * el + el - 1 \in Nat
        BY <2>3
      <4>2. (k * el) \div s = e /\ (k * el + el - 1) \div s = e
        BY <3>2, <4>1
      <4>3. e * s <= k * el
        BY <2>1, <4>1, <4>2, Quotient
      <4>4. k * el + el - 1 < e * s + s
        BY <2>1, <4>1, <4>2, Quotient
      <4>5. k * el + el <= e * s + s
        BY <2>1, <3>1, <4>1, <4>4
      <4> QED
        BY <2>2, <2>3, <4>3, <4>5
    <3>3. ASSUME k \in (e * a) .. (e * a + a - 1), NEW x \in (k * el) .. (k * el + el - 1)
          PROVE  x \div s = e
      <4>1. e * s <= k * el /\ k * el + el <= e * s + s /\ k * el \in Nat
        BY <2>2, <2>3, <3>3
      <4>2. x \in Nat /\ e * s <= x /\ x < e * s + s
        BY <2>1, <3>1, <3>3, <4>1
      <4> QED
        BY <2>1, <4>2, Quotient
    <3> QED
      BY <3>2, <3>3
  <2>5. \A k : k \in 0 .. (a * stack - 1) <=> k \in Nat /\ k < a * stack
    BY <2>2
  <2>6. \A k : k \in (e * a) .. (e * a + a - 1) => k \in Nat /\ k < a * stack
    BY <2>2
  <2> QED
    BY <2>4, <2>5, <2>6 DEF BlocksOf, s
<1> QED
  BY <1>1, <1>2

\* The bytes of a blocks of by bytes, from block c on.
BytesOfBlocks(start, by, c, a) ==
  UNION {(start + k * by) .. (start + k * by + by - 1) : k \in c .. (c + a - 1)}

\* Blocks one after the other cover one stretch of bytes.
LEMMA BlocksCover ==
  ASSUME NEW start \in Nat, NEW by \in Nat, by > 0, NEW c \in Nat, NEW a \in Nat
  PROVE  BytesOfBlocks(start, by, c, a) = (start + by * c) .. (start + by * c + a * by - 1)
<1> DEFINE Part(k) == (start + k * by) .. (start + k * by + by - 1)
           all == (start + by * c) .. (start + by * c + a * by - 1)
<1>1. by * c \in Nat /\ a * by \in Nat /\ by * c + a * by = (c + a) * by
  OBVIOUS
<1>2. ASSUME NEW k \in c .. (c + a - 1) PROVE Part(k) \subseteq all
  <2>1. k \in Nat /\ k * by \in Nat
    OBVIOUS
  <2>2. c * by <= k * by /\ (k + 1) * by <= (c + a) * by
    BY <2>1
  <2>3. (k + 1) * by = k * by + by /\ c * by = by * c
    BY <2>1
  <2>4. by * c <= k * by /\ k * by + by <= by * c + a * by
    BY <1>1, <2>2, <2>3
  <2> QED
    BY <1>1, <2>1, <2>4
<1>3. ASSUME NEW y \in all PROVE \E k \in c .. (c + a - 1) : y \in Part(k)
  <2> DEFINE d == y - start
             k == d \div by
  <2>1. d \in Nat /\ by * c <= d /\ d < by * c + a * by
    BY <1>1, <1>3
  <2>2. k \in Nat /\ k * by <= d /\ d < k * by + by
    <3> HIDE DEF d
    <3> QED
      BY <2>1
  <2>3. y = start + d
    BY <1>1, <1>3
  <2> HIDE DEF d, k
  <2>4. c <= k
    <3>1. SUFFICES ASSUME k < c PROVE FALSE
      BY <2>2
    <3>2. (k + 1) * by <= c * by
      BY <2>2, <3>1
    <3>3. (k + 1) * by = k * by + by /\ c * by = by * c
      BY <2>2
    <3> QED
      BY <1>1, <2>1, <2>2, <3>2, <3>3
  <2>5. k < c + a
    <3>1. SUFFICES ASSUME c + a <= k PROVE FALSE
      BY <2>2
    <3>2. (c + a) * by <= k * by
      BY <2>2, <3>1
    <3> QED
      BY <1>1, <2>1, <2>2, <3>2
  <2>6. k * by \in Nat
    BY <2>2
  <2>7. y \in Part(k)
    BY <2>1, <2>2, <2>3, <2>6
  <2> QED
    BY <2>2, <2>4, <2>5, <2>7
<1> QED
  BY <1>2, <1>3 DEF BytesOfBlocks

\* The tensor of that name, as the index has it.
LEMMA TensorIs ==
  ASSUME NEW f \in Files \cup Replacements, NEW b, NEW name, L!Has(f, b, name)
  PROVE  /\ L!Tensor(f, b, name) \in L!ToSet(f.tensors)
         /\ L!Tensor(f, b, name).dims \in Seq(Nat) /\ L!Tensor(f, b, name).offset \in Nat
<1> DEFINE set == L!Named(f, b, name)
<1>1. f.tensors \in Seq(L!ToSet(f.tensors))
  BY ModelAssumption DEF L!LoadAssumption
<1>2. set \in SUBSET Nat /\ set \subseteq DOMAIN f.tensors /\ set # {}
  BY <1>1 DEF L!Named, L!Has
<1>3. L!Min(set) \in DOMAIN f.tensors
  <2> HIDE DEF set
  <2> QED
    BY <1>2, FirstNamed
<1>4. L!Tensor(f, b, name) \in L!ToSet(f.tensors)
  BY <1>3 DEF L!Tensor, L!ToSet
<1> QED
  BY <1>4, ModelAssumption DEF L!LoadAssumption

\* What the index of an accepted header says of a tensor.
LEMMA IndexHas ==
  ASSUME NEW f \in Files \cup Replacements, L!Reads(f), NEW t \in L!ToSet(f.tensors)
  PROVE  L!Known(t) /\ L!Whole(t) /\ L!Fits(f, t)
<1>1. PICK i \in DOMAIN f.tensors : t = f.tensors[i]
  BY DEF L!ToSet
<1> QED
  BY <1>1 DEF L!Reads

\* A sum of sizes is a number, and the true sum unless it saturated.
LEMMA PlusType ==
  ASSUME NEW x \in Nat, NEW y \in Nat, MaxU \in Nat
  PROVE  L!Plus(x, y) \in Nat /\ (L!Plus(x, y) < MaxU => L!Plus(x, y) = x + y)
BY DEF L!Plus, L!Saturated

\* Padding makes nothing smaller.
LEMMA PadType ==
  ASSUME NEW n \in Nat, NEW align \in Nat \ {0}, MaxU \in Nat
  PROVE  L!PadTo(n, align) \in Nat /\ (L!PadTo(n, align) < MaxU => n <= L!PadTo(n, align))
<1>1. (n + align - 1) \div align \in Nat
  OBVIOUS
<1>2. n <= ((n + align - 1) \div align) * align
  OBVIOUS
<1> QED
  BY <1>1, <1>2, TimesType DEF L!PadTo, L!DivUp

\* A tensor that fits ends inside its file, and none of its numbers has saturated.
LEMMA FitsInside ==
  ASSUME NEW f \in Files \cup Replacements, L!Reads(f), NEW t \in L!ToSet(f.tensors),
         L!Bytes(t) \in Nat
  PROVE  /\ L!Start(f, t) \in Nat /\ L!Bytes(t) < MaxU
         /\ L!Start(f, t) + L!Bytes(t) <= f.size
<1>1. MaxU \in Nat /\ f.size \in Nat /\ f.size < MaxU /\ f.head \in Nat /\ f.align \in Nat
  BY ModelAssumption DEF L!LoadAssumption
<1>2. t.offset \in Nat
  BY ModelAssumption DEF L!LoadAssumption
<1>3. f.align \in Nat \ {0}
  BY <1>1 DEF L!Reads
<1>4. L!DataOffset(f) \in Nat
  BY <1>1, <1>3, PadType DEF L!DataOffset
<1>5. L!Start(f, t) \in Nat
  BY <1>1, <1>2, <1>4, PlusType DEF L!Start
<1>6. L!Plus(L!Start(f, t), L!PadTo(L!Bytes(t), f.align)) <= f.size
  BY IndexHas DEF L!Fits
<1>7. L!PadTo(L!Bytes(t), f.align) \in Nat
  BY <1>1, <1>3, PadType
<1>8. L!Plus(L!Start(f, t), L!PadTo(L!Bytes(t), f.align))
        = L!Start(f, t) + L!PadTo(L!Bytes(t), f.align)
  <2>1. L!Plus(L!Start(f, t), L!PadTo(L!Bytes(t), f.align)) \in Nat
    BY <1>1, <1>5, <1>7, PlusType
  <2>2. L!Plus(L!Start(f, t), L!PadTo(L!Bytes(t), f.align)) < MaxU
    BY <1>1, <1>6, <2>1
  <2> QED
    BY <1>1, <1>5, <1>7, <2>2, PlusType
<1>9. L!PadTo(L!Bytes(t), f.align) < MaxU
  BY <1>1, <1>5, <1>6, <1>7, <1>8
<1>10. L!Bytes(t) <= L!PadTo(L!Bytes(t), f.align)
  BY <1>1, <1>3, <1>9, PadType
<1> QED
  BY <1>1, <1>5, <1>6, <1>7, <1>8, <1>9, <1>10

\* What is handed out as an expert lies inside the file the header is of, and is exactly
\* the quantisation blocks of that expert.
LEMMA SliceIsItsOwn ==
  ASSUME NEW f \in Files \cup Replacements, L!Reads(f), NEW b, NEW bank, NEW e \in Nat,
         L!HasExpert(f, b, bank, e)
  PROVE  /\ L!Span(L!Expert(f, b, bank, e)) \subseteq 0 .. (f.size - 1)
         /\ L!Span(L!Expert(f, b, bank, e)) = L!OwnBytes(f, b, bank, e)
<1> DEFINE t == L!Tensor(f, b, bank)
           el == Quants[t.type].elems
           by == Quants[t.type].bytes
           slice == L!Elements(L!Front(t.dims))
           a == slice \div el
           stack == L!Last(t.dims)
           n == L!Elements(t.dims)
           start == L!Start(f, t)
<1>1. L!Has(f, b, bank) /\ L!Slices(L!View(f, b, bank), e)
  BY DEF L!HasExpert
<1>2. t \in L!ToSet(f.tensors) /\ t.dims \in Seq(Nat)
  BY <1>1, TensorIs
<1>3. L!Known(t) /\ L!Whole(t)
  BY <1>2, IndexHas
<1>4. el \in Nat /\ el > 0 /\ by \in Nat /\ by > 0 /\ MaxU \in Nat
  BY <1>3, ModelAssumption DEF L!LoadAssumption, L!Known
<1>5. n % el = 0
  BY <1>3 DEF L!Whole
<1>6. L!Bytes(t) = L!Times(n \div el, by)
  BY DEF L!Bytes
<1>7. /\ Len(t.dims) >= 2 /\ e < stack /\ slice % el = 0
      /\ L!Times(a * by, stack) = L!Bytes(t)
  BY <1>1 DEF L!Slices, L!View, L!SliceBytes
<1>8. L!Span(L!Expert(f, b, bank, e))
        = (start + (a * by) * e) .. (start + (a * by) * e + a * by - 1)
  BY DEF L!Span, L!Expert, L!Slice, L!View, L!SliceBytes
<1>9. L!OwnBytes(f, b, bank, e)
        = UNION {(start + k * by) .. (start + k * by + by - 1) :
                   k \in {k \in 0 .. (n \div el - 1) :
                            \A x \in (k * el) .. (k * el + el - 1) : x \div slice = e}}
  BY DEF L!OwnBytes
<1>10. stack \in Nat /\ slice \in Nat /\ n \in Nat
  <2>1. Len(t.dims) >= 1
    BY <1>2, <1>7
  <2> QED
    BY <1>2, <1>4, <2>1, ElementsSplit
<1>11. L!Bytes(t) \in Nat /\ n \div el \in Nat
  <2>1. n \div el \in Nat
    BY <1>4, <1>10
  <2> QED
    BY <1>4, <1>6, <2>1, TimesType
<1>12. start \in Nat /\ L!Bytes(t) < MaxU /\ start + L!Bytes(t) <= f.size
  BY <1>2, <1>11, FitsInside
<1> HIDE DEF t, el, by, slice, n, stack, start
<1>13. a \in Nat /\ slice = a * el /\ n = (n \div el) * el
  BY <1>4, <1>5, <1>7, <1>10
<1> HIDE DEF a
<1>14. n \div el = a * stack /\ L!Bytes(t) = (a * stack) * by
  <2> DEFINE blocks == n \div el
             len == L!Bytes(t)
  <2>1. a \in Nat /\ by \in Nat \ {0} /\ stack \in Nat /\ MaxU \in Nat
    BY <1>4, <1>10, <1>13
  <2>2. blocks \in Nat /\ len \in Nat /\ len < MaxU
    BY <1>11, <1>12
  <2>3. Stacked(len, blocks, by, a, stack)
    BY <1>6, <1>7 DEF Stacked
  <2> HIDE DEF blocks, len
  <2>4. blocks = a * stack /\ len = (a * stack) * by
    BY <2>1, <2>2, <2>3, SlicesAreWhole
  <2> QED
    BY <2>4 DEF blocks, len
<1>15. L!OwnBytes(f, b, bank, e)
         = UNION {(start + k * by) .. (start + k * by + by - 1) :
                    k \in BlocksOf(e, a, el, a * stack)}
  BY <1>9, <1>13, <1>14 DEF BlocksOf
<1>16. BlocksOf(e, a, el, a * stack) = (e * a) .. (e * a + a - 1)
  <2>1. el \in Nat /\ el > 0 /\ a \in Nat /\ stack \in Nat /\ e < stack
    BY <1>4, <1>7, <1>10, <1>13
  <2> QED
    BY <2>1, BlocksAre
<1>17. e * a \in Nat
  BY <1>13
<1>18. L!OwnBytes(f, b, bank, e)
         = (start + by * (e * a)) .. (start + by * (e * a) + a * by - 1)
  <2> DEFINE c == e * a
  <2>1. by \in Nat /\ by > 0 /\ start \in Nat /\ a \in Nat /\ c \in Nat
    BY <1>4, <1>12, <1>13, <1>17
  <2> HIDE DEF c
  <2>2. BytesOfBlocks(start, by, c, a)
          = (start + by * c) .. (start + by * c + a * by - 1)
    BY <2>1, BlocksCover
  <2>3. BlocksOf(e, a, el, a * stack) = c .. (c + a - 1)
    BY <1>16 DEF c
  <2>4. L!OwnBytes(f, b, bank, e) = (start + by * c) .. (start + by * c + a * by - 1)
    BY <1>15, <2>2, <2>3 DEF BytesOfBlocks
  <2> QED
    BY <2>4 DEF c
<1>19. by * (e * a) = (a * by) * e
  BY <1>4, <1>13
<1>20. L!Span(L!Expert(f, b, bank, e)) \subseteq 0 .. (f.size - 1)
  <2>1. (e + 1) * a <= stack * a
    BY <1>7, <1>10, <1>13
  <2>2. ((e + 1) * a) * by <= (stack * a) * by
    <3>1. (e + 1) * a \in Nat /\ stack * a \in Nat
      BY <1>10, <1>13
    <3> QED
      BY <1>4, <2>1, <3>1
  <2>3. ((e + 1) * a) * by = (a * by) * e + a * by /\ (stack * a) * by = (a * stack) * by
    BY <1>4, <1>10, <1>13
  <2>4. (a * by) * e \in Nat /\ a * by \in Nat
    BY <1>4, <1>13
  <2>5. start + (a * by) * e + a * by <= f.size /\ f.size \in Nat
    <3>1. f.size \in Nat
      BY ModelAssumption DEF L!LoadAssumption
    <3> QED
      BY <1>11, <1>12, <1>14, <2>2, <2>3, <2>4, <3>1
  <2> QED
    BY <1>8, <1>12, <2>4, <2>5
<1> QED
  BY <1>8, <1>18, <1>19, <1>20

\* The invariant of a load gives every expert its own slices.
LEMMA ExpertsAreSliced == LoadInv => ExpertsAreTheirOwn
<1> SUFFICES ASSUME LoadInv, stage = "ready",
                    NEW b \in L!BlockIds(header), NEW bank \in L!Banks,
                    NEW e \in 0 .. (L!ExpertsOf(header) - 1), L!HasExpert(header, b, bank, e)
             PROVE  /\ L!Span(L!Expert(header, b, bank, e)) \subseteq 0 .. (mapped.size - 1)
                    /\ mapped = header =>
                         L!Span(L!Expert(header, b, bank, e)) = L!OwnBytes(mapped, b, bank, e)
  BY DEF ExpertsAreTheirOwn, L!ExpertsAreTheirOwn
<1>1. /\ header \in Files \cup Replacements /\ mapped \in Files \cup Replacements
      /\ L!Reads(header) /\ header.size <= mapped.size /\ e \in Nat
  <2>1. header.size \in Nat /\ mapped.size \in Nat
    BY ModelAssumption DEF LoadInv, L!LoadAssumption
  <2>2. L!ExpertsOf(header) \in Nat
    <3>1. L!Configures(header)
      BY DEF LoadInv
    <3>2. L!IsNumber(header, "expert_count")
      BY <3>1 DEF L!Configures
    <3> QED
      BY <3>2, NumberType DEF LoadInv, L!ExpertsOf
  <2> QED
    BY <2>1, <2>2 DEF LoadInv
<1>2. header.size \in Nat /\ mapped.size \in Nat
  BY <1>1, ModelAssumption DEF L!LoadAssumption
<1>3. /\ L!Span(L!Expert(header, b, bank, e)) \subseteq 0 .. (header.size - 1)
      /\ L!Span(L!Expert(header, b, bank, e)) = L!OwnBytes(header, b, bank, e)
  BY <1>1, SliceIsItsOwn
<1>4. 0 .. (header.size - 1) \subseteq 0 .. (mapped.size - 1)
  BY <1>1, <1>2
<1> QED
  BY <1>3, <1>4

\* The bytes handed out as an expert's are inside the mapping, and are exactly the blocks of
\* that expert, of its bank and its block, unless the file was replaced between the header's
\* open and the mapping's; for any files, types and shapes, whatever numbers they declare.
THEOREM ExpertsAreTheirOwnHolds == ModelSpec => []ExpertsAreTheirOwn
<1>1. LoadInv => ExpertsAreTheirOwn
  BY ExpertsAreSliced
<1> QED
  BY <1>1, LoadInvariant, PTL
=============================================================================
