-------------------------- MODULE ExpertCacheProofs --------------------------
(***************************************************************************)
(* Proofs about ExpertCache, for every set of experts, every capacity and  *)
(* every sequence of steps.                                                *)
(***************************************************************************)
EXTENDS ExpertCache, FiniteSetTheorems, WellFoundedInduction, TLAPS

\* Every entry of the plan names a slot that holds its expert, and that expert
\* is one the step needs: a slot the plan uses can be neither empty nor evicted.
PlanTruth ==
  \A e \in Experts, s \in Slots :
    Planned(e, s) => e \in Distinct(needed) /\ occupant[s] = e

\* Every demand served so far is in the plan.
Covered == \A i \in 1 .. (next - 1) : \E s \in Slots : Planned(needed[i], s)

\* A step in progress needs no more experts than there are slots.
Fits == at = "serving" => Cardinality(Distinct(needed)) <= Capacity

\* What was evicted for this step, the step does not need.
EvictedUnneeded == \A l \in loads : l.evicted \notin Distinct(needed)

IInv ==
  /\ TypeOK /\ IndexAgrees /\ PlanTruth /\ Covered
  /\ Fits /\ EvictedUnneeded /\ NothingMovedTwice

\* A demand in hand is one of the step's experts.
LEMMA DemandNeeded ==
  ASSUME TypeOK, Serving
  PROVE  /\ Demand \in Experts /\ Demand \in Distinct(needed)
         /\ next \in 1 .. Len(needed) /\ Len(needed) \in Nat
BY DEF TypeOK, Serving, Demand, Distinct

\* The counters stay natural numbers.
LEMMA CountedType ==
  ASSUME stats \in StatsType,
         NEW s \in Nat, NEW d \in Nat, NEW h \in Nat, NEW m \in Nat, NEW v \in Nat
  PROVE  Counted(s, d, h, m, v) \in StatsType
BY DEF StatsType, Counted

\* A call that has planned nothing satisfies whatever is said of its plan.
LEMMA EmptyPlan ==
  ASSUME NEW to \in {"none", "serving", "refused"}, NEW ds \in Seq(Experts),
         Start(to, ds), to = "serving" => Cardinality(Distinct(ds)) <= Capacity
  PROVE  /\ at' \in {"none", "serving", "planned", "refused"}
         /\ needed' \in Seq(Experts) /\ next' \in 1 .. (Len(needed') + 1)
         /\ hits' \subseteq HitType /\ loads' \subseteq LoadType
         /\ PlanTruth' /\ Covered' /\ Fits' /\ EvictedUnneeded' /\ NothingMovedTwice'
<1>1. /\ at' = to /\ needed' = ds /\ next' = 1 /\ hits' = {} /\ loads' = {}
      /\ Len(ds) \in Nat
  BY DEF Start
<1>2. \A e \in Experts, s \in Slots : ~Planned(e, s)'
  BY <1>1 DEF Planned
<1>3. PlanTruth' /\ Covered' /\ EvictedUnneeded' /\ NothingMovedTwice'
  BY <1>1, <1>2 DEF PlanTruth, Covered, EvictedUnneeded, NothingMovedTwice
<1>4. Fits'
  BY <1>1 DEF Fits, Distinct
<1>5. QED
  BY <1>1, <1>3, <1>4

\* A cache just built keeps the invariant.
LEMMA InitIInv == Init => IInv
<1> SUFFICES ASSUME Init PROVE IInv
  OBVIOUS
<1>1. /\ at = "none" /\ needed = <<>> /\ next = 1 /\ hits = {} /\ loads = {}
      /\ \A s \in Slots : occupant[s] = NoExpert
      /\ Resident = {}
  BY DEF Init, Resident
<1>2. TypeOK
  <2>1. /\ occupant \in [Slots -> Experts \cup {NoExpert}]
        /\ slot_of \in [Experts -> Slots \cup {NoSlot}]
        /\ last_used \in [Experts -> Nat] /\ clock \in Nat
    BY DEF Init
  <2>2. stats \in StatsType
    BY DEF Init, ZeroStats, StatsType
  <2>3. needed \in Seq(Experts) /\ next \in 1 .. (Len(needed) + 1)
    BY <1>1
  <2>4. QED
    BY <1>1, <2>1, <2>2, <2>3 DEF TypeOK
<1>3. IndexAgrees
  BY <1>1 DEF IndexAgrees
<1>4. \A e \in Experts, s \in Slots : ~Planned(e, s)
  BY <1>1 DEF Planned
<1>5. QED
  BY <1>1, <1>2, <1>3, <1>4
  DEF IInv, PlanTruth, Covered, Fits, EvictedUnneeded, NothingMovedTwice

\* A demand found resident.
LEMMA StepHit == IInv /\ Hit => IInv'
<1> SUFFICES ASSUME IInv, Hit PROVE IInv'
  OBVIOUS
<1>1. /\ Demand \in Experts /\ Demand \in Distinct(needed)
      /\ next \in 1 .. Len(needed) /\ Len(needed) \in Nat
  BY DemandNeeded DEF IInv, Hit
<1>2. /\ Demand \in Resident /\ slot_of[Demand] \in Slots /\ clock \in Nat
      /\ occupant[slot_of[Demand]] = Demand
  BY <1>1 DEF IInv, Hit, Resident, TypeOK, IndexAgrees
<1> DEFINE fetched == \E l \in loads : l.expert = Demand
           entry == [expert |-> Demand, slot |-> slot_of[Demand]]
<1>3. /\ next' = next + 1
      /\ hits' = IF fetched THEN hits ELSE hits \cup {entry}
      /\ UNCHANGED <<at, needed, loads, occupant, slot_of>>
      /\ Distinct(needed)' = Distinct(needed)
  BY DEF Hit, Distinct
<1>4. TypeOK'
  <2>1. last_used' \in [Experts -> Nat] /\ clock' \in Nat
    <3>1. last_used' = [last_used EXCEPT ![Demand] = clock + 1] /\ clock' = clock + 1
      BY DEF Hit
    <3>2. last_used \in [Experts -> Nat]
      BY DEF IInv, TypeOK
    <3>3. clock + 1 \in Nat
      BY <1>2
    <3>4. QED
      BY <3>1, <3>2, <3>3
  <2>2. stats' \in StatsType
    BY CountedType DEF Hit, IInv, TypeOK
  <2>3. entry \in HitType
    BY <1>1, <1>2 DEF HitType
  <2>4. hits' \subseteq HitType /\ next' \in 1 .. (Len(needed') + 1)
    BY <1>1, <1>3, <2>3 DEF IInv, TypeOK
  <2>5. QED
    BY <1>3, <2>1, <2>2, <2>4 DEF IInv, TypeOK
<1>5. IndexAgrees'
  <2>1. /\ Resident' = Resident /\ clock' = clock + 1
        /\ \A e \in Experts : last_used'[e] = IF e = Demand THEN clock + 1
                                              ELSE last_used[e]
    BY <1>1, <1>3 DEF Hit, Resident, IInv, TypeOK
  <2>2. \A e \in Resident : last_used[e] \in 1 .. clock /\ e \in Experts
    BY DEF IInv, IndexAgrees, Resident
  <2>3. \A e \in Resident : last_used'[e] \in 1 .. clock'
    BY <1>2, <2>1, <2>2
  <2>4. \A d, e \in Resident : last_used'[d] = last_used'[e] => d = e
    BY <1>2, <2>1, <2>2 DEF IInv, IndexAgrees
  <2>5. QED
    BY <1>3, <2>1, <2>3, <2>4 DEF IInv, IndexAgrees
<1>6. \A e \in Experts, s \in Slots :
        /\ Planned(e, s)' => Planned(e, s) \/ (e = Demand /\ s = slot_of[Demand])
        /\ Planned(e, s) => Planned(e, s)'
  BY <1>3 DEF Planned
<1>7. PlanTruth'
  BY <1>1, <1>2, <1>3, <1>6 DEF IInv, PlanTruth
<1>8. \E s \in Slots : /\ [expert |-> Demand, slot |-> s] \in hits'
                          \/ \E l \in loads' : l.expert = Demand /\ l.slot = s
  <2>1. CASE fetched
    <3>1. PICK l \in loads : l.expert = Demand
      BY <2>1
    <3>2. l.slot \in Slots
      BY DEF IInv, TypeOK, LoadType
    <3>3. QED
      BY <1>3, <3>1, <3>2
  <2>2. CASE ~fetched
    BY <1>2, <1>3, <2>2
  <2>3. QED
    BY <2>1, <2>2
<1>9. Covered'
  <2>1. ASSUME NEW i \in 1 .. next
        PROVE  \E s \in Slots :
                 \/ [expert |-> needed[i], slot |-> s] \in hits'
                 \/ \E l \in loads' : l.expert = needed[i] /\ l.slot = s
    <3>1. CASE i = next
      BY <1>8, <3>1 DEF Demand
    <3>2. CASE i # next
      <4>1. i \in 1 .. (next - 1)
        BY <1>1, <3>2
      <4>2. PICK s \in Slots : Planned(needed[i], s)
        BY <4>1 DEF IInv, Covered
      <4>3. QED
        BY <1>3, <4>2 DEF Planned
    <3>3. QED
      BY <3>1, <3>2
  <2>2. next' - 1 = next /\ needed' = needed
    BY <1>1, <1>3
  <2>3. QED
    BY <2>1, <2>2 DEF Covered, Planned
<1>10. Fits' /\ EvictedUnneeded'
  BY <1>3 DEF IInv, Fits, EvictedUnneeded
<1>11. NothingMovedTwice'
  <2> SUFFICES ASSUME NEW l \in loads, ~fetched
               PROVE  slot_of[Demand] # l.slot /\ Demand # l.expert
    BY <1>3 DEF IInv, NothingMovedTwice
  <2>1. l.expert # Demand /\ l.expert \in Experts /\ l.slot \in Slots
    BY DEF IInv, TypeOK, LoadType
  <2>2. occupant[l.slot] = l.expert
    BY <2>1 DEF IInv, PlanTruth, Planned
  <2>3. QED
    BY <1>2, <2>1, <2>2
<1>12. QED
  BY <1>4, <1>5, <1>7, <1>9, <1>10, <1>11 DEF IInv

\* A miss puts the demand into a slot whose occupant, if any, the step does not
\* need; both ways of finding such a slot preserve the invariant alike.
LEMMA StepLoad ==
  ASSUME IInv, Serving, Demand \notin Resident,
         NEW s \in Slots, NEW gone \in Experts \cup {NoExpert},
         occupant[s] = gone, gone \notin Distinct(needed), Load(s, gone),
         slot_of' \in [Experts -> Slots \cup {NoSlot}],
         last_used' \in [Experts -> Nat],
         \A e \in Experts :
           /\ slot_of'[e] = IF e = Demand THEN s
                            ELSE IF e = gone THEN NoSlot ELSE slot_of[e]
           /\ last_used'[e] = IF e = Demand THEN clock + 1
                              ELSE IF e = gone THEN 0 ELSE last_used[e]
  PROVE  IInv'
<1>1. /\ Demand \in Experts /\ Demand \in Distinct(needed)
      /\ next \in 1 .. Len(needed) /\ Len(needed) \in Nat /\ clock \in Nat
      /\ Demand # gone /\ slot_of[Demand] = NoSlot
  BY DemandNeeded DEF IInv, TypeOK, Resident
<1> DEFINE entry == [expert |-> Demand, slot |-> s, evicted |-> gone]
<1>2. /\ next' = next + 1 /\ loads' = loads \cup {entry} /\ clock' = clock + 1
      /\ occupant' = [occupant EXCEPT ![s] = Demand]
      /\ UNCHANGED <<at, needed, hits>>
      /\ Distinct(needed)' = Distinct(needed)
  BY DEF Load, Distinct
<1>3. \A t \in Slots : occupant'[t] = IF t = s THEN Demand ELSE occupant[t]
  BY <1>2 DEF IInv, TypeOK
<1>4. s # NoSlot /\ NoSlot \notin Slots
  BY CapacityAssumption DEF Slots, NoSlot
<1>5. TypeOK'
  <2>1. occupant' \in [Slots -> Experts \cup {NoExpert}]
    BY <1>1, <1>2 DEF IInv, TypeOK
  <2>2. stats' \in StatsType
    <3>1. (IF gone = NoExpert THEN 0 ELSE 1) \in Nat
      OBVIOUS
    <3>2. QED
      BY <3>1, CountedType DEF Load, IInv, TypeOK
  <2>3. entry \in LoadType
    BY <1>1 DEF LoadType
  <2>4. loads' \subseteq LoadType /\ next' \in 1 .. (Len(needed') + 1)
    BY <1>1, <1>2, <2>3 DEF IInv, TypeOK
  <2>5. QED
    BY <1>1, <1>2, <2>1, <2>2, <2>4 DEF IInv, TypeOK
<1>6. IndexAgrees'
  <2>1. Resident' = (Resident \ {gone}) \cup {Demand}
    BY <1>1, <1>4 DEF Resident
  <2>2. \A e \in Resident : /\ last_used[e] \in 1 .. clock /\ e \in Experts
                            /\ slot_of[e] \in Slots /\ occupant[slot_of[e]] = e
    BY DEF IInv, IndexAgrees, Resident, TypeOK
  <2>3. \A e \in Resident' : last_used'[e] \in 1 .. clock'
    BY <1>1, <1>2, <2>1, <2>2
  <2>4. \A d, e \in Resident' : last_used'[d] = last_used'[e] => d = e
    BY <1>1, <2>1, <2>2 DEF IInv, IndexAgrees
  <2>5. \A e \in Resident' : occupant'[slot_of'[e]] = e
    BY <1>1, <1>3, <2>1, <2>2
  <2>6. ASSUME NEW t \in Slots, occupant'[t] # NoExpert
        PROVE  slot_of'[occupant'[t]] = t
    <3>1. CASE t = s
      BY <1>1, <1>3, <3>1
    <3>2. CASE t # s
      <4>1. /\ occupant'[t] = occupant[t] /\ occupant[t] \in Experts
            /\ slot_of[occupant[t]] = t
        BY <1>3, <2>6, <3>2 DEF IInv, IndexAgrees, TypeOK
      <4>2. occupant[t] # Demand
        BY <1>1, <1>4, <4>1
      <4>3. occupant[t] # gone
        BY <3>2, <4>1, ExpertsAssumption DEF IInv, IndexAgrees
      <4>4. QED
        BY <4>1, <4>2, <4>3
    <3>3. QED
      BY <3>1, <3>2
  <2>7. QED
    BY <2>3, <2>4, <2>5, <2>6 DEF IndexAgrees
<1>7. \A e \in Experts, t \in Slots :
        /\ Planned(e, t)' => Planned(e, t) \/ (e = Demand /\ t = s)
        /\ Planned(e, t) => Planned(e, t)' /\ t # s
  <2> SUFFICES ASSUME NEW e \in Experts, NEW t \in Slots
               PROVE  /\ Planned(e, t)' => Planned(e, t) \/ (e = Demand /\ t = s)
                      /\ Planned(e, t) => Planned(e, t)' /\ t # s
    OBVIOUS
  <2>1. entry.expert = Demand /\ entry.slot = s
    OBVIOUS
  <2>2. Planned(e, t)' => Planned(e, t) \/ (e = Demand /\ t = s)
    BY <1>2, <2>1 DEF Planned
  <2>3. Planned(e, t) => Planned(e, t)'
    BY <1>2 DEF Planned
  <2>4. Planned(e, t) => t # s
    BY DEF IInv, PlanTruth
  <2>5. QED
    BY <2>2, <2>3, <2>4
<1>8. PlanTruth'
  BY <1>1, <1>2, <1>3, <1>7 DEF IInv, PlanTruth
<1>9. Covered'
  <2>1. ASSUME NEW i \in 1 .. next
        PROVE  \E t \in Slots :
                 \/ [expert |-> needed[i], slot |-> t] \in hits'
                 \/ \E l \in loads' : l.expert = needed[i] /\ l.slot = t
    <3>1. CASE i = next
      <4>1. entry \in loads' /\ entry.expert = needed[i] /\ entry.slot = s
        BY <1>2, <3>1 DEF Demand
      <4>2. QED
        BY <4>1
    <3>2. CASE i # next
      <4>1. i \in 1 .. (next - 1)
        BY <1>1, <3>2
      <4>2. PICK t \in Slots : Planned(needed[i], t)
        BY <4>1 DEF IInv, Covered
      <4>3. QED
        BY <1>2, <4>2 DEF Planned
    <3>3. QED
      BY <3>1, <3>2
  <2>2. next' - 1 = next /\ needed' = needed
    BY <1>1, <1>2
  <2>3. QED
    BY <2>1, <2>2 DEF Covered, Planned
<1>10. Fits' /\ EvictedUnneeded'
  BY <1>2 DEF IInv, Fits, EvictedUnneeded
<1>11. NothingMovedTwice'
  <2>1. \A l \in loads : /\ l.expert \in Experts /\ l.slot \in Slots
                         /\ Planned(l.expert, l.slot)
    BY DEF IInv, TypeOK, LoadType, Planned
  <2>2. \A h \in hits : /\ h.expert \in Experts /\ h.slot \in Slots
                        /\ Planned(h.expert, h.slot)
    BY DEF IInv, TypeOK, HitType, Planned
  <2>3. \A e \in Experts, t \in Slots :
          Planned(e, t) => t # s /\ e # Demand /\ e # gone
    <3> SUFFICES ASSUME NEW e \in Experts, NEW t \in Slots, Planned(e, t)
                 PROVE  t # s /\ e # Demand /\ e # gone
      OBVIOUS
    <3>1. occupant[t] = e /\ e \in Distinct(needed) /\ t # s
      BY <1>7 DEF IInv, PlanTruth
    <3>2. slot_of[e] = t
      BY <3>1, ExpertsAssumption DEF IInv, IndexAgrees
    <3>3. QED
      BY <1>1, <1>4, <3>1, <3>2
  <2>4. \A l \in loads : l.slot # s /\ l.expert # Demand /\ l.expert # gone
    BY <2>1, <2>3
  <2>5. \A h \in hits : h.slot # s /\ h.expert # Demand
    BY <2>2, <2>3
  <2>6. \A l \in loads : l.evicted # Demand
    BY <1>1 DEF IInv, EvictedUnneeded
  <2>7. QED
    BY <1>1, <1>2, <2>4, <2>5, <2>6 DEF IInv, NothingMovedTwice
<1>12. QED
  BY <1>5, <1>6, <1>8, <1>9, <1>10, <1>11 DEF IInv

\* A demand served from an empty slot.
LEMMA StepMissFree == IInv /\ MissFree => IInv'
<1> SUFFICES ASSUME IInv, MissFree PROVE IInv'
  OBVIOUS
<1>1. PICK s \in Slots : /\ FirstEmpty(s) /\ Load(s, NoExpert)
                         /\ slot_of' = [slot_of EXCEPT ![Demand] = s]
                         /\ last_used' = [last_used EXCEPT ![Demand] = clock + 1]
  BY DEF MissFree
<1>2. Serving /\ Demand \notin Resident /\ occupant[s] = NoExpert
  BY <1>1 DEF MissFree, FirstEmpty, Empty
<1>3. /\ Demand \in Experts /\ clock + 1 \in Nat
      /\ slot_of \in [Experts -> Slots \cup {NoSlot}]
      /\ last_used \in [Experts -> Nat] /\ needed \in Seq(Experts)
  BY <1>2, DemandNeeded DEF IInv, TypeOK
<1>4. NoExpert \notin Experts /\ NoExpert \notin Distinct(needed)
  BY <1>3, ExpertsAssumption DEF Distinct
<1>5. /\ slot_of' \in [Experts -> Slots \cup {NoSlot}]
      /\ \A e \in Experts :
           slot_of'[e] = IF e = Demand THEN s
                         ELSE IF e = NoExpert THEN NoSlot ELSE slot_of[e]
  BY <1>1, <1>3, <1>4
<1>6. /\ last_used' \in [Experts -> Nat]
      /\ \A e \in Experts :
           last_used'[e] = IF e = Demand THEN clock + 1
                           ELSE IF e = NoExpert THEN 0 ELSE last_used[e]
  BY <1>1, <1>3, <1>4
<1>7. QED
  BY <1>1, <1>2, <1>4, <1>5, <1>6, StepLoad

\* A demand served from the slot of the victim.
LEMMA StepMissEvict == IInv /\ MissEvict => IInv'
<1> SUFFICES ASSUME IInv, MissEvict PROVE IInv'
  OBVIOUS
<1>1. PICK v \in Resident :
        /\ LruVictim(v) /\ Load(slot_of[v], v)
        /\ slot_of' = [slot_of EXCEPT ![v] = NoSlot, ![Demand] = slot_of[v]]
        /\ last_used' = [last_used EXCEPT ![v] = 0, ![Demand] = clock + 1]
  BY DEF MissEvict
<1>2. Serving /\ Demand \notin Resident
  BY DEF MissEvict
<1>3. /\ Demand \in Experts /\ clock + 1 \in Nat
      /\ slot_of \in [Experts -> Slots \cup {NoSlot}]
      /\ last_used \in [Experts -> Nat]
  BY <1>2, DemandNeeded DEF IInv, TypeOK
<1>4. /\ v \in Experts /\ v # Demand /\ v \notin Distinct(needed)
      /\ slot_of[v] \in Slots /\ occupant[slot_of[v]] = v
  BY <1>1, <1>2, <1>3 DEF LruVictim, Resident, IInv, IndexAgrees
<1>5. /\ slot_of' \in [Experts -> Slots \cup {NoSlot}]
      /\ \A e \in Experts :
           slot_of'[e] = IF e = Demand THEN slot_of[v]
                         ELSE IF e = v THEN NoSlot ELSE slot_of[e]
  BY <1>1, <1>3, <1>4
<1>6. /\ last_used' \in [Experts -> Nat]
      /\ \A e \in Experts :
           last_used'[e] = IF e = Demand THEN clock + 1
                           ELSE IF e = v THEN 0 ELSE last_used[e]
  BY <1>1, <1>3, <1>4
<1>7. QED
  BY <1>1, <1>2, <1>4, <1>5, <1>6, StepLoad

\* A step may be asked for however long its list of demands is.
LEMMA StepAdmit ==
  ASSUME IInv, NEW ds \in Seq(Experts), Admit(ds)
  PROVE  IInv'
<1>1. stats' \in StatsType
  BY CountedType DEF Admit, IInv, TypeOK
<1>2. QED
  BY <1>1, EmptyPlan DEF Admit, IInv, TypeOK, IndexAgrees, Resident

\* Every step keeps the invariant.
LEMMA StepIInv == IInv /\ [Next]_vars => IInv'
<1> SUFFICES ASSUME IInv, [Next]_vars PROVE IInv'
  OBVIOUS
<1>1. ASSUME NEW ds \in Demands, Admit(ds) PROVE IInv'
  <2>1. ds \in Seq(Experts)
    BY DEF Demands
  <2>2. QED
    BY <1>1, <2>1, StepAdmit
<1>2. ASSUME NEW ds \in Demands, Refuse(ds) PROVE IInv'
  <2>1. ds \in Seq(Experts)
    BY DEF Demands
  <2>2. QED
    BY <1>2, <2>1, EmptyPlan DEF Refuse, cache, IInv, TypeOK, IndexAgrees, Resident
<1>3. CASE Return
  <2>1. UNCHANGED <<cache, needed, next, hits, loads>> /\ at' = "planned"
    BY <1>3 DEF Return
  <2>2. TypeOK' /\ IndexAgrees'
    BY <2>1 DEF cache, IInv, TypeOK, IndexAgrees, Resident
  <2>3. PlanTruth' /\ Covered' /\ Fits' /\ EvictedUnneeded' /\ NothingMovedTwice'
    BY <2>1 DEF cache, IInv, PlanTruth, Covered, Fits, EvictedUnneeded,
       NothingMovedTwice, Planned, Distinct
  <2>4. QED
    BY <2>2, <2>3 DEF IInv
<1>4. CASE ResetStats
  <2>1. stats' \in StatsType
    BY <1>4 DEF ResetStats, ZeroStats, StatsType
  <2>2. UNCHANGED <<occupant, slot_of, last_used, clock>> /\ UNCHANGED call
    BY <1>4 DEF ResetStats
  <2>3. TypeOK' /\ IndexAgrees'
    BY <2>1, <2>2 DEF call, IInv, TypeOK, IndexAgrees, Resident
  <2>4. PlanTruth' /\ Covered'
    BY <2>2 DEF call, IInv, PlanTruth, Covered, Planned, Distinct
  <2>5. Fits' /\ EvictedUnneeded' /\ NothingMovedTwice'
    BY <2>2 DEF call, IInv, Fits, EvictedUnneeded, NothingMovedTwice, Distinct
  <2>6. QED
    BY <2>3, <2>4, <2>5 DEF IInv
<1>5. CASE Clear
  <2>1. <<>> \in Seq(Experts) /\ Start("none", <<>>)
    BY <1>5 DEF Clear
  <2>2. /\ occupant' = [s \in Slots |-> NoExpert]
        /\ slot_of' = [e \in Experts |-> NoSlot]
        /\ last_used' = [e \in Experts |-> 0] /\ clock' = 0
    BY <1>5 DEF Clear
  <2>3. stats' \in StatsType
    BY <1>5 DEF Clear, ZeroStats, StatsType
  <2>4. Resident' = {}
    BY <2>2 DEF Resident
  <2>5. IndexAgrees'
    BY <2>2, <2>4 DEF IndexAgrees
  <2>6. QED
    BY <2>1, <2>2, <2>3, <2>5, EmptyPlan DEF IInv, TypeOK
<1>6. CASE UNCHANGED vars
  <2>1. UNCHANGED <<cache, call>>
    BY <1>6 DEF vars
  <2>2. TypeOK' /\ IndexAgrees'
    BY <2>1 DEF cache, call, IInv, TypeOK, IndexAgrees, Resident
  <2>3. PlanTruth' /\ Covered' /\ Fits' /\ EvictedUnneeded' /\ NothingMovedTwice'
    BY <2>1 DEF cache, call, IInv, PlanTruth, Covered, Fits, EvictedUnneeded,
       NothingMovedTwice, Planned, Distinct
  <2>4. QED
    BY <2>2, <2>3 DEF IInv
<1>7. QED
  BY <1>1, <1>2, <1>3, <1>4, <1>5, <1>6, StepHit, StepMissFree, StepMissEvict
  DEF Next, Serve

\* Every variable stays in its range and every slot a plan names exists.
THEOREM TypeCorrect == Spec => []TypeOK
<1>1. IInv => TypeOK
  BY DEF IInv
<1>2. QED
  BY <1>1, InitIInv, StepIInv, PTL DEF Spec

\* The slots and the reverse index never disagree.
THEOREM IndexAgreesHolds == Spec => []IndexAgrees
<1>1. IInv => IndexAgrees
  BY DEF IInv
<1>2. QED
  BY <1>1, InitIInv, StepIInv, PTL DEF Spec

\* No slot is reused within a step for an expert that same step still needs.
THEOREM PinnedKeptHolds == Spec => []PinnedKept
<1>1. IInv => PinnedKept
  <2> SUFFICES ASSUME IInv, NEW i \in 1 .. (next - 1)
               PROVE  /\ \E s \in Slots : Planned(needed[i], s)
                      /\ \A s \in Slots :
                           Planned(needed[i], s) => occupant[s] = needed[i]
    BY DEF PinnedKept
  <2>1. needed[i] \in Experts
    BY DEF IInv, TypeOK
  <2>2. QED
    BY <2>1 DEF IInv, Covered, PlanTruth
<1>2. QED
  BY <1>1, InitIInv, StepIInv, PTL DEF Spec

\* No transfer of a step is wasted on what the step has already moved.
THEOREM NothingMovedTwiceHolds == Spec => []NothingMovedTwice
<1>1. IInv => NothingMovedTwice
  BY DEF IInv
<1>2. QED
  BY <1>1, InitIInv, StepIInv, PTL DEF Spec

-----------------------------------------------------------------------------
(* The victim of a miss in a full pool.                                    *)

Below == {p \in Nat \X Nat : p[1] < p[2]}

\* The order of the naturals, as a set of pairs, is well founded.
LEMMA BelowWellFounded == IsWellFoundedOn(Below, Nat)
<1>1. OpToRel(<, Nat) = Below
  BY DEF OpToRel, Below
<1>2. QED
  BY <1>1, NatLessThanWellFounded

\* A set of naturals that is not empty has a least element.
LEMMA LeastNat ==
  ASSUME NEW S \in SUBSET Nat, S # {}
  PROVE  \E m \in S : \A k \in S : m <= k
<1>1. PICK m \in S : \A k \in S : ~(<<k, m>> \in Below)
  BY BelowWellFounded, WFMin
<1>2. ASSUME NEW k \in S PROVE m <= k
  <2>1. k \in Nat /\ m \in Nat /\ <<k, m>> \in Nat \X Nat
    OBVIOUS
  <2>2. ~(k < m)
    BY <1>1, <2>1 DEF Below
  <2>3. QED
    BY <2>1, <2>2
<1>3. QED
  BY <1>2

\* There are as many slots as the capacity says.
LEMMA SlotsCount == IsFiniteSet(Slots) /\ Cardinality(Slots) = Capacity
<1> DEFINE last == Capacity - 1
<1>1. last \in Int /\ ~(0 > last) /\ last - 0 + 1 = Capacity
  BY CapacityAssumption
<1>2. /\ IsFiniteSet(0 .. last)
      /\ Cardinality(0 .. last) = IF 0 > last THEN 0 ELSE last - 0 + 1
  BY <1>1, FS_Interval
<1>3. QED
  BY <1>1, <1>2 DEF Slots

\* The demands of a step are finitely many.
LEMMA DistinctFinite ==
  ASSUME TypeOK
  PROVE  IsFiniteSet(Distinct(needed)) /\ Distinct(needed) \in SUBSET Experts
<1>1. Distinct(needed) \in SUBSET Experts
  BY DEF TypeOK, Distinct
<1>2. QED
  BY <1>1, ExpertsAssumption, FS_Subset

\* In a full pool some resident is not needed: Capacity residents cannot all be
\* among the at most Capacity experts of a step one of which is not resident.
LEMMA SomeUnpinned ==
  ASSUME IInv, Serving, Demand \notin Resident, \A s \in Slots : ~Empty(s)
  PROVE  Resident \ Distinct(needed) # {}
<1> SUFFICES ASSUME Resident \subseteq Distinct(needed) PROVE FALSE
  OBVIOUS
<1> DEFINE others == Distinct(needed) \ {Demand}
<1>1. Demand \in Distinct(needed)
  BY DemandNeeded DEF IInv
<1>2. /\ IsFiniteSet(others)
      /\ Cardinality(others) = Cardinality(Distinct(needed)) - 1
      /\ Cardinality(Distinct(needed)) \in Nat
  BY <1>1, DistinctFinite, FS_RemoveElement, FS_CardinalityType DEF IInv
<1>3. Cardinality(others) < Cardinality(Slots)
  BY <1>2, SlotsCount, CapacityAssumption DEF IInv, Fits, Serving
<1>4. \A s \in Slots : occupant[s] \in Resident /\ slot_of[occupant[s]] = s
  <2>1. NoSlot \notin Slots
    BY CapacityAssumption DEF Slots, NoSlot
  <2>2. QED
    BY <2>1 DEF IInv, TypeOK, IndexAgrees, Empty, Resident
<1>5. occupant \in [Slots -> others]
  BY <1>4 DEF IInv, TypeOK
<1>6. \E s, t \in Slots : s # t /\ occupant[s] = occupant[t]
  BY <1>2, <1>3, <1>5, SlotsCount, FS_PigeonHole
<1>7. QED
  BY <1>4, <1>6

\* admit's expect never fires: a miss in a full pool finds a victim.
THEOREM VictimExistsHolds == Spec => []VictimExists
<1>1. IInv => VictimExists
  <2> SUFFICES ASSUME IInv, Serving, Demand \notin Resident, \A s \in Slots : ~Empty(s)
               PROVE  \E v \in Resident : LruVictim(v)
    BY DEF VictimExists
  <2> DEFINE unpinned == Resident \ Distinct(needed)
             uses == {last_used[e] : e \in unpinned}
  <2>1. unpinned # {}
    BY SomeUnpinned
  <2>2. uses \in SUBSET Nat /\ uses # {}
    <3>1. \A e \in unpinned : last_used[e] \in Nat
      BY DEF IInv, TypeOK, Resident
    <3>2. PICK e \in unpinned : TRUE
      BY <2>1
    <3>3. last_used[e] \in uses
      OBVIOUS
    <3>4. QED
      BY <3>1, <3>3
  <2>3. PICK m \in uses : \A k \in uses : m <= k
    <3> HIDE DEF uses
    <3> QED
      BY <2>2, LeastNat
  <2>4. QED
    BY <2>3 DEF LruVictim
<1>2. QED
  BY <1>1, InitIInv, StepIInv, PTL DEF Spec

\* What decode relies on when it computes with the slots of a plan.
THEOREM CacheIsSoundHolds == Spec => []CacheIsSound
<1>1. IndexAgrees /\ PinnedKept /\ VictimExists => CacheIsSound
  BY DEF CacheIsSound
<1>2. QED
  BY <1>1, IndexAgreesHolds, PinnedKeptHolds, VictimExistsHolds, PTL

-----------------------------------------------------------------------------
(* The refinement of PinnedLru.                                            *)

\* An empty slot leaves room for a resident more; without one the pool is full.
LEMMA RoomOrFull ==
  ASSUME IInv
  PROVE  /\ (\E s \in Slots : Empty(s)) => Cardinality(Resident) < Capacity
         /\ (\A s \in Slots : ~Empty(s)) => Cardinality(Resident) = Capacity
<1>1. /\ \A e \in Resident : slot_of[e] \in Slots /\ occupant[slot_of[e]] = e
      /\ \A d, e \in Resident : slot_of[d] = slot_of[e] => d = e
      /\ NoExpert \notin Resident
  BY ExpertsAssumption DEF IInv, TypeOK, IndexAgrees, Resident
<1> DEFINE place == [e \in Resident |-> slot_of[e]]
<1>2. ASSUME NEW s \in Slots, Empty(s) PROVE Cardinality(Resident) < Capacity
  <2> DEFINE taken == Slots \ {s}
  <2>1. /\ IsFiniteSet(taken) /\ Cardinality(taken) = Capacity - 1
    BY SlotsCount, FS_RemoveElement
  <2>2. place \in [Resident -> taken]
    BY <1>1, <1>2 DEF Empty
  <2>3. place \in Injection(Resident, taken)
    BY <1>1, <2>2 DEF Injection, IsInjective
  <2>4. Cardinality(Resident) <= Cardinality(taken) /\ IsFiniteSet(Resident)
    BY <2>1, <2>3, FS_Injection
  <2>5. QED
    BY <2>1, <2>4, CapacityAssumption, FS_CardinalityType
<1>3. ASSUME \A s \in Slots : ~Empty(s) PROVE Cardinality(Resident) = Capacity
  <2>1. \A s \in Slots : occupant[s] \in Resident /\ slot_of[occupant[s]] = s
    <3>1. NoSlot \notin Slots
      BY CapacityAssumption DEF Slots, NoSlot
    <3>2. QED
      BY <1>3, <3>1 DEF IInv, TypeOK, IndexAgrees, Empty, Resident
  <2>2. place \in [Resident -> Slots]
    BY <1>1
  <2>3. place \in Injection(Resident, Slots)
    BY <1>1, <2>2 DEF Injection, IsInjective
  <2>4. place \in Surjection(Resident, Slots)
    BY <2>1, <2>2 DEF Surjection
  <2>5. QED
    BY <2>3, <2>4, SlotsCount, FS_Injection
<1>4. QED
  BY <1>2, <1>3

\* What use of a resident, or of a newcomer in the place of another, does to the
\* order the timestamps stand for.
LEMMA NewestIsLast ==
  ASSUME IInv, NEW e \in Experts, NEW gone,
         \A x \in Experts :
           x # e /\ x # gone => last_used'[x] = last_used[x],
         last_used'[e] = clock + 1,
         Resident' = (Resident \ {gone}) \cup {e}
  PROVE  Older' = Pool!Using(e, gone)
<1>1. \A x \in Resident : /\ x \in Experts /\ last_used[x] \in Nat
                          /\ last_used[x] < clock + 1
  BY DEF IInv, TypeOK, IndexAgrees, Resident
<1>2. clock \in Nat
  BY DEF IInv, TypeOK
<1>3. ASSUME NEW p \in Older' PROVE p \in Pool!Using(e, gone)
  <2>1. PICK a \in Resident', b \in Resident' : p = <<a, b>>
    BY <1>3 DEF Older
  <2>2. last_used'[a] < last_used'[b]
    BY <1>3, <2>1 DEF Older
  <2>3. a # e
    BY <1>1, <1>2, <2>1, <2>2
  <2>4. a \in Resident \ {e, gone}
    BY <2>1, <2>3
  <2>5. CASE b = e
    BY <2>1, <2>4, <2>5 DEF Pool!Using
  <2>6. CASE b # e
    <3>1. b \in Resident \ {e, gone}
      BY <2>1, <2>6
    <3>2. last_used[a] < last_used[b]
      BY <1>1, <2>2, <2>4, <3>1
    <3>3. p \in Older
      BY <2>1, <2>4, <3>1, <3>2 DEF Older
    <3>4. QED
      BY <2>1, <2>4, <3>1, <3>3 DEF Pool!Using
  <2>7. QED
    BY <2>5, <2>6
<1>4. ASSUME NEW p \in Pool!Using(e, gone) PROVE p \in Older'
  <2>1. CASE \E x \in Resident \ {e, gone} : p = <<x, e>>
    BY <1>1, <1>2, <2>1 DEF Older
  <2>2. CASE p \in Older /\ p[1] \notin {e, gone} /\ p[2] \notin {e, gone}
    <3>1. PICK a \in Resident, b \in Resident : p = <<a, b>> /\ last_used[a] < last_used[b]
      BY <2>2 DEF Older
    <3>2. a \in Resident' /\ b \in Resident'
      BY <2>2, <3>1
    <3>3. last_used'[a] < last_used'[b]
      BY <1>1, <2>2, <3>1
    <3>4. QED
      BY <3>1, <3>2, <3>3 DEF Older
  <2>3. QED
    BY <1>4, <2>1, <2>2 DEF Pool!Using
<1>5. QED
  BY <1>3, <1>4

\* PinnedLru counts with the same Cardinality.
LEMMA SameCount == \A S : Pool!Cardinality(S) = Cardinality(S)
BY DEF Pool!Cardinality, Pool!IsFiniteSet, Cardinality, IsFiniteSet

\* An empty cache is an empty pool.
LEMMA InitRefines == Init => Pool!Init
BY DEF Init, Pool!Init, Older, Pinned, Used, Resident

\* Serving a demand adds it to those the step has used.
LEMMA UsedGrows ==
  ASSUME IInv, Serving, at' = at, needed' = needed, next' = next + 1
  PROVE  Used' = Used \cup {Demand}
<1>1. /\ at = "serving" /\ next \in 1 .. (Len(needed) + 1) /\ needed \in Seq(Experts)
      /\ next \in Nat
  BY DEF Serving, IInv, TypeOK
<1>2. 1 .. (next' - 1) = (1 .. (next - 1)) \cup {next}
  BY <1>1
<1>3. QED
  BY <1>1, <1>2 DEF Used, Demand

\* A hit is a use of the pool.
LEMMA HitRefines ==
  ASSUME IInv, Hit
  PROVE  Pool!Touch(Demand)
<1>1. Demand \in Experts /\ Demand \in Distinct(needed) /\ at = "serving"
  BY DemandNeeded DEF IInv, Hit, Serving
<1>2. /\ Demand \in Resident /\ slot_of' = slot_of /\ at' = at /\ needed' = needed
      /\ last_used' = [last_used EXCEPT ![Demand] = clock + 1]
      /\ last_used \in [Experts -> Nat]
  BY DEF Hit, IInv, TypeOK
<1>3. Resident' = Resident /\ Pinned' = Pinned /\ Demand \in Pinned
  BY <1>1, <1>2 DEF Resident, Pinned, Distinct
<1>4. Older' = Pool!Using(Demand, Demand)
  <2>1. Resident' = (Resident \ {Demand}) \cup {Demand}
    BY <1>2, <1>3
  <2>2. QED
    BY <1>1, <1>2, <2>1, NewestIsLast
<1>5. Used' = Used \cup {Demand}
  BY UsedGrows DEF Hit
<1>6. QED
  BY <1>2, <1>3, <1>4, <1>5 DEF Pool!Touch

\* A miss into an empty slot is a fetch that evicts nothing.
LEMMA MissFreeRefines ==
  ASSUME IInv, MissFree
  PROVE  Pool!Fetch(Demand)
<1>1. /\ Demand \in Experts /\ Demand \in Distinct(needed) /\ at = "serving"
      /\ Demand \notin Resident
  BY DemandNeeded DEF IInv, MissFree, Serving
<1>2. PICK s \in Slots : /\ Empty(s) /\ Load(s, NoExpert)
                         /\ slot_of' = [slot_of EXCEPT ![Demand] = s]
                         /\ last_used' = [last_used EXCEPT ![Demand] = clock + 1]
  BY DEF MissFree, FirstEmpty
<1>3. /\ slot_of \in [Experts -> Slots \cup {NoSlot}] /\ last_used \in [Experts -> Nat]
      /\ at' = at /\ needed' = needed /\ s # NoSlot
  BY <1>2, CapacityAssumption DEF Load, IInv, TypeOK, Slots, NoSlot
<1>4. Resident' = Resident \cup {Demand} /\ Pinned' = Pinned /\ Demand \in Pinned
  BY <1>1, <1>2, <1>3 DEF Resident, Pinned, Distinct
<1>5. Older' = Pool!Using(Demand, Demand)
  <2>1. Resident' = (Resident \ {Demand}) \cup {Demand}
    BY <1>4
  <2>2. QED
    BY <1>1, <1>2, <1>3, <2>1, NewestIsLast
<1>6. Cardinality(Resident) < Capacity
  BY <1>2, RoomOrFull
<1>7. Used' = Used \cup {Demand}
  BY <1>2, UsedGrows DEF MissFree, Load
<1>8. QED
  BY <1>1, <1>3, <1>4, <1>5, <1>6, <1>7, SameCount DEF Pool!Fetch

\* A miss into an occupied one is a fetch that evicts the least recently used.
LEMMA MissEvictRefines ==
  ASSUME IInv, MissEvict
  PROVE  Pool!Replace(Demand)
<1>1. /\ Demand \in Experts /\ Demand \in Distinct(needed) /\ at = "serving"
      /\ Demand \notin Resident
  BY DemandNeeded DEF IInv, MissEvict, Serving
<1>2. PICK v \in Resident :
        /\ LruVictim(v) /\ Load(slot_of[v], v)
        /\ slot_of' = [slot_of EXCEPT ![v] = NoSlot, ![Demand] = slot_of[v]]
        /\ last_used' = [last_used EXCEPT ![v] = 0, ![Demand] = clock + 1]
  BY DEF MissEvict
<1>3. /\ slot_of \in [Experts -> Slots \cup {NoSlot}] /\ last_used \in [Experts -> Nat]
      /\ at' = at /\ needed' = needed /\ v \in Experts /\ v # Demand
      /\ slot_of[v] # NoSlot
  BY <1>1, <1>2 DEF Load, IInv, TypeOK, Resident
<1>4. Resident' = (Resident \ {v}) \cup {Demand}
  BY <1>1, <1>2, <1>3 DEF Resident
<1>5. Pinned' = Pinned /\ Demand \in Pinned /\ Pinned = Distinct(needed)
  BY <1>1, <1>3 DEF Pinned, Distinct
<1>6. Older' = Pool!Using(Demand, v)
  BY <1>1, <1>2, <1>3, <1>4, NewestIsLast
<1>7. /\ v \in Resident \ Pinned
      /\ \A x \in Resident \ Pinned : <<x, v>> \notin Older
  <2>1. \A x \in Resident \ Pinned : last_used[v] <= last_used[x]
    BY <1>2, <1>5 DEF LruVictim
  <2>2. \A x \in Resident : last_used[x] \in Nat
    BY <1>3 DEF Resident
  <2>3. \A x \in Resident \ Pinned : ~(last_used[x] < last_used[v])
    BY <2>1, <2>2
  <2>4. QED
    BY <1>2, <1>5, <2>3 DEF LruVictim, Older
<1>8. Cardinality(Resident) = Capacity
  BY RoomOrFull DEF MissEvict
<1>9. Used' = Used \cup {Demand}
  BY <1>2, UsedGrows DEF MissEvict, Load
<1>10. QED
  BY <1>1, <1>3, <1>4, <1>5, <1>6, <1>7, <1>8, <1>9, SameCount DEF Pool!Replace

\* Handing the plan over moves nothing in the pool.
LEMMA ReturnRefines ==
  ASSUME IInv, Return
  PROVE  Pool!HandOver
<1>1. /\ at = "serving" /\ at' = "planned" /\ next = Len(needed) + 1
      /\ needed \in Seq(Experts) /\ slot_of' = slot_of /\ last_used' = last_used
  BY DEF Return, cache, IInv, TypeOK
<1>2. ASSUME NEW e \in Distinct(needed) PROVE e \in Resident
  <2>1. PICK i \in 1 .. Len(needed) : e = needed[i]
    BY <1>1 DEF Distinct
  <2>2. i \in 1 .. (next - 1) /\ e \in Experts
    BY <1>1, <2>1
  <2>3. PICK s \in Slots : Planned(e, s)
    BY <2>1, <2>2 DEF IInv, Covered
  <2>4. occupant[s] = e
    BY <2>2, <2>3 DEF IInv, PlanTruth
  <2>5. slot_of[e] = s
    BY <2>2, <2>4, ExpertsAssumption DEF IInv, IndexAgrees
  <2>6. QED
    BY <2>2, <2>5, CapacityAssumption DEF Resident, Slots, NoSlot
<1>3. /\ Pinned = Distinct(needed) /\ Pinned' = {}
      /\ Resident' = Resident /\ Older' = Older
  BY <1>1 DEF Pinned, Resident, Older
<1>4. Used = Pinned /\ Used' = {}
  <2>1. DOMAIN needed = 1 .. (next - 1)
    BY <1>1
  <2>2. QED
    BY <1>1, <1>3, <2>1 DEF Used, Distinct
<1>5. QED
  BY <1>1, <1>2, <1>3, <1>4 DEF Pool!HandOver

\* Every step of the cache is a step of the pool or leaves it alone.
LEMMA StepRefines ==
  ASSUME IInv, [Next]_vars
  PROVE  [Pool!Next]_(Pool!vars)
<1> USE DEF Pool!vars
<1>1. ASSUME NEW ds \in Demands, Admit(ds) PROVE Pool!Pin
  <2>1. /\ ds \in Seq(Experts) /\ needed' = ds /\ at' = "serving" /\ at # "serving"
        /\ slot_of' = slot_of /\ last_used' = last_used
        /\ Cardinality(Distinct(ds)) <= Capacity
    BY <1>1 DEF Admit, Start, Demands
  <2>2. Distinct(ds) \in SUBSET Experts
    BY <2>1 DEF Distinct
  <2>3. Pinned' = Distinct(ds) /\ Resident' = Resident /\ Older' = Older
    BY <2>1 DEF Pinned, Resident, Older, Distinct
  <2>4. Used' = {}
    <3>1. next' = 1
      BY <1>1 DEF Admit, Start
    <3>2. QED
      BY <2>1, <3>1 DEF Used
  <2>5. QED
    BY <2>1, <2>2, <2>3, <2>4, SameCount DEF Pool!Pin
<1>2. ASSUME NEW ds \in Demands, Refuse(ds) PROVE UNCHANGED Pool!vars
  BY <1>2 DEF Refuse, Start, cache, Pinned, Used, Resident, Older
<1>3. CASE Hit
  <2>1. Demand \in Experts
    BY <1>3, DemandNeeded DEF IInv, Hit
  <2>2. QED
    BY <1>3, <2>1, HitRefines DEF Pool!Next
<1>4. CASE MissFree
  <2>1. Demand \in Experts
    BY <1>4, DemandNeeded DEF IInv, MissFree
  <2>2. QED
    BY <1>4, <2>1, MissFreeRefines DEF Pool!Next
<1>5. CASE MissEvict
  <2>1. Demand \in Experts
    BY <1>5, DemandNeeded DEF IInv, MissEvict
  <2>2. QED
    BY <1>5, <2>1, MissEvictRefines DEF Pool!Next
<1>6. CASE Return
  BY <1>6, ReturnRefines DEF Pool!Next
<1>7. CASE ResetStats
  BY <1>7 DEF ResetStats, call, Pinned, Used, Resident, Older, Distinct
<1>8. CASE Clear
  <2>1. Resident' = {} /\ Older' = {}
    BY <1>8 DEF Clear, Resident, Older
  <2>2. at # "serving" /\ at' # "serving" /\ Pinned = {} /\ Pinned' = {}
        /\ Used = {} /\ Used' = {}
    BY <1>8 DEF Clear, Start, Pinned, Used
  <2>3. QED
    BY <2>1, <2>2 DEF Pool!Next, Pool!Forget
<1>9. CASE UNCHANGED vars
  BY <1>9 DEF vars, cache, call, Pinned, Used, Resident, Older, Distinct
<1>10. QED
  BY <1>1, <1>2, <1>3, <1>4, <1>5, <1>6, <1>7, <1>8, <1>9 DEF Next, Serve, Pool!Next

\* The cache is an LRU pool that pins the experts of the step being planned and
\* hands a plan over only when all of them are present.
THEOREM PinnedLruImplemented == Spec => ImplementsPinnedLru
BY InitIInv, StepIInv, InitRefines, StepRefines, PTL
DEF Spec, ImplementsPinnedLru, Pool!Spec
=============================================================================
