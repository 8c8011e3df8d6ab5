----------------------------- MODULE ExpertCache -----------------------------
(***************************************************************************)
(* The LRU expert cache of crates/moearc-engine/src/cache.rs: which slot   *)
(* of the device pool holds which expert, and what one step must move.     *)
(*                                                                         *)
(* admit is one call that loops over the router's demands.  It is modelled *)
(* one demand per step, so that what the call has promised halfway through *)
(* can be stated.  The two HashMaps are total functions here: an expert    *)
(* without an entry has NoSlot and last use 0, the value lru_victim        *)
(* assumes for a missing entry.  The two lists of a plan are sets: the     *)
(* loads of one plan never share a slot, so their order decides nothing.   *)
(***************************************************************************)
EXTENDS Integers, FiniteSets, Sequences

CONSTANTS
  Experts,      \* the (block, expert) pairs of the model
  NoExpert,     \* what a slot that was never filled holds
  Capacity,     \* the slots of the pool
  MaxDemands,   \* bound on the demands of one step
  MaxClock,     \* bound on the demands between two clears
  MaxSteps      \* bound on the steps between two resets of the counters

ASSUME ExpertsAssumption == IsFiniteSet(Experts) /\ NoExpert \notin Experts
ASSUME CapacityAssumption == Capacity \in Nat \ {0}
ASSUME BoundsAssumption ==
  MaxDemands \in Nat /\ MaxClock \in Nat /\ MaxSteps \in Nat

VARIABLES
  occupant, slot_of, last_used, clock, stats,
  at,         \* where the last call to admit is: "serving" until it returns
  needed,     \* its demands, in the order the router produced them
  next,       \* the demand it serves next
  hits, loads \* its plan

cache == <<occupant, slot_of, last_used, clock, stats>>
call == <<at, needed, next, hits, loads>>
vars == <<cache, call>>

Slots == 0 .. (Capacity - 1)
NoSlot == Capacity
Resident == {e \in Experts : slot_of[e] # NoSlot}
ZeroStats == [steps |-> 0, demands |-> 0, hits |-> 0, misses |-> 0, evictions |-> 0]
StatsType == [steps : Nat, demands : Nat, hits : Nat, misses : Nat, evictions : Nat]

Distinct(s) == {s[i] : i \in DOMAIN s}
Demand == needed[next]

\* A call for the demands ds that has planned nothing yet.
Start(to, ds) ==
  at' = to /\ needed' = ds /\ next' = 1 /\ hits' = {} /\ loads' = {}

Init ==
  /\ occupant = [s \in Slots |-> NoExpert]
  /\ slot_of = [e \in Experts |-> NoSlot]
  /\ last_used = [e \in Experts |-> 0]
  /\ clock = 0 /\ stats = ZeroStats
  /\ at = "none" /\ needed = <<>> /\ next = 1 /\ hits = {} /\ loads = {}

\* The counters moved on by so many steps, demands, hits, misses and evictions.
Counted(s, d, h, m, v) ==
  [steps |-> stats.steps + s, demands |-> stats.demands + d, hits |-> stats.hits + h,
   misses |-> stats.misses + m, evictions |-> stats.evictions + v]

-----------------------------------------------------------------------------
\* admit up to its loop: the whole demand is checked against the capacity first.
Admit(ds) ==
  /\ at # "serving"
  /\ Cardinality(Distinct(ds)) <= Capacity
  /\ stats' = Counted(1, 0, 0, 0, 0)
  /\ Start("serving", ds)
  /\ UNCHANGED <<occupant, slot_of, last_used, clock>>

\* StepExceedsCapacity: the call returns having changed nothing.
Refuse(ds) ==
  /\ at # "serving"
  /\ Cardinality(Distinct(ds)) > Capacity
  /\ Start("refused", ds)
  /\ UNCHANGED cache

Serving == at = "serving" /\ next \in DOMAIN needed

HitWithoutTouch ==
  /\ Serving /\ Demand \in Resident
  /\ clock' = clock + 1
  /\ stats' = Counted(0, 1, 1, 0, 0)
  /\ hits' = IF \E l \in loads : l.expert = Demand
               THEN hits
               ELSE hits \cup {[expert |-> Demand, slot |-> slot_of[Demand]]}
  /\ next' = next + 1
  /\ UNCHANGED <<at, needed, loads, occupant, slot_of, last_used>>

\* A demand for a resident expert.  It is reported in the plan's hits once, and
\* not at all when this very call is fetching it.
Hit ==
  /\ Serving /\ Demand \in Resident
  /\ clock' = clock + 1
  /\ last_used' = [last_used EXCEPT ![Demand] = clock + 1]
  /\ stats' = Counted(0, 1, 1, 0, 0)
  /\ hits' = IF \E l \in loads : l.expert = Demand
               THEN hits
               ELSE hits \cup {[expert |-> Demand, slot |-> slot_of[Demand]]}
  /\ next' = next + 1
  /\ UNCHANGED <<at, needed, loads, occupant, slot_of>>

Empty(s) == occupant[s] = NoExpert
FirstEmpty(s) == Empty(s) /\ \A t \in Slots : t < s => ~Empty(t)

\* lru_victim: the least recently used resident expert this step does not need.
LruVictim(v) ==
  /\ v \in Resident \ Distinct(needed)
  /\ \A e \in Resident \ Distinct(needed) : last_used[v] <= last_used[e]

\* What a miss leaves behind, with the demand in slot s and evicted displaced.
Load(s, evicted) ==
  /\ clock' = clock + 1
  /\ occupant' = [occupant EXCEPT ![s] = Demand]
  /\ stats' = Counted(0, 1, 0, 1, IF evicted = NoExpert THEN 0 ELSE 1)
  /\ loads' = loads \cup {[expert |-> Demand, slot |-> s, evicted |-> evicted]}
  /\ next' = next + 1
  /\ UNCHANGED <<at, needed, hits>>

MissFreeByCount ==
  /\ Serving /\ Demand \notin Resident
  /\ \E s \in {Cardinality({t \in Slots : Empty(t)})} :
       /\ s # 0
       /\ slot_of' = [slot_of EXCEPT ![Demand] = s]
       /\ last_used' = [last_used EXCEPT ![Demand] = clock + 1]
       /\ Load(s, NoExpert)

MissFree ==
  /\ Serving /\ Demand \notin Resident
  /\ \E s \in Slots :
       /\ FirstEmpty(s)
       /\ slot_of' = [slot_of EXCEPT ![Demand] = s]
       /\ last_used' = [last_used EXCEPT ![Demand] = clock + 1]
       /\ Load(s, NoExpert)

EvictForgettingUnmap ==
  /\ Serving /\ Demand \notin Resident /\ \A s \in Slots : ~Empty(s)
  /\ \E v \in Resident :
       /\ LruVictim(v)
       /\ slot_of' = [slot_of EXCEPT ![Demand] = slot_of[v]]
       /\ last_used' = [last_used EXCEPT ![v] = 0, ![Demand] = clock + 1]
       /\ Load(slot_of[v], v)

EvictUnpinned ==
  /\ Serving /\ Demand \notin Resident /\ \A s \in Slots : ~Empty(s)
  /\ \E v \in Resident :
       /\ \A e \in Resident : last_used[v] <= last_used[e]
       /\ slot_of' = [slot_of EXCEPT ![v] = NoSlot, ![Demand] = slot_of[v]]
       /\ last_used' = [last_used EXCEPT ![v] = 0, ![Demand] = clock + 1]
       /\ Load(slot_of[v], v)

MissEvict ==
  /\ Serving /\ Demand \notin Resident /\ \A s \in Slots : ~Empty(s)
  /\ \E v \in Resident :
       /\ LruVictim(v)
       /\ slot_of' = [slot_of EXCEPT ![v] = NoSlot, ![Demand] = slot_of[v]]
       /\ last_used' = [last_used EXCEPT ![v] = 0, ![Demand] = clock + 1]
       /\ Load(slot_of[v], v)

Return ==
  /\ at = "serving" /\ next = Len(needed) + 1
  /\ at' = "planned"
  /\ UNCHANGED <<cache, needed, next, hits, loads>>

\* reset_stats: the counters only; what is resident stays.
ResetStats ==
  /\ at # "serving"
  /\ stats' = ZeroStats
  /\ UNCHANGED <<occupant, slot_of, last_used, clock, call>>

\* Admission::clear replaces the cache by a new one of the same capacity; what
\* an earlier plan said is void.
Clear ==
  /\ at # "serving"
  /\ occupant' = [s \in Slots |-> NoExpert]
  /\ slot_of' = [e \in Experts |-> NoSlot]
  /\ last_used' = [e \in Experts |-> 0]
  /\ clock' = 0 /\ stats' = ZeroStats
  /\ Start("none", <<>>)

Serve == Hit \/ MissFree \/ MissEvict \/ Return

\* The steps decode may ask for, within the bounds of the model.
Demands == UNION {[1 .. n -> Experts] : n \in 0 .. MaxDemands}
Bounded(ds) == clock + Len(ds) <= MaxClock /\ stats.steps < MaxSteps

Next ==
  \/ \E ds \in Demands : Bounded(ds) /\ (Admit(ds) \/ Refuse(ds))
  \/ Serve \/ ResetStats \/ Clear

Spec == Init /\ [][Next]_vars

-----------------------------------------------------------------------------
(* What decode may rely on: a pool that pins the step it is serving.       *)
Older == {p \in Resident \X Resident : last_used[p[1]] < last_used[p[2]]}
Pinned == IF at = "serving" THEN Distinct(needed) ELSE {}
Used == IF at = "serving" THEN {needed[i] : i \in 1 .. (next - 1)} ELSE {}

Pool == INSTANCE PinnedLru WITH
  resident <- Resident, older <- Older, pinned <- Pinned, used <- Used,
  serving <- at = "serving"

\* The timestamps implement the order of use, the slots implement the places,
\* and a plan is returned only when every expert of the step is present.
ImplementsPinnedLru == Pool!Spec

-----------------------------------------------------------------------------
(* Properties.                                                             *)

LoadType == [expert : Experts, slot : Slots, evicted : Experts \cup {NoExpert}]
HitType == [expert : Experts, slot : Slots]

\* Every variable stays in its range; every slot a plan names exists.
TypeOK ==
  /\ occupant \in [Slots -> Experts \cup {NoExpert}]
  /\ slot_of \in [Experts -> Slots \cup {NoSlot}]
  /\ last_used \in [Experts -> Nat] /\ clock \in Nat
  /\ stats \in StatsType
  /\ at \in {"none", "serving", "planned", "refused"}
  /\ needed \in Seq(Experts) /\ next \in 1 .. (Len(needed) + 1)
  /\ hits \subseteq HitType /\ loads \subseteq LoadType

\* The reverse index agrees with the slots, in both directions, and no two
\* residents were last used at the same time.
IndexAgrees ==
  /\ \A s \in Slots : occupant[s] # NoExpert => slot_of[occupant[s]] = s
  /\ \A e \in Resident : occupant[slot_of[e]] = e
  /\ \A e \in Resident : last_used[e] \in 1 .. clock
  /\ \A d, e \in Resident : last_used[d] = last_used[e] => d = e

\* Where the plan says an expert is once the plan has been executed.
Planned(e, s) ==
  \/ [expert |-> e, slot |-> s] \in hits
  \/ \E l \in loads : l.expert = e /\ l.slot = s

\* "A slot being reused within a step must not evict an expert that same step
\* still needs": every demand served so far has a slot in the plan, and it is
\* still in that slot, whatever the later demands displaced.
PinnedKept ==
  \A i \in 1 .. (next - 1) :
    /\ \E s \in Slots : Planned(needed[i], s)
    /\ \A s \in Slots : Planned(needed[i], s) => occupant[s] = needed[i]

\* "capacity >= step demand guarantees an unpinned slot": a miss in a full pool
\* always finds somebody to evict, so admit's expect never fires.
VictimExists ==
  Serving /\ Demand \notin Resident /\ (\A s \in Slots : ~Empty(s))
    => \E v \in Resident : LruVictim(v)

\* What decode relies on when it computes with the slots of a plan (cache.rs): the map and
\* the slots agree, the plan's experts are where it says, and planning never fails half-way.
CacheIsSound == IndexAgrees /\ PinnedKept /\ VictimExists

\* A step moves only what it must: no expert is fetched twice, no slot filled
\* twice, and nothing the step fetched or found resident is given up for it.
NothingMovedTwice ==
  \A l, m \in loads :
    /\ l # m => l.expert # m.expert /\ l.slot # m.slot
    /\ l.evicted # m.expert
    /\ \A h \in hits : h.slot # l.slot /\ h.expert # l.expert
=============================================================================
