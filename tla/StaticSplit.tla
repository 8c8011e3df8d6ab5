----------------------------- MODULE StaticSplit -----------------------------
(***************************************************************************)
(* StaticSplit of crates/moearc-engine/src/moe.rs, the other admission     *)
(* policy of a model: the experts of the blocks below the split own a slot *)
(* each, those above it share a ring of n_expert_used slots, overwritten   *)
(* in turn except where the step being served still needs the occupant.    *)
(*                                                                         *)
(* admit is one action per demand, as in ExpertCache; loads and hits are   *)
(* its plan.  The error return of the loop (no victim) is not an action:   *)
(* VictimExists says it is never taken.                                    *)
(***************************************************************************)
EXTENDS Integers, Sequences, FiniteSets

CONSTANTS
  Blocks,          \* the number of blocks, from 0
  NExpert,         \* the experts of a block, from 0
  ResidentBlocks,  \* the blocks below the split
  RingSlots,       \* n_expert_used
  NoExpert,        \* what a ring position holds before it is filled
  MaxDemands,      \* bound on the demands of a call
  MaxSteps         \* bound on the calls between two resets of the counters

\* Assumed by Model, which chooses the policy.
ShapeAssumption ==
  /\ Blocks \in Nat \ {0} /\ NExpert \in Nat \ {0} /\ RingSlots \in Nat \ {0}
  /\ ResidentBlocks \in 0 .. Blocks
  /\ NoExpert \notin (0 .. (Blocks - 1)) \X (0 .. (NExpert - 1))
BoundsAssumption == MaxDemands \in Nat /\ MaxSteps \in Nat

VARIABLES
  pinned_filled,      \* the slots below the split that have been filled
  ring, ring_next, stats,
  at, needed, next,   \* the call to admit and the demand it serves next
  hits, loads         \* its plan

policy == <<pinned_filled, ring, ring_next, stats>>
call == <<at, needed, next, hits, loads>>
vars == <<policy, call>>

ExpertRefs == (0 .. (Blocks - 1)) \X (0 .. (NExpert - 1))
Pinned(e) == e[1] < ResidentBlocks
PinnedSlots == 0 .. (ResidentBlocks * NExpert - 1)
PinnedSlot(e) == e[1] * NExpert + e[2]
RingBase == ResidentBlocks * NExpert
Positions == 0 .. (RingSlots - 1)

Distinct(s) == {s[i] : i \in DOMAIN s}
Demand == needed[next]
ZeroStats == [steps |-> 0, demands |-> 0, hits |-> 0, misses |-> 0, evictions |-> 0]

ResidentInFirst(e) ==
  IF Pinned(e) THEN pinned_filled[PinnedSlot(e)] ELSE ring[0] = e

\* resident: what the host policy asks before admit is told.
Resident(e) ==
  IF Pinned(e) THEN pinned_filled[PinnedSlot(e)] ELSE \E p \in Positions : ring[p] = e

Start(to, ds) == at' = to /\ needed' = ds /\ next' = 1 /\ hits' = {} /\ loads' = {}

Init ==
  /\ pinned_filled = [s \in PinnedSlots |-> FALSE]
  /\ ring = [p \in Positions |-> NoExpert] /\ ring_next = 0 /\ stats = ZeroStats
  /\ at = "none" /\ needed = <<>> /\ next = 1 /\ hits = {} /\ loads = {}

Counted(s, d, h, m, v) ==
  [steps |-> stats.steps + s, demands |-> stats.demands + d, hits |-> stats.hits + h,
   misses |-> stats.misses + m, evictions |-> stats.evictions + v]

\* The demands for the ring, counted with their repetitions.
Streaming(ds) == Cardinality({i \in DOMAIN ds : ~Pinned(ds[i])})

Admit(ds) ==
  /\ at # "serving" /\ Streaming(ds) <= RingSlots
  /\ stats' = Counted(1, 0, 0, 0, 0)
  /\ Start("serving", ds)
  /\ UNCHANGED <<pinned_filled, ring, ring_next>>

Refuse(ds) ==
  /\ at # "serving" /\ Streaming(ds) > RingSlots
  /\ Start("refused", ds)
  /\ UNCHANGED policy

Serving == at = "serving" /\ next \in DOMAIN needed

\* What serving a demand leaves behind, whichever way it was served.
Served(hit, load) ==
  /\ hits' = hits \cup hit /\ loads' = loads \cup load
  /\ next' = next + 1
  /\ UNCHANGED <<at, needed>>

HitPinned ==
  /\ Serving /\ Pinned(Demand) /\ Resident(Demand)
  /\ stats' = Counted(0, 1, 1, 0, 0)
  /\ Served({[expert |-> Demand, slot |-> PinnedSlot(Demand)]}, {})
  /\ UNCHANGED <<pinned_filled, ring, ring_next>>

\* A pinned expert costs one transfer, the first time it is asked for.
FillPinned ==
  /\ Serving /\ Pinned(Demand) /\ ~Resident(Demand)
  /\ stats' = Counted(0, 1, 0, 1, 0)
  /\ pinned_filled' = [pinned_filled EXCEPT ![PinnedSlot(Demand)] = TRUE]
  /\ Served({}, {[expert |-> Demand, slot |-> PinnedSlot(Demand), evicted |-> NoExpert]})
  /\ UNCHANGED <<ring, ring_next>>

HitRing ==
  /\ Serving /\ ~Pinned(Demand)
  /\ \E p \in Positions :
       /\ ring[p] = Demand
       /\ Served({[expert |-> Demand, slot |-> RingBase + p]}, {})
  /\ stats' = Counted(0, 1, 1, 0, 0)
  /\ UNCHANGED <<pinned_filled, ring, ring_next>>

\* next_victim: the first position from ring_next on, cyclically, whose occupant
\* the step does not need.
Ahead(p) == (p + RingSlots - ring_next) % RingSlots
Needed(p) == ring[p] \in Distinct(needed)
NextVictim(p) ==
  ~Needed(p) /\ \A q \in Positions : ~Needed(q) => Ahead(p) <= Ahead(q)

ReplaceUnwrapped(p) ==
  /\ ring' = [ring EXCEPT ![p] = Demand]
  /\ ring_next' = p + 1
  /\ stats' = Counted(0, 1, 0, 1, IF ring[p] = NoExpert THEN 0 ELSE 1)
  /\ Served({}, {[expert |-> Demand, slot |-> RingBase + p, evicted |-> ring[p]]})

\* The demand takes position p, and the search goes on after it.
Replace(p) ==
  /\ ring' = [ring EXCEPT ![p] = Demand]
  /\ ring_next' = (p + 1) % RingSlots
  /\ stats' = Counted(0, 1, 0, 1, IF ring[p] = NoExpert THEN 0 ELSE 1)
  /\ Served({}, {[expert |-> Demand, slot |-> RingBase + p, evicted |-> ring[p]]})

MissRingRoundRobin ==
  /\ Serving /\ ~Pinned(Demand) /\ ~Resident(Demand)
  /\ Replace(ring_next)
  /\ UNCHANGED pinned_filled

MissRing ==
  /\ Serving /\ ~Pinned(Demand) /\ ~Resident(Demand)
  /\ \E p \in Positions : NextVictim(p) /\ Replace(p)
  /\ UNCHANGED pinned_filled

Return ==
  /\ at = "serving" /\ next = Len(needed) + 1
  /\ at' = "planned"
  /\ UNCHANGED <<policy, needed, next, hits, loads>>

ResetStats ==
  /\ at # "serving"
  /\ stats' = ZeroStats
  /\ UNCHANGED <<pinned_filled, ring, ring_next, call>>

\* clear; what an earlier plan said is void.
Clear ==
  /\ at # "serving"
  /\ pinned_filled' = [s \in PinnedSlots |-> FALSE]
  /\ ring' = [p \in Positions |-> NoExpert] /\ ring_next' = 0 /\ stats' = ZeroStats
  /\ Start("none", <<>>)

\* The demands of a step, within the bound: the experts of one block.
Demands ==
  UNION {[1 .. n -> {b} \X (0 .. (NExpert - 1))] : b \in 0 .. (Blocks - 1), n \in 0 .. MaxDemands}

Next ==
  \/ \E ds \in Demands : stats.steps < MaxSteps /\ (Admit(ds) \/ Refuse(ds))
  \/ HitPinned \/ FillPinned \/ HitRing \/ MissRing \/ Return
  \/ ResetStats \/ Clear

Spec == Init /\ [][Next]_vars

-----------------------------------------------------------------------------
(* Properties.                                                             *)

Slots == 0 .. (RingBase + RingSlots - 1)
LoadType == [expert : ExpertRefs, slot : Slots, evicted : ExpertRefs \cup {NoExpert}]
HitType == [expert : ExpertRefs, slot : Slots]

\* Every variable stays in its range; every slot a plan names exists.
TypeOK ==
  /\ pinned_filled \in [PinnedSlots -> BOOLEAN]
  /\ ring \in [Positions -> ExpertRefs \cup {NoExpert}] /\ ring_next \in Positions
  /\ DOMAIN stats = DOMAIN ZeroStats /\ \A c \in DOMAIN stats : stats[c] \in Nat
  /\ at \in {"none", "serving", "planned", "refused"}
  /\ needed \in Seq(ExpertRefs) /\ next \in 1 .. (Len(needed) + 1)
  /\ hits \subseteq HitType /\ loads \subseteq LoadType

\* The ring holds experts above the split only, and none of them twice, so that
\* position() has one answer and resident agrees with it.
RingDistinct ==
  \A p, q \in Positions : ring[p] # NoExpert =>
    ~Pinned(ring[p]) /\ (ring[p] = ring[q] => p = q)

\* Where the plan says an expert is once the plan has been executed.
Planned(e, s) ==
  \/ [expert |-> e, slot |-> s] \in hits
  \/ \E l \in loads : l.expert = e /\ l.slot = s

\* What the device finds in slot s once every load so far has been executed.
Occupies(e, s) ==
  IF Pinned(e) THEN s = PinnedSlot(e) /\ pinned_filled[s]
  ELSE s >= RingBase /\ ring[s - RingBase] = e

\* "two different experts read the same slot": no two experts of the step are
\* planned into one slot, and every demand served so far is where the plan says.
PinnedKept ==
  /\ \A i \in 1 .. (next - 1) :
       /\ \E s \in Slots : Planned(needed[i], s)
       /\ \A s \in Slots : Planned(needed[i], s) => Occupies(needed[i], s)
  /\ \A s \in Slots : \A d, e \in Distinct(needed) :
       Planned(d, s) /\ Planned(e, s) => d = e

\* "A victim always exists when one is wanted": the search of a miss never comes
\* back empty-handed, which would leave a half-committed plan behind.
VictimExists ==
  Serving /\ ~Pinned(Demand) /\ ~Resident(Demand) => \E p \in Positions : ~Needed(p)
=============================================================================
