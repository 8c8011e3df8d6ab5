------------------------------ MODULE Residency ------------------------------
(***************************************************************************)
(* The residency simulator, crates/moearc-engine/src/residency.rs: a       *)
(* recorded routing trace is replayed through one replacement policy, one  *)
(* reference at a time.  `moearc bench` reports what it counts.  A trace   *)
(* is a sequence of steps, a step a sequence of distinct experts.          *)
(*                                                                         *)
(* The shares of a partitioned cache are one percentage, Share.  The cache *)
(* is the record                                                           *)
(*   [resident, seg, lastUsed, prevUsed, useCount, stepUsed, segStamp,     *)
(*    arrival, freq, samples, ghost, ghostSet, hot, clock, tick]           *)
(* with n_window and n_protected counted in seg when they are needed.      *)
(***************************************************************************)
EXTENDS Integers, Sequences, FiniteSets, FiniteSetsExt, Functions, SequencesExt

CONSTANTS
  Experts,     \* 0 .. n - 1
  PerLayer,    \* expert e is in layer e \div PerLayer
  Share,       \* per cent: protected_pct, kin_pct, window_pct, pin_pct
  GhostShare,  \* kout_pct
  Warmup       \* warmup_steps of PinnedHot

VARIABLES
  trace, policy, capacity,
  step, ref,   \* the reference that comes next
  c,           \* the cache
  split,       \* the layers a static split keeps
  stats

simVars == <<trace, policy, capacity, step, ref, c, split, stats>>

LayerOf(e) == e \div PerLayer
Pct(p, of) == (of * p) \div 100
AtLeastOne(n) == IF n < 1 THEN 1 ELSE n

\* W-TinyLFU holds a slot back for what it fetches and does not keep.
Budget == IF policy = "w-tinylfu" THEN AtLeastOne(capacity - 1) ELSE capacity
WindowCap == IF policy = "2q" THEN AtLeastOne(Pct(Share, Budget)) ELSE Pct(Share, Budget)
ProtectedCap == IF policy = "w-tinylfu" THEN Pct(Share, Budget - WindowCap) ELSE Pct(Share, Budget)
GhostCap == AtLeastOne(Pct(GhostShare, capacity))
FreqWindow == capacity * 10

Expert == trace[step][ref]
Pinned == ToSet(trace[step])

-----------------------------------------------------------------------------
(* The static split: as many layers as the capacity holds.                 *)
Touched(t) == UNION {ToSet(t[i]) : i \in DOMAIN t}
LayerCount(t) == Max({LayerOf(e) : e \in Touched(t)}) + 1
Below(t, l) == {e \in Touched(t) : LayerOf(e) < l}
WidestSplit(t, cap) ==
  Max({l \in 0 .. LayerCount(t) : Cardinality(Below(t, l)) <= cap})

PeakDemand(t) == Max({Len(t[i]) : i \in DOMAIN t})

-----------------------------------------------------------------------------
(* Parts of the cache.                                                     *)
Count(d, seg) == Cardinality({e \in Experts : d.seg[e] = seg})

Stamp(d, e) == [d EXCEPT !.tick = @ + 1, !.segStamp[e] = d.tick + 1]
SetSeg(d, e, seg) == [d EXCEPT !.seg[e] = seg]
Moved(d, e, seg) == Stamp(SetSeg(d, e, seg), e)
Insert(d, e, seg) ==
  [d EXCEPT !.resident = Append(@, e), !.seg[e] = seg, !.tick = @ + 1,
            !.segStamp[e] = d.tick + 1, !.arrival[e] = d.tick + 1]
TakeOut(d, e) ==
  [d EXCEPT !.resident = SelectSeq(@, LAMBDA r : r # e), !.seg[e] = "none"]
TakeOutAll(d, victims) == FoldSet(LAMBDA v, acc : TakeOut(acc, v), d, victims)

\* The first of s whose key is least, as a set: none when s is empty.
Least(s, key(_)) ==
  {s[i] : i \in {j \in DOMAIN s : \A k \in DOMAIN s :
                   key(s[j]) < key(s[k]) \/ (key(s[j]) = key(s[k]) /\ j <= k)}}
\* The last of s whose key is greatest.
Greatest(s, key(_)) ==
  {s[i] : i \in {j \in DOMAIN s : \A k \in DOMAIN s :
                   key(s[j]) > key(s[k]) \/ (key(s[j]) = key(s[k]) /\ j >= k)}}
Pair(a, b) == a * 1000 + b  \* orders pairs of small numbers

\* What of a segment leaves next; exempt may go although this step needs it.
OldestIn(d, seg, order, exempt) ==
  LET may == SelectSeq(d.resident, LAMBDA r : (r \notin Pinned \/ r \in exempt) /\ d.seg[r] = seg)
  IN IF order = "recency" THEN Least(may, LAMBDA r : d.segStamp[r])
     ELSE Least(may, LAMBDA r : d.arrival[r])
OrElse(a, b) == IF a # {} THEN a ELSE b
FromMain(d) == OrElse(OldestIn(d, "probation", "recency", {}),
                      OldestIn(d, "protected", "recency", {}))
Full(d) == Len(d.resident) >= Budget

\* A reference is noted before it is looked up.  TinyLFU's counters are halved once
\* in FreqWindow references.
NoteAccess(d, e) ==
  LET counted == [d.freq EXCEPT ![e] = @ + 1]
      resets == d.samples + 1 >= FreqWindow
  IN [d EXCEPT
        !.clock = @ + 1,
        !.useCount[e] = @ + 1,
        !.stepUsed[e] = step,
        !.prevUsed[e] = d.lastUsed[e],
        !.lastUsed[e] = d.clock + 1,
        !.freq = IF policy # "w-tinylfu" THEN @
                 ELSE [x \in Experts |-> IF resets THEN counted[x] \div 2 ELSE counted[x]],
        !.samples = IF policy # "w-tinylfu" THEN @ ELSE IF resets THEN 0 ELSE @ + 1]

-----------------------------------------------------------------------------
(* A hit.                                                                  *)
\* Of the protected that this step does not need the oldest goes back to probation, one after
\* the other, until the segment is within its bound.  When the step needs all of them the
\* overflow stays, and a later promotion demotes more than one.
DemoteOverflow(d) ==
  LET over == Count(d, "protected") - ProtectedCap
      demoted[n \in 0 .. Cardinality(Experts)] ==
        IF n = 0 THEN d
        ELSE LET before == demoted[n - 1]
             IN FoldSet(LAMBDA x, acc : Moved(acc, x, "probation"), before,
                        OldestIn(before, "protected", "recency", {}))
  IN demoted[Max({0, over})]

OnHit(d, e) ==
  CASE policy \in {"slru", "w-tinylfu"} /\ d.seg[e] = "probation" ->
         DemoteOverflow(Moved(d, e, "protected"))
    [] policy \in {"slru", "w-tinylfu"} /\ d.seg[e] # "probation" -> Stamp(d, e)
    [] policy = "2q" /\ d.seg[e] = "protected" -> Stamp(d, e)
    [] OTHER -> d

-----------------------------------------------------------------------------
(* A miss.                                                                 *)
\* The last step before this one that used e: what a mutant takes for the next.
NextUseBehind(e) ==
  LET earlier == {t \in DOMAIN trace : t < step /\ e \in ToSet(trace[t])}
  IN Max(earlier \cup {0})
\* The step, strictly after this one, that uses e again.
NextUse(e) ==
  LET later == {t \in DOMAIN trace : t > step /\ e \in ToSet(trace[t])}
  IN Min(later \cup {Len(trace) + 1})

\* How many layers until e's comes round again.
Wait(e) ==
  LET n == LayerCount(trace)
  IN ((LayerOf(e) + n - LayerOf(Expert) - 1) % n) + 1

\* The undivided policies.
SimpleVictim(d) ==
  LET s == SelectSeq(d.resident, LAMBDA r : r \notin Pinned) IN
  IF ~Full(d) THEN {}
  ELSE CASE policy = "lru" -> Least(s, LAMBDA r : d.lastUsed[r])
         [] policy = "lfu" -> Least(s, LAMBDA r : d.useCount[r])
         [] policy = "optimal" -> Greatest(s, NextUse)
         [] policy = "lru-k" -> Least(s, LAMBDA r : Pair(d.prevUsed[r], d.lastUsed[r]))
         [] policy = "phase-lru" ->
              Least(s, LAMBDA r : Pair(d.stepUsed[r], LayerCount(trace) - Wait(r)))

MissSimple(d, e) == Insert(TakeOutAll(d, SimpleVictim(d)), e, "protected")

MissPinnedHot(d, e) ==
  LET s == SelectSeq(d.resident, LAMBDA r : r \notin Pinned \cup d.hot)
      victim == IF Full(d) THEN Least(s, LAMBDA r : d.lastUsed[r]) ELSE {}
  IN Insert(TakeOutAll(d, victim), e, "protected")

MissSlru(d, e) ==
  Insert(TakeOutAll(d, IF Full(d) THEN FromMain(d) ELSE {}), e, "probation")

\* The keys of what leaves the window are remembered, the latest GhostCap of them.  A
\* key that was promoted leaves the set and stays in the queue.
PushGhost(d, e) ==
  LET queue == IF e \in d.ghostSet THEN d.ghost ELSE Append(d.ghost, e)
      over == Len(queue) - GhostCap
      out == IF over > 0 THEN {queue[i] : i \in 1 .. over} ELSE {}
  IN [d EXCEPT !.ghost = IF over > 0 THEN SubSeq(queue, over + 1, Len(queue)) ELSE queue,
               !.ghostSet = (@ \cup {e}) \ out]

MissTwoQ(d, e) ==
  LET promoted == e \in d.ghostSet
      known == [d EXCEPT !.ghostSet = @ \ {e}]
      window == OldestIn(known, "window", "arrival", {})
      main == OldestIn(known, "protected", "recency", {})
      victim == IF ~Full(known) THEN {}
                ELSE IF Count(known, "window") >= WindowCap THEN OrElse(window, main)
                ELSE OrElse(main, window)
      noted == FoldSet(LAMBDA v, acc : PushGhost(acc, v), known,
                       {v \in victim : known.seg[v] = "window"})
  IN Insert(TakeOutAll(noted, victim), e, IF promoted THEN "protected" ELSE "window")

\* Whoever leaves the window must be used more often than the one it would displace.
Contest(d, cand) ==
  LET victim == FromMain(d) IN
  IF Len(d.resident) <= Budget \/ victim = {} THEN Moved(d, cand, "probation")
  ELSE IF \A v \in victim : d.freq[cand] > d.freq[v]
       THEN Moved(TakeOutAll(d, victim), cand, "probation")
  ELSE TakeOut(d, cand)

MissWTinyLfu(d, e) ==
  LET in == Insert(d, e, "window")
      cand == OldestIn(in, "window", "recency", {e})
  IN IF Count(in, "window") <= WindowCap THEN in
     ELSE Contest(in, CHOOSE x \in cand : TRUE)

OnMiss(d, e) ==
  CASE policy \in {"lru", "lfu", "optimal", "lru-k", "phase-lru"} -> MissSimple(d, e)
    [] policy = "pinned-hot" -> MissPinnedHot(d, e)
    [] policy = "slru" -> MissSlru(d, e)
    [] policy = "2q" -> MissTwoQ(d, e)
    [] policy = "w-tinylfu" -> MissWTinyLfu(d, e)

\* After the warm-up the experts used most so far are pinned, the lower of equals first.
HotSlots == Pct(IF Share < 95 THEN Share ELSE 95, Budget)
Hotter(d, a, b) == d.useCount[a] > d.useCount[b] \/ (d.useCount[a] = d.useCount[b] /\ a < b)
EndOfStep(d) ==
  IF policy = "pinned-hot" /\ step = Warmup
  THEN [d EXCEPT !.hot = {e \in Experts : d.useCount[e] > 0 /\
                            Cardinality({f \in Experts : Hotter(d, f, e)}) < HotSlots}]
  ELSE d

-----------------------------------------------------------------------------
Zeroes == [e \in Experts |-> 0]
EmptyCache ==
  [resident |-> <<>>, seg |-> [e \in Experts |-> "none"], lastUsed |-> Zeroes,
   prevUsed |-> Zeroes, useCount |-> Zeroes, stepUsed |-> Zeroes, segStamp |-> Zeroes,
   arrival |-> Zeroes, freq |-> Zeroes, samples |-> 0, ghost |-> <<>>, ghostSet |-> {},
   hot |-> {}, clock |-> 0, tick |-> 0]

NoStats == [demands |-> 0, hits |-> 0, misses |-> 0, compulsory |-> 0]

\* Nothing has been replayed.
NoSim ==
  /\ trace = <<>> /\ policy = "lru" /\ capacity = 0 /\ step = 1 /\ ref = 1
  /\ c = EmptyCache /\ split = 0 /\ stats = NoStats

\* A capacity below the most demanding step, or of nothing, is refused before anything is
\* replayed.
StartSim(t, p, cap) ==
  /\ cap > 0 /\ cap >= PeakDemand(t)
  /\ trace' = t /\ policy' = p /\ capacity' = cap
  /\ step' = 1 /\ ref' = 1 /\ c' = EmptyCache
  /\ split' = WidestSplit(t, cap)
  /\ stats' = NoStats

Over == step > Len(trace)

\* The reference after this one; the cache is told of the end of a step.
Advance(d) ==
  IF ref < Len(trace[step])
  THEN ref' = ref + 1 /\ UNCHANGED step /\ c' = d
  ELSE ref' = 1 /\ step' = step + 1 /\ c' = EndOfStep(d)

Hit ==
  /\ ~Over /\ policy # "static" /\ Expert \in ToSet(c.resident)
  /\ Advance(OnHit(NoteAccess(c, Expert), Expert))
  /\ stats' = [stats EXCEPT !.demands = @ + 1, !.hits = @ + 1]
  /\ UNCHANGED <<trace, policy, capacity, split>>

Miss ==
  /\ ~Over /\ policy # "static" /\ Expert \notin ToSet(c.resident)
  /\ Advance(OnMiss(NoteAccess(c, Expert), Expert))
  /\ stats' = [stats EXCEPT !.demands = @ + 1, !.misses = @ + 1,
                            !.compulsory = @ + (IF c.useCount[Expert] = 0 THEN 1 ELSE 0)]
  /\ UNCHANGED <<trace, policy, capacity, split>>

StaticReference ==
  /\ ~Over /\ policy = "static"
  /\ Advance(c)
  /\ stats' = IF LayerOf(Expert) < split
              THEN [stats EXCEPT !.demands = @ + 1, !.hits = @ + 1]
              ELSE [stats EXCEPT !.demands = @ + 1, !.misses = @ + 1]
  /\ UNCHANGED <<trace, policy, capacity, split>>

SimNext == Hit \/ Miss \/ StaticReference

-----------------------------------------------------------------------------
(* The reference: the fewest misses of any way to keep at most `capacity`  *)
(* experts that holds all a step needs, knowing the whole trace.  After    *)
(* step t the cache is some K that holds the step and came from R and it.  *)
Fewest(t, cap) ==
  LET reach[i \in 0 .. Len(t)] ==
        IF i = 0 THEN {<<{}, 0>>}
        ELSE LET s == ToSet(t[i])
                 after == UNION {{<<k, r[2] + Cardinality(s \ r[1])>> :
                            k \in {k \in SUBSET (r[1] \cup s) : s \subseteq k
                                     /\ (Cardinality(k) = cap \/ k = r[1] \cup s)
                                     /\ Cardinality(k) <= cap}} : r \in reach[i - 1]}
             IN {a \in after : \A b \in after : b[1] = a[1] => a[2] <= b[2]}
      ends == {r[2] : r \in reach[Len(t)]}
  IN Min(ends)

\* What PinnedHot pins leaves room for any step: nothing checks that it does
\* (residency.rs:436-470, 789-800).
PinsLeaveRoom == policy = "pinned-hot" => HotSlots + PeakDemand(trace) <= capacity

\* "Optimal" is optimal: of all ways to keep a step's experts together none needs fewer
\* fetches, so that the bound the others are reported against is one (residency.rs:226-232).
\* W-TinyLFU, which need not keep them, and the static split, which is not charged for its
\* first fetches, are outside of the comparison.
OptimalBounds ==
  /\ policy = "optimal" => stats.misses = Fewest(trace, capacity)
  /\ policy \notin {"w-tinylfu", "static"} => stats.misses >= Fewest(trace, capacity)

\* The policies are compared fairly: each keeps to the budget it is compared at, W-TinyLFU
\* with its scratch slot included, and none beats the bound.
LegFair ==
  PinsLeaveRoom => /\ Len(c.resident) <= capacity
                   /\ Over => OptimalBounds

SimTypeOK ==
  /\ IsInjective(c.resident) /\ ToSet(c.resident) = {e \in Experts : c.seg[e] # "none"}
  /\ stats.hits + stats.misses = stats.demands /\ stats.compulsory <= stats.misses
  /\ c.ghostSet \subseteq ToSet(c.ghost)
==============================================================================
