--------------------------------- MODULE Shape ---------------------------------
(***************************************************************************)
(* The shape half of `moearc bench`, crates/moearc-cli/src/bench/shape.rs: *)
(* every capture asked for is replayed at every capacity of a ladder, under *)
(* the policy asked for, the widest static split of the same capacity and,  *)
(* when wanted, the optimal policy.  One leg is one run of the simulator    *)
(* (Residency); a row is the legs at one capacity, a curve the rows of one  *)
(* capture.                                                                 *)
(*                                                                         *)
(* A capture is [name, kind, lines, model]: the file's name, what the name  *)
(* says of it, its lines and the model its header names.  All legs of a     *)
(* capture have its demands, so that hit rates compare as hits.             *)
(***************************************************************************)
EXTENDS Residency

CONSTANTS
  ShapeOrders,    \* [captures, given, policy, slots, model, all, optimal]: an absent one is <<>>
  LadderPoints,
  Prominence,     \* MIN_ELBOW_PROMINENCE, per cent
  Within          \* pairs of different file names of which one is part of the other

VARIABLES
  shapeOrder,
  captures,       \* still to look at
  leg,            \* "open", the leg that runs, or how it ended
  ladder,         \* the capacities still to replay at
  row, curve,
  replayed,       \* the traces of the result
  passed          \* the captures not replayed, with the reason

shapeVars == <<shapeOrder, captures, leg, ladder, row, curve, replayed, passed>>
shapeOnly == <<shapeOrder, captures, ladder, row, curve, replayed, passed>>

Capture == Head(captures)

-----------------------------------------------------------------------------
(* A capture.                                                              *)
Solid(f) == SelectSeq(f.lines, LAMBDA l : l.kind # "blank")
StepsOf(f) == [i \in 1 .. Len(Solid(f)) - 1 |-> Solid(f)[i + 1].experts]

\* One line that is no step refuses the whole file.
Unreadable(f) ==
  CASE ~f.opens -> "unreadable"
    [] f.opens /\ Solid(f) = <<>> -> "no header"
    [] f.opens /\ Solid(f) # <<>> /\ Solid(f)[1].kind # "header" -> "not a capture"
    [] f.opens /\ Solid(f) # <<>> /\ Solid(f)[1].kind = "header" ->
         IF \E i \in 2 .. Len(Solid(f)) : Solid(f)[i].kind # "step" THEN "malformed"
         ELSE IF Len(Solid(f)) = 1 THEN "no steps" ELSE "none"

Covers(m, f) == m # "" /\ (m = f.model \/ <<m, f.model>> \in Within)
Covered(f) == shapeOrder.model # <<>> /\ Covers(shapeOrder.model[1].file, f)
Restricted == shapeOrder.model # <<>> /\ ~shapeOrder.all

SkipReason(f) ==
  IF f.kind # "decode" THEN f.kind
  ELSE IF Unreadable(f) # "none" THEN Unreadable(f)
  ELSE IF Restricted /\ ~Covered(f) THEN "other model"
  ELSE "none"

\* Without --trace the directory is listed, and only its .ndjson files.
ToReplay(o) ==
  IF o.given THEN o.captures
  ELSE SetToSortSeq({f \in ToSet(o.captures) : f.kind # "not ndjson"},
                    LAMBDA f, g : f.name < g.name)

-----------------------------------------------------------------------------
(* The ladder.                                                             *)
WorkingSet(t) == Cardinality(Touched(t))

\* lo * (hi / lo)^(i / n), rounded.
Rung(lo, hi, i) ==
  LET n == LadderPoints - 1 IN
  CHOOSE r \in lo .. hi :
    /\ (2 * r - 1)^n <= 2^n * lo^(n - i) * hi^i
    /\ 2^n * lo^(n - i) * hi^i < (2 * r + 1)^n

LadderFor(t, slots) ==
  LET lo == AtLeastOne(PeakDemand(t))
      hi == Max({WorkingSet(t), lo})
      rungs == IF slots # <<>> THEN {s \in ToSet(slots) : s >= lo}
               ELSE {Rung(lo, hi, i) : i \in 0 .. LadderPoints - 1}
  IN SetToSortSeq(rungs, <)

-----------------------------------------------------------------------------
(* What is reported of a curve.                                            *)
Log2 == <<0, 100, 158, 200, 232, 258, 281, 300>>  \* of 1 to 8, in hundredths

\* How far above the line from the first row to the last the i-th is, times a constant.
OverChord(rows, i) ==
  LET n == Len(rows) IN
  (rows[i].hits - rows[1].hits) * (Log2[rows[n].slots] - Log2[rows[1].slots])
  - (Log2[rows[i].slots] - Log2[rows[1].slots]) * (rows[n].hits - rows[1].hits)
Abs(x) == IF x < 0 THEN -x ELSE x

Elbow(rows) ==
  LET n == Len(rows)
      dx == Log2[rows[n].slots] - Log2[rows[1].slots]
      dy == rows[n].hits - rows[1].hits
      Off(i) == Abs(OverChord(rows, i))
      far == Min({i \in 1 .. n : \A j \in 1 .. n : Off(j) <= Off(i)})
  IN IF n < 3 THEN <<>>
     ELSE IF dx = 0 \/ dy = 0 THEN <<>>
     ELSE IF 100 * Off(far) < Prominence * dx * Abs(dy) THEN <<>>
     ELSE <<rows[far].slots>>

Comparisons(rows) == {i \in DOMAIN rows : ~rows[i].trivial}
BeatsStatic(rows) ==
  /\ Comparisons(rows) # {}
  /\ \A i \in Comparisons(rows) : rows[i].hits > rows[i].static

Traced(f, rows) ==
  [name |-> f.name, steps |-> StepsOf(f), model |-> f.model, rows |-> rows,
   knee |-> Elbow(rows),
   card |-> IF Covered(f) THEN shapeOrder.model[1].card ELSE <<>>,
   bytes |-> Covered(f), beats |-> BeatsStatic(rows)]

\* The sentence over all traces.
Verdict ==
  IF replayed = <<>> THEN "nothing replayed"
  ELSE IF \A i \in DOMAIN replayed : replayed[i].beats THEN "beat on all" ELSE "beat on some"

-----------------------------------------------------------------------------
Run(p) == StartSim(StepsOf(Capture), p, Head(ladder))
NoRow == [slots |-> 0, hits |-> 0, misses |-> 0, compulsory |-> 0, static |-> 0,
          layers |-> 0, optimal |-> <<>>, trivial |-> FALSE]

ShapeInit ==
  /\ shapeOrder \in ShapeOrders
  /\ captures = ToReplay(shapeOrder)
  /\ leg = "open" /\ ladder = <<>> /\ row = NoRow /\ curve = <<>>
  /\ replayed = <<>> /\ passed = <<>>
  /\ NoSim

\* measure_shape bails when there is no capture at all.
Bail ==
  /\ leg = "open" /\ captures = <<>> /\ ToReplay(shapeOrder) = <<>>
  /\ leg' = "failed"
  /\ UNCHANGED <<shapeOnly, simVars>>

Skip ==
  /\ leg = "open" /\ captures # <<>> /\ SkipReason(Capture) # "none"
  /\ passed' = Append(passed, <<Capture.name, SkipReason(Capture)>>)
  /\ captures' = Tail(captures)
  /\ UNCHANGED <<shapeOrder, leg, ladder, row, curve, replayed, simVars>>

\* The ladder of a trace; one without a capacity gives a trace without rows.
Open ==
  /\ leg = "open" /\ captures # <<>> /\ SkipReason(Capture) = "none"
  /\ ladder' = LadderFor(StepsOf(Capture), shapeOrder.slots)
  /\ curve' = <<>> /\ leg' = "rung"
  /\ UNCHANGED <<shapeOrder, captures, row, replayed, passed, simVars>>

Dynamic ==
  /\ leg = "rung" /\ ladder # <<>>
  /\ leg' = "dynamic" /\ Run(shapeOrder.policy)
  /\ UNCHANGED shapeOnly

Static ==
  /\ leg = "dynamic" /\ Over
  /\ row' = [NoRow EXCEPT !.slots = capacity, !.hits = stats.hits, !.misses = stats.misses,
                          !.compulsory = stats.compulsory,
                          !.trivial = WorkingSet(trace) <= capacity]
  /\ leg' = "static" /\ Run("static")
  /\ UNCHANGED <<shapeOrder, captures, ladder, curve, replayed, passed>>

Optimal ==
  /\ leg = "static" /\ Over /\ shapeOrder.optimal
  /\ row' = [row EXCEPT !.static = stats.hits, !.layers = split]
  /\ leg' = "optimal" /\ Run("optimal")
  /\ UNCHANGED <<shapeOrder, captures, ladder, curve, replayed, passed>>

PushRow ==
  /\ Over /\ \/ leg = "static" /\ ~shapeOrder.optimal
             \/ leg = "optimal"
  /\ curve' = Append(curve, IF leg = "static"
                            THEN [row EXCEPT !.static = stats.hits, !.layers = split]
                            ELSE [row EXCEPT !.optimal = <<stats.hits>>])
  /\ ladder' = Tail(ladder) /\ leg' = "rung" /\ row' = NoRow
  /\ UNCHANGED <<shapeOrder, captures, replayed, passed, simVars>>

PushTrace ==
  /\ leg = "rung" /\ ladder = <<>>
  /\ replayed' = Append(replayed, Traced(Capture, curve))
  /\ captures' = Tail(captures) /\ leg' = "open"
  /\ UNCHANGED <<shapeOrder, ladder, row, curve, passed, simVars>>

Report ==
  /\ leg = "open" /\ captures = <<>> /\ ToReplay(shapeOrder) # <<>>
  /\ leg' = "reported"
  /\ UNCHANGED <<shapeOnly, simVars>>

Reference == leg \in {"dynamic", "static", "optimal"} /\ SimNext /\ UNCHANGED shapeVars

ShapeNext ==
  \/ Bail \/ Skip \/ Open \/ Dynamic \/ Static \/ Optimal \/ PushRow \/ PushTrace \/ Report
  \/ Reference

-----------------------------------------------------------------------------
Partial(p) == p \in {"pinned-hot", "w-tinylfu"}

\* The widest split is held to the budget of the policy it is compared with
\* (shape.rs:313-315, residency.rs:440-446), and more of it fits into more.
StaticWithinBudget(t) ==
  \A i \in DOMAIN t.rows :
    /\ Cardinality(Below(t.steps, t.rows[i].layers)) <= t.rows[i].slots
    /\ \A j \in 1 .. i : t.rows[j].layers <= t.rows[i].layers /\ t.rows[j].static <= t.rows[i].static

\* Every capacity can be served; a ladder that was not given goes from the least that can be
\* to the one at which all is held (shape.rs:167-171).
LadderSpans(t) ==
  /\ \A i \in DOMAIN t.rows :
       /\ t.rows[i].slots >= PeakDemand(t.steps)
       /\ i > 1 => t.rows[i - 1].slots < t.rows[i].slots
  /\ shapeOrder.slots = <<>> =>
       /\ t.rows[1].slots = PeakDemand(t.steps)
       /\ t.rows[Len(t.rows)].slots = WorkingSet(t.steps)

\* A row at which everything fits misses what it never had and nothing else; the split has
\* it all (shape.rs:348-354).
TrivialIsWarmup(t) ==
  \A i \in DOMAIN t.rows :
    t.rows[i].trivial /\ shapeOrder.policy # "w-tinylfu" =>
      /\ t.rows[i].misses = WorkingSet(t.steps) /\ t.rows[i].compulsory = t.rows[i].misses
      /\ t.rows[i].static = t.rows[i].hits + t.rows[i].misses

\* The optimum bounds a policy row by row.
BoundedByOptimal(t) ==
  \A i \in DOMAIN t.rows :
    t.rows[i].optimal # <<>> /\ ~Partial(shapeOrder.policy) =>
      t.rows[i].hits <= t.rows[i].optimal[1]

\* More capacity never costs a hit.
Monotone(t) ==
  \A i, j \in DOMAIN t.rows : i < j =>
    /\ shapeOrder.policy \in {"lru", "optimal"} => t.rows[i].hits <= t.rows[j].hits
    /\ t.rows[i].optimal # <<>> => t.rows[i].optimal[1] <= t.rows[j].optimal[1]

\* The knee is where doublings begin to buy less, and not merely where everything fits.  A
\* curve that lies below the line somewhere is the exception: the distance is absolute, and
\* the foot of a cliff is as far from the line as a knee is (shape.rs:401).
Cliff(rows) == \E i \in DOMAIN rows : OverChord(rows, i) < 0
KneeFlattens(t) ==
  t.knee # <<>> /\ ~Cliff(t.rows) =>
    \E i \in DOMAIN t.rows :
      /\ t.rows[i].slots = t.knee[1] /\ OverChord(t.rows, i) > 0
      /\ shapeOrder.slots = <<>> => t.rows[i].slots < WorkingSet(t.steps)

\* What is read off a model is attached to captures of this model.
OwnModelOnly(t) ==
  (t.bytes \/ t.card # <<>>) =>
    \/ t.model = shapeOrder.model[1].file
    \/ <<shapeOrder.model[1].file, t.model>> \in Within

\* Where the split is said to be beaten, it can be: no way to keep the experts makes up for a
\* claim that is not so.
ClaimIsPossible(t) ==
  ~Partial(shapeOrder.policy) =>
    \A i \in Comparisons(t.rows) :
      Fewest(t.steps, t.rows[i].slots) < t.rows[i].hits + t.rows[i].misses - t.rows[i].static

\* What the shape section reports is so: of the rows of each trace, of the knee, and of the
\* sentence that leads it; and no capture is lost or replayed that is not of the kind.
ShapeIsTrue ==
  /\ \A i \in DOMAIN replayed :
       LET t == replayed[i] IN
       /\ StaticWithinBudget(t) /\ LadderSpans(t) /\ TrivialIsWarmup(t)
       /\ BoundedByOptimal(t) /\ Monotone(t) /\ KneeFlattens(t) /\ OwnModelOnly(t)
  /\ leg = "reported" =>
       /\ Verdict = "beat on all" => \A i \in DOMAIN replayed : ClaimIsPossible(replayed[i])
       /\ Len(replayed) + Len(passed) = Len(ToReplay(shapeOrder))

\* No leg beats the bound, none goes over its budget, and the report says so truly.
ComparedFairly == LegFair /\ ShapeIsTrue
==============================================================================
