------------------------------- MODULE Sampling -------------------------------
(***************************************************************************)
(* From the sampling fields of a request to the tokens of its completion:  *)
(* SamplingFields::to_params, the penalty, the truncations and the draw of *)
(* sampling.rs, and the loop around them (drive over an engine's logits,   *)
(* EchoGenerator over its own).                                            *)
(*                                                                         *)
(* A logit is an integer in units of 1/Unit; beyond Huge an f32 is         *)
(* infinite.  A knob is a fraction <<num, den>>; 1/Tiny stands for         *)
(* f32::MIN_POSITIVE.  The softmax has base two and keeps no more than     *)
(* 2^Shift apart, below which a weight is zero.  A draw is a choice.       *)
(***************************************************************************)
EXTENDS Integers, FiniteSetsExt, SequencesExt

CONSTANTS
  Unit, Huge, Tiny, Shift, Peak,
  Unset,        \* a field the request leaves out
  Fields,       \* the fields requests come with
  Defaults,     \* the server's own SamplingParams
  MaxCap,       \* the most max_tokens may be
  History,      \* prompts
  Rows,         \* the logits an engine answers with
  Noises        \* and the noise of the stub, below 1 in either direction

VARIABLES
  fields, params, generator, ids,   \* ids: the prompt
  emitted,      \* the tokens handed to on_token
  drawn,        \* the last draw: the logits, the history and the token
  end           \* the stop reason, or "" while it runs

sampling == <<fields, params, generator, ids, emitted, drawn, end>>

-----------------------------------------------------------------------------
(* to_params.                                                              *)

Or(a, b) == IF a = Unset THEN b ELSE a
Below(a, b) == a[1] * b[2] < b[1] * a[2]
AtLeast(a, low) == IF Below(a, low) THEN low ELSE a
AtMost(a, high) == IF Below(high, a) THEN high ELSE a
Clamp(a, low, high) == AtMost(AtLeast(a, low), high)

Zero == <<0, 1>>
One == <<1, 1>>
MIN_POSITIVE == <<1, Tiny>>

\* 1 + f/2: the penalty an OpenAI client asked for under its own name.
FromFrequency(f) ==
  IF f = Unset THEN Unset
  ELSE LET c == Clamp(f, <<-2, 1>>, <<2, 1>>) IN <<(2 * c[2]) + c[1], 2 * c[2]>>

ToParams(f, d) ==
  [temperature |-> AtLeast(Or(f.temperature, d.temperature), Zero),
   top_p |-> Clamp(Or(f.top_p, d.top_p), MIN_POSITIVE, One),
   top_k |-> Or(f.top_k, d.top_k),
   repetition_penalty |->
     AtLeast(Or(Or(f.repetition_penalty, FromFrequency(f.frequency_penalty)),
                d.repetition_penalty), MIN_POSITIVE),
   max_tokens |-> LET n == Or(Or(f.max_completion_tokens, f.max_tokens), d.max_tokens)
                  IN IF n < 1 THEN 1 ELSE IF n > MaxCap THEN MaxCap ELSE n,
   stop_tokens |-> d.stop_tokens]

\* n asks for choices that are not made.
Valid(f) == f.n \in {Unset, 1}

-----------------------------------------------------------------------------
(* The logits.                                                             *)

Infinite == Huge + 1
Finite(x) == -Huge <= x /\ x <= Huge
Rounded(x) == IF x > Huge THEN Infinite ELSE IF x < -Huge THEN -Infinite ELSE x
Times(x, q) == IF Finite(x) THEN Rounded((x * q[1]) \div q[2]) ELSE x
Over(x, q) == Times(x, <<q[2], q[1]>>)

\* Once per occurrence; an id beyond the row is skipped.
PenaliseDividing(row, id, penalty) ==
  IF id \in DOMAIN row THEN [row EXCEPT ![id] = Over(@, penalty)] ELSE row
Penalise(row, id, penalty) ==
  IF id \notin DOMAIN row THEN row
  ELSE [row EXCEPT ![id] = IF @ > 0 THEN Over(@, penalty) ELSE Times(@, penalty)]
Penalised(row, history, penalty) ==
  IF penalty[1] = penalty[2] THEN row
  ELSE FoldLeft(LAMBDA r, id : Penalise(r, id, penalty), row, history)

-----------------------------------------------------------------------------
(* candidates and sample.                                                  *)

Score(row, p, v) == IF p.temperature[1] > 0 THEN Over(row[v], p.temperature) ELSE row[v]
Candidates(row) == {v \in DOMAIN row : Finite(row[v])}

\* An unstable sort, descending.
Sorted(row, p) ==
  {s \in SetToSeqs(Candidates(row)) :
     \A i, j \in DOMAIN s : i < j => Score(row, p, s[i]) >= Score(row, p, s[j])}

TopK(s, k) == IF k > 0 /\ k < Len(s) THEN SubSeq(s, 1, k) ELSE s

Weight(best, score) ==
  LET apart == (best - score) \div Unit IN IF apart > Shift THEN 0 ELSE 2 ^ (Shift - apart)

\* The weights, unless the best score is infinite: then the scores stay as they are,
\* and only the sign of the first one matters.
Softmax(row, p, s) ==
  IF s = <<>> \/ ~Finite(Score(row, p, s[1])) THEN [i \in DOMAIN s |-> Score(row, p, s[i])]
  ELSE [i \in DOMAIN s |-> Weight(Score(row, p, s[1]), Score(row, p, s[i]))]

Total(w, n) == FoldLeft(LAMBDA a, b : a + b, 0, SubSeq(w, 1, n))

\* The token that crosses the threshold is kept.
Reaches(w, i, top_p) == Total(w, i) * top_p[2] >= top_p[1] * Total(w, Len(w))
Unnormalised(w) == w # <<>> /\ ~Finite(w[1])
TopP(s, w, top_p) ==
  LET crossing == IF Unnormalised(w) THEN {i \in {1} : w[1] > 0}
                  ELSE {i \in DOMAIN s : Reaches(w, i, top_p)}
  IN IF Below(top_p, One) /\ crossing # {} THEN SubSeq(s, 1, Min(crossing)) ELSE s

\* A draw lands on a candidate that weighs something, or past them all.
Landing(s, w) ==
  IF Unnormalised(w) /\ w[1] > 0 THEN {s[1]}
  ELSE {s[i] : i \in {i \in DOMAIN s : w[i] > 0}} \cup {Last(s)}

Draws(row, p) ==
  UNION {LET s == TopK(order, p.top_k)
             w == Softmax(row, p, s)
             kept == TopP(s, w, p.top_p)
         IN IF kept = <<>> THEN {0} ELSE Landing(kept, w) : order \in Sorted(row, p)}

\* Ties go to the lower id.
Greedy(row) ==
  IF Candidates(row) = {} THEN 0
  ELSE Min({v \in Candidates(row) : \A u \in Candidates(row) : row[u] <= row[v]})

Sample(row, p) == IF p.temperature[1] <= 0 THEN {Greedy(row)} ELSE Draws(row, p)

-----------------------------------------------------------------------------
(* The loop.                                                               *)

\* The stub's own logits: noise, and a peak at the token of the prompt to repeat.
Echo(noise, position) ==
  IF position <= Len(ids) /\ ids[position] \in DOMAIN noise
    THEN [noise EXCEPT ![ids[position]] = Peak] ELSE noise
Logits == IF generator = "engine" THEN Rows
          ELSE {Echo(noise, Len(emitted) + 1) : noise \in Noises}

NoDraw == [row |-> <<>>, history |-> <<>>, token |-> 0]

SamplingStarts(asks, prompts, generators) ==
  /\ fields \in {f \in asks : Valid(f)} /\ params = ToParams(fields, Defaults)
  /\ generator \in generators /\ ids \in prompts
  /\ emitted = <<>> /\ drawn = NoDraw /\ end = ""

SamplingInit == SamplingStarts(Fields, History, {"engine", "echo"})

Step ==
  /\ end = ""
  /\ \E row \in Logits :
       LET history == ids \o emitted
       IN \E t \in Sample(Penalised(row, history, params.repetition_penalty), params) :
            /\ drawn' = [row |-> row, history |-> history, token |-> t]
            /\ IF t \in params.stop_tokens
                 THEN end' = "EndOfTurn" /\ UNCHANGED emitted
                 ELSE /\ emitted' = Append(emitted, t)
                      /\ end' \in {IF Len(emitted') >= params.max_tokens THEN "Length" ELSE "",
                                   "Cancelled"}
  /\ UNCHANGED <<fields, params, generator, ids>>

SamplingNext == Step

-----------------------------------------------------------------------------
(* Properties.                                                             *)

Row == Penalised(drawn.row, drawn.history, params.repetition_penalty)
Best(row) == Max({row[v] : v \in Candidates(row)})
Scores(row) == {Score(row, params, v) : v \in Candidates(row)}

\* The sets of candidates top_k may leave, ties decided either way.
Leaves(row) ==
  LET k == IF params.top_k > 0 THEN params.top_k ELSE Cardinality(DOMAIN row)
  IN {S \in SUBSET Candidates(row) :
        /\ Cardinality(S) = Min({k, Cardinality(Candidates(row))})
        /\ \A u \in S, v \in Candidates(row) \ S : Score(row, params, u) >= Score(row, params, v)}
Mass(row, S) ==
  FoldSet(LAMBDA v, sum : sum + Weight(Max(Scores(row)), Score(row, params, v)), 0, S)

\* Where the draw is confined to: one of the top_k, and the better ones do not yet hold
\* top_p of what those hold.  A temperature so low that the best score is infinite leaves
\* the best token when that is positive, and no order at all when it is negative.
Allowed(row, t) ==
  CASE Max(Scores(row)) > Huge -> Score(row, params, t) > Huge
    [] Max(Scores(row)) < -Huge -> TRUE
    [] OTHER -> \E S \in Leaves(row) :
         /\ t \in S
         /\ \/ params.top_p = One
            \/ Mass(row, {v \in S : Score(row, params, v) > Score(row, params, t)}) * params.top_p[2]
                 < params.top_p[1] * Mass(row, S)

\* Whatever a request asks for, every token drawn is one that its knobs allow: greedy takes
\* the best, a penalty never lets a token gain on one that has not occurred, nor the reverse
\* for an encouragement that stays finite, the stub says the prompt again at temperature
\* 0, a stop token of the model is never emitted, and a completion ends for its reason.
SampledIsAllowed ==
  /\ drawn # NoDraw /\ Candidates(Row) # {} =>
       /\ drawn.token \in Candidates(Row)
       /\ IF params.temperature[1] = 0 THEN Row[drawn.token] = Best(Row)
          ELSE Allowed(Row, drawn.token)
       /\ \A seen \in ToSet(drawn.history) \cap DOMAIN Row, new \in DOMAIN Row \ ToSet(drawn.history) :
            /\ Below(One, params.repetition_penalty) /\ Row[seen] >= Row[new] =>
                 drawn.row[seen] >= drawn.row[new]
            /\ Below(params.repetition_penalty, One) /\ Row[seen] < Row[new] =>
                 drawn.row[seen] < drawn.row[new]
  /\ generator = "echo" /\ params.temperature[1] = 0 /\ params.repetition_penalty = One =>
       \A i \in 1 .. Min({Len(ids), Len(emitted)}) : ids[i] \in DOMAIN Row => emitted[i] = ids[i]
  /\ ToSet(emitted) \cap Defaults.stop_tokens = {}
  /\ Len(emitted) \in 0 .. params.max_tokens
  /\ end = "Length" => Len(emitted) = params.max_tokens
  /\ end = "" => Len(emitted) < params.max_tokens
===============================================================================
