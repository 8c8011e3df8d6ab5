------------------------------ MODULE ServePlan ------------------------------
(***************************************************************************)
(* How `moearc serve` decides what to launch: build_plan of                *)
(* crates/moearc-cli/src/serve.rs with the fit of fit.rs and the tuning of *)
(* tuning/resolve.rs, for one request and one reading of the card's free   *)
(* memory.  An order is                                                    *)
(*   [file, device, card, cores, ctx, slots]                               *)
(* where ctx is --ctx or Largest and slots is --moe-cache or None.         *)
(* `moearc info` plans and resolves alike, and then holds what --candidate *)
(* gives against the baseline it found (plain.rs).                         *)
(***************************************************************************)
EXTENDS Tuning

CONSTANTS
  Orders,     \* the orders that are placed
  TypedScores  \* what may be typed after --candidate

VARIABLES
  stage,     \* how far build_plan is
  order,
  fit,       \* the residency plan, the source of the overrides
  resolved,  \* the tuned settings
  launch,    \* the flags in the end
  judged     \* info's candidate, its verdict and the exit code

planVars == <<stage, order, fit, resolved, launch, judged>>

None5 == [ok |-> FALSE, ncmoe |-> None, ctx |-> None, bank |-> None]
Unjudged == [spec |-> <<>>, json |-> FALSE, said |-> "nothing", score |-> NoScore, code |-> 0]

-----------------------------------------------------------------------------
(* fit.rs: the plan, held to what the model was trained for.               *)
CapToTrained(o, a) ==
  LET target == (o.card.trained \div PageTokens) * PageTokens
      again == Plan(o.device.free, o.card.m, o.slots, "experts", target)
  IN IF o.ctx # Largest \/ o.card.trained = 0 \/ a.tokens <= o.card.trained \/ target = 0
     THEN a
     ELSE IF again.ok THEN again ELSE a

Fit(o) ==
  LET a == Plan(o.device.free, o.card.m, o.slots, "experts", o.ctx) IN
  IF o.ctx # Largest /\ o.card.trained > 0 /\ o.ctx > o.card.trained
  THEN Refused("past its trained context", 0)
  ELSE IF a.ok THEN CapToTrained(o, a) ELSE a

\* The longest context that fits when only the active experts stay, if it is
\* longer than the planned one.
Ceiling(o, planned) ==
  LET most == Plan(o.device.free, o.card.m, o.card.m.active, "experts", Largest)
      reach == IF o.card.trained = 0 THEN most.tokens
               ELSE Lesser(most.tokens, o.card.trained)
  IN IF most.ok /\ reach > planned THEN reach ELSE None

\* A partly covered block counts as not resident.
NcmoeForSlots(resident, perBlock, blocks) ==
  IF perBlock = 0 THEN blocks ELSE blocks - Lesser(resident \div perBlock, blocks)

-----------------------------------------------------------------------------
PlanInit ==
  /\ stage = "asked" /\ order \in Orders
  /\ fit = Refused("not planned", 0) /\ resolved = Empty("none") /\ launch = None5
  /\ judged = Unjudged

FitStep ==
  /\ stage = "asked"
  /\ fit' = Fit(order)
  /\ stage' = "fitted"
  /\ UNCHANGED <<order, resolved, launch, judged>>

Resolved(ctx) ==
  Resolve(Load(order.file, order.card.perBlock), order.device, order.card, order.cores, ctx)

ResolveStep ==
  /\ stage = "fitted"
  /\ resolved' = Resolved(order.ctx)
  /\ stage' = "resolved"
  /\ UNCHANGED <<order, fit, launch, judged>>

\* A context nobody asked for is held to the trained one, by resolving again.
Clamped ==
  IF order.ctx = Largest /\ resolved.ctx.value > order.card.trained /\ order.card.trained > 0
  THEN Resolved(order.card.trained) ELSE resolved

ClampStep ==
  /\ stage = "resolved"
  /\ resolved' = Clamped
  /\ stage' = "clamped"
  /\ UNCHANGED <<order, fit, launch, judged>>

Refuse ==
  /\ stage = "clamped" /\ (~fit.ok \/ resolved.ncmoe = Untuned)
  /\ stage' = "refused"
  /\ UNCHANGED <<order, fit, resolved, launch, judged>>

\* --moe-cache overrides -ncmoe and -c together, both from the fit.
Overridden ==
  LET n == NcmoeForSlots(fit.resident, order.card.perBlock, order.card.blocks)
  IN [ok |-> TRUE, ncmoe |-> n, ctx |-> fit.tokens, bank |-> BankResident(order.card, n)]

Launch ==
  /\ stage = "clamped" /\ fit.ok /\ resolved.ncmoe # Untuned
  /\ launch' = IF order.slots # None THEN Overridden
               ELSE [ok |-> TRUE, ncmoe |-> resolved.ncmoe.value,
                     ctx |-> resolved.ctx.value, bank |-> resolved.bank]
  /\ stage' = "launched"
  /\ UNCHANGED <<order, fit, resolved, judged>>

\* info's answer: without a baseline it says so and exits with 2, of a candidate it cannot
\* read with 1.  As JSON both are a null, and the exit code says nothing.
Judge(b, parsed) ==
  CASE b = NoScore -> [said |-> "no baseline", code |-> 2]
    [] b # NoScore /\ ~parsed.ok -> [said |-> "not a score", code |-> 1]
    [] OTHER -> [said |-> Verdict(b, parsed.score), code |-> 0]
Info(spec, json) ==
  /\ stage = "resolved" /\ order.slots = None
  /\ LET parsed == ParseCandidate(spec, resolved.baseline.of)
         found == Judge(resolved.baseline, parsed)
     IN judged' = [spec |-> spec, json |-> json, score |-> parsed.score,
                   said |-> IF json /\ found.code # 0 THEN "null" ELSE found.said,
                   code |-> IF json THEN 0 ELSE found.code]
  /\ stage' = "informed"
  /\ UNCHANGED <<order, fit, resolved, launch>>

PlanNext ==
  \/ FitStep \/ ResolveStep \/ ClampStep \/ Refuse \/ Launch
  \/ \E spec \in TypedScores, json \in BOOLEAN : Info(spec, json)

-----------------------------------------------------------------------------
(* What llama.cpp takes of the card for a pair of flags.                   *)
Taken(card, ncmoe, ctx) ==
  card.m.dense + (card.blocks - ncmoe) * card.perBlock * card.m.expert
    + PagesFor(ctx) * PageBytes(card.m)

\* Whatever the profiles say and whatever is overridden, the flags that are launched
\* need no more of the card than what was free less the headroom: -ncmoe and -c come
\* from one pool, and a pair that does not fit dies after the model has been loaded
\* (serve.rs:672-706, resolve.rs:774-808).  The user gets the context asked for or a
\* refusal, and never, unasked, more than a page past what the model was trained for
\* (fit.rs:337-357, serve.rs:640-667).
CommandFits ==
  launch.ok =>
    /\ Taken(order.card, launch.ncmoe, launch.ctx)
         <= order.device.free - Reserve(order.device.free)
    /\ launch.ctx < order.card.trained + PageTokens
    /\ order.ctx # Largest => launch.ctx >= order.ctx /\ order.ctx <= order.card.trained

\* What is called measured was measured: on this card, for this model at this
\* quantisation, by a profile of the file that the store did not reject, and, for the
\* threads, on a CPU known to be like this one (schema.rs:1-20).
Witness(p) ==
  /\ p.gpu = order.device.gpu /\ p.id = order.card.id /\ p.quant = order.card.quant
  /\ p.blocks * order.card.perBlock = p.slots
  /\ resolved.ncmoe.origin = "measured" => p.ncmoe = resolved.ncmoe.value
  /\ resolved.ctx.origin = "measured" => p.ctx = resolved.ctx.value
  /\ resolved.threads.origin = "measured" =>
       p.threads = resolved.threads.value /\ p.cores = order.cores /\ p.cores # None
  /\ resolved.batch.origin = "measured" => p.batch = resolved.batch.value
  /\ resolved.baseline # NoScore => resolved.baseline = p.score
HasWitness ==
  (\E f \in {"ncmoe", "ctx", "threads", "batch"} : resolved[f].origin = "measured")
    \/ resolved.baseline # NoScore
  => \E i \in DOMAIN order.file.profiles : Witness(order.file.profiles[i])

\* And nobody is told to keep or to back out a tweak on the strength of noise: a verdict is
\* about the baseline's own question and rests on two scores of more than one run.  Between
\* scores with error bars the means are further apart than either side's bar, and where they
\* are further apart than both bars together there is a verdict; the other way round it is the
\* opposite; and a user who keeps every win never comes back to what he has left
\* (compare.rs:1-26, 137-141).  Of a score without spread, measured or typed without a
\* stddev, nothing is said: the code takes it for exact and lets it win.
Decided(v) == v \in {"win", "regression"}
Barred(s) == s.sd > 0
Apart(b, a) == IF a.mean > b.mean THEN a.mean - b.mean ELSE b.mean - a.mean
PastBar(d, s) == d * d * s.runs > 4 * s.sd * s.sd
PastBoth(d, b, a) ==
  \E d1 \in 0 .. d : PastBar(d1, b) /\ PastBar(d - d1, a)
Opposite(v) == CASE v = "win" -> "regression" [] v = "regression" -> "win" [] OTHER -> v
BeatsTheNoise(b, a) ==
  /\ Decided(Verdict(b, a)) => b.runs >= 2 /\ a.runs >= 2 /\ b.of = a.of
  /\ Barred(b) /\ Barred(a) =>
       /\ Decided(Verdict(b, a)) => PastBar(Apart(b, a), b) /\ PastBar(Apart(b, a), a)
       /\ Trustworthy(a) /\ PastBoth(Apart(b, a), b, a) => Decided(Verdict(b, a))
       /\ Verdict(a, b) = Opposite(Verdict(b, a))
       /\ \A next \in TypedScores :
            LET n == ParseCandidate(next, b.of).score
            IN Barred(n) /\ Verdict(b, a) = "win" /\ Verdict(a, n) = "win" =>
                 Verdict(b, n) = "win"
Informed ==
  stage = "informed" =>
    /\ Decided(judged.said) => judged.said = Verdict(resolved.baseline, judged.score)
    /\ judged.score # NoScore /\ resolved.baseline # NoScore =>
         BeatsTheNoise(resolved.baseline, judged.score)
    /\ ~judged.json => (judged.code = 0 <=> resolved.baseline # NoScore /\ judged.score # NoScore)

MeasuredIsMeasured == HasWitness /\ Informed

\* The planner answers with the best there is and refuses only when there is nothing;
\* the context it says could be reached can be asked for (memory.rs:370-560,
\* fit.rs:440-471).
PlanIsBest ==
  stage = "asked" =>
    LET free == order.device.free
        m == order.card.m
        best == Fit([order EXCEPT !.ctx = Largest])
    IN /\ IsBest(free, m, order.slots, order.ctx, free)
       /\ \A bias \in {"experts", "context"} : IsHonest(free, m, order.slots, bias, order.ctx)
       /\ BiasIsMoot(free, m, order.slots, order.ctx)
       /\ best.ok /\ Ceiling(order, best.tokens) # None =>
            Plan(free, m, order.slots, "experts", Ceiling(order, best.tokens)).ok

PlanTypeOK ==
  /\ stage \in {"asked", "fitted", "resolved", "clamped", "refused", "launched", "informed"}
  /\ launch.ok => launch.ncmoe \in 0 .. order.card.blocks /\ launch.ctx \in Nat
  /\ judged = Unjudged \/ judged.spec \in TypedScores
==============================================================================
