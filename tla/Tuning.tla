-------------------------------- MODULE Tuning --------------------------------
(***************************************************************************)
(* Tuning, crates/moearc-cli/src/tuning: from the profiles somebody        *)
(* measured and from what the planner derives for this card now, the       *)
(* settings to run llama.cpp with and where each of them comes from.       *)
(*                                                                         *)
(* A card is [id, quant, m, blocks, perBlock, trained]: the model, its     *)
(* footprint, its MoE blocks and the context it was trained for (0: not    *)
(* known).  A device is [gpu, free].  A profile is                         *)
(*   [gpu, vram, cores, id, quant, blocks, slots, at, ncmoe, threads, ctx, *)
(*    batch, score]                                                        *)
(* where None stands for an absent setting, batch for every setting that   *)
(* belongs neither to the card nor to the CPU (-b, -ub, -fa, -ngl, the KV  *)
(* type) and slots for the expert slots it records, which should be those  *)
(* its blocks multiply out to.  A score is [of, mean, sd, runs], of being  *)
(* the metric and the depth it is a score of; one of no run is NoScore.    *)
(* Of a family (is_same_family) are the models with as many blocks at the  *)
(* same quantisation.  The notes and caveats are left out.                 *)
(***************************************************************************)
EXTENDS VramPlan, Sequences, SequencesExt

\* A score with an error bar below a fifth of its mean, over more than one run.  (In the
\* first form, a mutant's, one run will do.)
NoScore == [of |-> 0, mean |-> 0, sd |-> 0, runs |-> 0]
TrustsOneRun(s) == s.runs >= 1 /\ s.mean > 0 /\ 5 * s.sd < s.mean
Trustworthy(s) == s.runs >= 2 /\ s.mean > 0 /\ 5 * s.sd < s.mean
BaselineOf(p) == IF Trustworthy(p.score) THEN p.score ELSE NoScore

Untuned == [value |-> None, origin |-> "untuned"]
Setting(value, origin) ==
  IF value = None THEN Untuned ELSE [value |-> value, origin |-> origin]
Carried(p, field, origin, otherwise) ==
  IF p[field] = None THEN otherwise ELSE Setting(p[field], origin)

-----------------------------------------------------------------------------
(* The store.  A file of another schema yields nothing; a profile whose    *)
(* numbers contradict each other is left out.                              *)
ValidProfile(p, perBlock) ==
  /\ p.vram # 0
  /\ p.blocks > 0 /\ p.blocks * perBlock = p.slots
  /\ p.ncmoe <= p.blocks

Load(file, perBlock) ==
  IF ~file.understood THEN <<>>
  ELSE SelectSeq(file.profiles, LAMBDA p : ValidProfile(p, perBlock))

\* Which rung of the ladder a profile is on, for this model on this device.  (The
\* first form, a mutant's, does not look at the quantisation.)
RungAnyQuant(p, device, card) ==
  IF p.gpu = device.gpu /\ p.id = card.id THEN "exact" ELSE "none"
Rung(p, device, card) ==
  LET here == p.gpu = device.gpu
      this == p.id = card.id
  IN CASE here /\ this /\ p.quant = card.quant -> "exact"
       [] here /\ this /\ p.quant # card.quant -> "other_quant"
       [] this /\ ~here -> "other_card"
       [] here /\ ~this /\ p.blocks = card.blocks /\ p.quant = card.quant -> "sibling"
       [] OTHER -> "none"

\* Newest first, then nearest in memory; of equals the earlier in the file stays (the
\* likeness of the names, which only ranks siblings that tie, is left out).
Distance(p, device) == IF p.vram > device.free THEN p.vram - device.free
                       ELSE device.free - p.vram
Better(p, q, device) ==
  \/ p.at > q.at
  \/ p.at = q.at /\ Distance(p, device) < Distance(q, device)

OnRung(store, rung, device, card) ==
  SelectSeq(store, LAMBDA p : Rung(p, device, card) = rung)
BestOf(s, device) ==
  FoldLeft(LAMBDA best, p : IF Better(p, best, device) THEN p ELSE best, Head(s), s)

-----------------------------------------------------------------------------
(* What the planner would do, without any profile.                         *)
HostQuant == "mxfp4"   \* its experts are measured to be faster on the host
Trained(card) == Greater(card.trained, 1)

PlanFor(device, card, cap, want) ==
  PlanLlama(device.free, card.m, card.blocks, card.perBlock, cap, want)

\* The context beside an expert bank that is wholly on the host: planned with
\* the bank at its floor, up to what the model was trained for.
HostContext(card, floor, fallback) ==
  Lesser(IF floor.ok THEN floor.ctx ELSE fallback, Trained(card))

\* A context past the trained one is planned again at the trained one, so that
\* -c and -ncmoe stay of one plan; it is only cut when that cannot be planned.
HeldToTrained(card, split, again) ==
  IF split.ctx <= Trained(card) THEN split
  ELSE IF again.ok THEN again
  ELSE [split EXCEPT !.ctx = Trained(card)]

DeriveFrom(split, device, card, ctx) ==
  IF ~split.ok THEN split
  ELSE IF card.quant = HostQuant
       THEN [ok |-> TRUE, ncmoe |-> card.blocks,
             ctx |-> HostContext(card, PlanFor(device, card, 0, ctx), split.ctx)]
  ELSE HeldToTrained(card, split, PlanFor(device, card, None, Trained(card)))
Derive(device, card, ctx) ==
  DeriveFrom(PlanFor(device, card, None, ctx), device, card, ctx)

\* Half the cores, rounded up; none are suggested when the count is not known.
DerivedThreads(cores) == IF cores <= 0 THEN None ELSE (cores + 1) \div 2

\* How many experts -ncmoe n leaves on the card.
BankResident(card, n) == Greater(card.blocks - n, 0) * card.perBlock

-----------------------------------------------------------------------------
(* The settings, one operator for each rung.                               *)
Empty(basis) ==
  [basis |-> basis, ncmoe |-> Untuned, ctx |-> Untuned, threads |-> Untuned,
   batch |-> Untuned, baseline |-> NoScore, bank |-> None]

FromDerived(card, cores, split) ==
  [basis |-> "derived",
   ncmoe |-> Setting(split.ncmoe, "derived"),
   ctx |-> Setting(split.ctx, "derived"),
   threads |-> Setting(DerivedThreads(cores), "derived"),
   batch |-> Untuned, baseline |-> NoScore, bank |-> BankResident(card, split.ncmoe)]

\* Whether the profile was taken on a CPU like this one.
SameCpu(p, cores) ==
  IF p.cores = None \/ cores = None THEN "unknown"
  ELSE IF p.cores = cores THEN "yes" ELSE "no"

ExactThreads(p, cores) ==
  LET derived == Setting(DerivedThreads(cores), "derived")
  IN CASE SameCpu(p, cores) = "yes" -> Carried(p, "threads", "measured", derived)
       [] SameCpu(p, cores) = "unknown" -> Carried(p, "threads", "extrapolated", derived)
       [] OTHER -> derived

\* -ncmoe: the measured one unless it is below what this card has room for.
ExactNcmoe(p, split) ==
  IF p.ncmoe >= split.ncmoe THEN Setting(p.ncmoe, "measured")
  ELSE Setting(split.ncmoe, "derived")

\* A profile's context is adopted when none was asked for, and the split is then
\* planned for it; when that is impossible the split stays as it is.  (In the
\* first form, a mutant's, it is adopted without planning for it.)
AdoptsUnplanned(p, device, card, split) ==
  [split |-> split, ctx |-> Setting(p.ctx, "measured")]
Kept(split) == [split |-> split, ctx |-> Setting(split.ctx, "derived")]
Adopted(p, split, again) ==
  IF again.ok THEN [split |-> again, ctx |-> Setting(p.ctx, "measured")] ELSE Kept(split)
Adopts(p, device, card, split) == Adopted(p, split, Derive(device, card, p.ctx))

Measured(p, card, cores, settled) ==
  [basis |-> "measured",
   ncmoe |-> ExactNcmoe(p, settled.split),
   ctx |-> settled.ctx,
   threads |-> ExactThreads(p, cores),
   batch |-> Setting(p.batch, "measured"),
   baseline |-> BaselineOf(p),
   bank |-> BankResident(card, settled.split.ncmoe)]
FromExact(p, device, card, cores, ctx, split) ==
  Measured(p, card, cores,
           IF ctx = Largest /\ p.ctx # None /\ p.ctx # split.ctx
           THEN Adopts(p, device, card, split) ELSE Kept(split))

\* From nearby: -ncmoe, whose floor is a crash, is never carried, nor is the score.
FromNearby(p, rung, card, cores, split) ==
  LET derived == FromDerived(card, cores, split)
  IN [derived EXCEPT
        !.basis = rung,
        !.threads = IF SameCpu(p, cores) = "yes"
                    THEN Carried(p, "threads", "extrapolated", @) ELSE @,
        !.batch = Setting(p.batch, "extrapolated")]

Settings(split, store, device, card, cores, ctx) ==
  LET exact == OnRung(store, "exact", device, card)
      near == SelectSeq(<<"other_quant", "other_card", "sibling">>,
                        LAMBDA r : OnRung(store, r, device, card) # <<>>)
  IN CASE ~split.ok ->
            [Empty("unplannable") EXCEPT
               !.baseline = IF exact = <<>> THEN NoScore
                            ELSE BaselineOf(BestOf(exact, device))]
       [] split.ok /\ exact # <<>> ->
            FromExact(BestOf(exact, device), device, card, cores, ctx, split)
       [] split.ok /\ exact = <<>> /\ near # <<>> ->
            FromNearby(BestOf(OnRung(store, Head(near), device, card), device),
                       Head(near), card, cores, split)
       [] OTHER -> FromDerived(card, cores, split)
Resolve(store, device, card, cores, ctx) ==
  Settings(Derive(device, card, ctx), store, device, card, cores, ctx)

-----------------------------------------------------------------------------
(* compare.rs: is this tweak a win?  A candidate is [mean, sd, runs] as    *)
(* typed, None where nothing is; what is no number, or negative, is Garbled.             *)
Garbled == -2
Typed(field, otherwise) == IF field = None THEN otherwise ELSE field
ParseCandidate(spec, of) ==
  IF Garbled \in {spec.mean, spec.sd, spec.runs} \/ spec.mean <= 0
  THEN [ok |-> FALSE, score |-> NoScore]
  ELSE [ok |-> TRUE,
        score |-> [of |-> of, mean |-> spec.mean, sd |-> Typed(spec.sd, 0),
                   runs |-> Typed(spec.runs, 1)]]

\* Whether d is past two standard errors of the difference of two scores, those being the
\* roots of sd^2/runs.  (In the first form, a mutant's, the errors are not combined.)
ClearsBaselineOnly(d, b, a) == d > 0 /\ d * d * b.runs > 4 * b.sd * b.sd
Clears(d, b, a) ==
  d > 0 /\ d * d * b.runs * a.runs > 4 * (b.sd * b.sd * a.runs + a.sd * a.sd * b.runs)

Verdict(b, a) ==
  CASE b.of # a.of -> "not comparable"
    [] b.of = a.of /\ ~(Trustworthy(b) /\ Trustworthy(a)) -> "untrustworthy"
    [] OTHER -> IF Clears(a.mean - b.mean, b, a) THEN "win"
                ELSE IF Clears(b.mean - a.mean, b, a) THEN "regression"
                ELSE "indistinguishable"
==============================================================================
