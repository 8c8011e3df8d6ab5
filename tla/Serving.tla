-------------------------------- MODULE Serving --------------------------------
(***************************************************************************)
(* Four views of moearc-server, none of which shares a variable with       *)
(* another:                                                                *)
(*   "requests"  accepted requests, their streams and the engine's thread  *)
(*               (Server);                                                 *)
(*   "startup"   what main finds beside a model before it serves, and      *)
(*               which requests it accepts (Startup);                      *)
(*   "sampling"  the sampling fields of one request and the tokens drawn   *)
(*               with them (Sampling);                                     *)
(*   "llama"     the binding under the engine's thread, when several       *)
(*               threads of a process use it (Llama).                      *)
(***************************************************************************)
EXTENDS Server

CONSTANTS
  Views,
  Launches, Asked, Families, ModelSize, MaxArrayLen,
  Unit, Huge, Tiny, Shift, Peak, Unset, Fields, Defaults, MaxCap, History, Rows, Noises,
  Users, Quotas, Vocab, Texts, Budgets, TrainedCtx, Asks, Heads, HeadDim, Layers, Splits,
  LogTailMax

VARIABLES
  view,
  \* Startup.
  launch, stage, tokenizer, template, backend, said, answer,
  \* Sampling.
  fields, params, generator, ids, emitted, drawn, end,
  \* Llama.
  quota, log, written, alone, reason, at, on_cpu, split, asked, given, memory, logits, timers,
  job

U == INSTANCE Startup
D == INSTANCE Sampling
L == INSTANCE Llama

ASSUME ServingAssumption == U!StartupAssumption /\ L!LlamaAssumption

startups == <<launch, stage, tokenizer, template, backend, said, answer>>
samplings == <<fields, params, generator, ids, emitted, drawn, end>>
llamas == <<quota, log, written, alone, reason, at, on_cpu, split, asked, given, memory, logits,
            timers, job>>
servingVars == <<view, vars, startups, samplings, llamas>>

-----------------------------------------------------------------------------
NoStartup == U!Begins({None})
NoSampling ==
  D!SamplingStarts({CHOOSE f \in Fields : D!Valid(f)}, {CHOOSE p \in History : TRUE}, {"echo"})
NoLlama == quota = <<>> /\ L!LlamaAtRest

ServingInit ==
  /\ view \in Views /\ Init
  /\ IF view = "startup" THEN U!StartupInit ELSE NoStartup
  /\ IF view = "sampling" THEN D!SamplingInit ELSE NoSampling
  /\ IF view = "llama" THEN L!LlamaInit ELSE NoLlama

ServingNext ==
  /\ UNCHANGED view
  /\ IF view = "requests" THEN Next ELSE UNCHANGED vars
  /\ IF view = "startup" THEN U!StartupNext ELSE UNCHANGED startups
  /\ IF view = "sampling" THEN D!SamplingNext ELSE UNCHANGED samplings
  /\ IF view = "llama" THEN L!LlamaNext ELSE UNCHANGED llamas

\* What is fair is what Server says; outside its view none of that is ever enabled.
ServingSpec == ServingInit /\ [][ServingNext]_servingVars /\ Fairness

-----------------------------------------------------------------------------
(* The properties of the views; their modules say what each is about.      *)
\* sampling and llama: a token is drawn from the logits of its own context, and is one
\* that the request's knobs allow.
DrawnFromItsOwn ==
  (view = "sampling" => D!SampledIsAllowed) /\ (view = "llama" => L!SampledFromItsOwn)
\* startup and llama: what the operator is told is what serves, and why it failed.
NothingIsSilent ==
  (view = "startup" => U!ServesWhatItSays) /\ (view = "llama" => L!SaysWhatHappened)
===============================================================================
