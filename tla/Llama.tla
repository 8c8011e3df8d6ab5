--------------------------------- MODULE Llama ---------------------------------
(***************************************************************************)
(* moearc-llama: threads of one process that each load a model through the *)
(* shim, build a context over it and run generate() on it.  The weights,   *)
(* the tokenizer and the arithmetic are llama.cpp's and external; modelled *)
(* is what the binding keeps: the tail of the log all threads share, the   *)
(* expansion of -ncmoe, the KV cache a generation builds on, and timers.   *)
(***************************************************************************)
EXTENDS Integers, FiniteSetsExt, SequencesExt

CONSTANTS
  Users,         \* the threads
  Quotas,        \* which of them run, and how many generate() calls each makes
  Vocab,         \* the tokens that do not end a generation
  Texts,         \* prompts, tokenized
  Budgets,       \* max_tokens
  TrainedCtx,    \* n_ctx_train
  Asks,          \* the ContextParams a user may give: n_ctx, n_ubatch, type_k, type_v
  Heads, HeadDim,
  Layers,        \* the blocks of the model
  Splits,        \* n_cpu_moe
  LogTailMax     \* LOG_TAIL_MAX, in lines

VARIABLES
  quota,
  log,        \* g_log_tail
  written,    \* what llama.cpp has written during a user's call
  alone,      \* nobody else has written or cleared since that call began
  reason,     \* the text of the error a user got
  at,         \* where a user is
  on_cpu,     \* the tensors of its model that were pinned to the CPU buffer type
  split,      \* its n_cpu_moe
  asked, given,   \* the ContextParams; what llama.cpp was told
  memory,     \* the tokens in its KV cache
  logits,     \* the tokens its logits were computed after
  timers,     \* n_eval: the single tokens decoded since perf_reset
  job         \* the generate() call it is in, and how many it has made

loading == <<log, written, alone, reason>>
weights == <<on_cpu, split, asked, given>>
sequence == <<memory, logits, timers, job>>
llama == <<quota, loading, at, weights, sequence>>

KvTypes == {"f32", "f16", "q4_0", "q8_0"}

\* What prompts are made of, and what is drawn.
Words == Vocab \cup UNION {ToSet(text) : text \in Texts}

\* A row of a cache is a whole number of the 32 elements that the quantized types
\* share a scale over.
LlamaAssumption ==
  /\ \A q \in Quotas : DOMAIN q \subseteq Users
  /\ Texts \subseteq Seq(Words) /\ Budgets \subseteq Nat
  /\ LogTailMax \in Nat /\ TrainedCtx \in Nat /\ Layers \in Nat /\ Splits \subseteq Int
  /\ Heads \in Nat /\ HeadDim \in Nat /\ (Heads * HeadDim) % 32 = 0
  /\ Asks # {} /\ Asks \subseteq [n_ctx : Nat, n_ubatch : Nat, type_k : KvTypes, type_v : KvTypes]

Goto(u, to) == at' = [at EXCEPT ![u] = to]

-----------------------------------------------------------------------------
(* -ncmoe: one regular expression per block, over names of tensors.        *)

\* The number of a block is written out: in base two, two blocks are enough for one
\* number to begin another.
Digits[n \in Nat] == IF n < 2 THEN <<n>> ELSE Append(Digits[n \div 2], n % 2)

Dot == 2    \* the character after the number, no digit
Tensors == [block : 0 .. (Layers - 1), name : {"attn_q", "ffn_up_exps", "ffn_up_chexps", "ffn_up_shexp"}]
Name(t) == Digits[t.block] \o <<Dot>>
ExpertNames == {"ffn_up_exps", "ffn_up_chexps"}

PatternOpen(i) == Digits[i]
Pattern(i) == Digits[i] \o <<Dot>>
Matches(i, t) == IsPrefix(Pattern(i), Name(t)) /\ t.name \in ExpertNames

\* The overrides borrow the text of their pattern: a vector that grows moves its
\* strings, and what was borrowed before is gone.
PushPattern(v, i) ==
  LET moves == v.len = v.room
  IN [len |-> v.len + 1,
      room |-> IF moves THEN (2 * v.room) + 1 ELSE v.room,
      borrowed |-> (IF moves THEN {} ELSE v.borrowed) \cup {i}]
Reserved(n) == [len |-> 0, room |-> n, borrowed |-> {}]
Overrides(n) ==
  LET asked_for == IF n > 0 THEN n ELSE 0
      pushed[i \in 0 .. asked_for] ==
        IF i = 0 THEN Reserved(asked_for) ELSE PushPattern(pushed[i - 1], i - 1)
  IN pushed[asked_for].borrowed
Pinned(n) == {t \in Tensors : \E i \in Overrides(n) : Matches(i, t)}

-----------------------------------------------------------------------------
(* ContextParams, the flat structs and what llama.cpp makes of them.       *)

\* ggml's own discriminants, as the enum crosses the boundary.
GgmlType == [t \in KvTypes |-> CASE t = "f32" -> 0 [] t = "f16" -> 1 [] t = "q4_0" -> 2 [] t = "q8_0" -> 8]

Flat(p) == [n_ctx |-> p.n_ctx, n_ubatch |-> p.n_ubatch,
            type_k |-> GgmlType[p.type_k], type_v |-> GgmlType[p.type_v]]

\* 32 elements of a cache: two or four bytes each, or a block with its scale.
BlockBytes(discriminant) ==
  CASE discriminant = 0 -> 128 [] discriminant = 1 -> 64
    [] discriminant = 2 -> 18 [] discriminant = 8 -> 34
Cells(f) == IF f.n_ctx = 0 THEN TrainedCtx ELSE f.n_ctx
RowBytes(discriminant) == ((Heads * HeadDim) \div 32) * BlockBytes(discriminant)
CacheBytes(f) == Cells(f) * Layers * (RowBytes(f.type_k) + RowBytes(f.type_v))

\* bytes_per_element, in 32nds, and kv_bytes with them.
BytesPerElement32(type) ==
  CASE type = "f32" -> 4 * 32 [] type = "f16" -> 2 * 32 [] type = "q4_0" -> 18 [] type = "q8_0" -> 34
KvBytes(p) ==
  (Layers * Heads * HeadDim * (BytesPerElement32(p.type_k) + BytesPerElement32(p.type_v)) * p.n_ctx)
    \div 32

-----------------------------------------------------------------------------
(* The log.                                                                *)

Warn == 3    \* GGML_LOG_LEVEL_WARN; ERROR is 4 and a continued line 5
Line(u, level) == [by |-> u, level |-> level]
\* What a call writes: nothing, a hundred lines of progress, or a complaint or two.
Outputs(u) == {<<>>, <<Line(u, 2)>>, <<Line(u, 4)>>, <<Line(u, 3), Line(u, 2), Line(u, 4)>>}

\* The callback is called line by line.
Kept(lines) ==
  LET kept[i \in 0 .. Len(lines)] ==
        IF i = 0 THEN <<>>
        ELSE IF lines[i].level >= Warn THEN Append(kept[i - 1], lines[i]) ELSE kept[i - 1]
  IN kept[Len(lines)]
LastLines(lines) == IF Len(lines) <= LogTailMax THEN lines
                    ELSE SubSeq(lines, Len(lines) - LogTailMax + 1, Len(lines))

Writes(u, lines) ==
  /\ log' = LastLines(log \o Kept(lines))
  /\ written' = [written EXCEPT ![u] = Kept(lines)]
  /\ alone' = [v \in Users |-> alone[v] /\ (v = u \/ Kept(lines) = <<>>)]

\* mla_clear_error, before a call that may fail.
ClearError(u) ==
  /\ log' = <<>>
  /\ written' = [written EXCEPT ![u] = <<>>]
  /\ alone' = [v \in Users |-> v = u]
  /\ reason' = [reason EXCEPT ![u] = <<>>]

\* last_error, after it did.
Report(u) ==
  /\ at[u] \in {"load_failed", "create_failed"}
  /\ reason' = [reason EXCEPT ![u] = log]
  /\ Goto(u, "reported")
  /\ UNCHANGED <<log, written, alone, weights, sequence>>

-----------------------------------------------------------------------------
(* Model::load and Context::new.                                           *)

Load(u) ==
  /\ at[u] = "idle" /\ Goto(u, "loading") /\ ClearError(u)
  /\ \E n \in Splits : split' = [split EXCEPT ![u] = n]
  /\ UNCHANGED <<on_cpu, asked, given, sequence>>

Loaded(u) ==
  /\ at[u] = "loading" /\ Goto(u, "loaded")
  /\ \E lines \in Outputs(u) : Writes(u, lines)
  /\ on_cpu' = [on_cpu EXCEPT ![u] = Pinned(split[u])]
  /\ UNCHANGED <<reason, split, asked, given, sequence>>

NewContext(u) ==
  /\ at[u] = "loaded" /\ Goto(u, "creating") /\ ClearError(u)
  /\ \E p \in Asks :
       /\ asked' = [asked EXCEPT ![u] = p]
       /\ given' = [given EXCEPT ![u] = Flat(p)]
  /\ UNCHANGED <<on_cpu, split, sequence>>

Created(u) ==
  /\ at[u] = "creating" /\ Goto(u, "open")
  /\ \E lines \in Outputs(u) : Writes(u, lines)
  /\ UNCHANGED <<reason, weights, sequence>>

\* NULL: the cause is in the log, if anywhere.
Fails(u) ==
  /\ at[u] \in {"loading", "creating"}
  /\ Goto(u, IF at[u] = "loading" THEN "load_failed" ELSE "create_failed")
  /\ \E lines \in Outputs(u) : Writes(u, lines)
  /\ UNCHANGED <<reason, weights, sequence>>

\* Contexts borrow from their model, so they go first.
DropContext(u) ==
  /\ at[u] = "open" /\ Goto(u, "closed")
  /\ on_cpu' = [on_cpu EXCEPT ![u] = {}]
  /\ split' = [split EXCEPT ![u] = 0]
  /\ memory' = [memory EXCEPT ![u] = <<>>] /\ logits' = [logits EXCEPT ![u] = <<>>]
  /\ UNCHANGED <<loading, asked, given, timers, job>>

-----------------------------------------------------------------------------
(* generate.                                                               *)

NoJob == [made |-> 0, prompt |-> <<>>, budget |-> 0, previous |-> <<>>, tokens |-> <<>>,
          feed |-> <<>>, end |-> "none", rate |-> FALSE]

Generate(u) ==
  /\ at[u] = "open" /\ job[u].made < quota[u]
  /\ \E text \in Texts, budget \in Budgets :
       /\ job' = [job EXCEPT ![u] =
            [NoJob EXCEPT !.made = job[u].made + 1, !.prompt = text, !.budget = budget,
                          !.previous = memory[u], !.feed = text]]
       /\ Goto(u, "decoding")
  /\ UNCHANGED <<loading, weights, memory, logits, timers>>

Feed(u) == job[u].feed

\* llama_decode returned 0; decode(&[]) does not call it.
Decoded(u) ==
  /\ at[u] = "decoding" /\ Goto(u, "sampling")
  /\ IF Feed(u) = <<>>
       THEN UNCHANGED <<memory, logits, timers>>
       ELSE LET all == memory[u] \o Feed(u)
            IN /\ Len(all) <= Cells(given[u])
               /\ memory' = [memory EXCEPT ![u] = all] /\ logits' = [logits EXCEPT ![u] = all]
               /\ timers' = [timers EXCEPT ![u] = @ + IF Len(Feed(u)) = 1 THEN 1 ELSE 0]
  /\ UNCHANGED <<loading, weights, job>>

\* 1 or -1: nothing was processed; 2 or below -1: the ubatches before it stay.  The
\* error is all generate returns: the tokens so far are lost.
DecodeFailed(u) ==
  /\ at[u] = "decoding" /\ Feed(u) # <<>> /\ Goto(u, "open")
  /\ \E done \in {k * given[u].n_ubatch : k \in 0 .. Len(Feed(u))} :
       /\ done < Len(Feed(u)) /\ Len(memory[u]) + done <= Cells(given[u])
       /\ memory' = [memory EXCEPT ![u] = @ \o SubSeq(Feed(u), 1, done)]
  /\ job' = [job EXCEPT ![u].tokens = <<>>, ![u].end = "error", ![u].feed = <<>>]
  /\ UNCHANGED <<loading, weights, logits, timers>>

\* Throughput, or none: llama.cpp may report one token where there were none.
Rates(eval) == {n > 0 /\ eval > 0 : n \in {eval, Max({eval, 1})}}

Return(u, end) ==
  /\ Goto(u, "open")
  /\ \E rate \in Rates(timers[u]) :
       job' = [job EXCEPT ![u].end = end, ![u].rate = rate, ![u].feed = <<>>]
  /\ UNCHANGED <<loading, weights, memory, logits, timers>>

Wants(u) == Len(job[u].tokens) < job[u].budget
BudgetSpent(u) == at[u] = "sampling" /\ ~Wants(u) /\ Return(u, "budget")
EndOfGeneration(u) == at[u] = "sampling" /\ Wants(u) /\ Return(u, "eog")

\* Accepted, kept and decoded, also when it is the last one wanted.
Sample(u) ==
  /\ at[u] = "sampling" /\ Wants(u) /\ Goto(u, "decoding")
  /\ \E t \in Vocab :
       job' = [job EXCEPT ![u].tokens = Append(@, t), ![u].feed = <<t>>]
  /\ UNCHANGED <<loading, weights, memory, logits, timers>>

\* Between calls: the cache goes, or the timers do; nothing else resets either.
Reset(u) ==
  /\ at[u] = "open" /\ memory[u] # <<>>
  /\ memory' = [memory EXCEPT ![u] = <<>>]
  /\ job' = [job EXCEPT ![u] = [NoJob EXCEPT !.made = job[u].made]]
  /\ UNCHANGED <<loading, at, weights, logits, timers>>

PerfReset(u) ==
  /\ at[u] = "open" /\ timers[u] > 0
  /\ timers' = [timers EXCEPT ![u] = 0]
  /\ job' = [job EXCEPT ![u] = [NoJob EXCEPT !.made = job[u].made]]
  /\ UNCHANGED <<loading, at, weights, memory, logits>>

-----------------------------------------------------------------------------
LlamaAtRest ==
  /\ log = <<>>
  /\ written = [u \in Users |-> <<>>] /\ alone = [u \in Users |-> FALSE]
  /\ reason = [u \in Users |-> <<>>] /\ at = [u \in Users |-> "idle"]
  /\ on_cpu = [u \in Users |-> {}] /\ split = [u \in Users |-> 0]
  /\ asked = [u \in Users |-> CHOOSE p \in Asks : TRUE]
  /\ given = [u \in Users |-> Flat(asked[u])]
  /\ memory = [u \in Users |-> <<>>] /\ logits = [u \in Users |-> <<>>]
  /\ timers = [u \in Users |-> 0] /\ job = [u \in Users |-> NoJob]

LlamaInit == quota \in Quotas /\ LlamaAtRest

LlamaNext ==
  /\ UNCHANGED quota
  /\ \E u \in DOMAIN quota :
       \/ Load(u) \/ Loaded(u) \/ NewContext(u) \/ Created(u) \/ Fails(u) \/ Report(u)
       \/ DropContext(u)
       \/ Generate(u) \/ Decoded(u) \/ DecodeFailed(u)
       \/ BudgetSpent(u) \/ EndOfGeneration(u) \/ Sample(u)
       \/ Reset(u) \/ PerfReset(u)

-----------------------------------------------------------------------------
(* Properties.                                                             *)

\* A token is sampled from the logits of the whole context: what the cache held
\* when the call began, the prompt and the tokens drawn so far.  A prompt without
\* a token is decoded by nobody, and is sampled from whatever came before it.
SampledFromItsOwn ==
  \A u \in Users :
    /\ at[u] = "sampling" /\ job[u].prompt # <<>> =>
         /\ memory[u] = job[u].previous \o job[u].prompt \o job[u].tokens
         /\ logits[u] = memory[u]
    /\ job[u].end \in {"budget", "eog"} /\ at[u] = "open" =>
         memory[u] = job[u].previous \o job[u].prompt \o job[u].tokens
    /\ job[u].end = "budget" => Len(job[u].tokens) = job[u].budget

\* What the binding says of a call is that call's: a failed load or context carries
\* what llama.cpp wrote about it, unless another thread used the log meanwhile; a
\* throughput has a token behind it; -ncmoe N has pinned the expert tensors of the
\* first N blocks and no other; and the plan's KV bytes are what the cache takes,
\* except for the n_ctx of 0 that leaves the length to the model.
SaysWhatHappened ==
  \A u \in Users :
    /\ at[u] = "reported" /\ alone[u] => reason[u] = LastLines(written[u])
    /\ job[u].rate => timers[u] > 0
    /\ at[u] \in {"loaded", "creating", "open", "decoding", "sampling"} =>
         on_cpu[u] = {t \in Tensors : t.block < split[u] /\ t.name \in ExpertNames}
    /\ asked[u].n_ctx > 0 => KvBytes(asked[u]) = CacheBytes(given[u])
===============================================================================
