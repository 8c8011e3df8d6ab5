------------------------------- MODULE MCServer -------------------------------
(* Small instances of Serving for TLC.                                     *)
EXTENDS Serving

\* A token of one unit, one of two, and one that ends inside a character; the
\* stop string spans two tokens and is completed by the second unit of one.
MCTokens == {"a", "ab", "h"}
MCPiece == [t \in MCTokens |-> IF t = "ab" THEN <<"a", "b">> ELSE <<t>>]
MCOpen == {"h"}
MCStops == {<<"a", "a", "b">>}

Plan(kind, n, budget) == [kind |-> kind, n |-> n, budget |-> budget]
\* The first request streams a chat; the second streams a completion, waits for
\* a body, asks for more than the context holds, or has no prompt.
CONSTANTS r1, r2
MCPlans ==
  r1 :> {Plan("chat+usage", 2, 2)} @@
  r2 :> {Plan("completion+echo", 1, 1), Plan("body", 1, 1), Plan("body", 3, 1),
         Plan("body", 0, 1)}

\* Headers: a whole one, one of a family nobody knows, one without a template that
\* says its tokens twice, and three that cannot be used.
Entry(k, v) == [key |-> k, read |-> "ok", value |-> v]
Header(pre, more) ==
  LET entries == <<Entry("model", "gpt2"), Entry("tokens", 5), Entry("merges", 1),
                   Entry("pre", pre), Entry("eos", "im_end")>> \o more
  IN [magic |-> TRUE, version |-> 3, declared |-> Len(entries), entries |-> entries, of |-> "model"]
WholeHeader == Header("qwen2", <<Entry("template", "model")>>)
MCHeaders ==
  {WholeHeader, Header("new", <<>>), Header("qwen2", <<Entry("tokens", 4), Entry("tokens", 5)>>),
   [WholeHeader EXCEPT !.magic = FALSE], [WholeHeader EXCEPT !.declared = 7],
   [WholeHeader EXCEPT !.entries[2].read = "BadUtf8"],
   [WholeHeader EXCEPT !.entries[1].value = "llama"]}

Json(of, size, valid) ==
  [of |-> of, size |-> size, valid |-> valid, vocabulary |-> {"a", "endoftext", "im_end"}]
Foreigner == Json("other", 4, TRUE)
Path(kind, header, sibling, jinja, config) ==
  [kind |-> kind, header |-> header, sibling |-> sibling, jinja |-> jinja, config |-> config,
   json |-> Foreigner]
MCModels ==
  {Path("gguf", h, s, j, c) : h \in MCHeaders, s \in {None, Json("model", 5, TRUE), Foreigner},
                              j \in {None, "other"}, c \in {None, "unreadable", "model"}}
    \cup {Path("directory", WholeHeader, s, j, "model") :
            s \in {None, Json("model", 5, FALSE), Json("model", 5, TRUE)}, j \in {None, "broken"}}
    \cup {None}
MCLaunches ==
  [model : MCModels, tokenizer : {None, Path("json", WholeHeader, None, None, None)},
   template : {None, "other"}, built : BOOLEAN, require : BOOLEAN]
MCAsked ==
  [parses : BOOLEAN, n : {None, 1, 4}, prompts : {0, 1, 2}, rejected : BOOLEAN]

\* Fields out of range in either direction, a temperature that overflows every
\* logit, and penalties by either name; the third token ends a turn.
Knobs(t, p, k, r, f, m) ==
  [temperature |-> t, top_p |-> p, top_k |-> k, repetition_penalty |-> r,
   frequency_penalty |-> f, max_completion_tokens |-> m, max_tokens |-> 7, n |-> 1]
MCFields ==
  {Knobs(t, <<3, 5>>, Unset, r, Unset, Unset) : t \in {<<0, 1>>, <<1, 2>>}, r \in {<<3, 2>>, Unset}}
    \cup {Knobs(t, <<6, 5>>, 2, Unset, f, 0) :
            t \in {<<-1, 1>>, <<1, 16>>, Unset}, f \in {<<-3, 1>>, <<-1, 1>>, <<2, 1>>}}
    \cup {[Knobs(Unset, Unset, 1, Unset, Unset, 2) EXCEPT !.n = 4]}
MCDefaults ==
  [temperature |-> <<1, 1>>, top_p |-> <<1, 1>>, top_k |-> 0, repetition_penalty |-> <<1, 1>>,
   max_tokens |-> 3, stop_tokens |-> {2}]
MCHistory == {<<0>>, <<1, 0, 1>>, <<3>>}
MCRows ==
  [0 .. 2 -> {-64, 16}] \cup {[v \in 0 .. 2 |-> IF v = 0 THEN 64 ELSE 16], [v \in 0 .. 2 |-> 641], [v \in 0 .. 2 |-> IF v = 1 THEN 16 ELSE -641]}
MCNoises == [0 .. 2 -> {-16, 8}]

\* One thread that generates twice, or two that only load.
CONSTANTS u1, u2
MCQuotas == {u1 :> 2, u1 :> 0 @@ u2 :> 0}
MCTexts == {<<>>, <<"p">>, <<"p", "q">>}
MCAsks ==
  {[n_ctx |-> 3, n_ubatch |-> 1, type_k |-> "q8_0", type_v |-> "f16"],
   [n_ctx |-> 0, n_ubatch |-> 2, type_k |-> "f32", type_v |-> "q4_0"]}
=============================================================================
