-------------------------------- MODULE Server --------------------------------
(***************************************************************************)
(* moearc-server from an accepted request to the end of its response: the  *)
(* handlers of routes.rs on their blocking threads, generate_text, the     *)
(* token loop drive (generate.rs), EngineGenerator with its mutex and its  *)
(* two channels, and the thread that owns the model (engine.rs).           *)
(*                                                                         *)
(* A prompt of n tokens of request r is the sequence of n times r, so that *)
(* the context of the model shows whose tokens it holds.  What the sampler *)
(* draws is a choice.  A frame is the name of an SSE event or a text.      *)
(*                                                                         *)
(* A text is a sequence of units.  A token stands for the units of its     *)
(* piece; after a token of Open the text ends inside a character, which    *)
(* decodes to U+FFFD until the next token completes it.                    *)
(***************************************************************************)
EXTENDS Integers, SequencesExt

CONSTANTS
  Tokens,     \* what the sampler may pick
  Piece,      \* the units each token adds
  Open,       \* the tokens that end inside a character
  Stops,      \* the stop strings
  Requests, None,
  Plans,      \* what each request may ask: its kind (all stream but "body"), the
              \* length n of its prompt and max_tokens
  Eos,        \* the stop token
  NCtx,       \* the tokens the context holds
  NBatch,     \* the tokens one llama_decode takes
  Buffer,     \* STREAM_BUFFER
  Panics      \* who may panic, in a build that unwinds: "engine", "request"

Kinds == {"chat", "chat+usage", "completion", "completion+echo", "body"}

ASSUME TextAssumption ==
  /\ DOMAIN Piece = Tokens /\ Open \subseteq Tokens
  /\ \A t \in Tokens : Piece[t] # <<>> /\ Piece[t] \in Seq(ToSet(Piece[t]))
  /\ \A stop \in Stops : stop \in Seq(ToSet(stop))

ASSUME ServerAssumption ==
  /\ None \notin Requests /\ Eos \notin Tokens
  /\ \A r \in Requests :
       Plans[r] \subseteq [kind : Kinds, n : Nat, budget : Nat]
  /\ {NCtx, NBatch, Buffer} \subseteq Nat \ {0}

VARIABLES
  up,         \* the server: "up", "draining", "dropping", "down"
  engine,     \* the engine thread: "up" or "gone"
  kv,         \* the tokens in the model's context
  commands, replies,   \* the two channels of the Link
  holder, poisoned,    \* the Mutex around it
  pc, plan,   \* where a request's thread is; the request
  accepted,   \* the tokens drive accepted
  text,       \* the text of generate_text
  hit,        \* hit_stop_string
  alive,      \* sink_alive
  outbox,     \* the frames the thread still has to send before it goes on
  wire,       \* every frame sent so far
  unread,     \* how many of them the client has not taken
  client      \* the client's end: "open" or "left"

shared == <<up, engine, kv, commands, replies, holder, poisoned>>
local == <<plan, accepted, text, hit, alive>>
stream == <<outbox, wire, unread, client>>
vars == <<shared, pc, local, stream>>

Blank == [kind |-> "body", n |-> 0, budget |-> 0]
Streams(r) == plan[r].kind # "body"
Prompt(r) == [i \in 1 .. plan[r].n |-> r]

\* Frames.
Mark(name) == [is |-> name, text |-> <<>>]
TextFrames(t) == IF t = <<>> THEN <<>> ELSE <<[is |-> "text", text |-> t]>>
TextSent(fs) == FlattenSeq([i \in DOMAIN fs |-> IF fs[i].is = "text" THEN fs[i].text ELSE <<>>])
\* What the sink has been handed: "emitted" of generate_text.
Handed(r) == TextSent(wire[r] \o outbox[r])

Init ==
  /\ up = "up" /\ engine = "up" /\ kv = <<>>
  /\ commands = <<>> /\ replies = <<>> /\ holder = None /\ poisoned = FALSE
  /\ pc = [r \in Requests |-> "absent"]
  /\ plan = [r \in Requests |-> Blank]
  /\ accepted = [r \in Requests |-> <<>>] /\ text = [r \in Requests |-> <<>>]
  /\ hit = [r \in Requests |-> FALSE] /\ alive = [r \in Requests |-> TRUE]
  /\ outbox = [r \in Requests |-> <<>>] /\ wire = [r \in Requests |-> <<>>]
  /\ unread = [r \in Requests |-> 0]
  /\ client = [r \in Requests |-> "open"]

-----------------------------------------------------------------------------
(* Text: how accepted tokens become it (tokenize.rs) and how stop strings    *)
(* cut it (generate_text and its two helpers, routes.rs).                    *)

TextOf(ids) == FlattenSeq([i \in DOMAIN ids |-> Piece[ids[i]]])

\* IncrementalDecoder::push for the last of ids: nothing while it is open, else
\* all the text that follows what has been handed out.
Delta(ids, handed) ==
  IF Last(ids) \in Open
    THEN <<>>
    ELSE SubSeq(TextOf(ids), Len(handed) + 1, Len(TextOf(ids)))

Occurs(stop, t, at) ==
  at + Len(stop) - 1 <= Len(t) /\ SubSeq(t, at, at + Len(stop) - 1) = stop

\* Where some stop string begins; an empty stop string is ignored.
StopsIn(t) ==
  {at \in 1 .. Len(t) : \E stop \in Stops \ {<<>>} : Occurs(stop, t, at)}

\* first_stop_match: the text before the earliest of them.
Cut(t) ==
  IF StopsIn(t) = {} THEN t ELSE SubSeq(t, 1, Min(StopsIn(t)) - 1)

HeldNothing(t) == 0

\* held_back: the longest tail that is a proper prefix of a stop string.
HeldBack(t) ==
  Max({0} \cup {n \in 1 .. Len(t) :
         \E stop \in Stops : n < Len(stop) /\ IsSuffix(SubSeq(stop, 1, n), t)})

\* The text that may be handed to the sink.
Safe(t) == SubSeq(t, 1, Len(t) - HeldBack(t))

-----------------------------------------------------------------------------
Goto(r, to) == pc' = [pc EXCEPT ![r] = to]
\* generate returns: drive's history and the lock are gone.
Unlock(r) ==
  /\ holder' = IF holder = r THEN None ELSE holder
  /\ accepted' = [accepted EXCEPT ![r] = <<>>]
Command(c) == engine = "up" /\ commands' = Append(commands, c)

-----------------------------------------------------------------------------
(* Sending.                                                                *)

PushWithoutRoom(r) ==
  /\ outbox[r] # <<>> /\ client[r] = "open"
  /\ outbox' = [outbox EXCEPT ![r] = Tail(outbox[r])]
  /\ wire' = [wire EXCEPT ![r] = Append(wire[r], Head(outbox[r]))]
  /\ unread' = [unread EXCEPT ![r] = unread[r] + 1]
  /\ UNCHANGED <<shared, pc, local, client>>

\* blocking_send waits for room and fails once the client has left.  Only the
\* opening frame and generate_text look at the result.
Push(r) ==
  /\ outbox[r] # <<>> /\ client[r] = "open" /\ unread[r] < Buffer
  /\ outbox' = [outbox EXCEPT ![r] = Tail(outbox[r])]
  /\ wire' = [wire EXCEPT ![r] = Append(wire[r], Head(outbox[r]))]
  /\ unread' = [unread EXCEPT ![r] = unread[r] + 1]
  /\ UNCHANGED <<shared, pc, local, client>>

PushFails(r) ==
  /\ outbox[r] # <<>> /\ client[r] = "left"
  /\ outbox' = [outbox EXCEPT ![r] = <<>>]
  /\ alive' = [alive EXCEPT ![r] = FALSE]
  /\ Goto(r, IF pc[r] = "opening" THEN "closing" ELSE pc[r])
  /\ UNCHANGED <<shared, plan, accepted, text, hit, wire, unread, client>>

\* The client, and the SSE writer between it and the channel.
Read(r) ==
  /\ client[r] = "open" /\ unread[r] > 0
  /\ unread' = [unread EXCEPT ![r] = unread[r] - 1]
  /\ UNCHANGED <<shared, pc, local, outbox, wire, client>>

Leave(r) ==
  /\ client[r] = "open" /\ pc[r] \notin {"absent", "closed"}
  /\ client' = [client EXCEPT ![r] = "left"]
  /\ unread' = [unread EXCEPT ![r] = 0]
  /\ UNCHANGED <<shared, pc, local, outbox, wire>>

-----------------------------------------------------------------------------
(* How a response begins and ends.                                         *)

\* The role chunk of a chat; the echoed prompt of a completion that asked for it.
Opening(kind) ==
  CASE kind \in {"chat", "chat+usage"} -> <<Mark("role")>>
    [] kind = "completion+echo" -> <<Mark("echo")>>
    [] OTHER -> <<>>

\* A chat_completions, completions or run_blocking call that passed validation.
Arrive(r) ==
  /\ up = "up" /\ pc[r] = "absent"
  /\ \E p \in Plans[r] :
       /\ plan' = [plan EXCEPT ![r] = p]
       /\ outbox' = [outbox EXCEPT ![r] = Opening(p.kind)]
  /\ Goto(r, "opening")
  /\ UNCHANGED <<shared, accepted, text, hit, alive, wire, unread, client>>

\* The frames after the text: finish, the usage of a chat that asked, [DONE].
Closing(kind) ==
  CASE kind = "chat+usage" -> <<Mark("finish"), Mark("usage"), Mark("done")>>
    [] kind = "body" -> <<>>
    [] OTHER -> <<Mark("finish"), Mark("done")>>

\* The text not handed out yet: what was held back against a stop string that
\* never came, or the whole of a body.
Rest(r) ==
  CASE ~Streams(r) -> <<[is |-> "body", text |-> text[r]]>>
    [] Streams(r) /\ ~hit[r] /\ alive[r] ->
         TextFrames(SubSeq(text[r], Len(Handed(r)) + 1, Len(text[r])))
    [] OTHER -> <<>>

\* generate returns its stats and with them the lock; generate_text hands out
\* what it still held back, and the handler closes the response.
End(r) ==
  /\ Unlock(r) /\ Goto(r, "closing")
  /\ outbox' = [outbox EXCEPT ![r] = Rest(r) \o Closing(plan[r].kind)]

\* The call fails: an error event and [DONE] on a stream, a 500 otherwise.
Fail(r) ==
  /\ Unlock(r) /\ Goto(r, "closing")
  /\ outbox' = [outbox EXCEPT ![r] =
       <<Mark("error")>> \o IF Streams(r) THEN <<Mark("done")>> ELSE <<>>]

\* The thread is done and what it owned is gone with it.
Close(r) ==
  /\ pc[r] = "closing" /\ outbox[r] = <<>>
  /\ Goto(r, "closed")
  /\ plan' = [plan EXCEPT ![r] = Blank]
  /\ text' = [text EXCEPT ![r] = <<>>]
  /\ hit' = [hit EXCEPT ![r] = FALSE] /\ alive' = [alive EXCEPT ![r] = TRUE]
  /\ wire' = [wire EXCEPT ![r] = <<>>] /\ unread' = [unread EXCEPT ![r] = 0]
  /\ client' = [client EXCEPT ![r] = "left"]
  /\ UNCHANGED <<shared, accepted, outbox>>

-----------------------------------------------------------------------------
(* EngineGenerator::generate and the token loop.                           *)

Opened(r) == pc[r] = "opening" /\ outbox[r] = <<>>
Kept == UNCHANGED <<plan, text, hit, alive, wire, unread, client>>
LinkKept == UNCHANGED <<up, engine, kv, poisoned>>

\* A prompt that fills the context, a poisoned lock or an engine that is gone.
Refused(r) ==
  /\ Opened(r)
  /\ \/ plan[r].n >= NCtx
     \/ holder = None /\ (poisoned \/ engine = "gone")
  /\ Fail(r) /\ LinkKept /\ Kept /\ UNCHANGED <<commands, replies>>

Lock(r) ==
  /\ Opened(r) /\ plan[r].n < NCtx
  /\ holder = None /\ ~poisoned
  /\ holder' = r
  /\ Command([op |-> "reset", tokens |-> <<>>])
  /\ Goto(r, "resetting")
  /\ LinkKept /\ Kept /\ UNCHANGED <<replies, outbox, accepted>>

Accepting(r) == alive[r] /\ ~hit[r] /\ Len(accepted[r]) < plan[r].budget
Reply == Head(replies)
Answered(r, at) ==
  /\ pc[r] = at /\ replies # <<>> /\ replies' = Tail(replies)

ResetThenUnlock(r) ==
  /\ Answered(r, "resetting") /\ Reply = "done" /\ plan[r].n > 0
  /\ Command([op |-> "decode", tokens |-> Prompt(r)])
  /\ holder' = None /\ Goto(r, "decoding")
  /\ LinkKept /\ Kept /\ UNCHANGED <<outbox, accepted>>

\* The context is empty: the whole prompt is fed.
ResetDone(r) ==
  /\ Answered(r, "resetting") /\ Reply = "done" /\ plan[r].n > 0
  /\ Command([op |-> "decode", tokens |-> Prompt(r)])
  /\ Goto(r, "decoding")
  /\ LinkKept /\ Kept /\ UNCHANGED <<outbox, holder, accepted>>

\* drive refuses an empty prompt, once the context has been reset.
EmptyPrompt(r) ==
  /\ Answered(r, "resetting") /\ plan[r].n = 0
  /\ Fail(r) /\ LinkKept /\ Kept /\ UNCHANGED commands

\* Logits: max_tokens = 0 only wanted the prompt run.
Logits(r) ==
  /\ Answered(r, "decoding") /\ Reply = "logits"
  /\ IF plan[r].budget = 0
       THEN End(r)
       ELSE Goto(r, "sampling") /\ UNCHANGED <<holder, outbox, accepted>>
  /\ LinkKept /\ Kept /\ UNCHANGED commands

DecodeFailed(r) ==
  /\ Answered(r, "decoding") /\ Reply = "failed"
  /\ Fail(r) /\ LinkKept /\ Kept /\ UNCHANGED commands

\* The channel closes under a call, or before the next one.
EngineGone(r) ==
  /\ engine = "gone" /\ replies = <<>>
  /\ \/ pc[r] \in {"resetting", "decoding"}
     \/ pc[r] = "emitting" /\ outbox[r] = <<>> /\ Accepting(r)
  /\ Fail(r) /\ LinkKept /\ Kept /\ UNCHANGED <<commands, replies>>

\* A stop token ends the turn and is never emitted.
StopToken(r) ==
  /\ pc[r] = "sampling"
  /\ End(r) /\ LinkKept /\ Kept /\ UNCHANGED <<commands, replies>>

\* The token is accepted and handed to on_token: its text is appended, cut at
\* a stop string, and what cannot become one any more goes to the sink.
OnToken(r) ==
  /\ pc[r] = "sampling"
  /\ \E t \in Tokens :
       LET ids == Append(accepted[r], t)
           grown == text[r] \o Delta(ids, text[r])
           stopped == StopsIn(grown) # {}
           out == IF stopped THEN Cut(grown) ELSE Safe(grown)
       IN /\ accepted' = [accepted EXCEPT ![r] = ids]
          /\ text' = [text EXCEPT ![r] = Cut(grown)]
          /\ hit' = [hit EXCEPT ![r] = stopped]
          /\ outbox' = [outbox EXCEPT ![r] =
               IF Streams(r) THEN TextFrames(SubSeq(out, Len(Handed(r)) + 1, Len(out))) ELSE <<>>]
  /\ Goto(r, "emitting")
  /\ UNCHANGED <<shared, plan, alive, wire, unread, client>>

\* The tokenizer cannot decode: generate stops, generate_text returns the error.
Undecodable(r) ==
  /\ pc[r] = "sampling"
  /\ Fail(r) /\ LinkKept /\ Kept /\ UNCHANGED <<commands, replies>>

Emitted(r) == pc[r] = "emitting" /\ outbox[r] = <<>>

\* Only now, and only for a token the caller has seen.
Advance(r) ==
  /\ Emitted(r) /\ Accepting(r)
  /\ Command([op |-> "decode", tokens |-> <<Last(accepted[r])>>])
  /\ Goto(r, "decoding")
  /\ LinkKept /\ Kept /\ UNCHANGED <<replies, holder, outbox, accepted>>

\* on_token said stop, or the budget is spent.
Finish(r) ==
  /\ Emitted(r) /\ ~Accepting(r)
  /\ End(r) /\ LinkKept /\ Kept /\ UNCHANGED <<commands, replies>>

\* A panic under the lock poisons it; a stream just ends, a body becomes a 500.
RequestPanics(r) ==
  /\ "request" \in Panics /\ pc[r] = "sampling"
  /\ poisoned' = TRUE /\ Unlock(r) /\ Goto(r, "closing")
  /\ outbox' = [outbox EXCEPT ![r] = IF Streams(r) THEN <<>> ELSE <<Mark("error")>>]
  /\ Kept /\ UNCHANGED <<up, engine, kv, commands, replies>>

-----------------------------------------------------------------------------
(* engine_thread.                                                          *)

Taken(op) ==
  /\ engine = "up" /\ commands # <<>> /\ Head(commands).op = op
  /\ commands' = Tail(commands)
EngineAlone == UNCHANGED <<up, holder, poisoned, pc, local, stream>>

EngineReset ==
  /\ Taken("reset")
  /\ kv' = <<>> /\ replies' = Append(replies, "done")
  /\ EngineAlone /\ UNCHANGED engine

Fed(n) == kv \o SubSeq(Head(commands).tokens, 1, n)

EngineDecodes ==
  /\ Taken("decode")
  /\ kv' = Fed(Len(Head(commands).tokens)) /\ Len(kv') <= NCtx
  /\ replies' = Append(replies, "logits")
  /\ EngineAlone /\ UNCHANGED engine

\* A chunk is refused, for want of room or by the device, or there are no logits
\* after the last: the chunks before it stay in the context.
EngineDecodeFails ==
  /\ Taken("decode")
  /\ LET size == Len(Head(commands).tokens)
     IN \E n \in {k * NBatch : k \in 0 .. (size \div NBatch)} \cup {size} : kv' = Fed(n)
  /\ Len(kv') <= NCtx
  /\ replies' = Append(replies, "failed")
  /\ EngineAlone /\ UNCHANGED engine

EngineStops ==
  /\ Taken("shutdown")
  /\ engine' = "gone"
  /\ EngineAlone /\ UNCHANGED <<kv, replies>>

EnginePanics ==
  /\ "engine" \in Panics /\ engine = "up" /\ commands # <<>>
  /\ engine' = "gone" /\ commands' = <<>>
  /\ EngineAlone /\ UNCHANGED <<kv, replies>>

-----------------------------------------------------------------------------
(* serve's graceful shutdown and the drop of the generator.                *)

Shutdown ==
  /\ up = "up" /\ up' = "draining"
  /\ UNCHANGED <<engine, kv, commands, replies, holder, poisoned, pc, local, stream>>

DropQuietly ==
  /\ up = "draining" /\ \A r \in Requests : pc[r] \in {"absent", "closed"}
  /\ up' = "dropping"
  /\ UNCHANGED <<engine, kv, commands, replies, holder, poisoned, pc, local, stream>>

\* The last reference goes with the last request; a poisoned lock is not entered.
Drop ==
  /\ up = "draining" /\ \A r \in Requests : pc[r] \in {"absent", "closed"}
  /\ up' = "dropping"
  /\ commands' = IF poisoned \/ engine = "gone"
                    THEN commands
                    ELSE Append(commands, [op |-> "shutdown", tokens |-> <<>>])
  /\ UNCHANGED <<engine, kv, replies, holder, poisoned, pc, local, stream>>

Join ==
  /\ up = "dropping" /\ engine = "gone"
  /\ up' = "down"
  /\ UNCHANGED <<engine, kv, commands, replies, holder, poisoned, pc, local, stream>>

RequestStep(r) ==
  \/ Push(r) \/ PushFails(r) \/ Close(r)
  \/ Refused(r) \/ Lock(r) \/ ResetDone(r) \/ EmptyPrompt(r) \/ Logits(r)
  \/ DecodeFailed(r) \/ EngineGone(r)
  \/ StopToken(r) \/ OnToken(r) \/ Undecodable(r) \/ Advance(r) \/ Finish(r)

EngineStep == EngineReset \/ EngineDecodes \/ EngineDecodeFails \/ EngineStops

Next ==
  \/ \E r \in Requests :
       Arrive(r) \/ RequestStep(r) \/ RequestPanics(r) \/ Read(r) \/ Leave(r)
  \/ EngineStep \/ EnginePanics
  \/ Shutdown \/ Drop \/ Join

\* Threads run; a client takes what it is sent or goes away.
Fairness ==
  /\ \A r \in Requests : WF_vars(RequestStep(r)) /\ WF_vars(Read(r) \/ Leave(r))
  /\ WF_vars(EngineStep) /\ WF_vars(Drop) /\ WF_vars(Join)

Spec == Init /\ [][Next]_vars /\ Fairness

-----------------------------------------------------------------------------
(* Properties.                                                             *)

Busy == {"resetting", "decoding", "sampling", "emitting"}

\* Every variable stays in its range, and the lock is held by the request whose
\* call is on the link.
TypeOK ==
  /\ up \in {"up", "draining", "dropping", "down"} /\ engine \in {"up", "gone"}
  /\ Len(kv) <= NCtx /\ Len(commands) <= 1 /\ Len(replies) <= 1
  /\ poisoned \in BOOLEAN
  /\ \A r \in Requests :
       /\ pc[r] \in Busy \cup {"absent", "opening", "closing", "closed"}
       /\ (pc[r] \in Busy) <=> (holder = r)
       /\ plan[r].budget >= Len(accepted[r])
       /\ unread[r] \in 0 .. Buffer /\ client[r] \in {"open", "left"}

\* "A token that is never emitted must not reach the KV cache", and nobody
\* else's does: a token is sampled from exactly the request's own prompt and the
\* tokens it has accepted, and the context never gets ahead of them.
ContextIsTranscript ==
  /\ TypeOK
  /\ \A r \in Requests :
     /\ pc[r] = "sampling" => kv = Prompt(r) \o accepted[r]
     /\ pc[r] \in {"decoding", "emitting"} => IsPrefix(kv, Prompt(r) \o accepted[r])

\* The text of accepted tokens, without those still inside a character.
WholeText(ids) ==
  TextOf(SubSeq(ids, 1, Max({0} \cup {i \in DOMAIN ids : ids[i] \notin Open})))

\* A stream says what the body of the same generation would say: what is on the
\* wire is a prefix of the text up to the first stop string, it never shows the
\* beginning of one, and it is all of it once finish is sent.
StreamIsBody ==
  \A r \in Requests :
    /\ pc[r] \in Busy => text[r] = Cut(WholeText(accepted[r]))
    /\ IsPrefix(TextSent(wire[r]), text[r])
    /\ \A i \in DOMAIN wire[r] :
         /\ wire[r][i].is = "finish" => TextSent(wire[r]) = text[r]
         /\ wire[r][i].is \in {"finish", "error"} =>
              \A j \in 1 .. (i - 1) : wire[r][j].is \in {"role", "echo", "text"}
         /\ wire[r][i].is = "done" => i = Len(wire[r]) /\ i > 1

\* Every request comes to its end, whoever else is served, fails or leaves, and
\* a shutdown completes with the engine thread joined; it does not when a
\* request has panicked under the lock, since nobody then stops that thread.
Completes ==
  /\ \A r \in Requests : pc[r] = "opening" ~> pc[r] = "closed"
  /\ up = "draining" ~> (up = "down" \/ (poisoned /\ engine = "up"))
=============================================================================
