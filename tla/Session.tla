------------------------------- MODULE Session -------------------------------
(***************************************************************************)
(* crates/moearc-engine/src/session.rs over KvAttention: the device thread *)
(* owns the model and answers one command at a time; any thread may call a *)
(* Session, whose lock it keeps from its first command to its last reply.  *)
(*                                                                         *)
(* A call is logits, generate or ask, which stands for the five commands   *)
(* that have one reply (counters, profiles, residency).  What is sampled   *)
(* and what on_token says of it is any choice; so is a panic in either.    *)
(***************************************************************************)
EXTENDS KvAttention

CONSTANTS
  Callers, Nobody,
  Prompts,    \* lengths of prompts; an empty one is refused before the lock
  Limits,     \* max_tokens
  MaxCalls    \* bound on the calls made

SessionAssumption ==
  Nobody \notin Callers /\ Prompts \subseteq Nat /\ Limits \subseteq Nat /\ MaxCalls \in Nat

VARIABLES
  session,    \* "loading", "joining", "failed", "ready", "dropping", "dropped"
  thread,     \* the device thread: "loading", "serving", "decoding", "leaving", "gone"
  cmd, reply, \* the two channels, never more than one deep; a reply is [of, is]
  holder, poisoned,  \* the lock
  call,       \* for each caller [at, kind, prompt, limit, left, made]
  calls,      \* how many have been made
  context     \* who fed each token the model has appended since its reset

model == <<kv, host, device, control>>
link == <<cmd, reply, holder, poisoned>>
sessionVars == <<model, link, session, thread, call, calls, context>>

NoReply == [of |-> Nobody, is |-> "none"]
Resting == [at |-> "idle", kind |-> "ask", prompt |-> 0, limit |-> 0, left |-> 0, made |-> 0]

SessionInit ==
  /\ Init
  /\ session = "loading" /\ thread = "loading" /\ cmd = "none" /\ reply = NoReply
  /\ holder = Nobody /\ poisoned = FALSE
  /\ call = [c \in Callers |-> Resting] /\ calls = 0
  /\ context = <<>>

-----------------------------------------------------------------------------
(* The device thread.                                                      *)

\* Opening the file, the device and the model, each of which may fail.
Load ==
  /\ thread = "loading"
  /\ \/ thread' = "serving" /\ reply' = [NoReply EXCEPT !.is = "ready"]
     \/ thread' = "leaving" /\ reply' = [NoReply EXCEPT !.is = "failed"]
  /\ UNCHANGED <<model, cmd, holder, poisoned, session, call, calls, context>>

\* Its locals are dropped: the queue is drained, the mapping goes.
ThreadEnds ==
  /\ thread = "leaving" /\ thread' = "gone" /\ cmd' = "none"
  /\ UNCHANGED <<model, reply, holder, poisoned, session, call, calls, context>>

ThreadPanics ==
  /\ thread \in {"loading", "decoding"} /\ thread' = "gone" /\ cmd' = "none"
  /\ UNCHANGED <<model, reply, holder, poisoned, session, call, calls, context>>

TakeReset ==
  /\ thread = "serving" /\ cmd = "reset"
  /\ Reset /\ context' = <<>>
  /\ cmd' = "none" /\ reply' = [of |-> holder, is |-> "done"]
  /\ UNCHANGED <<holder, poisoned, session, thread, call, calls>>

TakeAsk ==
  /\ thread = "serving" /\ cmd = "ask"
  /\ cmd' = "none" /\ \E r \in {"done", "failed"} : reply' = [of |-> holder, is |-> r]
  /\ UNCHANGED <<model, holder, poisoned, session, thread, call, calls, context>>

TakeDecode ==
  /\ thread = "serving" /\ cmd = "decode"
  /\ cmd' = "none" /\ thread' = "decoding"
  /\ UNCHANGED <<model, reply, holder, poisoned, session, call, calls, context>>

\* A step of decode; the last one answers.
Decoding ==
  /\ thread = "decoding" /\ Decode
  /\ context' = IF n_kv' = n_kv + 1 THEN Append(context, holder) ELSE context
  /\ IF pc' \in {"idle", "failed"}
     THEN /\ thread' = "serving"
          /\ reply' = [of |-> holder, is |-> IF pc' = "idle" THEN "logits" ELSE "failed"]
     ELSE UNCHANGED <<thread, reply>>
  /\ UNCHANGED <<cmd, holder, poisoned, session, call, calls>>

\* Shutdown, or nobody is left to send anything.
TakeShutdown ==
  /\ thread = "serving" /\ (cmd = "shutdown" \/ (session = "dropped" /\ cmd = "none"))
  /\ thread' = "leaving" /\ cmd' = "none"
  /\ UNCHANGED <<model, reply, holder, poisoned, session, call, calls, context>>

DeviceThread ==
  \/ Load \/ ThreadEnds \/ TakeReset \/ TakeAsk \/ TakeDecode \/ Decoding \/ TakeShutdown

-----------------------------------------------------------------------------
(* Loading and dropping.                                                   *)

Heard == reply.is # "none"

Loaded ==
  /\ session = "loading" /\ reply.is = "ready"
  /\ session' = "ready" /\ reply' = NoReply
  /\ UNCHANGED <<model, cmd, holder, poisoned, thread, call, calls, context>>

LoadFailed ==
  /\ session = "loading" /\ (reply.is = "failed" \/ (~Heard /\ thread = "gone"))
  /\ session' = "joining" /\ reply' = NoReply
  /\ UNCHANGED <<model, cmd, holder, poisoned, thread, call, calls, context>>

DropQuietly ==
  /\ session = "ready" /\ \A c \in Callers : call[c].at \in {"idle", "panicked"}
  /\ session' = IF poisoned THEN "dropped" ELSE "dropping"
  /\ UNCHANGED <<model, link, thread, call, calls, context>>

\* The last owner drops the session.  A poisoned lock keeps it from asking and joining.
Drop ==
  /\ session = "ready" /\ \A c \in Callers : call[c].at \in {"idle", "panicked"}
  /\ IF poisoned THEN session' = "dropped" /\ UNCHANGED cmd
     ELSE session' = "dropping" /\ cmd' = IF thread = "gone" THEN cmd ELSE "shutdown"
  /\ UNCHANGED <<model, reply, holder, poisoned, thread, call, calls, context>>

Joined ==
  /\ session \in {"joining", "dropping"} /\ thread = "gone"
  /\ session' = IF session = "joining" THEN "failed" ELSE "dropped"
  /\ UNCHANGED <<model, link, thread, call, calls, context>>

-----------------------------------------------------------------------------
(* A call.                                                                 *)

At(c, at) == call' = [call EXCEPT ![c].at = at]

\* The guard is dropped with the function's frame.
Return(c) == At(c, "idle") /\ holder' = Nobody

Begin(c) ==
  /\ session = "ready" /\ call[c].at = "idle" /\ calls < MaxCalls
  /\ \E kind \in {"logits", "generate", "ask"}, n \in Prompts, limit \in Limits :
       call' = [call EXCEPT ![c] = IF kind = "ask" THEN [Resting EXCEPT !.at = "lock"]
                  ELSE [at |-> "lock", kind |-> kind, prompt |-> n, left |-> n, made |-> 0,
                        limit |-> IF kind = "generate" THEN limit ELSE 0]]
  /\ calls' = calls + 1
  /\ UNCHANGED <<model, link, session, thread, context>>

Lock(c) ==
  /\ call[c].at = "lock" /\ holder = Nobody
  /\ IF poisoned THEN At(c, "panicked") /\ UNCHANGED holder
     ELSE At(c, "first") /\ holder' = c
  /\ UNCHANGED <<model, cmd, reply, poisoned, session, thread, calls, context>>

\* send fails when the thread is gone.
First(c) ==
  /\ call[c].at = "first"
  /\ IF thread = "gone" THEN Return(c) /\ UNCHANGED cmd
     ELSE /\ cmd' = IF call[c].kind = "ask" THEN "ask" ELSE "reset"
          /\ At(c, "await") /\ UNCHANGED holder
  /\ UNCHANGED <<model, reply, poisoned, session, thread, calls, context>>

Feed(c) ==
  /\ call[c].at = "feed"
  /\ IF thread = "gone" THEN Return(c) /\ UNCHANGED cmd
     ELSE /\ cmd' = "decode" /\ UNCHANGED holder
          /\ call' = [call EXCEPT ![c].at = "await", ![c].left = @ - 1]
  /\ UNCHANGED <<model, reply, poisoned, session, thread, calls, context>>

\* The next thing to do once a reply that is not an error is here.
Onward(c) ==
  CASE call[c].left > 0 -> "feed"
    [] call[c].left = 0 /\ call[c].limit > 0 -> "sample"
    [] OTHER -> "idle"

Receive(c) ==
  /\ call[c].at = "await" /\ (Heard \/ thread = "gone")
  /\ IF reply.is \in {"none", "failed"} \/ Onward(c) = "idle" THEN Return(c)
     ELSE At(c, Onward(c)) /\ UNCHANGED holder
  /\ reply' = NoReply
  /\ UNCHANGED <<model, cmd, poisoned, session, thread, calls, context>>

\* A stop token, which is not emitted.
Stops(c) ==
  /\ call[c].at = "sample" /\ Return(c)
  /\ UNCHANGED <<model, cmd, reply, poisoned, session, thread, calls, context>>

EmitsAhead(c) ==
  /\ call[c].at = "sample" /\ thread # "gone" /\ cmd' = "decode"
  /\ LET made == call[c].made + 1 IN
     \E goOn \in BOOLEAN :
       IF goOn /\ made < call[c].limit
       THEN /\ call' = [call EXCEPT ![c].at = "await", ![c].left = 0, ![c].made = made]
            /\ UNCHANGED holder
       ELSE /\ call' = [call EXCEPT ![c].at = "idle", ![c].made = made] /\ holder' = Nobody
  /\ UNCHANGED <<model, reply, poisoned, session, thread, calls, context>>

\* A token is emitted, and fed back unless on_token says stop or it was the last.
Emits(c) ==
  /\ call[c].at = "sample"
  /\ LET made == call[c].made + 1 IN
     \E goOn \in BOOLEAN :
       IF goOn /\ made < call[c].limit
       THEN /\ call' = [call EXCEPT ![c].at = "feed", ![c].left = 1, ![c].made = made]
            /\ UNCHANGED holder
       ELSE /\ call' = [call EXCEPT ![c].at = "idle", ![c].made = made] /\ holder' = Nobody
  /\ UNCHANGED <<model, cmd, reply, poisoned, session, thread, calls, context>>

CallbackPanics(c) ==
  /\ call[c].at = "sample"
  /\ At(c, "panicked") /\ holder' = Nobody /\ poisoned' = TRUE
  /\ UNCHANGED <<model, cmd, reply, session, thread, calls, context>>

Calling(c) == Lock(c) \/ First(c) \/ Feed(c) \/ Receive(c) \/ Stops(c) \/ Emits(c)

SessionNext ==
  \/ DeviceThread \/ ThreadPanics \/ Loaded \/ LoadFailed \/ Drop \/ Joined
  \/ \E c \in Callers : Begin(c) \/ Calling(c) \/ CallbackPanics(c)

SessionFairness ==
  /\ WF_sessionVars(DeviceThread) /\ WF_sessionVars(Joined)
  /\ WF_sessionVars(Loaded \/ LoadFailed)
  /\ \A c \in Callers : WF_sessionVars(Calling(c))

-----------------------------------------------------------------------------
(* Properties.                                                             *)

\* A caller that holds the lock has the device to itself: what it is answered answers
\* its own command, and what the model has in context when it samples is its prompt and
\* the tokens it has emitted, each once, and nobody else's (session.rs:362-441).
CallOwnsTheDevice ==
  /\ Heard /\ session # "loading" => reply.of = holder /\ holder # Nobody
  /\ \A c \in Callers :
       /\ call[c].at = "sample" =>
            context = [i \in 1 .. (call[c].prompt + call[c].made) |-> c]
       /\ call[c].at \in {"feed", "await"} /\ cmd = "none" /\ thread = "serving"
            /\ call[c].left < call[c].prompt =>
            \A i \in 1 .. Len(context) : context[i] = c

\* A load that fails and a drop return after the device thread has torn down what it
\* owned, so that the teardown never races the end of the process (session.rs:205-218),
\* unless a callback's panic has poisoned the lock.
TornDownFirst ==
  session \in {"failed", "dropped"} /\ ~poisoned => thread = "gone"

\* Every call returns and every drop ends, whatever fails and even if the thread dies.
CallsReturn ==
  /\ \A c \in Callers : call[c].at = "lock" ~> call[c].at \in {"idle", "panicked"}
  /\ session \in {"loading", "dropping"} ~> session \in {"ready", "failed", "dropped"}
==============================================================================
