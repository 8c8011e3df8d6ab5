----------------------------- MODULE EngineProofs -----------------------------
(***************************************************************************)
(* Proofs about the "session" view of Engine, for any number of callers    *)
(* and calls, any prompts and limits, any shape of the model, and whoever  *)
(* panics: whose the device thread's work is, and then what attention      *)
(* reads.  The page accounts are those of PagedKvProofs, for the one       *)
(* sequence the model has.                                                 *)
(***************************************************************************)
EXTENDS Engine, SequenceTheorems, TLAPS

-----------------------------------------------------------------------------
(* The call that holds the lock, the device thread, and what is between    *)
(* them: where that call is decides what is on the two channels, what the  *)
(* device thread is doing and how many of the call's tokens the model has. *)

\* A call between getting the lock and giving it back.
Inside == {"first", "await", "feed", "sample"}

\* A call: where it is, what it is for, and what is left and made of it.
CallRecords == [at : Inside \cup {"idle", "lock", "panicked"},
                kind : {"logits", "generate", "ask"},
                prompt : Nat, limit : Nat, left : Nat, made : Nat]

\* What the variables of the session hold.
SessionTypes ==
  /\ session \in {"loading", "joining", "failed", "ready", "dropping", "dropped"}
  /\ thread \in {"loading", "serving", "decoding", "leaving", "gone"}
  /\ cmd \in {"none", "reset", "ask", "decode", "shutdown"}
  /\ reply \in [of : Callers \cup {Nobody}, is : {"none", "ready", "failed", "done", "logits"}]
  /\ holder \in Callers \cup {Nobody} /\ poisoned \in BOOLEAN
  /\ call \in [Callers -> CallRecords]
  /\ n_kv \in Nat

\* n tokens, all of them c's.
Own(c, n) == [i \in 1 .. n |-> c]
\* What the call k has sent of its prompt and of what it has made.
Sent(k) == (k.prompt + k.made) - k.left

\* The lock has one holder, and only calls of a session that is ready.
OneInside ==
  /\ \A c \in Callers : call[c].at \in Inside <=> holder = c
  /\ session # "ready" => \A c \in Callers : call[c].at \in {"idle", "panicked"}

\* The thread of a session that is loading, ready, or over.
ThreadAt ==
  /\ thread = "loading" => session = "loading" /\ reply.is = "none"
  /\ session = "loading" => reply.is \in {"none", "ready", "failed"}
                            /\ (reply.is = "ready" => thread = "serving")
  /\ session = "ready" => thread \in {"serving", "decoding", "gone"}
  /\ thread \in {"loading", "serving"} => s_pc \notin {"table", "block"}
  /\ session \in {"failed", "dropped"} /\ ~poisoned => thread = "gone"

\* Nobody is inside: nothing is asked but to shut down, and nothing is answered.
Unheld ==
  holder = Nobody =>
    /\ cmd \in {"none", "shutdown"} /\ thread # "decoding"
    /\ session # "loading" => reply.is = "none"
    /\ cmd = "shutdown" => session \in {"dropping", "dropped"}

\* Nothing on either channel, and nobody at work.
AtRest == cmd = "none" /\ reply.is = "none" /\ thread \in {"serving", "gone"}
Answers(c, is) == cmd = "none" /\ reply = [of |-> c, is |-> is] /\ thread = "serving"
Asked(op) == cmd = op /\ reply.is = "none" /\ thread = "serving"

\* A call that has fed nothing yet.
Fresh(k) == k.left = k.prompt /\ k.made = 0 /\ (k.kind = "ask" => k.prompt = 0 /\ k.limit = 0)

\* The holder waits for what it asked first.
AwaitsFirst(c) ==
  /\ Fresh(call[c])
  /\ \/ Asked("ask") /\ call[c].kind = "ask"
     \/ Asked("reset")
     \/ Answers(c, "failed")
     \/ Answers(c, "done") /\ (call[c].kind # "ask" => context = <<>>)

\* The holder waits for the logits of the last token it sent.
AwaitsDecode(c) ==
  LET n == Sent(call[c]) IN
  /\ call[c].kind # "ask" /\ n \in Nat \ {0}
  /\ \/ Asked("decode") /\ context = Own(c, n - 1)
     \/ /\ thread = "decoding" /\ cmd = "none" /\ reply.is = "none"
        /\ context = Own(c, IF s_pc \in {"table", "block"} THEN n ELSE n - 1)
     \/ Answers(c, "logits") /\ context = Own(c, n)
     \/ Answers(c, "failed") /\ \E m \in Nat : context = Own(c, m)

\* What is under way when c holds the lock.
Holding(c) ==
  /\ call[c].at = "first" => AtRest /\ Fresh(call[c])
  /\ call[c].at = "await" =>
       AwaitsFirst(c) \/ AwaitsDecode(c) \/ (AtRest /\ thread = "gone")
  /\ call[c].at = "feed" =>
       /\ AtRest /\ call[c].kind # "ask" /\ call[c].left > 0
       /\ Sent(call[c]) \in Nat /\ context = Own(c, Sent(call[c]))
  /\ call[c].at = "sample" =>
       /\ AtRest /\ call[c].kind # "ask" /\ call[c].left = 0 /\ context = Own(c, Sent(call[c]))

\* The inductive invariant of the calls.
CallInv ==
  /\ SessionTypes /\ OneInside /\ ThreadAt /\ Unheld
  /\ \A c \in Callers : call[c].at = "lock" => Fresh(call[c])
  /\ \A c \in Callers : holder = c => Holding(c)

\* What is assumed of the callers and of their calls.
LEMMA Constants ==
  /\ Nobody \notin Callers /\ Prompts \subseteq Nat /\ Limits \subseteq Nat
BY EngineAssumption DEF S!SessionAssumption

\* One more of c's tokens.
LEMMA OwnMore ==
  ASSUME NEW c, NEW n \in Nat
  PROVE  Append(Own(c, n), c) = Own(c, n + 1) /\ Len(Own(c, n)) = n
<1>1. Own(c, n) \in Seq({c}) /\ Len(Own(c, n)) = n
  BY DEF Own
<1> DEFINE a == Append(Own(c, n), c)
<1>2. a \in Seq({c}) /\ Len(a) = n + 1
  BY <1>1, AppendProperties
<1>3. \A i \in 1 .. (n + 1) : a[i] = c
  <2>1. \A i \in 1 .. Len(a) : a[i] \in {c}
    BY <1>2, ElementOfSeq
  <2> QED
    BY <1>2, <2>1
<1>4. Own(c, n + 1) \in Seq({c}) /\ Len(Own(c, n + 1)) = n + 1
      /\ \A i \in 1 .. (n + 1) : Own(c, n + 1)[i] = c
  BY DEF Own
<1> HIDE DEF a
<1>5. a = Own(c, n + 1)
  BY <1>2, <1>3, <1>4, SeqEqual
<1> QED
  BY <1>1, <1>5 DEF a

\* No token is anybody's.
LEMMA OwnNothing == \A c : Own(c, 0) = <<>>
BY DEF Own

\* A step of decode appends a token of the call, or is before or after that.
LEMMA DecodeMoves ==
  ASSUME n_kv \in Nat, S!Decode
  PROVE  /\ n_kv' \in Nat
         /\ \/ n_kv' = n_kv + 1 /\ s_pc \notin {"table", "block"} /\ s_pc' = "table"
            \/ n_kv' = n_kv /\ s_pc \notin {"table", "block"} /\ s_pc' \in {"append", "failed"}
            \/ n_kv' = n_kv /\ s_pc \in {"table", "block"} /\ s_pc' \in {"block", "idle", "failed"}
BY DEF S!Decode, S!BeginSequence, S!AppendToken, S!Appending, S!AppendRefused, S!TableIsCurrent,
   S!UploadTable, S!UploadTableFails, S!Attend, S!BlockFails, S!host

\* Nothing is asked before the model is loaded.
LEMMA CallsBegin == EngineInit => CallInv
<1> SUFFICES ASSUME EngineInit
             PROVE  CallInv
  OBVIOUS
<1>1. /\ session = "loading" /\ thread = "loading" /\ cmd = "none" /\ reply = S!NoReply
      /\ holder = Nobody /\ poisoned = FALSE
      /\ call = [c \in Callers |-> S!Resting] /\ n_kv = 0 /\ s_pc = "idle"
  BY DEF EngineInit, S!SessionInit, S!Init
<1>2. S!Resting \in CallRecords
  BY DEF S!Resting, CallRecords
<1>3. \A c \in Callers : call[c].at = "idle" /\ c # Nobody
  BY <1>1, Constants DEF S!Resting
<1>4. SessionTypes
  BY <1>1, <1>2 DEF SessionTypes, S!NoReply
<1> QED
  BY <1>1, <1>3, <1>4 DEF CallInv, OneInside, ThreadAt, Unheld, S!NoReply, Inside

-----------------------------------------------------------------------------
(* Steps.                                                                  *)

\* A caller whose call becomes k, and nobody else's.
LEMMA Changed ==
  ASSUME SessionTypes, NEW c \in Callers, NEW k \in CallRecords, call' = [call EXCEPT ![c] = k]
  PROVE  /\ call' \in [Callers -> CallRecords] /\ call'[c] = k
         /\ \A o \in Callers : o # c => call'[o] = call[o]
BY DEF SessionTypes

\* Only one is inside.
LEMMA Alone ==
  ASSUME CallInv, NEW c \in Callers, call[c].at \in Inside
  PROVE  /\ holder = c /\ session = "ready" /\ Holding(c) /\ c # Nobody
         /\ \A o \in Callers : o # c => call[o].at \notin Inside
BY Constants DEF CallInv, OneInside, Inside

\* Nobody is inside unless the session is ready.
LEMMA NobodyBut ==
  ASSUME CallInv, session # "ready"
  PROVE  holder = Nobody
BY Constants DEF CallInv, OneInside, Inside, SessionTypes

\* Nobody holds the lock while the session is dropped.
LEMMA NobodyAtAll ==
  ASSUME CallInv, \A c \in Callers : call[c].at \in {"idle", "panicked"}
  PROVE  holder = Nobody
BY Constants DEF CallInv, OneInside, Inside, SessionTypes

\* The holder returns or panics with nothing under way.
LEMMA Leaves ==
  ASSUME CallInv, NEW c \in Callers, call[c].at \in Inside, NEW k \in CallRecords,
         k.at \in {"idle", "panicked"}, call' = [call EXCEPT ![c] = k], holder' = Nobody,
         cmd = "none", cmd' = "none", reply' \in {reply, S!NoReply}, reply'.is = "none",
         thread \in {"serving", "gone"}, thread' = thread, session' = session,
         poisoned' \in {poisoned, TRUE}, n_kv' = n_kv, s_pc' = s_pc
  PROVE  CallInv'
<1>1. /\ call' \in [Callers -> CallRecords] /\ call'[c] = k
      /\ \A o \in Callers : o # c => call'[o] = call[o]
  BY Changed DEF CallInv
<1>2. /\ holder = c /\ session = "ready" /\ c # Nobody
      /\ \A o \in Callers : o # c => call[o].at \notin Inside
  BY Alone
<1>3. \A o \in Callers : o # Nobody
  BY Constants
<1>4. SessionTypes'
  <2>1. SessionTypes
    BY DEF CallInv
  <2>2. reply' \in [of : Callers \cup {Nobody}, is : {"none", "ready", "failed", "done", "logits"}]
    BY <2>1 DEF SessionTypes, S!NoReply
  <2>3. poisoned' \in BOOLEAN
    BY <2>1 DEF SessionTypes
  <2> QED
    BY <1>1, <2>1, <2>2, <2>3 DEF SessionTypes
<1>5. \A o \in Callers : call'[o].at \notin Inside
  BY <1>1, <1>2 DEF Inside
<1>6. OneInside' /\ Unheld'
  BY <1>2, <1>3, <1>5 DEF OneInside, Unheld
<1>7. ThreadAt'
  BY <1>2 DEF CallInv, ThreadAt
<1>8. \A o \in Callers : call'[o].at = "lock" => Fresh(call'[o])
  BY <1>1 DEF CallInv
<1> QED
  BY <1>3, <1>4, <1>6, <1>7, <1>8 DEF CallInv

\* The holder goes on to another place inside.
LEMMA GoesOn ==
  ASSUME CallInv, NEW c \in Callers, call[c].at \in Inside, NEW k \in CallRecords,
         k.at \in Inside, call' = [call EXCEPT ![c] = k], holder' = holder,
         SessionTypes', thread' = thread, session' = session,
         poisoned' = poisoned, s_pc' = s_pc, Holding(c)'
  PROVE  CallInv'
<1>1. /\ call' \in [Callers -> CallRecords] /\ call'[c] = k
      /\ \A o \in Callers : o # c => call'[o] = call[o]
  BY Changed DEF CallInv
<1>2. /\ holder = c /\ session = "ready" /\ c # Nobody
      /\ \A o \in Callers : o # c => call[o].at \notin Inside
  BY Alone
<1>3. OneInside' /\ Unheld'
  BY <1>1, <1>2 DEF OneInside, Unheld
<1>4. ThreadAt'
  BY <1>2 DEF CallInv, ThreadAt
<1>5. \A o \in Callers : call'[o].at = "lock" => Fresh(call'[o])
  BY <1>1, <1>2 DEF CallInv, Inside
<1> QED
  BY <1>2, <1>3, <1>4, <1>5 DEF CallInv

\* The device thread does something for the holder.
LEMMA Serves ==
  ASSUME CallInv, NEW c \in Callers, holder = c, UNCHANGED <<call, holder, session, poisoned>>,
         SessionTypes', thread' \in {"serving", "decoding", "gone"},
         thread' = "serving" => s_pc' \notin {"table", "block"}, Holding(c)'
  PROVE  CallInv'
<1>1. session = "ready" /\ c # Nobody
  BY Constants, NobodyBut
<1>2. OneInside' /\ Unheld' /\ ThreadAt'
  BY <1>1 DEF CallInv, OneInside, Unheld, ThreadAt
<1> QED
  BY <1>1, <1>2 DEF CallInv

-----------------------------------------------------------------------------
(* The device thread.                                                      *)

\* A command that is not to shut down is the holder's.
LEMMA Working ==
  ASSUME CallInv, cmd \in {"reset", "ask", "decode"} \/ thread = "decoding"
  PROVE  \E c \in Callers : holder = c /\ call[c].at = "await" /\ (AwaitsFirst(c) \/ AwaitsDecode(c))
<1>1. holder # Nobody
  BY DEF CallInv, Unheld
<1>2. PICK c \in Callers : holder = c
  BY <1>1 DEF CallInv, SessionTypes
<1>3. call[c].at \in Inside /\ Holding(c)
  BY <1>2 DEF CallInv, OneInside
<1>4. ~AtRest
  BY DEF AtRest
<1> QED
  BY <1>2, <1>3, <1>4 DEF Holding, Inside

\* The thread loads the model and answers, ready or failed.
LEMMA LoadKeeps == CallInv /\ S!Load => CallInv'
<1> SUFFICES ASSUME CallInv, S!Load PROVE CallInv'
  OBVIOUS
<1>1. /\ thread = "loading" /\ session = "loading" /\ s_pc \notin {"table", "block"}
      /\ thread' \in {"serving", "leaving"}
      /\ reply' \in [of : {Nobody}, is : {"ready", "failed"}]
      /\ reply'.is = "ready" => thread' = "serving"
      /\ UNCHANGED <<session, cmd, holder, poisoned, call, n_kv, s_pc>>
  BY DEF S!Load, S!NoReply, S!model, S!host, S!control, CallInv, ThreadAt
<1>2. holder = Nobody /\ \A c \in Callers : c # Nobody
  BY <1>1, NobodyBut, Constants
<1>3. SessionTypes'
  BY <1>1 DEF CallInv, SessionTypes
<1>4. OneInside' /\ ThreadAt'
  BY <1>1 DEF CallInv, OneInside, ThreadAt
<1>5. Unheld'
  BY <1>1 DEF CallInv, Unheld
<1> QED
  BY <1>1, <1>2, <1>3, <1>4, <1>5 DEF CallInv

\* The thread ends: it leaves its loop, or finds that nobody can command it any more.
LEMMA ThreadEndsKeeps == CallInv /\ S!ThreadEnds => CallInv'
<1> SUFFICES ASSUME CallInv, S!ThreadEnds PROVE CallInv'
  OBVIOUS
<1>1. /\ thread = "leaving" /\ thread' = "gone" /\ cmd' = "none" /\ session # "ready"
      /\ UNCHANGED <<session, reply, holder, poisoned, call, n_kv, s_pc>>
  BY DEF S!ThreadEnds, S!model, S!host, S!control, CallInv, ThreadAt
<1>2. holder = Nobody /\ \A c \in Callers : c # Nobody
  BY <1>1, NobodyBut, Constants
<1>3. SessionTypes' /\ OneInside' /\ ThreadAt' /\ Unheld'
  BY <1>1 DEF CallInv, SessionTypes, OneInside, ThreadAt, Unheld
<1> QED
  BY <1>1, <1>2, <1>3 DEF CallInv

\* The thread panics in the middle of a decode.
LEMMA ThreadPanicsKeeps == CallInv /\ S!ThreadPanics => CallInv'
<1> SUFFICES ASSUME CallInv, S!ThreadPanics PROVE CallInv'
  OBVIOUS
<1>1. /\ thread \in {"loading", "decoding"} /\ thread' = "gone" /\ cmd' = "none"
      /\ UNCHANGED <<session, reply, holder, poisoned, call, n_kv, s_pc>>
  BY DEF S!ThreadPanics, S!model, S!host, S!control
<1>2. SessionTypes'
  BY <1>1 DEF CallInv, SessionTypes
<1>3. CASE thread = "loading"
  <2>1. session = "loading" /\ reply.is = "none"
    BY <1>3 DEF CallInv, ThreadAt
  <2>2. holder = Nobody /\ \A c \in Callers : c # Nobody
    BY <2>1, NobodyBut, Constants
  <2>3. OneInside' /\ ThreadAt' /\ Unheld'
    BY <1>1, <2>1 DEF CallInv, OneInside, ThreadAt, Unheld
  <2> QED
    BY <1>1, <1>2, <2>2, <2>3 DEF CallInv
<1>4. CASE thread = "decoding"
  <2>1. PICK c \in Callers : holder = c /\ call[c].at = "await" /\ (AwaitsFirst(c) \/ AwaitsDecode(c))
    BY <1>4, Working
  <2>2. reply.is = "none"
    BY <1>4, <2>1 DEF AwaitsFirst, AwaitsDecode, Asked, Answers
  <2>3. Holding(c)'
    BY <1>1, <2>1, <2>2 DEF Holding, AtRest
  <2> QED
    BY <1>1, <1>2, <2>1, <2>3, Serves
<1> QED
  BY <1>1, <1>3, <1>4

\* The thread resets the model for the holder.
LEMMA TakeResetKeeps == CallInv /\ S!TakeReset => CallInv'
<1> SUFFICES ASSUME CallInv, S!TakeReset PROVE CallInv'
  OBVIOUS
<1>1. /\ thread = "serving" /\ cmd = "reset" /\ context' = <<>> /\ cmd' = "none"
      /\ reply' = [of |-> holder, is |-> "done"] /\ n_kv' = 0 /\ s_pc' = "idle"
      /\ UNCHANGED <<session, thread, holder, poisoned, call>>
  BY DEF S!TakeReset, S!Reset
<1>2. PICK c \in Callers : holder = c /\ call[c].at = "await" /\ (AwaitsFirst(c) \/ AwaitsDecode(c))
  BY <1>1, Working
<1>3. Fresh(call[c])
  BY <1>1, <1>2 DEF AwaitsFirst, AwaitsDecode, Asked, Answers
<1>4. AwaitsFirst(c)'
  BY <1>1, <1>2, <1>3 DEF AwaitsFirst, Answers
<1>5. Holding(c)'
  BY <1>1, <1>2, <1>4 DEF Holding
<1>6. SessionTypes'
  BY <1>1, <1>2 DEF CallInv, SessionTypes
<1> QED
  BY <1>1, <1>2, <1>5, <1>6, Serves

\* The thread answers the holder's question.
LEMMA TakeAskKeeps == CallInv /\ S!TakeAsk => CallInv'
<1> SUFFICES ASSUME CallInv, S!TakeAsk PROVE CallInv'
  OBVIOUS
<1>1. PICK r \in {"done", "failed"} :
      /\ thread = "serving" /\ cmd = "ask" /\ cmd' = "none"
      /\ reply' = [of |-> holder, is |-> r]
      /\ UNCHANGED <<session, thread, holder, poisoned, call, n_kv, s_pc>>
  BY DEF S!TakeAsk, S!model, S!host, S!control
<1>2. PICK c \in Callers : holder = c /\ call[c].at = "await" /\ (AwaitsFirst(c) \/ AwaitsDecode(c))
  BY <1>1, Working
<1>3. Fresh(call[c]) /\ call[c].kind = "ask"
  BY <1>1, <1>2 DEF AwaitsFirst, AwaitsDecode, Asked, Answers
<1>4. AwaitsFirst(c)'
  BY <1>1, <1>2, <1>3 DEF AwaitsFirst, Answers
<1>5. Holding(c)'
  BY <1>1, <1>2, <1>4 DEF Holding
<1>6. SessionTypes'
  BY <1>1, <1>2 DEF CallInv, SessionTypes
<1>7. s_pc' \notin {"table", "block"}
  BY <1>1 DEF CallInv, ThreadAt
<1> QED
  BY <1>1, <1>2, <1>5, <1>6, <1>7, Serves

\* The thread takes a token of the holder's and begins to decode it.
LEMMA TakeDecodeKeeps == CallInv /\ S!TakeDecode => CallInv'
<1> SUFFICES ASSUME CallInv, S!TakeDecode PROVE CallInv'
  OBVIOUS
<1>1. /\ thread = "serving" /\ cmd = "decode" /\ cmd' = "none" /\ thread' = "decoding"
      /\ UNCHANGED <<session, reply, holder, poisoned, call, context, n_kv, s_pc>>
  BY DEF S!TakeDecode, S!model, S!host, S!control
<1>2. PICK c \in Callers : holder = c /\ call[c].at = "await" /\ (AwaitsFirst(c) \/ AwaitsDecode(c))
  BY <1>1, Working
<1>3. /\ call[c].kind # "ask" /\ Sent(call[c]) \in Nat \ {0}
      /\ reply.is = "none" /\ context = Own(c, Sent(call[c]) - 1)
  BY <1>1, <1>2 DEF AwaitsFirst, AwaitsDecode, Asked, Answers
<1>4. s_pc \notin {"table", "block"}
  BY <1>1 DEF CallInv, ThreadAt
<1>5. AwaitsDecode(c)'
  BY <1>1, <1>2, <1>3, <1>4 DEF AwaitsDecode
<1>6. Holding(c)'
  BY <1>1, <1>2, <1>5 DEF Holding
<1>7. SessionTypes'
  BY <1>1, <1>2 DEF CallInv, SessionTypes
<1> QED
  BY <1>1, <1>2, <1>6, <1>7, Serves

\* One step of decode, the last of which is the answer.
LEMMA DecodingKeeps == CallInv /\ S!Decoding => CallInv'
<1> SUFFICES ASSUME CallInv, S!Decoding PROVE CallInv'
  OBVIOUS
<1>1. /\ thread = "decoding" /\ S!Decode
      /\ context' = IF n_kv' = n_kv + 1 THEN Append(context, holder) ELSE context
      /\ s_pc' \in {"idle", "failed"} =>
           /\ thread' = "serving"
           /\ reply' = [of |-> holder, is |-> IF s_pc' = "idle" THEN "logits" ELSE "failed"]
      /\ s_pc' \notin {"idle", "failed"} => UNCHANGED <<thread, reply>>
      /\ UNCHANGED <<session, cmd, holder, poisoned, call>>
  BY DEF S!Decoding
<1>2. PICK c \in Callers : holder = c /\ call[c].at = "await" /\ (AwaitsFirst(c) \/ AwaitsDecode(c))
  BY <1>1, Working
<1> DEFINE n == Sent(call[c])
<1>3. /\ call[c].kind # "ask" /\ n \in Nat \ {0} /\ cmd = "none" /\ reply.is = "none"
      /\ context = Own(c, IF s_pc \in {"table", "block"} THEN n ELSE n - 1)
  BY <1>1, <1>2 DEF AwaitsFirst, AwaitsDecode, Asked, Answers
<1>4. n' = n
  BY <1>1
<1> HIDE DEF n
<1>5. /\ n_kv' \in Nat
      /\ \/ n_kv' = n_kv + 1 /\ s_pc \notin {"table", "block"} /\ s_pc' = "table"
         \/ n_kv' = n_kv /\ s_pc \notin {"table", "block"} /\ s_pc' \in {"append", "failed"}
         \/ n_kv' = n_kv /\ s_pc \in {"table", "block"} /\ s_pc' \in {"block", "idle", "failed"}
  BY <1>1, DecodeMoves DEF CallInv, SessionTypes
<1>6. n - 1 \in Nat /\ (n - 1) + 1 = n /\ n_kv \in Nat
  BY <1>3 DEF CallInv, SessionTypes
<1>7. Append(Own(c, n - 1), c) = Own(c, n)
  <2>1. Append(Own(c, n - 1), c) = Own(c, (n - 1) + 1)
    BY <1>6, OwnMore
  <2> QED
    BY <1>6, <2>1
<1>8. SessionTypes'
  BY <1>1, <1>2, <1>5 DEF CallInv, SessionTypes
<1>9. context' = Own(c, IF s_pc' \in {"table", "block"} THEN n
                        ELSE IF s_pc' = "idle" THEN n
                        ELSE IF s_pc \in {"table", "block"} THEN n ELSE n - 1)
  <2>1. CASE n_kv' = n_kv + 1 /\ s_pc \notin {"table", "block"} /\ s_pc' = "table"
    BY <1>1, <1>2, <1>3, <1>7, <2>1
  <2>2. CASE n_kv' = n_kv
    <3>1. context' = context
      BY <1>1, <1>6, <2>2
    <3> QED
      BY <1>3, <1>5, <1>6, <2>2, <3>1
  <2> QED
    BY <1>5, <2>1, <2>2
<1>10. AwaitsDecode(c)'
  <2>1. CASE s_pc' \in {"table", "block", "append"}
    <3>1. thread' = "decoding" /\ cmd' = "none" /\ reply'.is = "none"
      BY <1>1, <1>3, <2>1
    <3>2. context' = Own(c, IF s_pc' \in {"table", "block"} THEN n ELSE n - 1)
      BY <1>5, <1>9, <2>1
    <3>3. Sent(call'[c]) = n
      BY <1>4 DEF n
    <3> QED
      BY <1>1, <1>3, <3>1, <3>2, <3>3 DEF AwaitsDecode
  <2>2. CASE s_pc' = "idle"
    <3>1. Answers(c, "logits")'
      BY <1>1, <1>2, <1>3, <2>2 DEF Answers
    <3>2. context' = Own(c, n)
      BY <1>9, <2>2
    <3>3. Sent(call'[c]) = n
      BY <1>4 DEF n
    <3> QED
      BY <1>1, <1>3, <3>1, <3>2, <3>3 DEF AwaitsDecode
  <2>3. CASE s_pc' = "failed"
    <3>1. Answers(c, "failed")'
      BY <1>1, <1>2, <1>3, <2>3 DEF Answers
    <3>2. \E m \in Nat : context' = Own(c, m)
      BY <1>6, <1>3, <1>9, <2>3
    <3>3. Sent(call'[c]) = n
      BY <1>4 DEF n
    <3> QED
      BY <1>1, <1>3, <3>1, <3>2, <3>3 DEF AwaitsDecode
  <2> QED
    BY <1>5, <2>1, <2>2, <2>3
<1>11. Holding(c)'
  BY <1>1, <1>2, <1>10 DEF Holding
<1>12. thread' \in {"serving", "decoding", "gone"} /\ (thread' = "serving" => s_pc' \notin {"table", "block"})
  BY <1>1
<1> QED
  BY <1>1, <1>2, <1>8, <1>11, <1>12, Serves

\* The thread is told to shut down.
LEMMA TakeShutdownKeeps == CallInv /\ S!TakeShutdown => CallInv'
<1> SUFFICES ASSUME CallInv, S!TakeShutdown PROVE CallInv'
  OBVIOUS
<1>1. /\ thread = "serving" /\ thread' = "leaving" /\ cmd' = "none"
      /\ cmd = "shutdown" \/ session = "dropped"
      /\ UNCHANGED <<session, reply, holder, poisoned, call, n_kv, s_pc>>
  BY DEF S!TakeShutdown, S!model, S!host, S!control
<1>2. session # "ready"
  <2>1. CASE cmd = "shutdown" /\ session = "ready" /\ holder # Nobody
    <3>1. PICK c \in Callers : holder = c
      BY <2>1 DEF CallInv, SessionTypes
    <3>2. Holding(c) /\ call[c].at \in Inside
      BY <3>1 DEF CallInv, OneInside
    <3> QED
      BY <2>1, <3>2 DEF Holding, Inside, AwaitsFirst, AwaitsDecode, AtRest, Asked, Answers
  <2> QED
    BY <1>1, <2>1 DEF CallInv, Unheld
<1>3. holder = Nobody /\ \A c \in Callers : c # Nobody
  BY <1>2, NobodyBut, Constants
<1>4. session \in {"dropping", "dropped"}
  BY <1>1, <1>3 DEF CallInv, Unheld
<1>5. SessionTypes' /\ OneInside' /\ ThreadAt' /\ Unheld'
  BY <1>1, <1>2, <1>3, <1>4 DEF CallInv, SessionTypes, OneInside, ThreadAt, Unheld
<1> QED
  BY <1>1, <1>3, <1>5 DEF CallInv

-----------------------------------------------------------------------------
(* Loading and dropping.                                                   *)

\* The constructor has its session.
LEMMA LoadedKeeps == CallInv /\ S!Loaded => CallInv'
<1> SUFFICES ASSUME CallInv, S!Loaded PROVE CallInv'
  OBVIOUS
<1>1. /\ session = "loading" /\ thread = "serving" /\ session' = "ready"
      /\ reply' = S!NoReply
      /\ UNCHANGED <<thread, cmd, holder, poisoned, call, n_kv, s_pc>>
  BY DEF S!Loaded, S!model, S!host, S!control, CallInv, ThreadAt
<1>2. holder = Nobody /\ \A c \in Callers : c # Nobody
  BY <1>1, NobodyBut, Constants
<1>3. SessionTypes'
  BY <1>1 DEF CallInv, SessionTypes, S!NoReply
<1>4. OneInside' /\ ThreadAt'
  BY <1>1 DEF CallInv, OneInside, ThreadAt
<1>5. Unheld'
  BY <1>1, <1>2 DEF CallInv, Unheld, S!NoReply
<1> QED
  BY <1>1, <1>2, <1>3, <1>4, <1>5 DEF CallInv

\* The constructor is told of a failure, or finds the thread gone.
LEMMA LoadFailedKeeps == CallInv /\ S!LoadFailed => CallInv'
<1> SUFFICES ASSUME CallInv, S!LoadFailed PROVE CallInv'
  OBVIOUS
<1>1. /\ session = "loading" /\ thread # "loading" /\ session' = "joining"
      /\ reply' = S!NoReply
      /\ UNCHANGED <<thread, cmd, holder, poisoned, call, n_kv, s_pc>>
  BY DEF S!LoadFailed, S!Heard, S!model, S!host, S!control, CallInv, ThreadAt
<1>2. holder = Nobody /\ \A c \in Callers : c # Nobody
  BY <1>1, NobodyBut, Constants
<1>3. SessionTypes'
  BY <1>1 DEF CallInv, SessionTypes, S!NoReply
<1>4. OneInside' /\ ThreadAt'
  BY <1>1 DEF CallInv, OneInside, ThreadAt
<1>5. Unheld'
  BY <1>1, <1>2 DEF CallInv, Unheld, S!NoReply
<1> QED
  BY <1>1, <1>2, <1>3, <1>4, <1>5 DEF CallInv

\* The session is dropped, when no call borrows it.
LEMMA DropKeeps == CallInv /\ S!Drop => CallInv'
<1> SUFFICES ASSUME CallInv, S!Drop PROVE CallInv'
  OBVIOUS
<1>1. /\ session = "ready" /\ \A c \in Callers : call[c].at \in {"idle", "panicked"}
      /\ \/ poisoned /\ session' = "dropped" /\ cmd' = cmd
         \/ session' = "dropping" /\ cmd' \in {cmd, "shutdown"}
      /\ UNCHANGED <<thread, reply, holder, poisoned, call, n_kv, s_pc>>
  BY DEF S!Drop, S!model, S!host, S!control
<1>2. holder = Nobody /\ \A c \in Callers : c # Nobody
  BY <1>1, NobodyAtAll, Constants
<1>3. SessionTypes'
  BY <1>1 DEF CallInv, SessionTypes
<1>4. OneInside' /\ ThreadAt'
  BY <1>1 DEF CallInv, OneInside, ThreadAt
<1>5. Unheld'
  BY <1>1, <1>2 DEF CallInv, Unheld
<1> QED
  BY <1>1, <1>2, <1>3, <1>4, <1>5 DEF CallInv

\* The thread has been joined.
LEMMA JoinedKeeps == CallInv /\ S!Joined => CallInv'
<1> SUFFICES ASSUME CallInv, S!Joined PROVE CallInv'
  OBVIOUS
<1>1. /\ session \in {"joining", "dropping"} /\ thread = "gone"
      /\ session' = IF session = "joining" THEN "failed" ELSE "dropped"
      /\ UNCHANGED <<thread, cmd, reply, holder, poisoned, call, n_kv, s_pc>>
  BY DEF S!Joined, S!model, S!link, S!host, S!control
<1>2. holder = Nobody /\ \A c \in Callers : c # Nobody
  BY <1>1, NobodyBut, Constants
<1>3. SessionTypes'
  BY <1>1 DEF CallInv, SessionTypes
<1>4. OneInside' /\ ThreadAt'
  BY <1>1 DEF CallInv, OneInside, ThreadAt
<1>5. Unheld'
  BY <1>1, <1>2 DEF CallInv, Unheld
<1> QED
  BY <1>1, <1>2, <1>3, <1>4, <1>5 DEF CallInv

-----------------------------------------------------------------------------
(* A call.                                                                 *)

\* The record of a call that has moved.
LEMMA Moved ==
  ASSUME SessionTypes, NEW c \in Callers, NEW p \in Inside \cup {"idle", "lock", "panicked"},
         S!At(c, p)
  PROVE  \E k \in CallRecords :
           /\ call' = [call EXCEPT ![c] = k] /\ k.at = p /\ k.kind = call[c].kind
           /\ k.prompt = call[c].prompt /\ k.limit = call[c].limit
           /\ k.left = call[c].left /\ k.made = call[c].made
<1> DEFINE k == [call[c] EXCEPT !.at = p]
<1>1. call[c] \in CallRecords
  BY DEF SessionTypes
<1>2. /\ k \in CallRecords /\ k.at = p /\ k.kind = call[c].kind
      /\ k.prompt = call[c].prompt /\ k.limit = call[c].limit
      /\ k.left = call[c].left /\ k.made = call[c].made
  BY <1>1 DEF CallRecords
<1>3. call' = [call EXCEPT ![c] = k]
  BY DEF S!At
<1> QED
  BY <1>2, <1>3

\* A record with two or three of its fields rewritten.
Left(r, p, n) == [r EXCEPT !.at = p, !.left = n]
Made(r, p, m) == [r EXCEPT !.at = p, !.made = m]
LeftMade(r, p, n, m) == [r EXCEPT !.at = p, !.left = n, !.made = m]

\* A call with some of its fields rewritten, field by field.
LEMMA Rewritten ==
  ASSUME NEW r \in CallRecords, NEW p, NEW n, NEW m
  PROVE  /\ Left(r, p, n) =
              [at |-> p, kind |-> r.kind, prompt |-> r.prompt, limit |-> r.limit,
               left |-> n, made |-> r.made]
         /\ Made(r, p, m) =
              [at |-> p, kind |-> r.kind, prompt |-> r.prompt, limit |-> r.limit,
               left |-> r.left, made |-> m]
         /\ LeftMade(r, p, n, m) =
              [at |-> p, kind |-> r.kind, prompt |-> r.prompt, limit |-> r.limit,
               left |-> n, made |-> m]
<1> DEFINE s == [at |-> p, kind |-> r.kind, prompt |-> r.prompt, limit |-> r.limit,
                 left |-> r.left, made |-> r.made]
           u == [at |-> p, kind |-> r.kind, prompt |-> r.prompt, limit |-> r.limit,
                 left |-> n, made |-> r.made]
<1>1. [r EXCEPT !.at = p] = s
  BY DEF CallRecords
<1>2. [s EXCEPT !.left = n] = u
  OBVIOUS
<1>3. [s EXCEPT !.made = m] =
        [at |-> p, kind |-> r.kind, prompt |-> r.prompt, limit |-> r.limit,
         left |-> r.left, made |-> m]
  OBVIOUS
<1>4. [u EXCEPT !.made = m] =
        [at |-> p, kind |-> r.kind, prompt |-> r.prompt, limit |-> r.limit,
         left |-> n, made |-> m]
  OBVIOUS
<1>5. /\ Left(r, p, n) = [[r EXCEPT !.at = p] EXCEPT !.left = n]
      /\ Made(r, p, m) = [[r EXCEPT !.at = p] EXCEPT !.made = m]
      /\ LeftMade(r, p, n, m) = [[[r EXCEPT !.at = p] EXCEPT !.left = n] EXCEPT !.made = m]
  BY Zenon DEF Left, Made, LeftMade
<1> HIDE DEF s, u
<1>6. Left(r, p, n) = u
  BY <1>1, <1>2, <1>5
<1>7. Made(r, p, m) = [s EXCEPT !.made = m]
  BY <1>1, <1>5
<1>8. LeftMade(r, p, n, m) = [u EXCEPT !.made = m]
  BY <1>1, <1>2, <1>5
<1> QED
  BY <1>3, <1>4, <1>6, <1>7, <1>8 DEF u

\* A caller calls, with nothing fed yet.
LEMMA BeginKeeps == ASSUME NEW c \in Callers PROVE CallInv /\ S!Begin(c) => CallInv'
<1> SUFFICES ASSUME CallInv, S!Begin(c) PROVE CallInv'
  OBVIOUS
<1>1. PICK kind \in {"logits", "generate", "ask"}, m \in Prompts, limit \in Limits :
        call' = [call EXCEPT ![c] = IF kind = "ask" THEN [S!Resting EXCEPT !.at = "lock"]
                   ELSE [at |-> "lock", kind |-> kind, prompt |-> m, left |-> m, made |-> 0,
                         limit |-> IF kind = "generate" THEN limit ELSE 0]]
  BY DEF S!Begin
<1> DEFINE k == IF kind = "ask" THEN [S!Resting EXCEPT !.at = "lock"]
                ELSE [at |-> "lock", kind |-> kind, prompt |-> m, left |-> m, made |-> 0,
                      limit |-> IF kind = "generate" THEN limit ELSE 0]
<1>2. k \in CallRecords /\ k.at = "lock" /\ Fresh(k)
  <2>1. m \in Nat /\ limit \in Nat
    BY Constants
  <2>2. CASE kind = "ask"
    <3>1. k = [at |-> "lock", kind |-> "ask", prompt |-> 0, limit |-> 0, left |-> 0, made |-> 0]
      BY <2>2 DEF S!Resting
    <3> QED
      BY <3>1 DEF CallRecords, Fresh
  <2>3. CASE kind # "ask"
    <3>1. k = [at |-> "lock", kind |-> kind, prompt |-> m, left |-> m, made |-> 0,
               limit |-> IF kind = "generate" THEN limit ELSE 0]
      BY <2>3
    <3> QED
      BY <2>1, <2>3, <3>1 DEF CallRecords, Fresh
  <2> QED
    BY <2>2, <2>3
<1>3. call' = [call EXCEPT ![c] = k]
  BY <1>1
<1> HIDE DEF k
<1>4. /\ session = "ready" /\ call[c].at = "idle"
      /\ UNCHANGED <<session, thread, cmd, reply, holder, poisoned, context, n_kv, s_pc>>
  BY DEF S!Begin, S!model, S!link, S!host, S!control
<1>5. /\ call' \in [Callers -> CallRecords] /\ call'[c] = k
      /\ \A o \in Callers : o # c => call'[o] = call[o]
  BY <1>2, <1>3, Changed DEF CallInv
<1>6. SessionTypes' /\ ThreadAt' /\ Unheld'
  BY <1>4, <1>5 DEF CallInv, SessionTypes, ThreadAt, Unheld
<1>7. holder # c
  BY <1>4 DEF CallInv, OneInside, Inside
<1>8. OneInside'
  BY <1>2, <1>4, <1>5, <1>7 DEF CallInv, OneInside, Inside
<1>9. \A o \in Callers : call'[o].at = "lock" => Fresh(call'[o])
  BY <1>2, <1>5 DEF CallInv
<1>10. ASSUME NEW o \in Callers, holder' = o PROVE Holding(o)'
  <2>1. o # c /\ holder = o /\ call'[o] = call[o]
    BY <1>4, <1>5, <1>7, <1>10
  <2>2. Holding(o)
    BY <2>1 DEF CallInv
  <2> QED
    BY <1>4, <2>1, <2>2
       DEF Holding, AtRest, AwaitsFirst, AwaitsDecode, Asked, Answers, Fresh
<1> QED
  BY <1>6, <1>8, <1>9, <1>10 DEF CallInv

\* A caller gets the lock, or panics on a poisoned one.
LEMMA LockKeeps == ASSUME NEW c \in Callers PROVE CallInv /\ S!Lock(c) => CallInv'
<1> SUFFICES ASSUME CallInv, S!Lock(c) PROVE CallInv'
  OBVIOUS
<1>1. /\ call[c].at = "lock" /\ holder = Nobody
      /\ \/ S!At(c, "panicked") /\ holder' = Nobody
         \/ S!At(c, "first") /\ holder' = c
      /\ UNCHANGED <<session, thread, cmd, reply, poisoned, context, n_kv, s_pc>>
  BY DEF S!Lock, S!model, S!host, S!control
<1>2. PICK k \in CallRecords :
        /\ call' = [call EXCEPT ![c] = k] /\ k.kind = call[c].kind
        /\ k.prompt = call[c].prompt /\ k.limit = call[c].limit
        /\ k.left = call[c].left /\ k.made = call[c].made
        /\ \/ k.at = "panicked" /\ holder' = Nobody
           \/ k.at = "first" /\ holder' = c
  BY <1>1, Moved DEF CallInv, Inside
<1>3. /\ call' \in [Callers -> CallRecords] /\ call'[c] = k
      /\ \A o \in Callers : o # c => call'[o] = call[o]
  BY <1>2, Changed DEF CallInv
<1>4. session = "ready" /\ cmd = "none" /\ reply.is = "none" /\ thread \in {"serving", "gone"}
  BY <1>1 DEF CallInv, OneInside, Unheld, ThreadAt, SessionTypes
<1>5. \A o \in Callers : o # Nobody /\ call[o].at \notin Inside
  BY <1>1, Constants DEF CallInv, OneInside
<1>6. SessionTypes' /\ ThreadAt' /\ Unheld'
  BY <1>1, <1>2, <1>3, <1>4, <1>5 DEF CallInv, SessionTypes, ThreadAt, Unheld
<1>7. OneInside'
  BY <1>1, <1>2, <1>3, <1>4, <1>5 DEF OneInside, Inside
<1>8. \A o \in Callers : call'[o].at = "lock" => Fresh(call'[o])
  BY <1>2, <1>3 DEF CallInv
<1>9. Fresh(k)
  BY <1>1, <1>2 DEF CallInv, Fresh
<1>10. ASSUME NEW o \in Callers, holder' = o PROVE Holding(o)'
  <2>1. o = c /\ k.at = "first"
    BY <1>2, <1>5, <1>10
  <2> QED
    BY <1>1, <1>3, <1>4, <1>9, <2>1 DEF Holding, AtRest
<1> QED
  BY <1>6, <1>7, <1>8, <1>10 DEF CallInv

\* The holder sends its first command, or returns when the thread is gone.
LEMMA FirstKeeps == ASSUME NEW c \in Callers PROVE CallInv /\ S!First(c) => CallInv'
<1> SUFFICES ASSUME CallInv, S!First(c) PROVE CallInv'
  OBVIOUS
<1>1. /\ call[c].at = "first"
      /\ \/ thread = "gone" /\ S!At(c, "idle") /\ holder' = Nobody /\ cmd' = cmd
         \/ /\ thread # "gone" /\ S!At(c, "await") /\ holder' = holder
            /\ cmd' = IF call[c].kind = "ask" THEN "ask" ELSE "reset"
      /\ UNCHANGED <<session, thread, reply, poisoned, context, n_kv, s_pc>>
  BY DEF S!First, S!Return, S!model, S!host, S!control
<1>2. PICK k \in CallRecords :
        /\ call' = [call EXCEPT ![c] = k] /\ k.kind = call[c].kind
        /\ k.prompt = call[c].prompt /\ k.limit = call[c].limit
        /\ k.left = call[c].left /\ k.made = call[c].made
        /\ \/ thread = "gone" /\ k.at = "idle" /\ holder' = Nobody /\ cmd' = cmd
           \/ /\ thread # "gone" /\ k.at = "await" /\ holder' = holder
              /\ cmd' = IF call[c].kind = "ask" THEN "ask" ELSE "reset"
  BY <1>1, Moved DEF CallInv, Inside
<1>3. call[c].at \in Inside /\ holder = c /\ Holding(c) /\ c # Nobody
  BY <1>1, Alone DEF Inside
<1>4. AtRest /\ Fresh(call[c])
  BY <1>1, <1>3 DEF Holding
<1>5. CASE thread = "gone"
  <2>1. /\ k.at \in {"idle", "panicked"} /\ holder' = Nobody /\ cmd = "none" /\ cmd' = "none"
        /\ reply' \in {reply, S!NoReply} /\ reply'.is = "none" /\ thread \in {"serving", "gone"}
        /\ poisoned' \in {poisoned, TRUE}
    BY <1>1, <1>2, <1>4, <1>5 DEF AtRest
  <2> QED
    BY <1>1, <1>2, <1>3, <2>1, Leaves
<1>6. CASE thread # "gone"
  <2>1. call'[c] = k /\ call' \in [Callers -> CallRecords]
    BY <1>2, Changed DEF CallInv
  <2>2. SessionTypes'
    BY <1>1, <1>2, <1>6, <2>1 DEF CallInv, SessionTypes
  <2>3. Fresh(k)
    BY <1>2, <1>4 DEF Fresh
  <2>4. AwaitsFirst(c)'
    BY <1>1, <1>2, <1>4, <1>6, <2>1, <2>3 DEF AwaitsFirst, Asked, AtRest
  <2>5. Holding(c)'
    BY <1>2, <1>6, <2>1, <2>4 DEF Holding
  <2>6. k.at \in Inside /\ holder' = holder
    BY <1>2, <1>6 DEF Inside
  <2> QED
    BY <1>1, <1>2, <1>3, <2>2, <2>5, <2>6, GoesOn
<1> QED
  BY <1>5, <1>6

\* The holder sends the next token of its prompt or the last it has made.
LEMMA FeedKeeps == ASSUME NEW c \in Callers PROVE CallInv /\ S!Feed(c) => CallInv'
<1> SUFFICES ASSUME CallInv, S!Feed(c) PROVE CallInv'
  OBVIOUS
<1>1. /\ call[c].at = "feed"
      /\ \/ thread = "gone" /\ S!At(c, "idle") /\ holder' = Nobody /\ cmd' = cmd
         \/ /\ thread # "gone" /\ cmd' = "decode" /\ holder' = holder
            /\ call' = [call EXCEPT ![c].at = "await", ![c].left = @ - 1]
      /\ UNCHANGED <<session, thread, reply, poisoned, context, n_kv, s_pc>>
  BY DEF S!Feed, S!Return, S!model, S!host, S!control
<1>2. call[c].at \in Inside /\ holder = c /\ Holding(c) /\ c # Nobody
  BY <1>1, Alone DEF Inside
<1>3. /\ AtRest /\ call[c].kind # "ask" /\ call[c].left > 0
      /\ Sent(call[c]) \in Nat /\ context = Own(c, Sent(call[c]))
  BY <1>1, <1>2 DEF Holding
<1>4. call[c] \in CallRecords
  BY DEF CallInv, SessionTypes
<1>5. CASE thread = "gone"
  <2>1. PICK k \in CallRecords : call' = [call EXCEPT ![c] = k] /\ k.at = "idle"
    BY <1>1, <1>5, Moved DEF CallInv
  <2>2. /\ k.at \in {"idle", "panicked"} /\ holder' = Nobody /\ cmd = "none" /\ cmd' = "none"
        /\ reply' \in {reply, S!NoReply} /\ reply'.is = "none" /\ thread \in {"serving", "gone"}
        /\ poisoned' \in {poisoned, TRUE}
    BY <1>1, <1>3, <1>5, <2>1 DEF AtRest
  <2> QED
    BY <1>1, <1>2, <2>1, <2>2, Leaves
<1>6. CASE thread # "gone"
  <2> DEFINE k == Left(call[c], "await", call[c].left - 1)
  <2>1. /\ k \in CallRecords /\ k.at = "await" /\ k.kind = call[c].kind /\ k.prompt = call[c].prompt
        /\ k.made = call[c].made /\ k.left = call[c].left - 1
    <3>1. k = [at |-> "await", kind |-> call[c].kind, prompt |-> call[c].prompt,
               limit |-> call[c].limit, left |-> call[c].left - 1, made |-> call[c].made]
      BY <1>4, Rewritten
    <3>2. call[c].left - 1 \in Nat
      BY <1>3, <1>4 DEF CallRecords
    <3> QED
      BY <1>4, <3>1, <3>2 DEF CallRecords, Inside
  <2>2. call' = [call EXCEPT ![c] = k]
    BY <1>1, <1>6 DEF Left
  <2> HIDE DEF k
  <2>3. call'[c] = k /\ call' \in [Callers -> CallRecords]
    BY <2>1, <2>2, Changed DEF CallInv
  <2>4. SessionTypes'
    BY <1>1, <1>6, <2>3 DEF CallInv, SessionTypes
  <2>5. Sent(k) = Sent(call[c]) + 1
    BY <1>4, <2>1 DEF Sent, CallRecords
  <2>6. AwaitsDecode(c)'
    <3>1. Asked("decode")'
      BY <1>1, <1>3, <1>6 DEF AtRest, Asked
    <3>2. Sent(k) \in Nat \ {0} /\ Sent(k) - 1 = Sent(call[c])
      BY <1>3, <2>5
    <3>3. context' = Own(c, Sent(k) - 1)
      BY <1>1, <1>3, <3>2
    <3> QED
      BY <1>3, <2>1, <2>3, <3>1, <3>2, <3>3 DEF AwaitsDecode
  <2>7. Holding(c)'
    BY <2>1, <2>3, <2>6 DEF Holding
  <2>8. k.at \in Inside /\ holder' = holder
    BY <1>1, <1>6, <2>1 DEF Inside
  <2> QED
    BY <1>1, <1>2, <2>1, <2>2, <2>4, <2>7, <2>8, GoesOn
<1> QED
  BY <1>5, <1>6

\* The holder is answered, or finds the thread gone.
LEMMA ReceiveKeeps == ASSUME NEW c \in Callers PROVE CallInv /\ S!Receive(c) => CallInv'
<1> SUFFICES ASSUME CallInv, S!Receive(c) PROVE CallInv'
  OBVIOUS
<1>1. /\ call[c].at = "await" /\ (reply.is # "none" \/ thread = "gone")
      /\ IF reply.is \in {"none", "failed"} \/ S!Onward(c) = "idle"
         THEN S!At(c, "idle") /\ holder' = Nobody
         ELSE S!At(c, S!Onward(c)) /\ holder' = holder
      /\ reply' = S!NoReply
      /\ UNCHANGED <<session, thread, cmd, poisoned, context, n_kv, s_pc>>
  BY DEF S!Receive, S!Return, S!Heard, S!model, S!host, S!control
<1>2. call[c].at \in Inside /\ holder = c /\ Holding(c) /\ c # Nobody
  BY <1>1, Alone DEF Inside
<1>3. call[c] \in CallRecords
  BY DEF CallInv, SessionTypes
<1>4. AwaitsFirst(c) \/ AwaitsDecode(c) \/ (AtRest /\ thread = "gone")
  BY <1>1, <1>2 DEF Holding
<1>5. cmd = "none" /\ thread \in {"serving", "gone"}
  BY <1>1, <1>4 DEF AwaitsFirst, AwaitsDecode, Asked, Answers, AtRest
<1>6. CASE reply.is \in {"none", "failed"} \/ S!Onward(c) = "idle"
  <2>1. PICK k \in CallRecords : call' = [call EXCEPT ![c] = k] /\ k.at = "idle"
    BY <1>1, <1>6, Moved DEF CallInv
  <2>2. /\ k.at \in {"idle", "panicked"} /\ holder' = Nobody /\ cmd = "none" /\ cmd' = "none"
        /\ reply' \in {reply, S!NoReply} /\ reply'.is = "none" /\ thread \in {"serving", "gone"}
        /\ poisoned' \in {poisoned, TRUE}
    BY <1>1, <1>5, <1>6, <2>1 DEF S!NoReply
  <2> QED
    BY <1>1, <1>2, <2>1, <2>2, Leaves
<1>7. CASE reply.is \notin {"none", "failed"} /\ S!Onward(c) # "idle"
  <2>1. /\ S!Onward(c) \in {"feed", "sample"}
        /\ S!Onward(c) = "feed" => call[c].left > 0
        /\ S!Onward(c) = "sample" => call[c].left = 0 /\ call[c].limit > 0
    BY <1>7 DEF S!Onward
  <2>2. PICK k \in CallRecords :
          /\ call' = [call EXCEPT ![c] = k] /\ k.at = S!Onward(c) /\ k.kind = call[c].kind
          /\ k.prompt = call[c].prompt /\ k.limit = call[c].limit
          /\ k.left = call[c].left /\ k.made = call[c].made
    BY <1>1, <1>7, <2>1, Moved DEF CallInv, Inside
  <2>3. call'[c] = k
    BY <2>2, Changed DEF CallInv
  <2>4. call[c].kind # "ask" /\ Sent(call[c]) \in Nat /\ context = Own(c, Sent(call[c]))
    <3>1. CASE AwaitsFirst(c)
      <4>1. Fresh(call[c]) /\ (call[c].kind # "ask" => context = <<>>)
        BY <1>7, <3>1 DEF AwaitsFirst, Asked, Answers
      <4>2. call[c].left \in Nat /\ call[c].prompt \in Nat /\ call[c].limit \in Nat
        BY <1>3 DEF CallRecords
      <4>3. call[c].kind # "ask"
        BY <2>1, <4>1, <4>2 DEF Fresh
      <4>4. Sent(call[c]) = 0
        BY <4>1, <4>2 DEF Fresh, Sent
      <4> QED
        BY <4>1, <4>3, <4>4, OwnNothing
    <3>2. CASE AwaitsDecode(c)
      BY <1>7, <3>2 DEF AwaitsDecode, Asked, Answers
    <3> QED
      BY <1>4, <1>7, <3>1, <3>2 DEF AtRest
  <2>5. Sent(k) = Sent(call[c])
    BY <2>2 DEF Sent
  <2>6. SessionTypes'
    <3>1. call' \in [Callers -> CallRecords]
      BY <2>2, Changed DEF CallInv
    <3> QED
      BY <1>1, <1>7, <3>1 DEF CallInv, SessionTypes, S!NoReply
  <2>7. AtRest'
    BY <1>1, <1>5 DEF AtRest, S!NoReply
  <2>8. Holding(c)'
    BY <1>1, <2>1, <2>2, <2>3, <2>4, <2>5, <2>7 DEF Holding
  <2>9. k.at \in Inside /\ holder' = holder
    BY <1>1, <1>7, <2>1, <2>2 DEF Inside
  <2> QED
    BY <1>1, <1>2, <2>2, <2>6, <2>8, <2>9, GoesOn
<1> QED
  BY <1>6, <1>7

\* What holds of the holder when it samples.
LEMMA Sampling ==
  ASSUME CallInv, NEW c \in Callers, call[c].at = "sample"
  PROVE  /\ call[c].at \in Inside /\ holder = c /\ c # Nobody /\ call[c] \in CallRecords
         /\ AtRest /\ call[c].kind # "ask" /\ call[c].left = 0
         /\ context = Own(c, Sent(call[c]))
<1>1. call[c].at \in Inside /\ holder = c /\ Holding(c) /\ c # Nobody
  BY Alone DEF Inside
<1> QED
  BY <1>1 DEF Holding, CallInv, SessionTypes

\* The holder samples a stop token.
LEMMA StopsKeeps == ASSUME NEW c \in Callers PROVE CallInv /\ S!Stops(c) => CallInv'
<1> SUFFICES ASSUME CallInv, S!Stops(c) PROVE CallInv'
  OBVIOUS
<1>1. /\ call[c].at = "sample" /\ S!At(c, "idle") /\ holder' = Nobody
      /\ UNCHANGED <<session, thread, cmd, reply, poisoned, n_kv, s_pc>>
  BY DEF S!Stops, S!Return, S!model, S!host, S!control
<1>2. call[c].at \in Inside /\ AtRest
  BY <1>1, Sampling
<1>3. PICK k \in CallRecords : call' = [call EXCEPT ![c] = k] /\ k.at = "idle"
  BY <1>1, Moved DEF CallInv
<1>4. /\ k.at \in {"idle", "panicked"} /\ cmd = "none" /\ cmd' = "none"
      /\ reply' \in {reply, S!NoReply} /\ reply'.is = "none" /\ thread \in {"serving", "gone"}
      /\ poisoned' \in {poisoned, TRUE}
  BY <1>1, <1>2, <1>3 DEF AtRest
<1> QED
  BY <1>1, <1>2, <1>3, <1>4, Leaves

\* The holder's callback panics, and the lock is poisoned.
LEMMA CallbackPanicsKeeps ==
  ASSUME NEW c \in Callers PROVE CallInv /\ S!CallbackPanics(c) => CallInv'
<1> SUFFICES ASSUME CallInv, S!CallbackPanics(c) PROVE CallInv'
  OBVIOUS
<1>1. /\ call[c].at = "sample" /\ S!At(c, "panicked") /\ holder' = Nobody /\ poisoned' = TRUE
      /\ UNCHANGED <<session, thread, cmd, reply, n_kv, s_pc>>
  BY DEF S!CallbackPanics, S!model, S!host, S!control
<1>2. call[c].at \in Inside /\ AtRest
  BY <1>1, Sampling
<1>3. PICK k \in CallRecords : call' = [call EXCEPT ![c] = k] /\ k.at = "panicked"
  BY <1>1, Moved DEF CallInv
<1>4. /\ k.at \in {"idle", "panicked"} /\ cmd = "none" /\ cmd' = "none"
      /\ reply' \in {reply, S!NoReply} /\ reply'.is = "none" /\ thread \in {"serving", "gone"}
      /\ poisoned' \in {poisoned, TRUE}
  BY <1>1, <1>2, <1>3 DEF AtRest
<1> QED
  BY <1>1, <1>2, <1>3, <1>4, Leaves

\* The holder emits a token and goes on, or has what it asked for.
LEMMA EmitsKeeps == ASSUME NEW c \in Callers PROVE CallInv /\ S!Emits(c) => CallInv'
<1> SUFFICES ASSUME CallInv, S!Emits(c) PROVE CallInv'
  OBVIOUS
<1> DEFINE m == call[c].made + 1
<1>1. /\ call[c].at = "sample"
      /\ \/ /\ call' = [call EXCEPT ![c].at = "feed", ![c].left = 1, ![c].made = m]
            /\ holder' = holder
         \/ call' = [call EXCEPT ![c].at = "idle", ![c].made = m] /\ holder' = Nobody
      /\ UNCHANGED <<session, thread, cmd, reply, poisoned, context, n_kv, s_pc>>
  BY DEF S!Emits, S!model, S!host, S!control
<1>2. /\ call[c].at \in Inside /\ holder = c /\ c # Nobody /\ call[c] \in CallRecords
      /\ AtRest /\ call[c].kind # "ask" /\ call[c].left = 0
      /\ context = Own(c, Sent(call[c]))
  BY <1>1, Sampling
<1>3. m \in Nat /\ call[c].made \in Nat /\ call[c].prompt \in Nat
  BY <1>2 DEF CallRecords
<1>4. m = call[c].made + 1
  OBVIOUS
<1> HIDE DEF m
<1>5. CASE /\ call' = [call EXCEPT ![c].at = "feed", ![c].left = 1, ![c].made = m]
           /\ holder' = holder
  <2> DEFINE k == LeftMade(call[c], "feed", 1, m)
  <2>1. k = [at |-> "feed", kind |-> call[c].kind, prompt |-> call[c].prompt,
             limit |-> call[c].limit, left |-> 1, made |-> m]
    BY <1>2, Rewritten
  <2>2. call' = [call EXCEPT ![c] = k]
    BY <1>5 DEF LeftMade
  <2> HIDE DEF k
  <2>3. /\ k \in CallRecords /\ k.at = "feed" /\ k.kind = call[c].kind /\ k.left = 1
        /\ k.prompt = call[c].prompt /\ k.made = m
    BY <1>2, <1>3, <2>1 DEF CallRecords, Inside
  <2>4. call'[c] = k /\ call' \in [Callers -> CallRecords]
    BY <2>2, <2>3, Changed DEF CallInv
  <2>5. SessionTypes'
    BY <1>1, <1>5, <2>4 DEF CallInv, SessionTypes
  <2>6. Sent(k) = Sent(call[c]) /\ Sent(k) \in Nat
    BY <1>2, <1>3, <1>4, <2>3 DEF Sent
  <2>7. Holding(c)'
    BY <1>1, <1>2, <2>3, <2>4, <2>6 DEF Holding, AtRest
  <2>8. k.at \in Inside
    BY <2>3 DEF Inside
  <2> QED
    BY <1>1, <1>2, <1>5, <2>2, <2>3, <2>5, <2>7, <2>8, GoesOn
<1>6. CASE call' = [call EXCEPT ![c].at = "idle", ![c].made = m] /\ holder' = Nobody
  <2> DEFINE k == Made(call[c], "idle", m)
  <2>1. k = [at |-> "idle", kind |-> call[c].kind, prompt |-> call[c].prompt,
             limit |-> call[c].limit, left |-> call[c].left, made |-> m]
    BY <1>2, Rewritten
  <2>2. call' = [call EXCEPT ![c] = k]
    BY <1>6 DEF Made
  <2> HIDE DEF k
  <2>3. k \in CallRecords /\ k.at = "idle"
    BY <1>2, <1>3, <2>1 DEF CallRecords
  <2>4. /\ k.at \in {"idle", "panicked"} /\ cmd = "none" /\ cmd' = "none"
        /\ reply' \in {reply, S!NoReply} /\ reply'.is = "none" /\ thread \in {"serving", "gone"}
        /\ poisoned' \in {poisoned, TRUE}
    BY <1>1, <1>2, <2>3 DEF AtRest
  <2> QED
    BY <1>1, <1>2, <1>6, <2>2, <2>3, <2>4, Leaves
<1> QED
  BY <1>1, <1>5, <1>6

-----------------------------------------------------------------------------
(* The invariant, and what it says of the device.                          *)

\* Every step of every view.
LEMMA StepKeepsCalls ==
  CallInv /\ [EngineNext]_<<view, launch, vars, sessions, experts>> => CallInv'
<1> SUFFICES ASSUME CallInv, [EngineNext]_<<view, launch, vars, sessions, experts>>
             PROVE  CallInv'
  OBVIOUS
<1>1. CASE UNCHANGED sessions
  <2>1. /\ UNCHANGED <<session, thread, cmd, reply, holder, poisoned, call, context>>
        /\ n_kv' = n_kv /\ s_pc' = s_pc
    BY <1>1 DEF sessions
  <2> QED
    BY <2>1 DEF CallInv, SessionTypes, OneInside, ThreadAt, Unheld, Holding, AtRest,
       AwaitsFirst, AwaitsDecode, Asked, Answers, Fresh
<1>2. CASE S!SessionNext
  <2>1. CASE S!DeviceThread
    BY <2>1, LoadKeeps, ThreadEndsKeeps, TakeResetKeeps, TakeAskKeeps, TakeDecodeKeeps,
       DecodingKeeps, TakeShutdownKeeps DEF S!DeviceThread
  <2>2. CASE \E c \in Callers : S!Begin(c) \/ S!Calling(c) \/ S!CallbackPanics(c)
    BY <2>2, BeginKeeps, LockKeeps, FirstKeeps, FeedKeeps, ReceiveKeeps, StopsKeeps, EmitsKeeps,
       CallbackPanicsKeeps DEF S!Calling
  <2> QED
    BY <1>2, <2>1, <2>2, ThreadPanicsKeeps, LoadedKeeps, LoadFailedKeeps, DropKeeps, JoinedKeeps
       DEF S!SessionNext
<1> QED
  BY <1>1, <1>2 DEF EngineNext

\* The device is the holder's.
LEMMA CallsOwn == CallInv => CallOwnsTheDevice
<1> SUFFICES ASSUME CallInv PROVE CallOwnsTheDevice
  OBVIOUS
<1>1. S!TornDownFirst
  BY DEF CallInv, ThreadAt, S!TornDownFirst
<1>2. ASSUME reply.is # "none", session # "loading" PROVE reply.of = holder /\ holder # Nobody
  <2>1. PICK c \in Callers : holder = c
    BY <1>2 DEF CallInv, SessionTypes, Unheld
  <2>2. Holding(c) /\ call[c].at \in Inside /\ c # Nobody
    BY <2>1, Constants DEF CallInv, OneInside
  <2> QED
    BY <1>2, <2>1, <2>2 DEF Holding, Inside, AwaitsFirst, AwaitsDecode, AtRest, Asked, Answers
<1>3. ASSUME NEW c \in Callers, call[c].at = "sample"
      PROVE  context = [i \in 1 .. (call[c].prompt + call[c].made) |-> c]
  <2>1. call[c] \in CallRecords /\ call[c].left = 0 /\ context = Own(c, Sent(call[c]))
    BY <1>3, Sampling
  <2>2. Sent(call[c]) = call[c].prompt + call[c].made
    BY <2>1 DEF Sent, CallRecords
  <2> QED
    BY <2>1, <2>2 DEF Own
<1>4. ASSUME NEW c \in Callers, call[c].at \in {"feed", "await"}, cmd = "none",
             thread = "serving", call[c].left < call[c].prompt
      PROVE  \A i \in 1 .. Len(context) : context[i] = c
  <2>1. holder = c /\ Holding(c) /\ call[c] \in CallRecords
    BY <1>4, Alone DEF Inside, CallInv, SessionTypes
  <2>2. ~Fresh(call[c])
    BY <1>4, <2>1 DEF Fresh, CallRecords
  <2>3. \E n \in Nat : context = Own(c, n)
    BY <1>4, <2>1, <2>2 DEF Holding, AwaitsFirst, AwaitsDecode, Asked, Answers, AtRest
  <2>4. PICK n \in Nat : context = Own(c, n)
    BY <2>3
  <2> QED
    BY <2>4 DEF Own
<1> QED
  BY <1>1, <1>2, <1>3, <1>4 DEF CallOwnsTheDevice, S!CallOwnsTheDevice, S!Heard

\* A caller that holds the lock is answered its own commands and nobody else's, what the model
\* has in context when it samples is its prompt and what it has emitted, and a failed load and a
\* drop return after the teardown, unless a callback's panic has poisoned the lock.
THEOREM CallOwnsTheDeviceHolds == EngineSpec => []CallOwnsTheDevice
<1>1. EngineInit => CallInv
  BY CallsBegin
<1>2. CallInv /\ [EngineNext]_<<view, launch, vars, sessions, experts>> => CallInv'
  BY StepKeepsCalls
<1>3. CallInv => CallOwnsTheDevice
  BY CallsOwn
<1> QED
  BY <1>1, <1>2, <1>3, PTL DEF EngineSpec
-----------------------------------------------------------------------------
(* The keys: where every position of every block is kept, and that every   *)
(* position it still has is its own sequence's.                            *)

KP == INSTANCE PagedKvProofs WITH
  Seqs <- {S!SEQ}, TotalPages <- S!FullPages, ContextLimit <- NCtx, MayRebegin <- TRUE,
  free <- s_free, active <- s_active, pages <- s_pages, tokens <- s_tokens

\* How many positions the ring of a windowed block holds.
Ring == S!SwaPages * PageTokens
\* The pages and the tokens of the one sequence.
Table == s_pages[S!SEQ]
Count == s_tokens[S!SEQ]

\* Enough pages for n tokens, as few as that, and at least one.
LEMMA Ceil ==
  ASSUME NEW n \in Nat \ {0}
  PROVE  /\ S!CeilDiv(n, PageTokens) \in Nat \ {0}
         /\ n <= S!CeilDiv(n, PageTokens) * PageTokens
         /\ S!AtLeastOne(S!CeilDiv(n, PageTokens)) = S!CeilDiv(n, PageTokens)
         /\ \A k \in Nat : k * PageTokens < n + PageTokens => k <= S!CeilDiv(n, PageTokens)
<1> DEFINE m == (n + PageTokens) - 1
           d == m \div PageTokens
<1>1. PageTokens \in Nat \ {0} /\ m \in Nat
  BY EngineAssumption DEF S!ShapeAssumption
<1>2. /\ m = PageTokens * d + (m % PageTokens)
      /\ m % PageTokens \in 0 .. (PageTokens - 1) /\ d \in Nat
  BY <1>1
<1>3. S!CeilDiv(n, PageTokens) = d
  BY <1>1 DEF S!CeilDiv
<1>4. m = (n + PageTokens) - 1
  OBVIOUS
<1> HIDE DEF m, d
<1> DEFINE r == m % PageTokens
           x == PageTokens * d
<1>5. x \in Nat /\ m = x + r /\ r \in 0 .. (PageTokens - 1) /\ x = d * PageTokens
  BY <1>1, <1>2
<1>6. n <= x
  <2> HIDE DEF r, x
  <2> QED
    BY <1>1, <1>4, <1>5
<1>7. d # 0
  <2>1. 0 * PageTokens = 0
    BY <1>1
  <2> QED
    BY <1>5, <1>6, <2>1
<1>8. ASSUME NEW k \in Nat, k * PageTokens < n + PageTokens PROVE k <= d
  <2>1. k * PageTokens < x + PageTokens
    <3> DEFINE y == k * PageTokens
    <3>1. y \in Nat /\ y < n + PageTokens
      BY <1>1, <1>8
    <3> HIDE DEF r, x, y
    <3>2. y <= m
      BY <1>1, <1>4, <3>1
    <3>3. y < x + PageTokens
      BY <1>1, <1>5, <3>1, <3>2
    <3> QED
      BY <3>3 DEF y
  <2>2. k * PageTokens < (d + 1) * PageTokens
    BY <1>1, <1>2, <2>1
  <2>3. ~(d + 1 <= k)
    <3>1. ASSUME d + 1 <= k PROVE (d + 1) * PageTokens <= k * PageTokens
      BY <1>1, <1>2, <3>1
    <3> QED
      BY <1>1, <1>2, <2>2, <3>1
  <2> QED
    BY <1>2, <2>3
<1> QED
  BY <1>2, <1>3, <1>5, <1>6, <1>7, <1>8 DEF S!AtLeastOne

\* The shape of the model: a full table covers the context, the ring covers the window.
LEMMA Geometry ==
  /\ NBlock \in Nat \ {0} /\ NSwa \in Nat \ {0} /\ PageTokens \in Nat \ {0}
  /\ NCtx \in Nat \ {0} /\ MaxSequences \in Nat \ {0}
  /\ S!FullPages \in Nat \ {0} /\ S!SwaPages \in 1 .. S!FullPages
  /\ NCtx <= S!FullPages * PageTokens
  /\ NSwa <= Ring \/ S!SwaPages = S!FullPages
  /\ \A k \in Nat : k * PageTokens < NCtx + PageTokens => k <= S!FullPages
<1>1. /\ NBlock \in Nat \ {0} /\ NSwa \in Nat \ {0} /\ PageTokens \in Nat \ {0}
      /\ NCtx \in Nat \ {0} /\ MaxSequences \in Nat \ {0}
  BY EngineAssumption DEF S!ShapeAssumption
<1>2. S!FullPages = S!CeilDiv(NCtx, PageTokens)
  BY <1>1, Ceil DEF S!FullPages
<1>3. /\ S!FullPages \in Nat \ {0} /\ NCtx <= S!FullPages * PageTokens
      /\ \A k \in Nat : k * PageTokens < NCtx + PageTokens => k <= S!FullPages
  BY <1>1, <1>2, Ceil
<1> DEFINE w == S!CeilDiv(NSwa, PageTokens)
<1>4. w \in Nat \ {0} /\ NSwa <= w * PageTokens
  BY <1>1, Ceil
<1>5. S!SwaPages = IF w < S!FullPages THEN w ELSE S!FullPages
  BY <1>1, Ceil DEF S!SwaPages, S!Lesser
<1> HIDE DEF w
<1>6. S!SwaPages \in 1 .. S!FullPages /\ (S!SwaPages = w \/ S!SwaPages = S!FullPages)
  BY <1>3, <1>4, <1>5
<1> QED
  BY <1>1, <1>3, <1>4, <1>6 DEF Ring

\* Two positions of the ring less than its length apart have places of their own.
LEMMA RingPlaces ==
  ASSUME NEW p \in Nat, NEW q \in Nat, p < q, q < p + Ring, p % PageTokens = q % PageTokens
  PROVE  (p \div PageTokens) % S!SwaPages # (q \div PageTokens) % S!SwaPages
<1> DEFINE a == p \div PageTokens
           c == q \div PageTokens
           r == p % PageTokens
           w == S!SwaPages
<1>1. PageTokens \in Nat \ {0} /\ w \in Nat \ {0}
  BY Geometry
<1>2. /\ a \in Nat /\ c \in Nat /\ r \in 0 .. (PageTokens - 1)
      /\ p = PageTokens * a + r /\ q = PageTokens * c + (q % PageTokens)
  BY <1>1
<1>3. q = PageTokens * c + r
  BY <1>2
<1>4. Ring = w * PageTokens
  BY DEF Ring
<1> HIDE DEF a, c, r, w
<1>5. a < c
  <2>1. ASSUME c <= a PROVE PageTokens * c <= PageTokens * a
    BY <1>1, <1>2, <2>1
  <2>2. PageTokens * c \in Nat /\ PageTokens * a \in Nat
    BY <1>1, <1>2
  <2> QED
    BY <1>2, <1>3, <2>1, <2>2
<1>6. c < a + w
  <2>1. ASSUME a + w <= c PROVE PageTokens * (a + w) <= PageTokens * c
    BY <1>1, <1>2, <2>1
  <2>2. PageTokens * (a + w) = PageTokens * a + w * PageTokens
    BY <1>1, <1>2
  <2>3. PageTokens * c \in Nat /\ PageTokens * a \in Nat /\ w * PageTokens \in Nat
    BY <1>1, <1>2
  <2>4. q < p + w * PageTokens
    BY <1>4
  <2> DEFINE x == PageTokens * a
             y == PageTokens * c
             z == w * PageTokens
  <2>5. /\ x \in Nat /\ y \in Nat /\ z \in Nat /\ q < p + z /\ p = x + r /\ q = y + r
        /\ a + w <= c => x + z <= y
    BY <1>2, <1>3, <2>1, <2>2, <2>3, <2>4
  <2> HIDE DEF x, y, z
  <2>6. ~(a + w <= c)
    BY <1>2, <2>5
  <2> QED
    BY <1>1, <1>2, <2>6
<1>7. a % w # c % w
  <2> DEFINE x == a \div w
             z == c \div w
             y == a % w
  <2>1. /\ x \in Nat /\ z \in Nat /\ y \in 0 .. (w - 1)
        /\ a = w * x + y /\ c = w * z + (c % w)
    BY <1>1, <1>2
  <2> HIDE DEF x, z, y
  <2>2. SUFFICES ASSUME c % w = y PROVE FALSE
    BY DEF y
  <2>3. c = w * z + y
    BY <2>1, <2>2
  <2>4. w * x \in Nat /\ w * z \in Nat
    BY <1>1, <2>1
  <2>5. w * x < w * z /\ w * z < w * x + w
    BY <1>1, <1>2, <1>5, <1>6, <2>1, <2>3, <2>4
  <2>6. x < z
    <3>1. ASSUME z <= x PROVE w * z <= w * x
      BY <1>1, <2>1, <3>1
    <3> QED
      BY <2>1, <2>4, <2>5, <3>1
  <2>7. w * (x + 1) <= w * z
    <3>1. x + 1 <= z
      BY <2>1, <2>6
    <3> QED
      BY <1>1, <2>1, <3>1
  <2>8. w * (x + 1) = w * x + w
    BY <1>1, <2>1
  <2> QED
    BY <1>1, <2>4, <2>5, <2>7, <2>8
<1> QED
  BY <1>7 DEF a, c, w

-----------------------------------------------------------------------------
(* The keys of the one sequence, in every block.                           *)

\* Where block b keeps the key of position p.
PageAt(b, p) ==
  IF S!Windowed(b) THEN (p \div PageTokens) % S!SwaPages ELSE Table[(p \div PageTokens) + 1]
\* How many positions block b has written.
Written(b) == IF s_pc = "table" \/ (s_pc = "block" /\ b >= s_block) THEN n_kv - 1 ELSE n_kv
\* Those it has not overwritten since.
Kept(b, p) == p < Written(b) /\ (S!Windowed(b) => Written(b) <= p + Ring)

\* Every page of a pool has a place for each of its tokens.
CellShape ==
  \A b \in S!Blocks : \A g \in 0 .. (S!PagesOf(b) - 1) : DOMAIN cells[b][g] = 0 .. (PageTokens - 1)

\* The host's side: one sequence, with the tokens the model counts.
HostInv ==
  /\ begun <=> S!SEQ \in s_active
  /\ ~begun => Table = <<>> /\ Count = 0
  /\ n_kv = Count
  /\ s_pc \in {"append", "table", "block"} => begun
\* The place of the token that is being decoded.
LastPlace ==
  s_pc \in {"table", "block"} =>
    /\ n_kv > 0
    /\ page = Table[((n_kv - 1) \div PageTokens) + 1] /\ slot = (n_kv - 1) % PageTokens
\* The device has the host's table, and the blocks run with it current.
TableInv ==
  /\ s_pc # "failed" => \A i \in 1 .. Len(table_host) : block_table[i - 1] = table_host[i]
  /\ s_pc = "block" => table_host = Table
\* What a block still has of a position is that position's key.
KeysInv ==
  s_pc # "failed" =>
    \A b \in S!Blocks, p \in Nat :
      Kept(b, p) => cells[b][PageAt(b, p)][p % PageTokens] = <<sequence, p>>

\* The inductive invariant of the keys.
KvInv ==
  /\ S!TypeOK /\ CellShape /\ KP!IInv /\ HostInv /\ LastPlace /\ TableInv /\ KeysInv
  /\ S!AttentionSeesItsOwn

\* A table with the pages its tokens need and no more.
LEMMA TableFits ==
  ASSUME NEW n \in 0 .. NCtx, NEW k \in Nat, n <= k * PageTokens, k * PageTokens < n + PageTokens
  PROVE  k <= S!FullPages /\ \A p \in Nat : p < n => (p \div PageTokens) + 1 \in 1 .. k
<1>1. PageTokens \in Nat \ {0} /\ NCtx \in Nat
  BY Geometry
<1>2. k <= S!FullPages
  <2> DEFINE x == k * PageTokens
  <2>1. x \in Nat /\ x < n + PageTokens
    BY <1>1
  <2> HIDE DEF x
  <2>2. x < NCtx + PageTokens
    BY <1>1, <2>1
  <2>3. k * PageTokens < NCtx + PageTokens
    BY <2>2 DEF x
  <2> QED
    BY <2>3, Geometry
<1>3. ASSUME NEW p \in Nat, p < n PROVE (p \div PageTokens) + 1 \in 1 .. k
  <2>1. p < k * PageTokens
    <3> DEFINE x == k * PageTokens
    <3>1. x \in Nat /\ n <= x
      BY <1>1
    <3> HIDE DEF x
    <3>2. p < x
      BY <1>1, <1>3, <3>1
    <3> QED
      BY <3>2 DEF x
  <2>2. p \div PageTokens \in 0 .. (k - 1)
    BY <1>1, <2>1
  <2> QED
    BY <2>2
<1> QED
  BY <1>2, <1>3

\* The table of the sequence when it has one.
LEMMA TableFacts ==
  ASSUME KvInv
  PROVE  /\ n_kv \in 0 .. NCtx /\ n_kv = Count /\ Table \in Seq(0 .. (S!FullPages - 1))
         /\ Len(Table) \in Nat /\ Len(Table) <= S!FullPages
         /\ \A i, j \in 1 .. Len(Table) : Table[i] = Table[j] => i = j
         /\ \A p \in Nat : p < n_kv => (p \div PageTokens) + 1 \in 1 .. Len(Table)
<1>1. /\ n_kv \in 0 .. NCtx /\ n_kv = Count /\ Table \in Seq(0 .. (S!FullPages - 1))
      /\ Len(Table) \in Nat
  BY DEF KvInv, HostInv, S!TypeOK, KP!IInv, KP!TypeOK, KP!Pages, Table
<1>2. CASE begun
  <2>1. S!SEQ \in s_active
    BY <1>2 DEF KvInv, HostInv
  <2>2. n_kv <= Len(Table) * PageTokens /\ Len(Table) * PageTokens < n_kv + PageTokens
    BY <1>1, <2>1 DEF KvInv, KP!IInv, KP!WasteBounded, Table, Count
  <2>3. /\ Len(Table) <= S!FullPages
        /\ \A p \in Nat : p < n_kv => (p \div PageTokens) + 1 \in 1 .. Len(Table)
    BY <1>1, <2>2, TableFits
  <2>4. \A i, j \in 1 .. Len(Table) : Table[i] = Table[j] => i = j
    BY <2>1 DEF KvInv, KP!IInv, KP!NoPageShared, Table
  <2> QED
    BY <1>1, <2>3, <2>4
<1>3. CASE ~begun
  BY <1>1, <1>3, Geometry DEF KvInv, HostInv
<1> QED
  BY <1>2, <1>3

\* A key is kept inside its block's pool.
LEMMA PageRange ==
  ASSUME KvInv, NEW b \in S!Blocks, NEW p \in Nat, p < n_kv
  PROVE  /\ PageAt(b, p) \in 0 .. (S!PagesOf(b) - 1)
         /\ p % PageTokens \in 0 .. (PageTokens - 1)
<1>1. /\ PageTokens \in Nat \ {0} /\ S!SwaPages \in Nat \ {0} /\ p \div PageTokens \in Nat
  BY Geometry
<1>2. (p \div PageTokens) % S!SwaPages \in 0 .. (S!SwaPages - 1)
  <2> DEFINE a == p \div PageTokens
             w == S!SwaPages
  <2>1. a \in Nat /\ w \in Nat \ {0}
    BY <1>1
  <2> HIDE DEF a, w
  <2>2. a % w \in 0 .. (w - 1)
    BY <2>1
  <2> QED
    BY <2>2 DEF a, w
<1>3. /\ Table \in Seq(0 .. (S!FullPages - 1))
      /\ (p \div PageTokens) + 1 \in 1 .. Len(Table)
  BY TableFacts
<1>4. Table[(p \div PageTokens) + 1] \in 0 .. (S!FullPages - 1)
  BY <1>3, ElementOfSeq
<1>5. p % PageTokens \in 0 .. (PageTokens - 1)
  BY <1>1
<1> QED
  BY <1>2, <1>4, <1>5 DEF PageAt, S!PagesOf

\* No two positions a block still has are kept in one place.
LEMMA OwnPlaces ==
  ASSUME KvInv, NEW b \in S!Blocks, NEW p \in Nat, NEW q \in Nat, p < q, q < n_kv,
         S!Windowed(b) => q < p + Ring, p % PageTokens = q % PageTokens
  PROVE  PageAt(b, p) # PageAt(b, q)
<1>1. CASE S!Windowed(b)
  BY <1>1, RingPlaces DEF PageAt
<1>2. CASE ~S!Windowed(b)
  <2> DEFINE a == p \div PageTokens
             c == q \div PageTokens
             r == p % PageTokens
  <2>1. PageTokens \in Nat \ {0}
    BY Geometry
  <2>2. a \in Nat /\ c \in Nat /\ p = PageTokens * a + r /\ q = PageTokens * c + (q % PageTokens)
    BY <2>1
  <2>3. q = PageTokens * c + r
    BY <2>2
  <2>4. a + 1 \in 1 .. Len(Table) /\ c + 1 \in 1 .. Len(Table)
    BY TableFacts
  <2> HIDE DEF a, c, r
  <2>5. a # c
    BY <2>2, <2>3
  <2>6. Table[a + 1] # Table[c + 1]
    BY <2>2, <2>4, <2>5, TableFacts
  <2> QED
    BY <1>2, <2>6 DEF PageAt, a, c
<1> QED
  BY <1>1, <1>2

-----------------------------------------------------------------------------
(* Steps.                                                                  *)

\* What the page allocator does for the one sequence keeps its accounts.
LEMMA AccountsKept ==
  ASSUME KvInv,
         \/ UNCHANGED S!kv
         \/ S!Kv!Begin(S!SEQ, 0) /\ ~begun
         \/ S!Kv!AppendInPage(S!SEQ) \/ S!Kv!AppendNewPage(S!SEQ)
         \/ S!Kv!End(S!SEQ)
  PROVE  KP!IInv' /\ S!Kv!TypeOK'
<1>0. KP!GeometryAssumption
  BY Geometry DEF KP!GeometryAssumption
<1>1. KP!IInv /\ S!SEQ \in {S!SEQ} /\ 0 \in 0 .. NCtx
  BY Geometry DEF KvInv
<1>2. ASSUME UNCHANGED S!kv PROVE KP!IInv'
  BY <1>1, <1>2 DEF S!kv, KP!IInv, KP!TypeOK, KP!NoPageShared, KP!NothingLeaked, KP!WasteBounded,
     KP!IsFree, KP!Holds, KP!Pages
<1>3. ASSUME S!Kv!Begin(S!SEQ, 0) /\ ~begun PROVE KP!IInv'
  <2>1. KP!Begin(S!SEQ, 0)
    BY <1>3 DEF S!Kv!Begin, KP!Begin, S!Kv!PagesFor, KP!PagesFor
  <2>2. S!SEQ \notin s_active
    BY <1>3 DEF KvInv, HostInv
  <2> QED
    BY <1>0, <1>1, <2>1, <2>2, KP!BeginIInv
<1>4. ASSUME S!Kv!AppendInPage(S!SEQ) PROVE KP!IInv'
  <2>1. KP!AppendInPage(S!SEQ)
    BY <1>4 DEF S!Kv!AppendInPage, KP!AppendInPage, S!Kv!Appendable, KP!Appendable,
       S!Kv!PageFull, KP!PageFull
  <2> QED
    BY <1>0, <1>1, <2>1, KP!AppendInPageIInv
<1>5. ASSUME S!Kv!AppendNewPage(S!SEQ) PROVE KP!IInv'
  <2>1. KP!AppendNewPage(S!SEQ)
    BY <1>5 DEF S!Kv!AppendNewPage, KP!AppendNewPage, S!Kv!Appendable, KP!Appendable,
       S!Kv!PageFull, KP!PageFull, S!Kv!Back, KP!Back
  <2> QED
    BY <1>0, <1>1, <2>1, KP!AppendNewPageIInv
<1>6. ASSUME S!Kv!End(S!SEQ) PROVE KP!IInv'
  <2>1. KP!End(S!SEQ)
    BY <1>6 DEF S!Kv!End, KP!End, S!Kv!Reversed, KP!Reversed
  <2> QED
    BY <1>0, <1>1, <2>1, KP!EndIInv
<1>7. KP!IInv'
  BY <1>2, <1>3, <1>4, <1>5, <1>6
<1> QED
  BY <1>7 DEF KP!IInv, KP!TypeOK, S!Kv!TypeOK, KP!Pages, S!Kv!Pages

\* What attention has read is still what it may see, or is forgotten.
LEMMA StillSeen ==
  ASSUME KvInv, \/ attn' = attn /\ n_kv' = n_kv /\ sequence' = sequence
                \/ attn' = S!Unread
  PROVE  S!AttentionSeesItsOwn'
<1>1. CASE attn' = attn /\ n_kv' = n_kv /\ sequence' = sequence
  BY <1>1 DEF KvInv, S!AttentionSeesItsOwn, S!Visible
<1>2. CASE attn' = S!Unread
  <2>1. attn'.block \notin S!Blocks
    BY <1>2, Geometry DEF S!Unread, S!Blocks
  <2> QED
    BY <2>1 DEF S!AttentionSeesItsOwn
<1> QED
  BY <1>1, <1>2

\* Nothing is in context, so nothing is kept.
LEMMA StartsBlank == EngineInit => KvInv
<1> SUFFICES ASSUME EngineInit PROVE KvInv
  OBVIOUS
<1>1. S!Init
  BY DEF EngineInit, S!SessionInit
<1>2. /\ S!Kv!Init /\ begun = FALSE /\ n_kv = 0 /\ table_host = <<>>
      /\ block_table = [i \in 0 .. (S!FullPages - 1) |-> S!FullPages]
      /\ cells = [b \in S!Blocks |-> [g \in 0 .. (S!PagesOf(b) - 1) |->
                                        [s \in 0 .. (PageTokens - 1) |-> S!Blank]]]
      /\ attn = S!Unread
      /\ s_pc = "idle" /\ s_block = 0 /\ page = 0 /\ slot = 0 /\ sequence = 1
  BY <1>1 DEF S!Init
<1>3. KP!IInv /\ S!Kv!TypeOK
  <2>1. KP!GeometryAssumption
    BY Geometry DEF KP!GeometryAssumption
  <2>2. KP!Init
    BY <1>2 DEF S!Kv!Init, KP!Init
  <2>3. KP!IInv
    BY <2>1, <2>2, KP!InitIInv
  <2> QED
    BY <2>3 DEF KP!IInv, KP!TypeOK, S!Kv!TypeOK, KP!Pages, S!Kv!Pages
<1>4. s_active = {} /\ Table = <<>> /\ Count = 0
  BY <1>2 DEF S!Kv!Init, Table, Count
<1>5. S!TypeOK
  <2>1. 0 \in S!Blocks /\ 0 \in 0 .. NCtx /\ 0 \in 0 .. (S!FullPages - 1)
        /\ 0 \in 0 .. (PageTokens - 1) /\ 1 \in 1 .. MaxSequences /\ S!FullPages \in 0 .. S!FullPages
    BY Geometry DEF S!Blocks
  <2>2. DOMAIN cells = S!Blocks /\ \A b \in S!Blocks : DOMAIN cells[b] = 0 .. (S!PagesOf(b) - 1)
    BY <1>2
  <2>3. table_host \in Seq(0 .. (S!FullPages - 1))
    BY <1>2
  <2> QED
    BY <1>2, <1>3, <2>1, <2>2, <2>3 DEF S!TypeOK
<1>6. CellShape
  BY <1>2 DEF CellShape
<1>7. HostInv /\ LastPlace /\ TableInv
  BY <1>2, <1>4 DEF HostInv, LastPlace, TableInv
<1>8. KeysInv
  BY <1>2 DEF KeysInv, Kept, Written
<1>9. S!AttentionSeesItsOwn
  <2>1. attn.block \notin S!Blocks
    BY <1>2, Geometry DEF S!Unread, S!Blocks
  <2> QED
    BY <2>1 DEF S!AttentionSeesItsOwn
<1> QED
  BY <1>3, <1>5, <1>6, <1>7, <1>8, <1>9 DEF KvInv

\* The first decode begins the sequence, with no page yet.
LEMMA BeginSequenceKeeps == KvInv /\ S!BeginSequence => KvInv'
<1> SUFFICES ASSUME KvInv, S!BeginSequence PROVE KvInv'
  OBVIOUS
<1>1. /\ s_pc = "idle" /\ ~begun /\ S!Kv!Begin(S!SEQ, 0) /\ begun' = TRUE /\ s_pc' = "append"
      /\ UNCHANGED <<n_kv, table_host, block_table, cells, attn, s_block, page, slot, sequence>>
  BY DEF S!BeginSequence, S!device
<1>2. KP!IInv' /\ S!Kv!TypeOK'
  BY <1>1, AccountsKept
<1>3. n_kv = 0
  BY <1>1 DEF KvInv, HostInv
<1>4. S!SEQ \in s_active' /\ Count' = 0
  <2>1. s_active' = s_active \cup {S!SEQ} /\ s_tokens' = [s_tokens EXCEPT ![S!SEQ] = 0]
    BY <1>1 DEF S!Kv!Begin
  <2>2. DOMAIN s_tokens = {S!SEQ}
    BY DEF KvInv, KP!IInv, KP!TypeOK
  <2> QED
    BY <2>1, <2>2 DEF Count
<1>5. S!TypeOK'
  BY <1>1, <1>2 DEF KvInv, S!TypeOK
<1>6. CellShape' /\ HostInv' /\ LastPlace' /\ TableInv'
  BY <1>1, <1>3, <1>4 DEF KvInv, CellShape, HostInv, LastPlace, TableInv
<1>7. KeysInv'
  BY <1>1, <1>3 DEF KeysInv, Kept, Written
<1>8. S!AttentionSeesItsOwn'
  BY <1>1, StillSeen
<1> QED
  BY <1>2, <1>5, <1>6, <1>7, <1>8 DEF KvInv

\* The token has a place, in its last page or in one that was free.
LEMMA AppendTokenKeeps == KvInv /\ S!AppendToken => KvInv'
<1> SUFFICES ASSUME KvInv, S!AppendToken PROVE KvInv'
  OBVIOUS
<1>1. /\ s_pc \in {"append", "idle"} /\ begun
      /\ S!Kv!AppendInPage(S!SEQ) \/ S!Kv!AppendNewPage(S!SEQ)
      /\ page' = Table'[(Count \div PageTokens) + 1] /\ slot' = Count % PageTokens
      /\ n_kv' = n_kv + 1 /\ s_pc' = "table" /\ attn' = S!Unread
      /\ UNCHANGED <<begun, table_host, block_table, cells, s_block, sequence>>
  BY DEF S!AppendToken, S!Appending, KvInv, HostInv, Table, Count
<1>2. KP!IInv' /\ S!Kv!TypeOK'
  BY <1>1, AccountsKept
<1>3. /\ n_kv \in 0 .. NCtx /\ n_kv = Count /\ Table \in Seq(0 .. (S!FullPages - 1))
      /\ Len(Table) \in Nat
      /\ \A p \in Nat : p < n_kv => (p \div PageTokens) + 1 \in 1 .. Len(Table)
  BY TableFacts
<1>4. /\ s_active' = s_active /\ Count' = Count + 1 /\ Count < NCtx
      /\ \A i \in 1 .. Len(Table) : Table'[i] = Table[i]
  <2>1. /\ s_active' = s_active /\ s_tokens' = [s_tokens EXCEPT ![S!SEQ] = s_tokens[S!SEQ] + 1]
        /\ s_tokens[S!SEQ] < NCtx
        /\ \/ s_pages' = s_pages
           \/ s_pages' = [s_pages EXCEPT ![S!SEQ] = Append(s_pages[S!SEQ], S!Kv!Back(s_free))]
    BY <1>1 DEF S!Kv!AppendInPage, S!Kv!AppendNewPage, S!Kv!Appendable
  <2>2. DOMAIN s_tokens = {S!SEQ} /\ DOMAIN s_pages = {S!SEQ}
    BY DEF KvInv, KP!IInv, KP!TypeOK
  <2>3. Table' = Table \/ Table' = Append(Table, S!Kv!Back(s_free))
    BY <2>1, <2>2 DEF Table
  <2>4. \A i \in 1 .. Len(Table) : Append(Table, S!Kv!Back(s_free))[i] = Table[i]
    BY <1>3
  <2> QED
    BY <2>1, <2>2, <2>3, <2>4 DEF Count
<1>5. n_kv' \in 0 .. NCtx /\ n_kv' - 1 = Count /\ n_kv' > 0 /\ PageTokens \in Nat \ {0}
  BY <1>1, <1>3, <1>4, Geometry
<1>6. /\ Table' \in Seq(0 .. (S!FullPages - 1)) /\ Len(Table') \in Nat
      /\ (Count \div PageTokens) + 1 \in 1 .. Len(Table')
  <2>1. Table' \in Seq(0 .. (S!FullPages - 1)) /\ Len(Table') \in Nat
    BY <1>2 DEF KP!IInv, KP!TypeOK, KP!Pages, Table
  <2>2. /\ Count' <= Len(Table') * PageTokens
        /\ Len(Table') * PageTokens < Count' + PageTokens
    <3>1. S!SEQ \in s_active'
      BY <1>1, <1>4 DEF KvInv, HostInv
    <3> QED
      BY <1>2, <3>1 DEF KP!IInv, KP!WasteBounded, Table, Count
  <2>3. Count' \in 0 .. NCtx /\ Count < Count' /\ Count \in Nat
    BY <1>1, <1>3, <1>4, <1>5
  <2> QED
    BY <2>1, <2>2, <2>3, TableFits
<1>7. page' \in 0 .. (S!FullPages - 1) /\ slot' \in 0 .. (PageTokens - 1)
  <2>1. page' \in 0 .. (S!FullPages - 1)
    BY <1>1, <1>6, ElementOfSeq
  <2>2. Count % PageTokens \in 0 .. (PageTokens - 1)
    BY <1>3, <1>5
  <2> QED
    BY <1>1, <2>1, <2>2
<1>8. S!TypeOK'
  BY <1>1, <1>2, <1>5, <1>7 DEF KvInv, S!TypeOK
<1>9. HostInv'
  BY <1>1, <1>3, <1>4 DEF KvInv, HostInv
<1>10. LastPlace'
  BY <1>1, <1>5 DEF LastPlace
<1>11. CellShape' /\ TableInv'
  BY <1>1 DEF KvInv, CellShape, TableInv
<1>12. KeysInv'
  <2> SUFFICES ASSUME NEW b \in S!Blocks, NEW p \in Nat, Kept(b, p)'
               PROVE  cells[b][PageAt(b, p)'][p % PageTokens] = <<sequence, p>>
    BY <1>1 DEF KeysInv
  <2>1. Written(b)' = n_kv /\ Written(b) = n_kv
    BY <1>1, <1>3, <1>5 DEF Written
  <2>2. Kept(b, p) /\ p < n_kv
    BY <2>1 DEF Kept
  <2>3. PageAt(b, p)' = PageAt(b, p)
    BY <1>3, <1>4, <2>2 DEF PageAt
  <2> QED
    BY <1>1, <2>2, <2>3 DEF KvInv, KeysInv
<1>13. S!AttentionSeesItsOwn'
  BY <1>1, StillSeen
<1> QED
  BY <1>2, <1>8, <1>9, <1>10, <1>11, <1>12, <1>13 DEF KvInv

\* The context is full, or the pages are.
LEMMA AppendRefusedKeeps == KvInv /\ S!AppendRefused => KvInv'
<1> SUFFICES ASSUME KvInv, S!AppendRefused PROVE KvInv'
  OBVIOUS
<1>1. /\ s_pc' = "failed" /\ UNCHANGED S!kv
      /\ UNCHANGED <<s_free, s_active, s_pages, s_tokens, begun, n_kv, table_host, block_table,
                     cells, attn, s_block, page, slot, sequence>>
  BY DEF S!AppendRefused, S!kv, S!host, S!device
<1>2. KP!IInv' /\ S!Kv!TypeOK'
  BY <1>1, AccountsKept
<1>3. S!TypeOK' /\ CellShape' /\ HostInv' /\ LastPlace' /\ TableInv' /\ KeysInv'
  BY <1>1, <1>2 DEF KvInv, S!TypeOK, CellShape, HostInv, LastPlace, TableInv, KeysInv, Table, Count
<1>4. S!AttentionSeesItsOwn'
  BY <1>1, StillSeen
<1> QED
  BY <1>2, <1>3, <1>4 DEF KvInv

\* The table was not uploaded, and there are no more decodes.
LEMMA UploadTableFailsKeeps == KvInv /\ S!UploadTableFails => KvInv'
<1> SUFFICES ASSUME KvInv, S!UploadTableFails PROVE KvInv'
  OBVIOUS
<1>1. /\ s_pc = "table" /\ s_pc' = "failed" /\ UNCHANGED S!kv /\ table_host' = Table
      /\ UNCHANGED <<s_free, s_active, s_pages, s_tokens, begun, n_kv, block_table,
                     cells, attn, s_block, page, slot, sequence>>
  BY DEF S!UploadTableFails, S!kv, S!device, Table
<1>2. KP!IInv' /\ S!Kv!TypeOK'
  BY <1>1, AccountsKept
<1>3. table_host' \in Seq(0 .. (S!FullPages - 1))
  BY <1>1, TableFacts
<1>4. S!TypeOK' /\ CellShape' /\ HostInv' /\ LastPlace' /\ TableInv' /\ KeysInv'
  BY <1>1, <1>2, <1>3
     DEF KvInv, S!TypeOK, CellShape, HostInv, LastPlace, TableInv, KeysInv, Table, Count
<1>5. S!AttentionSeesItsOwn'
  BY <1>1, StillSeen
<1> QED
  BY <1>2, <1>4, <1>5 DEF KvInv

\* With the table on the device, the blocks begin with the token to come in none of them.
LEMMA TableUploaded ==
  ASSUME KvInv, s_pc = "table", s_pc' = "block", s_block' = 0,
         UNCHANGED <<s_free, s_active, s_pages, s_tokens, begun, n_kv, cells, attn, page, slot, sequence>>,
         table_host' = Table, block_table' \in [0 .. (S!FullPages - 1) -> 0 .. S!FullPages],
         \A i \in 1 .. Len(Table) : block_table'[i - 1] = Table[i]
  PROVE  KvInv'
<1>1. KP!IInv' /\ S!Kv!TypeOK'
  <2>1. UNCHANGED S!kv
    BY DEF S!kv
  <2> QED
    BY <2>1, AccountsKept
<1>2. begun /\ n_kv > 0 /\ 0 \in S!Blocks
  BY Geometry DEF KvInv, HostInv, LastPlace, S!Blocks
<1>3. n_kv \in 0 .. NCtx /\ Table \in Seq(0 .. (S!FullPages - 1))
  BY TableFacts
<1>4. CellShape' /\ HostInv' /\ LastPlace' /\ TableInv'
  BY <1>2 DEF KvInv, CellShape, HostInv, LastPlace, TableInv, Table, Count
<1>5. KeysInv'
  <2> SUFFICES ASSUME NEW b \in S!Blocks, NEW p \in Nat, Kept(b, p)'
               PROVE  cells[b][PageAt(b, p)'][p % PageTokens] = <<sequence, p>>
    BY DEF KeysInv
  <2>1. Written(b)' = n_kv - 1 /\ Written(b) = n_kv - 1
    BY Geometry DEF Written, S!Blocks
  <2>2. Kept(b, p) /\ PageAt(b, p)' = PageAt(b, p)
    BY <2>1 DEF Kept, PageAt, Table
  <2> QED
    BY <2>2 DEF KvInv, KeysInv
<1>6. S!TypeOK'
  <2>1. n_kv - 1 \in Nat /\ n_kv - 1 < n_kv
    BY <1>2, <1>3
  <2>2. PageAt(0, n_kv - 1) \in 0 .. (S!PagesOf(0) - 1)
    BY <1>2, <2>1, PageRange
  <2>3. S!KvPage(0)' = PageAt(0, n_kv - 1)
    BY DEF S!KvPage, PageAt, KvInv, LastPlace
  <2>4. DOMAIN cells'[0] = 0 .. (S!PagesOf(0) - 1)
    BY <1>2 DEF KvInv, S!TypeOK
  <2>5. S!KvPage(s_block)' \in DOMAIN cells'[s_block']
    BY <2>2, <2>3, <2>4 DEF S!KvPage
  <2> QED
    BY <1>1, <1>2, <1>3, <2>5 DEF KvInv, S!TypeOK
<1>7. S!AttentionSeesItsOwn'
  BY StillSeen
<1> QED
  BY <1>1, <1>4, <1>5, <1>6, <1>7 DEF KvInv

\* The table on the device is the host's already.
LEMMA TableIsCurrentKeeps == KvInv /\ S!TableIsCurrent => KvInv'
<1> SUFFICES ASSUME KvInv, S!TableIsCurrent PROVE KvInv'
  OBVIOUS
<1>1. /\ s_pc = "table" /\ s_pc' = "block" /\ s_block' = 0 /\ table_host = Table
      /\ UNCHANGED <<s_free, s_active, s_pages, s_tokens, begun, n_kv, cells, attn, page, slot, sequence>>
      /\ UNCHANGED <<table_host, block_table>>
  BY DEF S!TableIsCurrent, S!kv, S!host, S!device, Table
<1>2. /\ block_table' \in [0 .. (S!FullPages - 1) -> 0 .. S!FullPages]
      /\ \A i \in 1 .. Len(Table) : block_table'[i - 1] = Table[i]
  BY <1>1 DEF KvInv, S!TypeOK, TableInv
<1> QED
  BY <1>1, <1>2, TableUploaded

\* The table is uploaded, the pages it gained last.
LEMMA UploadTableKeeps == KvInv /\ S!UploadTable => KvInv'
<1> SUFFICES ASSUME KvInv, S!UploadTable PROVE KvInv'
  OBVIOUS
<1>1. /\ s_pc = "table" /\ s_pc' = "block" /\ s_block' = 0 /\ table_host' = Table
      /\ block_table' = S!Uploaded(Table)
      /\ UNCHANGED <<s_free, s_active, s_pages, s_tokens, begun, n_kv, cells, attn, page, slot, sequence>>
  BY DEF S!UploadTable, S!kv, Table
<1>2. /\ Table \in Seq(0 .. (S!FullPages - 1)) /\ Len(Table) \in Nat /\ Len(Table) <= S!FullPages
      /\ S!FullPages \in Nat \ {0}
      /\ block_table \in [0 .. (S!FullPages - 1) -> 0 .. S!FullPages]
  BY TableFacts, Geometry DEF KvInv, S!TypeOK
<1>3. block_table' = [i \in 0 .. (S!FullPages - 1) |->
                        IF i < Len(Table) THEN Table[i + 1] ELSE block_table[i]]
  BY <1>1, <1>2 DEF S!Uploaded
<1>4. block_table' \in [0 .. (S!FullPages - 1) -> 0 .. S!FullPages]
  <2>1. \A i \in 0 .. (S!FullPages - 1) : i < Len(Table) => Table[i + 1] \in 0 .. S!FullPages
    <3> SUFFICES ASSUME NEW i \in 0 .. (S!FullPages - 1), i < Len(Table)
                 PROVE  Table[i + 1] \in 0 .. S!FullPages
      OBVIOUS
    <3>1. i + 1 \in 1 .. Len(Table)
      BY <1>2
    <3>2. Table[i + 1] \in 0 .. (S!FullPages - 1)
      BY <1>2, <3>1, ElementOfSeq
    <3> QED
      BY <1>2, <3>2
  <2> QED
    BY <1>2, <1>3, <2>1
<1>5. \A i \in 1 .. Len(Table) : block_table'[i - 1] = Table[i]
  BY <1>2, <1>3
<1> QED
  BY <1>1, <1>4, <1>5, TableUploaded

\* The cells once block b has written the token's key, and what they hold of it.
LEMMA StoredCells ==
  ASSUME KvInv, s_pc = "block"
  PROVE  LET b == s_block
             st == S!Stored(b)
         IN  /\ b \in S!Blocks /\ begun /\ n_kv \in Nat \ {0}
             /\ DOMAIN st = S!Blocks /\ \A c \in S!Blocks : c # b => st[c] = cells[c]
             /\ DOMAIN st[b] = 0 .. (S!PagesOf(b) - 1)
             /\ \A g \in 0 .. (S!PagesOf(b) - 1) : DOMAIN st[b][g] = 0 .. (PageTokens - 1)
             /\ \A p \in Nat : p < n_kv /\ (S!Windowed(b) => n_kv <= p + Ring) =>
                  st[b][PageAt(b, p)][p % PageTokens] = <<sequence, p>>
<1> DEFINE b == s_block
           st == S!Stored(b)
           last == n_kv - 1
           v == <<sequence, last>>
           at_g == PageAt(b, last)
           at_s == last % PageTokens
<1>1. /\ b \in S!Blocks /\ begun /\ n_kv \in Nat \ {0} /\ last \in Nat /\ last < n_kv
      /\ page = Table[(last \div PageTokens) + 1] /\ slot = at_s
  BY TableFacts DEF KvInv, S!TypeOK, HostInv, LastPlace
<1>2. S!KvPage(b) = at_g
  BY <1>1 DEF S!KvPage, PageAt
<1>3. at_g \in 0 .. (S!PagesOf(b) - 1) /\ at_s \in 0 .. (PageTokens - 1)
  BY <1>1, PageRange
<1>4. st = [cells EXCEPT ![b][at_g][at_s] = v]
  BY <1>1, <1>2 DEF S!Stored
<1>5. /\ DOMAIN cells = S!Blocks /\ DOMAIN cells[b] = 0 .. (S!PagesOf(b) - 1)
      /\ \A g \in 0 .. (S!PagesOf(b) - 1) : DOMAIN cells[b][g] = 0 .. (PageTokens - 1)
  BY <1>1 DEF KvInv, S!TypeOK, CellShape
<1>k. /\ \A p \in Nat : Kept(b, p) => cells[b][PageAt(b, p)][p % PageTokens] = <<sequence, p>>
      /\ Written(b) = n_kv - 1
  <2>1. b >= s_block
    BY <1>1, Geometry DEF S!Blocks
  <2> QED
    BY <1>1, <2>1 DEF KvInv, KeysInv, Written
<1> HIDE DEF b, st, v, at_g, at_s
<1>6. /\ DOMAIN st = S!Blocks /\ \A c \in S!Blocks : c # b => st[c] = cells[c]
      /\ st[b] = [cells[b] EXCEPT ![at_g][at_s] = v]
  BY <1>1, <1>4, <1>5
<1>7. /\ DOMAIN st[b] = 0 .. (S!PagesOf(b) - 1)
      /\ \A g \in 0 .. (S!PagesOf(b) - 1) : g # at_g => st[b][g] = cells[b][g]
      /\ st[b][at_g] = [cells[b][at_g] EXCEPT ![at_s] = v]
  BY <1>3, <1>5, <1>6
<1>8. /\ DOMAIN st[b][at_g] = 0 .. (PageTokens - 1) /\ st[b][at_g][at_s] = v
      /\ \A s \in 0 .. (PageTokens - 1) : s # at_s => st[b][at_g][s] = cells[b][at_g][s]
  BY <1>3, <1>5, <1>7
<1>9. \A g \in 0 .. (S!PagesOf(b) - 1) : DOMAIN st[b][g] = 0 .. (PageTokens - 1)
  BY <1>5, <1>7, <1>8
<1>10. ASSUME NEW p \in Nat, p < n_kv, S!Windowed(b) => n_kv <= p + Ring
       PROVE  st[b][PageAt(b, p)][p % PageTokens] = <<sequence, p>>
  <2>1. CASE p = last
    BY <1>8, <2>1 DEF v, at_g, at_s
  <2>2. CASE p # last
    <3>1. p < last /\ Ring \in Nat /\ (S!Windowed(b) => last < p + Ring /\ n_kv - 1 <= p + Ring)
      BY <1>1, <1>10, <2>2, Geometry DEF Ring
    <3>2. cells[b][PageAt(b, p)][p % PageTokens] = <<sequence, p>>
      BY <1>k, <3>1 DEF Kept
    <3>3. PageAt(b, p) \in 0 .. (S!PagesOf(b) - 1) /\ p % PageTokens \in 0 .. (PageTokens - 1)
      BY <1>1, <1>10, PageRange
    <3>4. p % PageTokens = at_s => PageAt(b, p) # at_g
      BY <1>1, <3>1, OwnPlaces DEF at_g, at_s
    <3> DEFINE g == PageAt(b, p)
               s == p % PageTokens
    <3>5. /\ g \in 0 .. (S!PagesOf(b) - 1) /\ s \in 0 .. (PageTokens - 1)
          /\ g # at_g \/ s # at_s
      BY <3>3, <3>4
    <3> HIDE DEF g, s
    <3>6. st[b][g][s] = cells[b][g][s]
      BY <1>7, <1>8, <3>5
    <3> QED
      BY <3>2, <3>6 DEF g, s
  <2> QED
    BY <2>1, <2>2
<1>11. /\ b \in S!Blocks /\ begun /\ n_kv \in Nat \ {0}
       /\ DOMAIN st = S!Blocks /\ \A c \in S!Blocks : c # b => st[c] = cells[c]
       /\ DOMAIN st[b] = 0 .. (S!PagesOf(b) - 1)
       /\ \A g \in 0 .. (S!PagesOf(b) - 1) : DOMAIN st[b][g] = 0 .. (PageTokens - 1)
       /\ \A p \in Nat : p < n_kv /\ (S!Windowed(b) => n_kv <= p + Ring) =>
            st[b][PageAt(b, p)][p % PageTokens] = <<sequence, p>>
  BY <1>1, <1>6, <1>7, <1>9, <1>10
<1> QED
  BY <1>11 DEF b, st

\* A windowed block still has every position the window shows.
LEMMA WindowKept ==
  ASSUME KvInv, NEW b \in S!Blocks, S!Windowed(b), n_kv \in Nat \ {0},
         NEW p \in Nat, S!KvBegin(b) <= p, p < n_kv
  PROVE  n_kv <= p + Ring
<1>1. /\ NSwa \in Nat \ {0} /\ n_kv \in Nat /\ n_kv <= NCtx /\ NCtx \in Nat
      /\ NCtx <= S!FullPages * PageTokens
      /\ NSwa <= Ring \/ S!SwaPages = S!FullPages
      /\ S!FullPages \in Nat /\ PageTokens \in Nat /\ S!SwaPages \in Nat
  BY Geometry, TableFacts
<1>2. Ring \in Nat
  BY <1>1 DEF Ring
<1>3. CASE NSwa <= Ring
  <2>1. S!KvBegin(b) = IF n_kv > NSwa THEN n_kv - NSwa ELSE 0
    BY DEF S!KvBegin
  <2> QED
    BY <1>1, <1>2, <1>3, <2>1
<1>4. CASE S!SwaPages = S!FullPages
  <2>1. NCtx <= Ring
    BY <1>1, <1>4 DEF Ring
  <2> QED
    BY <1>1, <1>2, <2>1
<1> QED
  BY <1>1, <1>3, <1>4

\* A block writes the token's key and reads the others'.
LEMMA AttendKeeps == KvInv /\ S!Attend => KvInv'
<1> SUFFICES ASSUME KvInv, S!Attend PROVE KvInv'
  OBVIOUS
<1> DEFINE b == s_block
           st == S!Stored(b)
<1>1. /\ s_pc = "block" /\ cells' = st /\ attn' = S!Attended(st, b)
      /\ s_block' = IF b = NBlock - 1 THEN 0 ELSE b + 1
      /\ s_pc' = IF b = NBlock - 1 THEN "idle" ELSE "block"
      /\ UNCHANGED S!kv
      /\ UNCHANGED <<s_free, s_active, s_pages, s_tokens, begun, n_kv, table_host, block_table,
                     page, slot, sequence>>
  BY DEF S!Attend, S!kv, S!host
<1>2. KP!IInv' /\ S!Kv!TypeOK'
  BY <1>1, AccountsKept
<1>3. /\ b \in S!Blocks /\ begun /\ n_kv \in Nat \ {0}
      /\ DOMAIN st = S!Blocks /\ \A c \in S!Blocks : c # b => st[c] = cells[c]
      /\ DOMAIN st[b] = 0 .. (S!PagesOf(b) - 1)
      /\ \A g \in 0 .. (S!PagesOf(b) - 1) : DOMAIN st[b][g] = 0 .. (PageTokens - 1)
      /\ \A p \in Nat : p < n_kv /\ (S!Windowed(b) => n_kv <= p + Ring) =>
           st[b][PageAt(b, p)][p % PageTokens] = <<sequence, p>>
  BY <1>1, StoredCells
<1>4. b \in 0 .. (NBlock - 1) /\ NBlock \in Nat \ {0} /\ S!Blocks = 0 .. (NBlock - 1)
  BY <1>3, Geometry DEF S!Blocks
<1> HIDE DEF st
<1>5. s_block' \in S!Blocks
  BY <1>1, <1>4
<1>6. CellShape' /\ HostInv' /\ LastPlace' /\ TableInv'
  <2>1. CellShape'
    <3> SUFFICES ASSUME NEW c \in S!Blocks, NEW g \in 0 .. (S!PagesOf(c) - 1)
                 PROVE  DOMAIN st[c][g] = 0 .. (PageTokens - 1)
      BY <1>1 DEF CellShape
    <3>1. CASE c = b
      BY <1>3, <3>1
    <3>2. CASE c # b
      BY <1>3, <3>2 DEF KvInv, CellShape
    <3> QED
      BY <3>1, <3>2
  <2>2. HostInv' /\ LastPlace' /\ TableInv'
    BY <1>1 DEF KvInv, HostInv, LastPlace, TableInv, Table, Count
  <2> QED
    BY <2>1, <2>2
<1>7. KeysInv'
  <2> SUFFICES ASSUME NEW c \in S!Blocks, NEW p \in Nat, Kept(c, p)'
               PROVE  st[c][PageAt(c, p)][p % PageTokens] = <<sequence, p>>
    BY <1>1 DEF KeysInv, PageAt, Table
  <2>1. CASE c = b
    <3>1. Written(c)' = n_kv
      BY <1>1, <1>4, <2>1 DEF Written
    <3>2. p < n_kv /\ (S!Windowed(b) => n_kv <= p + Ring)
      BY <2>1, <3>1 DEF Kept
    <3> QED
      BY <1>3, <2>1, <3>2
  <2>2. CASE c # b
    <3>1. Written(c)' = Written(c)
      <4>1. c \in 0 .. (NBlock - 1) /\ c \in Int /\ b \in Int
        BY <1>4
      <4>2. CASE b = NBlock - 1
        <5>1. c < b
          BY <1>4, <2>2, <4>1, <4>2
        <5> QED
          BY <1>1, <4>1, <4>2, <5>1 DEF Written
      <4>3. CASE b # NBlock - 1
        <5>1. c >= b + 1 <=> c >= b
          BY <1>4, <2>2, <4>1
        <5> QED
          BY <1>1, <4>3, <5>1 DEF Written
      <4> QED
        BY <4>2, <4>3
    <3>2. Kept(c, p)
      BY <3>1 DEF Kept
    <3>3. cells[c][PageAt(c, p)][p % PageTokens] = <<sequence, p>>
      BY <1>1, <3>2 DEF KvInv, KeysInv
    <3> QED
      BY <1>3, <2>2, <3>3
  <2> QED
    BY <2>1, <2>2
<1>8. S!TypeOK'
  <2>1. DOMAIN cells' = S!Blocks /\ \A c \in S!Blocks : DOMAIN cells'[c] = 0 .. (S!PagesOf(c) - 1)
    BY <1>1, <1>3 DEF KvInv, S!TypeOK
  <2>2. S!KvPage(s_block)' \in DOMAIN cells'[s_block']
    <3>1. n_kv - 1 \in Nat /\ n_kv - 1 < n_kv
      BY <1>3
    <3>2. PageAt(s_block', n_kv - 1) \in 0 .. (S!PagesOf(s_block') - 1)
      BY <1>5, <3>1, PageRange
    <3>3. S!KvPage(s_block)' = PageAt(s_block', n_kv - 1)
      BY <1>1 DEF S!KvPage, PageAt, KvInv, LastPlace
    <3> QED
      BY <1>5, <2>1, <3>2, <3>3
  <2>3. s_pc' \in {"idle", "append", "table", "block", "failed"}
    BY <1>1
  <2> QED
    BY <1>1, <1>2, <1>5, <2>1, <2>2, <2>3 DEF KvInv, S!TypeOK
<1>9. S!AttentionSeesItsOwn'
  <2>1. attn' = [block |-> b, keys |-> [p \in S!KvBegin(b) .. (n_kv - 1) |-> S!Key(st, b, p)]]
    BY <1>1 DEF S!Attended
  <2>2. NSwa \in Nat \ {0}
    BY Geometry
  <2>3. S!KvBegin(b) \in Nat
    BY <1>3, <2>2 DEF S!KvBegin
  <2>4. \A p \in Int : p \in S!KvBegin(b) .. (n_kv - 1) <=>
                         p \in 0 .. (n_kv - 1) /\ (S!Windowed(b) => (n_kv - 1) - p < NSwa)
    BY <1>3, <2>2 DEF S!KvBegin
  <2>5. S!KvBegin(b) .. (n_kv - 1) =
          {q \in 0 .. (n_kv - 1) : S!Windowed(b) => (n_kv - 1) - q < NSwa}
    BY <1>3, <2>3, <2>4
  <2>6. ASSUME NEW p \in S!KvBegin(b) .. (n_kv - 1) PROVE S!Key(st, b, p) = <<sequence, p>>
    <3>1. p \in Nat /\ S!KvBegin(b) <= p /\ p < n_kv
      BY <1>3, <2>3
    <3>2. S!Windowed(b) => n_kv <= p + Ring
      BY <1>3, <3>1, WindowKept
    <3>3. st[b][PageAt(b, p)][p % PageTokens] = <<sequence, p>>
      BY <1>3, <3>1, <3>2
    <3>4. PageAt(b, p) \in 0 .. (S!PagesOf(b) - 1)
      BY <1>3, <3>1, PageRange
    <3>5. S!TablePage(b, p) = PageAt(b, p)
      <4>1. CASE S!Windowed(b)
        BY <4>1 DEF S!TablePage, PageAt
      <4>2. CASE ~S!Windowed(b)
        <5> DEFINE a == p \div PageTokens
        <5>0. (p \div PageTokens) + 1 \in 1 .. Len(Table) /\ Len(Table) \in Nat
          <6>1. p \in 0 .. (n_kv - 1)
            BY <1>3, <3>1
          <6> QED
            BY <6>1, <1>1, TableFacts
        <5>1. a + 1 \in 1 .. Len(Table) /\ a \in Int /\ Len(Table) \in Nat
          BY <5>0, <3>1, Geometry
        <5>2. table_host = Table /\ \A i \in 1 .. Len(table_host) : block_table[i - 1] = table_host[i]
          BY <1>1 DEF KvInv, TableInv
        <5> HIDE DEF a
        <5>3. (a + 1) - 1 = a
          BY <5>1
        <5>4. block_table[a] = Table[a + 1]
          BY <5>1, <5>2, <5>3
        <5> QED
          BY <4>2, <5>4 DEF S!TablePage, PageAt, a
      <4> QED
        BY <4>1, <4>2
    <3> QED
      BY <1>3, <3>3, <3>4, <3>5 DEF S!Key
  <2>7. attn'.block = b /\ attn'.keys = [p \in S!KvBegin(b) .. (n_kv - 1) |-> <<sequence, p>>]
    BY <2>1, <2>6
  <2>8. {q \in 0 .. (n_kv - 1) : S!Windowed(b) => (n_kv - 1) - q < NSwa} =
          {q \in 0 .. (n_kv' - 1) : S!Visible(attn.block, q)'}
    BY <1>1, <2>7 DEF S!Visible
  <2> QED
    BY <1>1, <2>5, <2>7, <2>8 DEF S!AttentionSeesItsOwn, S!Visible
<1> QED
  BY <1>2, <1>6, <1>7, <1>8, <1>9 DEF KvInv

\* A block fails with its key written or not, and there are no more decodes.
LEMMA BlockFailsKeeps == KvInv /\ S!BlockFails => KvInv'
<1> SUFFICES ASSUME KvInv, S!BlockFails PROVE KvInv'
  OBVIOUS
<1> DEFINE b == s_block
           st == S!Stored(b)
<1>1. /\ s_pc = "block" /\ cells' \in {cells, st} /\ s_pc' = "failed" /\ UNCHANGED S!kv
      /\ UNCHANGED <<s_free, s_active, s_pages, s_tokens, begun, n_kv, table_host, block_table,
                     attn, s_block, page, slot, sequence>>
  BY DEF S!BlockFails, S!kv, S!host
<1>2. KP!IInv' /\ S!Kv!TypeOK'
  BY <1>1, AccountsKept
<1>3. /\ b \in S!Blocks
      /\ DOMAIN st = S!Blocks /\ \A c \in S!Blocks : c # b => st[c] = cells[c]
      /\ DOMAIN st[b] = 0 .. (S!PagesOf(b) - 1)
      /\ \A g \in 0 .. (S!PagesOf(b) - 1) : DOMAIN st[b][g] = 0 .. (PageTokens - 1)
  BY <1>1, StoredCells
<1> HIDE DEF b, st
<1>4. /\ DOMAIN cells = S!Blocks /\ \A c \in S!Blocks : DOMAIN cells[c] = 0 .. (S!PagesOf(c) - 1)
      /\ \A c \in S!Blocks : \A g \in 0 .. (S!PagesOf(c) - 1) : DOMAIN cells[c][g] = 0 .. (PageTokens - 1)
  BY DEF KvInv, S!TypeOK, CellShape
<1>5. /\ DOMAIN cells' = S!Blocks /\ \A c \in S!Blocks : DOMAIN cells'[c] = 0 .. (S!PagesOf(c) - 1)
      /\ \A c \in S!Blocks : \A g \in 0 .. (S!PagesOf(c) - 1) : DOMAIN cells'[c][g] = 0 .. (PageTokens - 1)
  <2>1. CASE cells' = cells
    BY <1>4, <2>1
  <2>2. CASE cells' = st
    BY <1>3, <1>4, <2>2
  <2> QED
    BY <1>1, <2>1, <2>2
<1>6. S!TypeOK'
  BY <1>1, <1>2, <1>5 DEF KvInv, S!TypeOK
<1>7. CellShape'
  BY <1>5 DEF CellShape
<1>8. HostInv' /\ LastPlace' /\ TableInv' /\ KeysInv'
  BY <1>1 DEF KvInv, HostInv, LastPlace, TableInv, KeysInv, Table, Count
<1>9. S!AttentionSeesItsOwn'
  BY <1>1, StillSeen
<1> QED
  BY <1>2, <1>6, <1>7, <1>8, <1>9 DEF KvInv

\* A reset takes the sequence's pages back and leaves its keys where they are.
LEMMA ResetKeeps == KvInv /\ S!Reset => KvInv'
<1> SUFFICES ASSUME KvInv, S!Reset PROVE KvInv'
  OBVIOUS
<1>1. /\ sequence < MaxSequences /\ (IF begun THEN S!Kv!End(S!SEQ) ELSE UNCHANGED S!kv)
      /\ begun' = FALSE /\ n_kv' = 0 /\ table_host' = <<>>
      /\ s_pc' = "idle" /\ sequence' = sequence + 1 /\ attn' = S!Unread
      /\ UNCHANGED <<block_table, cells, s_block, page, slot>>
  BY DEF S!Reset
<1>2. KP!IInv' /\ S!Kv!TypeOK'
  BY <1>1, AccountsKept
<1>3. S!SEQ \notin s_active' /\ Table' = <<>> /\ Count' = 0
  <2>1. CASE begun
    <3>1. /\ s_active' = s_active \ {S!SEQ}
          /\ s_pages' = [s_pages EXCEPT ![S!SEQ] = <<>>] /\ s_tokens' = [s_tokens EXCEPT ![S!SEQ] = 0]
      BY <1>1, <2>1 DEF S!Kv!End
    <3>2. DOMAIN s_tokens = {S!SEQ} /\ DOMAIN s_pages = {S!SEQ}
      BY DEF KvInv, KP!IInv, KP!TypeOK
    <3> QED
      BY <3>1, <3>2 DEF Table, Count
  <2>2. CASE ~begun
    BY <1>1, <2>2 DEF KvInv, HostInv, S!kv, Table, Count
  <2> QED
    BY <2>1, <2>2
<1>4. /\ 0 \in 0 .. NCtx /\ sequence' \in 1 .. MaxSequences
      /\ table_host' \in Seq(0 .. (S!FullPages - 1)) /\ Len(table_host') = 0
  <2>1. sequence \in 1 .. MaxSequences /\ MaxSequences \in Nat /\ NCtx \in Nat
    BY Geometry DEF KvInv, S!TypeOK
  <2> QED
    BY <1>1, <2>1
<1>5. S!TypeOK'
  BY <1>1, <1>2, <1>4 DEF KvInv, S!TypeOK
<1>6. CellShape' /\ HostInv' /\ LastPlace' /\ TableInv'
  BY <1>1, <1>3, <1>4 DEF KvInv, CellShape, HostInv, LastPlace, TableInv
<1>7. KeysInv'
  BY <1>1 DEF KeysInv, Kept, Written
<1>8. S!AttentionSeesItsOwn'
  BY <1>1, StillSeen
<1> QED
  BY <1>2, <1>5, <1>6, <1>7, <1>8 DEF KvInv

\* The model moves when it decodes and when it is reset.
LEMMA StepKeepsKeys ==
  KvInv /\ [EngineNext]_<<view, launch, vars, sessions, experts>> => KvInv'
<1> SUFFICES ASSUME KvInv, [EngineNext]_<<view, launch, vars, sessions, experts>>
             PROVE  KvInv'
  OBVIOUS
<1>1. CASE UNCHANGED S!model
  <2>1. /\ UNCHANGED S!kv
        /\ UNCHANGED <<s_free, s_active, s_pages, s_tokens, begun, n_kv, table_host, block_table,
                       cells, attn, s_pc, s_block, page, slot, sequence>>
    BY <1>1 DEF S!model, S!kv, S!host, S!device, S!control
  <2>2. KP!IInv' /\ S!Kv!TypeOK'
    BY <2>1, AccountsKept
  <2>3. S!TypeOK'
    BY <2>1, <2>2 DEF KvInv, S!TypeOK, S!KvPage
  <2>4. CellShape' /\ HostInv' /\ LastPlace' /\ TableInv'
    BY <2>1 DEF KvInv, CellShape, HostInv, LastPlace, TableInv, Table, Count
  <2>5. KeysInv'
    BY <2>1 DEF KvInv, KeysInv, Kept, Written, PageAt, Table
  <2>6. S!AttentionSeesItsOwn'
    BY <2>1, StillSeen
  <2> QED
    BY <2>2, <2>3, <2>4, <2>5, <2>6 DEF KvInv
<1>2. CASE UNCHANGED sessions
  <2>1. UNCHANGED S!model
    BY <1>2 DEF sessions, S!model, S!kv, S!host, S!device, S!control
  <2> QED
    BY <1>1, <2>1
<1>3. CASE S!SessionNext
  <2>1. S!Decode \/ S!Reset \/ UNCHANGED S!model
    <3>1. CASE S!DeviceThread
      BY <3>1 DEF S!DeviceThread, S!Load, S!ThreadEnds, S!TakeReset, S!TakeAsk, S!TakeDecode,
         S!Decoding, S!TakeShutdown
    <3>2. CASE S!ThreadPanics \/ S!Loaded \/ S!LoadFailed \/ S!Drop \/ S!Joined
      BY <3>2 DEF S!ThreadPanics, S!Loaded, S!LoadFailed, S!Drop, S!Joined
    <3>3. CASE \E c \in Callers : S!Begin(c) \/ S!Calling(c) \/ S!CallbackPanics(c)
      BY <3>3 DEF S!Begin, S!Calling, S!CallbackPanics, S!Lock, S!First, S!Feed, S!Receive,
         S!Stops, S!Emits
    <3> QED
      BY <1>3, <3>1, <3>2, <3>3 DEF S!SessionNext
  <2>2. CASE S!Decode
    BY <2>2, BeginSequenceKeeps, AppendTokenKeeps, AppendRefusedKeeps, TableIsCurrentKeeps,
       UploadTableKeeps, UploadTableFailsKeeps, AttendKeeps, BlockFailsKeeps DEF S!Decode
  <2> QED
    BY <1>1, <2>1, <2>2, ResetKeeps
<1> QED
  BY <1>2, <1>3 DEF EngineNext

\* Attention reads the keys of its own sequence at every position it may see and at no other,
\* whatever a reset or a failed decode has left in the pools, however the ring has wrapped, and
\* whenever the thread that decodes dies.
THEOREM AttentionSeesItsOwnHolds == EngineSpec => []AttentionSeesItsOwn
<1>1. EngineInit => KvInv
  BY StartsBlank
<1>2. KvInv /\ [EngineNext]_<<view, launch, vars, sessions, experts>> => KvInv'
  BY StepKeepsKeys
<1>3. KvInv => AttentionSeesItsOwn
  BY DEF KvInv, AttentionSeesItsOwn
<1> QED
  BY <1>1, <1>2, <1>3, PTL DEF EngineSpec
=============================================================================
