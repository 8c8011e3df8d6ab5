---------------------------- MODULE ServerProofs ----------------------------
(***************************************************************************)
(* Proofs about Serving, for any number of requests, plans, sizes of the   *)
(* context and of its batches, any tokens, pieces and stop strings, any    *)
(* start of the server and any use of the binding, and whoever panics.     *)
(*   The link: at most one request is past the lock; what the model holds  *)
(* is decided by where the call of that request is, and so is what is on   *)
(* the two channels.                                                       *)
(*   The streams: what a request has sent and has ready is the beginning   *)
(* of its text, and what could still become a stop string is held back.    *)
(*   The binding: a call's log, memory and timers are its own while it is  *)
(* the only one.  The startup: each stage keeps what was chosen and said.  *)
(***************************************************************************)
EXTENDS Serving, SequenceTheorems, FiniteSetTheorems, WellFoundedInduction, TLAPS

TokenOrRequest == Requests \cup Tokens
Transcript(r) == Prompt(r) \o accepted[r]
OnLink(op, ts) == <<[op |-> op, tokens |-> ts]>>

Types ==
  /\ up \in {"up", "draining", "dropping", "down"} /\ engine \in {"up", "gone"}
  /\ poisoned \in BOOLEAN /\ holder \in Requests \cup {None}
  /\ kv \in Seq(TokenOrRequest) /\ Len(kv) <= NCtx
  /\ pc \in [Requests -> Busy \cup {"absent", "opening", "closing", "closed"}]
  /\ plan \in [Requests -> [kind : Kinds, n : Nat, budget : Nat]]
  /\ accepted \in [Requests -> Seq(Tokens)]
  /\ unread \in [Requests -> 0 .. Buffer] /\ client \in [Requests -> {"open", "left"}]

\* Nothing is under way on the channels.
Quiet == commands = <<>> /\ replies = <<>>
\* The engine died under the call.
Lost == engine = "gone" /\ Quiet

\* Who holds the lock is past it, and nobody else is; the others have accepted nothing.
OneHolder ==
  /\ \A r \in Requests : pc[r] \in Busy <=> holder = r
  /\ \A r \in Requests : pc[r] \notin Busy => accepted[r] = <<>>
  /\ \A r \in Requests : Len(accepted[r]) <= plan[r].budget

\* Without a holder only the last reference's shutdown is on the channels.
Unheld ==
  /\ engine = "gone" => commands = <<>>
  /\ holder = None => /\ replies = <<>>
                      /\ commands # <<>> => up = "dropping" /\ commands = OnLink("shutdown", <<>>)
  /\ up \in {"dropping", "down"} => \A r \in Requests : pc[r] \in {"absent", "closed"}

InReset(r) ==
  pc[r] = "resetting" =>
    /\ accepted[r] = <<>>
    /\ \/ commands = OnLink("reset", <<>>) /\ replies = <<>>
       \/ commands = <<>> /\ replies = <<"done">> /\ kv = <<>>
       \/ Lost

\* The tokens of a decode are what the context lacks of the transcript.
InDecode(r) ==
  pc[r] = "decoding" =>
    /\ accepted[r] = <<>> \/ Len(accepted[r]) < plan[r].budget
    /\ \/ /\ replies = <<>>
          /\ \E ts \in Seq(TokenOrRequest) :
               commands = OnLink("decode", ts) /\ Transcript(r) = kv \o ts
       \/ commands = <<>> /\ replies = <<"logits">> /\ kv = Transcript(r)
       \/ commands = <<>> /\ replies = <<"failed">> /\ IsPrefix(kv, Transcript(r))
       \/ Lost /\ IsPrefix(kv, Transcript(r))

InSample(r) ==
  pc[r] = "sampling" =>
    Quiet /\ kv = Transcript(r) /\ Len(accepted[r]) < plan[r].budget

\* The token just accepted is not in the context yet.
InEmit(r) ==
  pc[r] = "emitting" =>
    Quiet /\ accepted[r] # <<>> /\ Transcript(r) = kv \o <<Last(accepted[r])>>

Phases == \A r \in Requests : InReset(r) /\ InDecode(r) /\ InSample(r) /\ InEmit(r)

IInv == Types /\ OneHolder /\ Unheld /\ Phases

-----------------------------------------------------------------------------
(* Sequences.                                                              *)

\* A sequence extended by part of another is a prefix of it extended by the whole.
LEMMA PrefixOfPart ==
  ASSUME NEW S, NEW s \in Seq(S), NEW t \in Seq(S), NEW n \in 0 .. Len(t)
  PROVE  /\ IsPrefix(s \o SubSeq(t, 1, n), s \o t)
         /\ s \o SubSeq(t, 1, n) \in Seq(S)
<1> DEFINE u == SubSeq(t, 1, n)
           v == s \o t
           w == s \o u
<1>0. Len(s) \in Nat /\ Len(t) \in Nat
  BY LenProperties
<1>1. \A i \in 1 .. n : t[i] \in S
  BY ElementOfSeq
<1>2. u \in Seq(S) /\ Len(u) = n /\ \A i \in 1 .. n : u[i] = t[i]
  BY <1>1, SubSeqProperties
<1>3. /\ v \in Seq(S) /\ Len(v) = Len(s) + Len(t)
      /\ \A i \in 1 .. Len(s) + Len(t) : v[i] = IF i <= Len(s) THEN s[i] ELSE t[i - Len(s)]
  BY ConcatProperties
<1> HIDE DEF u, v
<1>4. /\ w \in Seq(S) /\ Len(w) = Len(s) + Len(u)
      /\ \A i \in 1 .. Len(s) + Len(u) : w[i] = IF i <= Len(s) THEN s[i] ELSE u[i - Len(s)]
  BY <1>2, ConcatProperties
<1> HIDE DEF w
<1>5. Len(w) <= Len(v) /\ Len(w) \in Nat /\ \A i \in 1 .. Len(w) : w[i] = v[i]
  <2>1. Len(w) = Len(s) + n /\ n \in Nat /\ n <= Len(t)
    BY <1>0, <1>2, <1>4
  <2>2. ASSUME NEW i \in 1 .. Len(w)
        PROVE  w[i] = v[i]
    <3>0. i \in 1 .. (Len(s) + Len(t)) /\ i \in 1 .. (Len(s) + Len(u))
      BY <1>0, <1>2, <2>1
    <3>1. CASE i <= Len(s)
      BY <1>3, <1>4, <3>0, <3>1
    <3>2. CASE ~(i <= Len(s))
      <4>1. i - Len(s) \in 1 .. n
        BY <1>0, <2>1, <3>2
      <4>2. w[i] = u[i - Len(s)] /\ v[i] = t[i - Len(s)]
        BY <1>0, <1>2, <1>3, <1>4, <2>1, <3>2
      <4> QED
        BY <1>2, <4>1, <4>2
    <3> QED
      BY <3>1, <3>2
  <2> QED
    BY <1>0, <1>3, <2>1, <2>2
<1>6. SubSeq(w, 1, Len(w)) = SubSeq(v, 1, Len(w))
  <2> DEFINE m == Len(w)
  <2>1. m \in Nat /\ \A i \in 1 .. m : w[i] = v[i]
    BY <1>5
  <2> HIDE DEF m
  <2>2. SubSeq(w, 1, m) = [i \in 1 .. m |-> w[i]] /\ SubSeq(v, 1, m) = [i \in 1 .. m |-> v[i]]
    BY <2>1
  <2>3. [i \in 1 .. m |-> w[i]] = [i \in 1 .. m |-> v[i]]
    BY <2>1, Zenon
  <2> QED
    BY <2>2, <2>3 DEF m
<1>7. IsPrefix(w, v)
  BY <1>5, <1>6 DEF IsPrefix
<1> QED
  BY <1>4, <1>7 DEF u, v, w

\* A sequence is a prefix of its extensions, and of itself.
LEMMA PrefixOfWhole ==
  ASSUME NEW S, NEW s \in Seq(S), NEW t \in Seq(S)
  PROVE  IsPrefix(s, s \o t) /\ s \o t \in Seq(S) /\ IsPrefix(s \o t, s \o t)
<1>1. SubSeq(t, 1, 0) = <<>> /\ s \o <<>> = s /\ SubSeq(t, 1, Len(t)) = t
  BY SubSeqEmpty, SubSeqFull, ConcatEmptySeq
<1>2. 0 \in 0 .. Len(t) /\ Len(t) \in 0 .. Len(t)
  BY LenProperties
<1> QED
  BY <1>1, <1>2, PrefixOfPart

\* A refused decode leaves whole batches of its tokens in the context, or all of them.
LEMMA WholeBatches ==
  ASSUME NEW size \in Nat,
         NEW n \in {k * NBatch : k \in 0 .. (size \div NBatch)} \cup {size}
  PROVE  n \in 0 .. size
<1>1. NBatch \in Nat /\ NBatch > 0
  BY ServerAssumption
<1>2. CASE n = size
  BY <1>2
<1>3. ASSUME NEW k \in 0 .. (size \div NBatch), n = k * NBatch
      PROVE  n \in 0 .. size
  <2> DEFINE q == size \div NBatch
  <2>1. q \in Nat /\ NBatch * q <= size
    BY <1>1
  <2> HIDE DEF q
  <2>2. k \in 0 .. q
    BY <1>3 DEF q
  <2>3. k * NBatch \in Nat /\ k * NBatch <= q * NBatch /\ q * NBatch = NBatch * q
    BY <1>1, <2>1, <2>2
  <2> DEFINE m == k * NBatch
  <2>4. m \in Nat /\ m <= q * NBatch /\ q * NBatch <= size /\ n = m
    BY <1>3, <2>1, <2>3
  <2>5. m \in Nat /\ m <= size /\ n = m
    <3>1. q * NBatch \in Nat
      BY <1>1, <2>1
    <3> DEFINE top == q * NBatch
    <3> HIDE DEF m, top
    <3>2. m <= top /\ top <= size /\ top \in Nat /\ m \in Nat
      BY <2>4, <3>1 DEF top
    <3> QED
      BY <2>4, <3>2
  <2> HIDE DEF m
  <2> QED
    BY <2>5
<1> QED
  BY <1>2, <1>3

\* A prompt and what is generated after it are sequences of the tokens of the link.
LEMMA PromptType ==
  ASSUME Types, NEW r \in Requests
  PROVE  /\ Prompt(r) \in Seq(TokenOrRequest) /\ Len(Prompt(r)) = plan[r].n
         /\ accepted[r] \in Seq(TokenOrRequest) /\ Transcript(r) \in Seq(TokenOrRequest)
<1>1. plan[r].n \in Nat
  BY DEF Types
<1>2. Prompt(r) \in Seq(TokenOrRequest) /\ Len(Prompt(r)) = plan[r].n
  BY <1>1 DEF Prompt, TokenOrRequest
<1>3. accepted[r] \in Seq(TokenOrRequest)
  BY SeqMonotonic DEF Types, TokenOrRequest
<1> QED
  BY <1>2, <1>3, ConcatProperties DEF Transcript
-----------------------------------------------------------------------------
(* How a step may change where a request is.                               *)

\* A step that touches neither the link nor where anyone is.
LEMMA Elsewhere ==
  ASSUME IInv, poisoned' = poisoned,
         UNCHANGED <<up, engine, kv, commands, replies, holder, pc, plan, accepted>>,
         unread' \in [Requests -> 0 .. Buffer], client' \in [Requests -> {"open", "left"}]
  PROVE  IInv'
<1>1. Types'
  BY SMTT(30) DEF IInv, Types, Busy
<1>2. OneHolder' /\ Unheld'
  BY SMTT(30) DEF IInv, OneHolder, Unheld
<1>3. Phases'
  BY DEF IInv, Phases, InReset, InDecode, InSample, InEmit, Quiet, Lost, Transcript, Prompt
<1> QED
  BY <1>1, <1>2, <1>3 DEF IInv

\* The phases of the others are no business of a request that is on its way to the lock
\* or back from it.
LEMMA Outside ==
  ASSUME IInv, NEW r \in Requests, NEW to \in {"opening", "closing", "closed"},
         pc[r] \notin Busy, pc' = [pc EXCEPT ![r] = to],
         pc[r] = "closing" \/ up = "up" \/ pc[r] = "opening", to = "opening" => up = "up",
         plan' \in [Requests -> [kind : Kinds, n : Nat, budget : Nat]],
         \A q \in Requests \ {r} : plan'[q] = plan[q],
         accepted' = [accepted EXCEPT ![r] = <<>>],
         UNCHANGED <<up, engine, kv, commands, replies, holder, poisoned>>,
         unread' \in [Requests -> 0 .. Buffer], client' \in [Requests -> {"open", "left"}]
  PROVE  IInv'
<1>1. Types'
  <2>1. pc' \in [Requests -> Busy \cup {"absent", "opening", "closing", "closed"}]
    BY DEF IInv, Types
  <2>2. accepted' \in [Requests -> Seq(Tokens)]
    <3>1. <<>> \in Seq(Tokens)
      OBVIOUS
    <3> QED
      BY <3>1 DEF IInv, Types
  <2> QED
    BY <2>1, <2>2 DEF IInv, Types
<1>2. \A q \in Requests \ {r} : pc'[q] = pc[q] /\ accepted'[q] = accepted[q]
  BY DEF IInv, Types
<1>3. pc'[r] = to /\ to \notin Busy /\ accepted'[r] = <<>> /\ holder # r
  BY DEF IInv, Types, OneHolder, Busy
<1>4. OneHolder'
  <2>1. \A q \in Requests : pc'[q] \in Busy <=> holder' = q
    BY <1>2, <1>3 DEF IInv, OneHolder
  <2>2. \A q \in Requests : pc'[q] \notin Busy => accepted'[q] = <<>>
    BY <1>2, <1>3 DEF IInv, OneHolder
  <2>3. \A q \in Requests : Len(accepted'[q]) <= plan'[q].budget
    <3>1. Len(<<>>) <= plan'[r].budget
      BY DEF IInv, Types
    <3> QED
      BY <1>2, <1>3, <3>1 DEF IInv, OneHolder
  <2> QED
    BY <2>1, <2>2, <2>3 DEF OneHolder
<1>5. Unheld'
  BY <1>2, <1>3 DEF IInv, Unheld
<1>6. Phases'
  <2> SUFFICES ASSUME NEW q \in Requests
               PROVE  (InReset(q) /\ InDecode(q) /\ InSample(q) /\ InEmit(q))'
    BY SMTT(30) DEF Phases
  <2>1. CASE q = r
    BY SMTT(30), <1>3, <2>1 DEF InReset, InDecode, InSample, InEmit, Busy
  <2>2. CASE q # r
    <3>1. InReset(q) /\ InDecode(q) /\ InSample(q) /\ InEmit(q)
      BY DEF IInv, Phases
    <3>2. pc'[q] = pc[q] /\ accepted'[q] = accepted[q] /\ plan'[q] = plan[q]
      BY <1>2, <2>2
    <3> QED
      BY <3>1, <3>2 DEF InReset, InDecode, InSample, InEmit, Quiet, Lost, Transcript, Prompt
  <2> QED
    BY <2>1, <2>2
<1> QED
  BY <1>1, <1>4, <1>5, <1>6 DEF IInv

\* The call is over: it leaves the link quiet and the lock free.
LEMMA Released ==
  ASSUME IInv, NEW r \in Requests, pc[r] \in Busy, Unlock(r), Goto(r, "closing"),
         commands' = <<>>, replies' = <<>>,
         UNCHANGED <<up, engine, kv, plan, unread, client>>, poisoned' \in BOOLEAN
  PROVE  IInv'
<1>1. holder = r /\ holder' = None /\ None \notin Requests
  BY ServerAssumption DEF IInv, OneHolder, Unlock
<1>2. /\ pc' = [pc EXCEPT ![r] = "closing"] /\ pc' \in [Requests -> Busy \cup {"absent", "opening", "closing", "closed"}]
      /\ accepted' = [accepted EXCEPT ![r] = <<>>] /\ accepted' \in [Requests -> Seq(Tokens)]
  BY DEF IInv, Types, Goto, Unlock
<1>3. Types'
  BY <1>1, <1>2 DEF IInv, Types, Busy
<1>4. \A q \in Requests : pc'[q] \notin Busy /\ accepted'[q] = <<>>
  BY <1>1, <1>2 DEF IInv, Types, OneHolder, Busy
<1>5. OneHolder'
  <2>1. \A q \in Requests : Len(<<>>) <= plan[q].budget
    BY DEF IInv, Types
  <2> QED
    BY <1>1, <1>4, <2>1 DEF OneHolder
<1>6. Unheld'
  <2>1. up \notin {"dropping", "down"}
    BY DEF IInv, Unheld, Busy
  <2> QED
    BY <2>1 DEF Unheld
<1>7. Phases'
  BY <1>4 DEF Phases, InReset, InDecode, InSample, InEmit, Busy
<1> QED
  BY <1>3, <1>5, <1>6, <1>7 DEF IInv

\* The holder is at another point of its call; what the new point needs is up to the step.
LEMMA Inside ==
  ASSUME IInv, NEW r \in Requests, NEW to \in Busy,
         holder' = r, holder \in {r, None}, up \notin {"dropping", "down"},
         pc' = [pc EXCEPT ![r] = to],
         accepted' \in [Requests -> Seq(Tokens)],
         \A q \in Requests \ {r} : accepted'[q] = accepted[q],
         Len(accepted'[r]) <= plan[r].budget,
         engine = "gone" => commands' = <<>>,
         UNCHANGED <<up, engine, kv, plan, poisoned, unread, client>>,
         (InReset(r) /\ InDecode(r) /\ InSample(r) /\ InEmit(r))'
  PROVE  IInv'
<1>1. None \notin Requests
  BY ServerAssumption
<1>2. Types'
  BY DEF IInv, Types, Busy
<1>3. \A q \in Requests \ {r} : pc'[q] \notin Busy /\ accepted'[q] = <<>>
  BY <1>1 DEF IInv, Types, OneHolder
<1>4. pc'[r] = to
  BY DEF IInv, Types
<1>5. OneHolder'
  <2>1. \A q \in Requests \ {r} : Len(accepted'[q]) <= plan[q].budget
    BY DEF IInv, OneHolder
  <2> QED
    BY <1>3, <1>4, <2>1 DEF OneHolder
<1>6. Unheld'
  BY <1>1 DEF Unheld
<1>7. Phases'
  BY <1>3 DEF Phases, InReset, InDecode, InSample, InEmit, Busy
<1> QED
  BY <1>2, <1>5, <1>6, <1>7 DEF IInv
-----------------------------------------------------------------------------
(* The steps of a request.                                                 *)

\* The steps of a request outside the engine: its channel, its client and its arrival.
LEMMA StreamStep ==
  ASSUME IInv, NEW r \in Requests,
         Push(r) \/ Read(r) \/ Leave(r) \/ PushFails(r) \/ Arrive(r) \/ Close(r)
  PROVE  IInv'
<1>0. pc[r] \in Busy \cup {"absent", "opening", "closing", "closed"} /\ Buffer \in Nat
      /\ plan \in [Requests -> [kind : Kinds, n : Nat, budget : Nat]]
      /\ unread \in [Requests -> 0 .. Buffer] /\ client \in [Requests -> {"open", "left"}]
      /\ (pc[r] \notin Busy => accepted[r] = <<>> /\ accepted = [accepted EXCEPT ![r] = <<>>])
      /\ (up \in {"dropping", "down"} => pc[r] \in {"absent", "closed"})
      /\ up \in {"up", "draining", "dropping", "down"}
  BY ServerAssumption DEF IInv, Types, OneHolder, Unheld
<1>1. CASE Push(r)
  <2>1. unread' \in [Requests -> 0 .. Buffer]
    BY <1>0, <1>1 DEF Push
  <2> QED
    BY <1>0, <1>1, <2>1, Elsewhere DEF Push, shared, local
<1>2. CASE Read(r)
  <2>1. unread' \in [Requests -> 0 .. Buffer]
    BY <1>0, <1>2 DEF Read
  <2> QED
    BY <1>0, <1>2, <2>1, Elsewhere DEF Read, shared, local
<1>3. CASE Leave(r)
  <2>1. unread' \in [Requests -> 0 .. Buffer] /\ client' \in [Requests -> {"open", "left"}]
    BY <1>0, <1>3 DEF Leave
  <2> QED
    BY <1>0, <1>3, <2>1, Elsewhere DEF Leave, shared, local
<1>4. CASE PushFails(r)
  <2>1. CASE pc[r] = "opening"
    <3>1. pc' = [pc EXCEPT ![r] = "closing"] /\ pc[r] \notin Busy
      BY <1>4, <2>1 DEF PushFails, Goto, Busy
    <3> QED
      BY <1>0, <1>4, <2>1, <3>1, Outside DEF PushFails, shared
  <2>2. CASE pc[r] # "opening"
    <3>1. pc' = pc
      BY <1>4, <2>2 DEF PushFails, Goto, IInv, Types
    <3> QED
      BY <1>0, <1>4, <3>1, Elsewhere DEF PushFails, shared
  <2> QED
    BY <2>1, <2>2
<1>5. CASE Arrive(r)
  <2>1. PICK p \in Plans[r] : plan' = [plan EXCEPT ![r] = p]
    BY <1>5 DEF Arrive
  <2>2. p \in [kind : Kinds, n : Nat, budget : Nat]
    BY ServerAssumption
  <2>3. /\ plan' \in [Requests -> [kind : Kinds, n : Nat, budget : Nat]]
        /\ \A q \in Requests \ {r} : plan'[q] = plan[q]
    BY <1>0, <2>1, <2>2
  <2>4. pc' = [pc EXCEPT ![r] = "opening"] /\ pc[r] \notin Busy /\ up = "up"
    BY <1>5 DEF Arrive, Goto, Busy
  <2> QED
    BY <1>0, <1>5, <2>3, <2>4, Outside DEF Arrive, shared
<1>6. CASE Close(r)
  <2>1. Blank \in [kind : Kinds, n : Nat, budget : Nat]
    BY DEF Blank, Kinds
  <2>2. /\ plan' \in [Requests -> [kind : Kinds, n : Nat, budget : Nat]]
        /\ \A q \in Requests \ {r} : plan'[q] = plan[q]
        /\ unread' \in [Requests -> 0 .. Buffer] /\ client' \in [Requests -> {"open", "left"}]
    BY <1>0, <1>6, <2>1 DEF Close
  <2>3. pc' = [pc EXCEPT ![r] = "closed"] /\ pc[r] = "closing" /\ pc[r] \notin Busy
    BY <1>6 DEF Close, Goto, Busy
  <2> QED
    BY <1>0, <1>6, <2>2, <2>3, Outside DEF Close, shared
<1> QED
  BY <1>1, <1>2, <1>3, <1>4, <1>5, <1>6

\* What is on the link tells where the holder is.
LEMMA Holding ==
  ASSUME IInv, NEW r \in Requests, pc[r] \in Busy
  PROVE  /\ holder = r /\ up \notin {"dropping", "down"}
         /\ InReset(r) /\ InDecode(r) /\ InSample(r) /\ InEmit(r)
         /\ \A q \in Requests \ {r} : pc[q] \notin Busy
BY DEF IInv, OneHolder, Unheld, Phases, Busy

\* Replies: what is left once the only one is taken.
LEMMA OneReply ==
  ASSUME NEW x, replies = <<x>>, replies' = Tail(replies)
  PROVE  Reply = x /\ replies' = <<>>
BY DEF Reply

\* A call that ends, with whatever outcome, gives the lock back and forgets its tokens.
LEMMA CallEnds ==
  ASSUME IInv, NEW r \in Requests,
         \/ EmptyPrompt(r) \/ DecodeFailed(r) \/ EngineGone(r) \/ StopToken(r)
         \/ Undecodable(r) \/ Finish(r) \/ RequestPanics(r)
         \/ Logits(r) /\ plan[r].budget = 0
  PROVE  IInv'
<1>1. pc[r] \in Busy
  BY DEF EmptyPrompt, DecodeFailed, EngineGone, StopToken, Undecodable, Finish, Emitted,
         RequestPanics, Logits, Answered, Busy
<1>2. /\ holder = r /\ up \notin {"dropping", "down"}
      /\ InReset(r) /\ InDecode(r) /\ InSample(r) /\ InEmit(r)
  BY <1>1, Holding
<1>3. Unlock(r) /\ Goto(r, "closing")
  BY DEF EmptyPrompt, DecodeFailed, EngineGone, StopToken, Undecodable, Finish,
         RequestPanics, Logits, Fail, End
<1>4. UNCHANGED <<up, engine, kv, plan, unread, client>> /\ poisoned' \in BOOLEAN
  BY DEF EmptyPrompt, DecodeFailed, EngineGone, StopToken, Undecodable, Finish,
         RequestPanics, Logits, LinkKept, Kept, IInv, Types
<1>5. commands' = <<>> /\ replies' = <<>>
  <2>1. CASE EmptyPrompt(r)
    <3>1. commands = <<>> /\ replies = <<"done">>
      BY <1>2, <2>1 DEF EmptyPrompt, Answered, InReset, Lost, Quiet
    <3> QED
      BY <2>1, <3>1, OneReply DEF EmptyPrompt, Answered
  <2>2. CASE DecodeFailed(r) \/ Logits(r)
    <3>1. pc[r] = "decoding" /\ replies # <<>> /\ replies' = Tail(replies) /\ commands' = commands
      BY <2>2 DEF DecodeFailed, Logits, Answered
    <3>2. commands = <<>> /\ \E x : replies = <<x>>
      BY <1>2, <3>1 DEF InDecode, Lost, Quiet
    <3> QED
      BY <3>1, <3>2, OneReply
  <2>3. CASE EngineGone(r)
    BY <2>3 DEF EngineGone, IInv, Unheld
  <2>4. CASE StopToken(r) \/ Undecodable(r) \/ RequestPanics(r)
    BY <1>2, <2>4 DEF StopToken, Undecodable, RequestPanics, InSample, Quiet
  <2>5. CASE Finish(r)
    BY <1>2, <2>5 DEF Finish, Emitted, InEmit, Quiet
  <2> QED
    BY <2>1, <2>2, <2>3, <2>4, <2>5
<1> QED
  BY <1>1, <1>3, <1>4, <1>5, Released

\* A request refused before the lock changes nothing of the link.
LEMMA CallRefused ==
  ASSUME IInv, NEW r \in Requests, Refused(r)
  PROVE  IInv'
<1>1. pc[r] = "opening" /\ pc[r] \notin Busy
  BY DEF Refused, Opened, Busy
<1>2. holder # r /\ up \in {"up", "draining", "dropping", "down"} /\ up \notin {"dropping", "down"}
  BY <1>1 DEF IInv, Types, OneHolder, Unheld
<1>3. /\ pc' = [pc EXCEPT ![r] = "closing"] /\ accepted' = [accepted EXCEPT ![r] = <<>>]
      /\ UNCHANGED <<up, engine, kv, commands, replies, holder, poisoned, plan, unread, client>>
  BY <1>2 DEF Refused, Fail, Unlock, Goto, LinkKept, Kept
<1> QED
  BY <1>1, <1>3, Outside DEF IInv, Types

\* The one that takes the lock finds both channels empty and sends the reset.
LEMMA CallLocks ==
  ASSUME IInv, NEW r \in Requests, Lock(r)
  PROVE  IInv'
<1>1. pc[r] = "opening" /\ pc[r] \notin Busy /\ accepted[r] = <<>>
  BY DEF Lock, Opened, Busy, IInv, OneHolder
<1>2. up \notin {"dropping", "down"} /\ holder = None /\ engine = "up" /\ replies = <<>> /\ commands = <<>>
  BY <1>1 DEF IInv, Unheld, Lock, Command
<1>3. commands' = OnLink("reset", <<>>) /\ replies' = <<>> /\ holder' = r
  BY <1>2 DEF Lock, Command, OnLink
<1>4. /\ pc' = [pc EXCEPT ![r] = "resetting"] /\ pc'[r] = "resetting"
      /\ UNCHANGED <<up, engine, kv, plan, poisoned, unread, client, accepted>>
  BY DEF Lock, Goto, LinkKept, Kept, IInv, Types
<1>5. (InReset(r) /\ InDecode(r) /\ InSample(r) /\ InEmit(r))'
  BY <1>1, <1>3, <1>4 DEF InReset, InDecode, InSample, InEmit
<1> QED
  BY <1>2, <1>3, <1>4, <1>5, Inside DEF IInv, Types, OneHolder, Busy

\* The prompt is sent to a context just emptied.
LEMMA CallFeeds ==
  ASSUME IInv, NEW r \in Requests, ResetDone(r)
  PROVE  IInv'
<1>1. pc[r] = "resetting" /\ pc[r] \in Busy /\ engine = "up" /\ replies # <<>>
  BY DEF ResetDone, Answered, Command, Busy
<1>2. /\ holder = r /\ up \notin {"dropping", "down"} /\ InReset(r)
  BY <1>1, Holding
<1>3. accepted[r] = <<>> /\ commands = <<>> /\ replies = <<"done">> /\ kv = <<>>
  BY <1>1, <1>2 DEF InReset, Lost
<1>4. commands' = OnLink("decode", Prompt(r)) /\ replies' = <<>>
  BY <1>3 DEF ResetDone, Command, OnLink, Answered
<1>5. /\ pc' = [pc EXCEPT ![r] = "decoding"] /\ pc'[r] = "decoding"
      /\ UNCHANGED <<up, engine, kv, plan, poisoned, unread, client, accepted, holder>>
  BY DEF ResetDone, Goto, LinkKept, Kept, IInv, Types
<1>6. Prompt(r) \in Seq(TokenOrRequest) /\ Transcript(r) = kv \o Prompt(r)
  BY <1>3, PromptType, ConcatEmptySeq DEF IInv, Transcript
<1>7. Prompt(r)' = Prompt(r) /\ Transcript(r)' = Transcript(r)
  BY <1>5 DEF Prompt, Transcript
<1>8. InDecode(r)'
  BY <1>3, <1>4, <1>5, <1>6, <1>7 DEF InDecode
<1>9. (InReset(r) /\ InSample(r) /\ InEmit(r))'
  BY <1>5 DEF InReset, InSample, InEmit
<1> QED
  BY <1>1, <1>2, <1>4, <1>5, <1>8, <1>9, Inside DEF IInv, Types, OneHolder, Busy

\* With the logits the context holds the whole transcript.
LEMMA CallSamples ==
  ASSUME IInv, NEW r \in Requests, Logits(r), plan[r].budget # 0
  PROVE  IInv'
<1>1. pc[r] = "decoding" /\ pc[r] \in Busy /\ replies # <<>> /\ Reply = "logits"
  BY DEF Logits, Answered, Busy
<1>2. /\ holder = r /\ up \notin {"dropping", "down"} /\ InDecode(r)
  BY <1>1, Holding
<1>3. commands = <<>> /\ replies = <<"logits">> /\ kv = Transcript(r)
  BY <1>1, <1>2 DEF InDecode, Lost, Quiet, Reply
<1>4. Len(accepted[r]) < plan[r].budget
  <2>1. plan[r].budget \in Nat /\ Len(<<>>) = 0
    BY DEF IInv, Types
  <2> QED
    BY <1>1, <1>2, <2>1 DEF InDecode, Logits
<1>5. commands' = <<>> /\ replies' = <<>>
  BY <1>3 DEF Logits, Answered
<1>6. /\ pc' = [pc EXCEPT ![r] = "sampling"] /\ pc'[r] = "sampling"
      /\ UNCHANGED <<up, engine, kv, plan, poisoned, unread, client, accepted, holder>>
  BY DEF Logits, Goto, LinkKept, Kept, IInv, Types
<1>7. Transcript(r)' = Transcript(r)
  BY <1>6 DEF Prompt, Transcript
<1>8. (InReset(r) /\ InDecode(r) /\ InSample(r) /\ InEmit(r))'
  BY <1>3, <1>4, <1>5, <1>6, <1>7 DEF InReset, InDecode, InSample, InEmit, Quiet
<1> QED
  BY <1>2, <1>5, <1>6, <1>8, Inside DEF IInv, Types, OneHolder, Busy

\* The token accepted is what the transcript has and the context lacks.
LEMMA CallAccepts ==
  ASSUME IInv, NEW r \in Requests, OnToken(r)
  PROVE  IInv'
<1>1. pc[r] = "sampling" /\ pc[r] \in Busy
  BY DEF OnToken, Busy
<1>2. /\ holder = r /\ up \notin {"dropping", "down"} /\ InSample(r)
  BY <1>1, Holding
<1>3. Quiet /\ kv = Transcript(r) /\ Len(accepted[r]) < plan[r].budget
  BY <1>1, <1>2 DEF InSample
<1>4. PICK t \in Tokens : accepted' = [accepted EXCEPT ![r] = Append(accepted[r], t)]
  BY DEF OnToken
<1>5. /\ pc' = [pc EXCEPT ![r] = "emitting"] /\ pc'[r] = "emitting"
      /\ UNCHANGED <<up, engine, kv, plan, poisoned, unread, client, holder, commands, replies>>
  BY DEF OnToken, Goto, shared, IInv, Types
<1> DEFINE a == accepted[r]
<1>6. a \in Seq(Tokens) /\ plan[r].budget \in Nat /\ Len(a) \in Nat
  BY DEF IInv, Types
<1>7. /\ Append(a, t) \in Seq(Tokens) /\ Len(Append(a, t)) = Len(a) + 1
      /\ Append(a, t) # <<>> /\ Last(Append(a, t)) = t
  BY <1>6 DEF Last
<1>8. /\ accepted'[r] = Append(a, t) /\ accepted' \in [Requests -> Seq(Tokens)]
      /\ \A q \in Requests \ {r} : accepted'[q] = accepted[q]
  BY <1>4, <1>7 DEF IInv, Types
<1>9. Len(accepted'[r]) <= plan[r].budget
  BY <1>3, <1>6, <1>7, <1>8
<1>10. Prompt(r) \o Append(a, t) = (Prompt(r) \o a) \o <<t>>
  <2>1. /\ Prompt(r) \in Seq(TokenOrRequest) /\ a \in Seq(TokenOrRequest) /\ <<t>> \in Seq(TokenOrRequest)
    BY PromptType DEF IInv, TokenOrRequest
  <2>2. Append(a, t) = a \o <<t>>
    BY <1>6, AppendIsConcat
  <2>3. \A x, y, z \in Seq(TokenOrRequest) : (x \o y) \o z = x \o (y \o z)
    BY ConcatAssociative
  <2> HIDE DEF a
  <2>4. (Prompt(r) \o a) \o <<t>> = Prompt(r) \o (a \o <<t>>)
    BY <2>1, <2>3, Zenon
  <2> QED
    BY <2>2, <2>4
<1>11. Transcript(r)' = kv' \o <<Last(accepted'[r])>>
  <2>1. Transcript(r)' = Prompt(r) \o Append(a, t)
    BY <1>5, <1>8 DEF Prompt, Transcript
  <2> QED
    BY <1>3, <1>5, <1>7, <1>8, <1>10, <2>1 DEF Transcript
<1>12. (InReset(r) /\ InDecode(r) /\ InSample(r) /\ InEmit(r))'
  BY <1>3, <1>5, <1>7, <1>8, <1>11 DEF InReset, InDecode, InSample, InEmit, Quiet
<1>13. engine = "gone" => commands' = <<>>
  BY <1>3, <1>5 DEF Quiet
<1> HIDE DEF a
<1> QED
  BY <1>2, <1>5, <1>8, <1>9, <1>12, <1>13, Inside DEF Busy

\* The call sends the token the context lacks.
LEMMA CallAdvances ==
  ASSUME IInv, NEW r \in Requests, Advance(r)
  PROVE  IInv'
<1>1. pc[r] = "emitting" /\ pc[r] \in Busy /\ engine = "up" /\ Len(accepted[r]) < plan[r].budget
  BY DEF Advance, Emitted, Accepting, Command, Busy
<1>2. /\ holder = r /\ up \notin {"dropping", "down"} /\ InEmit(r)
  BY <1>1, Holding
<1> DEFINE ts == <<Last(accepted[r])>>
<1>3. Quiet /\ accepted[r] # <<>> /\ Transcript(r) = kv \o ts
  BY <1>1, <1>2 DEF InEmit
<1>4. commands' = OnLink("decode", ts) /\ replies' = <<>>
  BY <1>3 DEF Advance, Command, OnLink, Quiet
<1>5. /\ pc' = [pc EXCEPT ![r] = "decoding"] /\ pc'[r] = "decoding"
      /\ UNCHANGED <<up, engine, kv, plan, poisoned, unread, client, accepted, holder>>
  BY DEF Advance, Goto, LinkKept, Kept, IInv, Types
<1>6. ts \in Seq(TokenOrRequest)
  <2>1. accepted[r] \in Seq(TokenOrRequest)
    BY PromptType DEF IInv
  <2>2. Last(accepted[r]) \in TokenOrRequest
    BY <1>3, <2>1 DEF Last
  <2> QED
    BY <2>2
<1>7. Transcript(r)' = Transcript(r)
  BY <1>5 DEF Prompt, Transcript
<1> HIDE DEF ts
<1>8. InDecode(r)'
  BY <1>1, <1>3, <1>4, <1>5, <1>6, <1>7 DEF InDecode
<1>9. (InReset(r) /\ InSample(r) /\ InEmit(r))'
  BY <1>5 DEF InReset, InSample, InEmit
<1> QED
  BY <1>1, <1>2, <1>4, <1>5, <1>8, <1>9, Inside DEF IInv, Types, OneHolder, Busy

-----------------------------------------------------------------------------
(* The steps of the engine's thread and of the server.                     *)

\* A command on the link belongs to the holder, unless it is the shutdown.
LEMMA WhoseCommand ==
  ASSUME IInv, commands # <<>>
  PROVE  /\ engine = "up"
         /\ \/ /\ holder = None /\ up = "dropping" /\ replies = <<>>
               /\ commands = OnLink("shutdown", <<>>)
            \/ \E r \in Requests :
                 /\ holder = r /\ pc[r] = "resetting" /\ accepted[r] = <<>> /\ replies = <<>>
                 /\ commands = OnLink("reset", <<>>)
            \/ \E r \in Requests :
                 /\ holder = r /\ pc[r] = "decoding" /\ replies = <<>>
                 /\ accepted[r] = <<>> \/ Len(accepted[r]) < plan[r].budget
                 /\ \E ts \in Seq(TokenOrRequest) :
                      commands = OnLink("decode", ts) /\ Transcript(r) = kv \o ts
<1>1. engine = "up"
  BY DEF IInv, Types, Unheld
<1>2. CASE holder = None
  BY <1>1, <1>2 DEF IInv, Unheld
<1>3. CASE holder # None
  <2>1. PICK r \in Requests : holder = r
    BY <1>3 DEF IInv, Types
  <2>2. pc[r] \in Busy
    BY <2>1 DEF IInv, OneHolder
  <2>3. InReset(r) /\ InDecode(r) /\ InSample(r) /\ InEmit(r)
    BY <2>2, Holding
  <2>4. CASE pc[r] = "resetting"
    BY <1>1, <2>1, <2>3, <2>4 DEF InReset, Lost
  <2>5. CASE pc[r] = "decoding"
    BY <1>1, <2>1, <2>3, <2>5 DEF InDecode, Lost
  <2>6. CASE pc[r] \in {"sampling", "emitting"}
    BY <2>3, <2>6 DEF InSample, InEmit, Quiet
  <2> QED
    BY <2>2, <2>4, <2>5, <2>6 DEF Busy
<1> QED
  BY <1>2, <1>3

\* Only the link and the context change, for the call that is on it.
LEMMA EngineMoves ==
  ASSUME IInv, NEW r \in Requests, pc[r] \in Busy, EngineAlone, engine' \in {"up", "gone"},
         kv' \in Seq(TokenOrRequest), Len(kv') <= NCtx, commands' = <<>>,
         (InReset(r) /\ InDecode(r) /\ InSample(r) /\ InEmit(r))'
  PROVE  IInv'
<1>1. /\ holder = r /\ \A q \in Requests \ {r} : pc[q] \notin Busy
  BY Holding
<1>2. UNCHANGED <<up, holder, poisoned, pc, plan, accepted, unread, client>>
  BY DEF EngineAlone, local, stream
<1>3. Types'
  BY <1>2 DEF IInv, Types, Busy
<1>4. OneHolder'
  BY <1>2 DEF IInv, OneHolder, Busy
<1>5. Unheld'
  <2>1. None \notin Requests
    BY ServerAssumption
  <2> QED
    BY <1>1, <1>2, <2>1 DEF IInv, Unheld
<1>6. Phases'
  BY <1>1, <1>2 DEF Phases, InReset, InDecode, InSample, InEmit, Busy
<1> QED
  BY <1>3, <1>4, <1>5, <1>6 DEF IInv

\* Nobody holds the lock: the last reference's shutdown is all there is.
LEMMA NobodyHolds ==
  ASSUME IInv, holder = None, UNCHANGED <<kv, holder, poisoned, pc, plan, accepted, replies, unread, client>>,
         up' \in {"up", "draining", "dropping", "down"}, engine' \in {"up", "gone"}, Unheld'
  PROVE  IInv'
<1>1. \A q \in Requests : pc[q] \notin Busy
  BY ServerAssumption DEF IInv, OneHolder
<1>2. Types' /\ OneHolder'
  BY DEF IInv, Types, OneHolder, Busy
<1>3. Phases'
  BY <1>1 DEF Phases, InReset, InDecode, InSample, InEmit, Busy
<1> QED
  BY <1>2, <1>3 DEF IInv

\* The engine thread empties the context of the one that asked.
LEMMA EngineResets ==
  ASSUME IInv, EngineReset
  PROVE  IInv'
<1>1. commands # <<>> /\ Head(commands).op = "reset"
  BY DEF EngineReset, Taken
<1>2. PICK r \in Requests :
        /\ pc[r] = "resetting" /\ accepted[r] = <<>> /\ replies = <<>>
        /\ commands = OnLink("reset", <<>>)
  BY <1>1, WhoseCommand DEF OnLink
<1>3. commands' = <<>> /\ replies' = <<"done">> /\ kv' = <<>> /\ engine' = engine
  BY <1>2 DEF EngineReset, Taken, OnLink
<1>4. pc'[r] = "resetting" /\ accepted'[r] = <<>> /\ EngineAlone
  BY <1>2 DEF EngineReset, EngineAlone, local
<1>5. (InReset(r) /\ InDecode(r) /\ InSample(r) /\ InEmit(r))'
  BY <1>3, <1>4 DEF InReset, InDecode, InSample, InEmit
<1>6. kv' \in Seq(TokenOrRequest) /\ Len(kv') <= NCtx /\ engine' \in {"up", "gone"}
  BY <1>3, ServerAssumption DEF IInv, Types
<1>7. pc[r] \in Busy
  BY <1>2 DEF Busy
<1> QED
  BY <1>3, <1>4, <1>5, <1>6, <1>7, EngineMoves

\* A decode takes all of its tokens into the context, or a prefix of them.
LEMMA DecodeStep ==
  ASSUME IInv, EngineDecodes \/ EngineDecodeFails
  PROVE  IInv'
<1>1. commands # <<>> /\ Head(commands).op = "decode" /\ commands' = Tail(commands)
  BY DEF EngineDecodes, EngineDecodeFails, Taken
<1>2. PICK r \in Requests :
        /\ pc[r] = "decoding" /\ replies = <<>>
        /\ accepted[r] = <<>> \/ Len(accepted[r]) < plan[r].budget
        /\ \E ts \in Seq(TokenOrRequest) :
             commands = OnLink("decode", ts) /\ Transcript(r) = kv \o ts
  <2>1. \A ts : Head(OnLink("reset", ts)).op = "reset" /\ Head(OnLink("shutdown", ts)).op = "shutdown"
    BY DEF OnLink
  <2> QED
    BY <1>1, <2>1, WhoseCommand
<1>3. PICK ts \in Seq(TokenOrRequest) : commands = OnLink("decode", ts) /\ Transcript(r) = kv \o ts
  BY <1>2
<1>4. Head(commands).tokens = ts /\ commands' = <<>>
  BY <1>1, <1>3 DEF OnLink
<1>5. engine' = engine /\ EngineAlone
  BY DEF EngineDecodes, EngineDecodeFails
<1>6. /\ pc'[r] = "decoding" /\ accepted'[r] = accepted[r] /\ plan'[r] = plan[r]
      /\ Transcript(r)' = Transcript(r)
  BY <1>2, <1>5 DEF EngineAlone, local, Transcript, Prompt
<1>7. kv \in Seq(TokenOrRequest) /\ Len(ts) \in Nat
  BY DEF IInv, Types
<1>8. /\ kv' \in Seq(TokenOrRequest) /\ Len(kv') <= NCtx
      /\ \/ replies' = <<"logits">> /\ kv' = Transcript(r)
         \/ replies' = <<"failed">> /\ IsPrefix(kv', Transcript(r))
  <2>1. CASE EngineDecodes
    <3>1. kv' = kv \o SubSeq(ts, 1, Len(ts)) /\ Len(kv') <= NCtx
      BY <1>4, <2>1 DEF EngineDecodes, Fed
    <3>0. replies' = <<"logits">>
      BY <1>2, <2>1 DEF EngineDecodes
    <3>2. SubSeq(ts, 1, Len(ts)) = ts
      BY SubSeqFull
    <3>3. kv \o ts \in Seq(TokenOrRequest)
      BY <1>7, PrefixOfWhole
    <3> QED
      BY <1>3, <3>0, <3>1, <3>2, <3>3
  <2>2. CASE EngineDecodeFails
    <3>1. PICK n \in {k * NBatch : k \in 0 .. (Len(ts) \div NBatch)} \cup {Len(ts)} :
            kv' = kv \o SubSeq(ts, 1, n)
      BY <1>4, <2>2 DEF EngineDecodeFails, Fed
    <3>2. n \in 0 .. Len(ts)
      BY <1>7, <3>1, WholeBatches
    <3>3. IsPrefix(kv \o SubSeq(ts, 1, n), kv \o ts) /\ kv \o SubSeq(ts, 1, n) \in Seq(TokenOrRequest)
      BY <1>7, <3>2, PrefixOfPart
    <3>4. replies' = <<"failed">> /\ Len(kv') <= NCtx
      BY <1>2, <2>2 DEF EngineDecodeFails
    <3> QED
      BY <1>3, <3>1, <3>3, <3>4
  <2> QED
    BY <2>1, <2>2
<1>9. (InReset(r) /\ InDecode(r) /\ InSample(r) /\ InEmit(r))'
  BY <1>2, <1>4, <1>6, <1>8 DEF InReset, InDecode, InSample, InEmit
<1>10. engine' \in {"up", "gone"} /\ pc[r] \in Busy
  BY <1>2, <1>5 DEF IInv, Types, Busy
<1> QED
  BY <1>4, <1>5, <1>8, <1>9, <1>10, EngineMoves

\* The shutdown the last reference sent finds nobody waiting.
LEMMA EngineLeaves ==
  ASSUME IInv, EngineStops
  PROVE  IInv'
<1>1. commands # <<>> /\ Head(commands).op = "shutdown" /\ commands' = Tail(commands)
  BY DEF EngineStops, Taken
<1>2. holder = None /\ replies = <<>> /\ commands = OnLink("shutdown", <<>>)
  BY <1>1, WhoseCommand DEF OnLink
<1>3. commands' = <<>> /\ engine' = "gone"
      /\ UNCHANGED <<up, kv, holder, poisoned, pc, plan, accepted, replies, unread, client>>
  BY <1>1, <1>2 DEF EngineStops, OnLink, EngineAlone, local, stream
<1>4. Unheld'
  BY <1>2, <1>3 DEF IInv, Unheld
<1> QED
  BY <1>2, <1>3, <1>4, NobodyHolds DEF IInv, Types

\* An engine thread that panics loses the command and keeps what was in the context.
LEMMA EngineDies ==
  ASSUME IInv, EnginePanics
  PROVE  IInv'
<1>1. commands # <<>> /\ commands' = <<>> /\ engine' = "gone" /\ EngineAlone /\ kv' = kv /\ replies' = replies
  BY DEF EnginePanics
<1>2. UNCHANGED <<up, holder, poisoned, pc, plan, accepted, unread, client>>
  BY <1>1 DEF EngineAlone, local, stream
<1>3. kv \in Seq(TokenOrRequest) /\ Len(kv) <= NCtx
  BY DEF IInv, Types
<1>4. CASE holder = None
  <2>1. Unheld'
    BY <1>1, <1>2, <1>4 DEF IInv, Unheld
  <2> QED
    BY <1>1, <1>2, <1>4, <2>1, NobodyHolds DEF IInv, Types
<1>5. CASE holder # None
  <2>1. PICK r \in Requests :
          /\ replies = <<>>
          /\ \/ pc[r] = "resetting" /\ accepted[r] = <<>>
             \/ /\ pc[r] = "decoding"
                /\ accepted[r] = <<>> \/ Len(accepted[r]) < plan[r].budget
                /\ \E ts \in Seq(TokenOrRequest) : Transcript(r) = kv \o ts
    BY <1>1, <1>5, WhoseCommand
  <2>2. Lost' /\ accepted'[r] = accepted[r] /\ pc'[r] = pc[r] /\ plan'[r] = plan[r]
        /\ Transcript(r)' = Transcript(r)
    BY <1>1, <1>2, <2>1 DEF Lost, Quiet, Transcript, Prompt
  <2>3. (InReset(r) /\ InDecode(r) /\ InSample(r) /\ InEmit(r))'
    <3>1. CASE pc[r] = "resetting"
      BY <2>1, <2>2, <3>1 DEF InReset, InDecode, InSample, InEmit
    <3>2. CASE pc[r] = "decoding"
      <4>1. IsPrefix(kv, Transcript(r))
        BY <1>3, <2>1, <3>2, PrefixOfWhole
      <4> QED
        BY <1>1, <2>1, <2>2, <3>2, <4>1 DEF InReset, InDecode, InSample, InEmit
    <3> QED
      BY <2>1, <3>1, <3>2
  <2>4. pc[r] \in Busy
    BY <2>1 DEF Busy
  <2> QED
    BY <1>1, <1>3, <2>3, <2>4, EngineMoves
<1> QED
  BY <1>4, <1>5

\* The server goes down only when every request is closed.
LEMMA ServerStep ==
  ASSUME IInv, Shutdown \/ Drop \/ Join
  PROVE  IInv'
<1>1. UNCHANGED <<kv, engine, holder, poisoned, pc, plan, accepted, replies, unread, client>>
  BY DEF Shutdown, Drop, Join, local, stream
<1>2. CASE Shutdown
  <2>1. up = "up" /\ up' = "draining" /\ commands' = commands
    BY <1>2 DEF Shutdown
  <2>2. Types' /\ OneHolder' /\ Phases'
    <3>1. Types' /\ OneHolder'
      BY SMTT(30), <1>1, <2>1 DEF IInv, Types, OneHolder, Busy
    <3>2. Phases'
      BY <1>1, <2>1 DEF IInv, Phases, InReset, InDecode, InSample, InEmit, Quiet, Lost,
                        Transcript, Prompt
    <3> QED
      BY <3>1, <3>2
  <2>3. Unheld'
    BY <1>1, <2>1 DEF IInv, Unheld
  <2> QED
    BY <2>2, <2>3 DEF IInv
<1>3. CASE Drop \/ Join
  <2>1. \A r \in Requests : pc[r] \in {"absent", "closed"}
    BY <1>3 DEF Drop, Join, IInv, Unheld
  <2>2. holder = None
    BY <2>1 DEF IInv, Types, OneHolder, Busy
  <2>3. Unheld' /\ up' \in {"dropping", "down"}
    <3>1. CASE Drop
      <4>1. commands = <<>> /\ replies = <<>> /\ up' = "dropping" /\ engine \in {"up", "gone"}
        BY <2>2, <3>1 DEF Drop, IInv, Types, Unheld
      <4>2. commands' = IF poisoned \/ engine = "gone" THEN <<>> ELSE OnLink("shutdown", <<>>)
        BY <3>1, <4>1 DEF Drop, OnLink
      <4> QED
        BY <1>1, <2>1, <2>2, <4>1, <4>2 DEF Unheld
    <3>2. CASE Join
      BY <1>1, <2>1, <2>2, <3>2 DEF Join, IInv, Unheld
    <3> QED
      BY <1>3, <3>1, <3>2
  <2> QED
    BY <1>1, <2>2, <2>3, NobodyHolds DEF IInv, Types
<1> QED
  BY <1>2, <1>3
-----------------------------------------------------------------------------

\* The invariant holds of a server just started.
LEMMA Starts ==
  ASSUME Init
  PROVE  IInv
<1>1. Types
  <2>1. Blank \in [kind : Kinds, n : Nat, budget : Nat]
    BY DEF Blank, Kinds
  <2>2. <<>> \in Seq(Tokens) /\ <<>> \in Seq(TokenOrRequest)
    OBVIOUS
  <2>3. 0 \in 0 .. Buffer /\ Len(<<>>) <= NCtx
    BY ServerAssumption
  <2>4. kv \in Seq(TokenOrRequest) /\ Len(kv) <= NCtx
    BY <2>2, <2>3 DEF Init
  <2>5. /\ accepted \in [Requests -> Seq(Tokens)] /\ plan \in [Requests -> [kind : Kinds, n : Nat, budget : Nat]]
        /\ unread \in [Requests -> 0 .. Buffer] /\ client \in [Requests -> {"open", "left"}]
        /\ pc \in [Requests -> Busy \cup {"absent", "opening", "closing", "closed"}]
    BY <2>1, <2>2, <2>3 DEF Init
  <2> QED
    BY <2>4, <2>5 DEF Init, Types
<1>2. OneHolder
  BY <1>1, ServerAssumption DEF Init, OneHolder, Types, Blank, Busy
<1>3. Unheld
  BY DEF Init, Unheld
<1>4. Phases
  BY DEF Init, Phases, InReset, InDecode, InSample, InEmit
<1> QED
  BY <1>1, <1>2, <1>3, <1>4 DEF IInv

\* Every step keeps the invariant.
LEMMA Steps ==
  ASSUME IInv, [Next]_vars
  PROVE  IInv'
<1>1. ASSUME NEW r \in Requests, RequestStep(r) \/ Arrive(r) \/ RequestPanics(r) \/ Read(r) \/ Leave(r)
      PROVE  IInv'
  <2>1. CASE Push(r) \/ Read(r) \/ Leave(r) \/ PushFails(r) \/ Arrive(r) \/ Close(r)
    BY <2>1, StreamStep
  <2>2. CASE \/ EmptyPrompt(r) \/ DecodeFailed(r) \/ EngineGone(r) \/ StopToken(r)
             \/ Undecodable(r) \/ Finish(r) \/ RequestPanics(r)
             \/ Logits(r) /\ plan[r].budget = 0
    BY <2>2, CallEnds
  <2>3. CASE Refused(r)
    BY <2>3, CallRefused
  <2>4. CASE Lock(r)
    BY <2>4, CallLocks
  <2>5. CASE ResetDone(r)
    BY <2>5, CallFeeds
  <2>6. CASE Logits(r) /\ plan[r].budget # 0
    BY <2>6, CallSamples
  <2>7. CASE OnToken(r)
    BY <2>7, CallAccepts
  <2>8. CASE Advance(r)
    BY <2>8, CallAdvances
  <2> QED
    BY <1>1, <2>1, <2>2, <2>3, <2>4, <2>5, <2>6, <2>7, <2>8 DEF RequestStep
<1>2. CASE EngineStep \/ EnginePanics
  BY <1>2, EngineResets, DecodeStep, EngineLeaves, EngineDies DEF EngineStep
<1>3. CASE Shutdown \/ Drop \/ Join
  BY <1>3, ServerStep
<1>4. CASE UNCHANGED vars
  <2>1. UNCHANGED <<up, engine, kv, commands, replies, holder, poisoned, pc, plan, accepted, unread, client>>
    BY <1>4 DEF vars, shared, local, stream
  <2> QED
    BY <2>1, Elsewhere DEF IInv, Types
<1> QED
  BY <1>1, <1>2, <1>3, <1>4 DEF Next

\* The invariant says what the run's property does, and how long the channels are.
LEMMA SaysContextIsTranscript ==
  ASSUME IInv
  PROVE  ContextIsTranscript
<1>1. commands = <<>> \/ \E op, ts : commands = OnLink(op, ts)
  BY WhoseCommand
<1>2. Len(commands) <= 1
  <2>1. Len(<<>>) = 0 /\ \A c : Len(<<c>>) = 1
    OBVIOUS
  <2>2. \A op, ts : \E c : OnLink(op, ts) = <<c>>
    BY DEF OnLink
  <2>3. CASE commands = <<>>
    BY <2>1, <2>3
  <2>4. CASE \E c : commands = <<c>>
    BY <2>1, <2>4
  <2> QED
    BY <1>1, <2>2, <2>3, <2>4
<1>3. \/ replies = <<>>
      \/ \E x : replies = <<x>>
  <2>1. CASE holder = None
    BY <2>1 DEF IInv, Unheld
  <2>2. CASE holder # None
    <3>1. PICK r \in Requests : holder = r
      BY <2>2 DEF IInv, Types
    <3>2. pc[r] \in Busy
      BY <3>1 DEF IInv, OneHolder
    <3>3. InReset(r) /\ InDecode(r) /\ InSample(r) /\ InEmit(r)
      BY <3>2, Holding
    <3> QED
      BY <3>2, <3>3 DEF InReset, InDecode, InSample, InEmit, Lost, Quiet, Busy
  <2> QED
    BY <2>1, <2>2
<1>4. Len(replies) <= 1
  <2>1. Len(<<>>) = 0 /\ \A x : Len(<<x>>) = 1
    OBVIOUS
  <2>2. CASE replies = <<>>
    BY <2>1, <2>2
  <2>3. CASE \E x : replies = <<x>>
    BY <2>1, <2>3
  <2> QED
    BY <1>3, <2>2, <2>3
<1>5. TypeOK
  BY <1>2, <1>4 DEF TypeOK, IInv, Types, OneHolder
<1>6. ASSUME NEW r \in Requests, pc[r] = "sampling"
      PROVE  kv = Prompt(r) \o accepted[r]
  BY <1>6 DEF IInv, Phases, InSample, Transcript
<1>7. ASSUME NEW r \in Requests, pc[r] \in {"decoding", "emitting"}
      PROVE  IsPrefix(kv, Prompt(r) \o accepted[r])
  <2>1. kv \in Seq(TokenOrRequest) /\ InDecode(r) /\ InEmit(r)
    BY DEF IInv, Types, Phases
  <2>2. \A ts \in Seq(TokenOrRequest) : IsPrefix(kv, kv \o ts)
    BY <2>1, PrefixOfWhole
  <2>3. IsPrefix(kv, kv)
    <3>1. kv \o <<>> = kv /\ <<>> \in Seq(TokenOrRequest)
      BY <2>1, ConcatEmptySeq
    <3> QED
      BY <2>2, <3>1
  <2>4. CASE pc[r] = "decoding"
    BY <2>1, <2>2, <2>3, <2>4 DEF InDecode, Transcript
  <2>5. CASE pc[r] = "emitting"
    <3>1. accepted[r] \in Seq(TokenOrRequest) /\ accepted[r] # <<>>
      BY <2>1, <2>5, PromptType DEF IInv, InEmit
    <3>2. <<Last(accepted[r])>> \in Seq(TokenOrRequest)
      <4>1. Last(accepted[r]) \in TokenOrRequest
        BY <3>1 DEF Last
      <4> QED
        BY <4>1
    <3> QED
      BY <2>1, <2>2, <2>5, <3>2 DEF InEmit, Transcript
  <2> QED
    BY <1>7, <2>4, <2>5
<1> QED
  BY <1>5, <1>6, <1>7 DEF ContextIsTranscript

\* The invariant holds of every state of every behaviour of the server.
THEOREM LinkInvariant == Spec => []IInv
<1>1. Init => IInv
  BY Starts
<1>2. IInv /\ [Next]_vars => IInv'
  BY Steps
<1> QED
  BY <1>1, <1>2, PTL DEF Spec

\* A token is sampled from exactly the request's own prompt and the tokens it has
\* accepted; nothing else of its own, or of anybody else, is ever in the context.
THEOREM ContextIsTranscriptHolds == Spec => []ContextIsTranscript
<1>1. IInv => ContextIsTranscript
  BY SaysContextIsTranscript
<1> QED
  BY <1>1, LinkInvariant, PTL

-----------------------------------------------------------------------------
(* Numbers and sequences: least and greatest elements, prefixes and parts. *)

\* The order of the numbers, as a set.
Lower == {p \in Nat \X Nat : p[1] < p[2]}

\* A set of naturals that is not empty has a least element.
LEMMA LeastOf ==
  ASSUME NEW set \in SUBSET Nat, set # {}
  PROVE  \E m \in set : \A k \in set : m <= k
<1>1. OpToRel(<, Nat) = Lower
  BY DEF OpToRel, Lower
<1>2. IsWellFoundedOn(Lower, Nat)
  BY <1>1, NatLessThanWellFounded
<1>3. PICK m \in set : \A k \in set : ~(<<k, m>> \in Lower)
  BY <1>2, WFMin
<1>4. ASSUME NEW k \in set PROVE m <= k
  <2>1. k \in Nat /\ m \in Nat /\ <<k, m>> \in Nat \X Nat
    OBVIOUS
  <2>2. ~(k < m)
    BY <1>3, <2>1 DEF Lower
  <2> QED
    BY <2>1, <2>2
<1> QED
  BY <1>4

\* A set of naturals up to some number has a greatest one.
LEMMA GreatestOf ==
  ASSUME NEW n \in Nat, NEW set \in SUBSET (0 .. n), set # {}
  PROVE  \E m \in set : \A k \in set : m >= k
<1> DEFINE under == {n - i : i \in set}
<1>1. under \in SUBSET Nat /\ under # {}
  <2>1. ASSUME NEW i \in set PROVE n - i \in Nat
    <3>1. i \in 0 .. n
      OBVIOUS
    <3> QED
      BY <3>1
  <2>2. PICK i \in set : TRUE
    OBVIOUS
  <2>3. n - i \in under
    OBVIOUS
  <2> QED
    BY <2>1, <2>3
<1>2. PICK m \in under : \A k \in under : m <= k
  BY <1>1, LeastOf
<1>3. PICK i \in set : m = n - i
  BY <1>2
<1>4. ASSUME NEW j \in set PROVE i >= j
  <2>1. n - j \in under
    OBVIOUS
  <2>2. n - i <= n - j /\ i \in Int /\ j \in Int
    BY <1>2, <1>3, <2>1
  <2> QED
    BY <2>2
<1> QED
  BY <1>4

\* A set of naturals that has zero and with each its successor has them all.
LEMMA Ladder ==
  ASSUME NEW set, 0 \in set, \A n \in Nat : n \in set => n + 1 \in set
  PROVE  Nat \subseteq set
<1> DEFINE out == Nat \ set
<1>1. SUFFICES ASSUME out # {} PROVE FALSE
  OBVIOUS
<1>2. PICK m \in out : \A k \in out : m <= k
  BY <1>1, LeastOf
<1>3. m # 0 /\ m - 1 \in Nat
  BY <1>2
<1>4. m - 1 \in set
  BY <1>2, <1>3
<1> QED
  BY <1>2, <1>3, <1>4

\* A step function on a set takes its start to every height.
StepsTo(f, base, step, n) ==
  f = [i \in 0 .. n |-> IF i = 0 THEN base ELSE step[<<i, f[i - 1]>>]]

\* A function defined step by step from a base exists.
LEMMA Recursion ==
  ASSUME NEW set, NEW base \in set, NEW n \in Nat, NEW step \in [(1 .. n) \X set -> set]
  PROVE  \E f \in [0 .. n -> set] : StepsTo(f, base, step, n)
<1> DEFINE reach == {k \in Nat : k <= n => \E f \in [0 .. k -> set] : StepsTo(f, base, step, k)}
<1>1. 0 \in reach
  <2>1. [i \in 0 .. 0 |-> base] \in [0 .. 0 -> set]
    OBVIOUS
  <2>2. StepsTo([i \in 0 .. 0 |-> base], base, step, 0)
    BY DEF StepsTo
  <2> QED
    BY <2>1, <2>2
<1>2. ASSUME NEW k \in Nat, k \in reach PROVE k + 1 \in reach
  <2>1. SUFFICES ASSUME k + 1 <= n
                 PROVE  \E f \in [0 .. (k + 1) -> set] : StepsTo(f, base, step, k + 1)
    OBVIOUS
  <2>2. PICK f \in [0 .. k -> set] : StepsTo(f, base, step, k)
    BY <1>2, <2>1
  <2> DEFINE g == [i \in 0 .. (k + 1) |-> IF i <= k THEN f[i] ELSE step[<<i, f[k]>>]]
  <2>3. g \in [0 .. (k + 1) -> set]
    <3>1. \A i \in 0 .. (k + 1) : i <= k \/ i = k + 1
      OBVIOUS
    <3>2. step[<<k + 1, f[k]>>] \in set
      <4>1. <<k + 1, f[k]>> \in (1 .. n) \X set
        BY <2>1, <2>2
      <4> QED BY <4>1
    <3> QED BY <2>2, <3>1, <3>2
  <2>4. ASSUME NEW i \in 0 .. (k + 1)
        PROVE  g[i] = IF i = 0 THEN base ELSE step[<<i, g[i - 1]>>]
    <3>1. CASE i = k + 1
      BY <3>1
    <3>2. CASE i <= k
      <4>1. g[i] = f[i]
        BY <3>2
      <4>2. f[i] = IF i = 0 THEN base ELSE step[<<i, f[i - 1]>>]
        BY <2>2, <3>2 DEF StepsTo
      <4>3. i # 0 => g[i - 1] = f[i - 1]
        BY <3>2
      <4> QED BY <4>1, <4>2, <4>3
    <3> QED BY <3>1, <3>2
  <2>5. StepsTo(g, base, step, k + 1)
    BY <2>4 DEF StepsTo
  <2> QED BY <2>3, <2>5
<1>3. n \in reach
  <2> HIDE DEF reach
  <2> QED BY <1>1, <1>2, Ladder
<1> QED BY <1>3

-----------------------------------------------------------------------------
(* The stream: what a client is sent is what a body would say.              *)

\* FlattenSeq is the last of the texts joined one by one.
LEMMA FlattenIs ==
  ASSUME NEW S, NEW ss \in Seq(Seq(S)), NEW g \in [0 .. Len(ss) -> Seq(S)], g[0] = <<>>,
         \A i \in 1 .. Len(ss) : g[i] = g[i - 1] \o ss[i]
  PROVE  FlattenSeq(ss) = g[Len(ss)]
<1> DEFINE n == Len(ss)
           G(f, i) == IF i = 1 THEN ss[i] ELSE f[i - 1] \o ss[i]
           Solves(f) == f = [i \in 1 .. n |-> G(f, i)]
           flatten == CHOOSE f : Solves(f)
<1>1. n \in Nat
  OBVIOUS
<1>2. CASE n = 0
  BY <1>2 DEF FlattenSeq
<1>3. CASE n # 0
  <2>1. Solves(flatten)
    <3> DEFINE f == [i \in 1 .. n |-> g[i]]
    <3>1. ASSUME NEW i \in 1 .. n PROVE g[i] = G(f, i)
      <4>1. CASE i = 1
        <5>1. 1 \in 1 .. n /\ 1 - 1 = 0
          BY <4>1
        <5>2. g[1] = g[0] \o ss[1] /\ ss[1] \in Seq(S)
          BY <5>1, ElementOfSeq
        <5> QED
          BY <4>1, <5>2, ConcatEmptySeq
      <4>2. CASE i # 1
        <5>1. i - 1 \in 1 .. n
          BY <1>1, <4>2
        <5>2. f[i - 1] = g[i - 1]
          BY <5>1
        <5> HIDE DEF f
        <5> QED
          BY <4>2, <5>2
      <4> QED
        BY <4>1, <4>2
    <3>2. Solves(f)
      <4> HIDE DEF G
      <4> QED
        BY <3>1
    <3> HIDE DEF f, Solves
    <3> QED
      BY <3>2
  <2>2. FlattenSeq(ss) = flatten[n]
    BY <1>3 DEF FlattenSeq
  <2> HIDE DEF flatten
  <2> DEFINE same == {k \in Nat : 1 <= k /\ k <= n => flatten[k] = g[k]}
  <2>3. 0 \in same
    OBVIOUS
  <2>4. ASSUME NEW k \in Nat, k \in same PROVE k + 1 \in same
    <3>1. SUFFICES ASSUME k + 1 <= n PROVE flatten[k + 1] = g[k + 1]
      OBVIOUS
    <3>2. k + 1 \in 1 .. n /\ (k + 1) - 1 = k /\ (k = 0 \/ k \in 1 .. n)
      BY <1>1, <3>1
    <3>3. flatten[k + 1] = G(flatten, k + 1)
      <4> HIDE DEF G, n
      <4> QED
        BY <2>1, <3>2
    <3>4. g[k + 1] = g[k] \o ss[k + 1]
      BY <3>2
    <3>5. CASE k = 0
      <4>1. ss[1] \in Seq(S) /\ k + 1 = 1
        BY <3>2, <3>5, ElementOfSeq
      <4>2. flatten[1] = ss[1] /\ g[1] = <<>> \o ss[1]
        BY <3>3, <3>4, <3>5, <4>1
      <4> QED
        BY <4>1, <4>2, ConcatEmptySeq
    <3>6. CASE k # 0
      <4>1. flatten[k] = g[k] /\ k + 1 # 1
        BY <2>4, <3>2, <3>6
      <4>2. flatten[k + 1] = flatten[k] \o ss[k + 1]
        BY <3>2, <3>3, <4>1
      <4> QED
        BY <3>4, <4>1, <4>2
    <3> QED
      BY <3>5, <3>6
  <2>5. n \in same
    <3> HIDE DEF same, n
    <3> QED
      BY <1>1, <2>3, <2>4, Ladder
  <2> QED
    BY <1>1, <1>3, <2>2, <2>5
<1> QED
  BY <1>2, <1>3

\* There is such a joining of any texts.
LEMMA Joining ==
  ASSUME NEW S, NEW ss \in Seq(Seq(S))
  PROVE  \E g \in [0 .. Len(ss) -> Seq(S)] :
           g[0] = <<>> /\ \A i \in 1 .. Len(ss) : g[i] = g[i - 1] \o ss[i]
<1> DEFINE n == Len(ss)
           step == [p \in (1 .. n) \X Seq(S) |-> p[2] \o ss[p[1]]]
<1>1. n \in Nat /\ <<>> \in Seq(S)
  OBVIOUS
<1>2. step \in [(1 .. n) \X Seq(S) -> Seq(S)]
  <2>1. \A p \in (1 .. n) \X Seq(S) : p[2] \o ss[p[1]] \in Seq(S)
    <3>1. ASSUME NEW p \in (1 .. n) \X Seq(S) PROVE p[2] \o ss[p[1]] \in Seq(S)
      <4>1. p[2] \in Seq(S) /\ ss[p[1]] \in Seq(S)
        BY ElementOfSeq
      <4> QED
        BY <4>1, ConcatProperties
    <3> QED
      BY <3>1
  <2> QED
    BY <2>1
<1> HIDE DEF step
<1>3. PICK g \in [0 .. n -> Seq(S)] : StepsTo(g, <<>>, step, n)
  BY <1>1, <1>2, Recursion
<1>4. g[0] = <<>>
  BY <1>1, <1>3 DEF StepsTo
<1>5. ASSUME NEW i \in 1 .. n PROVE g[i] = g[i - 1] \o ss[i]
  <2>1. i \in 0 .. n /\ i # 0 /\ i - 1 \in 0 .. n
    BY <1>1
  <2>2. g[i] = step[<<i, g[i - 1]>>]
    BY <1>3, <2>1 DEF StepsTo
  <2>3. <<i, g[i - 1]>> \in (1 .. n) \X Seq(S)
    BY <2>1
  <2> HIDE DEF n
  <2> QED
    BY <2>2, <2>3 DEF step
<1> QED
  BY <1>4, <1>5

\* Sequences strung together are a sequence of the same elements.
LEMMA FlattenType ==
  ASSUME NEW S, NEW ss \in Seq(Seq(S))
  PROVE  FlattenSeq(ss) \in Seq(S) /\ (ss = <<>> => FlattenSeq(ss) = <<>>)
<1>1. PICK g \in [0 .. Len(ss) -> Seq(S)] :
        g[0] = <<>> /\ \A i \in 1 .. Len(ss) : g[i] = g[i - 1] \o ss[i]
  BY Joining
<1>2. FlattenSeq(ss) = g[Len(ss)]
  BY <1>1, FlattenIs
<1>3. Len(ss) \in 0 .. Len(ss)
  BY LenProperties
<1> QED
  BY <1>1, <1>2, <1>3

\* One more sequence is strung on at the end.
LEMMA FlattenAppend ==
  ASSUME NEW S, NEW ss \in Seq(Seq(S)), NEW s \in Seq(S)
  PROVE  FlattenSeq(Append(ss, s)) = FlattenSeq(ss) \o s
<1> DEFINE n == Len(ss)
           tt == Append(ss, s)
<1>1. n \in Nat /\ tt \in Seq(Seq(S)) /\ Len(tt) = n + 1
  BY AppendProperties
<1>2. tt[n + 1] = s /\ \A i \in 1 .. n : tt[i] = ss[i]
  BY AppendProperties
<1> HIDE DEF tt
<1>3. PICK g \in [0 .. Len(tt) -> Seq(S)] :
        g[0] = <<>> /\ \A i \in 1 .. Len(tt) : g[i] = g[i - 1] \o tt[i]
  BY <1>1, Joining
<1>4. FlattenSeq(tt) = g[n + 1]
  BY <1>1, <1>3, FlattenIs
<1>9. /\ g \in [0 .. (n + 1) -> Seq(S)]
      /\ \A i \in 1 .. (n + 1) : g[i] = g[i - 1] \o tt[i]
  <2> HIDE DEF n
  <2> QED
    BY <1>1, <1>3
<1> DEFINE f == [i \in 0 .. n |-> g[i]]
<1>5. f \in [0 .. n -> Seq(S)] /\ f[0] = <<>> /\ f[n] = g[n]
  BY <1>1, <1>3, <1>9
<1>6. ASSUME NEW i \in 1 .. n PROVE f[i] = f[i - 1] \o ss[i]
  <2>1. i \in 1 .. (n + 1) /\ i \in 0 .. n /\ i - 1 \in 0 .. n
    BY <1>1
  <2>2. f[i] = g[i] /\ f[i - 1] = g[i - 1]
    BY <2>1
  <2>3. g[i] = g[i - 1] \o tt[i]
    <3> HIDE DEF n
    <3> QED
      BY <1>9, <2>1
  <2>4. tt[i] = ss[i]
    BY <1>2
  <2> QED
    BY <2>2, <2>3, <2>4
<1> HIDE DEF f
<1>7. FlattenSeq(ss) = g[n]
  BY <1>5, <1>6, FlattenIs
<1>8. g[n + 1] = g[n] \o s
  <2>1. n + 1 \in 1 .. (n + 1) /\ (n + 1) - 1 = n
    BY <1>1
  <2>2. g[n + 1] = g[(n + 1) - 1] \o tt[n + 1]
    <3> HIDE DEF n
    <3> QED
      BY <1>9, <2>1
  <2> QED
    BY <1>2, <2>1, <2>2
<1> QED
  BY <1>4, <1>7, <1>8 DEF tt

\* Joining two lists of texts joins their texts.
LEMMA FlattenConcat ==
  ASSUME NEW S, NEW ss \in Seq(Seq(S)), NEW tt \in Seq(Seq(S))
  PROVE  FlattenSeq(ss \o tt) = FlattenSeq(ss) \o FlattenSeq(tt)
<1> DEFINE joined == {k \in Nat : \A us \in Seq(Seq(S)) :
                        Len(us) = k => FlattenSeq(ss \o us) = FlattenSeq(ss) \o FlattenSeq(us)}
<1>1. 0 \in joined
  <2>1. ASSUME NEW us \in Seq(Seq(S)), Len(us) = 0
        PROVE  FlattenSeq(ss \o us) = FlattenSeq(ss) \o FlattenSeq(us)
    <3>1. us = <<>> /\ ss \o us = ss
      BY <2>1, EmptySeq, ConcatEmptySeq
    <3>2. FlattenSeq(us) = <<>> /\ FlattenSeq(ss) \in Seq(S)
      BY <3>1, FlattenType
    <3> QED
      BY <3>1, <3>2, ConcatEmptySeq
  <2> QED
    BY <2>1
<1>2. ASSUME NEW k \in Nat, k \in joined PROVE k + 1 \in joined
  <2>1. ASSUME NEW us \in Seq(Seq(S)), Len(us) = k + 1
        PROVE  FlattenSeq(ss \o us) = FlattenSeq(ss) \o FlattenSeq(us)
    <3> DEFINE vs == SubSeq(us, 1, k)
               u == us[k + 1]
    <3>1. vs \in Seq(Seq(S)) /\ Len(vs) = k /\ u \in Seq(S) /\ us = Append(vs, u)
      <4>1. us # <<>>
        BY <2>1
      <4>2. vs \in Seq(Seq(S)) /\ Len(vs) = k /\ \A i \in 1 .. k : vs[i] = us[i]
        <5>1. \A i \in 1 .. k : us[i] \in Seq(S)
          BY <2>1, ElementOfSeq
        <5> QED
          BY <5>1, SubSeqProperties
      <4>3. u \in Seq(S)
        BY <2>1, ElementOfSeq
      <4> HIDE DEF vs, u
      <4>4. us = Append(vs, u)
        BY <2>1, <4>2 DEF u
      <4> QED
        BY <4>2, <4>3, <4>4
    <3> HIDE DEF vs, u
    <3>2. ss \o us = Append(ss \o vs, u) /\ ss \o vs \in Seq(Seq(S))
      BY <3>1
    <3>3. FlattenSeq(ss \o us) = FlattenSeq(ss \o vs) \o u
      BY <3>1, <3>2, FlattenAppend
    <3>4. FlattenSeq(us) = FlattenSeq(vs) \o u
      BY <3>1, FlattenAppend
    <3>5. FlattenSeq(ss \o vs) = FlattenSeq(ss) \o FlattenSeq(vs)
      BY <1>2, <3>1
    <3>6. FlattenSeq(ss) \in Seq(S) /\ FlattenSeq(vs) \in Seq(S)
      BY <3>1, FlattenType
    <3>7. (FlattenSeq(ss) \o FlattenSeq(vs)) \o u = FlattenSeq(ss) \o (FlattenSeq(vs) \o u)
      <4> DEFINE a == FlattenSeq(ss)
                 b == FlattenSeq(vs)
      <4> HIDE DEF a, b, joined
      <4>1. a \in Seq(S) /\ b \in Seq(S) /\ u \in Seq(S)
        BY <3>1, <3>6 DEF a, b
      <4>2. (a \o b) \o u = a \o (b \o u)
        BY SMTT(30), <4>1, ConcatAssociative
      <4> QED
        BY <4>2 DEF a, b
    <3> QED
      BY <3>3, <3>4, <3>5, <3>7
  <2> QED
    BY <2>1
<1>3. Len(tt) \in joined
  <2> HIDE DEF joined
  <2> QED
    BY <1>1, <1>2, Ladder, LenProperties
<1> QED
  BY <1>3

\* What follows the first part of a sequence is the second.
LEMMA TailOfConcat ==
  ASSUME NEW S, NEW s \in Seq(S), NEW t \in Seq(S)
  PROVE  SubSeq(s \o t, Len(s) + 1, Len(s \o t)) = t
<1> DEFINE u == s \o t
           m == Len(s) + 1
           v == SubSeq(u, m, Len(u))
<1>1. /\ u \in Seq(S) /\ Len(u) = Len(s) + Len(t) /\ Len(s) \in Nat /\ Len(t) \in Nat
      /\ \A i \in 1 .. (Len(s) + Len(t)) : u[i] = IF i <= Len(s) THEN s[i] ELSE t[i - Len(s)]
  BY ConcatProperties
<1> HIDE DEF u
<1>2. /\ v \in Seq(S) /\ Len(v) = IF m <= Len(u) THEN Len(u) - m + 1 ELSE 0
      /\ \A i \in 1 .. Len(u) - m + 1 : v[i] = u[m + i - 1]
  <2>1. \A i \in m .. Len(u) : u[i] \in S
    BY <1>1, ElementOfSeq
  <2>2. m \in Int /\ Len(u) \in Int
    BY <1>1
  <2> HIDE DEF m
  <2> QED
    BY <2>1, <2>2, SubSeqProperties
<1> HIDE DEF v
<1>3. Len(v) = Len(t)
  BY <1>1, <1>2
<1>4. ASSUME NEW i \in 1 .. Len(v) PROVE v[i] = t[i]
  <2>1. i \in 1 .. Len(u) - m + 1 /\ m + i - 1 \in 1 .. Len(s) + Len(t)
        /\ ~(m + i - 1 <= Len(s)) /\ (m + i - 1) - Len(s) = i
    BY <1>1, <1>3
  <2>2. v[i] = u[m + i - 1]
    BY <1>2, <2>1
  <2>3. u[m + i - 1] = t[(m + i - 1) - Len(s)]
    BY <1>1, <2>1
  <2> QED
    BY <2>1, <2>2, <2>3
<1>5. v = t
  BY <1>2, <1>3, <1>4, SeqEqual
<1> QED
  BY <1>5 DEF u, v

\* Pieces and stop strings are over one set of units.
Units == UNION ({ToSet(Piece[t]) : t \in Tokens} \cup {ToSet(stop) : stop \in Stops})

\* Pieces and stop strings are strings of units.
LEMMA UnitsAre ==
  /\ \A t \in Tokens : Piece[t] \in Seq(Units)
  /\ \A stop \in Stops : stop \in Seq(Units)
<1>1. ASSUME NEW t \in Tokens PROVE Piece[t] \in Seq(Units)
  <2>1. Piece[t] \in Seq(ToSet(Piece[t])) /\ ToSet(Piece[t]) \subseteq Units
    BY TextAssumption DEF Units
  <2> QED
    BY <2>1, SeqMonotonic
<1>2. ASSUME NEW stop \in Stops PROVE stop \in Seq(Units)
  <2>1. stop \in Seq(ToSet(stop)) /\ ToSet(stop) \subseteq Units
    BY TextAssumption DEF Units
  <2> QED
    BY <2>1, SeqMonotonic
<1> QED
  BY <1>1, <1>2

\* The pieces of tokens, before they are joined.
LEMMA PiecesOf ==
  ASSUME NEW ts \in Seq(Tokens)
  PROVE  /\ [i \in DOMAIN ts |-> Piece[ts[i]]] \in Seq(Seq(Units))
         /\ Len([i \in DOMAIN ts |-> Piece[ts[i]]]) = Len(ts)
<1>1. DOMAIN ts = 1 .. Len(ts) /\ Len(ts) \in Nat
  OBVIOUS
<1>2. ASSUME NEW i \in 1 .. Len(ts) PROVE Piece[ts[i]] \in Seq(Units)
  BY UnitsAre, ElementOfSeq
<1>3. [i \in 1 .. Len(ts) |-> Piece[ts[i]]] \in Seq(Seq(Units))
  BY <1>1, <1>2
<1> QED
  BY <1>1, <1>3

\* The text of tokens is a string of units.
LEMMA TextType ==
  ASSUME NEW ts \in Seq(Tokens)
  PROVE  TextOf(ts) \in Seq(Units) /\ (ts = <<>> => TextOf(ts) = <<>>)
<1> DEFINE ps == [i \in DOMAIN ts |-> Piece[ts[i]]]
<1>1. ps \in Seq(Seq(Units)) /\ Len(ps) = Len(ts)
  BY PiecesOf
<1>2. ts = <<>> => ps = <<>>
  BY <1>1, EmptySeq
<1>3. TextOf(ts) = FlattenSeq(ps)
  BY DEF TextOf
<1> HIDE DEF ps
<1> QED
  BY <1>1, <1>2, <1>3, FlattenType

\* The text of tokens is the text of the first of them and that of the others.
LEMMA TextConcat ==
  ASSUME NEW a \in Seq(Tokens), NEW b \in Seq(Tokens)
  PROVE  TextOf(a \o b) = TextOf(a) \o TextOf(b)
<1> DEFINE c == a \o b
           pa == [i \in DOMAIN a |-> Piece[a[i]]]
           pb == [i \in DOMAIN b |-> Piece[b[i]]]
           pc1 == [i \in DOMAIN c |-> Piece[c[i]]]
<1>1. c \in Seq(Tokens) /\ Len(c) = Len(a) + Len(b) /\ Len(a) \in Nat /\ Len(b) \in Nat
      /\ \A i \in 1 .. Len(a) + Len(b) : c[i] = IF i <= Len(a) THEN a[i] ELSE b[i - Len(a)]
  BY ConcatProperties
<1> HIDE DEF c
<1>2. /\ pa \in Seq(Seq(Units)) /\ Len(pa) = Len(a)
      /\ pb \in Seq(Seq(Units)) /\ Len(pb) = Len(b)
      /\ pc1 \in Seq(Seq(Units)) /\ Len(pc1) = Len(c)
  BY <1>1, PiecesOf
<1>3. /\ \A i \in 1 .. Len(a) : pa[i] = Piece[a[i]]
      /\ \A i \in 1 .. Len(b) : pb[i] = Piece[b[i]]
      /\ \A i \in 1 .. Len(c) : pc1[i] = Piece[c[i]]
  BY <1>1
<1>4. TextOf(a) = FlattenSeq(pa) /\ TextOf(b) = FlattenSeq(pb) /\ TextOf(c) = FlattenSeq(pc1)
  BY DEF TextOf
<1> HIDE DEF pa, pb, pc1
<1>5. pc1 = pa \o pb
  <2>1. /\ pa \o pb \in Seq(Seq(Units)) /\ Len(pa \o pb) = Len(pa) + Len(pb)
        /\ \A i \in 1 .. Len(pa) + Len(pb) :
             (pa \o pb)[i] = IF i <= Len(pa) THEN pa[i] ELSE pb[i - Len(pa)]
    BY <1>2, ConcatProperties
  <2>2. ASSUME NEW i \in 1 .. Len(pc1) PROVE pc1[i] = (pa \o pb)[i]
    <3>1. i \in 1 .. (Len(a) + Len(b)) /\ i \in 1 .. Len(c)
      BY <1>1, <1>2
    <3>2. CASE i <= Len(a)
      <4>1. i \in 1 .. Len(a)
        BY <1>1, <3>1, <3>2
      <4>2. c[i] = a[i] /\ (pa \o pb)[i] = pa[i]
        BY <1>1, <1>2, <2>1, <3>1, <3>2
      <4> QED
        BY <1>3, <3>1, <4>1, <4>2
    <3>3. CASE ~(i <= Len(a))
      <4>1. i - Len(a) \in 1 .. Len(b)
        BY <1>1, <3>1, <3>3
      <4>2. c[i] = b[i - Len(a)] /\ (pa \o pb)[i] = pb[i - Len(a)]
        BY <1>1, <1>2, <2>1, <3>1, <3>3
      <4> QED
        BY <1>3, <3>1, <4>1, <4>2
    <3> QED
      BY <3>2, <3>3
  <2> DEFINE d == pa \o pb
  <2>3. Len(pc1) = Len(d) /\ d \in Seq(Seq(Units)) /\ \A i \in 1 .. Len(pc1) : pc1[i] = d[i]
    BY <1>1, <1>2, <2>1, <2>2
  <2> HIDE DEF d
  <2>4. pc1 = d
    BY <1>2, <2>3, SeqEqual
  <2> QED
    BY <2>4 DEF d
<1>6. FlattenSeq(pa \o pb) = FlattenSeq(pa) \o FlattenSeq(pb)
  BY <1>2, FlattenConcat
<1> QED
  BY <1>4, <1>5, <1>6 DEF c

\* The tokens that are whole: up to the last one that ends between two characters.
WholeTokens(ts) == Max({0} \cup {i \in DOMAIN ts : ts[i] \notin Open})

\* The tokens up to the last that ends on a whole character.
LEMMA WholeIs ==
  ASSUME NEW ts \in Seq(Tokens)
  PROVE  /\ WholeTokens(ts) \in 0 .. Len(ts)
         /\ WholeTokens(ts) \in {0} \cup {i \in DOMAIN ts : ts[i] \notin Open}
         /\ \A i \in DOMAIN ts : ts[i] \notin Open => i <= WholeTokens(ts)
         /\ WholeText(ts) = TextOf(SubSeq(ts, 1, WholeTokens(ts)))
<1> DEFINE set == {0} \cup {i \in DOMAIN ts : ts[i] \notin Open}
           n == Len(ts)
<1>1. n \in Nat /\ set \in SUBSET (0 .. n) /\ set # {}
  OBVIOUS
<1>2. \E m \in set : \A k \in set : m >= k
  <2> HIDE DEF set, n
  <2> QED
    BY <1>1, GreatestOf
<1>3. Max(set) \in set /\ \A k \in set : Max(set) >= k
  BY <1>2 DEF Max
<1>4. WholeTokens(ts) = Max(set)
  BY DEF WholeTokens
<1>5. ASSUME NEW i \in DOMAIN ts, ts[i] \notin Open PROVE i <= Max(set)
  <2>1. i \in set
    BY <1>5
  <2>2. Max(set) \in Int /\ i \in Int
    BY <1>1, <1>3
  <2> QED
    BY <1>3, <2>1, <2>2
<1>6. Max(set) \in 0 .. n
  BY <1>1, <1>3
<1> HIDE DEF n
<1> QED
  BY <1>3, <1>4, <1>5, <1>6 DEF WholeText, WholeTokens, n

\* It is the beginning of the text of all tokens.
LEMMA WholeBegins ==
  ASSUME NEW ts \in Seq(Tokens)
  PROVE  /\ WholeText(ts) \in Seq(Units)
         /\ \E rest \in Seq(Units) : TextOf(ts) = WholeText(ts) \o rest
         /\ ts = <<>> => WholeText(ts) = <<>>
<1> DEFINE k == WholeTokens(ts)
           a == SubSeq(ts, 1, k)
           b == SubSeq(ts, k + 1, Len(ts))
<1>1. k \in 0 .. Len(ts) /\ WholeText(ts) = TextOf(a) /\ Len(ts) \in Nat
  BY WholeIs
<1> HIDE DEF k
<1>2. a \in Seq(Tokens) /\ b \in Seq(Tokens)
  <2>1. (\A i \in 1 .. k : ts[i] \in Tokens) /\ \A i \in (k + 1) .. Len(ts) : ts[i] \in Tokens
    BY <1>1, ElementOfSeq
  <2> QED
    BY <1>1, <2>1, SubSeqProperties
<1>3. ts = a \o b
  <2>1. SubSeq(ts, 1, k) \o SubSeq(ts, k + 1, Len(ts)) = SubSeq(ts, 1, Len(ts))
    <3>1. 1 \in 1 .. (Len(ts) + 1) /\ k \in (1 - 1) .. Len(ts) /\ Len(ts) \in k .. Len(ts)
      BY <1>1
    <3> QED
      BY <3>1, ConcatAdjacentSubSeq
  <2>2. SubSeq(ts, 1, Len(ts)) = ts
    BY SubSeqFull
  <2> QED
    BY <2>1, <2>2
<1> HIDE DEF a, b
<1>4. TextOf(ts) = TextOf(a) \o TextOf(b)
  BY <1>2, <1>3, TextConcat
<1>5. TextOf(a) \in Seq(Units) /\ TextOf(b) \in Seq(Units)
  BY <1>2, TextType
<1>6. ts = <<>> => a = <<>>
  <2>1. ts = <<>> => k = 0
    BY <1>1
  <2>2. k = 0 => a = <<>>
    BY SubSeqEmpty DEF a
  <2> QED
    BY <2>1, <2>2
<1> QED
  BY <1>1, <1>2, <1>4, <1>5, <1>6, TextType

\* A token that ends inside a character adds nothing yet; another adds all that is missing.
LEMMA WholeGrows ==
  ASSUME NEW ts \in Seq(Tokens), NEW t \in Tokens
  PROVE  /\ Delta(Append(ts, t), WholeText(ts)) \in Seq(Units)
         /\ WholeText(ts) \o Delta(Append(ts, t), WholeText(ts)) = WholeText(Append(ts, t))
<1> DEFINE us == Append(ts, t)
           n == Len(ts)
           h == WholeText(ts)
<1>1. us \in Seq(Tokens) /\ Len(us) = n + 1 /\ n \in Nat
      /\ us[n + 1] = t /\ \A i \in 1 .. n : us[i] = ts[i]
  BY AppendProperties
<1>2. us = ts \o <<t>> /\ <<t>> \in Seq(Tokens)
  BY AppendIsConcat
<1>3. Last(us) = t
  BY <1>1 DEF Last
<1>4. h \in Seq(Units) /\ \E rest \in Seq(Units) : TextOf(ts) = h \o rest
  BY WholeBegins
<1>5. /\ WholeTokens(ts) \in 0 .. n
      /\ WholeTokens(ts) \in {0} \cup {i \in DOMAIN ts : ts[i] \notin Open}
      /\ \A i \in DOMAIN ts : ts[i] \notin Open => i <= WholeTokens(ts)
      /\ h = TextOf(SubSeq(ts, 1, WholeTokens(ts)))
  BY WholeIs
<1>6. /\ WholeTokens(us) \in 0 .. (n + 1)
      /\ WholeTokens(us) \in {0} \cup {i \in DOMAIN us : us[i] \notin Open}
      /\ \A i \in DOMAIN us : us[i] \notin Open => i <= WholeTokens(us)
      /\ WholeText(us) = TextOf(SubSeq(us, 1, WholeTokens(us)))
  BY <1>1, WholeIs
<1>7. DOMAIN ts = 1 .. n /\ DOMAIN us = 1 .. (n + 1)
  BY <1>1
<1> HIDE DEF us, h
<1>8. CASE t \in Open
  <2>1. Delta(us, h) = <<>>
    BY <1>3, <1>8 DEF Delta
  <2> DEFINE j == WholeTokens(ts)
             k == WholeTokens(us)
  <2>2. k # n + 1
    BY <1>1, <1>6, <1>8
  <2>3. k \in 0 .. n /\ j \in 0 .. n
    BY <1>1, <1>5, <1>6, <2>2
  <2>4. k <= j
    <3>1. CASE k = 0
      BY <2>3, <3>1
    <3>2. CASE k # 0
      <4>1. k \in 1 .. n /\ ts[k] \notin Open
        BY <1>1, <1>6, <2>3, <3>2
      <4> QED
        BY <1>5, <1>7, <4>1
    <3> QED
      BY <3>1, <3>2
  <2>5. j <= k
    <3>1. CASE j = 0
      BY <2>3, <3>1
    <3>2. CASE j # 0
      <4>1. j \in 1 .. n /\ j \in 1 .. (n + 1) /\ us[j] \notin Open
        BY <1>1, <1>5, <2>3, <3>2
      <4> QED
        BY <1>6, <1>7, <4>1
    <3> QED
      BY <3>1, <3>2
  <2>6. k = j
    BY <2>3, <2>4, <2>5
  <2> HIDE DEF j, k, n
  <2>7. SubSeq(us, 1, k) = SubSeq(ts, 1, k)
    <3>1. SubSeq(us, 1, k) = [i \in 1 .. k |-> us[i]] /\ SubSeq(ts, 1, k) = [i \in 1 .. k |-> ts[i]]
      BY <2>3
    <3>2. \A i \in 1 .. k : us[i] = ts[i]
      BY <1>1, <2>3
    <3> QED
      BY <3>1, <3>2, Zenon
  <2>8. WholeText(us) = h
    BY <1>5, <1>6, <2>6, <2>7 DEF j, k
  <2>9. h \o <<>> = h /\ <<>> \in Seq(Units)
    BY <1>4, ConcatEmptySeq
  <2> QED
    BY <2>1, <2>8, <2>9 DEF us, h
<1>9. CASE t \notin Open
  <2>1. WholeTokens(us) = n + 1
    <3>1. n + 1 \in DOMAIN us /\ us[n + 1] \notin Open
      BY <1>1, <1>7, <1>9
    <3> QED
      BY <1>1, <1>6, <3>1
  <2>2. WholeText(us) = TextOf(us)
    <3>1. SubSeq(us, 1, Len(us)) = us
      BY <1>1, SubSeqFull
    <3> QED
      BY <1>1, <1>6, <2>1, <3>1
  <2>3. PICK rest \in Seq(Units) : TextOf(ts) = h \o rest
    BY <1>4
  <2> DEFINE p == TextOf(<<t>>)
             d == rest \o p
             u == TextOf(us)
  <2>4. p \in Seq(Units)
    BY <1>2, TextType
  <2>5. d \in Seq(Units) /\ u = h \o d
    <3>1. u = TextOf(ts) \o p
      BY <1>2, TextConcat
    <3> HIDE DEF p
    <3>2. d \in Seq(Units)
      BY <2>4, ConcatProperties
    <3>3. (h \o rest) \o p = h \o (rest \o p)
      BY SMTT(30), <1>4, <2>4, ConcatAssociative
    <3> QED
      BY <2>3, <3>1, <3>2, <3>3
  <2>6. Delta(us, h) = SubSeq(u, Len(h) + 1, Len(u))
    BY <1>3, <1>9 DEF Delta
  <2> HIDE DEF d, u
  <2>7. SubSeq(u, Len(h) + 1, Len(u)) = d
    BY <1>4, <2>5, TailOfConcat
  <2> QED
    BY <2>2, <2>5, <2>6, <2>7 DEF us, h, u
<1> QED
  BY <1>8, <1>9

\* A sequence ends with the first n of another.
EndsWith(t, stop, n) == \A i \in 1 .. n : stop[i] = t[(Len(t) - n) + i]

\* That the beginning of a stop string ends a text, unit by unit.
LEMMA SuffixIs ==
  ASSUME NEW t \in Seq(Units), NEW stop \in Seq(Units), NEW n \in 1 .. Len(t), n < Len(stop)
  PROVE  IsSuffix(SubSeq(stop, 1, n), t) <=> EndsWith(t, stop, n)
<1> DEFINE a == SubSeq(stop, 1, n)
           x == Reverse(a)
           y == Reverse(t)
           m == Len(t)
<1>1. m \in Nat /\ Len(stop) \in Nat /\ n \in Nat /\ n <= m /\ 1 <= n
  OBVIOUS
<1>2. a \in Seq(Units) /\ Len(a) = n /\ \A i \in 1 .. n : a[i] = stop[i]
  <2>1. \A i \in 1 .. n : stop[i] \in Units
    BY <1>1, ElementOfSeq
  <2> QED
    BY <1>1, <2>1, SubSeqProperties
<1> HIDE DEF a
<1>3. x = [i \in 1 .. n |-> a[(n - i) + 1]] /\ y = [i \in 1 .. m |-> t[(m - i) + 1]]
  BY <1>2 DEF Reverse
<1>4. /\ x \in Seq(Units) /\ Len(x) = n /\ \A i \in 1 .. n : x[i] = a[(n - i) + 1]
      /\ y \in Seq(Units) /\ Len(y) = m /\ \A i \in 1 .. m : y[i] = t[(m - i) + 1]
  <2>1. \A i \in 1 .. n : a[(n - i) + 1] \in Units
    <3>1. ASSUME NEW i \in 1 .. n PROVE a[(n - i) + 1] \in Units
      <4>1. (n - i) + 1 \in 1 .. Len(a)
        BY <1>1, <1>2
      <4> QED
        BY <1>2, <4>1, ElementOfSeq
    <3> QED
      BY <3>1
  <2>2. \A i \in 1 .. m : t[(m - i) + 1] \in Units
    <3>1. ASSUME NEW i \in 1 .. m PROVE t[(m - i) + 1] \in Units
      <4>1. (m - i) + 1 \in 1 .. Len(t)
        BY <1>1
      <4> QED
        BY <4>1, ElementOfSeq
    <3> QED
      BY <3>1
  <2>3. x \in [1 .. n -> Units] /\ \A i \in 1 .. n : x[i] = a[(n - i) + 1]
    <3> HIDE DEF x
    <3> QED
      BY <1>3, <2>1
  <2>4. y \in [1 .. m -> Units] /\ \A i \in 1 .. m : y[i] = t[(m - i) + 1]
    <3> HIDE DEF y
    <3> QED
      BY <1>3, <2>2
  <2> HIDE DEF x, y, m
  <2>5. x \in Seq(Units) /\ Len(x) = n
    BY <1>1, <2>3
  <2>6. y \in Seq(Units) /\ Len(y) = m
    BY <1>1, <2>4
  <2> QED
    BY <2>3, <2>4, <2>5, <2>6
<1> HIDE DEF x, y, m
<1>5. IsPrefix(x, y) <=> \A i \in 1 .. n : x[i] = y[i]
  <2>1. SubSeq(x, 1, n) = [i \in 1 .. n |-> x[i]] /\ SubSeq(y, 1, n) = [i \in 1 .. n |-> y[i]]
    BY <1>1
  <2>2. (\A i \in 1 .. n : x[i] = y[i]) => SubSeq(x, 1, n) = SubSeq(y, 1, n)
    BY <2>1, Zenon
  <2>3. SubSeq(x, 1, n) = SubSeq(y, 1, n) => \A i \in 1 .. n : x[i] = y[i]
    <3>1. ASSUME SubSeq(x, 1, n) = SubSeq(y, 1, n), NEW i \in 1 .. n PROVE x[i] = y[i]
      <4>1. SubSeq(x, 1, n)[i] = x[i] /\ SubSeq(y, 1, n)[i] = y[i]
        BY <2>1
      <4> QED
        BY <3>1, <4>1
    <3> QED
      BY <3>1
  <2> QED
    BY <1>1, <1>4, <2>2, <2>3 DEF IsPrefix
<1>6. ASSUME NEW i \in 1 .. n
      PROVE  /\ (n - i) + 1 \in 1 .. n /\ (n - ((n - i) + 1)) + 1 = i
             /\ (m - ((n - i) + 1)) + 1 = (m - n) + i /\ i \in 1 .. m
             /\ x[i] = stop[(n - i) + 1] /\ y[i] = t[(m - i) + 1]
  <2>1. (n - i) + 1 \in 1 .. n /\ i \in 1 .. m
    BY <1>1
  <2>2. x[i] = stop[(n - i) + 1] /\ y[i] = t[(m - i) + 1]
    BY <1>2, <1>4, <2>1
  <2> QED
    BY <1>1, <2>1, <2>2
<1>7. ASSUME \A i \in 1 .. n : x[i] = y[i], NEW i \in 1 .. n PROVE stop[i] = t[(m - n) + i]
  <2> DEFINE j == (n - i) + 1
  <2>1. j \in 1 .. n /\ (n - j) + 1 = i /\ (m - j) + 1 = (m - n) + i
    BY <1>6
  <2> HIDE DEF j
  <2>2. x[j] = stop[(n - j) + 1] /\ y[j] = t[(m - j) + 1] /\ x[j] = y[j]
    BY <1>6, <1>7, <2>1
  <2> QED
    BY <2>1, <2>2
<1>8. ASSUME \A i \in 1 .. n : stop[i] = t[(m - n) + i], NEW i \in 1 .. n PROVE x[i] = y[i]
  <2> DEFINE j == (n - i) + 1
  <2>1. j \in 1 .. n /\ (m - n) + j = (m - i) + 1
    BY <1>1
  <2>2. x[i] = stop[j] /\ y[i] = t[(m - i) + 1]
    BY <1>6
  <2> HIDE DEF j
  <2>3. stop[j] = t[(m - n) + j]
    BY <1>8, <2>1
  <2> QED
    BY <2>1, <2>2, <2>3
<1> QED
  BY <1>5, <1>7, <1>8 DEF IsSuffix, EndsWith, a, x, y, m

\* What is held back is the longest such end.
LEMMA HeldIs ==
  ASSUME NEW t \in Seq(Units)
  PROVE  /\ HeldBack(t) \in 0 .. Len(t)
         /\ \A n \in 1 .. Len(t) : \A stop \in Stops :
              n < Len(stop) /\ EndsWith(t, stop, n) => n <= HeldBack(t)
         /\ HeldBack(t) # 0 =>
              \E stop \in Stops : HeldBack(t) < Len(stop) /\ EndsWith(t, stop, HeldBack(t))
<1> DEFINE m == Len(t)
           ends == {n \in 1 .. m : \E stop \in Stops : n < Len(stop) /\ IsSuffix(SubSeq(stop, 1, n), t)}
           set == {0} \cup ends
<1>1. m \in Nat
  OBVIOUS
<1>2. set \in SUBSET (0 .. m) /\ set # {}
  BY <1>1
<1>3. \E x \in set : \A y \in set : x >= y
  <2> HIDE DEF set, m
  <2> QED
    BY <1>1, <1>2, GreatestOf
<1>4. Max(set) \in set /\ \A y \in set : Max(set) >= y
  BY <1>3 DEF Max
<1>5. HeldBack(t) = Max(set)
  BY DEF HeldBack
<1>6. HeldBack(t) \in 0 .. m
  BY <1>2, <1>4, <1>5
<1>7. \A n \in 1 .. m : \A stop \in Stops :
        n < Len(stop) => (IsSuffix(SubSeq(stop, 1, n), t) <=> EndsWith(t, stop, n))
  BY SuffixIs, UnitsAre
<1>8. ASSUME NEW n \in 1 .. m, NEW stop \in Stops, n < Len(stop), EndsWith(t, stop, n)
      PROVE  n <= HeldBack(t)
  <2>1. IsSuffix(SubSeq(stop, 1, n), t)
    BY <1>7, <1>8
  <2>2. n \in set
    BY <1>8, <2>1
  <2>3. HeldBack(t) >= n
    BY <1>4, <1>5, <2>2
  <2> HIDE DEF set, m
  <2> QED
    BY <1>1, <1>6, <2>3
<1>9. ASSUME HeldBack(t) # 0
      PROVE  \E stop \in Stops : HeldBack(t) < Len(stop) /\ EndsWith(t, stop, HeldBack(t))
  <2>1. HeldBack(t) \in ends
    BY <1>4, <1>5, <1>9
  <2> HIDE DEF m
  <2> QED
    BY <1>7, <2>1
<1> QED
  BY <1>6, <1>8, <1>9

\* No more is held back of a text that grows than before, and what it grew by: what may be
\* shown is never taken back.
LEMMA HeldGrows ==
  ASSUME NEW t \in Seq(Units), NEW d \in Seq(Units)
  PROVE  HeldBack(t \o d) <= HeldBack(t) + Len(d)
<1> DEFINE u == t \o d
           n == HeldBack(u)
           k == n - Len(d)
<1>1. /\ u \in Seq(Units) /\ Len(u) = Len(t) + Len(d) /\ Len(t) \in Nat /\ Len(d) \in Nat
      /\ \A i \in 1 .. Len(t) + Len(d) : u[i] = IF i <= Len(t) THEN t[i] ELSE d[i - Len(t)]
  BY ConcatProperties
<1> HIDE DEF u
<1>2. n \in 0 .. Len(u) /\ HeldBack(t) \in 0 .. Len(t)
  BY <1>1, HeldIs
<1>3. n # 0 => \E stop \in Stops : n < Len(stop) /\ EndsWith(u, stop, n)
  BY <1>1, HeldIs
<1> HIDE DEF n
<1>4. CASE n <= Len(d)
  BY <1>1, <1>2, <1>4 DEF n, u
<1>5. CASE ~(n <= Len(d))
  <2>1. n # 0 /\ k \in 1 .. Len(t)
    BY <1>1, <1>2, <1>5
  <2>2. PICK stop \in Stops : n < Len(stop) /\ EndsWith(u, stop, n)
    BY <1>3, <2>1
  <2>3. Len(stop) \in Nat
    BY UnitsAre, LenProperties
  <2>4. k < Len(stop)
    BY <1>1, <1>2, <2>2, <2>3
  <2>5. ASSUME NEW i \in 1 .. k PROVE stop[i] = t[(Len(t) - k) + i]
    <3>1. i \in 1 .. n /\ (Len(u) - n) + i = (Len(t) - k) + i
          /\ (Len(t) - k) + i \in 1 .. Len(t) + Len(d) /\ (Len(t) - k) + i <= Len(t)
      BY <1>1, <1>2, <2>1
    <3>2. stop[i] = u[(Len(u) - n) + i]
      BY <2>2, <3>1 DEF EndsWith
    <3> DEFINE j == (Len(t) - k) + i
    <3>3. j \in 1 .. Len(t) + Len(d) /\ j <= Len(t) /\ (Len(u) - n) + i = j
      BY <3>1
    <3> HIDE DEF j
    <3>4. u[j] = t[j]
      BY <1>1, <3>3
    <3> QED
      BY <3>2, <3>3, <3>4 DEF j
  <2>6. EndsWith(t, stop, k)
    BY <2>5 DEF EndsWith
  <2> HIDE DEF k
  <2>7. k <= HeldBack(t)
    BY <2>1, <2>4, <2>6, HeldIs
  <2>8. n <= HeldBack(t) + Len(d)
    BY <1>1, <1>2, <2>1, <2>7 DEF k
  <2> QED
    BY <2>8 DEF n, u
<1> QED
  BY <1>4, <1>5

\* That a stop string stands at a place of a text, unit by unit.
LEMMA OccursIs ==
  ASSUME NEW t \in Seq(Units), NEW stop \in Stops, NEW k \in 1 .. Len(t)
  PROVE  Occurs(stop, t, k) <=>
           k + Len(stop) - 1 <= Len(t) /\ \A i \in 1 .. Len(stop) : t[(k + i) - 1] = stop[i]
<1> DEFINE n == Len(stop)
           x == SubSeq(t, k, k + n - 1)
<1>1. n \in Nat /\ stop \in Seq(Units) /\ Len(t) \in Nat
  BY UnitsAre, LenProperties
<1>2. SUFFICES ASSUME k + n - 1 <= Len(t)
               PROVE  x = stop <=> \A i \in 1 .. n : t[(k + i) - 1] = stop[i]
  BY DEF Occurs
<1> HIDE DEF n
<1>3. x \in Seq(Units) /\ Len(x) = n /\ \A i \in 1 .. n : x[i] = t[(k + i) - 1]
  <2>1. \A i \in k .. (k + n - 1) : t[i] \in Units
    <3>1. ASSUME NEW i \in k .. (k + n - 1) PROVE t[i] \in Units
      <4>1. i \in 1 .. Len(t)
        BY <1>1, <1>2
      <4> QED
        BY <4>1, ElementOfSeq
    <3> QED
      BY <3>1
  <2>2. (k + n - 1) - k + 1 = n /\ k + n - 1 \in Int /\ (k <= k + n - 1 <=> n # 0)
    BY <1>1
  <2>3. /\ x \in Seq(Units) /\ Len(x) = IF k <= k + n - 1 THEN (k + n - 1) - k + 1 ELSE 0
        /\ \A i \in 1 .. (k + n - 1) - k + 1 : x[i] = t[k + i - 1]
    <3> DEFINE e == k + n - 1
    <3>1. e \in Int /\ k \in Int /\ \A i \in k .. e : t[i] \in Units
      BY <2>1, <2>2
    <3> HIDE DEF e
    <3>2. /\ SubSeq(t, k, e) \in Seq(Units)
          /\ Len(SubSeq(t, k, e)) = IF k <= e THEN e - k + 1 ELSE 0
          /\ \A i \in 1 .. e - k + 1 : SubSeq(t, k, e)[i] = t[k + i - 1]
      BY <3>1, SubSeqProperties
    <3> QED
      BY <3>2 DEF e
  <2> HIDE DEF x
  <2> QED
    BY <1>1, <2>2, <2>3
<1> HIDE DEF x
<1>4. (\A i \in 1 .. n : x[i] = stop[i]) => x = stop
  BY <1>1, <1>3, SeqEqual DEF n
<1> QED
  BY <1>3, <1>4

\* The beginnings of a sequence, one of another.
LEMMA FirstParts ==
  ASSUME NEW S, NEW s \in Seq(S), NEW n \in 0 .. Len(s), NEW m \in 0 .. n
  PROVE  /\ SubSeq(s, 1, m) \in Seq(S) /\ Len(SubSeq(s, 1, m)) = m
         /\ SubSeq(s, m + 1, n) \in Seq(S)
         /\ SubSeq(s, 1, m) \o SubSeq(s, m + 1, n) = SubSeq(s, 1, n)
<1>1. Len(s) \in Nat /\ n \in Nat /\ m \in Nat /\ m <= n /\ n <= Len(s)
  BY LenProperties
<1>2. (\A i \in 1 .. m : s[i] \in S) /\ \A i \in (m + 1) .. n : s[i] \in S
  <2>1. ASSUME NEW i \in 1 .. n PROVE s[i] \in S
    <3>1. i \in 1 .. Len(s)
      BY <1>1
    <3> QED
      BY <3>1, ElementOfSeq
  <2>2. (\A i \in 1 .. m : i \in 1 .. n) /\ \A i \in (m + 1) .. n : i \in 1 .. n
    BY <1>1
  <2> QED
    BY <2>1, <2>2
<1>3. SubSeq(s, 1, m) \in Seq(S) /\ Len(SubSeq(s, 1, m)) = m
  BY <1>1, <1>2, SubSeqProperties
<1>4. SubSeq(s, m + 1, n) \in Seq(S)
  BY <1>1, <1>2, SubSeqProperties
<1>5. SubSeq(s, 1, m) \o SubSeq(s, m + 1, n) = SubSeq(s, 1, n)
  <2>1. 1 \in 1 .. (Len(s) + 1) /\ m \in (1 - 1) .. Len(s) /\ n \in m .. Len(s)
    BY <1>1
  <2> QED
    BY <2>1, ConcatAdjacentSubSeq
<1> QED
  BY <1>3, <1>4, <1>5

\* A sequence that is extended begins as it did.
LEMMA SameStart ==
  ASSUME NEW S, NEW s \in Seq(S), NEW t \in Seq(S), NEW m \in 0 .. Len(s)
  PROVE  SubSeq(s \o t, 1, m) = SubSeq(s, 1, m)
<1>1. Len(s) \in Nat /\ m \in Nat /\ m <= Len(s) /\ Len(t) \in Nat
  BY LenProperties
<1>2. CASE m = 0
  BY <1>2, SubSeqEmpty
<1>3. CASE m # 0
  <2>1. 1 \in 1 .. Len(s) /\ m \in 1 .. Len(s)
    BY <1>1, <1>3
  <2> QED
    BY <2>1, SubSeqOfConcat1
<1> QED
  BY <1>2, <1>3

\* A stop string that comes after a text without one begins where nothing is shown yet.
LEMMA StopIsBeyond ==
  ASSUME NEW t \in Seq(Units), NEW d \in Seq(Units), StopsIn(t) = {}, NEW k \in StopsIn(t \o d)
  PROVE  k > Len(t) - HeldBack(t)
<1> DEFINE u == t \o d
<1>1. /\ u \in Seq(Units) /\ Len(u) = Len(t) + Len(d) /\ Len(t) \in Nat /\ Len(d) \in Nat
      /\ \A i \in 1 .. (Len(t) + Len(d)) : u[i] = IF i <= Len(t) THEN t[i] ELSE d[i - Len(t)]
  <2>1. /\ u \in Seq(Units) /\ Len(u) = Len(t) + Len(d) /\ Len(t) \in Nat /\ Len(d) \in Nat
        /\ \A i \in 1 .. Len(t) + Len(d) : u[i] = IF i <= Len(t) THEN t[i] ELSE d[i - Len(t)]
    BY ConcatProperties
  <2> QED
    BY <2>1
<1>2. PICK stop \in Stops : k \in 1 .. Len(u) /\ stop # <<>> /\ Occurs(stop, u, k)
  BY DEF StopsIn
<1> HIDE DEF u
<1>3. Len(stop) \in Nat /\ Len(stop) # 0
  BY <1>2, UnitsAre, LenProperties, EmptySeq
<1>4. k + Len(stop) - 1 <= Len(u) /\ \A i \in 1 .. Len(stop) : u[(k + i) - 1] = stop[i]
  BY <1>1, <1>2, OccursIs
<1>5. HeldBack(t) \in 0 .. Len(t)
  BY HeldIs
<1>6. SUFFICES ASSUME k <= Len(t) - HeldBack(t) PROVE FALSE
  BY <1>1, <1>2, <1>5
<1>7. k \in 1 .. Len(t)
  BY <1>1, <1>2, <1>5, <1>6
<1>8. CASE k + Len(stop) - 1 <= Len(t)
  <2>1. ASSUME NEW i \in 1 .. Len(stop) PROVE t[(k + i) - 1] = stop[i]
    <3> DEFINE j == (k + i) - 1
    <3>1. j \in 1 .. (Len(t) + Len(d)) /\ j <= Len(t)
      BY <1>1, <1>3, <1>7, <1>8
    <3>2. u[j] = stop[i]
      BY <1>4
    <3> HIDE DEF j
    <3>3. u[j] = t[j]
      BY <1>1, <3>1
    <3> QED
      BY <3>2, <3>3 DEF j
  <2>2. Occurs(stop, t, k)
    BY <1>7, <1>8, <2>1, OccursIs
  <2>3. k \in StopsIn(t)
    BY <1>2, <1>7, <2>2 DEF StopsIn
  <2> QED
    BY <2>3
<1>9. CASE ~(k + Len(stop) - 1 <= Len(t))
  <2> DEFINE n == (Len(t) - k) + 1
  <2>1. n \in 1 .. Len(t) /\ n < Len(stop)
    BY <1>1, <1>3, <1>7, <1>9
  <2>2. ASSUME NEW i \in 1 .. n PROVE stop[i] = t[(Len(t) - n) + i]
    <3> DEFINE j == (k + i) - 1
    <3>1. /\ j \in 1 .. (Len(t) + Len(d)) /\ j <= Len(t) /\ i \in 1 .. Len(stop)
          /\ (Len(t) - n) + i = j
      BY <1>1, <1>3, <1>7, <2>1
    <3>2. u[j] = stop[i]
      BY <1>4, <3>1
    <3> HIDE DEF j
    <3>3. u[j] = t[j]
      BY <1>1, <3>1
    <3> QED
      BY <3>1, <3>2, <3>3
  <2>3. EndsWith(t, stop, n)
    BY <2>2 DEF EndsWith
  <2>4. n <= HeldBack(t)
    <3> HIDE DEF n
    <3> QED
      BY <2>1, <2>3, HeldIs
  <2> QED
    BY <1>1, <1>5, <1>6, <1>7, <2>4
<1> QED
  BY <1>8, <1>9

\* Cutting at the earliest stop string.
LEMMA CutIs ==
  ASSUME NEW t \in Seq(Units)
  PROVE  /\ StopsIn(t) = {} => Cut(t) = t
         /\ StopsIn(t) # {} => \E k \in StopsIn(t) :
              Cut(t) = SubSeq(t, 1, k - 1) /\ k - 1 \in 0 .. Len(t)
         /\ Cut(t) \in Seq(Units)
<1>1. Len(t) \in Nat
  BY LenProperties
<1>2. StopsIn(t) = {} => Cut(t) = t
  BY DEF Cut
<1>3. CASE StopsIn(t) # {}
  <2>1. StopsIn(t) \in SUBSET Nat /\ StopsIn(t) \subseteq 1 .. Len(t)
    BY DEF StopsIn
  <2>2. \E m \in StopsIn(t) : \A k \in StopsIn(t) : m <= k
    BY <1>3, <2>1, LeastOf
  <2>3. Min(StopsIn(t)) \in StopsIn(t)
    BY <2>2 DEF Min
  <2> DEFINE k == Min(StopsIn(t))
  <2>4. Cut(t) = SubSeq(t, 1, k - 1)
    BY <1>3 DEF Cut
  <2> HIDE DEF k
  <2>5. k \in StopsIn(t) /\ k - 1 \in 0 .. Len(t)
    BY <1>1, <2>1, <2>3 DEF k
  <2>6. SubSeq(t, 1, k - 1) \in Seq(Units)
    <3>1. Len(t) \in 0 .. Len(t) /\ k - 1 \in 0 .. Len(t)
      BY <1>1, <2>5
    <3> QED
      BY <3>1, FirstParts
  <2> QED
    BY <1>3, <2>4, <2>5, <2>6
<1> QED
  BY <1>2, <1>3

\* What may be shown next continues what was shown.
LEMMA ShowsOn ==
  ASSUME NEW t \in Seq(Units), NEW d \in Seq(Units), StopsIn(t) = {}
  PROVE  /\ Safe(t) \in Seq(Units) /\ Safe(t \o d) \in Seq(Units)
         /\ \E rest \in Seq(Units) :
              (IF StopsIn(t \o d) # {} THEN Cut(t \o d) ELSE Safe(t \o d)) = Safe(t) \o rest
<1> DEFINE u == t \o d
           m == Len(t) - HeldBack(t)
           out == IF StopsIn(u) # {} THEN Cut(u) ELSE Safe(u)
<1>1. u \in Seq(Units) /\ Len(u) = Len(t) + Len(d) /\ Len(t) \in Nat /\ Len(d) \in Nat
  BY ConcatProperties, LenProperties
<1>2. /\ HeldBack(t) \in 0 .. Len(t) /\ HeldBack(u) <= HeldBack(t) + Len(d)
  BY HeldIs, HeldGrows
<1>3. StopsIn(u) # {} => \E k \in StopsIn(u) : Cut(u) = SubSeq(u, 1, k - 1) /\ k - 1 \in 0 .. Len(u)
  BY <1>1, CutIs
<1>4. \A k \in StopsIn(u) : k > Len(t) - HeldBack(t)
  BY StopIsBeyond
<1>5. SubSeq(u, 1, m) = Safe(t) /\ m \in 0 .. Len(t)
  <2>1. m \in 0 .. Len(t)
    BY <1>1, <1>2
  <2>2. Safe(t) = SubSeq(t, 1, m)
    BY DEF Safe
  <2> HIDE DEF m
  <2> QED
    BY <2>1, <2>2, SameStart
<1> HIDE DEF u
<1>6. HeldBack(u) \in 0 .. Len(u)
  BY <1>1, HeldIs
<1>7. \E n \in 0 .. Len(u) : out = SubSeq(u, 1, n) /\ m <= n
  <2>1. CASE StopsIn(u) # {}
    <3>1. PICK k \in StopsIn(u) : Cut(u) = SubSeq(u, 1, k - 1) /\ k - 1 \in 0 .. Len(u)
      BY <1>3, <2>1
    <3>2. k \in Int /\ k > m
      BY <1>1, <1>4 DEF StopsIn
    <3>3. m <= k - 1
      BY <1>1, <1>5, <3>2
    <3> QED
      BY <2>1, <3>1, <3>3
  <2>2. CASE StopsIn(u) = {}
    <3>1. out = SubSeq(u, 1, Len(u) - HeldBack(u))
      BY <2>2 DEF Safe
    <3>2. Len(u) - HeldBack(u) \in 0 .. Len(u) /\ m <= Len(u) - HeldBack(u)
      BY <1>1, <1>2, <1>6
    <3> QED
      BY <3>1, <3>2
  <2> QED
    BY <2>1, <2>2
<1>8. PICK n \in 0 .. Len(u) : out = SubSeq(u, 1, n) /\ m <= n
  BY <1>7
<1>9. m \in 0 .. n /\ m \in 0 .. Len(u)
  BY <1>1, <1>5, <1>8
<1>10. SubSeq(u, 1, m) \in Seq(Units) /\ \E rest \in Seq(Units) : SubSeq(u, 1, n) = SubSeq(u, 1, m) \o rest
  <2> HIDE DEF m, out
  <2>1. SubSeq(u, 1, m) \in Seq(Units)
    BY <1>1, <1>9, FirstParts
  <2>2. /\ SubSeq(u, m + 1, n) \in Seq(Units)
        /\ SubSeq(u, 1, m) \o SubSeq(u, m + 1, n) = SubSeq(u, 1, n)
    BY <1>1, <1>9, FirstParts
  <2> QED
    BY <2>1, <2>2
<1>11. Safe(u) \in Seq(Units)
  <2>1. Len(u) - HeldBack(u) \in 0 .. Len(u) /\ Len(u) \in 0 .. Len(u)
    BY SMTT(30), <1>1, <1>6
  <2> QED
    BY <1>1, <2>1, FirstParts DEF Safe
<1> QED
  BY <1>5, <1>8, <1>10, <1>11 DEF u

\* What is shown of a text is the beginning of it.
LEMMA SafeBegins ==
  ASSUME NEW t \in Seq(Units)
  PROVE  /\ Safe(t) \in Seq(Units) /\ \E rest \in Seq(Units) : t = Safe(t) \o rest
         /\ t = <<>> => Safe(t) = <<>>
<1> DEFINE m == Len(t) - HeldBack(t)
<1>1. HeldBack(t) \in 0 .. Len(t) /\ Len(t) \in Nat
  BY HeldIs
<1>2. m \in 0 .. Len(t) /\ Len(t) \in 0 .. Len(t) /\ Safe(t) = SubSeq(t, 1, m)
  BY <1>1 DEF Safe
<1>3. SubSeq(t, 1, Len(t)) = t
  BY SubSeqFull
<1> HIDE DEF m
<1>4. SubSeq(t, 1, m) \in Seq(Units)
  BY <1>2, FirstParts
<1>6. /\ SubSeq(t, m + 1, Len(t)) \in Seq(Units)
      /\ SubSeq(t, 1, m) \o SubSeq(t, m + 1, Len(t)) = SubSeq(t, 1, Len(t))
  <2> DEFINE n == Len(t)
  <2>1. n \in 0 .. Len(t) /\ m \in 0 .. n
    BY <1>2
  <2> HIDE DEF n
  <2>2. SubSeq(t, m + 1, n) \in Seq(Units) /\ SubSeq(t, 1, m) \o SubSeq(t, m + 1, n) = SubSeq(t, 1, n)
    BY <2>1, FirstParts
  <2> QED
    BY <2>2 DEF n
<1>5. ASSUME t = <<>> PROVE Safe(t) = <<>>
  <2>1. m = 0
    BY <1>1, <1>2, <1>5
  <2> QED
    BY <1>2, <2>1, SubSeqEmpty
<1> QED
  BY <1>2, <1>3, <1>4, <1>5, <1>6

-----------------------------------------------------------------------------
(* Frames.                                                                  *)

Frames ==
  [is : {"role", "echo", "text", "body", "finish", "usage", "done", "error"}, text : Seq(Units)]
Said(f) == IF f.is = "text" THEN f.text ELSE <<>>

\* The text sent is what the frames say, one after the other.
LEMMA SaidOf ==
  ASSUME NEW fs \in Seq(Frames)
  PROVE  /\ [i \in DOMAIN fs |-> Said(fs[i])] \in Seq(Seq(Units))
         /\ Len([i \in DOMAIN fs |-> Said(fs[i])]) = Len(fs)
         /\ TextSent(fs) = FlattenSeq([i \in DOMAIN fs |-> Said(fs[i])])
<1>1. DOMAIN fs = 1 .. Len(fs) /\ Len(fs) \in Nat
  OBVIOUS
<1>2. ASSUME NEW i \in 1 .. Len(fs) PROVE Said(fs[i]) \in Seq(Units)
  <2>1. fs[i] \in Frames
    BY ElementOfSeq
  <2> QED
    BY <2>1 DEF Frames, Said
<1>3. [i \in 1 .. Len(fs) |-> Said(fs[i])] \in Seq(Seq(Units))
  BY <1>1, <1>2
<1>4. [i \in DOMAIN fs |-> IF fs[i].is = "text" THEN fs[i].text ELSE <<>>]
        = [i \in DOMAIN fs |-> Said(fs[i])]
  BY DEF Said
<1>5. TextSent(fs) = FlattenSeq([i \in DOMAIN fs |-> Said(fs[i])])
  BY <1>4 DEF TextSent
<1> QED
  BY <1>1, <1>3, <1>5

\* The text sent is a string of units.
LEMMA SentType ==
  ASSUME NEW fs \in Seq(Frames)
  PROVE  TextSent(fs) \in Seq(Units) /\ (fs = <<>> => TextSent(fs) = <<>>)
<1> DEFINE ps == [i \in DOMAIN fs |-> Said(fs[i])]
<1>1. ps \in Seq(Seq(Units)) /\ Len(ps) = Len(fs) /\ TextSent(fs) = FlattenSeq(ps)
  BY SaidOf
<1>2. fs = <<>> => ps = <<>>
  BY <1>1, EmptySeq
<1> HIDE DEF ps
<1> QED
  BY <1>1, <1>2, FlattenType

\* What is sent in two lots is sent.
LEMMA SentConcat ==
  ASSUME NEW a \in Seq(Frames), NEW b \in Seq(Frames)
  PROVE  TextSent(a \o b) = TextSent(a) \o TextSent(b)
<1> DEFINE c == a \o b
           pa == [i \in DOMAIN a |-> Said(a[i])]
           pb == [i \in DOMAIN b |-> Said(b[i])]
           pab == [i \in DOMAIN c |-> Said(c[i])]
<1>1. c \in Seq(Frames) /\ Len(c) = Len(a) + Len(b) /\ Len(a) \in Nat /\ Len(b) \in Nat
      /\ \A i \in 1 .. Len(a) + Len(b) : c[i] = IF i <= Len(a) THEN a[i] ELSE b[i - Len(a)]
  BY ConcatProperties
<1> HIDE DEF c
<1>2. /\ pa \in Seq(Seq(Units)) /\ Len(pa) = Len(a) /\ TextSent(a) = FlattenSeq(pa)
      /\ pb \in Seq(Seq(Units)) /\ Len(pb) = Len(b) /\ TextSent(b) = FlattenSeq(pb)
      /\ pab \in Seq(Seq(Units)) /\ Len(pab) = Len(c) /\ TextSent(c) = FlattenSeq(pab)
  BY <1>1, SaidOf
<1>3. /\ \A i \in 1 .. Len(a) : pa[i] = Said(a[i])
      /\ \A i \in 1 .. Len(b) : pb[i] = Said(b[i])
      /\ \A i \in 1 .. Len(c) : pab[i] = Said(c[i])
  BY <1>1
<1> HIDE DEF pa, pb, pab
<1>4. pab = pa \o pb
  <2> DEFINE d == pa \o pb
  <2>1. /\ d \in Seq(Seq(Units)) /\ Len(d) = Len(pa) + Len(pb)
        /\ \A i \in 1 .. Len(pa) + Len(pb) : d[i] = IF i <= Len(pa) THEN pa[i] ELSE pb[i - Len(pa)]
    BY <1>2, ConcatProperties
  <2> HIDE DEF d
  <2>2. ASSUME NEW i \in 1 .. Len(pab) PROVE pab[i] = d[i]
    <3>1. i \in 1 .. (Len(a) + Len(b)) /\ i \in 1 .. Len(c)
      BY <1>1, <1>2
    <3>2. CASE i <= Len(a)
      <4>1. i \in 1 .. Len(a)
        BY <1>1, <3>1, <3>2
      <4>2. c[i] = a[i] /\ d[i] = pa[i]
        BY <1>1, <1>2, <2>1, <3>1, <3>2
      <4> QED
        BY <1>3, <3>1, <4>1, <4>2
    <3>3. CASE ~(i <= Len(a))
      <4>1. i - Len(a) \in 1 .. Len(b)
        BY <1>1, <3>1, <3>3
      <4>2. c[i] = b[i - Len(a)] /\ d[i] = pb[i - Len(a)]
        BY <1>1, <1>2, <2>1, <3>1, <3>3
      <4> QED
        BY <1>3, <3>1, <4>1, <4>2
    <3> QED
      BY <3>2, <3>3
  <2>3. Len(pab) = Len(d)
    BY <1>1, <1>2, <2>1
  <2>4. pab = d
    BY <1>2, <2>1, <2>2, <2>3, SeqEqual
  <2> QED
    BY <2>4 DEF d
<1>5. FlattenSeq(pa \o pb) = FlattenSeq(pa) \o FlattenSeq(pb)
  BY <1>2, FlattenConcat
<1> QED
  BY <1>2, <1>4, <1>5 DEF c

\* The text of one frame.
LEMMA SentOne ==
  ASSUME NEW f \in Frames
  PROVE  <<f>> \in Seq(Frames) /\ TextSent(<<f>>) = Said(f)
<1> DEFINE fs == <<f>>
           ps == [i \in DOMAIN fs |-> Said(fs[i])]
<1>1. fs \in Seq(Frames) /\ Len(fs) = 1 /\ fs[1] = f
  OBVIOUS
<1>2. ps \in Seq(Seq(Units)) /\ Len(ps) = Len(fs) /\ TextSent(fs) = FlattenSeq(ps)
  BY <1>1, SaidOf
<1>3. ps[1] = Said(f)
  BY <1>1
<1> HIDE DEF ps
<1>4. Said(f) \in Seq(Units) /\ <<>> \in Seq(Seq(Units))
  BY DEF Said, Frames
<1>5. ps = Append(<<>>, Said(f))
  BY <1>1, <1>2, <1>3
<1>6. FlattenSeq(Append(<<>>, Said(f))) = FlattenSeq(<<>>) \o Said(f)
  BY <1>4, FlattenAppend
<1>7. FlattenSeq(<<>>) = <<>>
  BY <1>4, FlattenType
<1>8. <<>> \o Said(f) = Said(f)
  BY <1>4, ConcatEmptySeq
<1> QED
  BY <1>1, <1>2, <1>5, <1>6, <1>7, <1>8

\* Frames that carry no text say nothing.
LEMMA SaysNothing ==
  ASSUME NEW fs \in Seq(Frames), \A i \in DOMAIN fs : fs[i].is # "text"
  PROVE  TextSent(fs) = <<>>
<1> DEFINE silent == {k \in Nat : \A gs \in Seq(Frames) :
              Len(gs) = k /\ (\A i \in DOMAIN gs : gs[i].is # "text") => TextSent(gs) = <<>>}
<1>1. 0 \in silent
  <2>1. ASSUME NEW gs \in Seq(Frames), Len(gs) = 0 PROVE TextSent(gs) = <<>>
    <3>1. gs = <<>>
      BY <2>1, EmptySeq
    <3> QED
      BY <3>1, SentType
  <2> QED
    BY <2>1
<1>2. ASSUME NEW k \in Nat, k \in silent PROVE k + 1 \in silent
  <2>1. ASSUME NEW gs \in Seq(Frames), Len(gs) = k + 1, \A i \in DOMAIN gs : gs[i].is # "text"
        PROVE  TextSent(gs) = <<>>
    <3>1. gs # <<>>
      BY <2>1
    <3>2. PICK hs \in Seq(Frames), f \in Frames : gs = Append(hs, f)
      BY <3>1, SequenceEmptyOrAppend
    <3>3. /\ Len(hs) = k /\ DOMAIN gs = 1 .. (k + 1) /\ DOMAIN hs = 1 .. k
          /\ \A i \in 1 .. k : gs[i] = hs[i]
          /\ gs[k + 1] = f
      BY <2>1, <3>2
    <3>4. f.is # "text" /\ \A i \in DOMAIN hs : hs[i].is # "text"
      <4>1. k + 1 \in DOMAIN gs /\ \A i \in 1 .. k : i \in DOMAIN gs
        BY <3>3
      <4> QED
        BY <2>1, <3>3, <4>1
    <3>5. TextSent(hs) = <<>>
      BY <1>2, <3>3, <3>4
    <3>6. gs = hs \o <<f>>
      BY <3>2, AppendIsConcat
    <3>7. TextSent(gs) = TextSent(hs) \o TextSent(<<f>>)
      BY <3>6, SentConcat, SentOne
    <3>8. TextSent(<<f>>) = <<>>
      BY <3>4, SentOne DEF Said
    <3> QED
      BY <3>5, <3>7, <3>8
  <2> QED
    BY <2>1
<1>3. Len(fs) \in silent
  <2> HIDE DEF silent
  <2> QED
    BY <1>1, <1>2, Ladder, LenProperties
<1> QED
  BY <1>3

\* A text in its frame, or no frame for no text.
LEMMA SentText ==
  ASSUME NEW t \in Seq(Units)
  PROVE  /\ TextFrames(t) \in Seq(Frames) /\ TextSent(TextFrames(t)) = t
         /\ \A i \in DOMAIN TextFrames(t) : TextFrames(t)[i].is = "text"
<1>1. CASE t = <<>>
  <2>1. TextFrames(t) = <<>> /\ <<>> \in Seq(Frames)
    BY <1>1 DEF TextFrames
  <2>2. TextSent(<<>>) = <<>>
    BY <2>1, SentType
  <2>3. DOMAIN TextFrames(t) = {}
    BY <2>1
  <2> QED
    BY <1>1, <2>1, <2>2, <2>3
<1>2. CASE t # <<>>
  <2> DEFINE f == [is |-> "text", text |-> t]
  <2>1. f \in Frames /\ f.is = "text" /\ f.text = t
    BY DEF Frames
  <2>2. TextFrames(t) = <<f>>
    BY <1>2 DEF TextFrames
  <2> HIDE DEF f
  <2>3. \A i \in DOMAIN <<f>> : <<f>>[i].is = "text"
    BY <2>1
  <2> QED
    BY <2>1, <2>2, <2>3, SentOne DEF Said
<1> QED
  BY <1>1, <1>2

\* The frames before the end of a response.
Early == {"role", "echo", "text"}
EarlyOnly(fs) == \A i \in DOMAIN fs : fs[i].is \in Early

\* What may have been sent while the text is x: the beginning of it, all of it once finish
\* is sent, and nothing out of order.
Faithful(fs, x) ==
  /\ \E rest \in Seq(Units) : x = TextSent(fs) \o rest
  /\ \A i \in DOMAIN fs :
       /\ fs[i].is = "finish" => /\ TextSent(fs) = x
                                 /\ \A j \in DOMAIN fs : j > i => fs[j].is # "text"
       /\ fs[i].is \in {"finish", "error"} => \A j \in 1 .. (i - 1) : fs[j].is \in Early
       /\ fs[i].is = "done" => i = Len(fs) /\ i > 1

\* Frames of a stream that has not ended are faithful to any text that goes on from theirs.
LEMMA EarlyIsFaithful ==
  ASSUME NEW fs \in Seq(Frames), NEW x, EarlyOnly(fs),
         \E rest \in Seq(Units) : x = TextSent(fs) \o rest
  PROVE  Faithful(fs, x)
BY DEF EarlyOnly, Early, Faithful

\* Where the frames of two lots are.
LEMMA Lots ==
  ASSUME NEW a \in Seq(Frames), NEW b \in Seq(Frames)
  PROVE  /\ a \o b \in Seq(Frames) /\ DOMAIN a = 1 .. Len(a) /\ DOMAIN b = 1 .. Len(b)
         /\ DOMAIN (a \o b) = 1 .. (Len(a) + Len(b)) /\ Len(a \o b) = Len(a) + Len(b)
         /\ Len(a) \in Nat /\ Len(b) \in Nat
         /\ \A i \in DOMAIN a : (a \o b)[i] = a[i]
         /\ \A i \in DOMAIN b : (a \o b)[Len(a) + i] = b[i]
<1> DEFINE c == a \o b
<1>1. /\ c \in Seq(Frames) /\ Len(c) = Len(a) + Len(b) /\ Len(a) \in Nat /\ Len(b) \in Nat
      /\ \A i \in 1 .. Len(a) + Len(b) : c[i] = IF i <= Len(a) THEN a[i] ELSE b[i - Len(a)]
  BY ConcatProperties
<1> HIDE DEF c
<1>2. DOMAIN a = 1 .. Len(a) /\ DOMAIN b = 1 .. Len(b) /\ DOMAIN c = 1 .. (Len(a) + Len(b))
  BY <1>1
<1>3. ASSUME NEW i \in 1 .. Len(a) PROVE c[i] = a[i]
  <2>1. i \in 1 .. Len(a) + Len(b) /\ i <= Len(a)
    BY <1>1
  <2> QED
    BY <1>1, <2>1
<1>4. ASSUME NEW i \in 1 .. Len(b) PROVE c[Len(a) + i] = b[i]
  <2> DEFINE j == Len(a) + i
  <2>1. j \in 1 .. Len(a) + Len(b) /\ ~(j <= Len(a)) /\ j - Len(a) = i
    BY <1>1
  <2> HIDE DEF j
  <2>2. c[j] = b[j - Len(a)]
    BY <1>1, <2>1
  <2> QED
    BY <2>1, <2>2 DEF j
<1> QED
  BY <1>1, <1>2, <1>3, <1>4 DEF c

\* No frame of two lots ends the stream when none of either does.
LEMMA EarlyOfLots ==
  ASSUME NEW a \in Seq(Frames), NEW b \in Seq(Frames)
  PROVE  EarlyOnly(a \o b) <=> EarlyOnly(a) /\ EarlyOnly(b)
<1> DEFINE c == a \o b
           m == Len(a)
           n == Len(b)
<1>1. /\ m \in Nat /\ n \in Nat /\ DOMAIN a = 1 .. m /\ DOMAIN b = 1 .. n /\ DOMAIN c = 1 .. (m + n)
      /\ \A i \in 1 .. m : c[i] = a[i]
      /\ \A i \in 1 .. n : c[m + i] = b[i]
  BY Lots
<1> HIDE DEF c, m, n
<1>2. ASSUME EarlyOnly(c) PROVE EarlyOnly(a) /\ EarlyOnly(b)
  <2>1. ASSUME NEW i \in 1 .. m PROVE a[i].is \in Early
    <3>1. i \in 1 .. (m + n)
      BY <1>1
    <3> QED
      BY <1>1, <1>2, <3>1 DEF EarlyOnly
  <2>2. ASSUME NEW i \in 1 .. n PROVE b[i].is \in Early
    <3>1. m + i \in 1 .. (m + n)
      BY <1>1
    <3> QED
      BY <1>1, <1>2, <3>1 DEF EarlyOnly
  <2> QED
    BY <1>1, <2>1, <2>2 DEF EarlyOnly
<1>3. ASSUME EarlyOnly(a), EarlyOnly(b), NEW i \in 1 .. (m + n) PROVE c[i].is \in Early
  <2>1. CASE i <= m
    <3>1. i \in 1 .. m
      BY <1>1, <2>1
    <3> QED
      BY <1>1, <1>3, <3>1 DEF EarlyOnly
  <2>2. CASE ~(i <= m)
    <3>1. i - m \in 1 .. n /\ m + (i - m) = i
      BY <1>1, <2>2
    <3>2. c[m + (i - m)] = b[i - m]
      BY SMTT(30), <1>1, <3>1
    <3> QED
      BY <1>1, <1>3, <3>1, <3>2 DEF EarlyOnly
  <2> QED
    BY <2>1, <2>2
<1> QED
  BY <1>1, <1>2, <1>3 DEF EarlyOnly, c

\* What was sent of a faithful response is faithful.
LEMMA PartIsFaithful ==
  ASSUME NEW a \in Seq(Frames), NEW b \in Seq(Frames), NEW x, Faithful(a \o b, x)
  PROVE  Faithful(a, x)
<1> DEFINE c == a \o b
           m == Len(a)
           n == Len(b)
<1>1. /\ m \in Nat /\ n \in Nat /\ DOMAIN a = 1 .. m /\ DOMAIN b = 1 .. n /\ DOMAIN c = 1 .. (m + n)
      /\ \A i \in 1 .. m : c[i] = a[i]
      /\ \A i \in 1 .. n : c[m + i] = b[i]
      /\ Len(c) = m + n
  BY Lots
<1>2. TextSent(c) = TextSent(a) \o TextSent(b)
  BY SentConcat
<1>3. TextSent(a) \in Seq(Units) /\ TextSent(b) \in Seq(Units)
  BY SentType
<1>4. Faithful(c, x)
  OBVIOUS
<1> HIDE DEF c, m, n
<1>5. \E rest \in Seq(Units) : x = TextSent(a) \o rest
  <2>1. PICK rest \in Seq(Units) : x = TextSent(c) \o rest
    BY <1>4 DEF Faithful
  <2> DEFINE p == TextSent(a)
             q == TextSent(b)
  <2>2. p \in Seq(Units) /\ q \in Seq(Units) /\ x = (p \o q) \o rest
    BY <1>2, <1>3, <2>1
  <2> HIDE DEF p, q
  <2>3. (p \o q) \o rest = p \o (q \o rest) /\ q \o rest \in Seq(Units)
    <3>1. (p \o q) \o rest = p \o (q \o rest)
      BY <2>2, ConcatAssociative
    <3>2. q \o rest \in Seq(Units)
      BY <2>2, ConcatProperties
    <3> QED
      BY <3>1, <3>2
  <2>4. x = p \o (q \o rest)
    BY <2>2, <2>3
  <2> QED
    BY <2>3, <2>4 DEF p
<1>6. ASSUME NEW i \in 1 .. m
      PROVE  /\ a[i].is = "finish" => TextSent(a) = x /\ \A j \in DOMAIN a : j > i => a[j].is # "text"
             /\ a[i].is \in {"finish", "error"} => \A j \in 1 .. (i - 1) : a[j].is \in Early
             /\ a[i].is = "done" => i = m /\ i > 1
  <2>1. i \in 1 .. (m + n) /\ c[i] = a[i]
    BY <1>1
  <2>2. /\ c[i].is = "finish" => TextSent(c) = x /\ \A j \in DOMAIN c : j > i => c[j].is # "text"
        /\ c[i].is \in {"finish", "error"} => \A j \in 1 .. (i - 1) : c[j].is \in Early
        /\ c[i].is = "done" => i = Len(c) /\ i > 1
    BY <1>1, <1>4, <2>1 DEF Faithful
  <2>3. ASSUME a[i].is = "finish"
        PROVE  TextSent(a) = x /\ \A j \in DOMAIN a : j > i => a[j].is # "text"
    <3>1. ASSUME NEW j \in 1 .. n PROVE b[j].is # "text"
      <4>1. m + j \in 1 .. (m + n) /\ m + j > i
        BY <1>1
      <4>2. c[m + j] = b[j]
        BY <1>1
      <4> QED
        BY <1>1, <2>1, <2>2, <2>3, <4>1, <4>2
    <3>2. TextSent(b) = <<>>
      BY <1>1, <3>1, SaysNothing
    <3>3. TextSent(a) \o <<>> = TextSent(a)
      BY <1>3, ConcatEmptySeq
    <3>4. TextSent(a) = x
      BY <1>2, <2>1, <2>2, <2>3, <3>2, <3>3
    <3>5. ASSUME NEW j \in 1 .. m, j > i PROVE a[j].is # "text"
      <4>1. j \in 1 .. (m + n) /\ c[j] = a[j]
        BY <1>1
      <4> QED
        BY <1>1, <2>1, <2>2, <2>3, <3>5, <4>1
    <3> QED
      BY <1>1, <3>4, <3>5
  <2>4. ASSUME a[i].is \in {"finish", "error"}, NEW j \in 1 .. (i - 1) PROVE a[j].is \in Early
    <3>1. j \in 1 .. m
      BY <1>1
    <3> QED
      BY <1>1, <2>1, <2>2, <2>4, <3>1
  <2>5. a[i].is = "done" => i = m /\ i > 1
    BY <1>1, <2>1, <2>2
  <2> QED
    BY <2>3, <2>4, <2>5
<1> QED
  BY <1>1, <1>5, <1>6 DEF Faithful, m

\* A response that is over: after frames of text come frames without any.
LEMMA EndIsFaithful ==
  ASSUME NEW a \in Seq(Frames), NEW b \in Seq(Frames), NEW x \in Seq(Units), EarlyOnly(a),
         \E rest \in Seq(Units) : x = TextSent(a) \o rest,
         \A i \in DOMAIN b :
           /\ b[i].is # "text"
           /\ b[i].is = "finish" => i = 1 /\ TextSent(a) = x
           /\ b[i].is = "error" => i = 1
           /\ b[i].is = "done" => i = Len(b) /\ i > 1
  PROVE  Faithful(a \o b, x)
<1> DEFINE c == a \o b
           m == Len(a)
           n == Len(b)
<1>1. /\ m \in Nat /\ n \in Nat /\ DOMAIN a = 1 .. m /\ DOMAIN b = 1 .. n /\ DOMAIN c = 1 .. (m + n)
      /\ \A i \in 1 .. m : c[i] = a[i]
      /\ \A i \in 1 .. n : c[m + i] = b[i]
      /\ Len(c) = m + n
  BY Lots
<1>2. TextSent(c) = TextSent(a)
  <2>1. TextSent(c) = TextSent(a) \o TextSent(b)
    BY SentConcat
  <2>2. TextSent(b) = <<>> /\ TextSent(a) \in Seq(Units)
    BY SaysNothing, SentType
  <2>3. TextSent(a) \o <<>> = TextSent(a)
    BY <2>2, ConcatEmptySeq
  <2> QED
    BY <2>1, <2>2, <2>3
<1> HIDE DEF c, m, n
<1>3. \A i \in 1 .. m : c[i].is \in Early
  BY <1>1 DEF EarlyOnly
<1>4. ASSUME NEW i \in 1 .. (m + n), c[i].is \notin Early
      PROVE  i - m \in 1 .. n /\ c[i] = b[i - m]
  <2>1. ~(i <= m)
    <3>1. i <= m => i \in 1 .. m
      BY <1>1
    <3> QED
      BY <1>3, <1>4, <3>1
  <2>2. i - m \in 1 .. n /\ m + (i - m) = i
    BY <1>1, <2>1
  <2>3. c[m + (i - m)] = b[i - m]
    BY <1>1, <2>2
  <2> QED
    BY <2>2, <2>3
<1>5. ASSUME NEW i \in 1 .. (m + n)
      PROVE  /\ c[i].is = "finish" => TextSent(c) = x /\ \A j \in DOMAIN c : j > i => c[j].is # "text"
             /\ c[i].is \in {"finish", "error"} => \A j \in 1 .. (i - 1) : c[j].is \in Early
             /\ c[i].is = "done" => i = Len(c) /\ i > 1
  <2>1. ASSUME c[i].is \in {"finish", "error"}, NEW j \in 1 .. (i - 1) PROVE c[j].is \in Early
    <3>1. i - m \in 1 .. n /\ c[i] = b[i - m]
      BY <1>4, <2>1 DEF Early
    <3>2. i - m = 1
      BY <1>1, <2>1, <3>1
    <3>3. j \in 1 .. m
      BY <1>1, <3>2
    <3> QED
      BY <1>3, <3>3
  <2>2. ASSUME c[i].is = "finish"
        PROVE  TextSent(c) = x /\ \A j \in DOMAIN c : j > i => c[j].is # "text"
    <3>1. i - m \in 1 .. n /\ c[i] = b[i - m]
      BY <1>4, <2>2 DEF Early
    <3>2. TextSent(a) = x /\ i - m = 1
      BY <1>1, <2>2, <3>1
    <3>3. ASSUME NEW j \in 1 .. (m + n), j > i PROVE c[j].is # "text"
      <4>1. j - m \in 1 .. n /\ m + (j - m) = j
        BY <1>1, <3>2, <3>3
      <4>2. c[m + (j - m)] = b[j - m]
        BY <1>1, <4>1
      <4> QED
        BY <1>1, <4>1, <4>2
    <3> QED
      BY <1>1, <1>2, <3>2, <3>3
  <2>3. ASSUME c[i].is = "done" PROVE i = Len(c) /\ i > 1
    <3>1. i - m \in 1 .. n /\ c[i] = b[i - m]
      BY <1>4, <2>3 DEF Early
    <3>2. i - m = n /\ i - m > 1
      BY <1>1, <2>3, <3>1 DEF n
    <3> QED
      BY <1>1, <3>2
  <2> QED
    BY <2>1, <2>2, <2>3
<1>6. \E rest \in Seq(Units) : x = TextSent(c) \o rest
  BY <1>2
<1> QED
  BY <1>1, <1>5, <1>6 DEF Faithful, c

-----------------------------------------------------------------------------
(* Streams: what a request has sent and has ready is the beginning of its    *)
(* text, and nothing that could still become a stop string is among it.      *)

Begins(s, t) == \E rest \in Seq(Units) : t = s \o rest
\* What a request has sent and what it has ready.
Full(r) == wire[r] \o outbox[r]

StreamTypes ==
  /\ text \in [Requests -> Seq(Units)]
  /\ hit \in [Requests -> BOOLEAN] /\ alive \in [Requests -> BOOLEAN]
  /\ outbox \in [Requests -> Seq(Frames)] /\ wire \in [Requests -> Seq(Frames)]

\* A request whose client has left may have nothing more to say; what was sent stands.
SentIsFaithful(r) ==
  /\ Faithful(wire[r], text[r])
  /\ client[r] = "open" => Faithful(Full(r), text[r])

BeforeAll(r) ==
  pc[r] \in {"absent", "closed"} => wire[r] = <<>> /\ outbox[r] = <<>> /\ text[r] = <<>>

BeforeLock(r) ==
  pc[r] = "opening" => /\ EarlyOnly(Full(r)) /\ TextSent(Full(r)) = <<>>
                       /\ text[r] = <<>>

BeforeText(r) ==
  pc[r] \in {"absent", "closed", "opening", "resetting", "decoding", "sampling"} =>
    alive[r] /\ ~hit[r]

\* Between two tokens all that may be shown has been.
BetweenTokens(r) ==
  pc[r] \in {"resetting", "decoding", "sampling"} =>
    /\ outbox[r] = <<>> /\ EarlyOnly(wire[r])
    /\ text[r] = WholeText(accepted[r]) /\ StopsIn(text[r]) = {}
    /\ TextSent(wire[r]) = IF Streams(r) THEN Safe(text[r]) ELSE <<>>

\* A token adds what may be shown next, unless its client is found to have left.
AfterToken(r) ==
  pc[r] = "emitting" =>
    /\ EarlyOnly(Full(r))
    /\ text[r] = Cut(WholeText(accepted[r]))
    /\ hit[r] <=> StopsIn(WholeText(accepted[r])) # {}
    /\ alive[r] => TextSent(Full(r)) = IF ~Streams(r) THEN <<>>
                                       ELSE IF hit[r] THEN text[r] ELSE Safe(text[r])
    /\ ~alive[r] => outbox[r] = <<>> /\ client[r] = "left"

StreamInv(r) ==
  /\ SentIsFaithful(r) /\ BeforeAll(r) /\ BeforeLock(r) /\ BeforeText(r)
  /\ BetweenTokens(r) /\ AfterToken(r)

StreamsInv == StreamTypes /\ \A r \in Requests : StreamInv(r)

\* The rest of the server does not touch a stream, nor does another request.
StreamUntouched(r) ==
  /\ pc'[r] = pc[r] /\ plan'[r] = plan[r] /\ accepted'[r] = accepted[r]
  /\ text'[r] = text[r] /\ hit'[r] = hit[r] /\ alive'[r] = alive[r]
  /\ outbox'[r] = outbox[r] /\ wire'[r] = wire[r] /\ client'[r] = client[r]

\* A request that nothing touches keeps its stream.
LEMMA StreamRests ==
  ASSUME NEW r \in Requests, StreamInv(r), StreamUntouched(r)
  PROVE  StreamInv(r)'
<1>1. Full(r)' = Full(r) /\ Streams(r)' = Streams(r)
  BY DEF StreamUntouched, Full, Streams
<1>2. SentIsFaithful(r)'
  BY <1>1 DEF StreamInv, StreamUntouched, SentIsFaithful
<1>3. BeforeAll(r)' /\ BeforeLock(r)' /\ BeforeText(r)'
  BY <1>1 DEF StreamInv, StreamUntouched, BeforeAll, BeforeLock, BeforeText
<1>4. BetweenTokens(r)'
  BY <1>1 DEF StreamInv, StreamUntouched, BetweenTokens
<1>5. AfterToken(r)'
  BY <1>1 DEF StreamInv, StreamUntouched, AfterToken
<1> QED
  BY <1>2, <1>3, <1>4, <1>5 DEF StreamInv

\* Nothing sent is faithful to no text.
LEMMA SilenceIsFaithful == Faithful(<<>>, <<>>)
<1>1. <<>> \in Seq(Units) /\ <<>> \in Seq(Frames)
  BY EmptySeq
<1>2. <<>> \o <<>> = <<>>
  BY <1>1, ConcatEmptySeq
<1>3. TextSent(<<>>) = <<>>
  BY <1>1, SentType
<1>4. DOMAIN <<>> = {}
  OBVIOUS
<1>5. \E rest \in Seq(Units) : <<>> = TextSent(<<>>) \o rest
  BY <1>1, <1>2, <1>3
<1> QED
  BY <1>4, <1>5 DEF Faithful

\* No stream has begun at first.
LEMMA StreamBegins ==
  ASSUME Init
  PROVE  StreamsInv
<1>1. <<>> \in Seq(Units) /\ <<>> \in Seq(Frames)
  BY EmptySeq
<1>2. StreamTypes
  BY <1>1 DEF Init, StreamTypes
<1>3. ASSUME NEW r \in Requests PROVE StreamInv(r)
  <2>1. /\ wire[r] = <<>> /\ outbox[r] = <<>> /\ text[r] = <<>> /\ pc[r] = "absent"
        /\ alive[r] = TRUE /\ hit[r] = FALSE
    BY DEF Init
  <2>2. <<>> \o <<>> = <<>>
    BY <1>1, ConcatEmptySeq
  <2>3. Full(r) = <<>>
    BY <2>1, <2>2 DEF Full
  <2>4. Faithful(<<>>, <<>>)
    BY SilenceIsFaithful
  <2> QED
    BY <2>1, <2>3, <2>4 DEF StreamInv, SentIsFaithful, BeforeAll, BeforeLock, BeforeText, BetweenTokens, AfterToken
<1> QED
  BY <1>2, <1>3 DEF StreamsInv

\* The steps of the engine and of the server's end leave every stream alone.
LEMMA StreamAside ==
  ASSUME StreamsInv, UNCHANGED <<pc, local, outbox, wire, client>>
  PROVE  StreamsInv'
<1>1. StreamTypes'
  BY DEF StreamsInv, StreamTypes, local
<1>2. ASSUME NEW r \in Requests PROVE StreamInv(r)'
  <2>1. StreamUntouched(r)
    BY DEF StreamUntouched, local
  <2> QED
    BY <2>1, StreamRests DEF StreamsInv
<1> QED
  BY <1>1, <1>2 DEF StreamsInv

\* A step of one request is one for all if it keeps that request's stream.
OthersUntouched(r) == \A q \in Requests \ {r} : StreamUntouched(q)

\* A step of one request leaves the streams of the others alone.
LEMMA StreamMoves ==
  ASSUME StreamsInv, NEW r \in Requests, StreamTypes', OthersUntouched(r), StreamInv(r)'
  PROVE  StreamsInv'
<1>1. ASSUME NEW q \in Requests PROVE StreamInv(q)'
  <2>1. CASE q = r
    BY <2>1
  <2>2. CASE q # r
    BY <2>2, StreamRests DEF StreamsInv, OthersUntouched
  <2> QED
    BY <2>1, <2>2
<1> QED
  BY <1>1 DEF StreamsInv

\* The frames that carry no text.
LEMMA FramesAre ==
  /\ \A name \in {"role", "echo", "finish", "usage", "done", "error"} :
       /\ Mark(name) \in Frames /\ Mark(name).is = name
       /\ <<Mark(name)>> \in Seq(Frames)
  /\ <<>> \in Seq(Units) /\ <<>> \in Seq(Frames)
<1>1. <<>> \in Seq(Units) /\ <<>> \in Seq(Frames)
  BY EmptySeq
<1>2. ASSUME NEW name \in {"role", "echo", "finish", "usage", "done", "error"}
      PROVE  /\ Mark(name) \in Frames /\ Mark(name).is = name
             /\ <<Mark(name)>> \in Seq(Frames)
  <2>1. Mark(name) \in Frames /\ Mark(name).is = name
    BY <1>1 DEF Mark, Frames
  <2> QED
    BY <2>1
<1> QED
  BY <1>1, <1>2

\* A request whose client left keeps what was sent.
LEMMA StreamLeft ==
  ASSUME StreamTypes, NEW r \in Requests, StreamInv(r), client'[r] = "left",
         wire'[r] = wire[r], text'[r] = text[r], pc'[r] = "closing"
  PROVE  StreamInv(r)'
BY DEF StreamInv, SentIsFaithful, BeforeAll, BeforeLock, BeforeText, BetweenTokens, AfterToken

\* A request that has sent everything it had ready and now ends.
LEMMA StreamEnds ==
  ASSUME StreamTypes, NEW r \in Requests, StreamInv(r), StreamTypes',
         wire'[r] = wire[r], text'[r] = text[r], client'[r] = client[r], pc'[r] = "closing",
         client[r] = "open" => Faithful(wire[r] \o outbox'[r], text[r])
  PROVE  StreamInv(r)'
<1>1. SentIsFaithful(r)'
  BY DEF StreamInv, SentIsFaithful, Full
<1> QED
  BY <1>1 DEF StreamInv, BeforeAll, BeforeLock, BeforeText, BetweenTokens, AfterToken

\* Nothing is added by an empty sequence.
LEMMA EmptyAppend ==
  ASSUME NEW S, NEW s \in Seq(S)
  PROVE  s \o <<>> = s
BY ConcatEmptySeq

\* Whoever has sent all he had ready has sent early frames, the beginning of his text.
LEMMA SentEarly ==
  ASSUME StreamTypes, NEW r \in Requests, StreamInv(r), outbox[r] = <<>>,
         pc[r] \in {"opening"} \cup Busy
  PROVE  /\ wire[r] \in Seq(Frames) /\ text[r] \in Seq(Units) /\ Full(r) = wire[r]
         /\ EarlyOnly(wire[r])
         /\ \E rest \in Seq(Units) : text[r] = TextSent(wire[r]) \o rest
<1>1. wire[r] \in Seq(Frames) /\ text[r] \in Seq(Units)
  BY DEF StreamTypes
<1>2. Full(r) = wire[r]
  BY <1>1, EmptyAppend DEF Full
<1>3. EarlyOnly(wire[r])
  BY <1>2 DEF StreamInv, BeforeLock, BetweenTokens, AfterToken, Busy
<1>4. \E rest \in Seq(Units) : text[r] = TextSent(wire[r]) \o rest
  BY DEF StreamInv, SentIsFaithful, Faithful
<1> QED
  BY <1>1, <1>2, <1>3, <1>4

\* Two frames in a row.
LEMMA Pair ==
  ASSUME NEW a, NEW b
  PROVE  <<a>> \o <<b>> = <<a, b>>
<1>1. <<a>> \in Seq({a, b}) /\ <<b>> \in Seq({a, b}) /\ <<a, b>> \in Seq({a, b})
  OBVIOUS
<1>2. Len(<<a>>) = 1 /\ Len(<<b>>) = 1 /\ Len(<<a, b>>) = 2
  OBVIOUS
<1> DEFINE c == <<a>> \o <<b>>
<1>3. c \in Seq({a, b}) /\ Len(c) = 2 /\ \A i \in 1 .. 2 : c[i] = IF i <= 1 THEN <<a>>[i] ELSE <<b>>[i - 1]
  BY <1>1, <1>2, ConcatProperties
<1> HIDE DEF c
<1>4. c[1] = a /\ c[2] = b
  BY <1>3
<1>5. c = <<a, b>>
  BY <1>3, <1>4
<1> QED
  BY <1>5 DEF c

\* The frames of a failed call.
Failing(b) == <<Mark("error")>> \o IF b THEN <<Mark("done")>> ELSE <<>>

\* How a stream that fails is ended: the error first, and then done.
LEMMA FailingIs ==
  ASSUME NEW b \in BOOLEAN
  PROVE  /\ Failing(b) \in Seq(Frames)
         /\ \A i \in DOMAIN Failing(b) :
              /\ Failing(b)[i].is # "text" /\ Failing(b)[i].is # "finish"
              /\ Failing(b)[i].is = "error" => i = 1
              /\ Failing(b)[i].is = "done" => i = Len(Failing(b)) /\ i > 1
<1>1. <<Mark("error")>> \o <<Mark("done")>> = <<Mark("error"), Mark("done")>>
  BY Pair
<1>2. <<Mark("error")>> \o <<>> = <<Mark("error")>>
  BY FramesAre, EmptyAppend
<1>3. CASE b
  <2>1. Failing(b) = <<Mark("error"), Mark("done")>>
    BY <1>1, <1>3 DEF Failing
  <2> QED
    BY <2>1, FramesAre
<1>4. CASE ~b
  <2>1. Failing(b) = <<Mark("error")>>
    BY <1>2, <1>4 DEF Failing
  <2> QED
    BY <2>1, FramesAre
<1> QED
  BY <1>3, <1>4

\* A call fails before its text is complete, when nothing is waiting to be sent.
LEMMA StreamFails ==
  ASSUME IInv, StreamsInv, NEW r \in Requests, outbox[r] = <<>>, pc[r] \in {"opening"} \cup Busy,
         Fail(r), UNCHANGED <<plan, text, hit, alive, wire, unread, client>>
  PROVE  StreamsInv'
<1> DEFINE b == Streams(r)
<1>1. b \in BOOLEAN
  BY DEF Streams
<1>2. StreamTypes /\ StreamInv(r)
  BY DEF StreamsInv
<1>3. outbox' = [outbox EXCEPT ![r] = Failing(b)]
  BY DEF Fail, Failing
<1> HIDE DEF b
<1>4. Failing(b) \in Seq(Frames)
  BY <1>1, FailingIs
<1>5. StreamTypes'
  BY <1>2, <1>3, <1>4 DEF StreamTypes
<1>6. OthersUntouched(r)
  BY <1>2, <1>3 DEF OthersUntouched, StreamUntouched, StreamTypes, Fail, Unlock, Goto, IInv, Types
<1>7. Faithful(wire[r] \o Failing(b), text[r])
  <2> DEFINE fs == Failing(b)
  <2>1. /\ wire[r] \in Seq(Frames) /\ text[r] \in Seq(Units) /\ EarlyOnly(wire[r])
        /\ \E rest \in Seq(Units) : text[r] = TextSent(wire[r]) \o rest
    BY <1>2, SentEarly
  <2>2. /\ fs \in Seq(Frames)
        /\ \A i \in DOMAIN fs :
             /\ fs[i].is # "text"
             /\ fs[i].is = "finish" => i = 1 /\ TextSent(wire[r]) = text[r]
             /\ fs[i].is = "error" => i = 1
             /\ fs[i].is = "done" => i = Len(fs) /\ i > 1
    BY <1>1, FailingIs
  <2> HIDE DEF fs
  <2>3. Faithful(wire[r] \o fs, text[r])
    BY <2>1, <2>2, EndIsFaithful
  <2> QED
    BY <2>3 DEF fs
<1>8. outbox'[r] = Failing(b) /\ pc'[r] = "closing"
  BY <1>2, <1>3 DEF StreamTypes, Fail, Goto, IInv, Types
<1>9. StreamInv(r)'
  BY <1>2, <1>5, <1>7, <1>8, StreamEnds
<1> QED
  BY <1>5, <1>6, <1>9, StreamMoves

-----------------------------------------------------------------------------
(* Sending.                                                                *)

\* The next frame goes from what is ready to what was sent.
LEMMA HeadMoves ==
  ASSUME NEW S, NEW s \in Seq(S), NEW t \in Seq(S), t # <<>>
  PROVE  /\ Append(s, Head(t)) \in Seq(S) /\ Tail(t) \in Seq(S)
         /\ Append(s, Head(t)) \o Tail(t) = s \o t
<1>1. Head(t) \in S /\ Tail(t) \in Seq(S) /\ <<Head(t)>> \in Seq(S)
  BY HeadTailProperties
<1>2. <<Head(t)>> \o Tail(t) = t
  <2> DEFINE h == <<Head(t)>>
             c == h \o Tail(t)
  <2>1. /\ Len(t) \in Nat /\ Len(t) > 0 /\ Len(Tail(t)) = Len(t) - 1 /\ Len(h) = 1 /\ h[1] = t[1]
        /\ \A i \in 1 .. Len(Tail(t)) : Tail(t)[i] = t[i + 1]
    BY HeadTailProperties, EmptySeq
  <2>2. /\ c \in Seq(S) /\ Len(c) = Len(h) + Len(Tail(t))
        /\ \A i \in 1 .. Len(h) + Len(Tail(t)) : c[i] = IF i <= Len(h) THEN h[i] ELSE Tail(t)[i - Len(h)]
    BY <1>1, ConcatProperties
  <2> HIDE DEF h, c
  <2>3. Len(c) = Len(t)
    BY <2>1, <2>2
  <2>4. ASSUME NEW i \in 1 .. Len(t) PROVE c[i] = t[i]
    <3>1. CASE i = 1
      BY <2>1, <2>2, <3>1
    <3>2. CASE i # 1
      <4>1. i - 1 \in 1 .. Len(Tail(t)) /\ i \in 1 .. Len(h) + Len(Tail(t)) /\ ~(i <= Len(h))
        BY <2>1, <3>2
      <4>2. c[i] = Tail(t)[i - 1] /\ Tail(t)[i - 1] = t[(i - 1) + 1]
        BY <2>1, <2>2, <4>1
      <4>3. (i - 1) + 1 = i
        BY <2>1
      <4> QED
        BY <4>2, <4>3
    <3> QED
      BY <3>1, <3>2
  <2>5. c = t
    BY <2>2, <2>3, <2>4, SeqEqual
  <2> QED
    BY <2>5 DEF c, h
<1>3. Append(s, Head(t)) = s \o <<Head(t)>>
  BY <1>1, AppendIsConcat
<1>4. (s \o <<Head(t)>>) \o Tail(t) = s \o (<<Head(t)>> \o Tail(t))
  BY <1>1, ConcatAssociative
<1>5. Append(s, Head(t)) \in Seq(S)
  BY <1>1, AppendProperties
<1> QED
  BY <1>1, <1>2, <1>3, <1>4, <1>5

\* A frame goes from the outbox to the wire.
LEMMA StreamPushes ==
  ASSUME IInv, StreamsInv, NEW r \in Requests, Push(r)
  PROVE  StreamsInv'
<1>1. StreamTypes /\ StreamInv(r)
  BY DEF StreamsInv
<1>2. /\ wire[r] \in Seq(Frames) /\ outbox[r] \in Seq(Frames) /\ outbox[r] # <<>>
      /\ client[r] = "open" /\ text[r] \in Seq(Units)
  BY <1>1 DEF StreamTypes, Push
<1>3. /\ wire'[r] = Append(wire[r], Head(outbox[r])) /\ outbox'[r] = Tail(outbox[r])
      /\ pc'[r] = pc[r] /\ plan'[r] = plan[r] /\ accepted'[r] = accepted[r] /\ text'[r] = text[r]
      /\ hit'[r] = hit[r] /\ alive'[r] = alive[r] /\ client'[r] = client[r]
  BY <1>1 DEF Push, StreamTypes, local
<1>4. /\ wire'[r] \in Seq(Frames) /\ outbox'[r] \in Seq(Frames)
      /\ wire'[r] \o outbox'[r] = wire[r] \o outbox[r]
  <2> DEFINE a == wire[r]
             b == outbox[r]
  <2>1. a \in Seq(Frames) /\ b \in Seq(Frames) /\ b # <<>>
    BY <1>2
  <2> HIDE DEF a, b
  <2>2. /\ Append(a, Head(b)) \in Seq(Frames) /\ Tail(b) \in Seq(Frames)
        /\ Append(a, Head(b)) \o Tail(b) = a \o b
    BY <2>1, HeadMoves
  <2>3. wire'[r] = Append(a, Head(b)) /\ outbox'[r] = Tail(b)
    BY <1>3 DEF a, b
  <2> QED
    BY <2>2, <2>3 DEF a, b
<1>5. StreamTypes'
  BY <1>1, <1>3, <1>4 DEF StreamTypes, Push, local
<1>6. OthersUntouched(r)
  BY <1>1 DEF OthersUntouched, StreamUntouched, StreamTypes, Push, local
<1>7. Full(r)' = Full(r) /\ Streams(r)' = Streams(r)
  BY <1>3, <1>4 DEF Full, Streams
<1>8. SentIsFaithful(r)'
  <2>1. Faithful(wire'[r] \o outbox'[r], text[r])
    BY <1>1, <1>2, <1>4 DEF StreamInv, SentIsFaithful, Full
  <2>2. Faithful(wire'[r], text[r])
    BY <1>4, <2>1, PartIsFaithful
  <2> QED
    BY <1>3, <2>1, <2>2 DEF SentIsFaithful, Full
<1>9. BeforeAll(r)' /\ BeforeLock(r)' /\ BeforeText(r)' /\ BetweenTokens(r)'
  BY <1>1, <1>2, <1>3, <1>7 DEF StreamInv, BeforeAll, BeforeLock, BeforeText, BetweenTokens
<1>10. AfterToken(r)'
  BY <1>1, <1>2, <1>3, <1>7 DEF StreamInv, AfterToken
<1>11. StreamInv(r)'
  BY <1>8, <1>9, <1>10 DEF StreamInv
<1> QED
  BY <1>5, <1>6, <1>11, StreamMoves

\* A frame cannot be sent because the client is gone.
LEMMA StreamPushFails ==
  ASSUME IInv, StreamsInv, NEW r \in Requests, PushFails(r)
  PROVE  StreamsInv'
<1>1. StreamTypes /\ StreamInv(r)
  BY DEF StreamsInv
<1>2. /\ wire[r] \in Seq(Frames) /\ outbox[r] \in Seq(Frames) /\ outbox[r] # <<>>
      /\ client[r] = "left"
  BY <1>1 DEF StreamTypes, PushFails
<1>3. /\ wire'[r] = wire[r] /\ outbox'[r] = <<>> /\ alive'[r] = FALSE
      /\ pc'[r] = (IF pc[r] = "opening" THEN "closing" ELSE pc[r])
      /\ plan'[r] = plan[r] /\ accepted'[r] = accepted[r] /\ text'[r] = text[r]
      /\ hit'[r] = hit[r] /\ client'[r] = client[r]
  BY <1>1 DEF PushFails, StreamTypes, Goto, IInv, Types
<1>4. <<>> \in Seq(Frames)
  BY EmptySeq
<1>5. StreamTypes'
  BY <1>1, <1>4 DEF StreamTypes, PushFails
<1>6. OthersUntouched(r)
  BY <1>1 DEF OthersUntouched, StreamUntouched, StreamTypes, PushFails, Goto, IInv, Types
<1>7. pc[r] \in {"opening", "emitting", "closing"}
  BY <1>1, <1>2 DEF StreamInv, BeforeAll, BetweenTokens, IInv, Types, Busy
<1>8. StreamInv(r)'
  <2>1. CASE pc[r] # "emitting"
    BY <1>1, <1>2, <1>3, <1>7, <2>1, StreamLeft
  <2>2. CASE pc[r] = "emitting"
    <3>1. SentIsFaithful(r)'
      BY <1>1, <1>2, <1>3 DEF StreamInv, SentIsFaithful
    <3>2. Full(r)' = wire[r] /\ Streams(r)' = Streams(r)
      BY <1>2, <1>3, EmptyAppend DEF Full, Streams
    <3>3. EarlyOnly(wire[r])
      BY <1>1, <1>2, <2>2, EarlyOfLots DEF StreamInv, AfterToken, Full
    <3>4. AfterToken(r)'
      BY <1>1, <1>2, <1>3, <2>2, <3>2, <3>3 DEF StreamInv, AfterToken
    <3> QED
      BY <1>3, <2>2, <3>1, <3>4 DEF StreamInv, BeforeAll, BeforeLock, BeforeText, BetweenTokens
  <2> QED
    BY <2>1, <2>2
<1> QED
  BY <1>5, <1>6, <1>8, StreamMoves

\* The client leaves; what was sent stands.
LEMMA StreamLeaves ==
  ASSUME IInv, StreamsInv, NEW r \in Requests, Leave(r)
  PROVE  StreamsInv'
<1>1. StreamTypes /\ StreamInv(r)
  BY DEF StreamsInv
<1>2. /\ client'[r] = "left" /\ wire'[r] = wire[r] /\ outbox'[r] = outbox[r]
      /\ pc'[r] = pc[r] /\ plan'[r] = plan[r] /\ accepted'[r] = accepted[r] /\ text'[r] = text[r]
      /\ hit'[r] = hit[r] /\ alive'[r] = alive[r]
  BY DEF Leave, local, IInv, Types
<1>3. StreamTypes'
  BY <1>1 DEF StreamTypes, Leave, local
<1>4. OthersUntouched(r)
  BY DEF OthersUntouched, StreamUntouched, Leave, local, IInv, Types
<1>5. Full(r)' = Full(r) /\ Streams(r)' = Streams(r)
  BY <1>2 DEF Full, Streams
<1>6. SentIsFaithful(r)'
  BY <1>1, <1>2 DEF StreamInv, SentIsFaithful
<1>7. BeforeAll(r)' /\ BeforeLock(r)' /\ BeforeText(r)' /\ BetweenTokens(r)'
  BY <1>1, <1>2, <1>5 DEF StreamInv, BeforeAll, BeforeLock, BeforeText, BetweenTokens
<1>8. AfterToken(r)'
  BY <1>1, <1>2, <1>5 DEF StreamInv, AfterToken
<1>9. StreamInv(r)'
  BY <1>6, <1>7, <1>8 DEF StreamInv
<1> QED
  BY <1>3, <1>4, <1>9, StreamMoves

\* A request that has sent all it had is forgotten.
LEMMA StreamCloses ==
  ASSUME IInv, StreamsInv, NEW r \in Requests, Close(r)
  PROVE  StreamsInv'
<1>1. StreamTypes /\ StreamInv(r)
  BY DEF StreamsInv
<1>2. <<>> \in Seq(Units) /\ <<>> \in Seq(Frames)
  BY EmptySeq
<1>3. /\ client'[r] = "left" /\ wire'[r] = <<>> /\ outbox'[r] = <<>> /\ text'[r] = <<>>
      /\ pc'[r] = "closed" /\ hit'[r] = FALSE /\ alive'[r] = TRUE
  BY <1>1 DEF Close, Goto, StreamTypes, IInv, Types
<1>4. StreamTypes'
  BY <1>1, <1>2 DEF StreamTypes, Close
<1>5. OthersUntouched(r)
  BY <1>1 DEF OthersUntouched, StreamUntouched, StreamTypes, Close, Goto, IInv, Types
<1>6. Faithful(<<>>, <<>>)
  BY SilenceIsFaithful
<1>7. StreamInv(r)'
  BY <1>3, <1>6 DEF StreamInv, SentIsFaithful, BeforeAll, BeforeLock, BeforeText, BetweenTokens, AfterToken
<1> QED
  BY <1>4, <1>5, <1>7, StreamMoves

\* How an answer opens: without text, and without an end.
LEMMA OpeningIs ==
  ASSUME NEW kind \in Kinds
  PROVE  /\ Opening(kind) \in Seq(Frames) /\ EarlyOnly(Opening(kind))
         /\ TextSent(Opening(kind)) = <<>>
<1>1. Opening(kind) \in {<<Mark("role")>>, <<Mark("echo")>>, <<>>}
  BY DEF Opening, Kinds
<1>2. ASSUME NEW fs \in {<<Mark("role")>>, <<Mark("echo")>>, <<>>}
      PROVE  fs \in Seq(Frames) /\ \A i \in DOMAIN fs : fs[i].is \in {"role", "echo"}
  <2>1. CASE fs = <<Mark("role")>>
    <3>1. fs \in Seq(Frames) /\ DOMAIN fs = {1} /\ fs[1] = Mark("role")
      BY <2>1, FramesAre
    <3> QED
      BY <3>1, FramesAre
  <2>2. CASE fs = <<Mark("echo")>>
    <3>1. fs \in Seq(Frames) /\ DOMAIN fs = {1} /\ fs[1] = Mark("echo")
      BY <2>2, FramesAre
    <3> QED
      BY <3>1, FramesAre
  <2>3. CASE fs = <<>>
    BY <2>3, FramesAre
  <2> QED
    BY <2>1, <2>2, <2>3
<1>3. /\ Opening(kind) \in Seq(Frames)
      /\ \A i \in DOMAIN Opening(kind) : Opening(kind)[i].is \in {"role", "echo"}
  BY <1>1, <1>2
<1> QED
  BY <1>3, SaysNothing DEF EarlyOnly, Early

\* A request arrives, and its answer is opened.
LEMMA StreamArrives ==
  ASSUME IInv, StreamsInv, NEW r \in Requests, Arrive(r)
  PROVE  StreamsInv'
<1>1. StreamTypes /\ StreamInv(r) /\ pc[r] = "absent"
  BY DEF StreamsInv, Arrive
<1>2. PICK p \in Plans[r] : /\ plan' = [plan EXCEPT ![r] = p]
                            /\ outbox' = [outbox EXCEPT ![r] = Opening(p.kind)]
  BY DEF Arrive
<1>3. p.kind \in Kinds
  BY <1>2, ServerAssumption
<1> DEFINE fs == Opening(p.kind)
<1>4. fs \in Seq(Frames) /\ EarlyOnly(fs) /\ TextSent(fs) = <<>>
  BY <1>3, OpeningIs
<1>5. outbox' = [outbox EXCEPT ![r] = fs]
  BY <1>2
<1> HIDE DEF fs
<1>6. /\ wire[r] = <<>> /\ text[r] = <<>> /\ alive[r] /\ ~hit[r]
  BY <1>1 DEF StreamInv, BeforeAll, BeforeText
<1>7. /\ wire'[r] = <<>> /\ outbox'[r] = fs /\ text'[r] = <<>> /\ alive'[r] /\ ~hit'[r]
      /\ pc'[r] = "opening" /\ client'[r] = client[r]
  BY <1>1, <1>5, <1>6 DEF Arrive, Goto, StreamTypes, IInv, Types
<1>8. StreamTypes'
  BY <1>1, <1>4, <1>5 DEF StreamTypes, Arrive
<1>9. OthersUntouched(r)
  BY <1>1, <1>2 DEF OthersUntouched, StreamUntouched, StreamTypes, Arrive, Goto, IInv, Types
<1>10. Full(r)' = fs
  <2>1. <<>> \o fs = fs
    BY <1>4, ConcatEmptySeq
  <2> QED
    BY <1>7, <2>1 DEF Full
<1>11. Faithful(fs, <<>>)
  <2>1. \E rest \in Seq(Units) : <<>> = TextSent(fs) \o rest
    <3>1. <<>> \in Seq(Units) /\ <<>> \o <<>> = <<>>
      BY FramesAre, EmptyAppend
    <3> QED
      BY <1>4, <3>1
  <2> QED
    BY <1>4, <2>1, EarlyIsFaithful
<1>12. SentIsFaithful(r)'
  BY <1>7, <1>10, <1>11, SilenceIsFaithful DEF SentIsFaithful
<1>13. StreamInv(r)'
  BY <1>4, <1>7, <1>10, <1>12 DEF StreamInv, BeforeAll, BeforeLock, BeforeText, BetweenTokens, AfterToken
<1> QED
  BY <1>8, <1>9, <1>13, StreamMoves

-----------------------------------------------------------------------------
(* The call: what it says of each token, and how it ends.                  *)

\* Between two sends all that may be shown was sent, if the client is there to see it.
LEMMA ShownSoFar ==
  ASSUME StreamTypes, NEW r \in Requests, StreamInv(r), outbox[r] = <<>>, pc[r] \in Busy
  PROVE  /\ alive[r] => TextSent(wire[r]) = IF ~Streams(r) THEN <<>>
                                            ELSE IF hit[r] THEN text[r] ELSE Safe(text[r])
         /\ ~alive[r] => client[r] = "left"
         /\ Handed(r) = TextSent(wire[r])
<1>1. Full(r) = wire[r] /\ wire[r] \o outbox[r] = wire[r]
  BY SentEarly DEF Full
<1>2. CASE pc[r] = "emitting"
  BY <1>1, <1>2 DEF StreamInv, AfterToken, Handed
<1>3. CASE pc[r] # "emitting"
  BY <1>1, <1>3 DEF StreamInv, BetweenTokens, BeforeText, Busy, Handed
<1> QED
  BY <1>2, <1>3

\* How an answer closes: finish first, and done last.
LEMMA ClosingIs ==
  ASSUME NEW kind \in Kinds
  PROVE  /\ Closing(kind) \in Seq(Frames) /\ (kind = "body" => Closing(kind) = <<>>)
         /\ \A i \in DOMAIN Closing(kind) :
              /\ Closing(kind)[i].is \notin {"text", "error"}
              /\ Closing(kind)[i].is = "finish" => i = 1
              /\ Closing(kind)[i].is = "done" => i = Len(Closing(kind)) /\ i > 1
<1> DEFINE fs == Closing(kind)
<1>1. CASE kind = "body"
  <2>1. fs = <<>>
    BY <1>1 DEF Closing
  <2> HIDE DEF fs
  <2>2. fs \in Seq(Frames) /\ DOMAIN fs = {}
    BY <2>1, FramesAre
  <2> QED
    BY <2>1, <2>2 DEF fs
<1>2. CASE kind = "chat+usage"
  <2>1. fs = <<Mark("finish"), Mark("usage"), Mark("done")>>
    BY <1>2 DEF Closing
  <2> HIDE DEF fs
  <2>2. /\ fs \in Seq(Frames) /\ Len(fs) = 3 /\ DOMAIN fs = 1 .. 3
        /\ fs[1] = Mark("finish") /\ fs[2] = Mark("usage") /\ fs[3] = Mark("done")
    BY <2>1, FramesAre
  <2>3. fs[1].is = "finish" /\ fs[2].is = "usage" /\ fs[3].is = "done"
    BY <2>2, FramesAre
  <2>4. \A i \in DOMAIN fs : /\ fs[i].is \notin {"text", "error"}
                             /\ fs[i].is = "finish" => i = 1
                             /\ fs[i].is = "done" => i = Len(fs) /\ i > 1
    BY <2>2, <2>3
  <2> QED
    BY <1>2, <2>2, <2>4 DEF fs
<1>3. CASE kind \notin {"body", "chat+usage"}
  <2>1. fs = <<Mark("finish"), Mark("done")>>
    BY <1>3 DEF Closing
  <2> HIDE DEF fs
  <2>2. /\ fs \in Seq(Frames) /\ Len(fs) = 2 /\ DOMAIN fs = 1 .. 2
        /\ fs[1] = Mark("finish") /\ fs[2] = Mark("done")
    BY <2>1, FramesAre
  <2>3. fs[1].is = "finish" /\ fs[2].is = "done"
    BY <2>2, FramesAre
  <2>4. \A i \in DOMAIN fs : /\ fs[i].is \notin {"text", "error"}
                             /\ fs[i].is = "finish" => i = 1
                             /\ fs[i].is = "done" => i = Len(fs) /\ i > 1
    BY <2>2, <2>3
  <2> QED
    BY <1>3, <2>2, <2>4 DEF fs
<1> QED
  BY <1>1, <1>2, <1>3

\* The last of the text follows what was sent, and the frames after it follow that.
LEMMA StreamEndsWhole ==
  ASSUME IInv, StreamTypes, NEW r \in Requests, StreamInv(r), outbox[r] = <<>>, pc[r] \in Busy
  PROVE  /\ Rest(r) \o Closing(plan[r].kind) \in Seq(Frames)
         /\ client[r] = "open" =>
              Faithful(wire[r] \o (Rest(r) \o Closing(plan[r].kind)), text[r])
<1> DEFINE a == wire[r]
           x == text[r]
           last == Closing(plan[r].kind)
<1>1. plan[r].kind \in Kinds
  BY DEF IInv, Types
<1>2. /\ last \in Seq(Frames) /\ (~Streams(r) => last = <<>>)
      /\ \A i \in DOMAIN last : /\ last[i].is \notin {"text", "error"}
                                /\ last[i].is = "finish" => i = 1
                                /\ last[i].is = "done" => i = Len(last) /\ i > 1
  BY <1>1, ClosingIs DEF Streams
<1>3. /\ a \in Seq(Frames) /\ x \in Seq(Units) /\ EarlyOnly(a)
      /\ \E rest \in Seq(Units) : x = TextSent(a) \o rest
  BY SentEarly
<1>4. /\ alive[r] => TextSent(a) = IF ~Streams(r) THEN <<>> ELSE IF hit[r] THEN x ELSE Safe(x)
      /\ ~alive[r] => client[r] = "left"
      /\ Handed(r) = TextSent(a)
  BY ShownSoFar
<1>5. Rest(r) = CASE ~Streams(r) -> <<[is |-> "body", text |-> x]>>
                  [] Streams(r) /\ ~hit[r] /\ alive[r] ->
                       TextFrames(SubSeq(x, Len(Handed(r)) + 1, Len(x)))
                  [] OTHER -> <<>>
  BY DEF Rest
<1> HIDE DEF a, x, last
<1>6. CASE ~Streams(r)
  <2> DEFINE f == [is |-> "body", text |-> x]
             fs == <<f>>
  <2>1. Rest(r) = fs /\ last = <<>>
    BY <1>2, <1>5, <1>6
  <2>2. f \in Frames /\ f.is = "body"
    BY <1>3 DEF Frames
  <2> HIDE DEF f
  <2>3. fs \in Seq(Frames) /\ DOMAIN fs = {1} /\ fs[1] = f
    BY <2>2
  <2> HIDE DEF fs
  <2>4. \A i \in DOMAIN fs : fs[i].is = "body"
    BY <2>2, <2>3
  <2>5. Faithful(a \o fs, x)
    BY <1>3, <2>3, <2>4, EndIsFaithful
  <2>6. fs \o <<>> = fs
    BY <2>3, EmptyAppend
  <2> QED
    BY <2>1, <2>3, <2>5, <2>6 DEF a, x, last
<1>7. CASE Streams(r) /\ (hit[r] \/ ~alive[r])
  <2>1. Rest(r) = <<>>
    BY <1>5, <1>7
  <2>2. <<>> \o last = last
    BY <1>2, ConcatEmptySeq
  <2>3. ASSUME client[r] = "open" PROVE Faithful(a \o last, x)
    <3>1. TextSent(a) = x
      BY <1>4, <1>7, <2>3
    <3> QED
      BY <1>2, <1>3, <3>1, EndIsFaithful
  <2> QED
    BY <1>2, <2>1, <2>2, <2>3 DEF a, x, last
<1>8. CASE Streams(r) /\ ~hit[r] /\ alive[r]
  <2>1. Safe(x) \in Seq(Units) /\ TextSent(a) = Safe(x)
    BY <1>3, <1>4, <1>8, SafeBegins
  <2>2. PICK rest \in Seq(Units) : x = Safe(x) \o rest
    BY <1>3, SafeBegins
  <2>3. SubSeq(x, Len(Handed(r)) + 1, Len(x)) = rest
    <3> DEFINE s == Safe(x)
    <3>1. s \in Seq(Units) /\ x = s \o rest /\ Handed(r) = s
      BY <1>4, <2>1, <2>2
    <3> HIDE DEF s
    <3>2. SubSeq(s \o rest, Len(s) + 1, Len(s \o rest)) = rest
      BY <3>1, TailOfConcat
    <3> QED
      BY <3>1, <3>2
  <2> DEFINE fs == TextFrames(rest)
             b == a \o fs
  <2>4. Rest(r) = fs
    BY <1>5, <1>8, <2>3
  <2>5. fs \in Seq(Frames) /\ TextSent(fs) = rest /\ \A i \in DOMAIN fs : fs[i].is = "text"
    BY SentText
  <2> HIDE DEF fs
  <2>6. b \in Seq(Frames) /\ TextSent(b) = x
    BY <1>3, <2>1, <2>2, <2>5, SentConcat, ConcatProperties
  <2>7. EarlyOnly(b)
    <3>1. EarlyOnly(fs)
      BY <2>5 DEF EarlyOnly, Early
    <3> QED
      BY <1>3, <2>5, <3>1, EarlyOfLots
  <2>8. b \o last = a \o (fs \o last)
    BY SMTT(30), <1>2, <1>3, <2>5, ConcatAssociative
  <2>9. fs \o last \in Seq(Frames)
    BY <1>2, <2>5, ConcatProperties
  <2> HIDE DEF b
  <2>10. \E more \in Seq(Units) : x = TextSent(b) \o more
    BY <1>3, <2>6, FramesAre, EmptyAppend
  <2>11. Faithful(b \o last, x)
    BY <1>2, <1>3, <2>6, <2>7, <2>10, EndIsFaithful
  <2> QED
    BY <2>4, <2>8, <2>9, <2>11 DEF a, x, last
<1> QED
  BY <1>6, <1>7, <1>8

\* A request that ends its generation closes its answer.
LEMMA StreamFinishes ==
  ASSUME IInv, StreamsInv, NEW r \in Requests, outbox[r] = <<>>, pc[r] \in Busy,
         End(r), UNCHANGED <<plan, text, hit, alive, wire, unread, client>>
  PROVE  StreamsInv'
<1>1. StreamTypes /\ StreamInv(r)
  BY DEF StreamsInv
<1> DEFINE fs == Rest(r) \o Closing(plan[r].kind)
<1>2. fs \in Seq(Frames) /\ (client[r] = "open" => Faithful(wire[r] \o fs, text[r]))
  BY <1>1, StreamEndsWhole
<1>3. outbox' = [outbox EXCEPT ![r] = fs]
  BY DEF End
<1> HIDE DEF fs
<1>4. StreamTypes'
  BY <1>1, <1>2, <1>3 DEF StreamTypes
<1>5. OthersUntouched(r)
  BY <1>1, <1>3 DEF OthersUntouched, StreamUntouched, StreamTypes, End, Unlock, Goto, IInv, Types
<1>6. outbox'[r] = fs /\ pc'[r] = "closing"
  BY <1>1, <1>3 DEF StreamTypes, End, Goto, IInv, Types
<1>7. StreamInv(r)'
  BY <1>1, <1>2, <1>4, <1>6, StreamEnds
<1> QED
  BY <1>4, <1>5, <1>7, StreamMoves

\* A panic past the lock answers a body with an error and cuts a stream off.
LEMMA StreamPanics ==
  ASSUME IInv, StreamsInv, NEW r \in Requests, RequestPanics(r)
  PROVE  StreamsInv'
<1>1. StreamTypes /\ StreamInv(r) /\ pc[r] = "sampling"
  BY DEF StreamsInv, RequestPanics
<1>2. outbox[r] = <<>>
  BY <1>1 DEF StreamInv, BetweenTokens
<1> DEFINE fs == IF Streams(r) THEN <<>> ELSE <<Mark("error")>>
<1>3. outbox' = [outbox EXCEPT ![r] = fs]
  BY DEF RequestPanics
<1>4. fs \in Seq(Frames) /\ \A i \in DOMAIN fs : fs[i].is = "error" /\ i = 1
  <2>1. CASE Streams(r)
    BY <2>1, FramesAre
  <2>2. CASE ~Streams(r)
    <3>1. fs = <<Mark("error")>>
      BY <2>2
    <3> HIDE DEF fs
    <3>2. fs \in Seq(Frames) /\ DOMAIN fs = {1} /\ fs[1] = Mark("error")
      BY <3>1, FramesAre
    <3> QED
      BY <3>2, FramesAre
  <2> QED
    BY <2>1, <2>2
<1> HIDE DEF fs
<1>5. /\ wire[r] \in Seq(Frames) /\ text[r] \in Seq(Units) /\ EarlyOnly(wire[r])
      /\ \E rest \in Seq(Units) : text[r] = TextSent(wire[r]) \o rest
  BY <1>1, <1>2, SentEarly DEF Busy
<1>6. Faithful(wire[r] \o fs, text[r])
  <2>1. \A i \in DOMAIN fs : /\ fs[i].is # "text"
                             /\ fs[i].is = "finish" => i = 1 /\ TextSent(wire[r]) = text[r]
                             /\ fs[i].is = "error" => i = 1
                             /\ fs[i].is = "done" => i = Len(fs) /\ i > 1
    BY <1>4
  <2> QED
    BY ZenonT(40), <1>4, <1>5, <2>1, EndIsFaithful
<1>7. StreamTypes'
  BY <1>1, <1>3, <1>4 DEF StreamTypes, RequestPanics, Kept
<1>8. OthersUntouched(r)
  BY <1>1, <1>3 DEF OthersUntouched, StreamUntouched, StreamTypes, RequestPanics, Kept, Unlock, Goto, IInv, Types
<1>9. /\ outbox'[r] = fs /\ pc'[r] = "closing" /\ wire'[r] = wire[r] /\ text'[r] = text[r]
      /\ client'[r] = client[r]
  BY <1>1, <1>3 DEF StreamTypes, RequestPanics, Kept, Goto, IInv, Types
<1>10. StreamInv(r)'
  BY <1>1, <1>6, <1>7, <1>9, StreamEnds
<1> QED
  BY <1>7, <1>8, <1>10, StreamMoves

\* A request gets the engine's lock and resets the context.
LEMMA StreamLocks ==
  ASSUME IInv, StreamsInv, NEW r \in Requests, Lock(r)
  PROVE  StreamsInv'
<1>1. StreamTypes /\ StreamInv(r) /\ pc[r] = "opening" /\ outbox[r] = <<>>
  BY DEF StreamsInv, Lock, Opened
<1>2. /\ pc'[r] = "resetting" /\ plan'[r] = plan[r] /\ accepted'[r] = accepted[r]
      /\ text'[r] = text[r] /\ hit'[r] = hit[r] /\ alive'[r] = alive[r]
      /\ outbox'[r] = outbox[r] /\ wire'[r] = wire[r] /\ client'[r] = client[r]
  BY DEF Lock, Kept, Goto, IInv, Types
<1>3. StreamTypes'
  BY <1>1 DEF StreamTypes, Lock, Kept
<1>4. OthersUntouched(r)
  BY DEF OthersUntouched, StreamUntouched, Lock, Kept, Goto, IInv, Types
<1>5. accepted[r] = <<>>
  BY <1>1 DEF IInv, OneHolder, Busy
<1>6. Full(r) = wire[r] /\ EarlyOnly(wire[r])
  BY <1>1, SentEarly
<1>7. text[r] = <<>> /\ TextSent(wire[r]) = <<>>
  BY <1>1, <1>6 DEF StreamInv, BeforeLock
<1>8. WholeText(<<>>) = <<>> /\ StopsIn(<<>>) = {} /\ Safe(<<>>) = <<>>
  <2>1. <<>> \in Seq(Tokens) /\ <<>> \in Seq(Units)
    BY EmptySeq
  <2>2. StopsIn(<<>>) = {}
    BY DEF StopsIn
  <2> QED
    BY <2>1, <2>2, WholeBegins, SafeBegins
<1>9. Full(r)' = Full(r) /\ Streams(r)' = Streams(r)
  BY <1>2 DEF Full, Streams
<1>10. SentIsFaithful(r)'
  BY <1>1, <1>2, <1>9 DEF StreamInv, SentIsFaithful
<1>11. BetweenTokens(r)'
  BY <1>1, <1>2, <1>5, <1>6, <1>7, <1>8, <1>9 DEF BetweenTokens
<1>12. StreamInv(r)'
  BY <1>1, <1>2, <1>10, <1>11 DEF StreamInv, BeforeAll, BeforeLock, BeforeText, AfterToken
<1> QED
  BY <1>3, <1>4, <1>12, StreamMoves

\* The call goes on to its next token without sending or accepting anything.
Continues(r) ==
  \/ ResetDone(r) \/ Advance(r)
  \/ Logits(r) /\ plan[r].budget # 0

\* What is decoded goes on: a reset is done, a batch follows, logits are there.
LEMMA StreamContinues ==
  ASSUME IInv, StreamsInv, NEW r \in Requests, Continues(r)
  PROVE  StreamsInv'
<1>1. StreamTypes /\ StreamInv(r)
  BY DEF StreamsInv
<1>2. /\ plan'[r] = plan[r] /\ accepted'[r] = accepted[r]
      /\ text'[r] = text[r] /\ hit'[r] = hit[r] /\ alive'[r] = alive[r]
      /\ outbox'[r] = outbox[r] /\ wire'[r] = wire[r] /\ client'[r] = client[r]
  BY DEF Continues, ResetDone, Advance, Logits, Kept
<1>3. /\ pc'[r] \in {"decoding", "sampling"}
      /\ \/ pc[r] \in {"resetting", "decoding"}
         \/ pc[r] = "emitting" /\ outbox[r] = <<>> /\ alive[r] /\ ~hit[r]
  BY DEF Continues, ResetDone, Advance, Logits, Answered, Emitted, Accepting, Goto, IInv, Types
<1>4. StreamTypes'
  BY <1>1 DEF StreamTypes, Continues, ResetDone, Advance, Logits, Kept
<1>5. OthersUntouched(r)
  BY DEF OthersUntouched, StreamUntouched, Continues, ResetDone, Advance, Logits, Kept, Goto, IInv, Types
<1>6. Full(r)' = Full(r) /\ Streams(r)' = Streams(r)
  BY <1>2 DEF Full, Streams
<1>7. /\ outbox[r] = <<>> /\ alive[r] /\ ~hit[r] /\ EarlyOnly(wire[r])
      /\ text[r] = WholeText(accepted[r]) /\ StopsIn(text[r]) = {}
      /\ TextSent(wire[r]) = IF Streams(r) THEN Safe(text[r]) ELSE <<>>
  <2>1. CASE pc[r] \in {"resetting", "decoding"}
    BY <1>1, <2>1 DEF StreamInv, BeforeText, BetweenTokens
  <2>2. CASE pc[r] = "emitting" /\ outbox[r] = <<>> /\ alive[r] /\ ~hit[r]
    <3>1. Full(r) = wire[r] /\ EarlyOnly(wire[r])
      BY <1>1, <2>2, SentEarly DEF Busy
    <3>2. /\ StopsIn(WholeText(accepted[r])) = {} /\ text[r] = Cut(WholeText(accepted[r]))
          /\ TextSent(wire[r]) = IF Streams(r) THEN Safe(text[r]) ELSE <<>>
      BY <1>1, <2>2, <3>1 DEF StreamInv, AfterToken
    <3>3. WholeText(accepted[r]) \in Seq(Units)
      BY WholeBegins DEF IInv, Types
    <3>4. text[r] = WholeText(accepted[r])
      BY <3>2, <3>3, CutIs
    <3> QED
      BY <2>2, <3>1, <3>2, <3>4
  <2> QED
    BY <1>3, <2>1, <2>2
<1>8. SentIsFaithful(r)'
  BY <1>1, <1>2, <1>6 DEF StreamInv, SentIsFaithful
<1>9. BetweenTokens(r)'
  BY <1>2, <1>6, <1>7 DEF BetweenTokens
<1>10. StreamInv(r)'
  BY <1>2, <1>3, <1>7, <1>8, <1>9 DEF StreamInv, BeforeAll, BeforeLock, BeforeText, AfterToken
<1> QED
  BY <1>4, <1>5, <1>10, StreamMoves

\* The token adds what it completes; what may be shown goes on where it was.
LEMMA StreamSays ==
  ASSUME IInv, StreamsInv, NEW r \in Requests, OnToken(r)
  PROVE  StreamsInv'
<1>1. StreamTypes /\ StreamInv(r) /\ pc[r] = "sampling"
  BY DEF StreamsInv, OnToken
<1>2. PICK t \in Tokens :
        LET ts == Append(accepted[r], t)
            grown == text[r] \o Delta(ts, text[r])
            stopped == StopsIn(grown) # {}
            out == IF stopped THEN Cut(grown) ELSE Safe(grown)
        IN /\ accepted' = [accepted EXCEPT ![r] = ts]
           /\ text' = [text EXCEPT ![r] = Cut(grown)]
           /\ hit' = [hit EXCEPT ![r] = stopped]
           /\ outbox' = [outbox EXCEPT ![r] =
                IF Streams(r) THEN TextFrames(SubSeq(out, Len(Handed(r)) + 1, Len(out))) ELSE <<>>]
  BY DEF OnToken
<1> DEFINE ts == Append(accepted[r], t)
           d == Delta(ts, text[r])
           x == text[r]
           a == wire[r]
           grown == x \o d
           stopped == StopsIn(grown) # {}
           out == IF stopped THEN Cut(grown) ELSE Safe(grown)
           fs == IF Streams(r) THEN TextFrames(SubSeq(out, Len(Handed(r)) + 1, Len(out))) ELSE <<>>
<1>3. /\ accepted' = [accepted EXCEPT ![r] = ts] /\ text' = [text EXCEPT ![r] = Cut(grown)]
      /\ hit' = [hit EXCEPT ![r] = stopped] /\ outbox' = [outbox EXCEPT ![r] = fs]
  BY <1>2
<1>4. /\ outbox[r] = <<>> /\ alive[r] /\ ~hit[r] /\ EarlyOnly(a)
      /\ x = WholeText(accepted[r]) /\ StopsIn(x) = {}
      /\ TextSent(a) = IF Streams(r) THEN Safe(x) ELSE <<>>
  BY <1>1 DEF StreamInv, BeforeText, BetweenTokens
<1>5. x \in Seq(Units) /\ a \in Seq(Frames) /\ accepted[r] \in Seq(Tokens)
  BY <1>1 DEF StreamTypes, IInv, Types
<1>6. d \in Seq(Units) /\ grown = WholeText(ts)
  BY <1>4, <1>5, WholeGrows
<1>7. Handed(r) = TextSent(a)
  BY <1>1, <1>4, ShownSoFar DEF Busy
<1>8. fs = IF Streams(r) THEN TextFrames(SubSeq(out, Len(Handed(r)) + 1, Len(out))) ELSE <<>>
  OBVIOUS
<1> HIDE DEF ts, d, x, a, fs
<1>9. grown \in Seq(Units) /\ Cut(grown) \in Seq(Units) /\ Safe(grown) \in Seq(Units)
  BY <1>5, <1>6, ConcatProperties, CutIs, SafeBegins
<1>10. Safe(x) \in Seq(Units) /\ \E rest \in Seq(Units) : out = Safe(x) \o rest
  BY <1>4, <1>5, <1>6, ShowsOn
<1>11. \E rest \in Seq(Units) : Cut(grown) = out \o rest
  <2>1. CASE stopped
    <3>1. Cut(grown) \o <<>> = Cut(grown)
      BY <1>9, EmptyAppend
    <3> QED
      BY <2>1, <3>1, FramesAre
  <2>2. CASE ~stopped
    <3>1. Cut(grown) = grown
      BY <1>9, <2>2, CutIs
    <3> QED
      BY <1>9, <2>2, <3>1, SafeBegins
  <2> QED
    BY <2>1, <2>2
<1>12. out \in Seq(Units)
  BY <1>9
<1> HIDE DEF grown, stopped, out
<1>13. /\ fs \in Seq(Frames) /\ EarlyOnly(fs)
       /\ TextSent(a \o fs) = IF Streams(r) THEN out ELSE <<>>
  <2>1. CASE Streams(r)
    <3> DEFINE s == Safe(x)
    <3>1. s \in Seq(Units) /\ Handed(r) = s /\ TextSent(a) = s
      BY <1>4, <1>7, <1>10, <2>1
    <3>2. PICK rest \in Seq(Units) : out = s \o rest
      BY <1>10
    <3> HIDE DEF s
    <3>3. SubSeq(s \o rest, Len(s) + 1, Len(s \o rest)) = rest
      BY <3>1, TailOfConcat
    <3>4. fs = TextFrames(rest)
      BY <1>8, <2>1, <3>1, <3>2, <3>3
    <3>5. fs \in Seq(Frames) /\ TextSent(fs) = rest /\ \A i \in DOMAIN fs : fs[i].is = "text"
      BY <3>4, SentText
    <3>6. TextSent(a \o fs) = out
      BY <1>5, <3>1, <3>2, <3>5, SentConcat
    <3> QED
      BY <2>1, <3>5, <3>6 DEF EarlyOnly, Early
  <2>2. CASE ~Streams(r)
    <3>1. fs = <<>> /\ fs \in Seq(Frames) /\ DOMAIN fs = {}
      BY <1>8, <2>2, FramesAre
    <3>2. a \o fs = a
      BY <1>5, <3>1, EmptyAppend
    <3> QED
      BY <1>4, <2>2, <3>1, <3>2 DEF EarlyOnly
  <2> QED
    BY <2>1, <2>2
<1>14. /\ pc'[r] = "emitting" /\ plan'[r] = plan[r] /\ accepted'[r] = ts
       /\ text'[r] = Cut(grown) /\ hit'[r] = stopped /\ alive'[r] = alive[r]
       /\ outbox'[r] = fs /\ wire'[r] = a /\ client'[r] = client[r]
  BY <1>1, <1>3 DEF OnToken, Goto, StreamTypes, IInv, Types, a
<1>15. stopped \in BOOLEAN
  BY DEF stopped
<1>16. StreamTypes'
  BY <1>1, <1>3, <1>9, <1>13, <1>15 DEF StreamTypes, OnToken
<1>17. OthersUntouched(r)
  BY <1>1, <1>3 DEF OthersUntouched, StreamUntouched, OnToken, Goto, StreamTypes, IInv, Types
<1>18. Full(r)' = a \o fs /\ Streams(r)' = Streams(r)
  BY <1>14 DEF Full, Streams
<1>19. EarlyOnly(a \o fs) /\ a \o fs \in Seq(Frames)
  BY <1>4, <1>5, <1>13, EarlyOfLots, ConcatProperties
<1>20. Faithful(a \o fs, Cut(grown))
  <2>1. \E rest \in Seq(Units) : Cut(grown) = TextSent(a \o fs) \o rest
    <3>1. CASE Streams(r)
      BY <1>11, <1>13, <3>1
    <3>2. CASE ~Streams(r)
      <4>1. <<>> \o Cut(grown) = Cut(grown)
        BY <1>9, ConcatEmptySeq
      <4> QED
        BY <1>9, <1>13, <3>2, <4>1
    <3> QED
      BY <3>1, <3>2
  <2> QED
    BY <1>19, <2>1, EarlyIsFaithful
<1>21. Faithful(a, Cut(grown))
  BY <1>5, <1>13, <1>20, PartIsFaithful
<1>22. SentIsFaithful(r)'
  BY <1>14, <1>18, <1>20, <1>21 DEF SentIsFaithful
<1>23. AfterToken(r)'
  <2>1. text'[r] = Cut(WholeText(accepted'[r])) /\ (hit'[r] <=> StopsIn(WholeText(accepted'[r])) # {})
    BY <1>6, <1>14 DEF stopped
  <2>2. alive'[r] = TRUE
    BY <1>1, <1>4, <1>14 DEF StreamTypes
  <2>3. TextSent(a \o fs) = IF ~Streams(r) THEN <<>> ELSE IF hit'[r] THEN text'[r] ELSE Safe(text'[r])
    <3>1. CASE ~Streams(r)
      BY <1>13, <3>1
    <3>2. CASE Streams(r) /\ stopped
      BY <1>13, <1>14, <3>2 DEF out
    <3>3. CASE Streams(r) /\ ~stopped
      <4>1. Cut(grown) = grown
        BY <1>9, <3>3, CutIs DEF stopped
      <4> QED
        BY <1>13, <1>14, <3>3, <4>1 DEF out
    <3> QED
      BY <3>1, <3>2, <3>3
  <2> QED
    BY <1>18, <1>19, <2>1, <2>2, <2>3 DEF AfterToken
<1>24. StreamInv(r)'
  BY <1>14, <1>22, <1>23 DEF StreamInv, BeforeAll, BeforeLock, BeforeText, BetweenTokens
<1> QED
  BY <1>16, <1>17, <1>24, StreamMoves

\* Every call that fails has sent what it had ready.
LEMMA StreamGivesUp ==
  ASSUME IInv, StreamsInv, NEW r \in Requests,
         Refused(r) \/ EmptyPrompt(r) \/ DecodeFailed(r) \/ EngineGone(r) \/ Undecodable(r)
  PROVE  StreamsInv'
<1>1. StreamInv(r)
  BY DEF StreamsInv
<1>2. Fail(r) /\ UNCHANGED <<plan, text, hit, alive, wire, unread, client>>
  BY DEF Refused, EmptyPrompt, DecodeFailed, EngineGone, Undecodable, Kept
<1>3. /\ pc[r] \in {"opening", "resetting", "decoding", "sampling", "emitting"}
      /\ pc[r] \in {"opening", "emitting"} => outbox[r] = <<>>
  BY DEF Refused, EmptyPrompt, DecodeFailed, EngineGone, Undecodable, Opened, Answered
<1>4. outbox[r] = <<>>
  BY <1>1, <1>3 DEF StreamInv, BetweenTokens
<1> QED
  BY <1>2, <1>3, <1>4, StreamFails DEF Busy

\* The last token of a request: an end of generation, a stop string or the budget.
LEMMA StreamConcludes ==
  ASSUME IInv, StreamsInv, NEW r \in Requests,
         StopToken(r) \/ Finish(r) \/ (Logits(r) /\ plan[r].budget = 0)
  PROVE  StreamsInv'
<1>1. StreamInv(r)
  BY DEF StreamsInv
<1>2. End(r) /\ UNCHANGED <<plan, text, hit, alive, wire, unread, client>>
  BY DEF StopToken, Finish, Logits, Kept
<1>3. /\ pc[r] \in {"decoding", "sampling", "emitting"}
      /\ pc[r] = "emitting" => outbox[r] = <<>>
  BY DEF StopToken, Finish, Logits, Emitted, Answered
<1>4. outbox[r] = <<>>
  BY <1>1, <1>3 DEF StreamInv, BetweenTokens
<1> QED
  BY <1>2, <1>3, <1>4, StreamFinishes DEF Busy

\* Every step of the server.
LEMMA StreamSteps ==
  ASSUME IInv, StreamsInv, [Next]_vars
  PROVE  StreamsInv'
<1>1. ASSUME NEW r \in Requests, RequestStep(r) PROVE StreamsInv'
  <2>1. CASE Push(r)
    BY <2>1, StreamPushes
  <2>2. CASE PushFails(r)
    BY <2>2, StreamPushFails
  <2>3. CASE Close(r)
    BY <2>3, StreamCloses
  <2>4. CASE Lock(r)
    BY <2>4, StreamLocks
  <2>5. CASE ResetDone(r) \/ Advance(r) \/ (Logits(r) /\ plan[r].budget # 0)
    BY <2>5, StreamContinues DEF Continues
  <2>6. CASE OnToken(r)
    BY <2>6, StreamSays
  <2>7. CASE Refused(r) \/ EmptyPrompt(r) \/ DecodeFailed(r) \/ EngineGone(r) \/ Undecodable(r)
    BY <2>7, StreamGivesUp
  <2>8. CASE StopToken(r) \/ Finish(r) \/ (Logits(r) /\ plan[r].budget = 0)
    BY <2>8, StreamConcludes
  <2> QED
    BY <1>1, <2>1, <2>2, <2>3, <2>4, <2>5, <2>6, <2>7, <2>8 DEF RequestStep
<1>2. ASSUME NEW r \in Requests, Arrive(r) \/ RequestPanics(r) \/ Read(r) \/ Leave(r)
      PROVE  StreamsInv'
  <2>1. CASE Read(r)
    BY <2>1, StreamAside DEF Read
  <2> QED
    BY <1>2, <2>1, StreamArrives, StreamPanics, StreamLeaves
<1>3. CASE EngineStep \/ EnginePanics
  <2>1. UNCHANGED <<pc, local, outbox, wire, client>>
    BY <1>3 DEF EngineStep, EnginePanics, EngineReset, EngineDecodes, EngineDecodeFails, EngineStops, EngineAlone, stream
  <2> QED
    BY <2>1, StreamAside
<1>4. CASE Shutdown \/ Drop \/ Join
  <2>1. UNCHANGED <<pc, local, outbox, wire, client>>
    BY <1>4 DEF Shutdown, Drop, Join, stream
  <2> QED
    BY <2>1, StreamAside
<1>5. CASE UNCHANGED vars
  <2>1. UNCHANGED <<pc, local, outbox, wire, client>>
    BY <1>5 DEF vars, stream
  <2> QED
    BY <2>1, StreamAside
<1> QED
  BY <1>1, <1>2, <1>3, <1>4, <1>5 DEF Next

\* What the invariant of the streams says of what a client has.
LEMMA SaysStreamIsBody ==
  ASSUME IInv, StreamsInv
  PROVE  StreamIsBody
<1>1. ASSUME NEW r \in Requests
      PROVE  /\ pc[r] \in Busy => text[r] = Cut(WholeText(accepted[r]))
             /\ IsPrefix(TextSent(wire[r]), text[r])
  <2>1. StreamInv(r) /\ text[r] \in Seq(Units) /\ wire[r] \in Seq(Frames) /\ accepted[r] \in Seq(Tokens)
    BY DEF StreamsInv, StreamTypes, IInv, Types
  <2>2. ASSUME pc[r] \in {"resetting", "decoding", "sampling"}
        PROVE  text[r] = Cut(WholeText(accepted[r]))
    <3>1. text[r] = WholeText(accepted[r]) /\ StopsIn(text[r]) = {}
      BY <2>1, <2>2 DEF StreamInv, BetweenTokens
    <3>2. Cut(text[r]) = text[r]
      BY <2>1, <3>1, CutIs
    <3> QED
      BY <3>1, <3>2
  <2>3. pc[r] = "emitting" => text[r] = Cut(WholeText(accepted[r]))
    BY <2>1 DEF StreamInv, AfterToken
  <2>4. IsPrefix(TextSent(wire[r]), text[r])
    <3>1. PICK rest \in Seq(Units) : text[r] = TextSent(wire[r]) \o rest
      BY <2>1 DEF StreamInv, SentIsFaithful, Faithful
    <3>2. TextSent(wire[r]) \in Seq(Units)
      BY <2>1, SentType
    <3> QED
      BY <3>1, <3>2, PrefixOfWhole
  <2> QED
    BY <2>2, <2>3, <2>4 DEF Busy
<1>2. ASSUME NEW r \in Requests, NEW i \in DOMAIN wire[r]
      PROVE  /\ wire[r][i].is = "finish" => TextSent(wire[r]) = text[r]
             /\ wire[r][i].is \in {"finish", "error"} =>
                  \A j \in 1 .. (i - 1) : wire[r][j].is \in {"role", "echo", "text"}
             /\ wire[r][i].is = "done" => i = Len(wire[r]) /\ i > 1
  BY DEF StreamsInv, StreamInv, SentIsFaithful, Faithful, Early
<1> QED
  BY <1>1, <1>2 DEF StreamIsBody

\* A stream says what the body of the same generation would say: what is on the wire is a
\* prefix of the text up to the first stop string, it never shows the beginning of one,
\* it is all of it once finish is sent, and the frames come in their order; for any tokens,
\* pieces and stop strings, whoever leaves, fails or panics.
THEOREM StreamIsBodyHolds == Spec => []StreamIsBody
<1>1. Init => StreamsInv
  BY StreamBegins
<1>2. IInv /\ StreamsInv /\ [Next]_vars => StreamsInv'
  BY StreamSteps
<1>3. IInv /\ StreamsInv => StreamIsBody
  BY SaysStreamIsBody
<1> QED
  BY <1>1, <1>2, <1>3, LinkInvariant, PTL DEF Spec

-----------------------------------------------------------------------------
(* The binding: what it says of a call is that call's.                      *)

Speech == [by : Users, level : 2 .. 4]

\* What a call writes are lines.
LEMMA OutputsType ==
  ASSUME NEW u \in Users, NEW says \in L!Outputs(u)
  PROVE  says \in Seq(Speech)
<1>1. \A n \in 2 .. 4 : L!Line(u, n) \in Speech
  BY DEF L!Line, Speech
<1> DEFINE a == L!Line(u, 2)
           b == L!Line(u, 3)
           d == L!Line(u, 4)
<1>2. a \in Speech /\ b \in Speech /\ d \in Speech
  BY <1>1
<1>3. says \in {<<>>, <<a>>, <<d>>, <<b, a, d>>}
  BY DEF L!Outputs
<1> HIDE DEF a, b, d
<1>4. <<>> \in Seq(Speech) /\ <<a>> \in Seq(Speech) /\ <<d>> \in Seq(Speech)
  BY <1>2
<1>5. <<b, a, d>> \in Seq(Speech)
  BY <1>2
<1> QED
  BY <1>3, <1>4, <1>5

\* The lines of which the callback keeps the tail are lines.
LEMMA KeptType ==
  ASSUME NEW says \in Seq(Speech)
  PROVE  L!Kept(says) \in Seq(Speech)
<1> DEFINE n == Len(says)
           G(f, i) == IF i = 0 THEN <<>>
                      ELSE IF says[i].level >= L!Warn THEN Append(f[i - 1], says[i]) ELSE f[i - 1]
           Solves(f) == f = [i \in 0 .. n |-> G(f, i)]
           step == [p \in (1 .. n) \X Seq(Speech) |->
                      IF says[p[1]].level >= L!Warn THEN Append(p[2], says[p[1]]) ELSE p[2]]
<1>1. \E f : Solves(f)
  <2>1. step \in [(1 .. n) \X Seq(Speech) -> Seq(Speech)]
    OBVIOUS
  <2>2. <<>> \in Seq(Speech) /\ n \in Nat
    OBVIOUS
  <2>3. PICK f \in [0 .. n -> Seq(Speech)] : StepsTo(f, <<>>, step, n)
    <3> HIDE DEF step, n
    <3> QED
      BY ZenonT(40), <2>1, <2>2, Recursion
  <2>4. ASSUME NEW i \in 0 .. n PROVE f[i] = G(f, i)
    <3>1. f[i] = IF i = 0 THEN <<>> ELSE step[<<i, f[i - 1]>>]
      BY <2>3 DEF StepsTo
    <3>2. CASE i = 0
      BY <3>1, <3>2
    <3>3. CASE i # 0
      <4>1. <<i, f[i - 1]>> \in (1 .. n) \X Seq(Speech)
        BY <3>3
      <4> QED
        BY <3>1, <3>3, <4>1
    <3> QED
      BY <3>2, <3>3
  <2>5. Solves(f)
    <3> HIDE DEF G
    <3> QED
      BY <2>4
  <2> QED
    BY <2>5
<1> DEFINE kept == CHOOSE f : Solves(f)
<1>2. Solves(kept)
  <2> HIDE DEF Solves
  <2> QED
    BY <1>1
<1>3. L!Kept(says) = kept[n]
  BY DEF L!Kept
<1> HIDE DEF kept
<1> DEFINE typed == {i \in Nat : i <= n => kept[i] \in Seq(Speech)}
<1>4. 0 \in typed
  BY <1>2
<1>5. ASSUME NEW i \in Nat, i \in typed PROVE i + 1 \in typed
  <2>1. SUFFICES ASSUME i + 1 <= n PROVE kept[i + 1] \in Seq(Speech)
    OBVIOUS
  <2>2. kept[i + 1] = G(kept, i + 1)
    <3>1. i + 1 \in 0 .. n
      BY <2>1
    <3> HIDE DEF G, n
    <3> QED
      BY <1>2, <3>1
  <2>3. kept[i] \in Seq(Speech) /\ says[i + 1] \in Speech
    BY <1>5, <2>1
  <2>4. (i + 1) - 1 = i
    OBVIOUS
  <2> QED
    BY <2>2, <2>3, <2>4
<1>6. n \in typed
  <2> HIDE DEF typed
  <2> QED
    BY <1>4, <1>5, Ladder
<1> QED
  BY <1>3, <1>6

\* The number of a block, written out.
Bits == Seq(0 .. 1)
Written(f, n) == IF n < 2 THEN <<n>> ELSE Append(f[n \div 2], n % 2)

\* A number, its half and its last bit.
LEMMA Halves ==
  ASSUME NEW n \in Nat
  PROVE  /\ n \div 2 \in Nat /\ n % 2 \in 0 .. 1 /\ n = (2 * (n \div 2)) + (n % 2)
         /\ n \div 2 <= n /\ (n > 0 => n \div 2 < n)
OBVIOUS

\* There are numerals up to any number,
LEMMA DigitsUpTo ==
  ASSUME NEW k \in Nat
  PROVE  \E f \in [0 .. k -> Bits] : f = [n \in 0 .. k |-> Written(f, n)]
<1> DEFINE reach == {m \in Nat : \E f \in [0 .. m -> Bits] : \A n \in 0 .. m : f[n] = Written(f, n)}
<1>1. 0 \in reach
  <2> DEFINE f == [n \in 0 .. 0 |-> <<0>>]
  <2>1. f \in [0 .. 0 -> Bits]
    <3>1. <<0>> \in Bits
      BY DEF Bits
    <3> QED
      BY <3>1
  <2>2. \A n \in 0 .. 0 : f[n] = Written(f, n)
    BY DEF Written
  <2> HIDE DEF f
  <2> QED
    BY <2>1, <2>2
<1>2. ASSUME NEW m \in Nat, m \in reach PROVE m + 1 \in reach
  <2>1. PICK f \in [0 .. m -> Bits] : \A n \in 0 .. m : f[n] = Written(f, n)
    BY <1>2
  <2> DEFINE g == [n \in 0 .. (m + 1) |-> IF n <= m THEN f[n] ELSE Written(f, n)]
  <2>2. Written(f, m + 1) \in Bits
    <3>1. CASE m + 1 < 2
      BY <3>1 DEF Written, Bits
    <3>2. CASE m + 1 >= 2
      <4>1. (m + 1) \div 2 \in 0 .. m /\ (m + 1) % 2 \in 0 .. 1
        BY <3>2, Halves
      <4>2. f[(m + 1) \div 2] \in Bits
        BY <4>1
      <4> QED
        BY <3>2, <4>1, <4>2 DEF Written, Bits
    <3> QED
      BY <3>1, <3>2
  <2>3. g \in [0 .. (m + 1) -> Bits]
    <3>1. \A n \in 0 .. (m + 1) : n \in 0 .. m \/ (n = m + 1 /\ ~(n <= m))
      OBVIOUS
    <3> QED
      BY <2>2, <3>1
  <2>4. ASSUME NEW n \in 0 .. (m + 1) PROVE g[n] = Written(g, n)
    <3>1. g[n] = Written(f, n)
      <4>1. CASE n <= m
        <5>1. n \in 0 .. m
          BY <4>1
        <5> QED
          BY <2>1, <4>1, <5>1
      <4> QED
        BY <4>1
    <3>2. n >= 2 => g[n \div 2] = f[n \div 2]
      <4>1. SUFFICES ASSUME n >= 2 PROVE g[n \div 2] = f[n \div 2]
        OBVIOUS
      <4>2. n \div 2 \in 0 .. m
        BY <4>1, Halves
      <4> QED
        BY <4>2
    <3> HIDE DEF g
    <3> QED
      BY <3>1, <3>2 DEF Written
  <2> HIDE DEF g
  <2> QED
    BY <2>3, <2>4
<1>3. k \in reach
  <2> HIDE DEF reach
  <2> QED
    BY <1>1, <1>2, Ladder
<1>4. PICK f \in [0 .. k -> Bits] : \A n \in 0 .. k : f[n] = Written(f, n)
  BY <1>3
<1>5. f = [n \in 0 .. k |-> f[n]]
  OBVIOUS
<1> QED
  BY <1>4, <1>5

\* and for all of them.
LEMMA DigitsDef ==
  /\ L!Digits \in [Nat -> Bits]
  /\ \A n \in Nat : L!Digits[n] = IF n < 2 THEN <<n>> ELSE Append(L!Digits[n \div 2], n % 2)
<1> DEFINE Good(f, k) == f \in [0 .. k -> Bits] /\ \A n \in 0 .. k : f[n] = Written(f, n)
           upTo == [k \in Nat |-> CHOOSE f : Good(f, k)]
           all == [n \in Nat |-> upTo[n][n]]
<1>1. ASSUME NEW k \in Nat PROVE Good(upTo[k], k)
  <2>1. \E f : Good(f, k)
    <3>1. PICK f \in [0 .. k -> Bits] : f = [n \in 0 .. k |-> Written(f, n)]
      BY DigitsUpTo
    <3>2. \A n \in 0 .. k : f[n] = Written(f, n)
      BY <3>1
    <3> QED
      BY <3>1, <3>2
  <2> HIDE DEF Good
  <2> QED
    BY <2>1
<1> HIDE DEF upTo
<1>2. ASSUME NEW k \in Nat, NEW n \in 0 .. k PROVE upTo[k][n] = upTo[n][n]
  <2> DEFINE apart == {i \in 0 .. k : upTo[k][i] # upTo[i][i]}
             same == {i \in Nat : \A j \in Nat : i <= j => upTo[j][i] = upTo[i][i]}
             odd == Nat \ same
  <2>1. SUFFICES odd = {}
    <3>1. n \in Nat
      OBVIOUS
    <3> QED
      BY <3>1
  <2>2. SUFFICES ASSUME odd # {} PROVE FALSE
    OBVIOUS
  <2>3. PICK i \in odd : \A j \in odd : i <= j
    <3> HIDE DEF same
    <3> QED
      BY <2>2, LeastOf
  <2>4. PICK j \in Nat : i <= j /\ upTo[j][i] # upTo[i][i]
    BY <2>3
  <2>5. upTo[j][i] = Written(upTo[j], i) /\ upTo[i][i] = Written(upTo[i], i)
    <3>1. i \in 0 .. j /\ i \in 0 .. i /\ i \in Nat
      BY <2>3, <2>4
    <3> QED
      BY <1>1, <3>1
  <2>6. CASE i < 2
    BY <2>4, <2>5, <2>6 DEF Written
  <2>7. CASE i >= 2
    <3> DEFINE h == i \div 2
    <3>1. h \in Nat /\ h < i
      BY <2>3, <2>7, Halves
    <3>2. h \in same
      <4> HIDE DEF same, h
      <4> QED
        BY <2>3, <3>1
    <3>3. upTo[j][h] = upTo[i][h]
      <4>1. h <= j /\ h <= i /\ i \in Nat
        BY <2>3, <2>4, <3>1
      <4> HIDE DEF h
      <4> QED
        BY <3>2, <4>1
    <3> QED
      BY <2>4, <2>5, <2>7, <3>3 DEF Written
  <2> QED
    BY <2>3, <2>6, <2>7
<1>3. ASSUME NEW n \in Nat PROVE all[n] = Written(all, n) /\ all[n] \in Bits
  <2>1. n \in 0 .. n
    OBVIOUS
  <2>2. upTo[n][n] = Written(upTo[n], n) /\ upTo[n][n] \in Bits
    BY <1>1, <2>1
  <2>3. n >= 2 => upTo[n][n \div 2] = all[n \div 2]
    <3>1. n \div 2 \in 0 .. n /\ n \div 2 \in Nat
      BY Halves
    <3> QED
      BY <1>2, <3>1
  <2>4. all[n] = upTo[n][n]
    OBVIOUS
  <2> HIDE DEF all
  <2> QED
    BY <2>2, <2>3, <2>4 DEF Written
<1>4. all = [n \in Nat |-> Written(all, n)]
  <2>1. all = [n \in Nat |-> all[n]]
    OBVIOUS
  <2> HIDE DEF all
  <2> QED
    BY <1>3, <2>1
<1> DEFINE Solves(f) == f = [n \in Nat |-> IF n < 2 THEN <<n>> ELSE Append(f[n \div 2], n % 2)]
           digits == CHOOSE f : Solves(f)
<1>5. Solves(digits)
  <2>1. Solves(all)
    <3> HIDE DEF all
    <3> QED
      BY <1>4 DEF Written
  <2> HIDE DEF Solves, all
  <2> QED
    BY <2>1
<1>6. L!Digits = digits
  BY DEF L!Digits
<1> HIDE DEF digits
<1>7. \A n \in Nat : digits[n] = IF n < 2 THEN <<n>> ELSE Append(digits[n \div 2], n % 2)
  BY <1>5
<1>8. ASSUME NEW n \in Nat PROVE digits[n] \in Bits
  <2> DEFINE odd == {i \in Nat : digits[i] \notin Bits}
  <2>1. SUFFICES ASSUME odd # {} PROVE FALSE
    OBVIOUS
  <2>2. PICK i \in odd : \A j \in odd : i <= j
    BY <2>1, LeastOf
  <2>3. i \in Nat /\ digits[i] \notin Bits
    BY <2>2
  <2>4. digits[i] = IF i < 2 THEN <<i>> ELSE Append(digits[i \div 2], i % 2)
    <3> HIDE DEF odd
    <3> QED
      BY <1>7, <2>3
  <2>5. CASE i < 2
    <3>1. digits[i] = <<i>> /\ i \in 0 .. 1
      BY <2>3, <2>4, <2>5
    <3> QED
      BY <2>3, <3>1 DEF Bits
  <2>6. CASE i >= 2
    <3>1. i \div 2 \in Nat /\ i \div 2 < i /\ i % 2 \in 0 .. 1
      BY <2>2, <2>6, Halves
    <3>2. digits[i \div 2] \in Bits
      BY <2>2, <3>1
    <3>3. digits[i] = Append(digits[i \div 2], i % 2)
      BY <2>3, <2>4, <2>6
    <3> QED
      BY <2>3, <3>1, <3>2, <3>3 DEF Bits
  <2> QED
    BY <2>3, <2>5, <2>6
<1>9. digits = [n \in Nat |-> digits[n]]
  BY <1>5
<1> QED
  BY <1>6, <1>7, <1>8, <1>9

\* A numeral is one number's.
LEMMA DigitsApart ==
  ASSUME NEW m \in Nat, NEW n \in Nat, L!Digits[m] = L!Digits[n]
  PROVE  m = n
<1> DEFINE doubled == {i \in Nat : \E j \in Nat : i # j /\ L!Digits[i] = L!Digits[j]}
<1>1. SUFFICES ASSUME doubled # {} PROVE FALSE
  OBVIOUS
<1>2. PICK i \in doubled : \A j \in doubled : i <= j
  BY <1>1, LeastOf
<1>3. PICK j \in Nat : i # j /\ L!Digits[i] = L!Digits[j]
  BY <1>2
<1>4. ASSUME NEW k \in Nat
      PROVE  /\ L!Digits[k] \in Bits
             /\ k < 2 => L!Digits[k] = <<k>>
             /\ k >= 2 => L!Digits[k] = Append(L!Digits[k \div 2], k % 2) /\ L!Digits[k \div 2] \in Bits
             /\ Len(L!Digits[k]) >= 1
  <2>1. k \div 2 \in Nat
    BY Halves
  <2>2. L!Digits[k] \in Bits /\ L!Digits[k \div 2] \in Bits
    BY <2>1, DigitsDef
  <2>3. L!Digits[k] = IF k < 2 THEN <<k>> ELSE Append(L!Digits[k \div 2], k % 2)
    BY DigitsDef
  <2>4. Len(L!Digits[k]) >= 1
    BY <2>2, <2>3 DEF Bits
  <2> QED
    BY <2>2, <2>3, <2>4
<1>5. i \in Nat
  BY <1>2
<1>6. CASE i < 2 /\ j < 2
  BY <1>3, <1>4, <1>5, <1>6
<1>7. ASSUME NEW k \in Nat, NEW h \in Nat, k < 2, h >= 2
      PROVE  L!Digits[k] # L!Digits[h]
  <2>1. L!Digits[h \div 2] \in Bits /\ L!Digits[h] = Append(L!Digits[h \div 2], h % 2)
    BY <1>4, <1>7
  <2>2. h \div 2 \in Nat
    BY Halves
  <2>3. Len(L!Digits[h \div 2]) >= 1
    BY <1>4, <2>2
  <2>4. Len(L!Digits[h]) = Len(L!Digits[h \div 2]) + 1
    BY <2>1 DEF Bits
  <2>5. Len(L!Digits[k]) = 1
    <3>1. L!Digits[k] = <<k>>
      BY <1>4, <1>7
    <3> QED
      BY <3>1
  <2>6. Len(L!Digits[h \div 2]) \in Nat
    BY <2>1 DEF Bits
  <2>7. Len(L!Digits[k]) # Len(L!Digits[h])
    BY <2>3, <2>4, <2>5, <2>6
  <2> QED
    BY <2>7, Zenon
<1>8. CASE i >= 2 /\ j >= 2
  <2> DEFINE a == L!Digits[i \div 2]
             b == L!Digits[j \div 2]
  <2>1. a \in Seq(0 .. 1) /\ b \in Seq(0 .. 1) /\ L!Digits[i] = Append(a, i % 2)
          /\ L!Digits[j] = Append(b, j % 2)
    BY <1>4, <1>5, <1>8 DEF Bits
  <2> HIDE DEF a, b
  <2>2. a = b /\ i % 2 = j % 2
    <3>1. Append(a, i % 2) = Append(b, j % 2)
      BY <1>3, <2>1
    <3>2. i % 2 \in 0 .. 1 /\ j % 2 \in 0 .. 1
      BY <1>5, Halves
    <3> HIDE DEF doubled
    <3> QED
      BY <2>1, <3>1, <3>2, AppendInjective
  <2>3. i \div 2 # j \div 2
    BY <1>3, <1>5, <2>2, Halves
  <2>4. i \div 2 \in Nat /\ j \div 2 \in Nat /\ i \div 2 < i
    BY <1>5, <1>8, Halves
  <2>5. i \div 2 \in doubled
    BY <2>2, <2>3, <2>4 DEF a, b
  <2> QED
    BY <1>2, <1>5, <2>4, <2>5
<1> QED
  BY <1>3, <1>5, <1>6, <1>7, <1>8

\* The overrides that llama.cpp is given are one for each of the first blocks, and
\* every text they borrow is still where it was.
LEMMA OverridesAre ==
  ASSUME NEW n \in Int
  PROVE  L!Overrides(n) = {i \in Int : 0 <= i /\ i < n}
<1> DEFINE wanted == IF n > 0 THEN n ELSE 0
           vector(k) == [len |-> k, room |-> wanted, borrowed |-> {i \in Int : 0 <= i /\ i < k}]
           G(f, i) == IF i = 0 THEN L!Reserved(wanted) ELSE L!PushPattern(f[i - 1], i - 1)
           Solves(f) == f = [i \in 0 .. wanted |-> G(f, i)]
           pushed == CHOOSE f : Solves(f)
<1>1. wanted \in Nat
  OBVIOUS
<1>2. L!Reserved(wanted) = vector(0)
  BY DEF L!Reserved
<1>3. ASSUME NEW k \in Nat, k < wanted PROVE L!PushPattern(vector(k), k) = vector(k + 1)
  <2>1. {i \in Int : 0 <= i /\ i < k} \cup {k} = {i \in Int : 0 <= i /\ i < k + 1}
    OBVIOUS
  <2>2. vector(k).len # vector(k).room
    BY <1>1, <1>3
  <2> HIDE DEF wanted
  <2> QED
    BY <2>1, <2>2 DEF L!PushPattern
<1> HIDE DEF vector
<1>4. Solves(pushed)
  <2> DEFINE f == [i \in 0 .. wanted |-> vector(i)]
  <2>1. ASSUME NEW i \in 0 .. wanted PROVE vector(i) = G(f, i)
    <3>1. CASE i = 0
      BY <1>2, <3>1
    <3>2. CASE i # 0
      <4>1. i - 1 \in Nat /\ i - 1 < wanted /\ i - 1 \in 0 .. wanted /\ (i - 1) + 1 = i
        BY <1>1, <3>2
      <4>2. f[i - 1] = vector(i - 1)
        BY <4>1
      <4> HIDE DEF f
      <4> QED
        BY <1>3, <3>2, <4>1, <4>2
    <3> QED
      BY <3>1, <3>2
  <2>2. Solves(f)
    <3> HIDE DEF G
    <3> QED
      BY <2>1
  <2> HIDE DEF f, Solves
  <2> QED
    BY <2>2
<1>5. L!Overrides(n) = pushed[wanted].borrowed
  BY DEF L!Overrides
<1> HIDE DEF pushed
<1> DEFINE closed == {k \in Nat : k <= wanted => pushed[k] = vector(k)}
<1>6. 0 \in closed
  <2>1. 0 \in 0 .. wanted
    BY <1>1
  <2>2. pushed[0] = G(pushed, 0)
    <3> HIDE DEF G, wanted
    <3> QED
      BY <1>4, <2>1
  <2> QED
    BY <1>2, <2>2
<1>7. ASSUME NEW k \in Nat, k \in closed PROVE k + 1 \in closed
  <2>1. SUFFICES ASSUME k + 1 <= wanted PROVE pushed[k + 1] = vector(k + 1)
    OBVIOUS
  <2>2. k + 1 \in 0 .. wanted /\ k < wanted /\ (k + 1) - 1 = k /\ k + 1 # 0
    BY <1>1, <2>1
  <2>3. pushed[k + 1] = G(pushed, k + 1)
    <3> HIDE DEF G, wanted
    <3> QED
      BY <1>4, <2>2
  <2>4. pushed[k] = vector(k)
    BY <1>7, <2>2
  <2> HIDE DEF closed, wanted
  <2> QED
    BY <1>3, <2>2, <2>3, <2>4
<1>8. wanted \in closed
  <2> HIDE DEF closed, wanted
  <2> QED
    BY <1>1, <1>6, <1>7, Ladder
<1>9. pushed[wanted].borrowed = {i \in Int : 0 <= i /\ i < wanted}
  BY <1>1, <1>8 DEF vector
<1> QED
  BY <1>5, <1>9

\* A pattern fits the names of its own block alone: no number begins another.
LEMMA MatchesOwn ==
  ASSUME NEW i \in Nat, NEW t \in L!Tensors, L!LlamaAssumption
  PROVE  L!Matches(i, t) <=> i = t.block /\ t.name \in L!ExpertNames
<1> DEFINE a == L!Digits[i]
           b == L!Digits[t.block]
<1>1. t.block \in Nat
  BY DEF L!Tensors, L!LlamaAssumption
<1>2. a \in Seq(0 .. 1) /\ b \in Seq(0 .. 1)
  BY <1>1, DigitsDef DEF Bits
<1>3. a = b => i = t.block
  BY <1>1, DigitsApart
<1> HIDE DEF a, b
<1> DEFINE x == a \o <<2>>
           y == b \o <<2>>
<1>4. L!Pattern(i) = x /\ L!Name(t) = y
  BY DEF L!Pattern, L!Name, L!Dot, a, b
<1>5. <<2>> \in Seq(0 .. 2) /\ a \in Seq(0 .. 2) /\ b \in Seq(0 .. 2)
  BY <1>2
<1>6. /\ x \in Seq(0 .. 2) /\ y \in Seq(0 .. 2)
      /\ Len(x) = Len(a) + 1 /\ Len(y) = Len(b) + 1
      /\ \A j \in 1 .. Len(a) : x[j] = a[j]
      /\ \A j \in 1 .. Len(b) : y[j] = b[j]
      /\ x[Len(a) + 1] = 2 /\ y[Len(b) + 1] = 2
  BY <1>5, ConcatProperties
<1> HIDE DEF x, y
<1>7. ASSUME L!IsPrefix(x, y) PROVE a = b
  <2>1. Len(x) <= Len(y) /\ SubSeq(x, 1, Len(x)) = SubSeq(y, 1, Len(x))
    BY <1>7 DEF L!IsPrefix
  <2>2. \A j \in 1 .. Len(x) : x[j] = y[j]
    <3>1. \A j \in 1 .. Len(x) : SubSeq(x, 1, Len(x))[j] = x[j] /\ SubSeq(y, 1, Len(x))[j] = y[j]
      BY <1>6, <2>1
    <3> QED
      BY <2>1, <3>1
  <2>3. Len(a) \in Nat /\ Len(b) \in Nat /\ Len(a) <= Len(b)
    BY <1>2, <1>6, <2>1
  <2>4. y[Len(a) + 1] = 2
    <3>1. Len(a) + 1 \in 1 .. Len(x)
      BY <1>6, <2>3
    <3> QED
      BY <1>6, <2>2, <3>1
  <2>5. Len(a) = Len(b)
    <3>1. SUFFICES ASSUME Len(a) < Len(b) PROVE FALSE
      BY <2>3
    <3>2. Len(a) + 1 \in 1 .. Len(b)
      BY <2>3, <3>1
    <3>3. y[Len(a) + 1] = b[Len(a) + 1] /\ b[Len(a) + 1] \in 0 .. 1
      BY <1>2, <1>6, <3>2
    <3> QED
      BY <2>4, <3>3
  <2>6. \A j \in 1 .. Len(a) : a[j] = b[j]
    <3>1. ASSUME NEW j \in 1 .. Len(a) PROVE a[j] = b[j]
      <4>1. j \in 1 .. Len(x) /\ j \in 1 .. Len(b)
        BY <1>6, <2>3, <2>5
      <4> QED
        BY <1>6, <2>2, <4>1
    <3> QED
      BY <3>1
  <2> QED
    BY <1>2, <2>5, <2>6, SeqEqual
<1>8. L!IsPrefix(y, y)
  BY <1>6 DEF L!IsPrefix
<1>9. a = b => x = y
  BY DEF x, y
<1>10. i = t.block => a = b
  BY DEF a, b
<1>11. L!IsPrefix(x, y) <=> i = t.block
  <2>1. ASSUME L!IsPrefix(x, y) PROVE i = t.block
    BY <1>3, <1>7, <2>1
  <2>2. ASSUME i = t.block PROVE L!IsPrefix(x, y)
    <3>1. x = y
      BY <1>9, <1>10, <2>2
    <3> QED
      BY <1>8, <3>1, Zenon
  <2> QED
    BY <2>1, <2>2
<1> QED
  BY <1>4, <1>11, Zenon DEF L!Matches

\* -ncmoe pins the expert tensors of the blocks it counts, and no other.
LEMMA PinnedAre ==
  ASSUME NEW n \in Int, L!LlamaAssumption
  PROVE  L!Pinned(n) = {t \in L!Tensors : t.block < n /\ t.name \in L!ExpertNames}
<1>1. ASSUME NEW t \in L!Tensors
      PROVE  (\E i \in L!Overrides(n) : L!Matches(i, t)) <=> t.block < n /\ t.name \in L!ExpertNames
  <2>1. t.block \in Nat
    BY DEF L!Tensors, L!LlamaAssumption
  <2>2. \A i \in L!Overrides(n) : i \in Nat /\ i < n
    BY OverridesAre
  <2>3. t.block < n => t.block \in L!Overrides(n)
    BY <2>1, OverridesAre
  <2>4. \A i \in Nat : L!Matches(i, t) <=> i = t.block /\ t.name \in L!ExpertNames
    BY MatchesOwn
  <2> QED
    BY <2>1, <2>2, <2>3, <2>4
<1> QED
  BY <1>1 DEF L!Pinned

\* The plan's formula and the cache's rows come to the same bytes.
LEMMA BytesAgree ==
  ASSUME NEW p \in Asks, p.n_ctx > 0, L!LlamaAssumption
  PROVE  L!KvBytes(p) = L!CacheBytes(L!Flat(p))
<1>1. p \in [n_ctx : Nat, n_ubatch : Nat, type_k : L!KvTypes, type_v : L!KvTypes]
  BY DEF L!LlamaAssumption
<1>2. ASSUME NEW k \in L!KvTypes
      PROVE  L!BlockBytes(L!GgmlType[k]) = L!BytesPerElement32(k) /\ L!BytesPerElement32(k) \in Nat
  <2>1. CASE k = "f32"
    BY <2>1 DEF L!BlockBytes, L!GgmlType, L!BytesPerElement32, L!KvTypes
  <2>2. CASE k = "f16"
    BY <2>2 DEF L!BlockBytes, L!GgmlType, L!BytesPerElement32, L!KvTypes
  <2>3. CASE k = "q4_0"
    BY <2>3 DEF L!BlockBytes, L!GgmlType, L!BytesPerElement32, L!KvTypes
  <2>4. CASE k = "q8_0"
    BY <2>4 DEF L!BlockBytes, L!GgmlType, L!BytesPerElement32, L!KvTypes
  <2> QED
    BY <2>1, <2>2, <2>3, <2>4 DEF L!KvTypes
<1> DEFINE x == L!BytesPerElement32(p.type_k)
           y == L!BytesPerElement32(p.type_v)
           c == p.n_ctx
           w == Heads * HeadDim
           q == w \div 32
<1>3. x \in Nat /\ y \in Nat /\ c \in Nat
  BY <1>1, <1>2
<1>4. w \in Nat /\ q \in Nat /\ w = 32 * q /\ Layers \in Nat /\ Heads \in Nat /\ HeadDim \in Nat
  <2>1. Heads \in Nat /\ HeadDim \in Nat /\ Layers \in Nat /\ w % 32 = 0
    BY DEF L!LlamaAssumption
  <2>2. w \in Nat
    BY <2>1
  <2> HIDE DEF w
  <2> QED
    BY <2>1, <2>2
<1>5. L!CacheBytes(L!Flat(p)) = c * Layers * ((q * x) + (q * y))
  <2>1. L!Flat(p).n_ctx = c /\ L!Flat(p).type_k = L!GgmlType[p.type_k] /\ L!Flat(p).type_v = L!GgmlType[p.type_v]
    BY DEF L!Flat
  <2>2. L!Cells(L!Flat(p)) = c
    BY <2>1, <1>3 DEF L!Cells
  <2>3. L!BlockBytes(L!GgmlType[p.type_k]) = x /\ L!BlockBytes(L!GgmlType[p.type_v]) = y
    BY <1>1, <1>2
  <2> HIDE DEF x, y, c
  <2> QED
    BY <2>1, <2>2, <2>3 DEF L!CacheBytes, L!RowBytes
<1>6. L!KvBytes(p) = (Layers * Heads * HeadDim * (x + y) * c) \div 32
  BY DEF L!KvBytes
<1> HIDE DEF x, y, c
<1>7. Layers * Heads * HeadDim = Layers * w
  <2> HIDE DEF q
  <2> QED
    BY <1>4
<1> HIDE DEF w, q
<1>8. Layers * w * (x + y) * c = 32 * (c * Layers * ((q * x) + (q * y)))
  BY <1>3, <1>4
<1>9. c * Layers * ((q * x) + (q * y)) \in Nat
  BY <1>3, <1>4
<1>10. \A m \in Nat : (32 * m) \div 32 = m
  OBVIOUS
<1> QED
  BY <1>5, <1>6, <1>7, <1>8, <1>9, <1>10

Places ==
  {"idle", "loading", "loaded", "creating", "open", "load_failed", "create_failed", "reported",
   "closed", "decoding", "sampling"}
Jobs ==
  [made : Nat, prompt : Seq(L!Words), budget : Nat, previous : Seq(L!Words),
   tokens : Seq(L!Words), feed : Seq(L!Words), end : {"none", "budget", "eog", "error"},
   rate : BOOLEAN]

BindingTypes ==
  /\ quota \in Quotas
  /\ log \in Seq(Speech) /\ Len(log) <= LogTailMax
  /\ written \in [Users -> Seq(Speech)] /\ alone \in [Users -> BOOLEAN]
  /\ reason \in [Users -> Seq(Speech)] /\ at \in [Users -> Places]
  /\ on_cpu \in [Users -> SUBSET L!Tensors] /\ split \in [Users -> Int]
  /\ asked \in [Users -> Asks] /\ given \in [Users -> {L!Flat(p) : p \in Asks}]
  /\ \A u \in Users : given[u] = L!Flat(asked[u])
  /\ memory \in [Users -> Seq(L!Words)] /\ logits \in [Users -> Seq(L!Words)]
  /\ timers \in [Users -> Nat] /\ job \in [Users -> Jobs]

\* While nobody else has used the log since a user's call began, the log is that call's.
LogIsItsOwn(u) ==
  alone[u] =>
    /\ at[u] \in {"loading", "creating"} => log = <<>> /\ written[u] = <<>>
    /\ at[u] \in {"load_failed", "create_failed"} => log = L!LastLines(written[u])
    /\ at[u] = "reported" => reason[u] = L!LastLines(written[u])

\* What a call of generate() has to have in the cache when it is done.
Whole(u) == (job[u].previous \o job[u].prompt) \o job[u].tokens

CallIsItsOwn(u) ==
  /\ at[u] \in {"loaded", "creating", "open", "decoding", "sampling"} =>
       on_cpu[u] = L!Pinned(split[u])
  /\ job[u].rate => timers[u] > 0
  /\ at[u] \in {"decoding", "sampling"} => job[u].end = "none" /\ Len(job[u].tokens) <= job[u].budget
  /\ at[u] = "decoding" => /\ memory[u] \o job[u].feed = Whole(u)
                           /\ job[u].feed = <<>> => job[u].prompt = <<>>
  /\ at[u] = "sampling" => memory[u] = Whole(u) /\ (job[u].prompt # <<>> => logits[u] = memory[u])
  /\ at[u] = "open" /\ job[u].end \in {"budget", "eog"} => memory[u] = Whole(u)
  /\ at[u] \notin {"open", "closed", "decoding", "sampling"} => job[u].end = "none"
  /\ job[u].end = "budget" => Len(job[u].tokens) = job[u].budget

BindingInv == BindingTypes /\ \A u \in Users : LogIsItsOwn(u) /\ CallIsItsOwn(u)

\* The tail of a tail that is short enough is that tail.
LEMMA LastLinesType ==
  ASSUME NEW says \in Seq(Speech), L!LlamaAssumption
  PROVE  /\ L!LastLines(says) \in Seq(Speech) /\ Len(L!LastLines(says)) <= LogTailMax
         /\ Len(says) <= LogTailMax => L!LastLines(says) = says
         /\ L!LastLines(<<>>) = <<>>
<1>1. LogTailMax \in Nat /\ Len(says) \in Nat
  BY DEF L!LlamaAssumption
<1>2. L!LastLines(<<>>) = <<>>
  BY <1>1 DEF L!LastLines
<1>3. CASE Len(says) <= LogTailMax
  BY <1>2, <1>3 DEF L!LastLines
<1>4. CASE Len(says) > LogTailMax
  <2> DEFINE m == Len(says) - LogTailMax + 1
  <2>1. m \in 1 .. (Len(says) + 1)
    BY <1>1, <1>4
  <2>2. \A i \in m .. Len(says) : says[i] \in Speech
    BY <2>1
  <2>3. SubSeq(says, m, Len(says)) \in Seq(Speech) /\ Len(SubSeq(says, m, Len(says))) = LogTailMax
    <3> HIDE DEF m
    <3>1. m = Len(says) - LogTailMax + 1
      BY DEF m
    <3> QED
      BY <1>1, <2>1, <2>2, <3>1
  <2>4. L!LastLines(says) = SubSeq(says, m, Len(says))
    BY <1>1, <1>4 DEF L!LastLines
  <2> HIDE DEF m
  <2> QED
    BY <1>1, <1>2, <1>4, <2>3, <2>4
<1> QED
  BY <1>1, <1>3, <1>4

\* Whatever a call writes of itself goes to the log of everybody.
LEMMA WritesKeep ==
  ASSUME BindingInv, L!LlamaAssumption, NEW u \in Users, NEW says \in L!Outputs(u), L!Writes(u, says)
  PROVE  /\ log' \in Seq(Speech) /\ Len(log') <= LogTailMax
         /\ written' \in [Users -> Seq(Speech)] /\ alone' \in [Users -> BOOLEAN]
         /\ alone[u] /\ log = <<>> => log' = L!LastLines(written'[u])
         /\ \A v \in Users \ {u} : alone'[v] => alone[v] /\ log' = log /\ written'[v] = written[v]
<1> DEFINE more == L!Kept(says)
<1>1. more \in Seq(Speech)
  <2>1. says \in Seq(Speech)
    BY OutputsType
  <2> QED
    BY <2>1, KeptType
<1>2. log \in Seq(Speech) /\ Len(log) <= LogTailMax /\ written \in [Users -> Seq(Speech)]
        /\ alone \in [Users -> BOOLEAN]
  BY DEF BindingInv, BindingTypes
<1>3. log' = L!LastLines(log \o more) /\ written' = [written EXCEPT ![u] = more]
        /\ alone' = [v \in Users |-> alone[v] /\ (v = u \/ more = <<>>)]
  BY DEF L!Writes
<1> HIDE DEF more
<1>4. log \o more \in Seq(Speech)
  BY <1>1, <1>2
<1>5. log' \in Seq(Speech) /\ Len(log') <= LogTailMax
  BY <1>3, <1>4, LastLinesType
<1>6. written' \in [Users -> Seq(Speech)] /\ alone' \in [Users -> BOOLEAN]
  BY <1>1, <1>2, <1>3
<1>7. ASSUME log = <<>> PROVE log' = L!LastLines(written'[u])
  <2>1. log \o more = more /\ written'[u] = more
    BY <1>1, <1>2, <1>3, <1>7
  <2> QED
    BY <1>3, <2>1
<1>8. ASSUME NEW v \in Users \ {u}, alone'[v]
      PROVE  alone[v] /\ log' = log /\ written'[v] = written[v]
  <2>1. alone[v] /\ more = <<>> /\ written'[v] = written[v]
    BY <1>2, <1>3, <1>8
  <2>2. log \o more = log
    BY <1>2, <2>1
  <2>3. log' = log
    BY <1>2, <1>3, <2>2, LastLinesType
  <2> QED
    BY <2>1, <2>3
<1> QED
  BY <1>5, <1>6, <1>7, <1>8

\* What no action of a user touches is as it was.
LEMMA OthersCalls ==
  ASSUME NEW v \in Users, CallIsItsOwn(v),
         at'[v] = at[v], on_cpu'[v] = on_cpu[v], split'[v] = split[v], memory'[v] = memory[v],
         logits'[v] = logits[v], timers'[v] = timers[v], job'[v] = job[v]
  PROVE  CallIsItsOwn(v)'
BY DEF CallIsItsOwn, Whole

Running == {"open", "closed", "decoding", "sampling"}

\* An action between a context's opening and its end leaves the log alone.
LEMMA LogUntouched ==
  ASSUME BindingInv, UNCHANGED L!loading, NEW u \in Users, NEW to \in Running, L!Goto(u, to)
  PROVE  \A v \in Users : LogIsItsOwn(v)'
<1>1. ASSUME NEW v \in Users PROVE LogIsItsOwn(v)'
  <2>1. log' = log /\ written' = written /\ alone' = alone /\ reason' = reason
    BY DEF L!loading
  <2>2. at'[v] = at[v] \/ at'[v] \in Running
    BY DEF L!Goto, BindingInv, BindingTypes
  <2>3. LogIsItsOwn(v)
    BY DEF BindingInv
  <2> QED
    BY <2>1, <2>2, <2>3 DEF LogIsItsOwn, Running
<1> QED
  BY <1>1

\* It is one user's: the calls of the others go on as they were.
LEMMA RunningStep ==
  ASSUME BindingInv, UNCHANGED <<L!loading, quota>>, NEW u \in Users, NEW to \in Running,
         L!Goto(u, to), BindingTypes', CallIsItsOwn(u)',
         \A v \in Users \ {u} :
           /\ on_cpu'[v] = on_cpu[v] /\ split'[v] = split[v] /\ memory'[v] = memory[v]
           /\ logits'[v] = logits[v] /\ timers'[v] = timers[v] /\ job'[v] = job[v]
  PROVE  BindingInv'
<1>1. \A v \in Users : LogIsItsOwn(v)'
  BY LogUntouched
<1>2. ASSUME NEW v \in Users \ {u} PROVE CallIsItsOwn(v)'
  <2>1. at'[v] = at[v]
    BY DEF L!Goto, BindingInv, BindingTypes
  <2>2. CallIsItsOwn(v)
    BY DEF BindingInv
  <2> QED
    BY <2>1, <2>2, OthersCalls
<1> QED
  BY <1>1, <1>2 DEF BindingInv

\* The parts of a job.
LEMMA JobType ==
  ASSUME BindingInv, NEW u \in Users
  PROVE  /\ job[u] \in Jobs /\ memory[u] \in Seq(L!Words) /\ logits[u] \in Seq(L!Words)
         /\ timers[u] \in Nat /\ at[u] \in Places /\ CallIsItsOwn(u)
         /\ job[u].prompt \in Seq(L!Words) /\ job[u].previous \in Seq(L!Words)
         /\ job[u].tokens \in Seq(L!Words) /\ job[u].feed \in Seq(L!Words)
         /\ job[u].budget \in Nat /\ job[u].made \in Nat /\ job[u].rate \in BOOLEAN
BY DEF BindingInv, BindingTypes, Jobs

\* What is edited into a job leaves a job.
LEMMA JobEdits ==
  ASSUME NEW j \in Jobs, NEW n \in Nat, NEW m \in Nat, NEW s \in Seq(L!Words),
         NEW t \in Seq(L!Words), NEW f \in Seq(L!Words),
         NEW e \in {"none", "budget", "eog", "error"}, NEW r \in BOOLEAN
  PROVE  /\ L!NoJob \in Jobs
         /\ [j EXCEPT !.made = n, !.prompt = s, !.budget = m, !.previous = t, !.feed = f] \in Jobs
         /\ [j EXCEPT !.tokens = t, !.feed = f] \in Jobs
         /\ [j EXCEPT !.tokens = t, !.end = e, !.feed = f] \in Jobs
         /\ [j EXCEPT !.end = e, !.rate = r, !.feed = f] \in Jobs
<1>1. L!NoJob \in Jobs
  BY DEF L!NoJob, Jobs
<1>2. [j EXCEPT !.made = n, !.prompt = s, !.budget = m, !.previous = t, !.feed = f] \in Jobs
  BY DEF Jobs
<1>3. [j EXCEPT !.tokens = t, !.feed = f] \in Jobs
  BY DEF Jobs
<1>4. [j EXCEPT !.tokens = t, !.end = e, !.feed = f] \in Jobs
  BY DEF Jobs
<1>5. [j EXCEPT !.end = e, !.rate = r, !.feed = f] \in Jobs
  BY DEF Jobs
<1> QED
  BY <1>1, <1>2, <1>3, <1>4, <1>5

\* A job with another count of tokens is a job.
LEMMA JobNumbered ==
  ASSUME NEW j \in Jobs, NEW n \in Nat
  PROVE  [j EXCEPT !.made = n] \in Jobs
BY DEF Jobs

\* A thread begins to generate.
LEMMA StepGenerate ==
  ASSUME BindingInv, L!LlamaAssumption, UNCHANGED quota, NEW u \in Users, L!Generate(u)
  PROVE  BindingInv'
<1>1. PICK says \in Texts, most \in Budgets :
        job' = [job EXCEPT ![u] =
            [L!NoJob EXCEPT !.made = job[u].made + 1, !.prompt = says, !.budget = most,
                            !.previous = memory[u], !.feed = says]]
  BY DEF L!Generate
<1>2. /\ at[u] = "open" /\ L!Goto(u, "decoding") /\ UNCHANGED <<L!loading, quota>>
      /\ UNCHANGED <<on_cpu, split, asked, given, memory, logits, timers>>
  BY DEF L!Generate, L!weights
<1>3. says \in Seq(L!Words) /\ most \in Nat
  BY SMTT(30) DEF L!LlamaAssumption
<1> DEFINE new == [L!NoJob EXCEPT !.made = job[u].made + 1, !.prompt = says, !.budget = most,
                                  !.previous = memory[u], !.feed = says]
<1>4. job' = [job EXCEPT ![u] = new]
  BY SMTT(30), <1>1
<1>5. new \in Jobs
  <2>1. job[u].made + 1 \in Nat /\ memory[u] \in Seq(L!Words) /\ job[u] \in Jobs
    BY SMTT(30), JobType
  <2>2. L!NoJob \in Jobs
    BY <1>3, <2>1, JobEdits
  <2> QED
    BY ZenonT(40), <1>3, <2>1, <2>2, JobEdits
<1>6. /\ new.prompt = says /\ new.budget = most /\ new.previous = memory[u] /\ new.tokens = <<>>
       /\ new.feed = says /\ new.end = "none" /\ new.rate = FALSE
  BY DEF L!NoJob
<1> HIDE DEF new
<1>7. BindingTypes'
  BY <1>2, <1>4, <1>5 DEF BindingInv, BindingTypes, L!Goto, L!loading, Places
<1>8. job'[u] = new /\ memory'[u] = memory[u] /\ at'[u] = "decoding" /\ on_cpu'[u] = on_cpu[u] /\ split'[u] = split[u]
  BY <1>2, <1>4 DEF BindingInv, BindingTypes, L!Goto
<1>9. memory[u] \o says = (memory[u] \o says) \o <<>>
  BY <1>3, JobType
<1>10. CallIsItsOwn(u)'
  <2>1. on_cpu[u] = L!Pinned(split[u])
    BY <1>2, JobType DEF CallIsItsOwn
  <2>2. Len(<<>>) = 0 /\ 0 <= most
    BY <1>3
  <2> QED
    BY <1>3, <1>8, <1>6, <1>9, <2>1, <2>2 DEF CallIsItsOwn, Whole
<1>11. \A v \in Users \ {u} : job'[v] = job[v]
  BY <1>4 DEF BindingInv, BindingTypes
<1> QED
  BY <1>2, <1>7, <1>10, <1>11, RunningStep DEF Running

\* A batch was decoded.
LEMMA StepDecoded ==
  ASSUME BindingInv, L!LlamaAssumption, UNCHANGED quota, NEW u \in Users, L!Decoded(u)
  PROVE  BindingInv'
<1>1. /\ at[u] = "decoding" /\ L!Goto(u, "sampling") /\ UNCHANGED <<L!loading, quota>>
      /\ UNCHANGED <<on_cpu, split, asked, given, job>>
  BY DEF L!Decoded, L!weights
<1>2. /\ memory[u] \o job[u].feed = Whole(u)
      /\ job[u].feed = <<>> => job[u].prompt = <<>>
      /\ job[u].end = "none" /\ Len(job[u].tokens) <= job[u].budget
  BY <1>1, JobType DEF CallIsItsOwn
<1>3. at'[u] = "sampling" /\ on_cpu'[u] = on_cpu[u] /\ split'[u] = split[u] /\ job'[u] = job[u]
  BY <1>1 DEF BindingInv, BindingTypes, L!Goto
<1>4. CASE job[u].feed = <<>>
  <2>1. UNCHANGED <<memory, logits, timers>>
    BY <1>4 DEF L!Decoded, L!Feed
  <2>2. BindingTypes'
    BY <1>1, <2>1 DEF BindingInv, BindingTypes, L!Goto, L!loading, Places
  <2>3. memory[u] \o job[u].feed = memory[u]
    BY <1>4, JobType
  <2>4. CallIsItsOwn(u)'
    BY <1>1, <1>2, <1>3, <1>4, <2>1, <2>3, JobType DEF CallIsItsOwn, Whole
  <2> QED
    BY <1>1, <2>1, <2>2, <2>4, RunningStep DEF Running
<1>5. CASE job[u].feed # <<>>
  <2> DEFINE full == memory[u] \o job[u].feed
             more == IF Len(job[u].feed) = 1 THEN 1 ELSE 0
  <2>1. /\ memory' = [memory EXCEPT ![u] = full] /\ logits' = [logits EXCEPT ![u] = full]
        /\ timers' = [timers EXCEPT ![u] = timers[u] + more]
    BY <1>5 DEF L!Decoded, L!Feed
  <2>2. full \in Seq(L!Words) /\ more \in Nat /\ timers[u] + more \in Nat
    BY JobType
  <2> HIDE DEF full, more
  <2>3. BindingTypes'
    BY <1>1, <2>1, <2>2 DEF BindingInv, BindingTypes, L!Goto, L!loading, Places
  <2>4. memory'[u] = full /\ logits'[u] = full /\ timers'[u] = timers[u] + more
    BY <2>1 DEF BindingInv, BindingTypes
  <2>5. full = Whole(u)
    BY <1>2 DEF full
  <2>6. CallIsItsOwn(u)'
    <3>1. on_cpu[u] = L!Pinned(split[u]) /\ (job[u].rate => timers[u] > 0)
      BY <1>1, JobType DEF CallIsItsOwn
    <3>2. timers[u] > 0 => timers[u] + more > 0
      BY <2>2, JobType
    <3>3. Whole(u)' = Whole(u)
      BY <1>3 DEF Whole
    <3> QED
      BY <1>2, <1>3, <2>4, <2>5, <3>1, <3>2, <3>3 DEF CallIsItsOwn
  <2>7. \A v \in Users \ {u} : memory'[v] = memory[v] /\ logits'[v] = logits[v] /\ timers'[v] = timers[v]
    BY <2>1 DEF BindingInv, BindingTypes
  <2> QED
    BY <1>1, <2>3, <2>6, <2>7, RunningStep DEF Running
<1> QED
  BY <1>4, <1>5

\* A batch could not be decoded.
LEMMA StepDecodeFailed ==
  ASSUME BindingInv, L!LlamaAssumption, UNCHANGED quota, NEW u \in Users, L!DecodeFailed(u)
  PROVE  BindingInv'
<1>1. /\ at[u] = "decoding" /\ L!Goto(u, "open") /\ UNCHANGED <<L!loading, quota>>
      /\ UNCHANGED <<on_cpu, split, asked, given, logits, timers>>
      /\ job' = [job EXCEPT ![u].tokens = <<>>, ![u].end = "error", ![u].feed = <<>>]
  BY DEF L!DecodeFailed, L!weights
<1>2. PICK done \in {k * given[u].n_ubatch : k \in 0 .. Len(L!Feed(u))} :
        /\ done < Len(L!Feed(u))
        /\ memory' = [memory EXCEPT ![u] = @ \o SubSeq(L!Feed(u), 1, done)]
  BY DEF L!DecodeFailed
<1>3. done \in Nat
  <2>1. PICK p \in Asks : given[u] = L!Flat(p)
    BY DEF BindingInv, BindingTypes
  <2>2. given[u].n_ubatch \in Nat
    BY <2>1 DEF L!Flat, L!LlamaAssumption
  <2>3. PICK k \in 0 .. Len(L!Feed(u)) : done = k * given[u].n_ubatch
    BY <1>2
  <2>4. k \in Nat
    OBVIOUS
  <2> QED
    BY <2>2, <2>3, <2>4
<1>4. memory[u] \o SubSeq(L!Feed(u), 1, done) \in Seq(L!Words)
  <2>1. L!Feed(u) \in Seq(L!Words) /\ memory[u] \in Seq(L!Words)
    BY JobType DEF L!Feed
  <2>2. SubSeq(L!Feed(u), 1, done) \in Seq(L!Words)
    BY <1>2, <1>3, <2>1
  <2> QED
    BY <2>1, <2>2
<1> DEFINE new == [job[u] EXCEPT !.tokens = <<>>, !.end = "error", !.feed = <<>>]
<1>5. new \in Jobs /\ job' = [job EXCEPT ![u] = new]
  <2>1. new \in Jobs
    <3>1. <<>> \in Seq(L!Words) /\ job[u] \in Jobs
      BY JobType
    <3> QED
      BY <3>1, JobEdits
  <2>2. job' = [job EXCEPT ![u] = new]
    BY <1>1 DEF BindingInv, BindingTypes
  <2> QED
    BY SMTT(30), <2>1, <2>2
<1>6. BindingTypes'
  BY SMTT(30), <1>1, <1>2, <1>4, <1>5 DEF BindingInv, BindingTypes, L!Goto, L!loading, Places
<1>7. job'[u].end = "error" /\ job'[u].rate = job[u].rate /\ timers' = timers /\ at'[u] = "open"
        /\ on_cpu'[u] = on_cpu[u] /\ split'[u] = split[u]
  BY <1>1, <1>5, JobType DEF BindingInv, BindingTypes, L!Goto, Jobs
<1>8. CallIsItsOwn(u)'
  BY <1>1, <1>7, JobType DEF CallIsItsOwn
<1>9. \A v \in Users \ {u} : memory'[v] = memory[v] /\ job'[v] = job[v]
  BY <1>2, <1>5 DEF BindingInv, BindingTypes
<1> QED
  BY <1>1, <1>6, <1>8, <1>9, RunningStep DEF Running

\* A rate is one of tokens that were decoded.
LEMMA RatesAre ==
  ASSUME NEW n \in Nat, NEW rate \in L!Rates(n)
  PROVE  rate \in BOOLEAN /\ (rate => n > 0)
BY DEF L!Rates

\* A thread returns from generating.
LEMMA StepReturn ==
  ASSUME BindingInv, L!LlamaAssumption, UNCHANGED quota, NEW u \in Users,
         L!BudgetSpent(u) \/ L!EndOfGeneration(u)
  PROVE  BindingInv'
<1>1. PICK why \in {"budget", "eog"} :
        at[u] = "sampling" /\ L!Return(u, why) /\ (why = "budget" => ~L!Wants(u))
  BY DEF L!BudgetSpent, L!EndOfGeneration
<1>2. PICK rate \in L!Rates(timers[u]) :
        job' = [job EXCEPT ![u].end = why, ![u].rate = rate, ![u].feed = <<>>]
  BY <1>1 DEF L!Return
<1>3. /\ L!Goto(u, "open") /\ UNCHANGED <<L!loading, quota>>
      /\ UNCHANGED <<on_cpu, split, asked, given, memory, logits, timers>>
  BY <1>1 DEF L!Return, L!weights
<1>4. rate \in BOOLEAN /\ (rate => timers[u] > 0)
  BY JobType, RatesAre
<1> DEFINE new == [job[u] EXCEPT !.end = why, !.rate = rate, !.feed = <<>>]
<1>5. new \in Jobs /\ job' = [job EXCEPT ![u] = new]
  <2>1. new \in Jobs
    <3>1. <<>> \in Seq(L!Words) /\ job[u] \in Jobs /\ why \in {"none", "budget", "eog", "error"}
      BY JobType
    <3> QED
      BY <1>4, <3>1, JobEdits
  <2>2. job' = [job EXCEPT ![u] = new]
    BY <1>2 DEF BindingInv, BindingTypes
  <2> QED
    BY SMTT(30), <2>1, <2>2
<1>6. BindingTypes'
  BY <1>3, <1>5 DEF BindingInv, BindingTypes, L!Goto, L!loading, Places
<1>7. /\ new.end = why /\ new.rate = rate /\ new.tokens = job[u].tokens /\ new.prompt = job[u].prompt
      /\ new.previous = job[u].previous /\ new.budget = job[u].budget
  BY JobType DEF Jobs
<1> HIDE DEF new
<1>8. job'[u] = new /\ memory'[u] = memory[u] /\ at'[u] = "open" /\ on_cpu'[u] = on_cpu[u] /\ split'[u] = split[u]
        /\ timers'[u] = timers[u]
  BY <1>3, <1>5 DEF BindingInv, BindingTypes, L!Goto
<1>9. memory[u] = Whole(u) /\ on_cpu[u] = L!Pinned(split[u]) /\ Len(job[u].tokens) <= job[u].budget
  BY <1>1, JobType DEF CallIsItsOwn
<1>10. why = "budget" => Len(job[u].tokens) = job[u].budget
  BY <1>1, <1>9, JobType DEF L!Wants
<1>11. CallIsItsOwn(u)'
  BY <1>4, <1>7, <1>8, <1>9, <1>10 DEF CallIsItsOwn, Whole
<1>12. \A v \in Users \ {u} : job'[v] = job[v]
  BY <1>5 DEF BindingInv, BindingTypes
<1> QED
  BY <1>3, <1>6, <1>11, <1>12, RunningStep DEF Running

\* A token is sampled from what was decoded last.
LEMMA StepSample ==
  ASSUME BindingInv, L!LlamaAssumption, UNCHANGED quota, NEW u \in Users, L!Sample(u)
  PROVE  BindingInv'
<1>1. PICK t \in Vocab : job' = [job EXCEPT ![u].tokens = Append(@, t), ![u].feed = <<t>>]
  BY DEF L!Sample
<1>2. /\ at[u] = "sampling" /\ L!Wants(u) /\ L!Goto(u, "decoding") /\ UNCHANGED <<L!loading, quota>>
      /\ UNCHANGED <<on_cpu, split, asked, given, memory, logits, timers>>
  BY DEF L!Sample, L!weights
<1>3. t \in L!Words /\ <<t>> \in Seq(L!Words) /\ <<t>> # <<>>
  BY DEF L!Words
<1> DEFINE old == job[u].tokens
           new == [job[u] EXCEPT !.tokens = Append(old, t), !.feed = <<t>>]
<1>4. Append(old, t) \in Seq(L!Words) /\ Append(old, t) = old \o <<t>> /\ Len(Append(old, t)) = Len(old) + 1
  <2>1. old \in Seq(L!Words)
    BY JobType
  <2> HIDE DEF old
  <2> QED
    BY <1>3, <2>1, AppendProperties, AppendIsConcat
<1>5. new \in Jobs /\ job' = [job EXCEPT ![u] = new]
  BY ZenonT(40), <1>1, <1>3, <1>4, JobType DEF Jobs, BindingInv, BindingTypes
<1>6. BindingTypes'
  BY <1>2, <1>5 DEF BindingInv, BindingTypes, L!Goto, L!loading, Places
<1>7. /\ new.end = job[u].end /\ new.rate = job[u].rate /\ new.tokens = Append(old, t)
      /\ new.prompt = job[u].prompt /\ new.previous = job[u].previous /\ new.budget = job[u].budget
      /\ new.feed = <<t>>
  BY JobType DEF Jobs
<1> HIDE DEF new
<1>8. job'[u] = new /\ memory'[u] = memory[u] /\ at'[u] = "decoding" /\ on_cpu'[u] = on_cpu[u] /\ split'[u] = split[u]
        /\ timers'[u] = timers[u]
  BY <1>2, <1>5 DEF BindingInv, BindingTypes, L!Goto
<1>9. memory[u] = Whole(u) /\ on_cpu[u] = L!Pinned(split[u]) /\ job[u].end = "none"
        /\ (job[u].rate => timers[u] > 0)
  BY <1>2, JobType DEF CallIsItsOwn
<1>10. Len(old) + 1 <= job[u].budget
  <2>1. Len(old) < job[u].budget /\ Len(old) \in Nat /\ job[u].budget \in Nat
    BY <1>2, JobType DEF L!Wants
  <2> QED
    BY <2>1
<1>11. memory[u] \o <<t>> = (job[u].previous \o job[u].prompt) \o Append(old, t)
  <2>1. job[u].previous \o job[u].prompt \in Seq(L!Words) /\ old \in Seq(L!Words)
    BY JobType
  <2>2. \A a, b, d \in Seq(L!Words) : (a \o b) \o d = a \o (b \o d)
    BY ConcatAssociative
  <2>3. ((job[u].previous \o job[u].prompt) \o old) \o <<t>> = (job[u].previous \o job[u].prompt) \o (old \o <<t>>)
    BY <1>3, <2>1, <2>2
  <2> QED
    BY <1>4, <1>9, <2>3 DEF Whole
<1>12. CallIsItsOwn(u)'
  BY <1>3, <1>4, <1>7, <1>8, <1>9, <1>10, <1>11 DEF CallIsItsOwn, Whole
<1>13. \A v \in Users \ {u} : job'[v] = job[v]
  BY <1>5 DEF BindingInv, BindingTypes
<1> QED
  BY <1>2, <1>6, <1>12, <1>13, RunningStep DEF Running

\* A context, or its counters, are reset.
LEMMA StepResets ==
  ASSUME BindingInv, L!LlamaAssumption, UNCHANGED quota, NEW u \in Users,
         L!Reset(u) \/ L!PerfReset(u)
  PROVE  BindingInv'
<1> DEFINE new == [L!NoJob EXCEPT !.made = job[u].made]
<1>1. /\ at[u] = "open" /\ UNCHANGED <<L!loading, quota>> /\ at' = at
      /\ UNCHANGED <<on_cpu, split, asked, given, logits>>
      /\ job' = [job EXCEPT ![u] = new]
      /\ \/ memory' = [memory EXCEPT ![u] = <<>>] /\ timers' = timers
         \/ timers' = [timers EXCEPT ![u] = 0] /\ memory' = memory
  BY DEF L!Reset, L!PerfReset, L!weights
<1>2. new \in Jobs /\ new.end = "none" /\ new.rate = FALSE
  <2>1. job[u] \in Jobs /\ job[u].made \in Nat
    BY JobType
  <2>2. L!NoJob \in Jobs
    BY DEF L!NoJob, Jobs
  <2>3. new \in Jobs
    BY <2>1, <2>2, JobNumbered
  <2>4. new.end = "none" /\ new.rate = FALSE
    BY DEF L!NoJob
  <2> QED
    BY <2>3, <2>4
<1>3. L!Goto(u, "open")
  BY <1>1 DEF L!Goto, BindingInv, BindingTypes
<1> HIDE DEF new
<1>4. BindingTypes'
  <2>1. memory' \in [Users -> Seq(L!Words)]
    <3>1. memory \in [Users -> Seq(L!Words)] /\ <<>> \in Seq(L!Words)
      BY DEF BindingInv, BindingTypes
    <3>2. memory' = memory \/ memory' = [memory EXCEPT ![u] = <<>>]
      BY <1>1
    <3> QED
      BY <3>1, <3>2
  <2>2. timers' \in [Users -> Nat]
    BY <1>1 DEF BindingInv, BindingTypes
  <2>3. job' \in [Users -> Jobs]
    BY <1>1, <1>2 DEF BindingInv, BindingTypes
  <2> QED
    BY <1>1, <2>1, <2>2, <2>3 DEF BindingInv, BindingTypes, L!loading
<1>5. job'[u] = new /\ at'[u] = "open" /\ on_cpu'[u] = on_cpu[u] /\ split'[u] = split[u]
  BY <1>1 DEF BindingInv, BindingTypes
<1>6. CallIsItsOwn(u)'
  BY <1>1, <1>2, <1>5, JobType DEF CallIsItsOwn
<1>7. \A v \in Users \ {u} : memory'[v] = memory[v] /\ job'[v] = job[v] /\ timers'[v] = timers[v]
  BY <1>1 DEF BindingInv, BindingTypes
<1> QED
  BY <1>1, <1>3, <1>4, <1>6, <1>7, RunningStep DEF Running

\* A context is dropped.
LEMMA StepDropContext ==
  ASSUME BindingInv, L!LlamaAssumption, UNCHANGED quota, NEW u \in Users, L!DropContext(u)
  PROVE  BindingInv'
<1>1. /\ at[u] = "open" /\ L!Goto(u, "closed") /\ UNCHANGED <<L!loading, quota>>
      /\ on_cpu' = [on_cpu EXCEPT ![u] = {}] /\ split' = [split EXCEPT ![u] = 0]
      /\ memory' = [memory EXCEPT ![u] = <<>>] /\ logits' = [logits EXCEPT ![u] = <<>>]
      /\ UNCHANGED <<asked, given, timers, job>>
  BY DEF L!DropContext
<1>2. BindingTypes'
  BY <1>1 DEF BindingInv, BindingTypes, L!Goto, L!loading, Places
<1>3. at'[u] = "closed"
  BY <1>1 DEF BindingInv, BindingTypes, L!Goto
<1>4. CallIsItsOwn(u)'
  BY <1>1, <1>3, JobType DEF CallIsItsOwn
<1>5. \A v \in Users \ {u} : on_cpu'[v] = on_cpu[v] /\ split'[v] = split[v] /\ memory'[v] = memory[v]
                               /\ logits'[v] = logits[v]
  BY <1>1 DEF BindingInv, BindingTypes
<1> QED
  BY <1>1, <1>2, <1>4, <1>5, RunningStep DEF Running

\* A call that may fail begins with an empty log, and whoever was in one no longer
\* has it alone.
LEMMA ClearErrorKeeps ==
  ASSUME BindingInv, NEW u \in Users, L!ClearError(u)
  PROVE  /\ log' = <<>> /\ written' \in [Users -> Seq(Speech)] /\ written'[u] = <<>>
         /\ alone' \in [Users -> BOOLEAN] /\ reason' \in [Users -> Seq(Speech)]
         /\ \A v \in Users \ {u} : alone'[v] = FALSE
<1>1. <<>> \in Seq(Speech)
  OBVIOUS
<1>2. written \in [Users -> Seq(Speech)] /\ reason \in [Users -> Seq(Speech)]
  BY DEF BindingInv, BindingTypes
<1>3. /\ log' = <<>> /\ written' = [written EXCEPT ![u] = <<>>]
      /\ alone' = [v \in Users |-> v = u] /\ reason' = [reason EXCEPT ![u] = <<>>]
  BY DEF L!ClearError
<1>4. written' \in [Users -> Seq(Speech)] /\ written'[u] = <<>> /\ reason' \in [Users -> Seq(Speech)]
  BY <1>1, <1>2, <1>3
<1>5. alone' \in [Users -> BOOLEAN] /\ \A v \in Users \ {u} : alone'[v] = FALSE
  BY <1>3
<1> QED
  BY <1>3, <1>4, <1>5

\* Before a context is open a user's calls leave the job as it was, and what others do.
LEMMA OpeningStep ==
  ASSUME BindingInv, NEW u \in Users, NEW to \in Places, L!Goto(u, to), UNCHANGED L!sequence,
         BindingTypes', \A v \in Users : LogIsItsOwn(v)', CallIsItsOwn(u)',
         \A v \in Users \ {u} : on_cpu'[v] = on_cpu[v] /\ split'[v] = split[v]
  PROVE  BindingInv'
<1>1. ASSUME NEW v \in Users \ {u} PROVE CallIsItsOwn(v)'
  <2>1. at'[v] = at[v] /\ memory'[v] = memory[v] /\ logits'[v] = logits[v]
          /\ timers'[v] = timers[v] /\ job'[v] = job[v]
    BY DEF L!Goto, BindingInv, BindingTypes, L!sequence
  <2>2. CallIsItsOwn(v)
    BY DEF BindingInv
  <2> QED
    BY <2>1, <2>2, OthersCalls
<1> QED
  BY <1>1 DEF BindingInv

\* A thread begins to load a model.
LEMMA StepLoad ==
  ASSUME BindingInv, L!LlamaAssumption, UNCHANGED quota, NEW u \in Users, L!Load(u)
  PROVE  BindingInv'
<1>1. PICK n \in Splits : split' = [split EXCEPT ![u] = n]
  BY DEF L!Load
<1>2. /\ at[u] = "idle" /\ L!Goto(u, "loading") /\ L!ClearError(u)
      /\ UNCHANGED <<on_cpu, asked, given, L!sequence>>
  BY DEF L!Load
<1>3. /\ log' = <<>> /\ written' \in [Users -> Seq(Speech)] /\ written'[u] = <<>>
      /\ alone' \in [Users -> BOOLEAN] /\ reason' \in [Users -> Seq(Speech)]
      /\ \A v \in Users \ {u} : alone'[v] = FALSE
  BY <1>2, ClearErrorKeeps
<1>4. Len(<<>>) <= LogTailMax /\ <<>> \in Seq(Speech) /\ n \in Int
  BY DEF L!LlamaAssumption
<1>5. at'[u] = "loading" /\ job'[u] = job[u] /\ timers'[u] = timers[u]
  BY <1>2 DEF L!Goto, BindingInv, BindingTypes, L!sequence
<1>6. BindingTypes'
  <2>1. at' \in [Users -> Places] /\ split' \in [Users -> Int]
    BY <1>1, <1>2, <1>4 DEF L!Goto, BindingInv, BindingTypes, Places
  <2> QED
    BY <1>2, <1>3, <1>4, <2>1 DEF BindingInv, BindingTypes, L!sequence
<1>7. ASSUME NEW v \in Users PROVE LogIsItsOwn(v)'
  BY <1>3, <1>5 DEF LogIsItsOwn
<1>8. CallIsItsOwn(u)'
  BY <1>2, <1>5, JobType DEF CallIsItsOwn
<1>9. \A v \in Users \ {u} : on_cpu'[v] = on_cpu[v] /\ split'[v] = split[v]
  BY <1>1, <1>2 DEF BindingInv, BindingTypes
<1> QED
  BY <1>2, <1>6, <1>7, <1>8, <1>9, OpeningStep DEF Places

\* A thread asks for a context.
LEMMA StepNewContext ==
  ASSUME BindingInv, L!LlamaAssumption, UNCHANGED quota, NEW u \in Users, L!NewContext(u)
  PROVE  BindingInv'
<1>1. PICK p \in Asks : asked' = [asked EXCEPT ![u] = p] /\ given' = [given EXCEPT ![u] = L!Flat(p)]
  BY DEF L!NewContext
<1>2. /\ at[u] = "loaded" /\ L!Goto(u, "creating") /\ L!ClearError(u)
      /\ UNCHANGED <<on_cpu, split, L!sequence>>
  BY DEF L!NewContext
<1>3. /\ log' = <<>> /\ written' \in [Users -> Seq(Speech)] /\ written'[u] = <<>>
      /\ alone' \in [Users -> BOOLEAN] /\ reason' \in [Users -> Seq(Speech)]
      /\ \A v \in Users \ {u} : alone'[v] = FALSE
  BY <1>2, ClearErrorKeeps
<1>4. Len(<<>>) <= LogTailMax /\ <<>> \in Seq(Speech)
  BY DEF L!LlamaAssumption
<1>5. /\ at'[u] = "creating" /\ job'[u] = job[u] /\ timers'[u] = timers[u]
      /\ on_cpu'[u] = on_cpu[u] /\ split'[u] = split[u]
  BY <1>2 DEF L!Goto, BindingInv, BindingTypes, L!sequence
<1>6. BindingTypes'
  <2>1. at' \in [Users -> Places]
    BY <1>2 DEF L!Goto, BindingInv, BindingTypes, Places
  <2>2. /\ asked' \in [Users -> Asks] /\ given' \in [Users -> {L!Flat(q) : q \in Asks}]
        /\ \A v \in Users : given'[v] = L!Flat(asked'[v])
    <3>1. asked \in [Users -> Asks] /\ given \in [Users -> {L!Flat(q) : q \in Asks}]
            /\ \A v \in Users : given[v] = L!Flat(asked[v])
      BY DEF BindingInv, BindingTypes
    <3>2. L!Flat(p) \in {L!Flat(q) : q \in Asks}
      OBVIOUS
    <3>3. ASSUME NEW v \in Users PROVE given'[v] = L!Flat(asked'[v])
      BY <1>1, <3>1
    <3> QED
      BY <1>1, <3>1, <3>2, <3>3
  <2> QED
    BY <1>2, <1>3, <1>4, <2>1, <2>2 DEF BindingInv, BindingTypes, L!sequence
<1>7. ASSUME NEW v \in Users PROVE LogIsItsOwn(v)'
  BY <1>3, <1>5 DEF LogIsItsOwn
<1>8. CallIsItsOwn(u)'
  BY <1>2, <1>5, JobType DEF CallIsItsOwn
<1>9. \A v \in Users \ {u} : on_cpu'[v] = on_cpu[v] /\ split'[v] = split[v]
  BY <1>2
<1> QED
  BY <1>2, <1>6, <1>7, <1>8, <1>9, OpeningStep DEF Places

\* What a call leaves in the log when it returns.
LEMMA ReturnsLog ==
  ASSUME BindingInv, L!LlamaAssumption, NEW u \in Users, at[u] \in {"loading", "creating"},
         NEW to \in {"loaded", "open", "load_failed", "create_failed"}, L!Goto(u, to),
         NEW says \in L!Outputs(u), L!Writes(u, says), UNCHANGED reason
  PROVE  \A v \in Users : LogIsItsOwn(v)'
<1>1. /\ alone[u] /\ log = <<>> => log' = L!LastLines(written'[u])
      /\ \A v \in Users \ {u} : alone'[v] => alone[v] /\ log' = log /\ written'[v] = written[v]
  BY WritesKeep
<1>2. alone'[u] => alone[u]
  BY DEF L!Writes, BindingInv, BindingTypes
<1>3. at'[u] = to /\ \A v \in Users \ {u} : at'[v] = at[v]
  BY DEF L!Goto, BindingInv, BindingTypes
<1>4. LogIsItsOwn(u)'
  <2>1. alone[u] => log = <<>>
    BY DEF BindingInv, LogIsItsOwn
  <2> QED
    BY <1>1, <1>2, <1>3, <2>1 DEF LogIsItsOwn
<1>5. ASSUME NEW v \in Users \ {u} PROVE LogIsItsOwn(v)'
  <2>1. LogIsItsOwn(v)
    BY DEF BindingInv
  <2> QED
    BY <1>1, <1>3, <2>1 DEF LogIsItsOwn
<1> QED
  BY <1>4, <1>5

\* A model was loaded.
LEMMA StepLoaded ==
  ASSUME BindingInv, L!LlamaAssumption, UNCHANGED quota, NEW u \in Users, L!Loaded(u)
  PROVE  BindingInv'
<1>1. PICK says \in L!Outputs(u) : L!Writes(u, says)
  BY DEF L!Loaded
<1>2. /\ at[u] = "loading" /\ L!Goto(u, "loaded")
      /\ on_cpu' = [on_cpu EXCEPT ![u] = L!Pinned(split[u])]
      /\ UNCHANGED <<reason, split, asked, given, L!sequence>>
  BY DEF L!Loaded
<1>3. \A v \in Users : LogIsItsOwn(v)'
  BY <1>1, <1>2, ReturnsLog
<1>4. L!Pinned(split[u]) \in SUBSET L!Tensors
  BY DEF L!Pinned
<1>5. BindingTypes'
  <2>1. /\ log' \in Seq(Speech) /\ Len(log') <= LogTailMax
        /\ written' \in [Users -> Seq(Speech)] /\ alone' \in [Users -> BOOLEAN]
    BY <1>1, WritesKeep
  <2>2. at' \in [Users -> Places] /\ on_cpu' \in [Users -> SUBSET L!Tensors]
    BY <1>2, <1>4 DEF L!Goto, BindingInv, BindingTypes, Places
  <2> QED
    BY <1>2, <2>1, <2>2 DEF BindingInv, BindingTypes, L!sequence
<1>6. /\ at'[u] = "loaded" /\ job'[u] = job[u] /\ timers'[u] = timers[u]
      /\ on_cpu'[u] = L!Pinned(split[u]) /\ split'[u] = split[u]
  BY <1>2 DEF L!Goto, BindingInv, BindingTypes, L!sequence
<1>7. CallIsItsOwn(u)'
  BY <1>2, <1>6, JobType DEF CallIsItsOwn
<1>8. \A v \in Users \ {u} : on_cpu'[v] = on_cpu[v] /\ split'[v] = split[v]
  BY <1>2 DEF BindingInv, BindingTypes
<1> QED
  BY <1>2, <1>3, <1>5, <1>7, <1>8, OpeningStep DEF Places

\* A context was made, or a call has failed.
LEMMA StepCreatedOrFails ==
  ASSUME BindingInv, L!LlamaAssumption, UNCHANGED quota, NEW u \in Users, L!Created(u) \/ L!Fails(u)
  PROVE  BindingInv'
<1>1. PICK says \in L!Outputs(u) : L!Writes(u, says)
  BY DEF L!Created, L!Fails
<1>2. PICK to \in {"open", "load_failed", "create_failed"} :
        /\ L!Goto(u, to)
        /\ \/ at[u] = "creating" /\ to = "open"
           \/ at[u] \in {"loading", "creating"} /\ to # "open"
        /\ UNCHANGED <<reason, on_cpu, split, asked, given, L!sequence>>
  BY DEF L!Created, L!Fails, L!weights
<1>3. \A v \in Users : LogIsItsOwn(v)'
  BY <1>1, <1>2, ReturnsLog
<1>4. BindingTypes'
  <2>1. /\ log' \in Seq(Speech) /\ Len(log') <= LogTailMax
        /\ written' \in [Users -> Seq(Speech)] /\ alone' \in [Users -> BOOLEAN]
    BY <1>1, WritesKeep
  <2>2. at' \in [Users -> Places]
    BY <1>2 DEF L!Goto, BindingInv, BindingTypes, Places
  <2> QED
    BY <1>2, <2>1, <2>2 DEF BindingInv, BindingTypes, L!sequence
<1>5. /\ at'[u] = to /\ job'[u] = job[u] /\ timers'[u] = timers[u]
      /\ on_cpu'[u] = on_cpu[u] /\ split'[u] = split[u]
  BY <1>2 DEF L!Goto, BindingInv, BindingTypes, L!sequence
<1>6. CallIsItsOwn(u)'
  BY <1>2, <1>5, JobType DEF CallIsItsOwn
<1>7. \A v \in Users \ {u} : on_cpu'[v] = on_cpu[v] /\ split'[v] = split[v]
  BY <1>2
<1> QED
  BY <1>2, <1>3, <1>4, <1>6, <1>7, OpeningStep DEF Places

\* The cause of a failed call is taken from the log.
LEMMA StepReport ==
  ASSUME BindingInv, L!LlamaAssumption, UNCHANGED quota, NEW u \in Users, L!Report(u)
  PROVE  BindingInv'
<1>1. /\ at[u] \in {"load_failed", "create_failed"} /\ reason' = [reason EXCEPT ![u] = log]
      /\ L!Goto(u, "reported")
      /\ UNCHANGED <<log, written, alone, on_cpu, split, asked, given, L!sequence>>
  BY DEF L!Report, L!weights
<1>2. BindingTypes'
  <2>1. at' \in [Users -> Places] /\ reason' \in [Users -> Seq(Speech)]
    BY <1>1 DEF L!Goto, BindingInv, BindingTypes, Places
  <2> QED
    BY <1>1, <2>1 DEF BindingInv, BindingTypes, L!sequence
<1>3. /\ at'[u] = "reported" /\ job'[u] = job[u] /\ timers'[u] = timers[u] /\ reason'[u] = log
      /\ \A v \in Users \ {u} : at'[v] = at[v] /\ reason'[v] = reason[v]
  BY <1>1 DEF L!Goto, BindingInv, BindingTypes, L!sequence
<1>4. ASSUME NEW v \in Users PROVE LogIsItsOwn(v)'
  <2>1. LogIsItsOwn(v)
    BY DEF BindingInv
  <2>2. CASE v = u
    BY <1>1, <1>3, <2>1, <2>2 DEF LogIsItsOwn
  <2>3. CASE v # u
    BY <1>1, <1>3, <2>1, <2>3 DEF LogIsItsOwn
  <2> QED
    BY <2>2, <2>3
<1>5. CallIsItsOwn(u)'
  BY <1>1, <1>3, JobType DEF CallIsItsOwn
<1>6. \A v \in Users \ {u} : on_cpu'[v] = on_cpu[v] /\ split'[v] = split[v]
  BY <1>1
<1> QED
  BY <1>1, <1>2, <1>4, <1>5, <1>6, OpeningStep DEF Places

\* The binding starts with nothing written and no context.
LEMMA BindingStarts ==
  ASSUME L!LlamaInit, L!LlamaAssumption
  PROVE  BindingInv
<1>1. (CHOOSE p \in Asks : TRUE) \in Asks
  BY DEF L!LlamaAssumption
<1>2. <<>> \in Seq(Speech) /\ <<>> \in Seq(L!Words) /\ Len(<<>>) <= LogTailMax
  BY DEF L!LlamaAssumption
<1>3. L!NoJob \in Jobs /\ L!NoJob.end = "none" /\ L!NoJob.rate = FALSE
  BY DEF L!NoJob, Jobs
<1>4. BindingTypes
  <2>1. asked \in [Users -> Asks] /\ given \in [Users -> {L!Flat(p) : p \in Asks}]
          /\ \A u \in Users : given[u] = L!Flat(asked[u])
    <3>1. asked \in [Users -> Asks] /\ given = [u \in Users |-> L!Flat(asked[u])]
      BY <1>1 DEF L!LlamaInit, L!LlamaAtRest
    <3> QED
      BY <3>1
  <2> QED
    BY <1>2, <1>3, <2>1 DEF BindingTypes, L!LlamaInit, L!LlamaAtRest, Places
<1>5. ASSUME NEW u \in Users PROVE LogIsItsOwn(u) /\ CallIsItsOwn(u)
  <2>1. at[u] = "idle" /\ alone[u] = FALSE /\ job[u] = L!NoJob
    BY DEF L!LlamaInit, L!LlamaAtRest
  <2> QED
    BY <1>3, <2>1 DEF LogIsItsOwn, CallIsItsOwn
<1> QED
  BY <1>4, <1>5 DEF BindingInv

\* Every step of a thread keeps the invariant.
LEMMA BindingStep ==
  ASSUME BindingInv, L!LlamaAssumption, L!LlamaNext
  PROVE  BindingInv'
<1>1. quota' = quota
  BY DEF L!LlamaNext
<1>2. PICK u \in DOMAIN quota :
        \/ L!Load(u) \/ L!Loaded(u) \/ L!NewContext(u) \/ L!Created(u) \/ L!Fails(u) \/ L!Report(u)
        \/ L!DropContext(u)
        \/ L!Generate(u) \/ L!Decoded(u) \/ L!DecodeFailed(u)
        \/ L!BudgetSpent(u) \/ L!EndOfGeneration(u) \/ L!Sample(u)
        \/ L!Reset(u) \/ L!PerfReset(u)
  BY DEF L!LlamaNext
<1>3. u \in Users
  BY DEF L!LlamaAssumption, BindingInv, BindingTypes
<1> QED
  BY <1>1, <1>2, <1>3, StepLoad, StepLoaded, StepNewContext, StepCreatedOrFails, StepReport,
     StepDropContext, StepGenerate, StepDecoded, StepDecodeFailed, StepReturn, StepSample, StepResets

\* A step of another view leaves the binding alone.
LEMMA BindingRests ==
  ASSUME BindingInv, UNCHANGED llamas
  PROVE  BindingInv'
BY DEF BindingInv, BindingTypes, LogIsItsOwn, CallIsItsOwn, Whole, llamas

\* What the binding says of a call is that call's.
LEMMA SaysWhatHappenedHolds ==
  ASSUME BindingInv, L!LlamaAssumption
  PROVE  L!SaysWhatHappened
<1>1. ASSUME NEW u \in Users, at[u] = "reported", alone[u]
      PROVE  reason[u] = L!LastLines(written[u])
  BY <1>1 DEF BindingInv, LogIsItsOwn
<1>2. ASSUME NEW u \in Users, job[u].rate PROVE timers[u] > 0
  BY <1>2 DEF BindingInv, CallIsItsOwn
<1>3. ASSUME NEW u \in Users, at[u] \in {"loaded", "creating", "open", "decoding", "sampling"}
      PROVE  on_cpu[u] = {t \in L!Tensors : t.block < split[u] /\ t.name \in L!ExpertNames}
  <2>1. on_cpu[u] = L!Pinned(split[u])
    BY <1>3 DEF BindingInv, CallIsItsOwn
  <2>2. split[u] \in Int
    BY DEF BindingInv, BindingTypes
  <2> QED
    BY <2>1, <2>2, PinnedAre
<1>4. ASSUME NEW u \in Users, asked[u].n_ctx > 0
      PROVE  L!KvBytes(asked[u]) = L!CacheBytes(given[u])
  <2>1. asked[u] \in Asks /\ given[u] = L!Flat(asked[u])
    BY DEF BindingInv, BindingTypes
  <2> QED
    BY <1>4, <2>1, BytesAgree
<1> QED
  BY <1>1, <1>2, <1>3, <1>4 DEF L!SaysWhatHappened

\* A token is sampled from the logits of the whole context.
LEMMA SampledFromItsOwnHolds ==
  ASSUME BindingInv
  PROVE  L!SampledFromItsOwn
<1>1. ASSUME NEW u \in Users
      PROVE  (job[u].previous \o job[u].prompt) \o job[u].tokens
               = job[u].previous \o job[u].prompt \o job[u].tokens
  OBVIOUS
<1>2. \A u \in Users : CallIsItsOwn(u)
  BY DEF BindingInv
<1> QED
  BY <1>1, <1>2 DEF L!SampledFromItsOwn, CallIsItsOwn, Whole

-----------------------------------------------------------------------------
(* The startup: what serves is what was asked for, or is called what it is. *)

TokenizerIs ==
  /\ tokenizer.source \in {"json", "gguf", "fixture"}
  /\ launch.model # None /\ launch.tokenizer = None /\ ~U!Foreign => tokenizer.of = "model"
  /\ tokenizer.of \in {"model", "other"} /\ tokenizer.split # tokenizer.of => "unknown_family" \in said

TemplateIs ==
  /\ template.source \in {"Gguf", "JinjaFile", "TokenizerConfig", "FallbackChatMl"}
  /\ launch.model # None /\ launch.template = None =>
       /\ U!OwnTemplate => template.of = "model"
       /\ launch.model.jinja # None => template.of # "guess"
  /\ template.of = "guess" => template.source = "FallbackChatMl"

BackendIs ==
  /\ backend.name \in {"llama.cpp", "echo"} /\ backend.stub \in BOOLEAN
  /\ launch.require => ~backend.stub
  /\ ~backend.stub => launch.model # None /\ backend.size = ModelSize

\* The banner has been printed, and says what it has to.
BannerIs ==
  /\ "STUB" \in said <=> backend.stub
  /\ "mismatch" \in said <=> U!VocabMismatch
  /\ template.source \in said

AnswerIs ==
  answer # None =>
    \/ answer.request = None /\ answer.response = U!Health
    \/ answer.request \in Asked /\ answer.response = U!Answer(answer.request)

StartInv ==
  /\ launch \in Launches
  /\ stage \in {"tokenizer", "template", "engine", "bind", "serving", "failed"}
  /\ stage \in {"tokenizer", "template", "engine", "bind"} =>
       answer = None /\ said \subseteq {"unknown_family", "engine_unavailable"}
  /\ stage \in {"template", "engine", "bind", "serving"} => TokenizerIs
  /\ stage \in {"engine", "bind", "serving"} => TemplateIs
  /\ stage \in {"bind", "serving"} => BackendIs
  /\ stage = "serving" => BannerIs /\ AnswerIs

\* What is found beside a model is the model's, but for a tokenizer.json of another.
LEMMA OwnTokenizer ==
  ASSUME U!StartupAssumption, launch \in Launches, launch.model # None, ~U!Foreign,
         U!LoadForModel(launch.model).of # "error"
  PROVE  U!LoadForModel(launch.model).of = "model"
<1> DEFINE m == launch.model
<1>1. m.kind \in {"gguf", "directory"} /\ m.header.of = "model"
  BY DEF U!StartupAssumption
<1>2. m.sibling # None => m.sibling.of = "model"
  BY DEF U!Foreign
<1> HIDE DEF m
<1>3. CASE m.sibling # None
  <2>1. U!LoadForModel(m) = U!FromJson(m.sibling)
    BY <1>1, <1>3 DEF U!LoadForModel
  <2>2. U!FromJson(m.sibling).of # "error" => U!FromJson(m.sibling).of = m.sibling.of
    BY DEF U!FromJson, U!Error
  <2> QED
    BY <1>2, <1>3, <2>1, <2>2 DEF m
<1>4. CASE m.sibling = None /\ m.kind = "directory"
  <2>1. U!LoadForModel(m) = U!Error("no_tokenizer")
    BY <1>4 DEF U!LoadForModel
  <2> QED
    BY <2>1 DEF m, U!Error
<1>5. CASE m.sibling = None /\ m.kind = "gguf"
  <2>1. U!LoadForModel(m) = U!FromGguf(m.header)
    BY <1>5 DEF U!LoadForModel
  <2>2. U!FromGguf(m.header).of # "error" => U!FromGguf(m.header).of = m.header.of
    BY DEF U!FromGguf, U!Error
  <2> QED
    BY <1>1, <2>1, <2>2 DEF m
<1> QED
  BY <1>1, <1>3, <1>4, <1>5

\* A tokenizer says where it is from, and splits as its own family does or as GPT-2's.
LEMMA AnyTokenizer ==
  ASSUME NEW path, path.kind \in {"json", "gguf", "directory"}, U!LoadForModel(path).of # "error"
  PROVE  /\ U!LoadForModel(path).source \in {"json", "gguf"}
         /\ U!LoadForModel(path).split \in {U!LoadForModel(path).of, "gpt-2"}
<1> DEFINE t == U!LoadForModel(path)
<1>1. ASSUME NEW f, U!FromJson(f).of # "error"
      PROVE  U!FromJson(f).source = "json" /\ U!FromJson(f).split = U!FromJson(f).of
  BY <1>1 DEF U!FromJson, U!Error
<1>2. ASSUME NEW f, U!FromGguf(f).of # "error"
      PROVE  U!FromGguf(f).source = "gguf" /\ U!FromGguf(f).split \in {U!FromGguf(f).of, "gpt-2"}
  BY <1>2 DEF U!FromGguf, U!Error
<1>3. U!Error("no_tokenizer").of = "error"
  BY DEF U!Error
<1>4. \/ \E f : t = U!FromJson(f)
      \/ \E f : t = U!FromGguf(f)
      \/ t = U!Error("no_tokenizer")
  <2>1. CASE path.kind = "json"
    BY <2>1 DEF U!LoadForModel
  <2>2. CASE path.kind # "json" /\ path.sibling # None
    BY <2>2 DEF U!LoadForModel
  <2>3. CASE path.kind = "directory" /\ path.sibling = None
    BY <2>3 DEF U!LoadForModel
  <2>4. CASE path.kind = "gguf" /\ path.sibling = None
    BY <2>4 DEF U!LoadForModel
  <2> QED
    BY <2>1, <2>2, <2>3, <2>4
<1> HIDE DEF t
<1>5. t.of # "error"
  BY DEF t
<1>6. t.source \in {"json", "gguf"} /\ t.split \in {t.of, "gpt-2"}
  BY <1>1, <1>2, <1>3, <1>4, <1>5
<1> QED
  BY <1>6 DEF t

\* The template of a model's header is the model's.
LEMMA OwnHeader ==
  ASSUME U!StartupAssumption, launch \in Launches, launch.model # None,
         U!Has(launch.model.header, "template")
  PROVE  U!Get(launch.model.header, "template") \in {"model", "broken"}
<1> DEFINE f == launch.model.header
           n == Len(f.entries)
           set == U!Entries(f, "template")
<1>1. /\ n \in Nat /\ DOMAIN f.entries = 1 .. n
      /\ \A i \in DOMAIN f.entries : f.entries[i].key = "template" => f.entries[i].value \in {"model", "broken"}
  BY DEF U!StartupAssumption
<1>2. set # {} /\ set \subseteq 1 .. n
  BY <1>1 DEF U!Has, U!Entries
<1>3. U!Max(set) \in set
  <2>1. set \in SUBSET (0 .. n)
    BY <1>1, <1>2
  <2>2. \E x \in set : \A y \in set : x >= y
    <3> HIDE DEF set, n
    <3> QED
      BY <1>1, <1>2, <2>1, GreatestOf
  <2> QED
    BY <2>2 DEF U!Max
<1>4. f.entries[U!Max(set)].value \in {"model", "broken"}
  BY <1>1, <1>3 DEF U!Entries
<1>5. U!Get(f, "template") = f.entries[U!Max(set)].value
  BY DEF U!Get
<1> QED
  BY <1>4, <1>5

\* What discover finds.
LEMMA AnyTemplate ==
  ASSUME U!StartupAssumption, launch \in Launches, launch.model # None,
         U!Discover(launch.model).of # "error"
  PROVE  /\ U!Discover(launch.model).source \in {"Gguf", "JinjaFile", "TokenizerConfig", "FallbackChatMl"}
         /\ U!OwnTemplate => U!Discover(launch.model).of = "model"
         /\ launch.model.jinja # None => U!Discover(launch.model).of # "guess"
         /\ U!Discover(launch.model).of = "guess" => U!Discover(launch.model).source = "FallbackChatMl"
<1> DEFINE m == launch.model
           t == U!Discover(m)
           own == m.kind = "gguf" /\ U!HeaderError(m.header) = "ok" /\ U!Has(m.header, "template")
<1>1. /\ m.jinja # None => m.jinja \in {"model", "other", "broken"}
      /\ m.config \notin {None, "unreadable"} => m.config \in {"model", "other", "broken"}
  BY DEF U!StartupAssumption, U!Templates
<1>2. U!OwnTemplate <=> own
  BY DEF U!OwnTemplate
<1>3. ASSUME NEW of, NEW source, U!Compiled(of, source).of # "error"
      PROVE  U!Compiled(of, source) = [of |-> of, source |-> source] /\ of # "broken"
  BY <1>3 DEF U!Compiled, U!Error
<1>4. t.of # "error"
  OBVIOUS
<1>5. own => U!Get(m.header, "template") \in {"model", "broken"}
  BY OwnHeader
<1> HIDE DEF m
<1>6. CASE own
  <2>1. t = U!Compiled(U!Get(m.header, "template"), "Gguf")
    BY <1>6 DEF U!Discover
  <2>2. t.of = "model" /\ t.source = "Gguf"
    BY <1>3, <1>4, <1>5, <1>6, <2>1
  <2> QED
    BY <2>2 DEF m
<1>7. CASE ~own /\ m.jinja # None
  <2>1. t = U!Compiled(m.jinja, "JinjaFile")
    BY <1>7 DEF U!Discover
  <2>2. t.of \in {"model", "other"} /\ t.source = "JinjaFile"
    BY <1>1, <1>3, <1>4, <1>7, <2>1
  <2> QED
    BY <1>2, <1>7, <2>2 DEF m
<1>8. CASE ~own /\ m.jinja = None /\ m.config \notin {None, "unreadable"}
  <2>1. t = U!Compiled(m.config, "TokenizerConfig")
    BY <1>8 DEF U!Discover
  <2>2. t.of \in {"model", "other"} /\ t.source = "TokenizerConfig"
    BY <1>1, <1>3, <1>4, <1>8, <2>1
  <2> QED
    BY <1>2, <1>8, <2>2 DEF m
<1>9. CASE ~own /\ m.jinja = None /\ m.config \in {None, "unreadable"}
  <2>1. t = U!ChatMl
    BY <1>9 DEF U!Discover
  <2>2. t.of = "guess" /\ t.source = "FallbackChatMl"
    BY SMTT(30), <2>1 DEF U!ChatMl
  <2> QED
    BY <1>2, <1>9, <2>2 DEF m
<1> QED
  BY <1>6, <1>7, <1>8, <1>9

\* Nothing is chosen yet.
LEMMA StartBegins ==
  ASSUME U!StartupInit
  PROVE  StartInv
BY SMTT(30) DEF U!StartupInit, U!Begins, StartInv

\* What is not touched says what it said, and more may be said.
LEMMA FactsStay ==
  ASSUME launch' = launch, said \subseteq said'
  PROVE  /\ tokenizer' = tokenizer /\ TokenizerIs => TokenizerIs'
         /\ template' = template /\ TemplateIs => TemplateIs'
         /\ backend' = backend /\ BackendIs => BackendIs'
BY DEF TokenizerIs, TemplateIs, BackendIs, U!Foreign, U!OwnTemplate, U!HeaderError, U!Has, U!Entries

\* The tokenizer is chosen, and a fallback is said.
LEMMA StartChoosesTokenizer ==
  ASSUME StartInv, U!StartupAssumption, U!ChooseTokenizer
  PROVE  StartInv'
<1> DEFINE path == IF launch.tokenizer # None THEN launch.tokenizer ELSE launch.model
           t == IF path = None THEN U!Fixture ELSE U!LoadForModel(path)
<1>1. /\ stage = "tokenizer" /\ launch' = launch /\ answer' = answer /\ launch \in Launches
      /\ answer = None /\ said \subseteq {"unknown_family", "engine_unavailable"}
  BY DEF U!ChooseTokenizer, U!Kept, StartInv
<1>2. CASE t.of = "error"
  <2>1. U!Fatal
    BY <1>2 DEF U!ChooseTokenizer
  <2> QED
    BY <1>1, <2>1 DEF StartInv, U!Fatal
<1>3. CASE t.of # "error"
  <2>1. /\ stage' = "template" /\ tokenizer' = t
        /\ said' = IF t.split = "gpt-2" THEN said \cup {"unknown_family"} ELSE said
    BY <1>3 DEF U!ChooseTokenizer
  <2>2. path # None => path.kind \in {"json", "gguf", "directory"}
    BY <1>1 DEF U!StartupAssumption
  <2>3. t.source \in {"json", "gguf", "fixture"} /\ (path # None => t.split \in {t.of, "gpt-2"})
    <3>1. CASE path = None
      BY <3>1 DEF U!Fixture
    <3>2. CASE path # None
      <4>1. t = U!LoadForModel(path)
        BY <3>2
      <4> HIDE DEF path, t
      <4> QED
        BY <1>3, <2>2, <3>2, <4>1, AnyTokenizer
    <3> QED
      BY <3>1, <3>2
  <2>4. path = None => t.of = "fixture"
    BY DEF U!Fixture
  <2>5. launch.model # None /\ launch.tokenizer = None /\ ~U!Foreign => t.of = "model"
    <3>1. SUFFICES ASSUME launch.model # None, launch.tokenizer = None, ~U!Foreign PROVE t.of = "model"
      OBVIOUS
    <3>2. t = U!LoadForModel(launch.model)
      BY <3>1
    <3> HIDE DEF t, path
    <3> QED
      BY <1>1, <1>3, <3>1, <3>2, OwnTokenizer
  <2> HIDE DEF t, path
  <2>6. TokenizerIs'
    <3>1. U!Foreign' = U!Foreign
      BY <1>1 DEF U!Foreign
    <3>2. t.of \in {"model", "other"} /\ t.split # t.of => "unknown_family" \in said'
      BY <2>1, <2>3, <2>4
    <3> QED
      BY <1>1, <2>1, <2>3, <2>5, <3>1, <3>2 DEF TokenizerIs
  <2> QED
    BY <1>1, <2>1, <2>6 DEF StartInv
<1> QED
  BY <1>2, <1>3

\* The template is chosen, and a fallback is said.
LEMMA StartChoosesTemplate ==
  ASSUME StartInv, U!StartupAssumption, U!ChooseTemplate
  PROVE  StartInv'
<1> DEFINE t == IF launch.template # None THEN U!Compiled(launch.template, "JinjaFile")
                ELSE IF launch.model # None THEN U!Discover(launch.model) ELSE U!ChatMl
<1>1. /\ stage = "template" /\ launch' = launch /\ answer' = answer /\ launch \in Launches
      /\ answer = None /\ said \subseteq {"unknown_family", "engine_unavailable"} /\ TokenizerIs
  BY DEF U!ChooseTemplate, U!Kept, StartInv
<1>2. CASE t.of = "error"
  <2>1. U!Fatal
    BY <1>2 DEF U!ChooseTemplate
  <2> QED
    BY <1>1, <2>1 DEF StartInv, U!Fatal
<1>3. CASE t.of # "error"
  <2>1. stage' = "engine" /\ template' = t /\ UNCHANGED <<tokenizer, said>>
    BY <1>3 DEF U!ChooseTemplate
  <2>2. /\ t.source \in {"Gguf", "JinjaFile", "TokenizerConfig", "FallbackChatMl"}
        /\ launch.model # None /\ launch.template = None =>
             /\ U!OwnTemplate => t.of = "model"
             /\ launch.model.jinja # None => t.of # "guess"
        /\ t.of = "guess" => t.source = "FallbackChatMl"
    <3>1. CASE launch.template # None
      <4>1. launch.template \in {"model", "other", "broken"}
        BY <1>1, <3>1 DEF U!StartupAssumption, U!Templates
      <4>2. t = U!Compiled(launch.template, "JinjaFile")
        BY <3>1
      <4>3. t.source = "JinjaFile" /\ t.of = launch.template
        BY <1>3, <4>2 DEF U!Compiled, U!Error
      <4> QED
        BY <3>1, <4>1, <4>3
    <3>2. CASE launch.template = None /\ launch.model # None
      <4>1. t = U!Discover(launch.model)
        BY <3>2
      <4> HIDE DEF t
      <4> QED
        BY <1>1, <1>3, <3>2, <4>1, AnyTemplate
    <3>3. CASE launch.template = None /\ launch.model = None
      BY <3>3 DEF U!ChatMl
    <3> QED
      BY <3>1, <3>2, <3>3
  <2> HIDE DEF t
  <2>3. U!OwnTemplate' <=> U!OwnTemplate
    BY <1>1 DEF U!OwnTemplate, U!HeaderError, U!Has, U!Entries
  <2>4. TemplateIs'
    BY <1>1, <2>1, <2>2, <2>3 DEF TemplateIs
  <2>5. TokenizerIs'
    BY <1>1, <2>1, FactsStay
  <2> QED
    BY <1>1, <2>1, <2>4, <2>5 DEF StartInv
<1> QED
  BY <1>2, <1>3

\* The engine is loaded, is not there, or gives way to the stub.
LEMMA StartChoosesEngine ==
  ASSUME StartInv, U!StartupAssumption, U!EngineLoads \/ U!EngineUnavailable \/ U!NoEngine
  PROVE  StartInv'
<1>1. /\ stage = "engine" /\ launch' = launch /\ answer' = answer /\ launch \in Launches
      /\ answer = None /\ said \subseteq {"unknown_family", "engine_unavailable"}
      /\ TokenizerIs /\ TemplateIs
  BY DEF U!EngineLoads, U!EngineUnavailable, U!NoEngine, U!Kept, StartInv
<1>2. CASE U!Fatal
  BY <1>1, <1>2 DEF StartInv, U!Fatal
<1>3. CASE \E g : U!Chosen(g)
  <2>1. PICK g : /\ U!Chosen(g)
                 /\ \/ g = U!Engine /\ launch.model # None
                    \/ g = U!Stub /\ ~launch.require
                 /\ said \subseteq said'
                 /\ said' \subseteq {"unknown_family", "engine_unavailable"}
    <3>1. CASE U!EngineLoads
      <4>1. U!Chosen(U!Engine) /\ launch.model # None /\ said' = said
        BY <3>1 DEF U!EngineLoads, U!HasEngine
      <4> QED
        BY <1>1, <4>1
    <3>2. CASE U!EngineUnavailable /\ launch.require
      BY <1>3, <3>2 DEF U!EngineUnavailable, U!Fatal, U!Chosen
    <3>3. CASE U!EngineUnavailable /\ ~launch.require
      <4>1. U!Chosen(U!Stub) /\ said' = said \cup {"engine_unavailable"}
        BY <3>3 DEF U!EngineUnavailable
      <4> QED
        BY <1>1, <3>3, <4>1
    <3>4. CASE U!NoEngine /\ launch.require
      BY <1>3, <3>4 DEF U!NoEngine, U!Fatal, U!Chosen
    <3>5. CASE U!NoEngine /\ ~launch.require
      <4>1. U!Chosen(U!Stub) /\ said' = said
        BY <3>5 DEF U!NoEngine
      <4> QED
        BY <1>1, <3>5, <4>1
    <3> QED
      BY <3>1, <3>2, <3>3, <3>4, <3>5
  <2>2. stage' = "bind" /\ backend' = g /\ UNCHANGED <<tokenizer, template>>
    BY <2>1 DEF U!Chosen
  <2>3. BackendIs'
    <3>1. CASE g = U!Engine /\ launch.model # None
      <4>1. g.name = "llama.cpp" /\ g.stub = FALSE /\ g.size = ModelSize
        BY <3>1 DEF U!Engine
      <4> QED
        BY <1>1, <2>2, <3>1, <4>1 DEF BackendIs
    <3>2. CASE g = U!Stub /\ ~launch.require
      <4>1. g.name = "echo" /\ g.stub = TRUE
        BY <3>2 DEF U!Stub
      <4> QED
        BY <1>1, <2>2, <3>2, <4>1 DEF BackendIs
    <3> QED
      BY <2>1, <3>1, <3>2
  <2>4. TokenizerIs' /\ TemplateIs'
    BY <1>1, <2>1, <2>2, FactsStay
  <2> QED
    BY <1>1, <2>1, <2>2, <2>3, <2>4 DEF StartInv
<1>4. U!Fatal \/ \E g : U!Chosen(g)
  BY DEF U!EngineLoads, U!EngineUnavailable, U!NoEngine
<1> QED
  BY <1>2, <1>3, <1>4

\* The server binds its address, or cannot.
LEMMA StartBinds ==
  ASSUME StartInv, U!Bind \/ U!BindFails
  PROVE  StartInv'
<1>1. /\ stage = "bind" /\ launch' = launch /\ answer' = answer /\ launch \in Launches
      /\ answer = None /\ said \subseteq {"unknown_family", "engine_unavailable"}
      /\ TokenizerIs /\ TemplateIs /\ BackendIs
  BY DEF U!Bind, U!BindFails, U!Kept, StartInv
<1>2. CASE U!BindFails
  BY <1>1, <1>2 DEF StartInv, U!Fatal, U!BindFails
<1>3. CASE U!Bind
  <2>1. /\ stage' = "serving" /\ said' = said \cup U!Banner
        /\ UNCHANGED <<tokenizer, template, backend>>
    BY <1>3 DEF U!Bind
  <2>2. TokenizerIs' /\ TemplateIs' /\ BackendIs'
    BY <1>1, <2>1, FactsStay
  <2>3. /\ "STUB" \in said' <=> backend.stub
        /\ "mismatch" \in said' <=> U!VocabMismatch
        /\ template.source \in said'
    BY <1>1, <2>1 DEF U!Banner, TokenizerIs, TemplateIs, BackendIs
  <2>4. BannerIs'
    BY <2>1, <2>3 DEF BannerIs, U!VocabMismatch
  <2>5. AnswerIs'
    BY <1>1 DEF AnswerIs
  <2> QED
    BY <1>1, <2>1, <2>2, <2>4, <2>5 DEF StartInv
<1> QED
  BY <1>2, <1>3

\* A server that is up is asked what it serves.
LEMMA StartAnswers ==
  ASSUME StartInv, U!Ask
  PROVE  StartInv'
<1>1. /\ stage = "serving" /\ UNCHANGED <<launch, stage, tokenizer, template, backend, said>>
      /\ launch \in Launches /\ TokenizerIs /\ TemplateIs /\ BackendIs /\ BannerIs
  BY DEF U!Ask, StartInv
<1>2. TokenizerIs' /\ TemplateIs' /\ BackendIs'
  BY <1>1, FactsStay
<1>3. BannerIs'
  BY <1>1 DEF BannerIs, U!VocabMismatch
<1>4. AnswerIs'
  <2>1. U!Health' = U!Health
    BY <1>1 DEF U!Health, U!VocabMismatch
  <2>2. \/ \E r \in Asked : answer' = [request |-> r, response |-> U!Answer(r)]
        \/ answer' = [request |-> None, response |-> U!Health]
    BY DEF U!Ask
  <2>3. CASE answer' = [request |-> None, response |-> U!Health]
    BY <2>1, <2>3 DEF AnswerIs
  <2>4. CASE \E r \in Asked : answer' = [request |-> r, response |-> U!Answer(r)]
    <3>1. PICK r \in Asked : answer' = [request |-> r, response |-> U!Answer(r)]
      BY <2>4
    <3>2. answer'.request = r /\ answer'.response = U!Answer(r)
      BY <3>1
    <3> QED
      BY <3>2 DEF AnswerIs, U!Answer
  <2> QED
    BY <2>2, <2>3, <2>4
<1> QED
  BY <1>1, <1>2, <1>3, <1>4 DEF StartInv

\* Every step of a start.
LEMMA StartStep ==
  ASSUME StartInv, U!StartupAssumption, U!StartupNext
  PROVE  StartInv'
BY StartChoosesTokenizer, StartChoosesTemplate, StartChoosesEngine, StartBinds, StartAnswers
   DEF U!StartupNext

\* A step of another view leaves the start alone.
LEMMA StartRests ==
  ASSUME StartInv, UNCHANGED startups
  PROVE  StartInv'
<1>1. UNCHANGED <<launch, stage, tokenizer, template, backend, said, answer>>
  BY DEF startups
<1>2. /\ TokenizerIs => TokenizerIs'
      /\ TemplateIs => TemplateIs'
      /\ BackendIs => BackendIs'
  BY <1>1, FactsStay
<1>3. BannerIs => BannerIs'
  BY <1>1 DEF BannerIs, U!VocabMismatch
<1>4. AnswerIs => AnswerIs'
  BY <1>1 DEF AnswerIs, U!Health, U!VocabMismatch, U!Answer
<1> QED
  BY <1>1, <1>2, <1>3, <1>4 DEF StartInv

\* A server that answers is what its operator asked for, or says what it is not.
LEMMA ServesWhatItSaysHolds ==
  ASSUME StartInv, U!StartupAssumption
  PROVE  U!ServesWhatItSays
<1>1. SUFFICES ASSUME stage = "serving"
               PROVE  U!ServesWhatItSays
  BY DEF U!ServesWhatItSays
<1>2. TokenizerIs /\ TemplateIs /\ BackendIs /\ BannerIs /\ AnswerIs
  BY <1>1 DEF StartInv
<1>3. backend.stub = ("STUB" \in said)
  BY <1>2 DEF BackendIs, BannerIs
<1>4. ~backend.stub /\ tokenizer.size # ModelSize => "mismatch" \in said
  BY <1>2 DEF BackendIs, BannerIs, U!VocabMismatch
<1>5. template.of = "guess" => "FallbackChatMl" \in said
  BY <1>2 DEF TemplateIs, BannerIs
<1>6. ASSUME answer # None, answer.request = None
      PROVE  answer.response.stubbed = backend.stub /\ answer.response.warns = ("mismatch" \in said)
  <2>1. answer.response = U!Health
    BY <1>2, <1>6 DEF AnswerIs, U!StartupAssumption
  <2>2. U!VocabMismatch = ("mismatch" \in said)
    BY <1>2 DEF BannerIs, U!VocabMismatch
  <2>3. U!Health.stubbed = backend.stub /\ U!Health.warns = U!VocabMismatch
    BY DEF U!Health
  <2> QED
    BY <2>1, <2>2, <2>3, Zenon
<1>7. ASSUME answer # None, answer.request # None, answer.response.runs > 0
      PROVE  answer.request.prompts = 1 /\ answer.request.n \in {None, 1}
  <2>1. answer.response = U!Answer(answer.request)
    BY <1>2, <1>7 DEF AnswerIs
  <2>2. ASSUME ~(answer.request.prompts = 1 /\ answer.request.n \in {None, 1})
        PROVE  U!Answer(answer.request).runs = 0
    BY <2>2 DEF U!Answer
  <2> QED
    BY <1>7, <2>1, <2>2
<1> QED
  BY <1>2, <1>3, <1>4, <1>5, <1>6, <1>7 DEF U!ServesWhatItSays, TokenizerIs, TemplateIs, BackendIs

-----------------------------------------------------------------------------
(* The four views together: what is not looked at rests.                   *)

ViewsInv ==
  /\ IInv /\ StreamsInv
  /\ view = "startup" => StartInv
  /\ view = "llama" => BindingInv

\* Every view begins within its invariant.
LEMMA ViewsStart ==
  ASSUME ServingInit
  PROVE  ViewsInv
<1>1. IInv /\ StreamsInv
  BY Starts, StreamBegins DEF ServingInit
<1>2. view = "startup" => StartInv
  BY StartBegins DEF ServingInit
<1>3. view = "llama" => BindingInv
  BY BindingStarts, ServingAssumption DEF ServingInit
<1> QED
  BY <1>1, <1>2, <1>3 DEF ViewsInv

\* Every step of every view.
LEMMA ViewsStep ==
  ASSUME ViewsInv, [ServingNext]_servingVars
  PROVE  ViewsInv'
<1>1. view' = view
  BY DEF ServingNext, servingVars
<1>2. IInv' /\ StreamsInv'
  <2>1. [Next]_vars
    BY DEF ServingNext, servingVars
  <2> QED
    BY <2>1, Steps, StreamSteps DEF ViewsInv
<1>3. ASSUME view = "startup" PROVE StartInv'
  <2>1. StartInv
    BY <1>3 DEF ViewsInv
  <2>2. CASE U!StartupNext
    BY <2>1, <2>2, ServingAssumption, StartStep
  <2>3. CASE UNCHANGED startups
    BY <2>1, <2>3, StartRests
  <2>4. U!StartupNext \/ UNCHANGED startups
    BY <1>3 DEF ServingNext, servingVars
  <2> QED
    BY <2>2, <2>3, <2>4
<1>4. ASSUME view = "llama" PROVE BindingInv'
  <2>1. BindingInv
    BY <1>4 DEF ViewsInv
  <2>2. CASE L!LlamaNext
    BY <2>1, <2>2, ServingAssumption, BindingStep
  <2>3. CASE UNCHANGED llamas
    BY <2>1, <2>3, BindingRests
  <2>4. L!LlamaNext \/ UNCHANGED llamas
    BY <1>4 DEF ServingNext, servingVars
  <2> QED
    BY <2>2, <2>3, <2>4
<1> QED
  BY <1>1, <1>2, <1>3, <1>4 DEF ViewsInv

\* The invariants of the server and its streams, of the start-up and of the binding hold in
\* every view.
THEOREM ViewsInvariant == ServingSpec => []ViewsInv
<1>1. ServingInit => ViewsInv
  BY ViewsStart
<1>2. ViewsInv /\ [ServingNext]_servingVars => ViewsInv'
  BY ViewsStep
<1> QED
  BY <1>1, <1>2, PTL DEF ServingSpec

\* Whatever lies beside a model and whichever engine is built, a server that answers is
\* what its operator asked for or says what it is not (the stub, a vocabulary of another
\* size, a family or a template that was guessed), and a refused request runs nothing;
\* and whatever other threads do, a failed load is explained by the log of that load, the
\* experts that are pinned to the CPU are those of the blocks that were asked for, and the
\* bytes reported for a cache are those of the types llama.cpp was given.
THEOREM NothingIsSilentHolds == ServingSpec => []NothingIsSilent
<1>1. ViewsInv => NothingIsSilent
  BY ServingAssumption, ServesWhatItSaysHolds, SaysWhatHappenedHolds DEF ViewsInv, NothingIsSilent
<1> QED
  BY <1>1, ViewsInvariant, PTL

\* A token of the binding's generate() is sampled from logits computed after exactly what
\* was in the cache before it, the prompt and the tokens generated since.
THEOREM BindingSamplesItsOwn == ServingSpec => [](view = "llama" => L!SampledFromItsOwn)
<1>1. ViewsInv => (view = "llama" => L!SampledFromItsOwn)
  BY SampledFromItsOwnHolds DEF ViewsInv
<1> QED
  BY <1>1, ViewsInvariant, PTL

\* What holds of the server alone holds of it beside the other views.
THEOREM ServedInEveryView == ServingSpec => [](ContextIsTranscript /\ StreamIsBody)
<1>1. ViewsInv => ContextIsTranscript /\ StreamIsBody
  BY SaysContextIsTranscript, SaysStreamIsBody DEF ViewsInv
<1> QED
  BY <1>1, ViewsInvariant, PTL
===============================================================================
