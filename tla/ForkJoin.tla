------------------------------ MODULE ForkJoin ------------------------------
(***************************************************************************)
(* What HostExecutor promises Model::decode: jobs go in one at a time, and *)
(* a sync returns either the weighted sum of every expert of that very job *)
(* or an error, which is final.  A job may also be dropped without a sync; *)
(* then the next success alone may be torn between jobs.                   *)
(***************************************************************************)
EXTENDS Naturals

CONSTANT MaxExperts

VARIABLES
  phase,      \* "idle", "busy" with one job, or "closed"
  current,    \* the number of jobs accepted so far
  size,       \* the experts of the job in hand
  reply,      \* what the last sync returned
  torn        \* a job was dropped and no sync has succeeded since

vars == <<phase, current, size, reply, torn>>

Init ==
  /\ phase = "idle" /\ current = 0 /\ size = 0
  /\ torn = FALSE
  /\ reply = [epoch |-> 0, outcome |-> "none", value |-> {}]

Submit ==
  /\ phase = "idle"
  /\ phase' = "busy" /\ current' = current + 1
  /\ size' \in 0 .. MaxExperts
  /\ UNCHANGED <<reply, torn>>

Deliver ==
  /\ phase = "busy" /\ reply.outcome # "died"
  /\ phase' = "idle" /\ size' = 0 /\ torn' = FALSE
  /\ \E jobs \in SUBSET (0 .. current) :
       /\ torn \/ jobs = IF size = 0 THEN {} ELSE {current}
       /\ reply' = [epoch |-> current, outcome |-> "ok", value |-> jobs]
  /\ UNCHANGED current

Fail ==
  /\ phase = "busy"
  /\ phase' = "idle" /\ size' = 0
  /\ reply' = [epoch |-> current, outcome |-> "died", value |-> {}]
  /\ UNCHANGED <<current, torn>>

Abandon ==
  /\ phase = "busy"
  /\ phase' = "idle" /\ size' = 0 /\ torn' = TRUE
  /\ UNCHANGED <<current, reply>>

Close ==
  /\ phase = "idle"
  /\ phase' = "closed"
  /\ UNCHANGED <<current, size, reply, torn>>

Next == Submit \/ Deliver \/ Fail \/ Abandon \/ Close

Spec == Init /\ [][Next]_vars
=============================================================================
