------------------------------ MODULE PinnedLru ------------------------------
(***************************************************************************)
(* What ExpertCache promises Model::decode: a pool of Capacity places kept *)
(* in order of use, where the experts of the step being planned are pinned *)
(* and are all present when its plan is handed over.                       *)
(***************************************************************************)
EXTENDS Naturals, FiniteSets

CONSTANTS Experts, Capacity

VARIABLES
  resident,   \* the experts in the pool
  older,      \* pairs <<a, b>> of residents, a used before b
  pinned,     \* the experts the step being planned needs
  used,       \* those of them already used by the step
  serving     \* a step is being planned

vars == <<resident, older, pinned, used, serving>>

\* The order once gone has left and e has become the last used.
Using(e, gone) ==
  {p \in older : p[1] \notin {e, gone} /\ p[2] \notin {e, gone}}
    \cup {<<x, e>> : x \in resident \ {e, gone}}

Init == resident = {} /\ older = {} /\ pinned = {} /\ used = {} /\ serving = FALSE

Pin ==
  /\ ~serving /\ serving' = TRUE
  /\ pinned' \in {P \in SUBSET Experts : Cardinality(P) <= Capacity}
  /\ used' = {}
  /\ UNCHANGED <<resident, older>>

Touch(e) ==
  /\ e \in pinned \cap resident
  /\ older' = Using(e, e)
  /\ used' = used \cup {e}
  /\ UNCHANGED <<resident, pinned, serving>>

Fetch(e) ==
  /\ e \in pinned \ resident /\ Cardinality(resident) < Capacity
  /\ resident' = resident \cup {e}
  /\ older' = Using(e, e)
  /\ used' = used \cup {e}
  /\ UNCHANGED <<pinned, serving>>

\* The pool is full: the least recently used expert that is not pinned leaves.
Replace(e) ==
  /\ e \in pinned \ resident /\ Cardinality(resident) = Capacity
  /\ \E v \in resident \ pinned :
       /\ \A x \in resident \ pinned : <<x, v>> \notin older
       /\ resident' = (resident \ {v}) \cup {e}
       /\ older' = Using(e, v)
  /\ used' = used \cup {e}
  /\ UNCHANGED <<pinned, serving>>

\* Every pinned expert has been used by the step and none of them has left.
HandOver ==
  /\ serving /\ used = pinned /\ pinned \subseteq resident
  /\ serving' = FALSE /\ pinned' = {} /\ used' = {}
  /\ UNCHANGED <<resident, older>>

Forget ==
  /\ ~serving
  /\ resident' = {} /\ older' = {}
  /\ UNCHANGED <<pinned, used, serving>>

Next ==
  \/ Pin \/ HandOver \/ Forget
  \/ \E e \in Experts : Touch(e) \/ Fetch(e) \/ Replace(e)

Spec == Init /\ [][Next]_vars
=============================================================================
