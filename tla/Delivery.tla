------------------------------ MODULE Delivery ------------------------------
(***************************************************************************)
(* What the outbox promises, whatever relays, leases and failures do: a    *)
(* committed message is handed to the queue at least once, is marked       *)
(* published only after that, and neither is ever undone.                  *)
(***************************************************************************)
CONSTANT Msg

VARIABLES
  stored,    \* messages whose transaction committed
  accepted,  \* messages the queue has accepted
  published  \* messages marked published

vars == <<stored, accepted, published>>

Init == stored = {} /\ accepted = {} /\ published = {}

Store(m) == /\ m \notin stored
            /\ stored' = stored \cup {m}
            /\ UNCHANGED <<accepted, published>>

Accept(m) == /\ m \in stored \ accepted
             /\ accepted' = accepted \cup {m}
             /\ UNCHANGED <<stored, published>>

Publish(m) == /\ m \in accepted \ published
              /\ published' = published \cup {m}
              /\ UNCHANGED <<stored, accepted>>

Next == \E m \in Msg : Store(m) \/ Accept(m) \/ Publish(m)

Safety == Init /\ [][Next]_vars

Fairness == \A m \in Msg : WF_vars(Accept(m)) /\ WF_vars(Publish(m))

Spec == Safety /\ Fairness
=============================================================================
