-------------------------- MODULE StoreAndForward ---------------------------
(***************************************************************************)
(* What store-and-forward messaging between two nodes promises, whatever   *)
(* its tables, tasks and handlers are: a message is delivered only if its  *)
(* sender accepted it and the transport carried it, it is carried only     *)
(* while the sender still holds it, and the sender gives it up only after  *)
(* the transport has carried it.  Delivery is not promised: a message that *)
(* was carried and given up may never be delivered.                        *)
(***************************************************************************)
CONSTANT Msgs

VARIABLES accepted,  \* messages the sender answered for
          pending,   \* accepted messages the sender still holds for transport
          carried,   \* messages the transport brought to the peer's node
          delivered  \* messages in the recipient's history

avars == <<accepted, pending, carried, delivered>>

Init ==
  /\ accepted  = {}
  /\ pending   = {}
  /\ carried   = {}
  /\ delivered = {}

Accept(m) ==
  /\ m \notin accepted
  /\ accepted' = accepted \cup {m}
  /\ pending'  = pending \cup {m}
  /\ UNCHANGED <<carried, delivered>>

Carry(m) ==
  /\ m \in pending
  /\ carried' = carried \cup {m}
  /\ UNCHANGED <<accepted, pending, delivered>>

Deliver(m) ==
  /\ m \in carried
  /\ delivered' = delivered \cup {m}
  /\ UNCHANGED <<accepted, pending, carried>>

GiveUp(m) ==
  /\ m \in pending \cap carried
  /\ pending' = pending \ {m}
  /\ UNCHANGED <<accepted, carried, delivered>>

Next == \E m \in Msgs : Accept(m) \/ Carry(m) \/ Deliver(m) \/ GiveUp(m)

Spec == Init /\ [][Next]_avars
=============================================================================
