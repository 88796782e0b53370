------------------------------ MODULE MCOutbox ------------------------------
(* Instances of Outbox for TLC: two sends to one peer. *)
EXTENDS Outbox, TLC

CONSTANTS m1, m2, near, r1, r2

MCRecipientNear == m1 :> near @@ m2 :> near
=============================================================================
