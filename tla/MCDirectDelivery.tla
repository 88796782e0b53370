-------------------------- MODULE MCDirectDelivery --------------------------
(* Instances of DirectDelivery for TLC. *)
EXTENDS DirectDelivery, TLC

CONSTANTS m1, m2, m3, h1, h2, r1, r2, far, c1

MCToYou == [m \in Msgs |-> You]
MCToBoth == m1 :> far @@ m2 :> far @@ m3 :> You
NoLifetime == [m \in Msgs |-> 0]
ADay == [m \in Msgs |-> 1]
MCNames == [m \in Msgs |-> c1]
=============================================================================
