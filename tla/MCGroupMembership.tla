------------------------- MODULE MCGroupMembership --------------------------
(* Instances of GroupMembership for TLC: ann's group, invitations of bob and
   of carol. *)
EXTENDS GroupMembership, TLC

CONSTANTS ann, bob, carol, i1, i2, h1, h2

MCInviter == [i \in Invites |-> ann]
MCInvitee == i1 :> bob @@ i2 :> carol
=============================================================================
