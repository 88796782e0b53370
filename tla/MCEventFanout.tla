---------------------------- MODULE MCEventFanout ----------------------------
(* Instances of EventFanout for TLC. *)
EXTENDS EventFanout, TLC

CONSTANTS approved, received, discovered, up1, down1, p, h1

MCName == approved :> "ContactRequestApproved" @@ received :> "DirectMessageReceived"
       @@ discovered :> "PeerDiscovered"
       @@ up1 :> "PeerConnected" @@ down1 :> "PeerDisconnected"
MCPeer == [e \in Events |-> IF MCName[e] \in PeerNames THEN p ELSE None]

\* The received message bears a time among those of the other events.
MCSent == [e \in Events |-> 2]

\* A receiver that lists one event type: the rounds of the others end at once.
MCWants == h1 :> {"ContactRequestApproved"}
=============================================================================
