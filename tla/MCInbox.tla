------------------------------ MODULE MCInbox -------------------------------
(* Instances of Inbox for TLC: a sound envelope, one of another peer that names the
   same conversation and verifies but does not decrypt, and one whose signature does
   not verify; the first may come from a clock that is ahead. *)
EXTENDS Inbox, TLC

CONSTANTS e1, e2, e3, alice, mallory, h1, h2, c1, c2, own

MCSender   == [e \in Envelopes |-> IF e = e1 THEN alice ELSE mallory]
MCNames    == [e \in Envelopes |-> IF e = e3 THEN c2 ELSE c1]
SoundFlaw  == [e \in Envelopes |-> "none"]
MCFlaw     == e1 :> "ahead" @@ e2 :> "undecryptable" @@ e3 :> "forged"
NoLifetime == [e \in Envelopes |-> 0]
HandlersAlike == Permutations(Handlers)
=============================================================================
