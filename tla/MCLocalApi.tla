----------------------------- MODULE MCLocalApi -----------------------------
(* One application with two tokens; a peer that asks and is asked twice,   *)
(* and a peer that is only asked.                                          *)
EXTENDS LocalApi, TLC

CONSTANTS bob, carol, fromBob, toBob1, toBob2, toCarol, t1, t2, theApp, x1, x2

MCPeer == (fromBob :> bob) @@ (toBob1 :> bob) @@ (toBob2 :> bob) @@ (toCarol :> carol)
MCApp == [t \in Tokens |-> theApp]
MCScopes == (t1 :> {"messages:send", "notifications:subscribe"}) @@ (t2 :> {"messages:send"})
MCBy == (x1 :> t1) @@ (x2 :> t2)
MCTo == [x \in Sends |-> bob]
=============================================================================
