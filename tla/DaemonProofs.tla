---------------------------- MODULE DaemonProofs ----------------------------
(***************************************************************************)
(* However many starts, stops and timers meet, no maintenance task runs    *)
(* twice at a time and the resources are closed once; a lone stop waits    *)
(* for whoever uses them, and leaves nothing behind.                       *)
(***************************************************************************)
EXTENDS DaemonLifecycle, FiniteSetTheorems, TLAPS

-----------------------------------------------------------------------------
(* The inductive invariant, in two parts that do not meet.                 *)

\* runningMaintenance names the tasks with a run in progress, one each.
RunsInv ==
  /\ runs \in [Tasks -> 0..1]
  /\ running = {t \in Tasks : runs[t] = 1}

\* Until the flag is set the database is open and nobody releases anything.
CloseInv ==
  /\ call \in [Calls -> {"idle"} \cup Starting \cup Closing \cup Ended]
  /\ resourcesClosed \in BOOLEAN
  /\ ~resourcesClosed => dbOpen /\ \A c \in Calls : call[c] # "releasing"
  /\ ResourcesClosedOnce

Inv == RunsInv /\ CloseInv

-----------------------------------------------------------------------------
\* runMaintenance starts a run only for a task that has none.
LEMMA RunAllKeepsRunsInv ==
  ASSUME RunsInv, NEW tasks \in SUBSET Tasks, RunAll(tasks)
  PROVE  RunsInv'
BY DEF RunsInv, RunAll

\* A call moves to a place other than "releasing".
LEMMA MoveKeepsCloseInv ==
  ASSUME CloseInv, NEW c \in Calls, NEW to,
         to \in ({"idle"} \cup Starting \cup Closing \cup Ended) \ {"releasing"},
         Moves(c, to), UNCHANGED <<resourcesClosed, dbOpen>>
  PROVE  CloseInv'
BY DEF CloseInv, Moves, ResourcesClosedOnce

\* closeResources lets the first caller in and no other.
LEMMA BeginCloseKeepsCloseInv ==
  ASSUME CloseInv, NEW c \in Calls, NEW n, BeginClose(c, n), dbOpen' = dbOpen
  PROVE  CloseInv'
<1>1. CASE resourcesClosed
  BY <1>1, MoveKeepsCloseInv DEF BeginClose, Ended
<1>2. CASE ~resourcesClosed
  <2>1. /\ call' = [call EXCEPT ![c] = "releasing"]
        /\ resourcesClosed' = TRUE
    BY <1>2 DEF BeginClose, Moves
  <2>2. dbOpen' /\ \A d \in Calls : call'[d] = "releasing" => d = c
    BY <1>2, <2>1 DEF CloseInv
  <2> QED BY <2>1, <2>2 DEF CloseInv, ResourcesClosedOnce, Closing
<1> QED BY <1>1, <1>2 DEF CloseInv

\* What stop and the catch block do next keeps it, with or without a server.
LEMMA CloseServerKeepsCloseInv ==
  ASSUME CloseInv, NEW c \in Calls, CloseServer(c), UNCHANGED <<resourcesClosed, dbOpen>>
  PROVE  CloseInv'
BY MoveKeepsCloseInv DEF CloseServer, Closing

LEMMA CatchKeepsInv ==
  ASSUME Inv, NEW s \in Starts, NEW n, Catch(s, n)
  PROVE  Inv'
<1>1. s \in Calls
  BY DEF Calls
<1>2. RunsInv'
  BY DEF Inv, RunsInv, Catch
<1>3. CloseInv'
  BY <1>1, CloseServerKeepsCloseInv, BeginCloseKeepsCloseInv DEF Inv, Catch
<1> QED BY <1>2, <1>3 DEF Inv

\* A connection's steps: it brings a request or a stream, or is over.
ExchangeMoves ==
  \/ RequestArrives
  \/ HandlerEnds
  \/ \E s \in Starts : RequestEnds(s) \/ ClientLeaves(s) \/ StreamLeaves(s)

\* The invariant holds at first and every step keeps it.
LEMMA InvInductive ==
  /\ Init => Inv
  /\ Inv /\ [Next]_vars => Inv'
<1>1. Init => Inv
  <2> SUFFICES ASSUME Init PROVE Inv
    OBVIOUS
  <2>1. RunsInv
    <3>1. runs = [t \in Tasks |-> 0] /\ running = {}
      BY DEF Init, NoRuns
    <3> QED BY <3>1 DEF RunsInv
  <2>2. CloseInv
    <3>1. /\ call = [c \in Calls |-> "idle"]
          /\ resourcesClosed = FALSE
          /\ dbOpen = TRUE
      BY DEF Init
    <3> QED BY <3>1 DEF CloseInv, ResourcesClosedOnce
  <2> QED BY <2>1, <2>2 DEF Inv
<1>2. ASSUME Inv, [Next]_vars
      PROVE  Inv'
  <2> USE <1>2
  <2>0. RunsInv /\ CloseInv /\ \A s \in Starts : s \in Calls
    BY DEF Inv, Calls
  <2>1. ASSUME NEW s \in Starts, Start(s)
        PROVE  Inv'
    <3>1. RunsInv'
      BY <2>0, <2>1 DEF Start, RunsInv, maintenance
    <3>2. CloseInv'
      BY <2>0, <2>1, MoveKeepsCloseInv DEF Start, Starting, Ended
    <3> QED BY <3>1, <3>2 DEF Inv
  <2>2. ASSUME NEW s \in Starts, IdentityReady(s)
        PROVE  Inv'
    <3>1. RunsInv'
      BY <2>0, <2>2 DEF IdentityReady, RunsInv, maintenance
    <3>2. CloseInv'
      BY <2>0, <2>2, MoveKeepsCloseInv DEF IdentityReady, Starting
    <3> QED BY <3>1, <3>2 DEF Inv
  <2>3. ASSUME NEW s \in Starts, StartFails(s) \/ ListenFails(s)
        PROVE  Inv'
    BY <2>3, CatchKeepsInv DEF StartFails, ListenFails
  <2>4. ASSUME NEW s \in Starts, Listening(s)
        PROVE  Inv'
    <3>1. RunsInv'
      BY <2>0, <2>4, RunAllKeepsRunsInv DEF Listening
    <3>2. CloseInv'
      BY <2>0, <2>4, MoveKeepsCloseInv DEF Listening, Ended
    <3> QED BY <3>1, <3>2 DEF Inv
  <2>5. ASSUME NEW s \in Starts, SchedulingFails(s)
        PROVE  Inv'
    <3>1. RunsInv'
      BY <2>0, <2>5, RunAllKeepsRunsInv DEF SchedulingFails
    <3>2. CloseInv'
      BY <2>0, <2>5, MoveKeepsCloseInv DEF SchedulingFails, Closing
    <3> QED BY <3>1, <3>2 DEF Inv
  <2>6. ASSUME NEW c \in Calls, Stop(c)
        PROVE  Inv'
    <3>1. RunsInv'
      BY <2>0, <2>6 DEF Stop, RunsInv
    <3>2. CloseInv'
      BY <2>0, <2>6, MoveKeepsCloseInv DEF Stop, Closing
    <3> QED BY <3>1, <3>2 DEF Inv
  <2>7. ASSUME NEW c \in Calls, Drained(c)
        PROVE  Inv'
    <3>1. RunsInv'
      BY <2>0, <2>7 DEF Drained, RunsInv, maintenance
    <3>2. CloseInv'
      BY <2>0, <2>7, CloseServerKeepsCloseInv, BeginCloseKeepsCloseInv DEF Drained
    <3> QED BY <3>1, <3>2 DEF Inv
  <2>8. ASSUME NEW c \in Calls, ServerClosed(c)
        PROVE  Inv'
    <3>1. RunsInv'
      BY <2>0, <2>8 DEF ServerClosed, RunsInv, maintenance
    <3>2. CloseInv'
      BY <2>0, <2>8, BeginCloseKeepsCloseInv DEF ServerClosed
    <3> QED BY <3>1, <3>2 DEF Inv
  <2>9. ASSUME NEW c \in Calls, Released(c)
        PROVE  Inv'
    <3>1. RunsInv'
      BY <2>0, <2>9 DEF Released, RunsInv, maintenance
    <3>2. \A d \in Calls : call'[d] # "releasing"
      BY <2>0, <2>9 DEF Released, Moves, CloseInv, ResourcesClosedOnce
    <3>3. resourcesClosed' /\ call' \in [Calls -> {"idle"} \cup Starting \cup Closing \cup Ended]
      BY <2>0, <2>9 DEF Released, Moves, CloseInv, Ended
    <3> QED BY <3>1, <3>2, <3>3 DEF Inv, CloseInv, ResourcesClosedOnce
  <2>10. ASSUME NEW t \in Tasks, Tick(t)
         PROVE  Inv'
    <3>1. RunsInv'
      BY <2>0, <2>10, RunAllKeepsRunsInv DEF Tick
    <3> QED BY <2>0, <2>10, <3>1 DEF Tick, Inv, CloseInv, ResourcesClosedOnce
  <2>11. ASSUME NEW t \in Tasks, RunEnds(t)
         PROVE  Inv'
    <3>1. RunsInv'
      BY <2>0, <2>11 DEF RunEnds, RunsInv
    <3> QED BY <2>0, <2>11, <3>1 DEF RunEnds, Inv, CloseInv, ResourcesClosedOnce
  <2>12. CASE ExchangeMoves
    BY <2>0, <2>12
       DEF ExchangeMoves, RequestArrives, RequestEnds, ClientLeaves, StreamLeaves, HandlerEnds,
           maintenance, Inv, RunsInv, CloseInv, ResourcesClosedOnce
  <2>13. CASE UNCHANGED vars
    BY <2>0, <2>13 DEF vars, maintenance, Inv, RunsInv, CloseInv, ResourcesClosedOnce
  <2> QED
    BY <2>1, <2>2, <2>3, <2>4, <2>5, <2>6, <2>7, <2>8, <2>9, <2>10, <2>11, <2>12, <2>13
    DEF Next, ExchangeMoves
<1> QED BY <1>1, <1>2

\* The inductive invariant holds in every reachable state.
THEOREM InvCorrect == Spec => []Inv
BY InvInductive, PTL DEF Spec

\* No maintenance task ever runs twice at a time.
THEOREM MaintenanceNeverOverlapsCorrect == Spec => []MaintenanceNeverOverlaps
<1>1. Inv => MaintenanceNeverOverlaps
  BY DEF Inv, RunsInv, MaintenanceNeverOverlaps
<1> QED BY <1>1, InvCorrect, PTL

\* The resources are closed by one call, once.
THEOREM ResourcesClosedOnceCorrect == Spec => []ResourcesClosedOnce
<1>1. Inv => ResourcesClosedOnce
  BY DEF Inv, CloseInv
<1> QED BY <1>1, InvCorrect, PTL

-----------------------------------------------------------------------------
(* What a call leaves behind: the invariant of the resources.              *)

\* A start that has got past its awaits, and may have made a libp2p node.
Past(s) == call[s] \notin {"idle"} \cup Starting
PastStarts == {s \in Starts : Past(s)}

\* Each start left one timer of a task at most.
TimersInv == \A t \in Tasks : timers[t] <= Cardinality(PastStarts)

\* A node that runs was made by a start that is past; the one being stopped is
\* no longer the daemon's.
NodesInv ==
  /\ \A s \in live : Past(s)
  /\ \A c \in Calls : call[c] = "releasing" /\ target[c] # None =>
       target[c] # node /\ Past(target[c])

\* An exchange is open on the server that listens or on one being closed.
RequestsInv ==
  \A s \in Starts : requests[s] > 0 =>
    s = server \/ \E c \in Calls : call[c] = "closing" /\ target[c] = s

\* Resources are closed by the flag first, by a call that closes the database.
FlagInv ==
  /\ \A c \in Calls : call[c] \in {"releasing", "done"} => resourcesClosed
  /\ resourcesClosed /\ dbOpen => \E c \in Calls : call[c] = "releasing"

\* A start that is pending is the only call that is, with its resources open.
AloneInv ==
  \A s \in Starts : call[s] \in Starting =>
    /\ \A c \in Calls \ {s} : ~Pending(c)
    /\ ~resourcesClosed

\* Nothing comes back after a stop: no timer, no server, no node, no URL.
ReleasedInv ==
  /\ server # None => runningUrl
  /\ \A c \in Calls : call[c] \in Closing \cup {"done"} => timers = NoRuns
  /\ \A c \in Calls : call[c] = "closing" => server = None
  /\ resourcesClosed => server = None /\ node = None /\ ~runningUrl
  /\ \A s \in Starts : call[s] = "creating" => node = None
  /\ \A s \in live : \/ s = node
                     \/ \E c \in Calls : call[c] = "releasing" /\ target[c] = s

\* Every call but c is over, or has not begun.
OthersRest(c) == \A d \in Calls \ {c} : call[d] \in {"idle", "up", "refused"}

\* A lone stop waits for all the runs there are, then for all the exchanges.
DrainsInv ==
  \A c \in Stops : OthersRest(c) =>
    /\ call[c] = "draining" => running \subseteq wait[c]
    /\ call[c] \in {"closing", "releasing", "done"} => running = {}
    /\ call[c] \in {"releasing", "done"} => \A s \in Starts : requests[s] = 0

CalmInv == AloneInv /\ ReleasedInv /\ DrainsInv

ResourcesInv ==
  /\ TypeOK
  /\ TimersInv
  /\ NodesInv
  /\ RequestsInv
  /\ FlagInv
  /\ ~raced => CalmInv

-----------------------------------------------------------------------------
\* The starts that are past can be counted, and more of them count more.
LEMMA PastCount ==
  ASSUME NEW A \in SUBSET Starts, NEW B \in SUBSET A
  PROVE  /\ Cardinality(A) \in Nat /\ Cardinality(B) \in Nat
         /\ Cardinality(B) <= Cardinality(A)
         /\ Cardinality(A) <= Cardinality(Starts)
         /\ \A s \in A \ B : Cardinality(B) + 1 <= Cardinality(A)
<1>1. IsFiniteSet(Starts) /\ IsFiniteSet(A) /\ IsFiniteSet(B)
  BY DaemonAssumption, FS_Subset
<1>2. /\ Cardinality(A) \in Nat /\ Cardinality(B) \in Nat
      /\ Cardinality(B) <= Cardinality(A)
      /\ Cardinality(A) <= Cardinality(Starts)
  BY <1>1, FS_CardinalityType, FS_Subset
<1>3. ASSUME NEW s \in A \ B
      PROVE  Cardinality(B) + 1 <= Cardinality(A)
  <2>1. Cardinality(B \cup {s}) = Cardinality(B) + 1 /\ B \cup {s} \in SUBSET A
    BY <1>1, FS_AddElement
  <2> QED BY <1>1, <2>1, FS_Subset
<1> QED BY <1>2, <1>3

\* The timers after a step: none, as before, or one more of a start that got past.
LEMMA TimersKept ==
  ASSUME ResourcesInv, \A s \in Starts : Past(s) => Past(s)',
         \/ timers' \in {NoRuns, timers}
         \/ /\ timers' = [t \in Tasks |-> timers[t] + 1]
            /\ \E s \in Starts : ~ Past(s) /\ Past(s)'
  PROVE  TimersInv' /\ timers' \in [Tasks -> 0..Cardinality(Starts)]
<1> DEFINE A == PastStarts' B == PastStarts
<1>1. A \in SUBSET Starts /\ B \in SUBSET A
  BY DEF PastStarts
<1>2. \A s \in Starts : ~ Past(s) /\ Past(s)' => s \in A \ B
  BY DEF PastStarts
<1> HIDE DEF A, B
<1>3. /\ Cardinality(A) \in Nat /\ Cardinality(B) \in Nat
      /\ Cardinality(B) <= Cardinality(A)
      /\ Cardinality(A) <= Cardinality(Starts)
      /\ \A s \in A \ B : Cardinality(B) + 1 <= Cardinality(A)
  BY <1>1, PastCount
<1>4. \A t \in Tasks : timers[t] <= Cardinality(B) /\ timers[t] \in Nat
  BY DEF ResourcesInv, TimersInv, TypeOK, B
<1>5. /\ \A t \in Tasks : timers'[t] \in Nat /\ timers'[t] <= Cardinality(A)
      /\ timers' = [t \in Tasks |-> timers'[t]]
  <2>1. CASE timers' = NoRuns
    BY <1>3, <2>1 DEF NoRuns
  <2>2. CASE timers' = timers
    BY <1>3, <1>4, <2>2 DEF ResourcesInv, TypeOK
  <2>3. CASE /\ timers' = [t \in Tasks |-> timers[t] + 1]
             /\ \E s \in Starts : ~ Past(s) /\ Past(s)'
    BY <1>2, <1>3, <1>4, <2>3
  <2> QED BY <2>1, <2>2, <2>3
<1>6. Cardinality(Starts) \in Nat
  BY DaemonAssumption, FS_CardinalityType
<1>7. \A t \in Tasks : timers'[t] \in 0..Cardinality(Starts)
  BY <1>3, <1>5, <1>6
<1> QED BY <1>5, <1>7 DEF TimersInv, A

\* A call that moves leaves the others where they are.
LEMMA MovesEffect ==
  ASSUME TypeOK, NEW c \in Calls, NEW to \in {"idle"} \cup Starting \cup Closing \cup Ended,
         Moves(c, to)
  PROVE  /\ call' \in [Calls -> {"idle"} \cup Starting \cup Closing \cup Ended]
         /\ call'[c] = to
         /\ \A d \in Calls \ {c} : call'[d] = call[d]
BY DEF Moves, TypeOK

\* A call that closes the server: the listening server becomes its target, and
\* with no start under way nothing is left that would make another.
LEMMA CloseServerKeepsResources ==
  ASSUME Inv, ResourcesInv, StreamsOK', NEW c \in Calls,
         \/ call[c] = "draining"
         \/ call[c] \in Starting /\ c \in Starts,
         runningUrl, CloseServer(c),
         \/ node' = node /\ live' = live
         \/ call[c] = "creating" /\ c \in Starts /\ node' = c /\ live' = live \cup {c},
         timers' = NoRuns \/ (timers' = timers /\ call[c] = "draining"),
         call[c] = "draining" => wait[c] = {},
         UNCHANGED <<runningUrl, resourcesClosed, running, runs, wait, requests, dbOpen, raced>>
  PROVE  ResourcesInv'
<1>1. /\ Moves(c, "closing") /\ server' = None
      /\ target' = [target EXCEPT ![c] = server]
      /\ TypeOK
  BY DEF CloseServer, ResourcesInv
<1>2. /\ call' \in [Calls -> {"idle"} \cup Starting \cup Closing \cup Ended]
      /\ call'[c] = "closing"
      /\ \A d \in Calls \ {c} : call'[d] = call[d]
  BY <1>1, MovesEffect DEF Closing
<1>3. /\ target' \in [Calls -> Starts \cup {None}]
      /\ target'[c] = server
      /\ \A d \in Calls \ {c} : target'[d] = target[d]
  BY <1>1 DEF TypeOK
<1>4. \A s \in Starts : s \in Calls /\ (Past(s) => Past(s)') /\ (s = c => Past(s)')
  BY <1>2 DEF Past, Calls, Starting
<1>5. TimersInv' /\ timers' \in [Tasks -> 0..Cardinality(Starts)]
  BY <1>4, TimersKept
<1>6. TypeOK'
  <2>1. live' \subseteq Starts /\ node' \in live' \cup {None}
    BY DEF ResourcesInv, TypeOK
  <2> QED BY <1>1, <1>2, <1>3, <1>5, <2>1 DEF TypeOK
<1>7. NodesInv'
  <2>1. \A s \in live' : Past(s)'
    BY <1>4 DEF ResourcesInv, NodesInv, TypeOK
  <2>2. ASSUME NEW d \in Calls, call'[d] = "releasing", target'[d] # None
        PROVE  target'[d] # node' /\ Past(target[d])'
    <3>1. d # c /\ call[d] = "releasing" /\ target'[d] = target[d]
      BY <1>2, <1>3, <2>2
    <3>2. target[d] \in Starts /\ target[d] # node /\ Past(target[d])
      BY <2>2, <3>1 DEF ResourcesInv, NodesInv, TypeOK
    <3>3. call[c] = "creating" => target[d] # c
      BY <3>2 DEF Past, Starting
    <3>4. Past(target[d])'
      BY <1>4, <3>1, <3>2 DEF Past
    <3> QED BY <3>1, <3>2, <3>3, <3>4
  <2> QED BY <2>1, <2>2 DEF NodesInv
<1>8. RequestsInv'
  BY <1>1, <1>2, <1>3 DEF ResourcesInv, RequestsInv, Starting
<1>9. FlagInv'
  <2>1. \A d \in Calls : call'[d] \in {"releasing", "done"} => call[d] \in {"releasing", "done"}
    BY <1>2
  <2>2. \A d \in Calls : call[d] = "releasing" => call'[d] = "releasing"
    BY <1>2 DEF Starting
  <2> QED BY <2>1, <2>2 DEF ResourcesInv, FlagInv
<1>10. ASSUME ~ raced'
       PROVE  CalmInv'
  <2>1. AloneInv /\ ReleasedInv /\ DrainsInv
    BY <1>10 DEF ResourcesInv, CalmInv
  <2>2. \A s \in Starts : call'[s] \notin Starting
    <3>1. Pending(c)
      BY DEF Pending, Closing
    <3> QED BY <1>2, <1>4, <2>1, <3>1 DEF AloneInv, Starting
  <2>3. timers' = NoRuns
    BY <2>1 DEF ReleasedInv, Closing
  <2>4. AloneInv'
    BY <2>2 DEF AloneInv
  <2>5. ~ resourcesClosed
    BY <2>1 DEF ReleasedInv
  <2>6. ReleasedInv'
    <3>1. /\ server' # None => runningUrl'
          /\ \A d \in Calls : call'[d] \in Closing \cup {"done"} => timers' = NoRuns
          /\ \A d \in Calls : call'[d] = "closing" => server' = None
          /\ \A s \in Starts : call'[s] = "creating" => node' = None
      BY <1>1, <2>2, <2>3 DEF Starting
    <3>2. ~ resourcesClosed'
      BY <2>5
    <3>3. ASSUME NEW s \in live'
          PROVE  \/ s = node'
                 \/ \E d \in Calls : call'[d] = "releasing" /\ target'[d] = s
      <4>1. \A d \in Calls : call[d] # "releasing"
        BY <2>5 DEF Inv, CloseInv
      <4>2. CASE node' = node /\ live' = live
        BY <2>1, <3>3, <4>1, <4>2 DEF ReleasedInv
      <4>3. CASE call[c] = "creating" /\ c \in Starts /\ node' = c /\ live' = live \cup {c}
        <5>1. node = None /\ None \notin live
          BY <2>1, <4>3, DaemonAssumption DEF ReleasedInv, ResourcesInv, TypeOK
        <5> QED BY <2>1, <3>3, <4>1, <4>3, <5>1 DEF ReleasedInv
      <4> QED BY <4>2, <4>3
    <3> QED BY <3>1, <3>2, <3>3 DEF ReleasedInv
  <2>7. DrainsInv'
    <3> SUFFICES ASSUME NEW d \in Stops, OthersRest(d)'
                 PROVE  /\ call'[d] = "draining" => running' \subseteq wait'[d]
                        /\ call'[d] \in {"closing", "releasing", "done"} => running' = {}
                        /\ call'[d] \in {"releasing", "done"} =>
                             \A s \in Starts : requests'[s] = 0
      BY DEF DrainsInv
    <3>1. d = c
      BY <1>2 DEF OthersRest
    <3>2. OthersRest(c) /\ call[c] = "draining"
      BY <1>2, <3>1, DaemonAssumption DEF OthersRest, Calls, AloneInv, TypeOK, Starting
    <3>3. running = {}
      BY <2>1, <3>1, <3>2 DEF DrainsInv
    <3> QED BY <1>2, <3>1, <3>3
  <2> QED BY <2>4, <2>6, <2>7 DEF CalmInv
<1> QED BY <1>5, <1>6, <1>7, <1>8, <1>9, <1>10 DEF ResourcesInv

\* A call that closes the resources, or finds them closed: it takes the node
\* along, and no server is there to go on using them.
LEMMA BeginCloseKeepsResources ==
  ASSUME Inv, ResourcesInv, StreamsOK', NEW c \in Calls, NEW n,
         \/ call[c] \in {"draining", "closing"}
         \/ call[c] \in Starting /\ c \in Starts,
         ~ runningUrl \/ call[c] = "closing", ~ runningUrl',
         BeginClose(c, n),
         \/ n = node /\ live' = live
         \/ call[c] = "creating" /\ c \in Starts /\ n = c /\ live' = live \cup {c},
         timers' = NoRuns \/ (timers' = timers /\ call[c] \in {"draining", "closing"}),
         call[c] = "draining" => wait[c] = {},
         call[c] = "closing" /\ target[c] # None => requests[target[c]] = 0,
         runningUrl' \in BOOLEAN,
         UNCHANGED <<server, running, runs, wait, requests, dbOpen, raced>>
  PROVE  ResourcesInv'
<1>0. TypeOK /\ CloseInv
  BY DEF Inv, ResourcesInv
<1>1. /\ resourcesClosed' = TRUE
      /\ call' \in [Calls -> {"idle"} \cup Starting \cup Closing \cup Ended]
      /\ call'[c] = IF resourcesClosed THEN "done" ELSE "releasing"
      /\ \A d \in Calls \ {c} : call'[d] = call[d]
      /\ target' = IF resourcesClosed THEN target ELSE [target EXCEPT ![c] = n]
      /\ node' = IF resourcesClosed THEN n ELSE None
  BY <1>0, MovesEffect DEF BeginClose, Closing, Ended
<1>2. n \in live' \cup {None} /\ live' \subseteq Starts
  BY <1>0 DEF TypeOK
<1>3. /\ target' \in [Calls -> Starts \cup {None}]
      /\ ~ resourcesClosed => target'[c] = n
      /\ \A d \in Calls \ {c} : target'[d] = target[d]
  BY <1>0, <1>1, <1>2 DEF TypeOK
<1>4. \A s \in Starts : s \in Calls /\ (Past(s) => Past(s)') /\ (s = c => Past(s)')
  BY <1>1 DEF Past, Calls, Starting
<1>5. TimersInv' /\ timers' \in [Tasks -> 0..Cardinality(Starts)]
  BY <1>4, TimersKept
<1>6. TypeOK'
  <2>1. node' \in live' \cup {None}
    BY <1>1, <1>2
  <2> QED BY <1>0, <1>1, <1>2, <1>3, <1>5, <2>1 DEF TypeOK
<1>7. NodesInv'
  <2>1. \A s \in live' : Past(s)'
    BY <1>2, <1>4 DEF ResourcesInv, NodesInv
  <2>2. ASSUME NEW d \in Calls, NEW s, s = target'[d], call'[d] = "releasing", s # None
        PROVE  s # node' /\ Past(s)'
    <3>1. CASE resourcesClosed
      <4>1. d # c /\ call[d] = "releasing" /\ target[d] = s
        BY <1>1, <1>3, <2>2, <3>1
      <4>2. s \in Starts /\ s # node /\ Past(s)
        BY <2>2, <4>1, <1>0 DEF ResourcesInv, NodesInv, TypeOK
      <4>3. call[c] = "creating" => s # c
        BY <4>2 DEF Past, Starting
      <4> QED BY <1>1, <1>4, <3>1, <4>2, <4>3
    <3>2. CASE ~ resourcesClosed
      <4>1. d = c /\ s = n
        BY <1>0, <1>1, <1>3, <2>2, <3>2 DEF CloseInv
      <4> QED BY <1>1, <1>2, <2>1, <2>2, <3>2, <4>1
    <3> QED BY <3>1, <3>2
  <2> QED BY <2>1, <2>2 DEF NodesInv, Past
<1>8. RequestsInv'
  <2> SUFFICES ASSUME NEW s \in Starts, requests'[s] > 0, s # server
               PROVE  \E d \in Calls : call'[d] = "closing" /\ target'[d] = s
    BY DEF RequestsInv
  <2>1. PICK d \in Calls : call[d] = "closing" /\ target[d] = s
    BY DEF ResourcesInv, RequestsInv
  <2>2. d # c
    BY <2>1, <1>0, DaemonAssumption DEF TypeOK
  <2> QED BY <1>1, <1>3, <2>1, <2>2
<1>9. FlagInv'
  <2>1. ASSUME resourcesClosed, dbOpen
        PROVE  \E d \in Calls : call'[d] = "releasing"
    <3>1. PICK d \in Calls : call[d] = "releasing"
      BY <2>1 DEF ResourcesInv, FlagInv
    <3> QED BY <1>1, <3>1 DEF Starting
  <2> QED BY <1>1, <2>1 DEF FlagInv
<1>10. ASSUME ~ raced'
       PROVE  CalmInv'
  <2>1. AloneInv /\ ReleasedInv /\ DrainsInv
    BY <1>10 DEF ResourcesInv, CalmInv
  <2>2. \A s \in Starts : call'[s] \notin Starting
    <3>1. Pending(c)
      BY DEF Pending, Closing
    <3> QED BY <1>1, <1>4, <2>1, <3>1 DEF AloneInv, Starting
  <2>3. timers' = NoRuns
    BY <2>1 DEF ReleasedInv, Closing
  <2>4. AloneInv'
    BY <2>2 DEF AloneInv
  <2>5. server' = None
    BY <2>1 DEF ReleasedInv
  <2>6. resourcesClosed => n = node /\ node = None /\ live' = live
    BY <2>1 DEF ReleasedInv, AloneInv, Starting
  <2>7. node' = None
    BY <1>1, <2>6
  <2>8. ReleasedInv'
    <3>1. ASSUME NEW s \in live'
          PROVE  \E d \in Calls : call'[d] = "releasing" /\ target'[d] = s
      <4>1. CASE resourcesClosed
        <5>1. PICK d \in Calls : call[d] = "releasing" /\ target[d] = s
          BY <1>0, <2>1, <2>6, <3>1, <4>1, DaemonAssumption DEF ReleasedInv, TypeOK
        <5>2. d # c
          BY <5>1 DEF Starting
        <5> QED BY <1>1, <1>3, <5>1, <5>2
      <4>2. CASE ~ resourcesClosed
        <5>1. \A d \in Calls : call[d] # "releasing"
          BY <1>0, <4>2 DEF CloseInv
        <5>2. call[c] = "creating" /\ c \in Starts => node = None
          BY <2>1 DEF ReleasedInv
        <5>3. s = n
          BY <1>0, <2>1, <3>1, <5>1, <5>2, DaemonAssumption DEF ReleasedInv, TypeOK
        <5> QED BY <1>1, <1>3, <4>2, <5>3
      <4> QED BY <4>1, <4>2
    <3> QED BY <2>2, <2>3, <2>5, <2>7, <3>1 DEF ReleasedInv, Starting
  <2>9. DrainsInv'
    <3> SUFFICES ASSUME NEW d \in Stops, OthersRest(d)'
                 PROVE  running = {} /\ \A s \in Starts : requests[s] = 0
      BY DEF DrainsInv
    <3>1. d = c
      BY <1>1 DEF OthersRest
    <3>2. OthersRest(c) /\ call[c] \in {"draining", "closing"}
      BY <1>1, <3>1, DaemonAssumption DEF OthersRest
    <3>3. running = {}
      BY <2>1, <3>1, <3>2 DEF DrainsInv
    <3>4. \A e \in Calls : call'[e] # "closing"
      BY <1>1, <3>2 DEF OthersRest
    <3>5. \A s \in Starts : ~ (requests[s] > 0)
      BY <1>8, <2>5, <3>4, DaemonAssumption DEF RequestsInv
    <3>6. \A s \in Starts : requests[s] = 0
      BY <1>0, <3>5, DaemonAssumption DEF TypeOK
    <3> QED BY <3>3, <3>6
  <2> QED BY <2>4, <2>8, <2>9 DEF CalmInv
<1> QED BY <1>5, <1>6, <1>7, <1>8, <1>9, <1>10 DEF ResourcesInv

\* Streams are among the connections, and no counter leaves its range.
LEMMA StreamsKept ==
  ASSUME requests \in [Starts -> 0..MaxRequests], StreamsOK, server \in Starts \cup {None},
         [Next]_vars
  PROVE  StreamsOK'
<1> USE DaemonAssumption
<1>1. CASE RequestArrives
  BY <1>1 DEF RequestArrives, StreamsOK
<1>2. CASE HandlerEnds
  BY <1>2 DEF HandlerEnds, StreamsOK
<1>3. ASSUME NEW s \in Starts, RequestEnds(s)
      PROVE  StreamsOK'
  BY <1>3 DEF RequestEnds, StreamsOK
<1>4. ASSUME NEW s \in Starts, ClientLeaves(s)
      PROVE  StreamsOK'
  BY <1>4 DEF ClientLeaves, StreamsOK
<1>5. ASSUME NEW s \in Starts, StreamLeaves(s)
      PROVE  StreamsOK'
  BY <1>5 DEF StreamLeaves, StreamsOK
<1>6. ASSUME UNCHANGED exchanges
      PROVE  StreamsOK'
  BY <1>6 DEF exchanges, StreamsOK
<1>7. CASE UNCHANGED vars
  BY <1>6, <1>7 DEF vars, http
<1>8. ASSUME NEW s \in Starts,
             \/ Start(s) \/ IdentityReady(s) \/ StartFails(s)
             \/ ListenFails(s) \/ Listening(s) \/ SchedulingFails(s)
      PROVE  StreamsOK'
  BY <1>6, <1>8 DEF Start, IdentityReady, StartFails, ListenFails, Listening, SchedulingFails,
                    Catch, http
<1>9. ASSUME NEW c \in Calls, Stop(c) \/ Drained(c) \/ ServerClosed(c) \/ Released(c)
      PROVE  StreamsOK'
  BY <1>6, <1>9 DEF Stop, Drained, ServerClosed, Released, http
<1>10. ASSUME NEW t \in Tasks, Tick(t) \/ RunEnds(t)
       PROVE  StreamsOK'
  BY <1>6, <1>10 DEF Tick, RunEnds, http
<1> QED BY <1>1, <1>2, <1>3, <1>4, <1>5, <1>7, <1>8, <1>9, <1>10 DEF Next

\* A step of the timers, of a run or of an exchange: no call moves, no run
\* begins without a timer, no exchange without a server.
LEMMA RestKeepsResources ==
  ASSUME Inv, ResourcesInv, StreamsOK', RunsInv',
         UNCHANGED <<call, runningUrl, resourcesClosed, timers, server, target, node, live,
                     dbOpen, raced>>,
         wait' \in [Calls -> SUBSET running'],
         requests' \in [Starts -> 0..MaxRequests],
         timers = NoRuns => /\ running' \subseteq running
                            /\ \A c \in Calls : wait'[c] = wait[c] \cap running',
         \A s \in Starts : requests'[s] > 0 => s = server \/ requests[s] > 0
  PROVE  ResourcesInv'
<1>1. TypeOK'
  <2>1. runs' \in [Tasks -> Nat] /\ running' = {t \in Tasks : runs'[t] > 0}
    BY DEF RunsInv
  <2> QED BY <2>1 DEF ResourcesInv, TypeOK
<1>2. TimersInv' /\ NodesInv' /\ FlagInv'
  BY DEF ResourcesInv, TimersInv, PastStarts, Past, NodesInv, FlagInv
<1>3. RequestsInv'
  BY DEF ResourcesInv, RequestsInv
<1>4. ASSUME ~ raced'
      PROVE  CalmInv'
  <2>1. AloneInv /\ ReleasedInv /\ DrainsInv
    BY <1>4 DEF ResourcesInv, CalmInv
  <2>2. AloneInv' /\ ReleasedInv'
    BY <2>1 DEF AloneInv, ReleasedInv, Pending
  <2>3. DrainsInv'
    <3> SUFFICES ASSUME NEW c \in Stops, OthersRest(c)
                 PROVE  /\ call[c] = "draining" => running' \subseteq wait'[c]
                        /\ call[c] \in {"closing", "releasing", "done"} => running' = {}
                        /\ call[c] \in {"releasing", "done"} =>
                             \A s \in Starts : requests'[s] = 0
      BY DEF DrainsInv, OthersRest
    <3>1. c \in Calls
      BY DEF Calls
    <3>2. call[c] \in {"draining", "closing", "releasing", "done"} =>
            /\ running' \subseteq running
            /\ wait'[c] = wait[c] \cap running'
      BY <2>1, <3>1 DEF ReleasedInv, Closing
    <3>3. call[c] \in {"releasing", "done"} => server = None
      BY <2>1, <3>1 DEF ReleasedInv, ResourcesInv, FlagInv
    <3>4. call[c] \in {"releasing", "done"} => \A s \in Starts : ~ (requests'[s] > 0)
      BY <2>1, <3>3, DaemonAssumption DEF DrainsInv
    <3>5. \A s \in Starts : requests'[s] \in Nat
      BY DaemonAssumption
    <3> QED BY <2>1, <3>2, <3>4, <3>5 DEF DrainsInv
  <2> QED BY <2>2, <2>3 DEF CalmInv
<1> QED BY <1>1, <1>2, <1>3, <1>4 DEF ResourcesInv

LEMMA TickKeepsResources ==
  ASSUME Inv, ResourcesInv, StreamsOK', Inv', NEW t \in Tasks, Tick(t)
  PROVE  ResourcesInv'
<1>1. /\ timers[t] > 0 /\ RunAll({t})
      /\ UNCHANGED <<call, runningUrl, resourcesClosed, timers, wait, server, requests, target,
                     node, live, dbOpen, raced>>
  BY DEF Tick, http, exchanges
<1>2. timers # NoRuns
  BY <1>1 DEF NoRuns
<1>3. wait' \in [Calls -> SUBSET running'] /\ requests' \in [Starts -> 0..MaxRequests]
  BY <1>1 DEF RunAll, ResourcesInv, TypeOK
<1> QED BY <1>1, <1>2, <1>3, RestKeepsResources DEF Inv

LEMMA RunEndsKeepsResources ==
  ASSUME Inv, ResourcesInv, StreamsOK', Inv', NEW t \in Tasks, RunEnds(t)
  PROVE  ResourcesInv'
<1>1. /\ running' = running \ {t}
      /\ wait' = [c \in Calls |-> wait[c] \ {t}]
      /\ UNCHANGED <<call, runningUrl, resourcesClosed, timers, server, requests, target,
                     node, live, dbOpen, raced>>
  BY DEF RunEnds, http, exchanges
<1>2. /\ wait \in [Calls -> SUBSET running]
      /\ requests' \in [Starts -> 0..MaxRequests]
  BY <1>1 DEF ResourcesInv, TypeOK
<1>3. /\ wait' \in [Calls -> SUBSET running']
      /\ running' \subseteq running
      /\ \A c \in Calls : wait'[c] = wait[c] \cap running'
  BY <1>1, <1>2
<1> QED BY <1>1, <1>2, <1>3, RestKeepsResources DEF Inv

LEMMA RequestKeepsResources ==
  ASSUME Inv, ResourcesInv, StreamsOK', Inv', ExchangeMoves
  PROVE  ResourcesInv'
<1>1. UNCHANGED <<call, runningUrl, resourcesClosed, timers, running, wait, server, target,
                  node, live, dbOpen, raced>>
  BY DEF ExchangeMoves, RequestArrives, RequestEnds, ClientLeaves, StreamLeaves, HandlerEnds,
         maintenance
<1>2. /\ wait \in [Calls -> SUBSET running]
      /\ server \in Starts \cup {None} /\ requests \in [Starts -> 0..MaxRequests]
  BY DEF ResourcesInv, TypeOK
<1>3. /\ requests' \in [Starts -> 0..MaxRequests]
      /\ \A s \in Starts : requests'[s] > 0 => s = server \/ requests[s] > 0
  <2>1. CASE RequestArrives
    BY <1>2, <2>1, DaemonAssumption DEF RequestArrives
  <2>2. ASSUME NEW s \in Starts, RequestEnds(s) \/ ClientLeaves(s) \/ StreamLeaves(s)
        PROVE  /\ requests' \in [Starts -> 0..MaxRequests]
               /\ \A x \in Starts : requests'[x] > 0 => x = server \/ requests[x] > 0
    <3>1. requests[s] > 0 /\ requests' = [requests EXCEPT ![s] = @ - 1]
      <4>1. streams[s] \in Nat /\ streams[s] <= requests[s] /\ requests[s] \in Nat
        BY <1>2, DaemonAssumption DEF ResourcesInv, TypeOK, StreamsOK
      <4> QED BY <2>2, <4>1 DEF RequestEnds, ClientLeaves, StreamLeaves
    <3> QED BY <1>2, <3>1, DaemonAssumption
  <2>3. CASE HandlerEnds
    BY <1>2, <2>3 DEF HandlerEnds
  <2> QED BY <2>1, <2>2, <2>3 DEF ExchangeMoves
<1>4. \A c \in Calls : wait'[c] = wait[c] \cap running'
  BY <1>1, <1>2
<1> QED BY <1>1, <1>2, <1>3, <1>4, RestKeepsResources DEF Inv

LEMMA StutterKeepsResources ==
  ASSUME Inv, ResourcesInv, StreamsOK', Inv', UNCHANGED vars
  PROVE  ResourcesInv'
<1>1. UNCHANGED <<call, runningUrl, resourcesClosed, timers, running, wait, server, requests,
                  target, node, live, dbOpen, raced>>
  BY DEF vars, maintenance, http, exchanges
<1>2. /\ wait \in [Calls -> SUBSET running]
      /\ requests' \in [Starts -> 0..MaxRequests]
  BY <1>1 DEF ResourcesInv, TypeOK
<1>3. \A c \in Calls : wait'[c] = wait[c] \cap running'
  BY <1>1, <1>2
<1> QED BY <1>1, <1>2, <1>3, RestKeepsResources DEF Inv

\* Races(...) has remembered it if a start is beside another pending call.
LEMMA RacesEffect ==
  ASSUME NEW begins \in BOOLEAN, Races(begins)
  PROVE  /\ raced' \in BOOLEAN
         /\ ~ raced' => /\ ~ raced
                        /\ \A s \in Starts : call[s] \notin Starting
                        /\ begins => \A c \in Calls : ~ Pending(c)
BY Zenon DEF Races

\* A start returns at once, or it is the only call that is pending.
LEMMA StartKeepsResources ==
  ASSUME Inv, ResourcesInv, StreamsOK', NEW s \in Starts, Start(s)
  PROVE  ResourcesInv'
<1> DEFINE begins == ~ runningUrl /\ ~ resourcesClosed
<1>0. TypeOK /\ s \in Calls
  BY DEF ResourcesInv, Calls
<1>1. /\ call[s] = "idle" /\ Races(begins)
      /\ UNCHANGED <<runningUrl, resourcesClosed, timers, running, runs, wait, server, requests,
                     target, node, live, dbOpen>>
  BY DEF Start, maintenance, http, exchanges
<1>2. PICK to \in {"up", "refused", "identity"} :
        Moves(s, to) /\ (to = "identity" => begins)
  BY DEF Start
<1>3. begins \in BOOLEAN
  BY Zenon
<1>4. /\ raced' \in BOOLEAN
      /\ ~ raced' => /\ ~ raced
                     /\ \A x \in Starts : call[x] \notin Starting
                     /\ begins => \A c \in Calls : ~ Pending(c)
  BY <1>1, <1>3, RacesEffect
<1>5. /\ call' \in [Calls -> {"idle"} \cup Starting \cup Closing \cup Ended]
      /\ call'[s] = to
      /\ \A d \in Calls \ {s} : call'[d] = call[d]
  BY <1>0, <1>2, MovesEffect DEF Starting, Ended
<1>6. \A x \in Starts : x \in Calls /\ (Past(x) => Past(x)')
  BY <1>1, <1>5 DEF Past, Calls
<1>7. TimersInv' /\ timers' \in [Tasks -> 0..Cardinality(Starts)]
  BY <1>1, <1>6, TimersKept
<1>8. TypeOK'
  BY <1>0, <1>1, <1>4, <1>5, <1>7 DEF TypeOK
<1>9. \A d \in Calls : /\ call'[d] \in Closing \cup {"done"} => d # s /\ call'[d] = call[d]
                       /\ call[d] \in Closing \cup {"done"} => d # s /\ call'[d] = call[d]
  BY <1>1, <1>5 DEF Closing
<1>10. NodesInv'
  <2>1. \A x \in live' : Past(x)'
    BY <1>0, <1>1, <1>6 DEF ResourcesInv, NodesInv, TypeOK
  <2>2. ASSUME NEW d \in Calls, call'[d] = "releasing", NEW x, x = target'[d], x # None
        PROVE  x # node' /\ Past(x)'
    BY <1>0, <1>1, <1>6, <1>9, <2>2 DEF ResourcesInv, NodesInv, TypeOK, Closing
  <2> QED BY <2>1, <2>2 DEF NodesInv, Past
<1>11. RequestsInv' /\ FlagInv'
  BY <1>1, <1>9 DEF ResourcesInv, RequestsInv, FlagInv, Closing
<1>12. ASSUME ~ raced'
       PROVE  CalmInv'
  <2>1. AloneInv /\ ReleasedInv /\ DrainsInv
    BY <1>4, <1>12 DEF ResourcesInv, CalmInv
  <2>2. \A x \in Starts : call'[x] \in Starting => x = s /\ to = "identity"
    BY <1>4, <1>5, <1>6, <1>12 DEF Starting
  <2>3. AloneInv'
    <3>1. \A c \in Calls \ {s} : Pending(c)' => Pending(c)
      BY <1>5 DEF Pending
    <3> QED BY <1>1, <1>2, <1>4, <1>12, <2>2, <3>1 DEF AloneInv
  <2>4. ReleasedInv'
    BY <1>1, <1>9, <2>1, <2>2, <1>5 DEF ReleasedInv, Closing, Starting
  <2>5. DrainsInv'
    <3> SUFFICES ASSUME NEW c \in Stops, OthersRest(c)'
                 PROVE  /\ call'[c] = "draining" => running \subseteq wait[c]
                        /\ call'[c] \in {"closing", "releasing", "done"} => running = {}
                        /\ call'[c] \in {"releasing", "done"} =>
                             \A x \in Starts : requests[x] = 0
      BY <1>1 DEF DrainsInv
    <3>1. c # s /\ c \in Calls
      BY DaemonAssumption DEF Calls
    <3>2. OthersRest(c)
      BY <1>1, <1>5 DEF OthersRest
    <3> QED BY <1>5, <2>1, <3>1, <3>2 DEF DrainsInv
  <2> QED BY <2>3, <2>4, <2>5 DEF CalmInv
<1> QED BY <1>7, <1>8, <1>10, <1>11, <1>12 DEF ResourcesInv

LEMMA IdentityReadyKeepsResources ==
  ASSUME Inv, ResourcesInv, StreamsOK', NEW s \in Starts, IdentityReady(s)
  PROVE  ResourcesInv'
<1>0. TypeOK /\ s \in Calls
  BY DEF ResourcesInv, Calls
<1>1. /\ call[s] = "identity" /\ node = None /\ Moves(s, "creating")
      /\ UNCHANGED <<runningUrl, resourcesClosed, timers, running, runs, wait, server, requests,
                     target, node, live, dbOpen, raced>>
  BY DEF IdentityReady, maintenance, http, exchanges
<1>2. /\ call' \in [Calls -> {"idle"} \cup Starting \cup Closing \cup Ended]
      /\ call'[s] = "creating"
      /\ \A d \in Calls \ {s} : call'[d] = call[d]
  BY <1>0, <1>1, MovesEffect DEF Starting
<1>3. \A x \in Starts : x \in Calls /\ (Past(x) => Past(x)')
  BY <1>1, <1>2 DEF Past, Calls, Starting
<1>4. TimersInv' /\ timers' \in [Tasks -> 0..Cardinality(Starts)]
  BY <1>1, <1>3, TimersKept
<1>5. TypeOK'
  BY <1>0, <1>1, <1>2, <1>4 DEF TypeOK
<1>6. \A d \in Calls : /\ call'[d] \in Closing \cup {"done"} => d # s /\ call'[d] = call[d]
                       /\ call[d] \in Closing \cup {"done"} => d # s /\ call'[d] = call[d]
  BY <1>1, <1>2 DEF Closing
<1>7. NodesInv'
  <2>1. \A x \in live' : Past(x)'
    BY <1>0, <1>1, <1>3 DEF ResourcesInv, NodesInv, TypeOK
  <2>2. ASSUME NEW d \in Calls, call'[d] = "releasing", NEW x, x = target'[d], x # None
        PROVE  x # node' /\ Past(x)'
    BY <1>0, <1>1, <1>3, <1>6, <2>2 DEF ResourcesInv, NodesInv, TypeOK, Closing
  <2> QED BY <2>1, <2>2 DEF NodesInv, Past
<1>8. RequestsInv' /\ FlagInv'
  BY <1>1, <1>6 DEF ResourcesInv, RequestsInv, FlagInv, Closing
<1>9. ASSUME ~ raced'
      PROVE  CalmInv'
  <2>1. AloneInv /\ ReleasedInv /\ DrainsInv
    BY <1>1, <1>9 DEF ResourcesInv, CalmInv
  <2>2. \A c \in Calls \ {s} : ~ Pending(c) /\ ~ Pending(c)'
    BY <1>1, <1>2, <2>1 DEF AloneInv, Starting, Pending
  <2>3. AloneInv'
    BY <1>1, <1>3, <2>1, <2>2 DEF AloneInv, Starting, Pending
  <2>4. ReleasedInv'
    BY <1>1, <1>2, <1>6, <2>1 DEF ReleasedInv, Closing
  <2>5. DrainsInv'
    <3>1. \A c \in Stops : ~ OthersRest(c)'
      BY <1>0, <1>2, DaemonAssumption DEF OthersRest
    <3> QED BY <3>1 DEF DrainsInv
  <2> QED BY <2>3, <2>4, <2>5 DEF CalmInv
<1> QED BY <1>4, <1>5, <1>7, <1>8, <1>9 DEF ResourcesInv

\* What listen finds: a start that was pending, and the node it made or found.
LEMMA P2pStartedEffect ==
  ASSUME ResourcesInv, NEW s \in Starts, P2pStarted(s)
  PROVE  /\ call[s] \in Starting
         /\ \/ call[s] = "creating" /\ node' = s /\ live' = live \cup {s}
            \/ node # None /\ node' = node /\ live' = live
         /\ live' \subseteq Starts /\ node' \in live' \cup {None}
BY DEF P2pStarted, Starting, ResourcesInv, TypeOK

\* The start that was pending is up or closes what it has begun: what is said of
\* nodes, and what no start beside another call leaves to be said.
LEMMA P2pStartedKeeps ==
  ASSUME Inv, ResourcesInv, NEW s \in Starts, P2pStarted(s),
         NEW to \in {"up", "closing"}, Moves(s, to),
         \A d \in Calls \ {s} : target'[d] = target[d],
         resourcesClosed' = resourcesClosed, dbOpen' = dbOpen
  PROVE  /\ call' \in [Calls -> {"idle"} \cup Starting \cup Closing \cup Ended]
         /\ call'[s] = to
         /\ \A d \in Calls \ {s} : call'[d] = call[d]
         /\ \A x \in Starts : x \in Calls /\ (Past(x) => Past(x)')
         /\ ~ Past(s) /\ Past(s)'
         /\ NodesInv' /\ FlagInv'
         /\ ~ raced =>
              /\ ~ resourcesClosed
              /\ \A d \in Calls \ {s} : ~ Pending(d) /\ call[d] # "done"
              /\ \A x \in live' : x = node'
              /\ AloneInv'
<1>0. TypeOK /\ s \in Calls
  BY DEF ResourcesInv, Calls
<1>1. /\ call[s] \in Starting
      /\ \/ call[s] = "creating" /\ node' = s /\ live' = live \cup {s}
         \/ node # None /\ node' = node /\ live' = live
      /\ live' \subseteq Starts /\ node' \in live' \cup {None}
  BY P2pStartedEffect
<1>2. /\ call' \in [Calls -> {"idle"} \cup Starting \cup Closing \cup Ended]
      /\ call'[s] = to
      /\ \A d \in Calls \ {s} : call'[d] = call[d]
  BY <1>0, MovesEffect DEF Closing, Ended
<1>3. /\ \A x \in Starts : x \in Calls /\ (Past(x) => Past(x)')
      /\ ~ Past(s) /\ Past(s)'
  BY <1>1, <1>2 DEF Past, Calls, Starting
<1>4. NodesInv'
  <2>1. \A x \in live' : Past(x)'
    BY <1>0, <1>1, <1>3 DEF ResourcesInv, NodesInv, TypeOK
  <2>2. ASSUME NEW d \in Calls, call'[d] = "releasing", NEW x, x = target'[d], x # None
        PROVE  x # node' /\ Past(x)'
    <3>1. d # s /\ call[d] = "releasing" /\ x = target[d]
      BY <1>2, <2>2
    <3>2. x \in Starts /\ x # node /\ Past(x)
      BY <1>0, <2>2, <3>1 DEF ResourcesInv, NodesInv, TypeOK
    <3> QED BY <1>1, <1>3, <3>2
  <2> QED BY <2>1, <2>2 DEF NodesInv, Past
<1>5. FlagInv'
  <2>1. \A d \in Calls : call'[d] \in {"releasing", "done"} => call[d] \in {"releasing", "done"}
    BY <1>2
  <2>2. \A d \in Calls : call[d] = "releasing" => call'[d] = "releasing"
    BY <1>1, <1>2 DEF Starting
  <2> QED BY <2>1, <2>2 DEF ResourcesInv, FlagInv
<1>6. ASSUME ~ raced
      PROVE  /\ ~ resourcesClosed
             /\ \A d \in Calls \ {s} : ~ Pending(d) /\ call[d] # "done"
             /\ \A x \in live' : x = node'
             /\ AloneInv'
  <2>1. AloneInv /\ ReleasedInv
    BY <1>6 DEF ResourcesInv, CalmInv
  <2>2. /\ ~ resourcesClosed
        /\ \A d \in Calls \ {s} : ~ Pending(d)
    BY <1>1, <2>1 DEF AloneInv
  <2>3. \A d \in Calls : call[d] \notin {"releasing", "done"}
    BY <2>2 DEF ResourcesInv, FlagInv
  <2>4. \A x \in live : x = node
    BY <2>1, <2>3 DEF ReleasedInv
  <2>5. call[s] = "creating" => live = {}
    BY <1>0, <2>1, <2>4, DaemonAssumption DEF ReleasedInv, TypeOK
  <2>6. AloneInv'
    <3>1. \A x \in Starts : call'[x] \notin Starting
      BY <1>2, <1>3, <2>2 DEF Starting, Pending
    <3> QED BY <3>1 DEF AloneInv
  <2> QED BY <1>1, <2>2, <2>3, <2>4, <2>5, <2>6
<1> QED BY <1>2, <1>3, <1>4, <1>5, <1>6

LEMMA ListeningKeepsResources ==
  ASSUME Inv, ResourcesInv, StreamsOK', Inv', NEW s \in Starts, Listening(s)
  PROVE  ResourcesInv'
<1>0. TypeOK
  BY DEF ResourcesInv
<1>1. /\ P2pStarted(s) /\ Moves(s, "up") /\ runningUrl' = TRUE
      /\ server' = IF server = None THEN s ELSE server
      /\ timers' = [t \in Tasks |-> timers[t] + 1]
      /\ running' = running \cup Tasks
      /\ UNCHANGED <<resourcesClosed, wait, requests, target, dbOpen, raced>>
  BY DEF Listening, RunAll, exchanges
<1>2. /\ call[s] \in Starting
      /\ live' \subseteq Starts /\ node' \in live' \cup {None}
  BY <1>1, P2pStartedEffect
<1>3. /\ call' \in [Calls -> {"idle"} \cup Starting \cup Closing \cup Ended]
      /\ call'[s] = "up"
      /\ \A d \in Calls \ {s} : call'[d] = call[d]
      /\ \A x \in Starts : x \in Calls /\ (Past(x) => Past(x)')
      /\ ~ Past(s) /\ Past(s)'
      /\ NodesInv' /\ FlagInv'
      /\ ~ raced =>
           /\ ~ resourcesClosed
           /\ \A d \in Calls \ {s} : ~ Pending(d) /\ call[d] # "done"
           /\ \A x \in live' : x = node'
           /\ AloneInv'
  BY <1>1, P2pStartedKeeps
<1>4. TimersInv' /\ timers' \in [Tasks -> 0..Cardinality(Starts)]
  BY <1>1, <1>3, TimersKept
<1>5. TypeOK'
  <2>1. runs' \in [Tasks -> Nat] /\ running' = {t \in Tasks : runs'[t] > 0}
    BY DEF Inv, RunsInv
  <2>2. wait' \in [Calls -> SUBSET running'] /\ server' \in Starts \cup {None}
    BY <1>0, <1>1 DEF TypeOK
  <2>3. runningUrl' \in BOOLEAN
    BY <1>1
  <2> QED BY <1>0, <1>1, <1>2, <1>3, <1>4, <2>1, <2>2, <2>3 DEF TypeOK
<1>6. RequestsInv'
  <2> SUFFICES ASSUME NEW x \in Starts, requests[x] > 0, x # server'
               PROVE  \E d \in Calls : call'[d] = "closing" /\ target'[d] = x
    BY <1>1 DEF RequestsInv
  <2>1. PICK d \in Calls : call[d] = "closing" /\ target[d] = x
    BY <1>1, DaemonAssumption DEF ResourcesInv, RequestsInv
  <2> QED BY <1>1, <1>2, <1>3, <2>1 DEF Starting
<1>7. ASSUME ~ raced'
      PROVE  CalmInv'
  <2>1. \A d \in Calls : call'[d] \notin Starting \cup Closing \cup {"done"}
    BY <1>1, <1>3, <1>7 DEF Pending, Starting, Closing
  <2>2. ReleasedInv'
    <3>1. \A x \in Starts : call'[x] # "creating"
      BY <1>3, <2>1 DEF Starting
    <3> QED BY <1>1, <1>3, <1>7, <2>1, <3>1 DEF ReleasedInv, Closing
  <2>3. DrainsInv'
    BY <2>1 DEF DrainsInv, Calls, Closing
  <2> QED BY <1>1, <1>3, <1>7, <2>2, <2>3 DEF CalmInv
<1> QED BY <1>3, <1>4, <1>5, <1>6, <1>7 DEF ResourcesInv

LEMMA SchedulingFailsKeepsResources ==
  ASSUME Inv, ResourcesInv, StreamsOK', Inv', NEW s \in Starts, SchedulingFails(s)
  PROVE  ResourcesInv'
<1>0. TypeOK /\ s \in Calls
  BY DEF ResourcesInv, Calls
<1>1. /\ P2pStarted(s) /\ Moves(s, "closing") /\ runningUrl' = TRUE /\ server' = None
      /\ target' = [target EXCEPT ![s] = IF server = None THEN s ELSE server]
      /\ timers' = NoRuns
      /\ UNCHANGED <<resourcesClosed, wait, requests, dbOpen, raced>>
  BY DEF SchedulingFails, StopMaintenance, exchanges
<1>2. PICK begun \in SUBSET Tasks : running' = running \cup begun
  BY DEF SchedulingFails, RunAll
<1>3. /\ call[s] \in Starting
      /\ live' \subseteq Starts /\ node' \in live' \cup {None}
  BY <1>1, P2pStartedEffect
<1>4. /\ target' \in [Calls -> Starts \cup {None}]
      /\ server # None => target'[s] = server
      /\ \A d \in Calls \ {s} : target'[d] = target[d]
  BY <1>0, <1>1 DEF TypeOK
<1>5. /\ call' \in [Calls -> {"idle"} \cup Starting \cup Closing \cup Ended]
      /\ call'[s] = "closing"
      /\ \A d \in Calls \ {s} : call'[d] = call[d]
      /\ \A x \in Starts : x \in Calls /\ (Past(x) => Past(x)')
      /\ ~ Past(s) /\ Past(s)'
      /\ NodesInv' /\ FlagInv'
      /\ ~ raced =>
           /\ ~ resourcesClosed
           /\ \A d \in Calls \ {s} : ~ Pending(d) /\ call[d] # "done"
           /\ \A x \in live' : x = node'
           /\ AloneInv'
  BY <1>1, <1>4, P2pStartedKeeps
<1>6. TimersInv' /\ timers' \in [Tasks -> 0..Cardinality(Starts)]
  BY <1>1, <1>5, TimersKept
<1>7. TypeOK'
  <2>1. runs' \in [Tasks -> Nat] /\ running' = {t \in Tasks : runs'[t] > 0}
    BY DEF Inv, RunsInv
  <2>2. wait' \in [Calls -> SUBSET running']
    BY <1>0, <1>1, <1>2 DEF TypeOK
  <2>3. runningUrl' \in BOOLEAN
    BY <1>1
  <2> QED BY <1>0, <1>1, <1>3, <1>4, <1>5, <1>6, <2>1, <2>2, <2>3 DEF TypeOK
<1>8. RequestsInv'
  <2> SUFFICES ASSUME NEW x \in Starts, requests[x] > 0
               PROVE  \E d \in Calls : call'[d] = "closing" /\ target'[d] = x
    BY <1>1 DEF RequestsInv
  <2>1. CASE x = server
    BY <1>0, <1>4, <1>5, <2>1, DaemonAssumption
  <2>2. CASE \E d \in Calls : call[d] = "closing" /\ target[d] = x
    BY <1>3, <1>4, <1>5, <2>2 DEF Starting
  <2> QED BY <2>1, <2>2 DEF ResourcesInv, RequestsInv
<1>9. ASSUME ~ raced'
      PROVE  CalmInv'
  <2>1. \A x \in Starts : call'[x] # "creating"
    BY <1>1, <1>5, <1>9 DEF Pending, Starting
  <2>2. ReleasedInv'
    BY <1>1, <1>5, <1>9, <2>1 DEF ReleasedInv
  <2>3. DrainsInv'
    <3>1. \A c \in Stops : ~ OthersRest(c)'
      BY <1>0, <1>5, DaemonAssumption DEF OthersRest
    <3> QED BY <3>1 DEF DrainsInv
  <2> QED BY <1>1, <1>5, <1>9, <2>2, <2>3 DEF CalmInv
<1> QED BY <1>5, <1>6, <1>7, <1>8, <1>9 DEF ResourcesInv

LEMMA StopKeepsResources ==
  ASSUME Inv, ResourcesInv, StreamsOK', NEW c \in Calls, Stop(c)
  PROVE  ResourcesInv'
<1>0. TypeOK
  BY DEF ResourcesInv
<1>1. /\ c \in Stops /\ call[c] = "idle" /\ timers' = NoRuns
      /\ wait' = [wait EXCEPT ![c] = running]
      /\ Moves(c, "draining") /\ Races(FALSE)
      /\ UNCHANGED <<runningUrl, resourcesClosed, running, runs, server, requests, target, node,
                     live, dbOpen>>
  BY DEF Stop, StopMaintenance, http, exchanges
<1>2. /\ call' \in [Calls -> {"idle"} \cup Starting \cup Closing \cup Ended]
      /\ call'[c] = "draining"
      /\ \A d \in Calls \ {c} : call'[d] = call[d]
  BY <1>0, <1>1, MovesEffect DEF Closing
<1>3. /\ raced' \in BOOLEAN
      /\ ~ raced' => ~ raced /\ \A s \in Starts : call[s] \notin Starting
  BY <1>1, RacesEffect
<1>4. \A x \in Starts : x \in Calls /\ x # c /\ (Past(x) => Past(x)')
  BY <1>1, <1>2, DaemonAssumption DEF Past, Calls
<1>5. TimersInv' /\ timers' \in [Tasks -> 0..Cardinality(Starts)]
  BY <1>1, <1>4, TimersKept
<1>6. TypeOK'
  <2>1. wait' \in [Calls -> SUBSET running']
    BY <1>0, <1>1 DEF TypeOK
  <2> QED BY <1>0, <1>1, <1>2, <1>3, <1>5, <2>1 DEF TypeOK
<1>7. \A d \in Calls : /\ call'[d] \in {"closing", "releasing", "done"} => call'[d] = call[d]
                       /\ call[d] \in {"closing", "releasing", "done"} => call'[d] = call[d]
  BY <1>1, <1>2
<1>8. NodesInv'
  <2>1. \A x \in live' : Past(x)'
    BY <1>0, <1>1, <1>4 DEF ResourcesInv, NodesInv, TypeOK
  <2>2. ASSUME NEW d \in Calls, call'[d] = "releasing", NEW x, x = target'[d], x # None
        PROVE  x # node' /\ Past(x)'
    BY <1>0, <1>1, <1>4, <1>7, <2>2 DEF ResourcesInv, NodesInv, TypeOK
  <2> QED BY <2>1, <2>2 DEF NodesInv, Past
<1>9. RequestsInv' /\ FlagInv'
  BY <1>1, <1>7 DEF ResourcesInv, RequestsInv, FlagInv
<1>10. ASSUME ~ raced'
       PROVE  CalmInv'
  <2>1. AloneInv /\ ReleasedInv /\ DrainsInv
    BY <1>3, <1>10 DEF ResourcesInv, CalmInv
  <2>2. \A s \in Starts : call'[s] \notin Starting
    BY <1>2, <1>3, <1>4, <1>10
  <2>3. AloneInv'
    BY <2>2 DEF AloneInv
  <2>4. ReleasedInv'
    BY <1>1, <1>7, <2>1, <2>2 DEF ReleasedInv, Starting
  <2>5. DrainsInv'
    <3> SUFFICES ASSUME NEW d \in Stops, OthersRest(d)'
                 PROVE  /\ call'[d] = "draining" => running \subseteq wait'[d]
                        /\ call'[d] \notin {"closing", "releasing", "done"}
      BY <1>1 DEF DrainsInv
    <3>1. d = c
      BY <1>2 DEF OthersRest
    <3> QED BY <1>0, <1>1, <1>2, <3>1 DEF TypeOK
  <2> QED BY <2>3, <2>4, <2>5 DEF CalmInv
<1> QED BY <1>5, <1>6, <1>8, <1>9, <1>10 DEF ResourcesInv

\* The node is stopped and the database closed by the one call that releases.
LEMMA ReleasedKeepsResources ==
  ASSUME Inv, ResourcesInv, StreamsOK', NEW c \in Calls, Released(c)
  PROVE  ResourcesInv'
<1>0. TypeOK
  BY DEF ResourcesInv
<1>1. /\ call[c] = "releasing" /\ live' = live \ {target[c]} /\ dbOpen' = FALSE
      /\ target' = [target EXCEPT ![c] = None] /\ Moves(c, "done")
      /\ UNCHANGED <<runningUrl, resourcesClosed, timers, running, runs, wait, server, requests,
                     node, raced>>
  BY DEF Released, maintenance, http, exchanges
<1>2. /\ call' \in [Calls -> {"idle"} \cup Starting \cup Closing \cup Ended]
      /\ call'[c] = "done"
      /\ \A d \in Calls \ {c} : call'[d] = call[d] /\ call[d] # "releasing"
  <2>1. \A d \in Calls \ {c} : call[d] # "releasing"
    BY <1>1 DEF Inv, CloseInv, ResourcesClosedOnce
  <2> QED BY <1>0, <1>1, <2>1, MovesEffect DEF Ended
<1>3. /\ target' \in [Calls -> Starts \cup {None}]
      /\ \A d \in Calls \ {c} : target'[d] = target[d]
  BY <1>0, <1>1 DEF TypeOK
<1>4. \A x \in Starts : x \in Calls /\ (Past(x) => Past(x)')
  BY <1>1, <1>2 DEF Past, Calls, Starting
<1>5. TimersInv' /\ timers' \in [Tasks -> 0..Cardinality(Starts)]
  BY <1>1, <1>4, TimersKept
<1>6. TypeOK'
  <2>1. node' \in live' \cup {None} /\ live' \subseteq Starts
    BY <1>0, <1>1, DaemonAssumption DEF ResourcesInv, NodesInv, TypeOK
  <2>2. dbOpen' \in BOOLEAN
    BY <1>1
  <2> QED BY <1>0, <1>1, <1>2, <1>3, <1>5, <2>1, <2>2 DEF TypeOK
<1>7. NodesInv'
  <2>1. \A x \in live' : Past(x)'
    BY <1>0, <1>1, <1>4 DEF ResourcesInv, NodesInv, TypeOK
  <2>2. \A d \in Calls : call'[d] # "releasing"
    BY <1>2
  <2> QED BY <2>1, <2>2 DEF NodesInv
<1>8. RequestsInv'
  BY <1>1, <1>2, <1>3 DEF ResourcesInv, RequestsInv
<1>9. FlagInv'
  BY <1>1, <1>2 DEF ResourcesInv, FlagInv
<1>10. ASSUME ~ raced'
       PROVE  CalmInv'
  <2>1. AloneInv /\ ReleasedInv /\ DrainsInv
    BY <1>1, <1>10 DEF ResourcesInv, CalmInv
  <2>2. \A s \in Starts : call'[s] \in Starting => call[s] \in Starting /\ s # c /\ call'[s] = call[s]
    BY <1>2, <1>4 DEF Starting
  <2>3. AloneInv'
    <3>1. \A d \in Calls : Pending(d)' => Pending(d)
      BY <1>2 DEF Pending, Starting, Closing
    <3> QED BY <1>1, <2>1, <2>2, <3>1 DEF AloneInv
  <2>4. ReleasedInv'
    <3>1. timers' = NoRuns
      BY <1>1, <2>1 DEF ReleasedInv, Closing
    <3>2. \A s \in live' : s = node'
      <4>1. \A s \in live : s = node \/ target[c] = s
        BY <1>2, <2>1 DEF ReleasedInv
      <4> QED BY <1>1, <4>1
    <3> QED BY <1>1, <1>2, <2>1, <2>2, <3>1, <3>2 DEF ReleasedInv, Starting
  <2>5. DrainsInv'
    <3> SUFFICES ASSUME NEW d \in Stops, OthersRest(d)'
                 PROVE  d = c /\ running = {} /\ \A s \in Starts : requests[s] = 0
      BY <1>1, <1>2 DEF DrainsInv
    <3>1. d = c
      BY <1>2 DEF OthersRest
    <3>2. OthersRest(c)
      BY <1>2, <3>1 DEF OthersRest
    <3> QED BY <1>1, <2>1, <3>1, <3>2 DEF DrainsInv
  <2> QED BY <2>3, <2>4, <2>5 DEF CalmInv
<1> QED BY <1>5, <1>6, <1>7, <1>8, <1>9, <1>10 DEF ResourcesInv

-----------------------------------------------------------------------------
(* The catch block of start, and the two ways on of a stop.                *)

LEMMA CatchKeepsResources ==
  ASSUME Inv, ResourcesInv, StreamsOK', NEW s \in Starts, StartFails(s) \/ ListenFails(s)
  PROVE  ResourcesInv'
<1>1. PICK n \in {node, s} :
        /\ Catch(s, n) /\ call[s] \in Starting
        /\ \/ n = node /\ live' = live
           \/ call[s] = "creating" /\ n = s /\ live' = live \cup {s}
  BY DEF StartFails, ListenFails, Starting
<1>2. /\ s \in Calls /\ timers' = NoRuns
      /\ UNCHANGED <<runningUrl, running, runs, wait, requests, dbOpen, raced>>
  BY <1>1 DEF Catch, StopMaintenance, Calls, exchanges
<1>3. call[s] \notin {"draining", "closing"}
  BY <1>1 DEF Starting
<1>4. CASE runningUrl
  <2>1. CloseServer(s) /\ node' = n /\ UNCHANGED resourcesClosed
    BY <1>1, <1>4 DEF Catch
  <2> QED BY <1>1, <1>2, <1>3, <1>4, <2>1, CloseServerKeepsResources
<1>5. CASE ~ runningUrl
  <2>1. BeginClose(s, n) /\ UNCHANGED server
    BY <1>1, <1>5 DEF Catch
  <2>2. runningUrl' \in BOOLEAN
    BY <1>2 DEF ResourcesInv, TypeOK
  <2> QED BY <1>1, <1>2, <1>3, <1>5, <2>1, <2>2, BeginCloseKeepsResources
<1> QED BY <1>4, <1>5

LEMMA DrainedKeepsResources ==
  ASSUME Inv, ResourcesInv, StreamsOK', NEW c \in Calls, Drained(c)
  PROVE  ResourcesInv'
<1>1. /\ call[c] = "draining" /\ wait[c] = {}
      /\ UNCHANGED <<runningUrl, timers, running, runs, wait, requests, live, dbOpen, raced>>
  BY DEF Drained, maintenance, exchanges
<1>2. CASE runningUrl
  <2>1. CloseServer(c) /\ UNCHANGED <<resourcesClosed, node>>
    BY <1>2 DEF Drained
  <2> QED BY <1>1, <1>2, <2>1, CloseServerKeepsResources
<1>3. CASE ~ runningUrl
  <2>1. BeginClose(c, node) /\ UNCHANGED server
    BY <1>3 DEF Drained
  <2>2. runningUrl' \in BOOLEAN
    BY <1>1 DEF ResourcesInv, TypeOK
  <2> QED BY <1>1, <1>3, <2>1, <2>2, BeginCloseKeepsResources
<1> QED BY <1>2, <1>3

LEMMA ServerClosedKeepsResources ==
  ASSUME Inv, ResourcesInv, StreamsOK', NEW c \in Calls, ServerClosed(c)
  PROVE  ResourcesInv'
<1>1. /\ call[c] = "closing" /\ (target[c] # None => requests[target[c]] = 0)
      /\ runningUrl' = FALSE /\ BeginClose(c, node)
      /\ UNCHANGED <<timers, running, runs, wait, server, requests, live, dbOpen, raced>>
  BY DEF ServerClosed, maintenance, http, exchanges
<1>2. runningUrl' \in BOOLEAN
  BY <1>1
<1> QED BY <1>1, <1>2, BeginCloseKeepsResources

LEMMA InitResources ==
  ASSUME Init
  PROVE  ResourcesInv
<1>1. Cardinality(Starts) \in Nat /\ Cardinality(PastStarts) \in Nat
  BY DaemonAssumption, FS_CardinalityType, FS_Subset DEF PastStarts
<1>2. /\ call = [c \in Calls |-> "idle"] /\ timers = [t \in Tasks |-> 0]
      /\ server = None /\ node = None /\ live = {} /\ dbOpen = TRUE /\ resourcesClosed = FALSE
      /\ requests = [s \in Starts |-> 0]
  BY DEF Init, NoRuns
<1>3. TypeOK
  <2>1. /\ call \in [Calls -> {"idle"} \cup Starting \cup Closing \cup Ended]
        /\ timers \in [Tasks -> 0..Cardinality(Starts)]
        /\ requests \in [Starts -> 0..MaxRequests]
    BY <1>1, <1>2, DaemonAssumption
  <2>2. runs \in [Tasks -> Nat] /\ running = {t \in Tasks : runs[t] > 0}
    BY DEF Init, NoRuns
  <2>3. wait \in [Calls -> SUBSET running] /\ target \in [Calls -> Starts \cup {None}]
    BY DEF Init
  <2>4. /\ runningUrl \in BOOLEAN /\ resourcesClosed \in BOOLEAN
        /\ dbOpen \in BOOLEAN /\ raced \in BOOLEAN
    BY Zenon DEF Init
  <2>5. StreamsOK
    BY <1>2, DaemonAssumption DEF Init, StreamsOK
  <2> QED BY <1>2, <2>1, <2>2, <2>3, <2>4, <2>5 DEF TypeOK
<1>4. TimersInv
  BY <1>1, <1>2 DEF TimersInv
<1>5. NodesInv /\ RequestsInv /\ FlagInv
  BY <1>2 DEF NodesInv, RequestsInv, FlagInv
<1>6. AloneInv /\ ReleasedInv /\ DrainsInv
  BY <1>2 DEF AloneInv, ReleasedInv, DrainsInv, Starting, Closing, Calls
<1> QED BY <1>3, <1>4, <1>5, <1>6 DEF ResourcesInv, CalmInv

\* The invariant of the resources holds at first, and every step keeps it.
LEMMA ResourcesInductive ==
  /\ Init => ResourcesInv
  /\ Inv /\ ResourcesInv /\ Inv' /\ [Next]_vars => ResourcesInv'
<1>1. ASSUME Inv, ResourcesInv, Inv', [Next]_vars
      PROVE  ResourcesInv'
  <2> USE <1>1
  <2>0. StreamsOK'
    BY StreamsKept DEF ResourcesInv, TypeOK
  <2>1. ASSUME NEW s \in Starts,
               \/ Start(s) \/ IdentityReady(s) \/ StartFails(s)
               \/ ListenFails(s) \/ Listening(s)
               \/ SchedulingFails(s)
        PROVE  ResourcesInv'
    BY <2>0, <2>1, StartKeepsResources, IdentityReadyKeepsResources, CatchKeepsResources,
       ListeningKeepsResources, SchedulingFailsKeepsResources
  <2>2. ASSUME NEW c \in Calls, Stop(c) \/ Drained(c) \/ ServerClosed(c) \/ Released(c)
        PROVE  ResourcesInv'
    BY <2>0, <2>2, StopKeepsResources, DrainedKeepsResources, ServerClosedKeepsResources,
       ReleasedKeepsResources
  <2>3. ASSUME NEW t \in Tasks, Tick(t) \/ RunEnds(t)
        PROVE  ResourcesInv'
    BY <2>0, <2>3, TickKeepsResources, RunEndsKeepsResources
  <2>4. CASE ExchangeMoves
    BY <2>0, <2>4, RequestKeepsResources
  <2>5. CASE UNCHANGED vars
    BY <2>0, <2>5, StutterKeepsResources
  <2> QED BY <2>1, <2>2, <2>3, <2>4, <2>5 DEF Next, ExchangeMoves
<1> QED BY <1>1, InitResources

\* The invariant of the resources holds in every reachable state.
THEOREM ResourcesCorrect == Spec => []ResourcesInv
BY InvCorrect, InvInductive, ResourcesInductive, PTL DEF Spec

\* The daemon's variables keep their types: no task has more timers than there
\* were starts, and a call waits only for runs that are in progress.
THEOREM TypeCorrect == Spec => []TypeOK
<1>1. ResourcesInv => TypeOK
  BY DEF ResourcesInv
<1> QED BY <1>1, ResourcesCorrect, PTL

\* For any number of calls, tasks and exchanges: a stop closes the resources only
\* when no run is in progress and no connection has an exchange on it, unless a
\* start was pending beside another call, or another stop, or a start that
\* failed, is closing too.  Handlers whose client left are not promised anything.
THEOREM StopDrainsCorrect == Spec => []StopDrains
<1>1. ResourcesInv => StopDrains
  <2> SUFFICES ASSUME ResourcesInv, NEW c \in Stops, call[c] \in {"releasing", "done"}, ~ raced,
                      OthersRest(c)
               PROVE  runs = NoRuns /\ \A s \in Starts : requests[s] = 0
    BY DEF StopDrains, OthersRest
  <2>1. running = {} /\ \A s \in Starts : requests[s] = 0
    BY DEF ResourcesInv, CalmInv, DrainsInv
  <2>2. \A t \in Tasks : runs[t] = 0
    BY <2>1 DEF ResourcesInv, TypeOK
  <2>3. runs = NoRuns
    BY <2>2 DEF ResourcesInv, TypeOK, NoRuns
  <2> QED BY <2>1, <2>3
<1> QED BY <1>1, ResourcesCorrect, PTL

\* A stop or a start that failed, no start racing it, leaves nothing behind.
THEOREM StoppedReleasesAllCorrect == Spec => []StoppedReleasesAll
<1>1. ResourcesInv => StoppedReleasesAll
  <2> SUFFICES ASSUME ResourcesInv, ~ raced, \A c \in Calls : ~ Pending(c),
                      NEW c \in Calls, call[c] = "done"
               PROVE  timers = NoRuns /\ server = None /\ live = {} /\ ~ dbOpen /\ ~ runningUrl
    BY DEF StoppedReleasesAll
  <2>1. ReleasedInv /\ resourcesClosed
    BY DEF ResourcesInv, CalmInv, FlagInv
  <2>2. \A d \in Calls : call[d] # "releasing"
    BY DEF Pending, Closing
  <2>3. timers = NoRuns /\ server = None /\ node = None /\ ~ runningUrl
    BY <2>1 DEF ReleasedInv
  <2>4. live = {}
    BY <2>1, <2>2, <2>3, DaemonAssumption DEF ReleasedInv, ResourcesInv, TypeOK
  <2>5. ~ dbOpen
    BY <2>1, <2>2 DEF ResourcesInv, FlagInv
  <2> QED BY <2>3, <2>4, <2>5
<1> QED BY <1>1, ResourcesCorrect, PTL
=============================================================================
