--------------------------- MODULE DaemonLifecycle ---------------------------
(***************************************************************************)
(* PeerCommsDaemon: start and stop, the maintenance tasks on their timers, *)
(* the loopback HTTP server, the libp2p node and the database that the     *)
(* shipped runtime gives the daemon as resources.                          *)
(*                                                                         *)
(* start and stop give the event loop away at WebCrypto (a first identity),*)
(* createLibp2p, the runs a stop drains, server.close and node.stop.       *)
(* Between two of these a call is one action; NodeLoopbackServer.listen on *)
(* a literal address resolves within the tick and is part of its caller.   *)
(***************************************************************************)
EXTENDS Integers, FiniteSets

CONSTANTS Starts,      \* calls of start(); also name the node and server made
          Stops,       \* calls of stop()
          Tasks,       \* names of the maintenance tasks
          MaxRequests, \* bound: exchanges at a time on one server, and abandoned
          None         \* a null reference

ASSUME DaemonAssumption ==
  /\ Starts \cap Stops = {}
  /\ None \notin Starts
  /\ IsFiniteSet(Starts)
  /\ MaxRequests \in Nat

VARIABLES call,            \* where each call of start and stop is
          runningUrl,      \* this.runningUrl is set
          resourcesClosed, \* this.resourcesClosed
          timers,          \* task -> live interval handles
          running,         \* this.runningMaintenance
          runs,            \* task -> runs in progress (this.maintenanceRuns)
          wait,            \* call -> tasks whose run its allSettled still awaits
          server,          \* NodeLoopbackServer.server: the start that made it
          requests,        \* server -> connections with an HTTP exchange on them
          streams,         \* server -> those of them that are event streams
          abandoned,       \* handlers in progress whose client has left
          target,          \* call -> the server whose close it awaits
          node,            \* Libp2pPeerNodeRuntime.node: the start that made it
          live,            \* the libp2p nodes that run
          dbOpen,          \* the SQLite handle is open
          raced            \* history: a start was pending beside another call

maintenance == <<timers, running, runs>>
exchanges   == <<requests, streams, abandoned>>
http        == <<server, exchanges>>
vars == <<call, runningUrl, resourcesClosed, maintenance, wait, http, target,
          node, live, dbOpen, raced>>

-----------------------------------------------------------------------------
Calls    == Starts \cup Stops
Starting == {"identity", "creating"}
Closing  == {"draining", "closing", "releasing"}
Ended    == {"up", "refused", "done"}
Pending(c) == call[c] \in Starting \cup Closing

NoRuns == [t \in Tasks |-> 0]

StreamsOK ==
  /\ streams \in [Starts -> 0..MaxRequests]
  /\ \A s \in Starts : streams[s] <= requests[s]
  /\ abandoned \in 0..MaxRequests

TypeOK ==
  /\ call \in [Calls -> {"idle"} \cup Starting \cup Closing \cup Ended]
  /\ runningUrl \in BOOLEAN
  /\ resourcesClosed \in BOOLEAN
  /\ timers \in [Tasks -> 0..Cardinality(Starts)]
  /\ running = {t \in Tasks : runs[t] > 0}
  /\ runs \in [Tasks -> Nat]
  /\ wait \in [Calls -> SUBSET running]
  /\ server \in Starts \cup {None}
  /\ requests \in [Starts -> 0..MaxRequests]
  /\ StreamsOK
  /\ target \in [Calls -> Starts \cup {None}]
  /\ live \subseteq Starts
  /\ node \in live \cup {None}
  /\ dbOpen \in BOOLEAN
  /\ raced \in BOOLEAN

Init ==
  /\ call = [c \in Calls |-> "idle"]
  /\ runningUrl = FALSE
  /\ resourcesClosed = FALSE
  /\ timers = NoRuns
  /\ running = {}
  /\ runs = NoRuns
  /\ wait = [c \in Calls |-> {}]
  /\ server = None
  /\ requests = [s \in Starts |-> 0]
  /\ streams = [s \in Starts |-> 0]
  /\ abandoned = 0
  /\ target = [c \in Calls |-> None]
  /\ node = None
  /\ live = {}
  /\ dbOpen = TRUE
  /\ raced = FALSE

-----------------------------------------------------------------------------
(* Parts of the handlers.                                                  *)

Moves(c, to) == call' = [call EXCEPT ![c] = to]

\* Two calls are pending at a time, and one of them is a start.
Races(begins) ==
  raced' = \/ raced
           \/ \E s \in Starts : call[s] \in Starting
           \/ begins /\ \E c \in Calls : Pending(c)

\* stopMaintenance: every interval is cleared; runs in progress go on.
StopMaintenance == timers' = NoRuns

\* runMaintenance for each of the tasks: one that runs already is left alone.
RunAll(tasks) ==
  /\ running' = running \cup tasks
  /\ runs' = [t \in Tasks |-> IF t \in tasks \ running THEN runs[t] + 1
                                                       ELSE runs[t]]

\* Mutant of BeginClose: resourcesClosed is never set.
BeginCloseUnflagged(c, n) ==
  IF resourcesClosed
    THEN Moves(c, "done") /\ node' = n /\ UNCHANGED <<resourcesClosed, target>>
    ELSE /\ Moves(c, "releasing")
         /\ target' = [target EXCEPT ![c] = n]
         /\ node' = None
         /\ UNCHANGED resourcesClosed

\* Mutant of BeginClose: the reference to the stopped node is kept.
BeginCloseKeepingNode(c, n) ==
  IF resourcesClosed
    THEN Moves(c, "done") /\ node' = n /\ UNCHANGED <<resourcesClosed, target>>
    ELSE /\ Moves(c, "releasing")
         /\ resourcesClosed' = TRUE
         /\ target' = [target EXCEPT ![c] = n]
         /\ node' = n

\* closeResources up to its first await, n being the current libp2p node:
\* p2p.stop forgets it before it waits for it.
BeginClose(c, n) ==
  IF resourcesClosed
    THEN Moves(c, "done") /\ node' = n /\ UNCHANGED <<resourcesClosed, target>>
    ELSE /\ Moves(c, "releasing")
         /\ resourcesClosed' = TRUE
         /\ target' = [target EXCEPT ![c] = n]
         /\ node' = None

\* server.close: a server that is already forgotten is not waited for.
CloseServer(c) ==
  /\ Moves(c, "closing")
  /\ server' = None
  /\ target' = [target EXCEPT ![c] = server]

-----------------------------------------------------------------------------
(* start()                                                                 *)

\* Running: the URL again.  Closed: an error, outside the try.  Otherwise
\* the migrations run and the identity task begins.
Start(s) ==
  /\ call[s] = "idle"
  /\ Moves(s, CASE runningUrl      -> "up"
                [] resourcesClosed /\ ~runningUrl -> "refused"
                [] OTHER           -> "identity")
  /\ Races(~runningUrl /\ ~resourcesClosed)
  /\ UNCHANGED <<runningUrl, resourcesClosed, maintenance, wait, http, target,
                 node, live, dbOpen>>

\* The catch block of start: timers, then the server, then the resources.
Catch(s, n) ==
  /\ StopMaintenance
  /\ IF runningUrl
       THEN CloseServer(s) /\ node' = n /\ UNCHANGED resourcesClosed
       ELSE BeginClose(s, n) /\ UNCHANGED server
  /\ UNCHANGED <<runningUrl, running, runs, wait, exchanges, dbOpen, raced>>

\* A startup task throws: no identity, a closed database, no libp2p node.
StartFails(s) ==
  /\ call[s] \in Starting
  /\ Catch(s, node)
  /\ UNCHANGED live

\* The port is taken: the new libp2p node is there already.
ListenFails(s) ==
  /\ call[s] = "creating"
  /\ server = None
  /\ live' = live \cup {s}
  /\ Catch(s, s)

\* The identity is in the database and libp2p is not running yet.
IdentityReady(s) ==
  /\ call[s] = "identity"
  /\ dbOpen
  /\ node = None
  /\ Moves(s, "creating")
  /\ UNCHANGED <<runningUrl, resourcesClosed, maintenance, wait, http, target,
                 node, live, dbOpen, raced>>

\* p2p.start is past: createLibp2p came back, or a node was there already.
P2pStarted(s) ==
  \/ call[s] = "creating" /\ node' = s /\ live' = live \cup {s}
  \/ /\ call[s] = "identity" /\ dbOpen /\ node # None
     /\ UNCHANGED <<node, live>>

\* listen, runningUrl and startMaintenance.
Listening(s) ==
  /\ P2pStarted(s)
  /\ server' = IF server = None THEN s ELSE server
  /\ runningUrl' = TRUE
  /\ RunAll(Tasks)
  /\ timers' = [t \in Tasks |-> timers[t] + 1]
  /\ Moves(s, "up")
  /\ UNCHANGED <<resourcesClosed, wait, exchanges, target, dbOpen, raced>>

\* setInterval throws once the tasks in begun have been run: the catch block
\* finds a running server.
SchedulingFails(s) ==
  /\ P2pStarted(s)
  /\ \E begun \in SUBSET Tasks \ {{}} : RunAll(begun)
  /\ StopMaintenance
  /\ runningUrl' = TRUE
  /\ Moves(s, "closing")
  /\ server' = None
  /\ target' = [target EXCEPT ![s] = IF server = None THEN s ELSE server]
  /\ UNCHANGED <<resourcesClosed, wait, exchanges, dbOpen, raced>>

-----------------------------------------------------------------------------
(* stop(), and what start and stop share once they close.                  *)

\* Mutant of Stop: the intervals are not cleared.
StopTimersOn(c) ==
  /\ c \in Stops
  /\ call[c] = "idle"
  /\ wait' = [wait EXCEPT ![c] = running]
  /\ Moves(c, "draining")
  /\ Races(FALSE)
  /\ UNCHANGED <<runningUrl, resourcesClosed, maintenance, http, target, node,
                 live, dbOpen>>

Stop(c) ==
  /\ c \in Stops
  /\ call[c] = "idle"
  /\ StopMaintenance
  /\ wait' = [wait EXCEPT ![c] = running]
  /\ Moves(c, "draining")
  /\ Races(FALSE)
  /\ UNCHANGED <<runningUrl, resourcesClosed, running, runs, http, target, node,
                 live, dbOpen>>

\* Mutant of Drained: the runs in progress are not awaited.
DrainedAtOnce(c) ==
  /\ call[c] = "draining"
  /\ IF runningUrl
       THEN CloseServer(c) /\ UNCHANGED <<resourcesClosed, node>>
       ELSE BeginClose(c, node) /\ UNCHANGED server
  /\ wait' = [wait EXCEPT ![c] = {}]
  /\ UNCHANGED <<runningUrl, maintenance, exchanges, live, dbOpen, raced>>

\* allSettled: every run that was in progress at the call has ended.
Drained(c) ==
  /\ call[c] = "draining"
  /\ wait[c] = {}
  /\ IF runningUrl
       THEN CloseServer(c) /\ UNCHANGED <<resourcesClosed, node>>
       ELSE BeginClose(c, node) /\ UNCHANGED server
  /\ UNCHANGED <<runningUrl, maintenance, wait, exchanges, live, dbOpen, raced>>

\* No connection is left to the closed server, whose handlers nobody counts;
\* runningUrl = null.
ServerClosed(c) ==
  /\ call[c] = "closing"
  /\ target[c] # None => requests[target[c]] = 0
  /\ runningUrl' = FALSE
  /\ BeginClose(c, node)
  /\ UNCHANGED <<maintenance, wait, http, live, dbOpen, raced>>

\* node.stop has come back; the persistence closes the database.
Released(c) ==
  /\ call[c] = "releasing"
  /\ live' = live \ {target[c]}
  /\ dbOpen' = FALSE
  /\ target' = [target EXCEPT ![c] = None]
  /\ Moves(c, "done")
  /\ UNCHANGED <<runningUrl, resourcesClosed, maintenance, wait, http, node,
                 raced>>

-----------------------------------------------------------------------------
(* Timers, maintenance runs and HTTP exchanges.                            *)

\* Mutant of Tick: no guard against a second run of the task.
TickUnguarded(t) ==
  /\ timers[t] > 0
  /\ running' = running \cup {t}
  /\ runs' = [runs EXCEPT ![t] = @ + 1]
  /\ UNCHANGED <<call, runningUrl, resourcesClosed, timers, wait, http, target,
                 node, live, dbOpen, raced>>

Tick(t) ==
  /\ timers[t] > 0
  /\ RunAll({t})
  /\ UNCHANGED <<call, runningUrl, resourcesClosed, timers, wait, http, target,
                 node, live, dbOpen, raced>>

\* Mutant of RunEnds: the run is settled, but the maps still name it.
RunEndsUnrecorded(t) ==
  /\ runs[t] > 0
  /\ UNCHANGED vars

\* finally: the run's name and promise are deleted, whatever its outcome.
RunEnds(t) ==
  /\ runs[t] > 0
  /\ runs' = [runs EXCEPT ![t] = @ - 1]
  /\ running' = running \ {t}
  /\ wait' = [c \in Calls |-> wait[c] \ {t}]
  /\ UNCHANGED <<call, runningUrl, resourcesClosed, timers, http, target, node,
                 live, dbOpen, raced>>

\* An ordinary request, or one that opens an event stream.
RequestArrives ==
  /\ server # None
  /\ requests[server] < MaxRequests
  /\ requests' = [requests EXCEPT ![server] = @ + 1]
  /\ \/ streams' = streams
     \/ streams' = [streams EXCEPT ![server] = @ + 1]
  /\ UNCHANGED <<call, runningUrl, resourcesClosed, maintenance, wait, server,
                 abandoned, target, node, live, dbOpen, raced>>

\* The handler's response is written.
RequestEnds(s) ==
  /\ requests[s] > streams[s]
  /\ requests' = [requests EXCEPT ![s] = @ - 1]
  /\ UNCHANGED <<call, runningUrl, resourcesClosed, maintenance, wait, server,
                 streams, abandoned, target, node, live, dbOpen, raced>>

\* The client breaks the connection off: the handler, which awaits a webhook or
\* the crypto, is not told.
ClientLeaves(s) ==
  /\ requests[s] > streams[s]
  /\ abandoned < MaxRequests
  /\ requests' = [requests EXCEPT ![s] = @ - 1]
  /\ abandoned' = abandoned + 1
  /\ UNCHANGED <<call, runningUrl, resourcesClosed, maintenance, wait, server,
                 streams, target, node, live, dbOpen, raced>>

\* A handler whose client has left comes to its end, or to a closed database.
HandlerEnds ==
  /\ abandoned > 0
  /\ abandoned' = abandoned - 1
  /\ UNCHANGED <<call, runningUrl, resourcesClosed, maintenance, wait, server,
                 requests, streams, target, node, live, dbOpen, raced>>

\* Only its client ends an event stream.
StreamLeaves(s) ==
  /\ streams[s] > 0
  /\ requests' = [requests EXCEPT ![s] = @ - 1]
  /\ streams' = [streams EXCEPT ![s] = @ - 1]
  /\ UNCHANGED <<call, runningUrl, resourcesClosed, maintenance, wait, server,
                 abandoned, target, node, live, dbOpen, raced>>

-----------------------------------------------------------------------------
Next ==
  \/ \E s \in Starts : \/ Start(s) \/ IdentityReady(s) \/ StartFails(s)
                       \/ ListenFails(s) \/ Listening(s)
                       \/ SchedulingFails(s)
                       \/ RequestEnds(s) \/ ClientLeaves(s) \/ StreamLeaves(s)
  \/ \E c \in Calls : Stop(c) \/ Drained(c) \/ ServerClosed(c) \/ Released(c)
  \/ \E t \in Tasks : Tick(t) \/ RunEnds(t)
  \/ RequestArrives
  \/ HandlerEnds

Spec == Init /\ [][Next]_vars

\* Every await of a call settles; a maintenance run ends (its dials time out); an
\* ordinary request is answered.  Nothing makes a client leave its event stream.
Fairness ==
  /\ \A s \in Starts : WF_vars(IdentityReady(s) \/ StartFails(s) \/ Listening(s))
  /\ \A c \in Calls : WF_vars(Drained(c) \/ ServerClosed(c) \/ Released(c))
  /\ \A t \in Tasks : WF_vars(RunEnds(t))
  /\ \A s \in Starts : WF_vars(RequestEnds(s))

FairSpec == Spec /\ Fairness

-----------------------------------------------------------------------------
(* A maintenance task never runs twice at a time, not even when two starts *)
(* have left two timers for it (runMaintenance, runningMaintenance).       *)
MaintenanceNeverOverlaps == \A t \in Tasks : runs[t] <= 1

(* However many stops and failing starts meet, one of them closes the      *)
(* resources, once, and the database handle is closed by nobody else       *)
(* (closeResources; closing a closed node:sqlite handle throws).           *)
ResourcesClosedOnce ==
  /\ \A c, d \in Calls :
       call[c] = "releasing" /\ call[d] = "releasing" => c = d
  /\ (\E c \in Calls : call[c] = "releasing") => dbOpen

(* One stop, beside no other stop and no start that failed, and with no    *)
(* start ever pending beside another call, closes the resources only when  *)
(* no maintenance run, no event stream and no request whose client waits   *)
(* can still use them (stop drains maintenanceRuns, then server.close      *)
(* waits for its connections).  The handlers of clients that left are in   *)
(* no list, and may find the database closed.                              *)
StopDrains ==
  \A c \in Stops :
    /\ call[c] \in {"releasing", "done"}
    /\ ~raced
    /\ \A d \in Calls \ {c} : call[d] \in {"idle", "up", "refused"}
    => runs = NoRuns /\ \A s \in Starts : requests[s] = 0

(* When no start was pending beside another call and all calls have ended, *)
(* one stop or failed start leaves nothing behind: no timer, no server, no *)
(* libp2p node, no open database, no URL (stop; the catch block of start). *)
StoppedReleasesAll ==
  /\ ~raced
  /\ \A c \in Calls : ~Pending(c)
  /\ \E c \in Calls : call[c] = "done"
  => /\ timers = NoRuns
     /\ server = None
     /\ live = {}
     /\ ~dbOpen
     /\ ~runningUrl

(* Every start and every stop ends, whatever else is called meanwhile, if  *)
(* the clients of event streams leave them: server.close waits as long as  *)
(* one does not.                                                           *)
CallsEnd ==
  (\A s \in Starts : []<>(streams[s] = 0)) =>
    \A c \in Calls : Pending(c) ~> ~Pending(c)
=============================================================================
