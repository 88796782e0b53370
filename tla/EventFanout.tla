----------------------------- MODULE EventFanout -----------------------------
(***************************************************************************)
(* What happens to a domain event once a use case, a libp2p stream handler *)
(* or a libp2p connection event publishes it: SseDomainEventBus sends it   *)
(* to the event streams and to the webhooks subscribed to it, stores the   *)
(* notification it gives rise to, and announces that one the same way.     *)
(*                                                                         *)
(* Publications run side by side.  Each gives the event loop away only     *)
(* while its webhook requests are pending, up to two seconds a round, and  *)
(* meanwhile the daemon may stop, crash, or take the next event of the     *)
(* same peer.  The handler of an HTTP request awaits its publication, and  *)
(* goes on with it when its client has left; the server is closed once no  *)
(* connection is open, handlers or not.  A stream handler awaits it too,   *)
(* but nobody awaits the handler; a connection event does not await it,    *)
(* and a rejection there ends the process.                                 *)
(*                                                                         *)
(* Every event has an id of its own.  The id of a connection event is made *)
(* of its type, peer and millisecond: a peer that connects, leaves and     *)
(* connects within one millisecond is left out.                            *)
(***************************************************************************)
EXTENDS Integers, FiniteSets

CONSTANTS Events,    \* publications
          Name,      \* publication -> the domain event's name
          Peer,      \* publication -> the transport peer a connection event names
          Hooks,     \* the webhook subscriptions there are
          Wants,     \* subscription -> names of the events whose type it lists
          Sent,      \* publication -> the time that a received message bears
          Readable,  \* bound: events whose notifications somebody reads
          PageLimit, \* the most notifications that a list holds
          None       \* no peer

RequestNames == {"ContactRequestApproved", "DirectMessageQueued"}
StreamNames  == {"DirectMessageReceived"}
PeerNames    == {"PeerDiscovered", "PeerConnected", "PeerDisconnected"}
Peers        == {Peer[e] : e \in Events} \ {None}

ASSUME FanoutAssumption ==
  /\ IsFiniteSet(Events)
  /\ Name \in [Events -> RequestNames \cup StreamNames \cup PeerNames]
  /\ \A e \in Events : Peer[e] # None <=> Name[e] \in PeerNames
  /\ Sent \in [Events -> Nat]
  /\ Readable \subseteq Events
  /\ PageLimit \in Nat \ {0}

VARIABLES phase,   \* of the daemon: up, its stop in three parts, no process
          stage,   \* where each publication is
          waiting, \* publication -> webhook requests it still awaits
          row,     \* notifications: publication -> no row, read_at or not
          created, \* notifications: created_at
          peerRow, \* network_peers: reachability
          linked,  \* the peer is connected
          client,  \* a client that opens the event stream, then lists
          known,   \* notifications the client was sent or has listed
          left,    \* history: requests whose clients left before the answer
          now,     \* the clock, as events with a notification advance it
          at,      \* occurredAt of these events
          cut      \* history: peers whose connection events were cut short

tables  == <<row, created, peerRow>>
clients == <<client, known, left>>
vars == <<phase, stage, waiting, tables, linked, clients, now, at, cut>>

-----------------------------------------------------------------------------
Serving == phase \in {"up", "draining"}
DbOpen  == phase \in {"up", "draining", "leaving"}

InProgress(e) == stage[e] \in {"posting", "spreading"}
FromPeer(e)   == Name[e] \in PeerNames

\* notificationProjection: events that give rise to a notification.
Notifying(e) == Name[e] \notin {"DirectMessageQueued", "PeerDiscovered"}

\* publishWebhooks: a name without an integration event type goes to nobody.
Targets(name) == {h \in Hooks : name \in Wants[h] \ {"PeerDiscovered"}}

\* Links are made and ended by these.
Linking(e) == Name[e] \in {"PeerConnected", "PeerDisconnected"}

Rows == {e \in Events : row[e] # "none"}

TypeOK ==
  /\ phase \in {"up", "draining", "leaving", "closed", "down"}
  /\ stage \in [Events -> {"none", "posting", "spreading", "done", "failed", "lost"}]
  /\ waiting \in [Events -> SUBSET Hooks]
  /\ row \in [Events -> {"none", "unread", "read"}]
  /\ peerRow \in [Peers -> {"none", "peer_reachable", "peer_unreachable"}]
  /\ linked \in [Peers -> BOOLEAN]
  /\ client \in {"off", "open", "synced"}
  /\ known \subseteq Events
  /\ left \subseteq Events
  /\ now \in Nat
  /\ at \in [Events -> Nat]
  /\ created \in [Events -> Nat]
  /\ cut \subseteq Peers
  /\ \A e \in Events : /\ waiting[e] # {} => InProgress(e)
                       /\ Linking(e) => at[e] <= now

Init ==
  /\ phase = "up"
  /\ stage = [e \in Events |-> "none"]
  /\ waiting = [e \in Events |-> {}]
  /\ row = [e \in Events |-> "none"]
  /\ created = [e \in Events |-> 0]
  /\ peerRow = [p \in Peers |-> "none"]
  /\ linked = [p \in Peers |-> FALSE]
  /\ client = "off"
  /\ known = {}
  /\ left = {}
  /\ now = 0
  /\ at = [e \in Events |-> 0]
  /\ cut = {}

-----------------------------------------------------------------------------
(* Parts of a publication.                                                 *)

\* The process is gone: publications, connections and streams with it.
ProcessEnds ==
  /\ phase' = "down"
  /\ stage' = [e \in Events |-> IF InProgress(e) THEN "lost" ELSE stage[e]]
  /\ waiting' = [e \in Events |-> {}]
  /\ linked' = [p \in Peers |-> FALSE]
  /\ client' = "off"
  /\ known' = {}
  /\ cut' = cut \cup {p \in Peers : linked[p]}
                \cup {Peer[e] : e \in {f \in Events : FromPeer(f) /\ InProgress(f)}}
  /\ UNCHANGED <<tables, left, now, at>>

\* occurredAt of the event that is published now: now, but a received message
\* bears the time of its sender, which may lie back, or ahead.
Occurred(e) == IF Name[e] \in StreamNames THEN Sent[e] ELSE now + 1

\* publish begins: the frame, then the webhooks of the event itself.
Announce(e) ==
  /\ IF Notifying(e)
       THEN now' = now + 1 /\ at' = [at EXCEPT ![e] = Occurred(e)]
       ELSE UNCHANGED <<now, at>>
  /\ stage' = [stage EXCEPT ![e] = "posting"]
  /\ waiting' = [waiting EXCEPT ![e] = Targets(Name[e])]

\* SqliteNotificationRepository.save: an upsert of all but created_at.
Save(e, status) == row' = [row EXCEPT ![e] = status]

\* Mutant of Record: the notification carries the time at which it is saved.
RecordAtSaveTime(e) ==
  /\ Save(e, "unread")
  /\ created' = [created EXCEPT ![e] = now]
  /\ known' = IF client = "off" THEN known ELSE known \cup {e}
  /\ stage' = [stage EXCEPT ![e] = "spreading"]
  /\ waiting' = [waiting EXCEPT ![e] = Targets("NotificationCreated")]

\* Mutant of Record: the row is saved, and only the webhooks are told of it.
RecordUnannounced(e) ==
  /\ Save(e, "unread")
  /\ created' = [created EXCEPT ![e] = at[e]]
  /\ known' = known
  /\ stage' = [stage EXCEPT ![e] = "spreading"]
  /\ waiting' = [waiting EXCEPT ![e] = Targets("NotificationCreated")]

\* The notification is saved, announced to the streams, then to the webhooks.
Record(e) ==
  /\ Save(e, "unread")
  /\ created' = [created EXCEPT ![e] = at[e]]
  /\ known' = IF client = "off" THEN known ELSE known \cup {e}
  /\ stage' = [stage EXCEPT ![e] = "spreading"]
  /\ waiting' = [waiting EXCEPT ![e] = Targets("NotificationCreated")]

-----------------------------------------------------------------------------
(* Sources of events.                                                      *)

\* A use case of an HTTP request publishes its event and awaits it.  When the
\* server is closed, the use case runs for a client that has left.
RequestPublishes(e) ==
  /\ Name[e] \in RequestNames
  /\ stage[e] = "none"
  /\ DbOpen
  /\ left' = IF Serving THEN left ELSE left \cup {e}
  /\ Announce(e)
  /\ UNCHANGED <<phase, tables, linked, client, known, cut>>

\* ReceiveDirectMessageUseCase in a libp2p stream handler.
StreamPublishes(e) ==
  /\ Name[e] \in StreamNames
  /\ stage[e] = "none"
  /\ DbOpen
  /\ Announce(e)
  /\ UNCHANGED <<phase, tables, linked, clients, cut>>

\* libp2p reports that it found, reached or lost a peer; once the node stops,
\* it only loses peers.
RuntimeEvent(e) ==
  /\ phase # "down" /\ (Name[e] = "PeerDisconnected" \/ Serving)
  /\ Linking(e) => linked[Peer[e]] = (Name[e] = "PeerDisconnected")

\* SqliteNetworkPeerProjection.upsert
Upsert(p, reachability) == peerRow' = [peerRow EXCEPT ![p] = reachability]

\* projectLibp2pEvent: the network_peers row, then the publication.  On a
\* closed database it rejects, and nobody handles the rejection.
PeerPublishes(e) ==
  /\ FromPeer(e)
  /\ stage[e] = "none"
  /\ RuntimeEvent(e)
  /\ IF DbOpen
       THEN /\ Upsert(Peer[e], IF Name[e] = "PeerDisconnected"
                                  THEN "peer_unreachable" ELSE "peer_reachable")
            /\ Announce(e)
            /\ linked' = IF Linking(e) THEN [linked EXCEPT ![Peer[e]] = ~@] ELSE linked
            /\ UNCHANGED <<phase, row, created, clients, cut>>
       ELSE ProcessEnds

-----------------------------------------------------------------------------
(* The publication goes on.                                                *)

\* Mutant of FetchEnds: no timer aborts a request that is not answered.
FetchEndsUntimed(e, h) ==
  /\ h \in waiting[e]
  /\ h # CHOOSE silent \in Hooks : TRUE
  /\ waiting' = [waiting EXCEPT ![e] = @ \ {h}]
  /\ UNCHANGED <<phase, stage, tables, linked, clients, now, at, cut>>

\* A webhook request ends: answered, refused, or aborted after two seconds.
FetchEnds(e, h) ==
  /\ h \in waiting[e]
  /\ waiting' = [waiting EXCEPT ![e] = @ \ {h}]
  /\ UNCHANGED <<phase, stage, tables, linked, clients, now, at, cut>>

\* The event's own round is settled: no notification, or it is recorded, or
\* the database is closed and save throws.
EventPosted(e) ==
  /\ stage[e] = "posting"
  /\ waiting[e] = {}
  /\ \/ /\ ~Notifying(e)
        /\ stage' = [stage EXCEPT ![e] = "done"]
        /\ UNCHANGED <<phase, waiting, tables, linked, clients, now, at, cut>>
     \/ /\ Notifying(e) /\ DbOpen
        /\ Record(e)
        /\ UNCHANGED <<phase, peerRow, linked, client, left, now, at, cut>>
     \/ /\ Notifying(e) /\ ~DbOpen
        /\ IF FromPeer(e)
             THEN ProcessEnds
             ELSE /\ stage' = [stage EXCEPT ![e] = "failed"]
                  /\ UNCHANGED <<phase, waiting, tables, linked, clients, now, at, cut>>

\* Mutant of NotificationPosted: the notification is saved once more, as the
\* publication still holds it.
NotificationPostedSaved(e) ==
  /\ stage[e] = "spreading"
  /\ waiting[e] = {}
  /\ stage' = [stage EXCEPT ![e] = "done"]
  /\ Save(e, "unread")
  /\ UNCHANGED <<phase, waiting, created, peerRow, linked, clients, now, at, cut>>

\* The notification's round is settled: publish returns.
NotificationPosted(e) ==
  /\ stage[e] = "spreading"
  /\ waiting[e] = {}
  /\ stage' = [stage EXCEPT ![e] = "done"]
  /\ UNCHANGED <<phase, waiting, tables, linked, clients, now, at, cut>>

-----------------------------------------------------------------------------
(* The local API: the event stream and the notification list.              *)

OpenStream ==
  /\ Serving
  /\ client = "off"
  /\ client' = "open"
  /\ UNCHANGED <<phase, stage, waiting, tables, linked, known, left, now, at, cut>>

\* ListNotificationsUseCase, by the client whose stream is open: the newest rows,
\* at most PageLimit.
ListNotifications ==
  /\ Serving
  /\ client = "open"
  /\ client' = "synced"
  /\ \E page \in SUBSET Rows :
       /\ \/ page = Rows /\ Cardinality(page) < PageLimit
          \/ Cardinality(page) = PageLimit
       /\ \A e \in page, f \in Rows \ page : created[f] <= created[e]
       /\ known' = known \cup page
  /\ UNCHANGED <<phase, stage, waiting, tables, linked, left, now, at, cut>>

\* The client of a request closes its connection before it has the answer; the
\* use case goes on.  That matters to server.close only: who left before the stop
\* may as well leave now.
ClientLeaves(e) ==
  /\ phase = "draining"
  /\ InProgress(e) /\ Name[e] \in RequestNames
  /\ e \notin left
  /\ left' = left \cup {e}
  /\ UNCHANGED <<phase, stage, waiting, tables, linked, client, known, now, at, cut>>

CloseStream ==
  /\ client # "off"
  /\ client' = "off"
  /\ known' = {}
  /\ UNCHANGED <<phase, stage, waiting, tables, linked, left, now, at, cut>>

\* MarkNotificationAsReadUseCase: read, changed and saved in one go.
MarkNotificationAsRead(e) ==
  /\ Serving
  /\ e \in Readable
  /\ row[e] = "unread"
  /\ Save(e, "read")
  /\ UNCHANGED <<phase, stage, waiting, created, peerRow, linked, clients, now, at, cut>>

-----------------------------------------------------------------------------
(* The daemon stops, crashes, starts again.                                *)

Stop ==
  /\ phase = "up"
  /\ phase' = "draining"
  /\ UNCHANGED <<stage, waiting, tables, linked, clients, now, at, cut>>

\* Mutant of ServerClosed: the requests that have not been answered are not awaited.
ServerClosedAtOnce ==
  /\ phase = "draining"
  /\ client = "off"
  /\ phase' = "leaving"
  /\ UNCHANGED <<stage, waiting, tables, linked, clients, now, at, cut>>

\* server.close: no connection is open any more, the event stream's included.
ServerClosed ==
  /\ phase = "draining"
  /\ client = "off"
  /\ \A e \in Events \ left : InProgress(e) => Name[e] \notin RequestNames
  /\ phase' = "leaving"
  /\ UNCHANGED <<stage, waiting, tables, linked, clients, now, at, cut>>

\* node.stop has come back; the persistence closes the database.
DatabaseClosed ==
  /\ phase = "leaving"
  /\ phase' = "closed"
  /\ UNCHANGED <<stage, waiting, tables, linked, clients, now, at, cut>>

\* A crash, or the end of a process that has stopped.
Crash == phase # "down" /\ ProcessEnds

Restart ==
  /\ phase = "down"
  /\ phase' = "up"
  /\ UNCHANGED <<stage, waiting, tables, linked, clients, now, at, cut>>

-----------------------------------------------------------------------------
\* The next step of some publication: a settled await, a request that ends.
Continues ==
  \E e \in Events : \/ EventPosted(e) \/ NotificationPosted(e)
                    \/ \E h \in Hooks : FetchEnds(e, h)

Next ==
  \/ \E e \in Events : \/ RequestPublishes(e) \/ StreamPublishes(e)
                       \/ PeerPublishes(e) \/ MarkNotificationAsRead(e)
                       \/ ClientLeaves(e)
  \/ Continues
  \/ OpenStream \/ ListNotifications \/ CloseStream
  \/ Stop \/ ServerClosed \/ DatabaseClosed \/ Crash \/ Restart

Spec == Init /\ [][Next]_vars

\* A webhook request ends within two seconds; a settled await goes on.  With
\* finitely many publications no one of them can keep another waiting.
Fairness == WF_vars(Continues)

FairSpec == Spec /\ Fairness

-----------------------------------------------------------------------------
(* A client that opened the event stream and listed the notifications      *)
(* afterwards holds stored notifications only, and lacks one of them only  *)
(* if it holds a full page of others that are not older, whatever was      *)
(* being published meanwhile (the row is saved before the frame is sent,   *)
(* so each notification is in the list or follows on the stream; the list  *)
(* is cut at its limit by created_at, which need not be the order in which *)
(* rows come).                                                             *)
ClientIsCurrent ==
  client = "synced" =>
    /\ known \subseteq Rows
    /\ \A e \in Rows \ known :
         \E page \in SUBSET known :
           Cardinality(page) = PageLimit /\ \A f \in page : created[e] <= created[f]

(* A notification somebody has read never becomes unread again, although   *)
(* save overwrites read_at and publications overlap with the reading.      *)
ReadStaysRead ==
  [][\A e \in Events : row[e] = "read" => row'[e] = "read"]_vars

(* The publication of an HTTP request fails neither for a webhook nor a    *)
(* stop while its client waits for the answer: webhooks are settled, not   *)
(* awaited for success, and server.close keeps the database open while the *)
(* connection is.  When the client has left, the database may be closed    *)
(* under the handler, and the save of the notification fails.              *)
RequestsNeverFail ==
  \A e \in Events \ left : Name[e] \in RequestNames => stage[e] # "failed"

(* Once the connection events of a peer are published, the newest of its   *)
(* notifications says whether it is connected, in whatever order the       *)
(* webhooks let the publications finish; network_peers never calls a       *)
(* connected peer unreachable.  Excepted are peers whose events a crash or *)
(* a closed database cut short.                                            *)
NewestTellsConnection ==
  \A p \in Peers \ cut :
    LET events == {e \in Events : Peer[e] = p /\ Linking(e) /\ stage[e] # "none"}
    IN /\ linked[p] => peerRow[p] = "peer_reachable"
       /\ \A e \in events :
            /\ \A f \in events : ~InProgress(f) /\ created[f] <= created[e]
            => (linked[p] <=> Name[e] = "PeerConnected")

(* Every publication that began ends, whatever its webhooks do, or its     *)
(* process does: as each begins once, the daemon is in the end at rest.    *)
PublicationsEnd == []<>(\A e \in Events : ~InProgress(e))
=============================================================================
