----------------------------- MODULE FanoutProofs -----------------------------
(***************************************************************************)
(* Whatever publications overlap, and whenever the daemon stops or         *)
(* crashes, the notifications, the event stream and the peer table agree.  *)
(***************************************************************************)
EXTENDS EventFanout, TLAPS

-----------------------------------------------------------------------------
(* The inductive invariant: the types, and four parts that rest on them    *)
(* and not on each other.                                                  *)

\* The notification of an event is not there before its round is settled.
RowInv == \A e \in Events : stage[e] \in {"none", "posting"} => row[e] = "none"

\* A page of notifications of which none is older than that of an event.
FullPage(page, e) ==
  Cardinality(page) = PageLimit /\ \A f \in page : created[e] <= created[f]

\* A client holds stored notifications only, and once it listed, all of them or
\* a full page.
ClientInv ==
  /\ client = "off" => known = {}
  /\ known \subseteq Rows
  /\ client = "synced" =>
       \A e \in Rows \ known : \E page \in SUBSET known : FullPage(page, e)

\* A request's publication is over before its database may be closed, or its
\* client has left.
RequestInv ==
  \A e \in Events \ left : Name[e] \in RequestNames =>
    /\ InProgress(e) => Serving
    /\ stage[e] # "failed"

Begun(p) == {e \in Events : Peer[e] = p /\ Linking(e) /\ stage[e] # "none"}

\* The latest connection event of a peer tells whether it is connected; those
\* past their own round have their time on the notification.
LatestInv ==
  \A p \in Peers \ cut :
    \A e \in Begun(p) :
      /\ stage[e] \in {"posting", "spreading", "done"}
      /\ stage[e] # "posting" => created[e] = at[e]
      /\ (\A f \in Begun(p) : at[f] <= at[e])
           => (linked[p] <=> Name[e] = "PeerConnected")

ReachInv == \A p \in Peers : linked[p] => peerRow[p] = "peer_reachable"

Inv == TypeOK /\ RowInv /\ ClientInv /\ RequestInv /\ LatestInv /\ ReachInv

-----------------------------------------------------------------------------
\* A connection event is about a peer, and is no request's.
LEMMA PeerEvents ==
  ASSUME NEW e \in Events, FromPeer(e)
  PROVE  Peer[e] \in Peers /\ Name[e] \notin RequestNames
BY FanoutAssumption DEF FromPeer, Peers, PeerNames, RequestNames

LEMMA LinkingEvents ==
  ASSUME NEW e \in Events, Linking(e)
  PROVE  FromPeer(e) /\ Peer[e] \in Peers
BY PeerEvents DEF Linking, FromPeer, PeerNames

\* When the process ends, nothing is in progress and nobody is connected.
LEMMA ProcessEndsKeepsInv ==
  ASSUME Inv, ProcessEnds
  PROVE  Inv'
<1>1. TypeOK'
  <2>1. cut' \subseteq Peers
    BY PeerEvents DEF Inv, TypeOK, ProcessEnds
  <2> QED BY <2>1 DEF Inv, TypeOK, ProcessEnds, tables, InProgress
<1>2. RowInv'
  BY DEF Inv, TypeOK, RowInv, ProcessEnds, tables, InProgress
<1>3. ClientInv'
  BY DEF Inv, ClientInv, ProcessEnds, tables
<1>4. RequestInv'
  BY DEF Inv, TypeOK, RequestInv, ProcessEnds, InProgress
<1>5. LatestInv'
  <2> SUFFICES ASSUME NEW p \in Peers, p \notin cut', NEW e \in Begun(p)'
               PROVE  /\ stage'[e] \in {"posting", "spreading", "done"}
                      /\ stage'[e] # "posting" => created'[e] = at'[e]
                      /\ (\A f \in Begun(p)' : at'[f] <= at'[e])
                           => (linked'[p] <=> Name[e] = "PeerConnected")
    BY DEF LatestInv
  <2>1. p \notin cut /\ ~linked[p] /\ ~linked'[p]
    BY DEF Inv, TypeOK, ProcessEnds
  <2>2. \A f \in Events : Peer[f] = p /\ FromPeer(f) => ~InProgress(f)
    BY DEF ProcessEnds
  <2>3. \A f \in Events : Peer[f] = p /\ Linking(f) => stage'[f] = stage[f]
    BY <2>2, LinkingEvents DEF Inv, TypeOK, ProcessEnds
  <2>4. Begun(p)' = Begun(p)
    BY <2>3 DEF Begun, Linking
  <2>5. e \in Events /\ stage'[e] = stage[e] /\ created' = created /\ at' = at
    BY <2>3, <2>4 DEF Begun, ProcessEnds, tables
  <2> QED BY <2>1, <2>4, <2>5 DEF Inv, LatestInv
<1>6. ReachInv'
  BY DEF Inv, TypeOK, ReachInv, ProcessEnds
<1> QED BY <1>1, <1>2, <1>3, <1>4, <1>5, <1>6 DEF Inv

\* A publication begins, of an event that is no connection's.
LEMMA AnnounceKeepsInv ==
  ASSUME Inv, NEW e \in Events, stage[e] = "none", Announce(e), ~Linking(e),
         left \subseteq left' /\ left' \subseteq Events,
         Name[e] \in RequestNames => Serving \/ e \in left',
         UNCHANGED <<phase, row, created, linked, client, known, cut>>,
         peerRow' \in [Peers -> {"none", "peer_reachable", "peer_unreachable"}],
         \A p \in Peers : linked[p] => peerRow'[p] = "peer_reachable"
  PROVE  Inv'
<1>1. TypeOK'
  <2>1. Targets(Name[e]) \subseteq Hooks
    BY DEF Targets
  <2>2. /\ now' \in Nat /\ now <= now' /\ at' \in [Events -> Nat]
        /\ \A f \in Events : Linking(f) => at'[f] = at[f]
    <3>1. now \in Nat /\ at \in [Events -> Nat] /\ ~Linking(e)
      BY DEF Inv, TypeOK
    <3>2. Occurred(e) \in Nat
      BY <3>1, FanoutAssumption DEF Occurred
    <3>3. CASE Notifying(e)
      <4>1. now' = now + 1 /\ at' = [at EXCEPT ![e] = Occurred(e)]
        BY <3>3 DEF Announce
      <4> QED BY <3>1, <3>2, <4>1
    <3>4. CASE ~Notifying(e)
      BY <3>1, <3>4 DEF Announce
    <3> QED BY <3>3, <3>4
  <2>3. \A f \in Events : Linking(f) => at'[f] <= now'
    BY <2>2 DEF Inv, TypeOK
  <2>4. /\ stage' \in [Events -> {"none", "posting", "spreading", "done", "failed", "lost"}]
        /\ waiting' \in [Events -> SUBSET Hooks]
        /\ \A f \in Events : waiting'[f] # {} => InProgress(f)'
    BY <2>1 DEF Inv, TypeOK, Announce, InProgress
  <2> QED BY <2>2, <2>3, <2>4 DEF Inv, TypeOK, Linking
<1>2. RowInv'
  BY DEF Inv, TypeOK, RowInv, Announce
<1>3. ClientInv'
  BY DEF Inv, ClientInv, FullPage, Rows
<1>4. RequestInv'
  BY DEF Inv, TypeOK, RequestInv, Announce, InProgress, Serving
<1>5. LatestInv'
  <2>1. \A p \in Peers : Begun(p)' = Begun(p) /\ e \notin Begun(p)
    BY DEF Inv, TypeOK, Announce, Begun, Linking
  <2>2. \A p \in Peers : \A f \in Begun(p) : stage'[f] = stage[f]
    BY <2>1 DEF Inv, TypeOK, Announce, Begun
  <2>3. \A p \in Peers : \A f \in Begun(p) : at'[f] = at[f]
    BY <2>1 DEF Inv, TypeOK, Announce, Begun
  <2> QED BY <2>1, <2>2, <2>3 DEF Inv, LatestInv
<1>6. ReachInv'
  BY DEF Inv, ReachInv
<1> QED BY <1>1, <1>2, <1>3, <1>4, <1>5, <1>6 DEF Inv

\* A connection is made or ended: its event is later than all before it.
LEMMA ConnectionKeepsInv ==
  ASSUME Inv, NEW e \in Events, Linking(e), DbOpen, PeerPublishes(e)
  PROVE  Inv'
<1>0. /\ FromPeer(e) /\ Peer[e] \in Peers /\ Name[e] \notin RequestNames
      /\ stage[e] = "none"
      /\ linked[Peer[e]] = (Name[e] = "PeerDisconnected")
      /\ Name[e] \in {"PeerConnected", "PeerDisconnected"}
      /\ stage' = [stage EXCEPT ![e] = "posting"]
      /\ waiting' = [waiting EXCEPT ![e] = Targets(Name[e])]
      /\ now' = now + 1
      /\ at' = [at EXCEPT ![e] = now + 1]
      /\ linked' = [linked EXCEPT ![Peer[e]] = ~@]
      /\ peerRow' = [peerRow EXCEPT ![Peer[e]] =
                       IF Name[e] = "PeerDisconnected" THEN "peer_unreachable"
                                                       ELSE "peer_reachable"]
      /\ UNCHANGED <<phase, row, created, client, known, left, cut>>
  <2>1. Notifying(e) /\ Name[e] \notin StreamNames
    BY DEF Linking, Notifying, StreamNames
  <2> QED BY <2>1, PeerEvents, LinkingEvents
             DEF PeerPublishes, RuntimeEvent, Announce, Occurred, Linking, Upsert, clients
<1>1. TypeOK'
  <2>1. Targets(Name[e]) \subseteq Hooks
    BY DEF Targets
  <2>2. /\ now' \in Nat /\ at' \in [Events -> Nat]
        /\ \A f \in Events : Linking(f) => at'[f] <= now'
    BY <1>0 DEF Inv, TypeOK
  <2>3. /\ stage' \in [Events -> {"none", "posting", "spreading", "done", "failed", "lost"}]
        /\ waiting' \in [Events -> SUBSET Hooks]
        /\ \A f \in Events : waiting'[f] # {} => InProgress(f)'
    BY <1>0, <2>1 DEF Inv, TypeOK, InProgress
  <2> QED BY <1>0, <2>2, <2>3 DEF Inv, TypeOK, Linking
<1>2. RowInv'
  BY <1>0 DEF Inv, TypeOK, RowInv
<1>3. ClientInv'
  BY <1>0 DEF Inv, ClientInv, FullPage, Rows
<1>4. RequestInv'
  BY <1>0 DEF Inv, TypeOK, RequestInv, InProgress, Serving
<1>5. LatestInv'
  <2> SUFFICES ASSUME NEW p \in Peers, p \notin cut, NEW f \in Begun(p)'
               PROVE  /\ stage'[f] \in {"posting", "spreading", "done"}
                      /\ stage'[f] # "posting" => created'[f] = at'[f]
                      /\ (\A g \in Begun(p)' : at'[g] <= at'[f])
                           => (linked'[p] <=> Name[f] = "PeerConnected")
    BY <1>0 DEF LatestInv
  <2>1. CASE p = Peer[e]
    <3>1. e \in Begun(p)' /\ at'[e] = now + 1 /\ stage'[e] = "posting"
      BY <1>0, <2>1 DEF Inv, TypeOK, Begun, Linking
    <3>2. CASE f = e
      BY <1>0, <2>1, <3>1, <3>2 DEF Inv, TypeOK
    <3>3. CASE f # e
      <4>1. f \in Begun(p) /\ f \in Events /\ stage'[f] = stage[f] /\ at'[f] = at[f]
        BY <1>0, <3>3 DEF Inv, TypeOK, Begun, Linking
      <4>2. at[f] \in Nat /\ at[f] <= now /\ now \in Nat
        BY <4>1 DEF Inv, TypeOK, Begun
      <4>3. ~(at'[e] <= at'[f])
        BY <3>1, <4>1, <4>2
      <4> QED BY <1>0, <3>1, <4>1, <4>3 DEF Inv, LatestInv
    <3> QED BY <3>2, <3>3
  <2>2. CASE p # Peer[e]
    <3>1. Begun(p)' = Begun(p) /\ e \notin Begun(p)
      BY <1>0, <2>2 DEF Inv, TypeOK, Begun, Linking
    <3>2. \A g \in Begun(p) : g \in Events /\ stage'[g] = stage[g] /\ at'[g] = at[g]
      BY <1>0, <3>1 DEF Inv, TypeOK, Begun
    <3>3. linked'[p] = linked[p]
      BY <1>0, <2>2 DEF Inv, TypeOK
    <3> QED BY <1>0, <3>1, <3>2, <3>3 DEF Inv, LatestInv
  <2> QED BY <2>1, <2>2
<1>6. ReachInv'
  BY <1>0 DEF Inv, TypeOK, ReachInv
<1> QED BY <1>1, <1>2, <1>3, <1>4, <1>5, <1>6 DEF Inv

\* The notification is stored and announced.
LEMMA RecordKeepsInv ==
  ASSUME Inv, NEW e \in Events, stage[e] = "posting", waiting[e] = {}, Record(e),
         UNCHANGED <<phase, peerRow, linked, client, left, now, at, cut>>
  PROVE  Inv'
<1>0. row[e] = "none"
  BY DEF Inv, RowInv
<1>1. TypeOK'
  <2>1. Targets("NotificationCreated") \subseteq Hooks
    BY DEF Targets
  <2> QED BY <2>1 DEF Inv, TypeOK, Record, Save, InProgress, Linking
<1>2. RowInv'
  BY DEF Inv, TypeOK, RowInv, Record, Save
<1>3. ClientInv'
  <2>1. Rows' = Rows \cup {e} /\ e \notin Rows
    BY <1>0 DEF Inv, TypeOK, Rows, Record, Save
  <2>2. \A f \in Rows : created'[f] = created[f]
    BY <2>1 DEF Inv, TypeOK, Rows, Record
  <2>3. known \subseteq Rows /\ client' = client
        /\ known' = IF client = "off" THEN known ELSE known \cup {e}
    BY DEF Inv, ClientInv, Record
  <2>4. ASSUME client = "synced", NEW f \in Rows' \ known'
        PROVE  \E page \in SUBSET known' : FullPage(page, f)'
    <3>1. f \in Rows \ known
      BY <2>1, <2>3, <2>4
    <3>2. PICK page \in SUBSET known : FullPage(page, f)
      BY <2>4, <3>1 DEF Inv, ClientInv
    <3>3. page \in SUBSET known' /\ page \subseteq Rows
      BY <2>3
    <3> QED BY <2>2, <3>1, <3>2, <3>3 DEF FullPage
  <2> QED BY <2>1, <2>3, <2>4 DEF Inv, ClientInv
<1>4. RequestInv'
  BY DEF Inv, TypeOK, RequestInv, Record, InProgress, Serving
<1>5. LatestInv'
  <2>1. \A p \in Peers : Begun(p)' = Begun(p)
    BY DEF Inv, TypeOK, Record, Begun, Linking
  <2>2. \A p \in Peers : \A f \in Begun(p) :
          /\ f \in Events
          /\ f # e => stage'[f] = stage[f] /\ created'[f] = created[f]
          /\ f = e => stage'[f] = "spreading" /\ created'[f] = at[f]
    BY DEF Inv, TypeOK, Record, Begun
  <2> QED BY <2>1, <2>2 DEF Inv, LatestInv
<1>6. ReachInv'
  BY DEF Inv, ReachInv
<1> QED BY <1>1, <1>2, <1>3, <1>4, <1>5, <1>6 DEF Inv

\* A publication ends; only one of a closed database ends as failed.
LEMMA EndKeepsInv ==
  ASSUME Inv, NEW e \in Events, InProgress(e), waiting[e] = {}, NEW end,
         stage' = [stage EXCEPT ![e] = end],
         \/ end = "done" /\ (stage[e] = "posting" => ~Linking(e))
         \/ end = "failed" /\ ~FromPeer(e) /\ ~DbOpen,
         UNCHANGED <<phase, waiting, tables, linked, clients, now, at, cut>>
  PROVE  Inv'
<1>1. TypeOK'
  BY DEF Inv, TypeOK, tables, clients, InProgress
<1>2. RowInv'
  BY DEF Inv, TypeOK, RowInv, tables
<1>3. ClientInv'
  BY DEF Inv, ClientInv, FullPage, tables, clients, Rows
<1>4. RequestInv'
  <2>1. end = "failed" /\ e \notin left => Name[e] \notin RequestNames
    BY DEF Inv, RequestInv, Serving, DbOpen
  <2> QED BY <2>1 DEF Inv, TypeOK, RequestInv, InProgress, Serving, clients
<1>5. LatestInv'
  <2>1. \A p \in Peers : Begun(p)' = Begun(p)
    BY DEF Inv, TypeOK, InProgress, Begun, Linking
  <2>2. \A p \in Peers : \A f \in Begun(p) :
          /\ f \in Events
          /\ f # e => stage'[f] = stage[f]
          /\ f = e => stage'[f] = "done" /\ stage[f] = "spreading"
    BY LinkingEvents DEF Inv, TypeOK, Begun, InProgress
  <2> QED BY <2>1, <2>2 DEF Inv, LatestInv, tables
<1>6. ReachInv'
  BY DEF Inv, ReachInv, tables
<1> QED BY <1>1, <1>2, <1>3, <1>4, <1>5, <1>6 DEF Inv

-----------------------------------------------------------------------------
LEMMA InitInv == Init => Inv
<1> SUFFICES ASSUME Init PROVE Inv
  OBVIOUS
<1>1. TypeOK
  BY DEF Init, TypeOK
<1>2. RowInv /\ ClientInv /\ RequestInv /\ LatestInv /\ ReachInv
  BY DEF Init, RowInv, ClientInv, Rows, RequestInv, InProgress, LatestInv, Begun, ReachInv
<1> QED BY <1>1, <1>2 DEF Inv

\* Steps of publications.
LEMMA PublicationsKeepInv ==
  ASSUME Inv, NEW e \in Events,
         \/ RequestPublishes(e) \/ StreamPublishes(e) \/ PeerPublishes(e)
         \/ EventPosted(e) \/ NotificationPosted(e)
  PROVE  Inv'
<1>1. CASE RequestPublishes(e)
  <2>1. ~Linking(e)
    BY <1>1 DEF RequestPublishes, RequestNames, Linking
  <2>2. /\ left \subseteq left' /\ left' \subseteq Events
        /\ Serving \/ e \in left'
    BY <1>1 DEF RequestPublishes, Inv, TypeOK
  <2> QED BY <1>1, <2>1, <2>2, AnnounceKeepsInv DEF RequestPublishes, tables, Inv, TypeOK, ReachInv
<1>2. CASE StreamPublishes(e)
  <2>1. ~Linking(e) /\ Name[e] \notin RequestNames
    BY <1>2 DEF StreamPublishes, StreamNames, RequestNames, Linking
  <2> QED BY <1>2, <2>1, AnnounceKeepsInv
             DEF StreamPublishes, tables, clients, Inv, TypeOK, ReachInv
<1>3. CASE PeerPublishes(e)
  <2>1. CASE ~DbOpen
    BY <1>3, <2>1, ProcessEndsKeepsInv DEF PeerPublishes
  <2>2. CASE DbOpen /\ Linking(e)
    BY <1>3, <2>2, ConnectionKeepsInv
  <2>3. CASE DbOpen /\ ~Linking(e)
    <3>1. FromPeer(e) /\ Name[e] # "PeerDisconnected"
      BY <1>3, <2>3 DEF PeerPublishes, Linking
    <3>2. peerRow' = [peerRow EXCEPT ![Peer[e]] = "peer_reachable"]
      BY <1>3, <2>3, <3>1 DEF PeerPublishes, Upsert
    <3>3. /\ peerRow' \in [Peers -> {"none", "peer_reachable", "peer_unreachable"}]
          /\ \A p \in Peers : linked[p] => peerRow'[p] = "peer_reachable"
      BY <3>2 DEF Inv, TypeOK, ReachInv
    <3>4. /\ stage[e] = "none" /\ Announce(e)
          /\ UNCHANGED <<phase, row, created, linked, client, known, left, cut>>
      BY <1>3, <2>3 DEF PeerPublishes, clients
    <3>5. left \subseteq left' /\ left' \subseteq Events
      BY <3>4 DEF Inv, TypeOK
    <3> QED BY <2>3, <3>1, <3>3, <3>4, <3>5, PeerEvents, AnnounceKeepsInv
  <2> QED BY <2>1, <2>2, <2>3
<1>4. CASE EventPosted(e)
  <2>1. stage[e] = "posting" /\ waiting[e] = {} /\ InProgress(e)
    BY <1>4 DEF EventPosted, InProgress
  <2>2. CASE ~Notifying(e)
    <3>1. ~Linking(e)
      BY <2>2 DEF Notifying, Linking
    <3>2. /\ stage' = [stage EXCEPT ![e] = "done"]
          /\ UNCHANGED <<phase, waiting, tables, linked, clients, now, at, cut>>
      BY <1>4, <2>2 DEF EventPosted
    <3> QED BY <2>1, <3>1, <3>2, EndKeepsInv
  <2>3. CASE Notifying(e) /\ DbOpen
    BY <1>4, <2>1, <2>3, RecordKeepsInv DEF EventPosted
  <2>4. CASE Notifying(e) /\ ~DbOpen /\ FromPeer(e)
    BY <1>4, <2>4, ProcessEndsKeepsInv DEF EventPosted
  <2>5. CASE Notifying(e) /\ ~DbOpen /\ ~FromPeer(e)
    <3>1. /\ stage' = [stage EXCEPT ![e] = "failed"]
          /\ UNCHANGED <<phase, waiting, tables, linked, clients, now, at, cut>>
      BY <1>4, <2>5 DEF EventPosted
    <3> QED BY <2>1, <2>5, <3>1, EndKeepsInv
  <2> QED BY <2>2, <2>3, <2>4, <2>5
<1>5. CASE NotificationPosted(e)
  <2>1. /\ stage[e] = "spreading" /\ waiting[e] = {} /\ InProgress(e)
        /\ stage' = [stage EXCEPT ![e] = "done"]
        /\ UNCHANGED <<phase, waiting, tables, linked, clients, now, at, cut>>
    BY <1>5 DEF NotificationPosted, InProgress
  <2> QED BY <2>1, EndKeepsInv
<1> QED BY <1>1, <1>2, <1>3, <1>4, <1>5

\* A list is a full page of the newest notifications, or all there are.
LEMMA ListKeepsClientInv ==
  ASSUME Inv, ListNotifications
  PROVE  ClientInv'
<1>1. PICK page \in SUBSET Rows :
        /\ \/ page = Rows /\ Cardinality(page) < PageLimit
           \/ Cardinality(page) = PageLimit
        /\ \A e \in page, f \in Rows \ page : created[f] <= created[e]
        /\ known' = known \cup page
  BY DEF ListNotifications
<1>2. client' = "synced" /\ Rows' = Rows /\ created' = created
  BY DEF ListNotifications, tables, Rows
<1>3. known' \subseteq Rows'
  BY <1>1, <1>2 DEF Inv, ClientInv
<1>4. ASSUME NEW e \in Rows' \ known'
      PROVE  \E some \in SUBSET known' : FullPage(some, e)'
  <2>1. e \in Rows \ page /\ page \in SUBSET known'
    BY <1>1, <1>2, <1>4
  <2>2. Cardinality(page) = PageLimit /\ \A f \in page : created[e] <= created[f]
    BY <1>1, <2>1
  <2> QED BY <1>2, <2>1, <2>2 DEF FullPage
<1> QED BY <1>2, <1>3, <1>4 DEF ClientInv

\* What reads the other parts only when they change.
LEMMA OthersKeepInv ==
  ASSUME Inv,
         \/ \E e \in Events : MarkNotificationAsRead(e) \/ ClientLeaves(e)
         \/ \E e \in Events, h \in Hooks : FetchEnds(e, h)
         \/ OpenStream \/ ListNotifications \/ CloseStream
         \/ Stop \/ ServerClosed \/ DatabaseClosed \/ Crash \/ Restart
         \/ UNCHANGED vars
  PROVE  Inv'
<1>1. CASE Crash
  BY <1>1, ProcessEndsKeepsInv DEF Crash
<1>2. CASE ~Crash
  <2>0. /\ UNCHANGED <<stage, created, peerRow, linked, now, at, cut>>
        /\ row' # row => UNCHANGED <<phase, waiting, client, known, left>>
        /\ left \subseteq left'
    BY <1>2 DEF MarkNotificationAsRead, ClientLeaves, FetchEnds, OpenStream, ListNotifications,
                CloseStream, Stop, ServerClosed, DatabaseClosed, Restart, vars, tables, clients
  <2>1. Rows' = Rows /\ (\A e \in Events : stage[e] \in {"none", "posting"} => row'[e] = row[e])
        /\ row' \in [Events -> {"none", "unread", "read"}]
    BY <1>2 DEF Inv, TypeOK, RowInv, Rows, MarkNotificationAsRead, ClientLeaves, Save, FetchEnds,
                OpenStream, ListNotifications, CloseStream, Stop, ServerClosed, DatabaseClosed,
                Restart, vars, tables, clients
  <2>2. TypeOK'
    <3>1. /\ phase' \in {"up", "draining", "leaving", "closed", "down"}
          /\ client' \in {"off", "open", "synced"}
          /\ known' \subseteq Events /\ left' \subseteq Events
      BY <1>2 DEF Inv, TypeOK, Rows, MarkNotificationAsRead, ClientLeaves, FetchEnds, OpenStream,
                ListNotifications, CloseStream, Stop, ServerClosed, DatabaseClosed, Restart,
                vars, tables, clients
    <3>2. \A e \in Events : waiting'[e] \subseteq waiting[e]
      BY <1>2 DEF Inv, TypeOK, MarkNotificationAsRead, ClientLeaves, FetchEnds, OpenStream,
                ListNotifications, CloseStream, Stop, ServerClosed, DatabaseClosed, Restart, vars
    <3>3. waiting' \in [Events -> SUBSET Hooks]
      BY <1>2 DEF Inv, TypeOK, MarkNotificationAsRead, ClientLeaves, FetchEnds, OpenStream,
                ListNotifications, CloseStream, Stop, ServerClosed, DatabaseClosed, Restart, vars
    <3>4. \A e \in Events : waiting'[e] # {} => InProgress(e)'
      BY <2>0, <3>2 DEF Inv, TypeOK, InProgress
    <3> QED BY <2>0, <2>1, <3>1, <3>3, <3>4 DEF Inv, TypeOK, Linking
  <2>3. RowInv'
    BY <2>0, <2>1 DEF Inv, RowInv
  <2>4. ClientInv'
    <3>1. CASE ListNotifications
      BY <3>1, ListKeepsClientInv
    <3>2. CASE UNCHANGED <<client, known>>
      BY <2>0, <2>1, <3>2 DEF Inv, ClientInv, FullPage
    <3>3. CASE OpenStream \/ CloseStream
      BY <2>1, <3>3 DEF Inv, ClientInv, OpenStream, CloseStream
    <3> QED BY <1>2, <3>1, <3>2, <3>3 DEF MarkNotificationAsRead, ClientLeaves, FetchEnds, Stop,
                ServerClosed, DatabaseClosed, Restart, vars, clients
  <2>5. RequestInv'
    <3> SUFFICES ASSUME NEW e \in Events \ left, Name[e] \in RequestNames
                 PROVE  (InProgress(e) => Serving') /\ stage[e] # "failed"
      BY <2>0 DEF RequestInv, InProgress
    <3>1. (InProgress(e) => Serving) /\ stage[e] # "failed"
      BY DEF Inv, RequestInv
    <3>2. ServerClosed => ~InProgress(e)
      BY DEF ServerClosed
    <3>3. Serving /\ ~Serving' => ServerClosed
      BY <1>2 DEF Serving, MarkNotificationAsRead, ClientLeaves, FetchEnds, OpenStream,
                ListNotifications, CloseStream, Stop, DatabaseClosed, Restart, vars
    <3> QED BY <3>1, <3>2, <3>3
  <2>6. LatestInv' /\ ReachInv'
    BY <2>0 DEF Inv, LatestInv, ReachInv, Begun, Linking
  <2> QED BY <2>2, <2>3, <2>4, <2>5, <2>6 DEF Inv
<1> QED BY <1>1, <1>2

LEMMA InvStep == Inv /\ [Next]_vars => Inv'
BY PublicationsKeepInv, OthersKeepInv DEF Next, Continues

\* The invariant of the module as a whole.
THEOREM InvCorrect == Spec => []Inv
BY InitInv, InvStep, PTL DEF Spec

\* The type invariant of the fan-out.
THEOREM TypeCorrect == Spec => []TypeOK
<1>1. Inv => TypeOK
  BY DEF Inv
<1> QED BY <1>1, InvCorrect, PTL

-----------------------------------------------------------------------------
\* A client that opened the stream and then listed has every notification, or
\* a full page of others that are not older, for any number of publications,
\* webhooks and restarts and any limit of a page.
THEOREM ClientIsCurrentCorrect == Spec => []ClientIsCurrent
<1>1. Inv => ClientIsCurrent
  BY DEF Inv, ClientInv, FullPage, ClientIsCurrent
<1> QED BY <1>1, InvCorrect, PTL

\* No publication of an HTTP exchange fails, as the database is open for it,
\* unless its client has left it.
THEOREM RequestsNeverFailCorrect == Spec => []RequestsNeverFail
<1>1. Inv => RequestsNeverFail
  BY DEF Inv, RequestInv, RequestsNeverFail
<1> QED BY <1>1, InvCorrect, PTL

\* The newest notification of a peer tells whether it is connected.
THEOREM NewestTellsConnectionCorrect == Spec => []NewestTellsConnection
<1>1. ASSUME Inv PROVE NewestTellsConnection
  <2> SUFFICES ASSUME NEW p \in Peers \ cut
               PROVE  /\ linked[p] => peerRow[p] = "peer_reachable"
                      /\ \A e \in Begun(p) :
                           /\ \A f \in Begun(p) : ~InProgress(f) /\ created[f] <= created[e]
                           => (linked[p] <=> Name[e] = "PeerConnected")
    BY DEF NewestTellsConnection, Begun
  <2>1. linked[p] => peerRow[p] = "peer_reachable"
    BY <1>1 DEF Inv, ReachInv
  <2>2. ASSUME NEW e \in Begun(p),
               \A f \in Begun(p) : ~InProgress(f) /\ created[f] <= created[e]
        PROVE  linked[p] <=> Name[e] = "PeerConnected"
    <3>1. \A f \in Begun(p) : created[f] = at[f]
      BY <1>1, <2>2 DEF Inv, LatestInv, InProgress
    <3>2. \A f \in Begun(p) : at[f] <= at[e]
      BY <2>2, <3>1
    <3> QED BY <1>1, <3>2 DEF Inv, LatestInv
  <2> QED BY <2>1, <2>2
<1> QED BY <1>1, InvCorrect, PTL

\* A notification that was read stays read: it is saved once, before it can
\* be read, and marking it is the only other write.
THEOREM ReadStaysReadCorrect == Spec => ReadStaysRead
<1>1. ASSUME Inv, [Next]_vars
      PROVE  [\A e \in Events : row[e] = "read" => row'[e] = "read"]_vars
  <2> SUFFICES ASSUME NEW e \in Events, row[e] = "read", Next
               PROVE  row'[e] = "read"
    BY <1>1
  <2>1. \A f \in Events : stage[f] = "posting" => f # e
    BY <1>1 DEF Inv, RowInv
  <2>2. ProcessEnds => row' = row
    BY DEF ProcessEnds, tables
  <2>3. ASSUME NEW f \in Events,
               RequestPublishes(f) \/ StreamPublishes(f) \/ PeerPublishes(f)
        PROVE  row' = row
    BY <2>2, <2>3 DEF RequestPublishes, StreamPublishes, PeerPublishes, tables
  <2>4. ASSUME NEW f \in Events, EventPosted(f)
        PROVE  row'[e] = row[e]
    BY <1>1, <2>1, <2>2, <2>4 DEF EventPosted, Record, Save, tables, Inv, TypeOK
  <2>5. ASSUME NEW f \in Events, MarkNotificationAsRead(f)
        PROVE  row'[e] = "read"
    BY <1>1, <2>5 DEF MarkNotificationAsRead, Save, Inv, TypeOK
  <2>6. ASSUME NEW f \in Events, NEW h \in Hooks, FetchEnds(f, h)
        PROVE  row' = row
    BY <2>6 DEF FetchEnds, tables
  <2>7. ASSUME NEW f \in Events, NotificationPosted(f)
        PROVE  row' = row
    BY <2>7 DEF NotificationPosted, tables
  <2>8. ASSUME NEW f \in Events, ClientLeaves(f)
        PROVE  row' = row
    BY <2>8 DEF ClientLeaves, tables
  <2>9. OpenStream \/ ListNotifications \/ CloseStream \/ Stop \/ ServerClosed
          \/ DatabaseClosed \/ Crash \/ Restart => row' = row
    BY <2>2 DEF OpenStream, ListNotifications, CloseStream, Stop, ServerClosed,
                DatabaseClosed, Crash, Restart, tables
  <2> QED BY <2>3, <2>4, <2>5, <2>6, <2>7, <2>8, <2>9 DEF Next, Continues
<1> QED BY <1>1, InvCorrect, PTL DEF Spec, ReadStaysRead
=============================================================================
