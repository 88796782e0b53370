--------------------------- MODULE DirectDelivery ---------------------------
(***************************************************************************)
(* Two PeerComms nodes: the outbox of one, which this module EXTENDS, the  *)
(* inbox of the other, and the envelopes in flight (wire) between them.    *)
(* The outbox also holds messages to peers that are never there.  Each     *)
(* node crashes and restarts on its own; the transport may deliver an      *)
(* envelope and still report the peer as unreachable, and may lose it      *)
(* after reporting it published.                                           *)
(***************************************************************************)
EXTENDS Outbox

CONSTANTS Me, You,   \* the sender and the recipient, as their contacts know them
          Lifetime,
          Conversations, Names, OwnIds,
          Handlers, Retention, CompactLimit,
          MaxCompactions, MaxSends, MaxReceiverCrashes,
          MaxPending,  \* bound: sends in progress at once in ReliableSpec
          NoEnvelope, NoConversation

\* You is the one peer whose node is there, and libp2p throws no refusal; the
\* recipient's parameters are as Inbox wants them, and the sender names
\* conversations of its own.
ASSUME DeliveryAssumption ==
  /\ Reachable = {You}
  /\ Rejecting = {}
  /\ Lifetime \in [Msgs -> Nat]
  /\ OwnIds \subseteq Conversations
  /\ Names \in [Msgs -> Conversations \ OwnIds]
  /\ IsFiniteSet(Handlers)
  /\ Retention \in Nat \ {0}
  /\ CompactLimit \in Nat \ {0}
  /\ MaxCompactions \in Nat
  /\ MaxSends \in Nat
  /\ MaxPending \in Nat
  /\ MaxReceiverCrashes \in Nat
  /\ Nobody \notin Handlers
  /\ NoEnvelope \notin Msgs
  /\ NoConversation \notin Conversations

VARIABLES receiverContact, opened, receiverClock, messages, filed, age, ttl, pc,
          busy, within, receiverLoop, stamped, displaced, compactions, receiverCrashes

senderVars   == <<durable, handlers, task, handed, crashes>>
receiverVars == <<receiverContact, opened, receiverClock, messages, filed, age, ttl,
                  pc, busy, within, receiverLoop, stamped, displaced, compactions,
                  receiverCrashes>>
deliveryVars == <<senderVars, wire, receiverVars>>

R == INSTANCE Inbox WITH
       Envelopes <- Msgs, Peers <- {Me}, Sender <- [m \in Msgs |-> Me],
       Flaw <- [m \in Msgs |-> "none"],
       contact <- receiverContact, clock <- receiverClock, loop <- receiverLoop,
       crashes <- receiverCrashes, MaxCrashes <- MaxReceiverCrashes

\* The lifetime of an envelope begins with its createdAt, before it is queued.
DeliveryInit == Init /\ R!Init

SenderStep   == NodeNext /\ UNCHANGED receiverVars
ReceiverStep == R!NodeNext /\ UNCHANGED senderVars
Lose(m)      == Taken(m) /\ UNCHANGED receiverVars

DeliveryNext == SenderStep \/ ReceiverStep \/ \E m \in Msgs : Lose(m)

DeliverySpec == DeliveryInit /\ [][DeliveryNext]_deliveryVars

\* Steps under which delivery can be promised: nothing is lost after a publish,
\* no crypto call fails, nobody crashes, and the two keep each other as accepted
\* contacts.  Elsewhere a send is refused, and a copy dismissed for good.
ReliableInit ==
  /\ DeliveryInit
  /\ contact = [p \in Peers |-> "accepted"]
  /\ receiverContact[Me] = "accepted"

ReliableReceiver ==
  /\ \E h \in Handlers :
       \/ \E m \in Msgs : R!Receive(h, m) \/ R!Dismiss(h, m)
       \/ R!Verified(h) \/ R!Decrypted(h) \/ R!Record(h) \/ R!Leave(h)
  /\ UNCHANGED senderVars

ReliableNext ==
  \/ /\ SenderStep
     /\ UNCHANGED <<contact, crashes>>
     /\ \A m \in Msgs : send'[m] # "failed"
     /\ Cardinality({m \in Msgs : send'[m] \in InProgress}) <= MaxPending
  \/ ReliableReceiver

ToYou == {m \in Msgs : Recipient[m] = You}

\* Timers fire, publishes end, the peer is in the end reached and every stream
\* that was opened is in the end served; a handler's crypto calls come back.
Fairness ==
  /\ \A m \in ToYou :
       /\ SF_deliveryVars((\E r \in Runs : Handed(r, m)) /\ UNCHANGED receiverVars)
       /\ SF_deliveryVars((\E r \in Runs : Published(r, m)) /\ UNCHANGED receiverVars)
  /\ WF_deliveryVars((\E m \in Msgs : SendTick(m) \/ SendQueued(m)) /\ UNCHANGED receiverVars)
  /\ WF_deliveryVars((TimerFires \/ Tick) /\ UNCHANGED receiverVars)
  /\ WF_deliveryVars((\E r \in Runs, m \in Msgs : Resolve(r, m)) /\ UNCHANGED receiverVars)
  /\ \A h \in Handlers :
       WF_deliveryVars(/\ \/ \E m \in ToYou : R!Receive(h, m) \/ R!Dismiss(h, m)
                          \/ R!Verified(h) \/ R!Decrypted(h) \/ R!Record(h) \/ R!Leave(h)
                       /\ UNCHANGED senderVars)

ReliableSpec == ReliableInit /\ [][ReliableNext]_deliveryVars /\ Fairness

-----------------------------------------------------------------------------
(* Properties *)

\* The two nodes together implement the abstract promise: rows of the outbox
\* are accepted messages, queued rows are pending ones, and a message row at
\* the recipient is a delivery.
Abstract == INSTANCE StoreAndForward WITH
              accepted  <- {m \in Msgs : outbox[m].status # "none"},
              pending   <- {m \in Msgs : Queued(m)},
              carried   <- handed,
              delivered <- {m \in Msgs : messages[m] > 0}

ImplementsStoreAndForward == Abstract!Spec

\* What Inbox says of an envelope that expires within the retention also holds
\* under the sender's retries, which go on when it has expired.
ExpiryCoversCompaction == R!ExpiryCoversCompaction

\* The longest time from the start of one execution of the delivery task to the
\* start of the next: the interval fires in vain while a batch is being dialed.
Period == Interval * ((Limit * MaxDial) \div Interval + 1)

\* The envelopes for peers that no dial reaches leave a place in some batch.  A
\* row whose dial failed is due again Cap after the execution began, and as many
\* executions as start within Cap take Limit rows each.  With the code's
\* constants that is fewer than 1500 such rows if dials take no time, and fewer
\* than 50 if the dials of a batch take a minute.
HasRoom ==
  Cardinality({m \in Msgs : Recipient[m] # You}) <
    Limit * ((Cap + Period - 1) \div Period)

\* Under a reliable transport and crypto, a queued message to a recipient that
\* keeps the sender as a contact is stored by it in the end, even when publishes
\* fail, time out or fail after having delivered, as long as the rows that can
\* never be published leave room in the batches.
QueuedIsDelivered ==
  HasRoom => \A m \in ToYou : Queued(m) ~> (messages[m] > 0)

\* An envelope to the peer that is there is published in the end, even when the
\* envelopes to peers that no dial reaches are older and fill batches: the
\* backoff makes room, as long as those rows are too few to fill all the batches
\* within a backoff.  Nothing in the code bounds their number.
NoStarvation ==
  HasRoom =>
    \A m \in ToYou :
      Queued(m) ~> (outbox[m].status = "published")
=============================================================================
