---------------------------- MODULE ContactTrust ----------------------------
(***************************************************************************)
(* Who may exchange messages with this node: the contact use cases over    *)
(* the tables contacts and contact_requests.                               *)
(*                                                                         *)
(* None of them waits for anything but the synchronous database before its *)
(* rows are written, so each is one action; only the approval writes two   *)
(* rows, and a crash can come in between (variable loop).                  *)
(***************************************************************************)
EXTENDS Integers

CONSTANTS Peers,       \* peer ids
          Outgoing,    \* ids of the requests this node makes
          Incoming,    \* ids of the requests other nodes make
          Peer,        \* Peer[r]: remote_peer_id of the request
          MaxReceipts, \* bound: deliveries of one incoming request
          Free         \* loop value when no handler holds the event loop

Requests == Outgoing \cup Incoming

ASSUME ContactAssumption ==
  /\ Outgoing \cap Incoming = {}
  /\ Peer \in [Requests -> Peers]
  /\ MaxReceipts \in Nat
  /\ Free \notin Requests

VARIABLES contact,  \* contacts: peer -> status
          request,  \* contact_requests: id -> status
          loop,     \* the approval between its two writes
          receipts, \* history: deliveries of each incoming request
          answers,  \* history: approvals and rejections of each request
          approved, \* history: peers one of whose requests was approved
          torn      \* history: requests whose approval lost its second write

contactVars == <<contact, request, loop, receipts, answers, approved, torn>>

-----------------------------------------------------------------------------
ContactStatus == {"none", "accepted", "blocked"}
RequestStatus == {"none", "pending_outbound", "pending_inbound", "accepted", "rejected"}
PendingStatus == {"pending_outbound", "pending_inbound"}

ContactTypeOK ==
  /\ contact \in [Peers -> ContactStatus]
  /\ request \in [Requests -> RequestStatus]
  /\ loop \in Incoming \cup {Free}
  /\ receipts \in [Requests -> 0..MaxReceipts]
  /\ answers \in [Requests -> Nat]
  /\ approved \subseteq Peers
  /\ torn \subseteq Incoming

ContactInit ==
  /\ contact = [p \in Peers |-> "none"]
  /\ request = [r \in Requests |-> "none"]
  /\ loop = Free
  /\ receipts = [r \in Requests |-> 0]
  /\ answers = [r \in Requests |-> 0]
  /\ approved = {}
  /\ torn = {}

\* findPendingWithPeer
PendingWith(p) == {r \in Requests : Peer[r] = p /\ request[r] \in PendingStatus}

-----------------------------------------------------------------------------
\* A new id each time; refused while any request with the peer is pending.
SendContactRequest(r) ==
  /\ loop = Free
  /\ r \in Outgoing
  /\ request[r] = "none"
  /\ PendingWith(Peer[r]) = {}
  /\ request' = [request EXCEPT ![r] = "pending_outbound"]
  /\ UNCHANGED <<contact, loop, receipts, answers, approved, torn>>

\* An upsert: a request delivered again is pending again, answered or not.
ReceiveContactRequest(r) ==
  /\ loop = Free
  /\ r \in Incoming
  /\ receipts[r] < MaxReceipts
  /\ request' = [request EXCEPT ![r] = "pending_inbound"]
  /\ receipts' = [receipts EXCEPT ![r] = @ + 1]
  /\ UNCHANGED <<contact, loop, answers, approved, torn>>

\* Mutant of Approvable: a request this node sent can be approved, too.
ApprovableIfPending(r) == request[r] \in PendingStatus

\* ContactRequest.approve
Approvable(r) == request[r] = "pending_inbound"

\* ApproveContactRequestUseCase: the request's row ...
Approve(r) ==
  /\ loop = Free
  /\ Approvable(r)
  /\ request' = [request EXCEPT ![r] = "accepted"]
  /\ answers' = [answers EXCEPT ![r] = @ + 1]
  /\ loop' = r
  /\ UNCHANGED <<contact, receipts, approved, torn>>

\* Mutant of SaveApproved: only a blocked contact is written.
SaveApprovedIfNew(r) ==
  /\ loop = r
  /\ contact' = [contact EXCEPT ![Peer[r]] = IF @ = "blocked" THEN "accepted" ELSE @]
  /\ approved' = approved \cup {Peer[r]}
  /\ loop' = Free
  /\ UNCHANGED <<request, receipts, answers, torn>>

\* ... then the contact's, whatever it was before: blocked ones too.
SaveApproved(r) ==
  /\ loop = r
  /\ contact' = [contact EXCEPT ![Peer[r]] = "accepted"]
  /\ approved' = approved \cup {Peer[r]}
  /\ loop' = Free
  /\ UNCHANGED <<request, receipts, answers, torn>>

\* Pending either way.
RejectContactRequest(r) ==
  /\ loop = Free
  /\ request[r] \in PendingStatus
  /\ request' = [request EXCEPT ![r] = "rejected"]
  /\ answers' = [answers EXCEPT ![r] = @ + 1]
  /\ UNCHANGED <<contact, loop, receipts, approved, torn>>

\* A peer that is no contact yet gets a row, too; its requests stay pending.
BlockPeer(p) ==
  /\ loop = Free
  /\ contact' = [contact EXCEPT ![p] = "blocked"]
  /\ UNCHANGED <<request, loop, receipts, answers, approved, torn>>

\* The process dies and is started again; only an approval has a write to lose.
ContactCrash ==
  /\ loop' = Free
  /\ torn' = IF loop = Free THEN torn ELSE torn \cup {loop}
  /\ UNCHANGED <<contact, request, receipts, answers, approved>>

ContactNext ==
  \/ \E r \in Requests : \/ SendContactRequest(r) \/ ReceiveContactRequest(r)
                         \/ Approve(r) \/ SaveApproved(r)
                         \/ RejectContactRequest(r)
  \/ \E p \in Peers : BlockPeer(p)

-----------------------------------------------------------------------------
(* A peer is an accepted contact only if it asked, in a request this node  *)
(* received, and the user approved: sending it a request, blocking it, and *)
(* any mix of deliveries, answers and crashes do not make it one           *)
(* (ContactRequest.approve, Contact.accepted).                             *)
AcceptedHaveAsked ==
  \A p \in Peers : contact[p] = "accepted" =>
    /\ p \in approved
    /\ \E r \in Incoming : Peer[r] = p /\ receipts[r] > 0

(* At most one request of this node to a peer is pending, whatever the     *)
(* peer's own requests do meanwhile (SendContactRequestUseCase).           *)
OneOutboundPending ==
  \A r, s \in Outgoing :
    request[r] = "pending_outbound" /\ request[s] = "pending_outbound"
    /\ Peer[r] = Peer[s] => r = s

(* A request is answered at most once for each time it was delivered, or   *)
(* sent: an answer is not taken back by another answer, only by another    *)
(* delivery (approve, reject).                                             *)
OneAnswerPerRequest ==
  \A r \in Requests : answers[r] <= IF r \in Outgoing THEN 1 ELSE receipts[r]

(* An accepted request leaves a contact row behind, unless the process     *)
(* died between the two writes; then the request cannot be approved again  *)
(* (ApproveContactRequestUseCase).                                         *)
AcceptedHasContact ==
  \A r \in Incoming :
    request[r] = "accepted" /\ loop # r /\ r \notin torn => contact[Peer[r]] # "none"
=============================================================================
