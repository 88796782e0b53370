------------------------------- MODULE Inbox --------------------------------
(***************************************************************************)
(* The receiving half of one PeerComms node: the incoming-envelope         *)
(* processor, ReceiveDirectMessageUseCase, the conversation, message and   *)
(* inbox tables it writes, and the periodic compaction of the inbox.       *)
(*                                                                         *)
(* Several handlers run at once, one per transport stream, and nothing     *)
(* keeps two of them from working on copies of one envelope.  A handler    *)
(* gives the event loop away while it verifies and while it decrypts; the  *)
(* message row and the inbox row are written with no such wait in between  *)
(* (variable loop), but a crash can separate them.                         *)
(*                                                                         *)
(* A new conversation takes the id that the envelope names, and the upsert *)
(* of that id does not ask whose conversation it was.                      *)
(*                                                                         *)
(* Time counts in days, the unit of the inbox retention.                   *)
(***************************************************************************)
EXTENDS Integers, FiniteSets

CONSTANTS Envelopes,      \* envelope ids
          Peers,          \* peer ids of possible senders
          Sender,         \* Sender[e]: fromPeerId of the envelope
          Flaw,           \* Flaw[e]: what is wrong with the envelope
          Lifetime,       \* Lifetime[e]: days to expiresAt, 0 when it has none
          Conversations,  \* conversation ids
          Names,          \* Names[e]: conversationId of the envelope
          OwnIds,         \* conversation ids this node makes (ids.newId)
          Handlers,       \* concurrent executions of the processor
          Retention,      \* retentionDays of the compaction (30 in the code)
          CompactLimit,   \* rows one compaction deletes at most (500 in the code)
          MaxInFlight,    \* bound: copies of one envelope in flight
          MaxCompactions, \* bound: compactions of one envelope
          MaxSends,       \* bound: messages this node sends to a peer
          MaxCrashes,     \* bound: crashes of the process
          Nobody,         \* loop value when no handler holds the event loop
          NoEnvelope,     \* what an idle handler works on
          NoConversation  \* what it files under

Unverifiable == {"unroutable", "misaddressed", "forged"}
Flaws == {"none", "unroutable", "misaddressed", "ahead", "forged", "undecryptable"}

ASSUME InboxAssumption ==
  /\ Sender \in [Envelopes -> Peers]
  /\ Flaw \in [Envelopes -> Flaws]
  /\ Lifetime \in [Envelopes -> Nat]
  /\ Names \in [Envelopes -> Conversations]
  /\ OwnIds \subseteq Conversations
  /\ IsFiniteSet(Handlers)
  /\ Retention \in Nat \ {0}
  /\ CompactLimit \in Nat \ {0}
  /\ MaxInFlight \in Nat
  /\ MaxCompactions \in Nat
  /\ MaxSends \in Nat
  /\ MaxCrashes \in Nat
  /\ Nobody \notin Handlers
  /\ NoEnvelope \notin Envelopes
  /\ NoConversation \notin Conversations

VARIABLES contact,     \* contacts table: peer -> status, "none" when absent
          opened,      \* conversations table: pairs of an id and its peer_id
          clock,       \* lamport_clock of the conversations
          messages,    \* message rows stored for each envelope
          filed,       \* conversation ids those rows carry
          age,         \* days since processed_at of the inbox row, -1: no row
          ttl,         \* days left until expiresAt
          wire,        \* copies of each envelope in flight
          pc,          \* where each handler is
          busy,        \* the envelope each handler works on
          within,      \* the conversation it has found or created for it
          loop,        \* the handler that holds the event loop
          stamped,     \* history: the clock of this node's last message to a peer
          displaced,   \* history: conversations that another peer's replaced
          compactions, \* history: inbox rows of the envelope ever compacted
          crashes      \* crashes so far

tables   == <<opened, clock, stamped, displaced>>
rows     == <<messages, filed, age>>
durable  == <<contact, tables, rows>>
handlers == <<pc, busy, within, loop>>
vars     == <<durable, ttl, wire, handlers, compactions, crashes>>

-----------------------------------------------------------------------------
ContactStatus == {"none", "accepted", "blocked"}

\* inbox.exists
Recorded(e) == age[e] >= 0

\* Mutant of Expired: expiresAt is not looked at.
NeverExpired(e) == FALSE

\* expiresAt <= receivedAt
Expired(e) == Lifetime[e] > 0 /\ ttl[e] = 0

\* Mutant of Admissible: inbox.exists is not asked.
AdmissibleAgain(e) ==
  /\ Flaw[e] \notin {"unroutable", "misaddressed"}
  /\ contact[Sender[e]] = "accepted"
  /\ ~ Expired(e)

\* Nothing up to the verification of the signature turns the envelope away.
Admissible(e) ==
  /\ Flaw[e] \notin {"unroutable", "misaddressed"}
  /\ ~ Recorded(e)
  /\ contact[Sender[e]] = "accepted"
  /\ ~ Expired(e)

Working(h) == pc[h] \in {"verifying", "decrypting"}

\* findDirectByPeerId, as ids: there is at most one, as none is made beside one.
Found(p) == {c \in Conversations : <<c, p>> \in opened}

\* Those whose row an INSERT under the id c would update.
Holders(c) == {p \in Peers : <<c, p>> \in opened}

\* conversations.save(Conversation.direct(c, p)): ON CONFLICT(id) the row gets
\* the peer_id and the lamport_clock of the new conversation.
Opened(c, p) == {row \in opened : row[1] # c} \cup {<<c, p>>}

Init ==
  /\ contact \in [Peers -> ContactStatus]
  /\ opened = {}
  /\ clock = [c \in Conversations |-> 0]
  /\ messages = [e \in Envelopes |-> 0]
  /\ filed = [e \in Envelopes |-> {}]
  /\ age  = [e \in Envelopes |-> -1]
  /\ ttl  = Lifetime
  /\ wire = [e \in Envelopes |-> 0]
  /\ pc   = [h \in Handlers |-> "idle"]
  /\ busy = [h \in Handlers |-> NoEnvelope]
  /\ within = [h \in Handlers |-> NoConversation]
  /\ loop = Nobody
  /\ stamped = [p \in Peers |-> 0]
  /\ displaced = {}
  /\ compactions = [e \in Envelopes |-> 0]
  /\ crashes = 0

-----------------------------------------------------------------------------
(* ReceiveDirectMessageUseCase.execute, behind the envelope processor *)

\* A stream delivers a copy; the checks pass and verification is requested.
Receive(h, e) ==
  /\ loop = Nobody
  /\ pc[h] = "idle"
  /\ wire[e] > 0
  /\ Admissible(e)
  /\ wire' = [wire EXCEPT ![e] = @ - 1]
  /\ pc'   = [pc EXCEPT ![h] = "verifying"]
  /\ busy' = [busy EXCEPT ![h] = e]
  /\ UNCHANGED <<durable, ttl, within, loop, compactions, crashes>>

\* The copy is a duplicate, or a check turns it away.  An envelope from a clock
\* that is ahead is turned away until five minutes before its createdAt.
Dismiss(h, e) ==
  /\ loop = Nobody
  /\ pc[h] = "idle"
  /\ wire[e] > 0
  /\ ~ Admissible(e) \/ Flaw[e] = "ahead"
  /\ wire' = [wire EXCEPT ![e] = @ - 1]
  /\ UNCHANGED <<durable, ttl, handlers, compactions, crashes>>

\* The conversation is found, or it is created under the id the envelope names:
\* whoever had that id has it no more, and its clock starts again.
FileUnder(h) ==
  LET e == busy[h]
      c == Names[e]
      p == Sender[e]
  IN \/ /\ Found(p) # {}
        /\ \E d \in Found(p) : within' = [within EXCEPT ![h] = d]
        /\ UNCHANGED tables
     \/ /\ Found(p) = {}
        /\ within' = [within EXCEPT ![h] = c]
        /\ opened' = Opened(c, p)
        /\ clock' = [clock EXCEPT ![c] = 0]
        /\ displaced' = displaced \cup ({c} \X Holders(c))
        /\ UNCHANGED stamped

\* Mutants of Verified: the envelope is recorded before it is decrypted; the
\* outcome of the verification is ignored; the conversation is not looked for.
VerifiedRecords(h) ==
  /\ loop = Nobody
  /\ pc[h] = "verifying"
  /\ Flaw[busy[h]] # "forged"
  /\ FileUnder(h)
  /\ age' = [age EXCEPT ![busy[h]] = 0]
  /\ pc' = [pc EXCEPT ![h] = "decrypting"]
  /\ UNCHANGED <<contact, messages, filed, ttl, wire, busy, loop, compactions, crashes>>
VerifiedAnyway(h) ==
  /\ loop = Nobody
  /\ pc[h] = "verifying"
  /\ FileUnder(h)
  /\ pc' = [pc EXCEPT ![h] = "decrypting"]
  /\ UNCHANGED <<contact, rows, ttl, wire, busy, loop, compactions, crashes>>
VerifiedUnsought(h) ==
  LET e == busy[h] IN
  /\ loop = Nobody
  /\ pc[h] = "verifying"
  /\ Flaw[e] # "forged"
  /\ within' = [within EXCEPT ![h] = Names[e]]
  /\ opened' = Opened(Names[e], Sender[e])
  /\ clock' = [clock EXCEPT ![Names[e]] = 0]
  /\ displaced' = displaced \cup ({Names[e]} \X (Holders(Names[e]) \ {Sender[e]}))
  /\ pc' = [pc EXCEPT ![h] = "decrypting"]
  /\ UNCHANGED <<contact, rows, stamped, ttl, wire, busy, loop, compactions, crashes>>

\* The signature is valid: the message gets its conversation, which the handler
\* keeps, and the decryption is requested.
Verified(h) ==
  /\ loop = Nobody
  /\ pc[h] = "verifying"
  /\ Flaw[busy[h]] # "forged"
  /\ FileUnder(h)
  /\ pc' = [pc EXCEPT ![h] = "decrypting"]
  /\ UNCHANGED <<contact, rows, ttl, wire, busy, loop, compactions, crashes>>

\* The plaintext is there: messages.save under a new message id and in the
\* conversation found before the wait, with inbox.save to follow.
Decrypted(h) ==
  LET e == busy[h] IN
  /\ loop = Nobody
  /\ pc[h] = "decrypting"
  /\ Flaw[e] # "undecryptable"
  /\ messages' = [messages EXCEPT ![e] = @ + 1]
  /\ filed' = [filed EXCEPT ![e] = @ \cup {within[h]}]
  /\ within' = [within EXCEPT ![h] = NoConversation]
  /\ pc'   = [pc EXCEPT ![h] = "recording"]
  /\ loop' = h
  /\ UNCHANGED <<contact, tables, age, ttl, wire, busy, compactions, crashes>>

\* inbox.save: the row is inserted, or its processed_at is set again.
Record(h) ==
  /\ loop = h
  /\ pc[h] = "recording"
  /\ age'  = [age EXCEPT ![busy[h]] = 0]
  /\ pc'   = [pc EXCEPT ![h] = "announcing"]
  /\ loop' = Nobody
  /\ UNCHANGED <<contact, tables, messages, filed, ttl, wire, busy, within,
                 compactions, crashes>>

\* The signature is invalid, or a crypto call throws: a key is missing, the
\* vault is locked, the payload does not decrypt.  No message is stored and the
\* envelope is not recorded, but the conversation may have been created.
Refuse(h) ==
  /\ loop = Nobody
  /\ Working(h)
  /\ pc'   = [pc EXCEPT ![h] = "idle"]
  /\ busy' = [busy EXCEPT ![h] = NoEnvelope]
  /\ within' = [within EXCEPT ![h] = NoConversation]
  /\ UNCHANGED <<durable, ttl, wire, loop, compactions, crashes>>

\* events.publish resolves and ok(...) is returned.
Leave(h) ==
  /\ loop = Nobody
  /\ pc[h] = "announcing"
  /\ pc'   = [pc EXCEPT ![h] = "idle"]
  /\ busy' = [busy EXCEPT ![h] = NoEnvelope]
  /\ UNCHANGED <<durable, ttl, wire, within, loop, compactions, crashes>>

-----------------------------------------------------------------------------
(* Own sends, compaction, contacts, time, and the process itself *)

\* SendDirectMessageUseCase up to its first wait: the conversation is found or
\* created under a new id, ticked and saved (Outbox has these steps singly).
SendDirectMessage(p) ==
  /\ loop = Nobody
  /\ contact[p] = "accepted"
  /\ stamped[p] < MaxSends
  /\ \E c \in IF Found(p) # {} THEN Found(p)
              ELSE {d \in OwnIds : Holders(d) = {}} :
       /\ opened'  = Opened(c, p)
       /\ clock'   = [clock EXCEPT ![c] = @ + 1]
       /\ stamped' = [stamped EXCEPT ![p] = clock[c] + 1]
  /\ UNCHANGED <<contact, displaced, rows, ttl, wire, handlers, compactions, crashes>>

\* processed_at < cutoff
Stale == {e \in Envelopes : age[e] > Retention}

\* CompactInboxReplayMetadataUseCase: the oldest stale rows are deleted one by
\* one, up to the limit; a crash may leave only the first of them deleted.
Compact ==
  /\ loop = Nobody
  /\ \E S \in SUBSET Stale :
       /\ S # {}
       /\ Cardinality(S) <= CompactLimit
       /\ \A e \in S, f \in Stale \ S : age[e] >= age[f]
       /\ \A e \in S : compactions[e] < MaxCompactions
       /\ age' = [e \in Envelopes |-> IF e \in S THEN -1 ELSE age[e]]
       /\ compactions' = [e \in Envelopes |->
                            IF e \in S THEN compactions[e] + 1 ELSE compactions[e]]
  /\ UNCHANGED <<contact, tables, messages, filed, ttl, wire, handlers, crashes>>

\* BlockPeerUseCase, or ApproveContactRequestUseCase on the contact row.
ChangeContact(p) ==
  /\ loop = Nobody
  /\ \E s \in {"accepted", "blocked"} \ {contact[p]} :
       contact' = [contact EXCEPT ![p] = s]
  /\ UNCHANGED <<tables, rows, ttl, wire, handlers, compactions, crashes>>

\* A day passes.  Ages stop one day past the retention.
Day ==
  /\ loop = Nobody
  /\ age' = [e \in Envelopes |-> IF Recorded(e) /\ age[e] <= Retention
                                 THEN age[e] + 1 ELSE age[e]]
  /\ ttl' = [e \in Envelopes |-> IF ttl[e] > 0 THEN ttl[e] - 1 ELSE 0]
  /\ UNCHANGED <<contact, tables, messages, filed, wire, handlers, compactions, crashes>>

\* The process dies between any two steps and is started again.
CrashRestart ==
  /\ crashes < MaxCrashes
  /\ crashes' = crashes + 1
  /\ pc'   = [h \in Handlers |-> "idle"]
  /\ busy' = [h \in Handlers |-> NoEnvelope]
  /\ within' = [h \in Handlers |-> NoConversation]
  /\ loop' = Nobody
  /\ UNCHANGED <<durable, ttl, wire, compactions>>

NodeNext ==
  \/ \E h \in Handlers, e \in Envelopes : Receive(h, e) \/ Dismiss(h, e)
  \/ \E h \in Handlers : Verified(h) \/ Decrypted(h) \/ Record(h)
                         \/ Refuse(h) \/ Leave(h)
  \/ Compact
  \/ \E p \in Peers : SendDirectMessage(p) \/ ChangeContact(p)
  \/ Day
  \/ CrashRestart

\* The transport brings a copy: a first delivery or a retry of the sender.  An
\* id that this node makes is named by nobody before it is made.
Arrive(e) ==
  /\ wire[e] < MaxInFlight
  /\ Names[e] \in OwnIds => Holders(Names[e]) # {}
  /\ wire' = [wire EXCEPT ![e] = @ + 1]
  /\ UNCHANGED <<durable, ttl, handlers, compactions, crashes>>

\* The stream breaks before its handler has read the envelope.
Lost(e) ==
  /\ wire[e] > 0
  /\ wire' = [wire EXCEPT ![e] = @ - 1]
  /\ UNCHANGED <<durable, ttl, handlers, compactions, crashes>>

Next == NodeNext \/ \E e \in Envelopes : Arrive(e) \/ Lost(e)

Spec == Init /\ [][Next]_vars

-----------------------------------------------------------------------------
(* Properties *)

\* Every variable has its type; a handler that is not idle works on an
\* envelope, and the loop is held only between the two writes.
TypeOK ==
  /\ contact  \in [Peers -> ContactStatus]
  /\ opened   \in SUBSET (Conversations \X Peers)
  /\ clock    \in [Conversations -> Nat]
  /\ messages \in [Envelopes -> Nat]
  /\ filed    \in [Envelopes -> SUBSET Conversations]
  /\ age      \in [Envelopes -> -1..Retention + 1]
  /\ ttl      \in [Envelopes -> Nat]
  /\ wire     \in [Envelopes -> 0..MaxInFlight]
  /\ pc       \in [Handlers -> {"idle", "verifying", "decrypting", "recording", "announcing"}]
  /\ busy     \in [Handlers -> Envelopes \cup {NoEnvelope}]
  /\ within   \in [Handlers -> Conversations \cup {NoConversation}]
  /\ loop     \in Handlers \cup {Nobody}
  /\ stamped  \in [Peers -> Nat]
  /\ displaced \in SUBSET (Conversations \X Peers)
  /\ compactions \in [Envelopes -> 0..MaxCompactions]
  /\ crashes  \in 0..MaxCrashes
  /\ \A h \in Handlers : /\ pc[h] # "idle" => busy[h] \in Envelopes
                         /\ pc[h] = "recording" <=> loop = h
                         /\ pc[h] = "decrypting" <=> within[h] # NoConversation

\* An inbox row, which makes every later copy a duplicate, is never there
\* before the message it stands for, and the conversation of each such message
\* is its sender's: a crash cannot turn a retry into a silent loss, and what was
\* received is found under who sent it.  Excepted are exactly the conversations
\* that an envelope of another peer, naming the same id, has replaced.
RecordedIsStored ==
  \A e \in Envelopes : Recorded(e) =>
    /\ messages[e] > 0
    /\ filed[e] # {}
    /\ filed[e] \X {Sender[e]} \subseteq opened \cup displaced

\* Receiving does not set back the clock that orders this node's own messages:
\* a peer has one conversation, whose clock is that of the last message sent to
\* the peer, unless one of its conversations was replaced.
ClockGoesOn ==
  \A p \in Peers : (\A c \in Conversations : <<c, p>> \notin displaced) =>
    /\ \A c \in Found(p) : Found(p) = {c} /\ clock[c] = stamped[p]
    /\ stamped[p] > 0 => Found(p) # {}

\* The duplicates an envelope can leave are bounded by what causes them: the
\* handlers that may hold a copy when the inbox has no row (again after each
\* compaction), and the crashes that fall between the two writes.
DuplicatesBounded ==
  \A e \in Envelopes :
    messages[e] <= Cardinality(Handlers) * (1 + compactions[e]) + crashes

\* Compaction does not reopen the door to an envelope that expires within the
\* retention: expiresAt refuses it when the inbox no longer knows it.
ExpiryCoversCompaction ==
  \A e \in Envelopes : Lifetime[e] \in 1..Retention =>
    messages[e] <= Cardinality(Handlers) + crashes

\* A damaged envelope leaves no message and does not use up its envelope id;
\* one whose signature does not verify opens no conversation either: each is
\* there for an own send to its peer, or for an envelope that verified.
FlawLeavesNoTrace ==
  /\ \A e \in Envelopes :
       Flaw[e] \notin {"none", "ahead"} => messages[e] = 0 /\ ~ Recorded(e)
  /\ \A c \in Conversations, p \in Peers : <<c, p>> \in opened =>
       \/ c \in OwnIds /\ stamped[p] > 0
       \/ \E e \in Envelopes : Names[e] = c /\ Sender[e] = p /\ Flaw[e] \notin Unverifiable

\* docs/offline-first.md: "Inbound envelopes are deduplicated by `envelopeId`
\* before decryption and message persistence": one message row per envelope.
OneMessagePerEnvelope == \A e \in Envelopes : messages[e] <= 1
=============================================================================
