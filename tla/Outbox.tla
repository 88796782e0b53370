------------------------------- MODULE Outbox -------------------------------
(***************************************************************************)
(* The sending half of one PeerComms node: SendDirectMessageUseCase, the   *)
(* message and outbox tables it writes, and the daemon's periodic          *)
(* RetryOutboxMessagesUseCase, which hands queued envelopes to the         *)
(* transport.                                                              *)
(*                                                                         *)
(* An element of Msgs is one call of SendDirectMessageUseCase.execute; it  *)
(* names the message row, the envelope and the outbox row that call makes. *)
(*                                                                         *)
(* The SQLite adapter is synchronous, so a handler gives the event loop    *)
(* away only where it waits for the crypto pool or for the network.  Two   *)
(* database writes with no such wait between them are two actions, the     *)
(* loop being held in between (variable loop): no other handler can run    *)
(* there, but the process can crash there.                                 *)
(*                                                                         *)
(* Time counts in units of the 1000 ms that the backoff starts from, and   *)
(* is kept relative: next_attempt_at is the time left until it.            *)
(***************************************************************************)
EXTENDS Integers, FiniteSets

CONSTANTS Msgs,        \* calls of SendDirectMessageUseCase.execute
          Peers,       \* peer ids of possible recipients
          Recipient,   \* Recipient[m]: input.toPeerId of the call m
          Reachable,   \* peers that a dial can reach
          Rejecting,   \* peers whose refusal the transport throws at the sender
          Runs,        \* identities for executions of the delivery task
          Limit,       \* outbox rows one execution takes (50 in the code)
          Interval,    \* period of the delivery task (2 units in the code)
          Cap,         \* longest backoff (60 units in the code)
          MaxRetry,    \* retry counts from here on back off by Cap
          MaxDial,     \* longest time one publish takes
          MaxInFlight, \* bound: copies of one envelope in flight
          MaxCrashes,  \* bound: crashes of the process
          Nobody       \* loop value when no handler holds the event loop

ASSUME OutboxAssumption ==
  /\ Recipient \in [Msgs -> Peers]
  /\ Reachable \subseteq Peers
  /\ Rejecting \subseteq Peers
  /\ IsFiniteSet(Msgs)
  /\ Limit \in Nat \ {0}
  /\ Interval \in Nat \ {0}
  /\ Cap \in Nat \ {0}
  /\ MaxRetry \in Nat
  /\ MaxDial \in Nat
  /\ MaxInFlight \in Nat
  /\ MaxCrashes \in Nat
  /\ Nobody \notin Msgs

VARIABLES contact,   \* contacts table: peer -> status, "none" when absent
          clock,     \* lamport_clock of the direct conversation, -1 when absent
          stored,    \* messages rows written by a send
          stamp,     \* lamport clock a send took from its conversation
          begun,     \* sends begun so far
          born,      \* rank of the send's start: the order of created_at
          outbox,    \* outbox rows
          send,      \* where each send handler is
          loop,      \* the send that holds the event loop between two writes
          due,       \* the rows an execution of the task still has to publish
          phase,     \* what an execution does with the oldest of them
          elapsed,   \* time since the execution read the clock (its `now`)
          dialed,    \* time since its current publish began
          timer,     \* time until the task's interval fires
          wire,      \* copies of each envelope in flight
          handed,    \* history: envelopes the transport ever delivered to a peer
          crashes    \* crashes so far

durable  == <<contact, clock, stored, outbox>>
handlers == <<send, loop, stamp, begun, born>>
task     == <<due, phase, elapsed, dialed, timer>>
vars     == <<contact, clock, stored, stamp, begun, born, outbox, send, loop, due,
              phase, elapsed, dialed, timer, wire, handed, crashes>>

-----------------------------------------------------------------------------
ContactStatus == {"none", "accepted", "blocked"}
OutboxStatus  == {"none", "queued_until_reachable", "published"}
SendState     == {"idle", "opening", "encrypting", "signing", "queueing",
                  "announcing", "ok", "refused", "failed", "lost"}

\* A send in one of these states dies with the process.
InProgress == {"opening", "encrypting", "signing", "queueing", "announcing"}

NoRow == [status |-> "none", retry |-> 0, wait |-> 0]
OutboxRow == [status : OutboxStatus, retry : 0..MaxRetry, wait : 0..Cap]

Queued(m) == outbox[m].status = "queued_until_reachable"

\* Mutants of Backoff: no cap, from the incremented count; no backoff at all.
BackoffUncapped(retry) == 2 ^ (retry + 1)
NoBackoff(retry) == 0

\* Math.min(60_000, 1000 * 2 ** retryCount), a power of two being positive.
Backoff(retry) == LET ms == 2 ^ retry IN IF ms \in 1..Cap THEN ms ELSE Cap

Less(a, b) == IF a > b THEN a - b ELSE 0

\* OutboxEntry.scheduleRetry(now + backoff, now), `now` being the time at which
\* the execution started and not the time at which the publish failed.  The
\* count stops at MaxRetry, where it no longer changes the backoff.
ScheduleRetry(row, since) ==
  [status |-> "queued_until_reachable",
   retry  |-> IF row.retry < MaxRetry THEN row.retry + 1 ELSE row.retry,
   wait   |-> Less(Backoff(row.retry), since)]

\* findDue: rows whose attempt is due, oldest first, at most k of them.
Oldest(S, k) ==
  {m \in S : Cardinality({n \in S : born[n] < born[m]}) < k}
FindDue == Oldest({m \in Msgs : Queued(m) /\ outbox[m].wait = 0}, Limit)

\* The row the loop of execute is at.
Current(r, m) == m \in due[r] /\ \A n \in due[r] : born[m] <= born[n]

Init ==
  /\ contact \in [Peers -> ContactStatus]
  /\ clock   = [p \in Peers |-> -1]
  /\ stored  = {}
  /\ stamp   = [m \in Msgs |-> 0]
  /\ begun   = 0
  /\ born    = [m \in Msgs |-> 0]
  /\ outbox  = [m \in Msgs |-> NoRow]
  /\ send    = [m \in Msgs |-> "idle"]
  /\ loop    = Nobody
  /\ due     = [r \in Runs |-> {}]
  /\ phase   = [r \in Runs |-> "idle"]
  /\ elapsed = [r \in Runs |-> 0]
  /\ dialed  = [r \in Runs |-> 0]
  /\ timer   = 0
  /\ wire    = [m \in Msgs |-> 0]
  /\ handed  = {}
  /\ crashes = 0

-----------------------------------------------------------------------------
(* SendDirectMessageUseCase.execute *)

\* Mutant of SendStart: the ticked conversation is not saved again.
SendStartUnsaved(m) ==
  LET p == Recipient[m] IN
  /\ loop = Nobody
  /\ send[m] = "idle"
  /\ contact[p] = "accepted"
  /\ begun' = begun + 1
  /\ born'  = [born EXCEPT ![m] = begun + 1]
  /\ clock' = [clock EXCEPT ![p] = IF @ = -1 THEN 0 ELSE @]
  /\ stamp' = [stamp EXCEPT ![m] = clock'[p] + 1]
  /\ send'  = [send EXCEPT ![m] = "encrypting"]
  /\ UNCHANGED <<contact, stored, outbox, loop, task, wire, handed, crashes>>

\* The contact check, and the first write when the conversation is new.
SendStart(m) ==
  LET p == Recipient[m] IN
  /\ loop = Nobody
  /\ send[m] = "idle"
  /\ contact[p] = "accepted"
  /\ begun' = begun + 1
  /\ born'  = [born EXCEPT ![m] = begun + 1]
  /\ IF clock[p] = -1
       THEN /\ clock' = [clock EXCEPT ![p] = 0]
            /\ send'  = [send EXCEPT ![m] = "opening"]
            /\ loop'  = m
            /\ stamp' = stamp
       ELSE /\ clock' = [clock EXCEPT ![p] = @ + 1]
            /\ stamp' = [stamp EXCEPT ![m] = clock[p] + 1]
            /\ send'  = [send EXCEPT ![m] = "encrypting"]
            /\ loop'  = loop
  /\ UNCHANGED <<contact, stored, outbox, task, wire, handed, crashes>>

SendRefused(m) ==
  /\ loop = Nobody
  /\ send[m] = "idle"
  /\ contact[Recipient[m]] # "accepted"
  /\ send' = [send EXCEPT ![m] = "refused"]
  /\ UNCHANGED <<durable, loop, stamp, begun, born, task, wire, handed, crashes>>

\* conversation.tick and the save that follows the creation of a conversation.
SendTick(m) ==
  LET p == Recipient[m] IN
  /\ loop = m
  /\ send[m] = "opening"
  /\ clock' = [clock EXCEPT ![p] = @ + 1]
  /\ stamp' = [stamp EXCEPT ![m] = clock[p] + 1]
  /\ send'  = [send EXCEPT ![m] = "encrypting"]
  /\ loop'  = Nobody
  /\ UNCHANGED <<contact, stored, outbox, begun, born, task, wire, handed, crashes>>

\* encryptDirect resolves; the message becomes 'encrypted' in memory and the
\* signature is requested.
SendEncrypted(m) ==
  /\ loop = Nobody
  /\ send[m] = "encrypting"
  /\ send' = [send EXCEPT ![m] = "signing"]
  /\ UNCHANGED <<durable, loop, stamp, begun, born, task, wire, handed, crashes>>

\* Mutant of SendSigned: the outbox row is written in place of the message.
SendSignedOutboxFirst(m) ==
  /\ loop = Nobody
  /\ send[m] = "signing"
  /\ outbox' = [outbox EXCEPT ![m] = [NoRow EXCEPT !.status = "queued_until_reachable"]]
  /\ send' = [send EXCEPT ![m] = "queueing"]
  /\ loop' = m
  /\ UNCHANGED <<contact, clock, stored, stamp, begun, born, task, wire, handed, crashes>>

\* signEnvelope resolves: messages.save, with outbox.save to follow.
SendSigned(m) ==
  /\ loop = Nobody
  /\ send[m] = "signing"
  /\ stored' = stored \cup {m}
  /\ send' = [send EXCEPT ![m] = "queueing"]
  /\ loop' = m
  /\ UNCHANGED <<contact, clock, outbox, stamp, begun, born, task, wire, handed, crashes>>

\* Mutant of SendQueued: the send goes on without its outbox row.
SendQueuedUnsaved(m) ==
  /\ loop = m
  /\ send[m] = "queueing"
  /\ send' = [send EXCEPT ![m] = "announcing"]
  /\ loop' = Nobody
  /\ UNCHANGED <<durable, stamp, begun, born, task, wire, handed, crashes>>

\* outbox.save(OutboxEntry.queue(...)); the events are then published.
SendQueued(m) ==
  /\ loop = m
  /\ send[m] = "queueing"
  /\ outbox' = [outbox EXCEPT ![m] = [NoRow EXCEPT !.status = "queued_until_reachable"]]
  /\ send' = [send EXCEPT ![m] = "announcing"]
  /\ loop' = Nobody
  /\ UNCHANGED <<contact, clock, stored, stamp, begun, born, task, wire, handed, crashes>>

\* events.publish resolves (webhooks included) and ok(...) is returned.
SendReturned(m) ==
  /\ loop = Nobody
  /\ send[m] = "announcing"
  /\ send' = [send EXCEPT ![m] = "ok"]
  /\ UNCHANGED <<durable, loop, stamp, begun, born, task, wire, handed, crashes>>

\* encryptDirect or signEnvelope throws: a key is missing or the vault is locked.
SendFailed(m) ==
  /\ loop = Nobody
  /\ send[m] \in {"encrypting", "signing"}
  /\ send' = [send EXCEPT ![m] = "failed"]
  /\ UNCHANGED <<durable, loop, stamp, begun, born, task, wire, handed, crashes>>

Send(m) == \/ SendStart(m) \/ SendRefused(m) \/ SendTick(m) \/ SendEncrypted(m)
           \/ SendSigned(m) \/ SendQueued(m) \/ SendReturned(m) \/ SendFailed(m)

-----------------------------------------------------------------------------
(* The delivery task: runMaintenance and RetryOutboxMessagesUseCase.execute *)

\* Mutant of TimerFires: no guard against a second execution of the task.
TimerFiresAgain ==
  /\ loop = Nobody
  /\ timer = 0
  /\ timer' = Interval
  /\ IF \E r \in Runs : phase[r] = "idle"
       THEN \E r \in {q \in Runs : phase[q] = "idle"} :
              /\ due'     = [due EXCEPT ![r] = FindDue]
              /\ phase'   = [phase EXCEPT ![r] = IF FindDue = {} THEN "idle" ELSE "dialing"]
              /\ elapsed' = [elapsed EXCEPT ![r] = 0]
              /\ dialed'  = [dialed EXCEPT ![r] = 0]
       ELSE UNCHANGED <<due, phase, elapsed, dialed>>
  /\ UNCHANGED <<durable, handlers, wire, handed, crashes>>

\* The interval fires.  runMaintenance skips the tick while an execution of the
\* task is unfinished; otherwise execute reads the clock and the due rows.
TimerFires ==
  /\ loop = Nobody
  /\ timer = 0
  /\ timer' = Interval
  /\ IF \A r \in Runs : phase[r] = "idle"
       THEN \E r \in Runs :
              /\ due'     = [due EXCEPT ![r] = FindDue]
              /\ phase'   = [phase EXCEPT ![r] = IF FindDue = {} THEN "idle" ELSE "dialing"]
              /\ elapsed' = [elapsed EXCEPT ![r] = 0]
              /\ dialed'  = [dialed EXCEPT ![r] = 0]
       ELSE UNCHANGED <<due, phase, elapsed, dialed>>
  /\ UNCHANGED <<durable, handlers, wire, handed, crashes>>

\* The envelope reaches the peer while the publish is still pending.
Handed(r, m) ==
  /\ Current(r, m)
  /\ phase[r] = "dialing"
  /\ Recipient[m] \in Reachable
  /\ wire[m] < MaxInFlight
  /\ wire'   = [wire EXCEPT ![m] = @ + 1]
  /\ handed' = handed \cup {m}
  /\ phase'  = [phase EXCEPT ![r] = "handed"]
  /\ UNCHANGED <<durable, handlers, due, elapsed, dialed, timer, crashes>>

\* The loop of execute goes on to the next row, or ends.
Advance(r, m) ==
  /\ due'    = [due EXCEPT ![r] = @ \ {m}]
  /\ phase'  = [phase EXCEPT ![r] = IF due[r] \ {m} = {} THEN "idle" ELSE "dialing"]
  /\ dialed' = [dialed EXCEPT ![r] = 0]
  /\ elapsed' = [elapsed EXCEPT ![r] = IF due[r] \ {m} = {} THEN 0 ELSE @]
  /\ UNCHANGED timer

\* Mutant of Published: whatever publish resolves to counts as published.
PublishedAlways(r, m) ==
  /\ loop = Nobody
  /\ Current(r, m)
  /\ phase[r] # "idle"
  /\ outbox' = [outbox EXCEPT ![m].status = "published"]
  /\ Advance(r, m)
  /\ UNCHANGED <<contact, clock, stored, handlers, wire, handed, crashes>>

\* publish resolves to 'published': markPublished, outbox.save.
Published(r, m) ==
  /\ loop = Nobody
  /\ Current(r, m)
  /\ phase[r] = "handed"
  /\ outbox' = [outbox EXCEPT ![m].status = "published"]
  /\ Advance(r, m)
  /\ UNCHANGED <<contact, clock, stored, handlers, wire, handed, crashes>>

\* Mutant of Unreachable: a failed publish ends the entry.
UnreachableGivesUp(r, m) ==
  /\ loop = Nobody
  /\ Current(r, m)
  /\ phase[r] \in {"dialing", "handed"}
  /\ outbox' = [outbox EXCEPT ![m].status = "published"]
  /\ Advance(r, m)
  /\ UNCHANGED <<contact, clock, stored, handlers, wire, handed, crashes>>

\* publish resolves to 'peer_unreachable', which a failing stream.close also
\* does after the envelope was delivered: scheduleRetry, outbox.save.
Unreachable(r, m) ==
  /\ loop = Nobody
  /\ Current(r, m)
  /\ phase[r] \in {"dialing", "handed"}
  /\ outbox' = [outbox EXCEPT ![m] = ScheduleRetry(@, elapsed[r])]
  /\ Advance(r, m)
  /\ UNCHANGED <<contact, clock, stored, handlers, wire, handed, crashes>>

\* publish throws (the in-memory transport lets the receiver's error through):
\* execute is abandoned, the row and the rows after it are left as they were.
PublishThrows(r, m) ==
  /\ loop = Nobody
  /\ Current(r, m)
  /\ phase[r] = "handed"
  /\ Recipient[m] \in Rejecting
  /\ due'     = [due EXCEPT ![r] = {}]
  /\ phase'   = [phase EXCEPT ![r] = "idle"]
  /\ dialed'  = [dialed EXCEPT ![r] = 0]
  /\ elapsed' = [elapsed EXCEPT ![r] = 0]
  /\ UNCHANGED <<durable, handlers, timer, wire, handed, crashes>>

Resolve(r, m) == Published(r, m) \/ Unreachable(r, m) \/ PublishThrows(r, m)

-----------------------------------------------------------------------------
(* The node's other handlers, time, and the process itself *)

\* BlockPeerUseCase, or ApproveContactRequestUseCase on the contact row.
ChangeContact(p) ==
  /\ loop = Nobody
  /\ \E s \in {"accepted", "blocked"} \ {contact[p]} :
       contact' = [contact EXCEPT ![p] = s]
  /\ UNCHANGED <<clock, stored, outbox, handlers, task, wire, handed, crashes>>

\* One unit of time.  A due interval fires first, the event loop being free,
\* and no publish lasts longer than MaxDial.
Tick ==
  /\ loop = Nobody
  /\ timer > 0
  /\ \A r \in Runs : phase[r] # "idle" => dialed[r] < MaxDial
  /\ timer'   = timer - 1
  /\ outbox'  = [m \in Msgs |-> [outbox[m] EXCEPT !.wait = Less(@, 1)]]
  /\ elapsed' = [r \in Runs |-> IF phase[r] # "idle" /\ elapsed[r] < Cap
                                THEN elapsed[r] + 1 ELSE elapsed[r]]
  /\ dialed'  = [r \in Runs |-> IF phase[r] # "idle" THEN dialed[r] + 1 ELSE dialed[r]]
  /\ UNCHANGED <<contact, clock, stored, handlers, due, phase, wire, handed, crashes>>

\* The process dies between any two steps and is started again: handlers and
\* executions are gone, the tables stay, the task runs on start.
CrashRestart ==
  /\ crashes < MaxCrashes
  /\ crashes' = crashes + 1
  /\ send'    = [m \in Msgs |-> IF send[m] \in InProgress THEN "lost" ELSE send[m]]
  /\ loop'    = Nobody
  /\ due'     = [r \in Runs |-> {}]
  /\ phase'   = [r \in Runs |-> "idle"]
  /\ elapsed' = [r \in Runs |-> 0]
  /\ dialed'  = [r \in Runs |-> 0]
  /\ timer'   = 0
  /\ UNCHANGED <<durable, stamp, begun, born, wire, handed>>

\* What the node does, its environment's answers to a dial included.
NodeNext ==
  \/ \E m \in Msgs : Send(m)
  \/ TimerFires
  \/ \E r \in Runs, m \in Msgs : Handed(r, m) \/ Resolve(r, m)
  \/ \E p \in Peers : ChangeContact(p)
  \/ Tick
  \/ CrashRestart

\* An envelope leaves the network: its recipient takes it, or it is lost.
Taken(m) ==
  /\ wire[m] > 0
  /\ wire' = [wire EXCEPT ![m] = @ - 1]
  /\ UNCHANGED <<durable, handlers, task, handed, crashes>>

Next == NodeNext \/ \E m \in Msgs : Taken(m)

Spec == Init /\ [][Next]_vars

-----------------------------------------------------------------------------
(* Properties *)

\* Every variable has its type: rows keep the statuses the code ever writes,
\* and nobody holds the event loop but a send between two of its writes.
TypeOK ==
  /\ contact \in [Peers -> ContactStatus]
  /\ clock   \in [Peers -> Nat \cup {-1}]
  /\ stored  \in SUBSET Msgs
  /\ stamp   \in [Msgs -> Nat]
  /\ begun   \in Nat
  /\ born    \in [Msgs -> 0..begun]
  /\ outbox  \in [Msgs -> OutboxRow]
  /\ send    \in [Msgs -> SendState]
  /\ loop    \in Msgs \cup {Nobody}
  /\ loop # Nobody => send[loop] \in {"opening", "queueing"}
  /\ due     \in [Runs -> SUBSET Msgs]
  /\ phase   \in [Runs -> {"idle", "dialing", "handed"}]
  /\ elapsed \in [Runs -> 0..Cap]
  /\ dialed  \in [Runs -> 0..MaxDial]
  /\ timer   \in 0..Interval
  /\ wire    \in [Msgs -> 0..MaxInFlight]
  /\ handed  \in SUBSET Msgs
  /\ crashes \in 0..MaxCrashes

\* A send that answered ok, and so promised 'queued_until_reachable', has its
\* row in the outbox whatever crashes happened since.
ReportedIsQueued ==
  \A m \in Msgs : send[m] \in {"announcing", "ok"} => outbox[m].status # "none"

\* Every envelope in the outbox has its message in the messages table: nothing
\* is delivered that the sender's own history does not show.
QueuedIsStored == \A m \in Msgs : outbox[m].status # "none" => m \in stored

\* A row is published only when the transport did deliver the envelope to the
\* peer at least once, in this or in an earlier life of the process.
PublishedWasHanded ==
  \A m \in Msgs : outbox[m].status = "published" => m \in handed

\* Published is final: the row stays published, however executions of the
\* delivery task, crashes and restarts interleave, and the envelope is not
\* handed to the transport again.
PublishedStays ==
  \A m \in Msgs : outbox[m].status = "published" =>
    /\ outbox'[m].status = "published"
    /\ wire'[m] <= wire[m]
PublishedIsFinal == [][PublishedStays]_vars

\* The Lamport clocks of a node's own messages to one peer are distinct and in
\* the order in which the sends began, although handlers interleave at the
\* crypto calls and crash between the clock's save and the message's.
\* An envelope received under the conversation's id sets its clock back: that is
\* the other half of the node, and Inbox has it (ClockGoesOn).
OwnMessagesInSendOrder ==
  \A m, n \in stored : Recipient[m] = Recipient[n] /\ born[m] < born[n] =>
    stamp[m] < stamp[n]
=============================================================================
