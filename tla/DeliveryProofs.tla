--------------------------- MODULE DeliveryProofs ---------------------------
(***************************************************************************)
(* The sender: the safety properties of Outbox hold for every set of sends *)
(* and peers, every batch limit, interval, backoff cap and number of       *)
(* crashes.  Two nodes: whatever DirectDelivery does is a behaviour of the *)
(* sender and one of the recipient, and implements StoreAndForward.        *)
(***************************************************************************)
EXTENDS DirectDelivery, TLAPS

-----------------------------------------------------------------------------
(* The inductive invariant: what the properties leave unsaid about handlers   *)
(* in progress and about rows an execution of the task has loaded.            *)

\* A send that has not come to outbox.save has no row, one that has come past
\* it has one; between the two writes the message is stored.
SendsInv ==
  \A m \in Msgs :
    /\ send[m] \in {"idle", "opening", "encrypting", "signing", "queueing"}
         => outbox[m].status = "none"
    /\ send[m] \in {"announcing", "ok"} => outbox[m].status # "none"
    /\ send[m] = "queueing" => m \in stored
    /\ outbox[m].status # "none" => m \in stored

\* Starts are numbered without repetition.
BornInv ==
  /\ \A m \in Msgs : send[m] = "idle" => born[m] = 0
  /\ \A m, n \in Msgs : born[m] > 0 /\ born[m] = born[n] => m = n
  /\ \A m \in Msgs : outbox[m].status # "none" \/ m \in stored => born[m] > 0
  /\ \A m \in Msgs : send[m] \in InProgress => born[m] > 0

\* One execution at a time has rows to publish, and those rows are queued.
TaskInv ==
  /\ \A r \in Runs : phase[r] = "idle" <=> due[r] = {}
  /\ \A r, s \in Runs : phase[r] # "idle" /\ phase[s] # "idle" => r = s
  /\ \A r \in Runs : \A m \in due[r] : Queued(m)

\* A publish that delivered is remembered, and so is a published row.
HandedInv ==
  /\ \A r \in Runs, m \in Msgs : phase[r] = "handed" /\ Current(r, m) => m \in handed
  /\ \A m \in Msgs : outbox[m].status = "published" => m \in handed

Inv == TypeOK /\ SendsInv /\ BornInv /\ TaskInv /\ HandedInv

-----------------------------------------------------------------------------
\* min(Cap, 2^retry) lies between one unit and the cap.
LEMMA BackoffRange ==
  ASSUME NEW k
  PROVE  Backoff(k) \in 1..Cap
BY OutboxAssumption DEF Backoff

\* Subtraction that stops at zero stays below what it subtracts from.
LEMMA LessRange ==
  ASSUME NEW a \in Nat, NEW b \in Nat
  PROVE  Less(a, b) \in 0..a
BY DEF Less

\* Rescheduling yields a queued row that satisfies the type of a row.
LEMMA ScheduleRetryType ==
  ASSUME NEW row \in OutboxRow, NEW since \in 0..Cap
  PROVE  /\ ScheduleRetry(row, since) \in OutboxRow
         /\ ScheduleRetry(row, since).status = "queued_until_reachable"
<1> DEFINE b == Backoff(row.retry)
<1>1. b \in 1..Cap
  BY BackoffRange
<1>2. b \in Nat /\ since \in Nat
  BY <1>1, OutboxAssumption
<1>3. Less(b, since) \in 0..Cap
  <2>1. Less(b, since) \in 0..b
    BY <1>2, LessRange
  <2>2. b <= Cap /\ Cap \in Nat
    BY <1>1, OutboxAssumption
  <2> QED BY <1>2, <2>1, <2>2
<1>4. (IF row.retry < MaxRetry THEN row.retry + 1 ELSE row.retry) \in 0..MaxRetry
  BY OutboxAssumption DEF OutboxRow
<1> QED
  BY <1>3, <1>4 DEF ScheduleRetry, OutboxRow, OutboxStatus

\* What findDue returns is queued.
LEMMA FindDueQueued ==
  FindDue \subseteq {m \in Msgs : Queued(m)}
BY DEF FindDue, Oldest

-----------------------------------------------------------------------------
LEMMA InitInv == Init => Inv
<1> SUFFICES ASSUME Init PROVE Inv
  OBVIOUS
<1> USE OutboxAssumption DEF Init
<1>1. TypeOK
  BY DEF TypeOK, ContactStatus, OutboxRow, OutboxStatus, SendState, NoRow
<1>2. SendsInv /\ BornInv
  BY DEF SendsInv, BornInv, NoRow, InProgress
<1>3. TaskInv /\ HandedInv
  BY DEF TaskInv, HandedInv, Current, NoRow
<1> QED
  BY <1>1, <1>2, <1>3 DEF Inv

\* Every step keeps the types.
LEMMA StepType ==
  ASSUME TypeOK, [Next]_vars
  PROVE  TypeOK'
<1> USE OutboxAssumption DEF TypeOK, SendState, durable, handlers, task
<1>1. ASSUME NEW m \in Msgs, SendStart(m) PROVE TypeOK'
  BY <1>1 DEF SendStart
<1>2. ASSUME NEW m \in Msgs, SendRefused(m) PROVE TypeOK'
  BY <1>2 DEF SendRefused
<1>3. ASSUME NEW m \in Msgs, SendTick(m) PROVE TypeOK'
  BY <1>3 DEF SendTick
<1>4. ASSUME NEW m \in Msgs, SendEncrypted(m) PROVE TypeOK'
  BY <1>4 DEF SendEncrypted
<1>5. ASSUME NEW m \in Msgs, SendSigned(m) PROVE TypeOK'
  BY <1>5 DEF SendSigned
<1>6. ASSUME NEW m \in Msgs, SendQueued(m) PROVE TypeOK'
  <2>1. [NoRow EXCEPT !.status = "queued_until_reachable"] \in OutboxRow
    BY OutboxAssumption DEF NoRow, OutboxRow, OutboxStatus
  <2> QED BY <1>6, <2>1 DEF SendQueued
<1>7. ASSUME NEW m \in Msgs, SendReturned(m) PROVE TypeOK'
  BY <1>7 DEF SendReturned
<1>8. ASSUME NEW m \in Msgs, SendFailed(m) PROVE TypeOK'
  BY <1>8 DEF SendFailed
<1>9. ASSUME TimerFires PROVE TypeOK'
  <2>1. CASE \A r \in Runs : phase[r] = "idle"
    BY <1>9, <2>1, FindDueQueued DEF TimerFires
  <2>2. CASE ~ \A r \in Runs : phase[r] = "idle"
    BY <1>9, <2>2 DEF TimerFires
  <2> QED BY <2>1, <2>2
<1>10. ASSUME NEW r \in Runs, NEW m \in Msgs, Handed(r, m) PROVE TypeOK'
  BY <1>10 DEF Handed
<1>11. ASSUME NEW r \in Runs, NEW m \in Msgs, Published(r, m) PROVE TypeOK'
  <2>1. outbox' \in [Msgs -> OutboxRow]
    BY <1>11 DEF Published, OutboxRow, OutboxStatus
  <2> QED BY <1>11, <2>1 DEF Published, Advance
<1>12. ASSUME NEW r \in Runs, NEW m \in Msgs, Unreachable(r, m) PROVE TypeOK'
  <2>1. outbox' \in [Msgs -> OutboxRow]
    BY <1>12, ScheduleRetryType DEF Unreachable
  <2> QED BY <1>12, <2>1 DEF Unreachable, Advance
<1>13. ASSUME NEW r \in Runs, NEW m \in Msgs, PublishThrows(r, m) PROVE TypeOK'
  BY <1>13 DEF PublishThrows
<1>14. ASSUME NEW p \in Peers, ChangeContact(p) PROVE TypeOK'
  BY <1>14 DEF ChangeContact, ContactStatus
<1>15. ASSUME Tick PROVE TypeOK'
  <2>1. outbox' \in [Msgs -> OutboxRow]
    <3>1. ASSUME NEW m \in Msgs
          PROVE  [outbox[m] EXCEPT !.wait = Less(@, 1)] \in OutboxRow
      <4>1. Less(outbox[m].wait, 1) \in 0..Cap
        BY DEF OutboxRow, Less
      <4> QED BY <4>1 DEF OutboxRow
    <3> QED BY <1>15, <3>1 DEF Tick
  <2>2. elapsed' \in [Runs -> 0..Cap] /\ dialed' \in [Runs -> 0..MaxDial]
    BY <1>15 DEF Tick
  <2>3. timer' \in 0..Interval
    BY <1>15 DEF Tick
  <2> QED BY <1>15, <2>1, <2>2, <2>3 DEF Tick
<1>16. ASSUME CrashRestart PROVE TypeOK'
  BY <1>16 DEF CrashRestart, InProgress
<1>17. ASSUME NEW m \in Msgs, Taken(m) PROVE TypeOK'
  BY <1>17 DEF Taken
<1>18. ASSUME UNCHANGED vars PROVE TypeOK'
  BY <1>18 DEF vars
<1> QED
  BY <1>1, <1>2, <1>3, <1>4, <1>5, <1>6, <1>7, <1>8, <1>9, <1>10, <1>11,
     <1>12, <1>13, <1>14, <1>15, <1>16, <1>17, <1>18
  DEF Next, NodeNext, Send, Resolve


\* Sends, retries and crashes leave sends and rows consistent.
LEMMA StepSends ==
  ASSUME Inv, [Next]_vars
  PROVE  SendsInv'
<1> USE DEF Inv, TypeOK, SendsInv, SendState, durable, handlers, task
<1>1. ASSUME NEW m \in Msgs, Send(m) PROVE SendsInv'
  BY <1>1 DEF Send, SendStart, SendRefused, SendTick, SendEncrypted, SendSigned,
              SendQueued, SendReturned, SendFailed, NoRow, OutboxRow
<1>2. ASSUME NEW r \in Runs, NEW m \in Msgs, Published(r, m) PROVE SendsInv'
  BY <1>2 DEF Published, TaskInv, Current, Queued, OutboxRow
<1>3. ASSUME NEW r \in Runs, NEW m \in Msgs, Unreachable(r, m) PROVE SendsInv'
  <2>1. \A n \in Msgs : outbox'[n].status = "none" <=> outbox[n].status = "none"
    BY <1>3, ScheduleRetryType DEF Unreachable, TaskInv, Current, Queued
  <2> QED BY <1>3, <2>1 DEF Unreachable
<1>4. ASSUME Tick PROVE SendsInv'
  BY <1>4 DEF Tick, OutboxRow
<1>5. ASSUME CrashRestart PROVE SendsInv'
  BY <1>5 DEF CrashRestart, InProgress
<1>6. CASE UNCHANGED <<send, stored, outbox>>
  BY <1>6
<1> QED
  BY <1>1, <1>2, <1>3, <1>4, <1>5, <1>6
  DEF Next, NodeNext, Resolve, TimerFires, Handed, PublishThrows, ChangeContact,
      Taken, vars

\* Starts stay numbered without repetition.
LEMMA StepBorn ==
  ASSUME Inv, [Next]_vars
  PROVE  BornInv'
<1> USE DEF Inv, TypeOK, BornInv, SendState, InProgress, durable, handlers, task
<1>1. ASSUME NEW m \in Msgs, SendStart(m) PROVE BornInv'
  BY <1>1 DEF SendStart
<1>2. ASSUME NEW m \in Msgs, Send(m), ~ SendStart(m) PROVE BornInv'
  <2>1. CASE SendRefused(m)
    BY <2>1 DEF SendRefused
  <2>2. CASE ~ SendRefused(m)
    <3>1. /\ UNCHANGED born
          /\ send[m] \in InProgress /\ send'[m] # "idle"
          /\ \A n \in Msgs \ {m} : send'[n] = send[n]
          /\ stored' \subseteq stored \cup {m}
      BY <1>2, <2>2 DEF Send, SendTick, SendEncrypted, SendSigned, SendQueued, SendReturned,
                        SendFailed
    <3>2. \A n \in Msgs \ {m} : outbox'[n] = outbox[n]
      BY <1>2, <2>2 DEF Send, SendTick, SendEncrypted, SendSigned, SendQueued, SendReturned,
                        SendFailed
    <3>3. born[m] > 0
      BY <3>1
    <3> QED BY <3>1, <3>2, <3>3
  <2> QED BY <2>1, <2>2
<1>3. ASSUME NEW r \in Runs, NEW m \in Msgs, Published(r, m) PROVE BornInv'
  BY <1>3 DEF Published, TaskInv, Current, Queued, OutboxRow
<1>4. ASSUME NEW r \in Runs, NEW m \in Msgs, Unreachable(r, m) PROVE BornInv'
  <2>1. \A n \in Msgs : outbox'[n].status = "none" <=> outbox[n].status = "none"
    BY <1>4, ScheduleRetryType DEF Unreachable, TaskInv, Current, Queued
  <2> QED BY <1>4, <2>1 DEF Unreachable
<1>5. ASSUME Tick PROVE BornInv'
  BY <1>5 DEF Tick, OutboxRow
<1>6. ASSUME CrashRestart PROVE BornInv'
  BY <1>6 DEF CrashRestart
<1>7. CASE UNCHANGED <<born, send, stored, outbox>>
  BY <1>7
<1> QED
  BY <1>1, <1>2, <1>3, <1>4, <1>5, <1>6, <1>7
  DEF Next, NodeNext, Resolve, TimerFires, Handed, PublishThrows, ChangeContact,
      Taken, vars

\* runMaintenance's guard keeps executions of the task from overlapping, and so
\* what an execution has loaded stays queued until it resolves it.
LEMMA StepTask ==
  ASSUME Inv, [Next]_vars
  PROVE  TaskInv'
<1> USE DEF Inv, TypeOK, TaskInv, Queued, durable, handlers, task
<1>1. ASSUME NEW m \in Msgs, Send(m) PROVE TaskInv'
  <2>1. UNCHANGED <<due, phase>>
    BY <1>1 DEF Send, SendStart, SendRefused, SendTick, SendEncrypted, SendSigned,
                SendQueued, SendReturned, SendFailed
  <2>2. \A n \in Msgs : Queued(n) => outbox'[n].status = "queued_until_reachable"
    BY <1>1 DEF Send, SendStart, SendRefused, SendTick, SendEncrypted, SendSigned,
                SendQueued, SendReturned, SendFailed, NoRow, OutboxRow
  <2> QED BY <2>1, <2>2
<1>2. ASSUME TimerFires PROVE TaskInv'
  <2>1. CASE \A r \in Runs : phase[r] = "idle"
    BY <1>2, <2>1, FindDueQueued DEF TimerFires
  <2>2. CASE ~ \A r \in Runs : phase[r] = "idle"
    BY <1>2, <2>2 DEF TimerFires
  <2> QED BY <2>1, <2>2
<1>3. ASSUME NEW r \in Runs, NEW m \in Msgs, Handed(r, m) PROVE TaskInv'
  BY <1>3 DEF Handed
<1>4. ASSUME NEW r \in Runs, NEW m \in Msgs, Published(r, m) PROVE TaskInv'
  BY <1>4 DEF Published, Advance, Current, OutboxRow
<1>5. ASSUME NEW r \in Runs, NEW m \in Msgs, Unreachable(r, m) PROVE TaskInv'
  <2>1. \A n \in Msgs : Queued(n) => outbox'[n].status = "queued_until_reachable"
    BY <1>5, ScheduleRetryType DEF Unreachable
  <2> QED BY <1>5, <2>1 DEF Unreachable, Advance, Current
<1>6. ASSUME NEW r \in Runs, NEW m \in Msgs, PublishThrows(r, m) PROVE TaskInv'
  BY <1>6 DEF PublishThrows
<1>7. ASSUME Tick PROVE TaskInv'
  BY <1>7 DEF Tick, OutboxRow
<1>8. ASSUME CrashRestart PROVE TaskInv'
  BY <1>8 DEF CrashRestart
<1>9. CASE UNCHANGED <<due, phase, outbox>>
  BY <1>9
<1> QED
  BY <1>1, <1>2, <1>3, <1>4, <1>5, <1>6, <1>7, <1>8, <1>9
  DEF Next, NodeNext, Resolve, ChangeContact, Taken, vars

\* What is published, and what is about to be, was handed to the peer.
LEMMA StepHanded ==
  ASSUME Inv, [Next]_vars
  PROVE  HandedInv'
<1> USE DEF Inv, TypeOK, HandedInv, Current, durable, handlers, task
<1>1. ASSUME NEW m \in Msgs, Send(m) PROVE HandedInv'
  <2>1. \A r \in Runs : \A n \in due[r] : born[n] > 0
    BY DEF TaskInv, BornInv, Queued
  <2>2. ASSUME SendStart(m) PROVE HandedInv'
    BY <2>1, <2>2 DEF SendStart, BornInv, TaskInv, Queued, SendsInv
  <2>3. ASSUME SendQueued(m) PROVE HandedInv'
    BY <2>3 DEF SendQueued, NoRow, OutboxRow
  <2> QED
    BY <1>1, <2>2, <2>3
    DEF Send, SendRefused, SendTick, SendEncrypted, SendSigned, SendReturned, SendFailed
<1>2. ASSUME TimerFires PROVE HandedInv'
  <2>1. CASE \A r \in Runs : phase[r] = "idle"
    BY <1>2, <2>1 DEF TimerFires
  <2>2. CASE ~ \A r \in Runs : phase[r] = "idle"
    BY <1>2, <2>2 DEF TimerFires
  <2> QED BY <2>1, <2>2
<1>3. ASSUME NEW r \in Runs, NEW m \in Msgs, Handed(r, m) PROVE HandedInv'
  <2>1. \A n \in due[r] : n \in Msgs /\ born[n] \in Nat /\ born[n] > 0
    BY DEF BornInv, TaskInv, Queued
  <2>2. ASSUME NEW n \in Msgs, Current(r, n) PROVE n = m
    <3>1. /\ n \in due[r] /\ m \in due[r]
          /\ born[n] <= born[m] /\ born[m] <= born[n]
      BY <1>3, <2>2 DEF Handed
    <3>2. born[n] \in Nat /\ born[m] \in Nat /\ born[n] > 0
      BY <2>1, <3>1
    <3>3. born[n] = born[m]
      BY ONLY <3>1, <3>2
    <3> QED BY <3>2, <3>3 DEF BornInv
  <2> QED BY <1>3, <2>2 DEF Handed
<1>4. ASSUME NEW r \in Runs, NEW m \in Msgs, Published(r, m) PROVE HandedInv'
  BY <1>4 DEF Published, Advance, OutboxRow
<1>5. ASSUME NEW r \in Runs, NEW m \in Msgs, Unreachable(r, m) PROVE HandedInv'
  <2>1. \A n \in Msgs : outbox'[n].status = "published" => outbox[n].status = "published"
    BY <1>5, ScheduleRetryType DEF Unreachable
  <2> QED BY <1>5, <2>1 DEF Unreachable, Advance
<1>6. ASSUME NEW r \in Runs, NEW m \in Msgs, PublishThrows(r, m) PROVE HandedInv'
  BY <1>6 DEF PublishThrows
<1>7. ASSUME Tick PROVE HandedInv'
  BY <1>7 DEF Tick, OutboxRow
<1>8. ASSUME CrashRestart PROVE HandedInv'
  BY <1>8 DEF CrashRestart
<1>9. CASE UNCHANGED <<due, phase, born, outbox, handed>>
  BY <1>9
<1> QED
  BY <1>1, <1>2, <1>3, <1>4, <1>5, <1>6, <1>7, <1>8, <1>9
  DEF Next, NodeNext, Resolve, ChangeContact, Taken, vars

\* The inductive invariant is preserved by every step of the node and by the
\* network; it is stated without temporal operators so that a composition can
\* use it too.
LEMMA StepInv == Inv /\ [Next]_vars => Inv'
BY StepType, StepSends, StepBorn, StepTask, StepHanded DEF Inv

\* Every variable of Outbox always has its type.
THEOREM TypeCorrect == Spec => []TypeOK
<1>1. Init => TypeOK
  BY InitInv DEF Inv
<1> QED
  BY <1>1, StepType, PTL DEF Spec

\* The inductive invariant holds throughout every behaviour.
THEOREM InvCorrect == Spec => []Inv
BY InitInv, StepInv, PTL DEF Spec

\* A send that answered ok has its outbox row, whatever crashed in between.
THEOREM ReportedIsQueuedCorrect == Spec => []ReportedIsQueued
<1>1. Inv => ReportedIsQueued
  BY DEF Inv, SendsInv, ReportedIsQueued
<1> QED
  BY <1>1, InvCorrect, PTL

\* No envelope is in the outbox without its message in the messages table.
THEOREM QueuedIsStoredCorrect == Spec => []QueuedIsStored
<1>1. Inv => QueuedIsStored
  BY DEF Inv, SendsInv, QueuedIsStored
<1> QED
  BY <1>1, InvCorrect, PTL

\* No row is published that the transport did not deliver.
THEOREM PublishedWasHandedCorrect == Spec => []PublishedWasHanded
<1>1. Inv => PublishedWasHanded
  BY DEF Inv, HandedInv, PublishedWasHanded
<1> QED
  BY <1>1, InvCorrect, PTL

\* A published row stays published and is never handed to the transport again.
THEOREM PublishedIsFinalCorrect == Spec => PublishedIsFinal
<1>1. Inv /\ [Next]_vars => [PublishedStays]_vars
  <2> SUFFICES ASSUME Inv, Next, NEW m \in Msgs, outbox[m].status = "published"
               PROVE  outbox'[m].status = "published" /\ wire'[m] <= wire[m]
    BY DEF PublishedStays
  <2> USE DEF Inv, TypeOK, TaskInv, Queued, durable, handlers, task
  <2>0. wire[m] \in Nat /\ wire[m] <= wire[m]
    BY OutboxAssumption
  <2>1. ASSUME NEW n \in Msgs, Send(n)
        PROVE  outbox'[m].status = "published" /\ wire'[m] <= wire[m]
    BY <2>0, <2>1 DEF Send, SendStart, SendRefused, SendTick, SendEncrypted,
         SendSigned, SendQueued, SendReturned, SendFailed, SendsInv
  <2>2. ASSUME NEW r \in Runs, NEW n \in Msgs, Handed(r, n) \/ Resolve(r, n)
        PROVE  outbox'[m].status = "published" /\ wire'[m] <= wire[m]
    <3>1. n # m
      BY <2>2 DEF Handed, Resolve, Published, Unreachable, PublishThrows, Current
    <3> QED
      BY <2>0, <2>2, <3>1 DEF Handed, Resolve, Published, Unreachable, PublishThrows
  <2>3. ASSUME Tick PROVE outbox'[m].status = "published" /\ wire'[m] <= wire[m]
    BY <2>0, <2>3 DEF Tick, OutboxRow
  <2>4. ASSUME NEW n \in Msgs, Taken(n)
        PROVE  outbox'[m].status = "published" /\ wire'[m] <= wire[m]
    BY <2>0, <2>4 DEF Taken
  <2>5. CASE UNCHANGED <<outbox, wire>>
    BY <2>0, <2>5
  <2> QED
    BY <2>1, <2>2, <2>3, <2>4, <2>5
    DEF Next, NodeNext, TimerFires, ChangeContact, CrashRestart
<1> QED
  BY <1>1, InvCorrect, PTL DEF Spec, PublishedIsFinal

-----------------------------------------------------------------------------
(* The Lamport clocks of a node's own messages.                              *)

\* A conversation is opened and first ticked without another send in between;
\* its clock bounds the stamps taken from it; stamps follow the starts.
StampInv ==
  /\ \A m \in Msgs : send[m] \in {"opening", "queueing"} => loop = m
  /\ \A m \in Msgs : send[m] = "opening" => clock[Recipient[m]] = 0
  /\ \A m \in Msgs : send[m] \in {"idle", "opening"} => stamp[m] = 0
  /\ \A m \in Msgs : m \in stored \/ send[m] \in {"encrypting", "signing", "queueing"}
                       => stamp[m] > 0
  /\ \A m \in Msgs : stamp[m] > 0 => stamp[m] <= clock[Recipient[m]]
  /\ \A m, n \in Msgs :
       Recipient[m] = Recipient[n] /\ stamp[m] > 0 /\ stamp[n] > 0
         /\ born[m] < born[n] => stamp[m] < stamp[n]

\* Stamps stay in the order of the starts.
LEMMA StepStamp ==
  ASSUME Inv, StampInv, [Next]_vars
  PROVE  StampInv'
<1> USE OutboxAssumption DEF Inv, TypeOK, StampInv, SendState, durable, handlers, task
<1>1. ASSUME NEW m \in Msgs, SendStart(m) PROVE StampInv'
  <2>1. stored' = stored /\ stored \subseteq Msgs /\ m \notin stored
    BY <1>1 DEF SendStart, BornInv
  <2>2. CASE clock[Recipient[m]] = -1
    <3>1. \A n \in Msgs : Recipient[n] = Recipient[m] => stamp[n] = 0
      BY <2>2
    <3>2. /\ stamp' = stamp /\ loop' = m
          /\ send' = [send EXCEPT ![m] = "opening"]
          /\ clock' = [clock EXCEPT ![Recipient[m]] = 0]
          /\ born' = [born EXCEPT ![m] = begun + 1]
      BY <1>1, <2>2 DEF SendStart
    <3>3. \A n \in Msgs : send[n] \notin {"opening", "queueing"}
      BY <1>1 DEF SendStart
    <3>4. stamp[m] = 0 /\ send[m] = "idle"
      BY <1>1 DEF SendStart
    <3> QED BY <2>1, <3>1, <3>2, <3>3, <3>4
  <2>3. CASE clock[Recipient[m]] # -1
    <3>1. /\ stamp' = [stamp EXCEPT ![m] = clock[Recipient[m]] + 1] /\ loop' = loop
          /\ send' = [send EXCEPT ![m] = "encrypting"]
          /\ clock' = [clock EXCEPT ![Recipient[m]] = @ + 1]
          /\ born' = [born EXCEPT ![m] = begun + 1]
      BY <1>1, <2>3 DEF SendStart
    <3>2. \A n \in Msgs : send[n] \notin {"opening", "queueing"}
      BY <1>1 DEF SendStart
    <3>3. \A n \in Msgs : stamp[n] > 0 /\ Recipient[n] = Recipient[m]
                            => stamp[n] < clock[Recipient[m]] + 1
      BY <2>3
    <3>4. clock[Recipient[m]] \in Nat
      BY <2>3
    <3>5. \A n \in Msgs : born[n] < begun + 1
      OBVIOUS
    <3>6. \A n, k \in Msgs :
            Recipient[n] = Recipient[k] /\ stamp'[n] > 0 /\ stamp'[k] > 0
              /\ born'[n] < born'[k] => stamp'[n] < stamp'[k]
      BY <3>1, <3>3, <3>4, <3>5
    <3>7. \A n \in Msgs : stamp'[n] > 0 => stamp'[n] <= clock'[Recipient[n]]
      BY <3>1, <3>4
    <3> QED BY <2>1, <3>1, <3>2, <3>4, <3>6, <3>7
  <2> QED BY <2>2, <2>3
<1>2. ASSUME NEW m \in Msgs, SendTick(m) PROVE StampInv'
  <2>1. /\ stamp' = [stamp EXCEPT ![m] = 1] /\ loop' = Nobody
        /\ send' = [send EXCEPT ![m] = "encrypting"]
        /\ clock' = [clock EXCEPT ![Recipient[m]] = 1]
        /\ born' = born /\ stored' = stored
    <3>1. clock[Recipient[m]] = 0 /\ 0 + 1 = 1
      BY <1>2 DEF SendTick
    <3>2. /\ stamp' = [stamp EXCEPT ![m] = clock[Recipient[m]] + 1] /\ loop' = Nobody
          /\ send' = [send EXCEPT ![m] = "encrypting"]
          /\ clock' = [clock EXCEPT ![Recipient[m]] = clock[Recipient[m]] + 1]
          /\ born' = born /\ stored' = stored
      BY <1>2 DEF SendTick
    <3> QED BY <3>1, <3>2
  <2>2. \A n \in Msgs : Recipient[n] = Recipient[m] => stamp[n] = 0
    BY <1>2 DEF SendTick
  <2>3. \A n \in Msgs : send[n] \in {"opening", "queueing"} => n = m
    BY <1>2 DEF SendTick
  <2> QED BY <2>1, <2>2, <2>3
<1>3. ASSUME NEW m \in Msgs, Send(m), ~ SendStart(m), ~ SendTick(m) PROVE StampInv'
  BY <1>3 DEF Send, SendRefused, SendEncrypted, SendSigned, SendQueued,
              SendReturned, SendFailed
<1>4. ASSUME CrashRestart PROVE StampInv'
  BY <1>4 DEF CrashRestart, InProgress
<1>5. CASE UNCHANGED <<send, loop, clock, stamp, stored, born>>
  BY <1>5
<1> QED
  BY <1>1, <1>2, <1>3, <1>4, <1>5
  DEF Next, NodeNext, Resolve, TimerFires, Handed, Published, Unreachable,
      PublishThrows, ChangeContact, Tick, Taken, vars

\* A node's own messages to a peer carry distinct clocks in the order in which
\* their sends began, however the sends interleave and crash.
THEOREM OwnMessagesInSendOrderCorrect == Spec => []OwnMessagesInSendOrder
<1>1. Init => StampInv
  BY OutboxAssumption DEF Init, StampInv
<1>2. Inv /\ StampInv => OwnMessagesInSendOrder
  BY DEF Inv, TypeOK, StampInv, OwnMessagesInSendOrder
<1> QED
  BY <1>1, <1>2, InvCorrect, StepStamp, PTL DEF Spec
-----------------------------------------------------------------------------
(* Two nodes.  The recipient touches nothing of the sender's but the wire,    *)
(* from which it takes: in the composition the sender's invariant stands.     *)

\* A step of the recipient, or a loss, is to the sender an envelope that leaves
\* the network, or nothing.
LEMMA DeliveryStepIsSenders == [DeliveryNext]_deliveryVars => [Next]_vars
<1> USE DEF senderVars, vars, durable, handlers, task
<1>1. ASSUME ReceiverStep PROVE (\E m \in Msgs : Taken(m)) \/ UNCHANGED vars
  <2>1. ASSUME NEW h \in Handlers, NEW m \in Msgs, R!Receive(h, m) \/ R!Dismiss(h, m)
        PROVE  Taken(m)
    BY <1>1, <2>1 DEF ReceiverStep, R!Receive, R!Dismiss, Taken
  <2>2. CASE UNCHANGED wire
    BY <1>1, <2>2 DEF ReceiverStep
  <2> QED
    BY <1>1, <2>1, <2>2
    DEF ReceiverStep, R!NodeNext, R!Verified, R!Decrypted, R!Record, R!Refuse, R!Leave,
        R!Compact, R!SendDirectMessage, R!ChangeContact, R!Day, R!CrashRestart
<1>2. ASSUME UNCHANGED deliveryVars PROVE UNCHANGED vars
  BY <1>2 DEF deliveryVars
<1> QED
  BY <1>1, <1>2 DEF DeliveryNext, SenderStep, Lose, Next

\* The two nodes together behave, for the sender, as Outbox says: what is proved
\* of it alone holds beside any recipient.
THEOREM DeliveryIsOutbox == DeliverySpec => Spec
<1>1. DeliveryInit => Init
  BY DEF DeliveryInit
<1> QED
  BY <1>1, DeliveryStepIsSenders, PTL DEF DeliverySpec, Spec

\* To the recipient, a step of the sender brings an envelope (Handed), or is none
\* of its business: what is proved of Inbox, whatever arrives and however often,
\* holds beside this sender.
THEOREM DeliveryIsInbox == DeliverySpec => R!Spec
<1>1. DeliveryInit => R!Init
  BY DEF DeliveryInit
<1>2. [DeliveryNext]_deliveryVars => [R!Next]_(R!vars)
  <2> USE DEF receiverVars, R!vars, R!durable, R!tables, R!rows, R!handlers
  <2>1. ASSUME ReceiverStep PROVE R!Next
    BY <2>1 DEF ReceiverStep, R!Next
  <2>2. ASSUME NEW m \in Msgs, Lose(m) PROVE R!Lost(m)
    BY <2>2 DEF Lose, Taken, R!Lost
  <2>3. ASSUME SenderStep PROVE (\E m \in Msgs : R!Arrive(m)) \/ UNCHANGED R!vars
    <3>1. ASSUME NEW r \in Runs, NEW m \in Msgs, Handed(r, m) PROVE R!Arrive(m)
      BY <2>3, <3>1, DeliveryAssumption DEF SenderStep, Handed, R!Arrive
    <3>2. CASE UNCHANGED wire
      BY <2>3, <3>2 DEF SenderStep
    <3> QED
      BY <2>3, <3>1, <3>2
      DEF SenderStep, NodeNext, Send, SendStart, SendRefused, SendTick, SendEncrypted,
          SendSigned, SendQueued, SendReturned, SendFailed, TimerFires, Resolve, Published,
          Unreachable, PublishThrows, ChangeContact, Tick, CrashRestart
  <2>4. ASSUME UNCHANGED deliveryVars PROVE UNCHANGED R!vars
    BY <2>4 DEF deliveryVars
  <2> QED
    BY <2>1, <2>2, <2>3, <2>4 DEF DeliveryNext, R!Next
<1> QED
  BY <1>1, <1>2, PTL DEF DeliverySpec, R!Spec

-----------------------------------------------------------------------------
(* The refinement.                                                           *)

\* What the recipient holds of an envelope, in flight or in a handler, the
\* transport has carried.
CarriedInv ==
  /\ messages \in [Msgs -> Nat]
  /\ pc \in [Handlers -> {"idle", "verifying", "decrypting", "recording", "announcing"}]
  /\ busy \in [Handlers -> Msgs \cup {NoEnvelope}]
  /\ \A m \in Msgs : wire[m] > 0 => m \in handed
  /\ \A h \in Handlers : pc[h] # "idle" => busy[h] \in handed

LEMMA InitCarried == DeliveryInit => CarriedInv
BY DEF DeliveryInit, Init, R!Init, CarriedInv

\* Only Handed puts an envelope on the wire, and a handler gets its own there.
LEMMA StepCarried ==
  ASSUME TypeOK, CarriedInv, [DeliveryNext]_deliveryVars
  PROVE  CarriedInv'
<1> USE OutboxAssumption DEF TypeOK, CarriedInv, receiverVars, senderVars, durable,
        handlers, task
<1>1. ASSUME SenderStep PROVE CarriedInv'
  <2>1. ASSUME NEW r \in Runs, NEW m \in Msgs, Handed(r, m) PROVE CarriedInv'
    BY <1>1, <2>1 DEF SenderStep, Handed
  <2>2. CASE UNCHANGED <<wire, handed>>
    BY <1>1, <2>2 DEF SenderStep
  <2> QED
    BY <1>1, <2>1, <2>2
    DEF SenderStep, NodeNext, Send, SendStart, SendRefused, SendTick, SendEncrypted,
        SendSigned, SendQueued, SendReturned, SendFailed, TimerFires, Resolve, Published,
        Unreachable, PublishThrows, ChangeContact, Tick, CrashRestart
<1>2. ASSUME ReceiverStep PROVE CarriedInv'
  <2>0. UNCHANGED handed
    BY <1>2 DEF ReceiverStep
  <2>1. ASSUME NEW h \in Handlers, NEW m \in Msgs, R!Receive(h, m) PROVE CarriedInv'
    BY <2>0, <2>1 DEF R!Receive, R!durable, R!tables, R!rows
  <2>2. ASSUME NEW h \in Handlers, NEW m \in Msgs, R!Dismiss(h, m) PROVE CarriedInv'
    BY <2>0, <2>2 DEF R!Dismiss, R!durable, R!tables, R!rows, R!handlers
  <2>3. ASSUME NEW h \in Handlers, R!Decrypted(h) PROVE CarriedInv'
    BY <2>0, <2>3 DEF R!Decrypted
  <2>4. ASSUME NEW h \in Handlers,
               R!Verified(h) \/ R!Record(h) \/ R!Refuse(h) \/ R!Leave(h)
        PROVE  CarriedInv'
    <3>1. UNCHANGED <<messages, wire>>
      BY <2>4 DEF R!Verified, R!Record, R!Refuse, R!Leave, R!durable, R!tables, R!rows
    <3>2. CASE R!Verified(h) \/ R!Record(h)
      BY <2>0, <3>1, <3>2 DEF R!Verified, R!Record
    <3>3. CASE R!Refuse(h) \/ R!Leave(h)
      BY <2>0, <3>1, <3>3 DEF R!Refuse, R!Leave
    <3> QED BY <2>4, <3>2, <3>3
  <2>5. ASSUME R!CrashRestart PROVE CarriedInv'
    BY <2>0, <2>5 DEF R!CrashRestart, R!durable, R!tables, R!rows
  <2>6. CASE UNCHANGED <<messages, pc, busy, wire>>
    BY <2>0, <2>6
  <2> QED
    BY <1>2, <2>1, <2>2, <2>3, <2>4, <2>5, <2>6
    DEF ReceiverStep, R!NodeNext, R!Compact, R!SendDirectMessage, R!ChangeContact,
        R!Day, R!durable, R!tables, R!rows, R!handlers
<1>3. ASSUME NEW m \in Msgs, Lose(m) PROVE CarriedInv'
  BY <1>3 DEF Lose, Taken
<1>4. ASSUME UNCHANGED deliveryVars PROVE CarriedInv'
  BY <1>4 DEF deliveryVars
<1> QED
  BY <1>1, <1>2, <1>3, <1>4 DEF DeliveryNext

\* A step of the sender accepts a message (SendQueued), has it carried (Handed),
\* gives it up (Published), or is none of StoreAndForward's business.
LEMMA SenderImplements ==
  ASSUME Inv, SenderStep
  PROVE  [Abstract!Next]_(Abstract!avars)
<1> USE DEF Inv, TypeOK, TaskInv, Queued, SenderStep, receiverVars, durable, handlers,
        task, Abstract!avars
<1>1. ASSUME NEW m \in Msgs, SendQueued(m) PROVE Abstract!Accept(m)
  <2>1. outbox[m].status = "none"
    BY <1>1 DEF SendQueued, SendsInv
  <2>2. outbox' = [outbox EXCEPT ![m] = [NoRow EXCEPT !.status = "queued_until_reachable"]]
        /\ UNCHANGED <<handed, messages>>
    BY <1>1 DEF SendQueued
  <2>3. /\ outbox'[m].status = "queued_until_reachable"
        /\ \A n \in Msgs \ {m} : outbox'[n] = outbox[n]
    BY <2>2 DEF NoRow
  <2> QED BY <2>1, <2>2, <2>3 DEF Abstract!Accept
<1>2. ASSUME NEW r \in Runs, NEW m \in Msgs, Handed(r, m) PROVE Abstract!Carry(m)
  BY <1>2 DEF Handed, Current, Abstract!Carry
<1>3. ASSUME NEW r \in Runs, NEW m \in Msgs, Published(r, m) PROVE Abstract!GiveUp(m)
  <2>1. Queued(m) /\ m \in handed
    BY <1>3 DEF Published, Current, HandedInv
  <2>2. /\ outbox'[m].status = "published"
        /\ \A n \in Msgs \ {m} : outbox'[n] = outbox[n]
        /\ UNCHANGED <<handed, messages>>
    BY <1>3 DEF Published, OutboxRow
  <2> QED BY <2>1, <2>2 DEF Abstract!GiveUp
<1>4. CASE /\ \A m \in Msgs : outbox'[m].status = outbox[m].status
           /\ UNCHANGED handed
  BY <1>4
<1>5. ASSUME NEW r \in Runs, NEW m \in Msgs, Unreachable(r, m)
      PROVE  \A n \in Msgs : outbox'[n].status = outbox[n].status
  BY <1>5, ScheduleRetryType DEF Unreachable, Current
<1>6. ASSUME Tick PROVE \A m \in Msgs : outbox'[m].status = outbox[m].status
  BY <1>6 DEF Tick, OutboxRow
<1>7. ASSUME ~ \E m \in Msgs : SendQueued(m),
             ~ \E r \in Runs, m \in Msgs : Handed(r, m) \/ Published(r, m)
      PROVE  /\ \A m \in Msgs : outbox'[m].status = outbox[m].status
             /\ UNCHANGED handed
  BY <1>5, <1>6, <1>7
  DEF NodeNext, Send, SendStart, SendRefused, SendTick, SendEncrypted, SendSigned,
      SendReturned, SendFailed, TimerFires, Resolve, Unreachable, PublishThrows,
      ChangeContact, Tick, CrashRestart
<1> QED
  BY <1>1, <1>2, <1>3, <1>4, <1>7 DEF Abstract!Next

\* A step of the recipient delivers what was carried (Decrypted), or is none of
\* StoreAndForward's business.
LEMMA ReceiverImplements ==
  ASSUME TypeOK, CarriedInv, ReceiverStep
  PROVE  [Abstract!Next]_(Abstract!avars)
<1> USE DEF TypeOK, CarriedInv, ReceiverStep, senderVars, durable, handlers, task, Queued,
        Abstract!avars
<1>1. ASSUME NEW h \in Handlers, R!Decrypted(h) PROVE Abstract!Next
  <2>1. busy[h] \in handed
    BY <1>1 DEF R!Decrypted
  <2>2. messages' = [messages EXCEPT ![busy[h]] = @ + 1] /\ UNCHANGED <<outbox, handed>>
    BY <1>1 DEF R!Decrypted
  <2>3. busy[h] \in Msgs
    BY <1>1, <2>1
  <2>4. PICK e \in Msgs : e = busy[h]
    BY <2>3
  <2>5. messages'[e] > 0 /\ \A n \in Msgs \ {e} : messages'[n] = messages[n]
    BY <2>2, <2>4
  <2>6. Abstract!Deliver(e)
    BY <2>1, <2>2, <2>4, <2>5 DEF Abstract!Deliver
  <2> QED BY <2>6 DEF Abstract!Next
<1>2. ASSUME UNCHANGED messages PROVE UNCHANGED Abstract!avars
  BY <1>2
<1>3. (\E h \in Handlers : R!Decrypted(h)) \/ UNCHANGED messages
  BY DEF R!NodeNext, R!Receive, R!Dismiss, R!Verified, R!Record, R!Refuse, R!Leave,
         R!Compact, R!SendDirectMessage, R!ChangeContact, R!Day, R!CrashRestart,
         R!durable, R!tables, R!rows, R!handlers
<1> QED
  BY <1>1, <1>2, <1>3

\* Two nodes that crash independently, over a transport that loses, repeats and
\* misreports, implement store-and-forward: nothing is delivered that was not
\* carried, nothing carried that was not held, nothing given up before that.
THEOREM ImplementsStoreAndForwardCorrect == DeliverySpec => ImplementsStoreAndForward
<1>1. DeliveryInit => Abstract!Init
  BY DEF DeliveryInit, Init, R!Init, NoRow, Queued, Abstract!Init
<1>2. DeliveryInit => Inv
  BY InitInv DEF DeliveryInit
<1>3. Inv /\ CarriedInv /\ [DeliveryNext]_deliveryVars => Inv' /\ CarriedInv'
  BY StepInv, StepCarried, DeliveryStepIsSenders DEF Inv
<1>4. Inv /\ CarriedInv /\ [DeliveryNext]_deliveryVars => [Abstract!Next]_(Abstract!avars)
  <2>1. ASSUME NEW m \in Msgs, Lose(m) PROVE UNCHANGED Abstract!avars
    BY <2>1 DEF Lose, Taken, receiverVars, durable, Queued, Abstract!avars
  <2>2. ASSUME UNCHANGED deliveryVars PROVE UNCHANGED Abstract!avars
    BY <2>2 DEF deliveryVars, senderVars, receiverVars, durable, Queued, Abstract!avars
  <2> QED
    BY <2>1, <2>2, SenderImplements, ReceiverImplements DEF DeliveryNext, Inv
<1> QED
  BY <1>1, <1>2, <1>3, <1>4, InitCarried, PTL
  DEF DeliverySpec, ImplementsStoreAndForward, Abstract!Spec
=============================================================================
