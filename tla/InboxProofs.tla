---------------------------- MODULE InboxProofs -----------------------------
(***************************************************************************)
(* The safety properties of Inbox hold for every set of envelopes and      *)
(* handlers, every retention, and every number of crashes and compactions. *)
(***************************************************************************)
EXTENDS Inbox, TLAPS, FiniteSetTheorems

\* A conversation id has one peer and a peer one conversation, with the clock of
\* the last message sent to the peer unless a conversation of it was replaced.
Replaced(p) == \E c \in Conversations : <<c, p>> \in displaced
TableInv ==
  /\ \A c, d \in Conversations, p, q \in Peers :
       <<c, p>> \in opened /\ <<d, q>> \in opened => (c = d <=> p = q)
  /\ \A c \in Conversations, p \in Peers :
       <<c, p>> \in opened /\ ~ Replaced(p) => clock[c] = stamped[p]
  /\ \A p \in Peers :
       stamped[p] > 0 /\ ~ Replaced(p) => \E c \in Conversations : <<c, p>> \in opened

\* A conversation that was the peer's, now or before it was replaced.
Was(c, p) == <<c, p>> \in opened \cup displaced

\* What is in the tables, and what a handler has done before it gets there.
StoreInv ==
  /\ \A e \in Envelopes :
       /\ Recorded(e) => messages[e] > 0
       /\ messages[e] > 0 => filed[e] # {}
       /\ \A c \in filed[e] : Was(c, Sender[e])
  /\ \A h \in Handlers :
       /\ pc[h] = "decrypting" => Was(within[h], Sender[busy[h]])
       /\ pc[h] = "recording" => messages[busy[h]] > 0

\* Handlers that may still store a message for the envelope.
Holding(e) == {h \in Handlers : Working(h) /\ busy[h] = e}

\* A handler has stored a message for it and is about to record it.
Storing(e) == loop \in Handlers /\ busy[loop] = e

Width   == Cardinality(Handlers)
Base(e) == Width * compactions[e] + crashes

\* While the inbox has no row, the copies are those of earlier rounds; once it
\* has one, no handler joins those that already hold a copy.
CountInv ==
  \A e \in Envelopes :
    /\ ~ Recorded(e) => messages[e] <= Base(e) + (IF Storing(e) THEN 1 ELSE 0)
    /\ Recorded(e) \/ Storing(e) =>
         messages[e] + Cardinality(Holding(e)) <= Base(e) + Width

-----------------------------------------------------------------------------
LEMMA InitType == Init => TypeOK
BY InboxAssumption DEF Init, TypeOK, ContactStatus

\* Every step keeps the types.
LEMMA StepType == TypeOK /\ [Next]_vars => TypeOK'
<1> SUFFICES ASSUME TypeOK, [Next]_vars PROVE TypeOK'
  OBVIOUS
<1> USE InboxAssumption DEF TypeOK, durable, tables, rows, handlers
<1>1. ASSUME NEW h \in Handlers, NEW e \in Envelopes, Receive(h, e) PROVE TypeOK'
  BY <1>1 DEF Receive
<1>2. ASSUME NEW h \in Handlers, NEW e \in Envelopes, Dismiss(h, e) PROVE TypeOK'
  BY <1>2 DEF Dismiss
<1>3. ASSUME NEW h \in Handlers, Verified(h) PROVE TypeOK'
  <2>1. /\ busy[h] \in Envelopes /\ Names[busy[h]] \in Conversations
        /\ Sender[busy[h]] \in Peers
    BY <1>3 DEF Verified
  <2>2. PICK c \in Conversations : within' = [within EXCEPT ![h] = c]
    BY <1>3, <2>1 DEF Verified, FileUnder, Found
  <2>3. /\ opened' \in SUBSET (Conversations \X Peers)
        /\ displaced' \in SUBSET (Conversations \X Peers)
        /\ clock' \in [Conversations -> Nat]
        /\ stamped' = stamped
    <3>1. CASE UNCHANGED tables
      BY <3>1
    <3>2. CASE /\ opened' = Opened(Names[busy[h]], Sender[busy[h]])
               /\ clock' = [clock EXCEPT ![Names[busy[h]]] = 0]
               /\ displaced' = displaced \cup ({Names[busy[h]]} \X Holders(Names[busy[h]]))
               /\ stamped' = stamped
      <4>1. opened' \in SUBSET (Conversations \X Peers)
        BY <2>1, <3>2 DEF Opened
      <4>2. displaced' \in SUBSET (Conversations \X Peers)
        BY <2>1, <3>2 DEF Holders
      <4> QED BY <2>1, <3>2, <4>1, <4>2
    <3> QED BY <1>3, <3>1, <3>2 DEF Verified, FileUnder
  <2> QED BY <1>3, <2>2, <2>3 DEF Verified
<1>4. ASSUME NEW h \in Handlers, Decrypted(h) PROVE TypeOK'
  BY <1>4 DEF Decrypted
<1>5. ASSUME NEW h \in Handlers, Record(h) PROVE TypeOK'
  BY <1>5 DEF Record
<1>6. ASSUME NEW h \in Handlers, Refuse(h) \/ Leave(h) PROVE TypeOK'
  <2>1. CASE Refuse(h)
    BY <2>1 DEF Refuse, Working
  <2>2. CASE Leave(h)
    BY <2>2 DEF Leave
  <2> QED BY <1>6, <2>1, <2>2
<1>7. ASSUME Compact PROVE TypeOK'
  <2>1. PICK S \in SUBSET Stale :
          /\ \A e \in S : compactions[e] < MaxCompactions
          /\ age' = [e \in Envelopes |-> IF e \in S THEN -1 ELSE age[e]]
          /\ compactions' = [e \in Envelopes |->
                               IF e \in S THEN compactions[e] + 1 ELSE compactions[e]]
    BY <1>7 DEF Compact
  <2>2. compactions' \in [Envelopes -> 0..MaxCompactions]
    BY <2>1
  <2>3. age' \in [Envelopes -> -1..Retention + 1]
    BY <2>1
  <2> QED BY <1>7, <2>2, <2>3 DEF Compact
<1>8. ASSUME NEW p \in Peers, ChangeContact(p) PROVE TypeOK'
  BY <1>8 DEF ChangeContact, ContactStatus
<1>9. ASSUME Day PROVE TypeOK'
  <2>1. age' \in [Envelopes -> -1..Retention + 1]
    BY <1>9 DEF Day, Recorded
  <2>2. ttl' \in [Envelopes -> Nat]
    BY <1>9 DEF Day
  <2> QED BY <1>9, <2>1, <2>2 DEF Day
<1>10. ASSUME CrashRestart PROVE TypeOK'
  BY <1>10 DEF CrashRestart
<1>11. ASSUME NEW e \in Envelopes, Arrive(e) \/ Lost(e) PROVE TypeOK'
  BY <1>11 DEF Arrive, Lost
<1>12. ASSUME NEW p \in Peers, SendDirectMessage(p) PROVE TypeOK'
  <2>1. PICK c \in Conversations :
          /\ opened'  = Opened(c, p)
          /\ clock'   = [clock EXCEPT ![c] = @ + 1]
          /\ stamped' = [stamped EXCEPT ![p] = clock[c] + 1]
    BY <1>12 DEF SendDirectMessage, Found
  <2>2. opened' \in SUBSET (Conversations \X Peers)
    BY <2>1 DEF Opened
  <2>3. clock' \in [Conversations -> Nat] /\ stamped' \in [Peers -> Nat]
    BY <2>1
  <2> QED BY <1>12, <2>2, <2>3 DEF SendDirectMessage
<1>13. CASE UNCHANGED vars
  BY <1>13 DEF vars
<1> QED
  BY <1>1, <1>2, <1>3, <1>4, <1>5, <1>6, <1>7, <1>8, <1>9, <1>10, <1>11,
     <1>12, <1>13
  DEF Next, NodeNext

\* Every variable of Inbox always has its type.
THEOREM TypeCorrect == Spec => []TypeOK
BY InitType, StepType, PTL DEF Spec

-----------------------------------------------------------------------------
\* The two ways in which a step changes the conversations.
Finds(h) == pc[h] = "verifying" /\ FileUnder(h)
Sends(p) ==
  \E c \in IF Found(p) # {} THEN Found(p) ELSE {d \in OwnIds : Holders(d) = {}} :
    /\ opened'  = Opened(c, p)
    /\ clock'   = [clock EXCEPT ![c] = @ + 1]
    /\ stamped' = [stamped EXCEPT ![p] = clock[c] + 1]
    /\ displaced' = displaced

LEMMA StepTables ==
  ASSUME [Next]_vars
  PROVE  (\E h \in Handlers : Finds(h)) \/ (\E p \in Peers : Sends(p)) \/ UNCHANGED tables
BY DEF Finds, Sends, Next, NodeNext, Receive, Dismiss, Verified, Decrypted, Record, Refuse,
       Leave, SendDirectMessage, Compact, ChangeContact, Day, CrashRestart, Arrive, Lost,
       vars, durable, tables

\* A save under an id takes the id from those that had it, and nothing else.
LEMMA OpenedRows ==
  ASSUME TypeOK, NEW c \in Conversations, NEW p \in Peers,
         NEW d \in Conversations, NEW q \in Peers
  PROVE  <<d, q>> \in Opened(c, p) <=> IF d = c THEN q = p ELSE <<d, q>> \in opened
BY DEF Opened, TypeOK

\* A message to a peer is sent in its conversation, or in one with a new id.
LEMMA SendRows ==
  ASSUME TypeOK, TableInv, NEW p \in Peers, Sends(p)
  PROVE  \E c \in Conversations :
           /\ \A d \in Conversations, q \in Peers :
                <<d, q>> \in opened' <=> <<d, q>> \in opened \/ (d = c /\ q = p)
           /\ <<c, p>> \in opened \/
                /\ \A d \in Conversations : <<d, p>> \notin opened
                /\ \A q \in Peers : <<c, q>> \notin opened
                /\ c \in OwnIds
           /\ clock'   = [clock EXCEPT ![c] = @ + 1]
           /\ stamped' = [stamped EXCEPT ![p] = clock[c] + 1]
           /\ displaced' = displaced
<1> USE InboxAssumption
<1>1. PICK c \in Conversations :
        /\ c \in IF Found(p) # {} THEN Found(p) ELSE {d \in OwnIds : Holders(d) = {}}
        /\ opened'  = Opened(c, p)
        /\ clock'   = [clock EXCEPT ![c] = @ + 1]
        /\ stamped' = [stamped EXCEPT ![p] = clock[c] + 1]
        /\ displaced' = displaced
  BY DEF Sends, Found
<1>2. <<c, p>> \in opened \/ /\ \A d \in Conversations : <<d, p>> \notin opened
                             /\ \A q \in Peers : <<c, q>> \notin opened
                             /\ c \in OwnIds
  BY <1>1 DEF Found, Holders
<1>3. \A q \in Peers : <<c, q>> \in opened => q = p
  BY <1>2 DEF TableInv
<1>4. ASSUME NEW d \in Conversations, NEW q \in Peers
      PROVE  <<d, q>> \in opened' <=> <<d, q>> \in opened \/ (d = c /\ q = p)
  BY <1>1, <1>3, OpenedRows
<1> QED BY <1>1, <1>2, <1>4

\* An envelope's conversation is found, or it is made in place of any with its id.
LEMMA FindRows ==
  ASSUME TypeOK, NEW h \in Handlers, Finds(h)
  PROVE  /\ busy[h] \in Envelopes
         /\ \/ /\ \E c \in Conversations :
                     <<c, Sender[busy[h]]>> \in opened /\ within' = [within EXCEPT ![h] = c]
               /\ UNCHANGED tables
            \/ /\ \A d \in Conversations : <<d, Sender[busy[h]]>> \notin opened
               /\ within' = [within EXCEPT ![h] = Names[busy[h]]]
               /\ \A d \in Conversations, q \in Peers :
                    <<d, q>> \in opened' <=> IF d = Names[busy[h]] THEN q = Sender[busy[h]]
                                                                 ELSE <<d, q>> \in opened
               /\ \A d \in Conversations, q \in Peers :
                    <<d, q>> \in displaced' <=>
                      <<d, q>> \in displaced \/ (d = Names[busy[h]] /\ <<d, q>> \in opened)
               /\ clock' = [clock EXCEPT ![Names[busy[h]]] = 0]
               /\ stamped' = stamped
<1>1. busy[h] \in Envelopes
  BY DEF Finds, TypeOK
<1>2. PICK e \in Envelopes : e = busy[h]
  BY <1>1
<1>3. Names[e] \in Conversations /\ Sender[e] \in Peers
  BY InboxAssumption
<1>4. CASE Found(Sender[e]) # {}
  BY <1>1, <1>2, <1>4 DEF Finds, FileUnder, Found
<1>5. CASE Found(Sender[e]) = {}
  <2>1. /\ within' = [within EXCEPT ![h] = Names[e]]
        /\ opened' = Opened(Names[e], Sender[e])
        /\ clock' = [clock EXCEPT ![Names[e]] = 0]
        /\ displaced' = displaced \cup ({Names[e]} \X Holders(Names[e]))
        /\ stamped' = stamped
    BY <1>2, <1>5 DEF Finds, FileUnder
  <2>2. \A d \in Conversations : <<d, Sender[e]>> \notin opened
    BY <1>5 DEF Found
  <2>3. \A d \in Conversations, q \in Peers :
          <<d, q>> \in opened' <=> IF d = Names[e] THEN q = Sender[e] ELSE <<d, q>> \in opened
    BY <1>3, <2>1, OpenedRows
  <2>4. \A d \in Conversations, q \in Peers :
          <<d, q>> \in displaced' <=>
            <<d, q>> \in displaced \/ (d = Names[e] /\ <<d, q>> \in opened)
    BY <2>1 DEF Holders
  <2> QED BY <1>1, <1>2, <2>1, <2>2, <2>3, <2>4
<1> QED BY <1>4, <1>5

\* Whatever conversation was a peer's has been so ever after.
LEMMA WasStays ==
  ASSUME TypeOK, TableInv, [Next]_vars, NEW c \in Conversations, NEW p \in Peers, Was(c, p)
  PROVE  Was(c, p)'
<1>1. ASSUME NEW h \in Handlers, Finds(h) PROVE Was(c, p)'
  BY <1>1, FindRows DEF Was, tables
<1>2. ASSUME NEW q \in Peers, Sends(q) PROVE Was(c, p)'
  BY <1>2, SendRows DEF Was
<1>3. CASE UNCHANGED tables
  BY <1>3 DEF tables, Was
<1> QED BY <1>1, <1>2, <1>3, StepTables

\* They are kept when the conversations are.
LEMMA SameTables == TableInv /\ UNCHANGED tables => TableInv'
<1> SUFFICES ASSUME TableInv, UNCHANGED tables PROVE TableInv'
  OBVIOUS
<1>1. opened' = opened /\ clock' = clock /\ stamped' = stamped /\ displaced' = displaced
  BY DEF tables
<1>2. \A p \in Peers : Replaced(p)' <=> Replaced(p)
  BY <1>1 DEF Replaced
<1>3. \A c, d \in Conversations, p, q \in Peers :
        <<c, p>> \in opened' /\ <<d, q>> \in opened' => (c = d <=> p = q)
  BY <1>1 DEF TableInv
<1>4. \A c \in Conversations, p \in Peers :
        <<c, p>> \in opened' /\ ~ Replaced(p)' => clock'[c] = stamped'[p]
  BY <1>1, <1>2 DEF TableInv
<1>5. \A p \in Peers : stamped'[p] > 0 /\ ~ Replaced(p)'
        => \E c \in Conversations : <<c, p>> \in opened'
  BY <1>1, <1>2 DEF TableInv
<1> QED BY <1>3, <1>4, <1>5 DEF TableInv

\* Conversations stay one to one, and their clocks those of the messages sent.
LEMMA StepTable == TypeOK /\ TableInv /\ [Next]_vars => TableInv'
<1> SUFFICES ASSUME TypeOK, TableInv, [Next]_vars PROVE TableInv'
  OBVIOUS
<1> USE InboxAssumption
<1>1. ASSUME NEW h \in Handlers, Finds(h) PROVE TableInv'
  <2>1. CASE UNCHANGED tables
    BY <2>1, SameTables
  <2>2. CASE ~ UNCHANGED tables
    <3>1. PICK e \in Envelopes : e = busy[h]
      BY <1>1, FindRows
    <3> DEFINE n == Names[e]
               s == Sender[e]
    <3>2. n \in Conversations /\ s \in Peers
      OBVIOUS
    <3>3. /\ \A d \in Conversations : <<d, s>> \notin opened
          /\ \A d \in Conversations, q \in Peers :
               <<d, q>> \in opened' <=> IF d = n THEN q = s ELSE <<d, q>> \in opened
          /\ \A d \in Conversations, q \in Peers :
               <<d, q>> \in displaced' <=>
                 <<d, q>> \in displaced \/ (d = n /\ <<d, q>> \in opened)
          /\ clock' = [clock EXCEPT ![n] = 0]
          /\ stamped' = stamped
      BY <1>1, <2>2, <3>1, FindRows
    <3> HIDE DEF n, s
    <3>4. \A p \in Peers : Replaced(p) => Replaced(p)'
      BY <3>3 DEF Replaced
    <3>5. \A c, d \in Conversations, p, q \in Peers :
            <<c, p>> \in opened' /\ <<d, q>> \in opened' => (c = d <=> p = q)
      BY <3>2, <3>3 DEF TableInv
    <3>6. ASSUME NEW c \in Conversations, NEW p \in Peers,
                 <<c, p>> \in opened', ~ Replaced(p)'
          PROVE  clock'[c] = stamped'[p]
      <4>1. CASE c = n
        <5>1. p = s /\ clock'[c] = 0
          BY <3>2, <3>3, <3>6, <4>1 DEF TypeOK
        <5>2. ~ (stamped[s] > 0)
          BY <3>2, <3>3, <3>4, <3>6, <5>1 DEF TableInv
        <5>3. stamped[s] \in Nat
          BY <3>2 DEF TypeOK
        <5> QED BY <3>3, <5>1, <5>2, <5>3
      <4>2. CASE c # n
        <5>1. <<c, p>> \in opened
          BY <3>3, <3>6, <4>2
        <5>2. clock[c] = stamped[p]
          BY <3>4, <3>6, <5>1 DEF TableInv
        <5> QED BY <3>3, <4>2, <5>2 DEF TypeOK
      <4> QED BY <4>1, <4>2
    <3>7. ASSUME NEW p \in Peers, stamped'[p] > 0, ~ Replaced(p)'
          PROVE  \E c \in Conversations : <<c, p>> \in opened'
      <4>1. PICK c \in Conversations : <<c, p>> \in opened
        BY <3>3, <3>4, <3>7 DEF TableInv
      <4>2. c # n
        BY <3>3, <3>7, <4>1 DEF Replaced
      <4> QED BY <3>3, <4>1, <4>2
    <3> QED BY <3>5, <3>6, <3>7 DEF TableInv
  <2> QED BY <2>1, <2>2
<1>2. ASSUME NEW s \in Peers, Sends(s) PROVE TableInv'
  <2>1. PICK n \in Conversations :
          /\ \A d \in Conversations, q \in Peers :
               <<d, q>> \in opened' <=> <<d, q>> \in opened \/ (d = n /\ q = s)
          /\ <<n, s>> \in opened \/ /\ \A d \in Conversations : <<d, s>> \notin opened
                                    /\ \A q \in Peers : <<n, q>> \notin opened
                                    /\ n \in OwnIds
          /\ clock'   = [clock EXCEPT ![n] = @ + 1]
          /\ stamped' = [stamped EXCEPT ![s] = clock[n] + 1]
          /\ displaced' = displaced
    <3> HIDE DEF TableInv
    <3> QED BY <1>2, SendRows
  <2>2. \A p \in Peers : Replaced(p)' <=> Replaced(p)
    BY <2>1 DEF Replaced
  <2>3. \A c, d \in Conversations, p, q \in Peers :
          <<c, p>> \in opened' /\ <<d, q>> \in opened' => (c = d <=> p = q)
    BY <2>1 DEF TableInv
  <2>4. ASSUME NEW c \in Conversations, NEW p \in Peers,
               <<c, p>> \in opened', ~ Replaced(p)'
        PROVE  clock'[c] = stamped'[p]
    <3>1. CASE c = n
      <4>1. p = s
        BY <2>1, <2>3, <2>4, <3>1
      <4> QED BY <2>1, <3>1, <4>1 DEF TypeOK
    <3>2. CASE c # n
      <4>1. <<c, p>> \in opened /\ p # s
        BY <2>1, <2>3, <2>4, <3>2
      <4>2. clock[c] = stamped[p]
        BY <2>2, <2>4, <4>1 DEF TableInv
      <4> QED BY <2>1, <3>2, <4>1, <4>2 DEF TypeOK
    <3> QED BY <3>1, <3>2
  <2>5. ASSUME NEW p \in Peers, stamped'[p] > 0, ~ Replaced(p)'
        PROVE  \E c \in Conversations : <<c, p>> \in opened'
    <3>1. CASE p = s
      BY <2>1, <3>1
    <3>2. CASE p # s
      <4>1. stamped'[p] = stamped[p]
        BY <2>1, <3>2 DEF TypeOK
      <4> QED BY <2>1, <2>2, <2>5, <4>1 DEF TableInv
    <3> QED BY <3>1, <3>2
  <2> QED BY <2>3, <2>4, <2>5 DEF TableInv
<1>3. CASE UNCHANGED tables
  BY <1>3, SameTables
<1> QED BY <1>1, <1>2, <1>3, StepTables

\* Own messages to a peer keep their order whatever is received from it.
THEOREM ClockGoesOnCorrect == Spec => []ClockGoesOn
<1>1. Init => TableInv
  BY DEF Init, TableInv, Replaced
<1>2. TypeOK /\ TableInv => ClockGoesOn
  <2> SUFFICES ASSUME TypeOK, TableInv, NEW p \in Peers, ~ Replaced(p)
               PROVE  /\ \A c \in Found(p) : Found(p) = {c} /\ clock[c] = stamped[p]
                      /\ stamped[p] > 0 => Found(p) # {}
    BY DEF ClockGoesOn, Replaced
  <2>1. \A c \in Found(p) : Found(p) = {c} /\ clock[c] = stamped[p]
    BY DEF Found, TableInv
  <2>2. stamped[p] > 0 => Found(p) # {}
    BY DEF Found, TableInv
  <2> QED BY <2>1, <2>2
<1> QED
  BY <1>1, <1>2, InitType, StepType, StepTable, PTL DEF Spec

-----------------------------------------------------------------------------
\* Conversation, message and inbox row are written in this order, and only the
\* last one is ever deleted.
LEMMA StepStore == TypeOK /\ TableInv /\ StoreInv /\ [Next]_vars => StoreInv'
<1> SUFFICES ASSUME TypeOK, TableInv, StoreInv, [Next]_vars PROVE StoreInv'
  OBVIOUS
<1> USE InboxAssumption
<1>0. \A c \in Conversations, p \in Peers : Was(c, p) => Was(c, p)'
  BY WasStays
<1> USE DEF TypeOK, StoreInv, Recorded, durable, rows, handlers
<1>1. ASSUME NEW h \in Handlers, NEW e \in Envelopes, Receive(h, e) PROVE StoreInv'
  BY <1>0, <1>1 DEF Receive
<1>2. ASSUME NEW h \in Handlers, Verified(h) PROVE StoreInv'
  <2>1. PICK e \in Envelopes : e = busy[h]
    BY <1>2 DEF Verified
  <2>2. PICK c \in Conversations : within' = [within EXCEPT ![h] = c] /\ Was(c, Sender[e])'
    <3>0. Finds(h)
      BY <1>2 DEF Verified, Finds
    <3>1. Sender[e] \in Peers /\ Names[e] \in Conversations
      OBVIOUS
    <3>2. CASE /\ \E c \in Conversations :
                    <<c, Sender[e]>> \in opened /\ within' = [within EXCEPT ![h] = c]
               /\ UNCHANGED tables
      BY <3>2 DEF Was, tables
    <3>3. CASE /\ within' = [within EXCEPT ![h] = Names[e]]
               /\ \A d \in Conversations, q \in Peers :
                    <<d, q>> \in opened' <=> IF d = Names[e] THEN q = Sender[e]
                                                            ELSE <<d, q>> \in opened
      <4>1. <<Names[e], Sender[e]>> \in opened'
        BY <3>1, <3>3
      <4>2. within' = [within EXCEPT ![h] = Names[e]]
        BY <3>3
      <4> QED BY ONLY <3>1, <4>1, <4>2 DEF Was
    <3>4. \/ /\ \E c \in Conversations :
                   <<c, Sender[busy[h]]>> \in opened /\ within' = [within EXCEPT ![h] = c]
             /\ UNCHANGED tables
          \/ /\ within' = [within EXCEPT ![h] = Names[busy[h]]]
             /\ \A d \in Conversations, q \in Peers :
                  <<d, q>> \in opened' <=> IF d = Names[busy[h]] THEN q = Sender[busy[h]]
                                                               ELSE <<d, q>> \in opened
      BY <3>0, FindRows, Zenon
    <3> QED BY <2>1, <3>2, <3>3, <3>4
  <2>3. ASSUME NEW g \in Handlers, pc'[g] = "decrypting"
        PROVE  Was(within[g], Sender[busy[g]])'
    <3>1. CASE g = h
      <4>1. /\ within'[g] \in Conversations /\ busy'[g] = busy[g]
            /\ \E d \in Conversations : within'[g] = d /\ Was(d, Sender[busy[g]])'
        BY <1>2, <2>1, <2>2, <3>1 DEF Verified
      <4> QED BY <4>1 DEF Was
    <3>2. CASE g # h
      <4>1. /\ pc[g] = "decrypting" /\ busy'[g] = busy[g]
            /\ within'[g] = within[g] /\ within[g] \in Conversations
        BY <1>2, <2>2, <2>3, <3>2 DEF Verified
      <4> QED BY <1>0, <3>2, <4>1
    <3> QED BY <3>1, <3>2
  <2> QED BY <1>0, <1>2, <2>3 DEF Verified
<1>3. ASSUME NEW h \in Handlers, Decrypted(h) PROVE StoreInv'
  <2>1. PICK e \in Envelopes : e = busy[h]
    BY <1>3 DEF Decrypted
  <2>2. Was(within[h], Sender[e]) /\ within[h] \in Conversations
    BY <1>3, <2>1 DEF Decrypted
  <2>3. \A c \in Conversations, p \in Peers : Was(c, p)' <=> Was(c, p)
    BY <1>3 DEF Decrypted, tables, Was
  <2>4. ASSUME NEW d \in Envelopes
        PROVE  /\ Recorded(d)' => messages'[d] > 0
               /\ messages'[d] > 0 => filed'[d] # {}
               /\ \A c \in filed'[d] : Was(c, Sender[d])'
    BY <1>3, <2>1, <2>2, <2>3, <2>4 DEF Decrypted
  <2>5. ASSUME NEW g \in Handlers
        PROVE  /\ pc'[g] = "decrypting" => Was(within[g], Sender[busy[g]])'
               /\ pc'[g] = "recording" => messages'[busy'[g]] > 0
    BY <1>0, <1>3, <2>1, <2>5 DEF Decrypted
  <2> QED BY <2>4, <2>5
<1>4. ASSUME NEW h \in Handlers, Record(h) PROVE StoreInv'
  BY <1>0, <1>4 DEF Record
<1>5. ASSUME NEW h \in Handlers, Refuse(h) \/ Leave(h) PROVE StoreInv'
  BY <1>0, <1>5 DEF Refuse, Leave
<1>6. ASSUME Compact PROVE StoreInv'
  BY <1>0, <1>6 DEF Compact
<1>7. ASSUME Day PROVE StoreInv'
  BY <1>0, <1>7 DEF Day
<1>8. ASSUME CrashRestart PROVE StoreInv'
  BY <1>0, <1>8 DEF CrashRestart
<1>9. CASE UNCHANGED <<rows, pc, busy, within>>
  BY <1>0, <1>9
<1> QED
  BY <1>1, <1>2, <1>3, <1>4, <1>5, <1>6, <1>7, <1>8, <1>9
  DEF Next, NodeNext, Dismiss, SendDirectMessage, ChangeContact, Arrive, Lost, vars

\* No inbox row precedes its message, and a received message is found in its
\* sender's conversation unless another peer's envelope has taken its id.
THEOREM RecordedIsStoredCorrect == Spec => []RecordedIsStored
<1>1. Init => TableInv /\ StoreInv
  BY InboxAssumption DEF Init, TableInv, Replaced, StoreInv, Recorded
<1>2. StoreInv => RecordedIsStored
  BY DEF StoreInv, RecordedIsStored, Was
<1> QED
  BY <1>1, <1>2, InitType, StepType, StepTable, StepStore, PTL DEF Spec

-----------------------------------------------------------------------------
(* Counting the copies of one envelope.                                      *)

\* There are never more handlers at work than handlers.
LEMMA HoldingSize ==
  ASSUME NEW e
  PROVE  /\ IsFiniteSet(Holding(e))
         /\ Cardinality(Holding(e)) \in Nat
         /\ Cardinality(Holding(e)) <= Width
         /\ Width \in Nat
<1>1. Holding(e) \subseteq Handlers
  BY DEF Holding
<1> QED
  BY <1>1, InboxAssumption, FS_Subset, FS_CardinalityType DEF Width

\* The same bounds after the step.
LEMMA HoldingSizeNext ==
  ASSUME NEW e
  PROVE  /\ IsFiniteSet(Holding(e)')
         /\ Cardinality(Holding(e)') \in Nat
         /\ Cardinality(Holding(e)') <= Width
<1>1. Holding(e)' \subseteq Handlers
  BY DEF Holding
<1> QED
  BY <1>1, InboxAssumption, FS_Subset, FS_CardinalityType DEF Width

\* The ways in which a step can matter to the copies of one envelope.
Joins(e) ==     \* a handler starts on it
  /\ loop = Nobody /\ ~ Recorded(e) /\ ~ Expired(e)
  /\ loop' = Nobody
  /\ UNCHANGED <<messages, age, compactions, crashes>>
Stores(e) ==    \* a handler that held it stores a message
  /\ loop = Nobody /\ Storing(e)'
  /\ \E h \in Holding(e) : Holding(e)' = Holding(e) \ {h}
  /\ messages'[e] = messages[e] + 1
  /\ UNCHANGED <<age, compactions, crashes>>
Records(e) ==   \* the handler that stored it writes the inbox row
  /\ Storing(e) /\ ~ Storing(e)' /\ age'[e] = 0
  /\ Holding(e)' = Holding(e)
  /\ UNCHANGED <<messages, compactions, crashes>>
Forgets(e) ==   \* its inbox row is compacted
  /\ loop = Nobody /\ loop' = Nobody
  /\ age[e] > Retention /\ age'[e] = -1
  /\ compactions'[e] = compactions[e] + 1
  /\ Holding(e)' = Holding(e)
  /\ UNCHANGED <<messages, crashes>>
Dies(e) ==      \* the process crashes
  /\ crashes' = crashes + 1 /\ Holding(e)' = {} /\ ~ Storing(e)'
  /\ UNCHANGED <<messages, age, compactions>>
Else(e) ==      \* nothing but perhaps a handler leaving
  /\ Storing(e)' <=> Storing(e)
  /\ Recorded(e)' <=> Recorded(e)
  /\ Holding(e)' \subseteq Holding(e)
  /\ messages'[e] = messages[e]
  /\ compactions'[e] = compactions[e]
  /\ crashes' = crashes

\* Every step is of one of these kinds.
LEMMA StepKinds ==
  ASSUME TypeOK, [Next]_vars, NEW e \in Envelopes
  PROVE  Joins(e) \/ Stores(e) \/ Records(e) \/ Forgets(e) \/ Dies(e) \/ Else(e)
<1> USE InboxAssumption DEF TypeOK, Recorded, Storing, Holding, Working, durable, rows, handlers
<1>1. ASSUME NEW h \in Handlers, NEW f \in Envelopes, Receive(h, f)
      PROVE  Joins(e) \/ Else(e)
  <2>1. CASE e = f
    BY <1>1, <2>1 DEF Receive, Admissible, Joins
  <2>2. CASE e # f
    BY <1>1, <2>2 DEF Receive, Else
  <2> QED BY <2>1, <2>2
<1>2. ASSUME NEW h \in Handlers, Verified(h) PROVE Else(e)
  BY <1>2 DEF Verified, Else
<1>3. ASSUME NEW h \in Handlers, Decrypted(h) PROVE Stores(e) \/ Else(e)
  <2>1. CASE busy[h] = e
    <3>1. h \in Holding(e) /\ Holding(e)' = Holding(e) \ {h}
      BY <1>3, <2>1 DEF Decrypted
    <3> QED BY <1>3, <2>1, <3>1 DEF Decrypted, Stores
  <2>2. CASE busy[h] # e
    BY <1>3, <2>2 DEF Decrypted, Else
  <2> QED BY <2>1, <2>2
<1>4. ASSUME NEW h \in Handlers, Record(h) PROVE Records(e) \/ Else(e)
  <2>1. CASE busy[h] = e
    BY <1>4, <2>1 DEF Record, Records
  <2>2. CASE busy[h] # e
    BY <1>4, <2>2 DEF Record, Else
  <2> QED BY <2>1, <2>2
<1>5. ASSUME NEW h \in Handlers, Refuse(h) \/ Leave(h) PROVE Else(e)
  BY <1>5 DEF Refuse, Leave, Else
<1>6. ASSUME Compact PROVE Forgets(e) \/ Else(e)
  <2>1. PICK S \in SUBSET Stale :
          /\ age' = [f \in Envelopes |-> IF f \in S THEN -1 ELSE age[f]]
          /\ compactions' = [f \in Envelopes |->
                               IF f \in S THEN compactions[f] + 1 ELSE compactions[f]]
    BY <1>6 DEF Compact
  <2>2. CASE e \in S
    BY <1>6, <2>1, <2>2 DEF Compact, Stale, Forgets
  <2>3. CASE e \notin S
    BY <1>6, <2>1, <2>3 DEF Compact, Else
  <2> QED BY <2>2, <2>3
<1>7. ASSUME Day PROVE Else(e)
  <2>1. age'[e] >= 0 <=> age[e] >= 0
    BY <1>7 DEF Day
  <2> QED BY <1>7, <2>1 DEF Day, Else
<1>8. ASSUME CrashRestart PROVE Dies(e)
  BY <1>8 DEF CrashRestart, Dies
<1>9. CASE UNCHANGED <<durable, handlers, compactions, crashes>>
  BY <1>9 DEF Else
<1>10. CASE UNCHANGED <<messages, age, handlers, compactions, crashes>>
  BY <1>10 DEF Else
<1> QED
  BY <1>1, <1>2, <1>3, <1>4, <1>5, <1>6, <1>7, <1>8, <1>9, <1>10
  DEF Next, NodeNext, Dismiss, SendDirectMessage, ChangeContact, Arrive, Lost, vars

\* Removing handlers does not add copies; removing one makes room for one.
LEMMA HoldingShrinks ==
  ASSUME NEW e
  PROVE  /\ Holding(e)' \subseteq Holding(e)
              => Cardinality(Holding(e)') <= Cardinality(Holding(e))
         /\ \A h \in Holding(e) : Holding(e)' = Holding(e) \ {h}
              => Cardinality(Holding(e)') = Cardinality(Holding(e)) - 1
BY HoldingSize, FS_Subset, FS_RemoveElement

\* The two counts survive every kind of step.
LEMMA StepCount == TypeOK /\ CountInv /\ [Next]_vars => CountInv'
<1> SUFFICES ASSUME TypeOK, CountInv, [Next]_vars, NEW e \in Envelopes
             PROVE  /\ ~ Recorded(e)' => messages'[e] <= Base(e)' + (IF Storing(e)' THEN 1 ELSE 0)
                    /\ Recorded(e)' \/ Storing(e)' =>
                         messages'[e] + Cardinality(Holding(e)') <= Base(e)' + Width
  BY DEF CountInv, Width
<1> DEFINE n == Cardinality(Holding(e))
           k == Cardinality(Holding(e)')
<1>1. /\ n \in Nat /\ n <= Width /\ k \in Nat /\ k <= Width /\ Width \in Nat
  BY HoldingSize, HoldingSizeNext
<1>2. /\ messages[e] \in Nat /\ compactions[e] \in Nat /\ crashes \in Nat
  BY InboxAssumption DEF TypeOK
<1>3. Base(e) \in Nat
  BY <1>1, <1>2 DEF Base
<1>4. /\ ~ Recorded(e) => messages[e] <= Base(e) + (IF Storing(e) THEN 1 ELSE 0)
      /\ Recorded(e) \/ Storing(e) => messages[e] + n <= Base(e) + Width
  BY DEF CountInv
<1> HIDE DEF n, k
<1>5. CASE Joins(e)
  <2>1. ~ Storing(e) /\ ~ Storing(e)' /\ ~ Recorded(e)' /\ ~ Recorded(e)
    BY <1>5, InboxAssumption DEF Joins, Storing, Recorded
  <2>2. Base(e)' = Base(e) /\ messages'[e] = messages[e]
    BY <1>5 DEF Joins, Base, Width
  <2> QED BY <1>2, <1>3, <1>4, <2>1, <2>2
<1>6. CASE Stores(e)
  <2>1. ~ Storing(e) /\ Storing(e)' /\ (Recorded(e)' <=> Recorded(e))
    BY <1>6, InboxAssumption DEF Stores, Storing, Recorded
  <2>2. Base(e)' = Base(e) /\ messages'[e] = messages[e] + 1
    BY <1>6 DEF Stores, Base, Width
  <2>3. k = n - 1
    BY <1>6, HoldingShrinks DEF Stores, n, k
  <2> QED BY <1>1, <1>2, <1>3, <1>4, <2>1, <2>2, <2>3 DEF k
<1>7. CASE Records(e)
  <2>1. Storing(e) /\ ~ Storing(e)' /\ Recorded(e)'
    BY <1>7 DEF Records, Recorded
  <2>2. Base(e)' = Base(e) /\ messages'[e] = messages[e] /\ k = n
    BY <1>7 DEF Records, Base, Width, k, n
  <2> QED BY <1>1, <1>2, <1>3, <1>4, <2>1, <2>2 DEF k
<1>8. CASE Forgets(e)
  <2>1. ~ Storing(e) /\ ~ Storing(e)' /\ Recorded(e) /\ ~ Recorded(e)'
    BY <1>8, InboxAssumption DEF Forgets, Storing, Recorded, TypeOK
  <2>2. messages'[e] = messages[e] /\ compactions'[e] = compactions[e] + 1 /\ crashes' = crashes
    BY <1>8 DEF Forgets
  <2>3. Base(e)' = Base(e) + Width
    BY <1>1, <1>2, <2>2 DEF Base, Width
  <2> QED BY <1>1, <1>2, <1>3, <1>4, <2>1, <2>2, <2>3
<1>9. CASE Dies(e)
  <2>1. ~ Storing(e)' /\ (Recorded(e)' <=> Recorded(e))
    BY <1>9 DEF Dies, Recorded
  <2>2. messages'[e] = messages[e] /\ Base(e)' = Base(e) + 1
    BY <1>1, <1>2, <1>9 DEF Dies, Base, Width
  <2>3. k = 0
    BY <1>9, FS_EmptySet DEF Dies, k
  <2> QED BY <1>1, <1>2, <1>3, <1>4, <2>1, <2>2, <2>3 DEF k
<1>10. CASE Else(e)
  <2>1. (Storing(e)' <=> Storing(e)) /\ (Recorded(e)' <=> Recorded(e))
    BY <1>10 DEF Else
  <2>2. messages'[e] = messages[e] /\ Base(e)' = Base(e)
    BY <1>10 DEF Else, Base, Width
  <2>3. k <= n
    BY <1>10, HoldingShrinks DEF Else, k, n
  <2> QED BY <1>1, <1>2, <1>3, <1>4, <2>1, <2>2, <2>3 DEF k
<1> QED
  BY <1>5, <1>6, <1>7, <1>8, <1>9, <1>10, StepKinds

\* An envelope leaves at most one message per handler, and one more round of
\* them per compaction, and one more per crash.
THEOREM DuplicatesBoundedCorrect == Spec => []DuplicatesBounded
<1>1. Init => CountInv
  <2> SUFFICES ASSUME Init, NEW e \in Envelopes
               PROVE  /\ messages[e] <= Base(e) + (IF Storing(e) THEN 1 ELSE 0)
                      /\ ~ Recorded(e) /\ ~ Storing(e)
    BY DEF CountInv
  <2>1. Base(e) = 0
    BY HoldingSize DEF Init, Base
  <2> QED BY <2>1, InboxAssumption DEF Init, Storing, Recorded
<1>2. TypeOK /\ CountInv => DuplicatesBounded
  <2> SUFFICES ASSUME TypeOK, CountInv, NEW e \in Envelopes
               PROVE  messages[e] <= Width * (1 + compactions[e]) + crashes
    BY DEF DuplicatesBounded, Width
  <2>1. /\ messages[e] \in Nat /\ compactions[e] \in Nat /\ crashes \in Nat
    BY InboxAssumption DEF TypeOK
  <2>2. Cardinality(Holding(e)) \in Nat /\ Width \in Nat
    BY HoldingSize
  <2>3. Width * (1 + compactions[e]) + crashes = Base(e) + Width /\ Base(e) \in Nat
    BY <2>1, <2>2 DEF Base
  <2>4. CASE Recorded(e) \/ Storing(e)
    BY <2>1, <2>2, <2>3, <2>4 DEF CountInv
  <2>5. CASE ~ (Recorded(e) \/ Storing(e))
    BY <2>1, <2>2, <2>3, <2>5 DEF CountInv
  <2> QED BY <2>4, <2>5
<1> QED
  BY <1>1, <1>2, InitType, StepType, StepCount, PTL DEF Spec

-----------------------------------------------------------------------------
(* Compaction and expiry together.                                           *)

\* Envelopes that expire before the inbox may forget them.
ShortLived(e) == Lifetime[e] \in 1..Retention

\* What is left of a recorded envelope's lifetime shrinks as its row ages, so
\* nothing is left of it when the row is compacted.
TtlInv ==
  \A e \in Envelopes :
    /\ ttl[e] <= Lifetime[e]
    /\ ShortLived(e) /\ Recorded(e) /\ ttl[e] > 0 => age[e] + ttl[e] <= Lifetime[e]
    /\ ShortLived(e) /\ compactions[e] > 0 => ttl[e] = 0

Seen(e) == Recorded(e) \/ compactions[e] > 0

\* CountInv for short-lived envelopes, where a compaction changes nothing.
OnceInv ==
  \A e \in Envelopes : ShortLived(e) =>
    /\ ~ Seen(e) => messages[e] <= crashes + (IF Storing(e) THEN 1 ELSE 0)
    /\ Seen(e) \/ Storing(e) => messages[e] + Cardinality(Holding(e)) <= crashes + Width

\* Ages grow no faster than lifetimes shrink.
LEMMA StepTtl == TypeOK /\ TtlInv /\ [Next]_vars => TtlInv'
<1> SUFFICES ASSUME TypeOK, TtlInv, [Next]_vars PROVE TtlInv'
  OBVIOUS
<1> USE InboxAssumption DEF TypeOK, TtlInv, ShortLived, Recorded, durable, rows, handlers
<1>1. ASSUME NEW h \in Handlers, Record(h) PROVE TtlInv'
  BY <1>1 DEF Record
<1>2. ASSUME Compact PROVE TtlInv'
  <2>1. PICK S \in SUBSET Stale :
          /\ age' = [f \in Envelopes |-> IF f \in S THEN -1 ELSE age[f]]
          /\ compactions' = [f \in Envelopes |->
                               IF f \in S THEN compactions[f] + 1 ELSE compactions[f]]
    BY <1>2 DEF Compact
  <2>2. \A e \in S : ShortLived(e) => ttl[e] = 0
    <3> SUFFICES ASSUME NEW e \in S, ShortLived(e), ttl[e] # 0 PROVE FALSE
      OBVIOUS
    <3>1. e \in Envelopes /\ age[e] > Retention
      BY DEF Stale
    <3>2. age[e] + ttl[e] <= Lifetime[e]
      BY <3>1
    <3> QED BY <3>1, <3>2
  <2>3. ttl' = ttl
    BY <1>2 DEF Compact
  <2> QED BY <2>1, <2>2, <2>3
<1>3. ASSUME Day PROVE TtlInv'
  <2> SUFFICES ASSUME NEW e \in Envelopes
               PROVE  /\ ttl'[e] <= Lifetime[e]
                      /\ ShortLived(e) /\ age'[e] >= 0 /\ ttl'[e] > 0
                           => age'[e] + ttl'[e] <= Lifetime[e]
                      /\ ShortLived(e) /\ compactions'[e] > 0 => ttl'[e] = 0
    OBVIOUS
  <2>1. /\ age'[e] = IF age[e] >= 0 /\ age[e] <= Retention THEN age[e] + 1 ELSE age[e]
        /\ ttl'[e] = IF ttl[e] > 0 THEN ttl[e] - 1 ELSE 0
        /\ compactions' = compactions
    BY <1>3 DEF Day
  <2> QED BY <2>1
<1>4. CASE UNCHANGED <<age, ttl, compactions>>
  BY <1>4
<1> QED
  BY <1>1, <1>2, <1>3, <1>4
  DEF Next, NodeNext, Receive, Dismiss, Verified, Decrypted, Refuse, Leave,
      SendDirectMessage, ChangeContact, CrashRestart, Arrive, Lost, vars

\* The counts of a short-lived envelope survive every kind of step.
LEMMA StepOnce == TypeOK /\ TtlInv /\ OnceInv /\ [Next]_vars => OnceInv'
<1> SUFFICES ASSUME TypeOK, TtlInv, OnceInv, [Next]_vars,
                    NEW e \in Envelopes, ShortLived(e)
             PROVE  /\ ~ Seen(e)' => messages'[e] <= crashes' + (IF Storing(e)' THEN 1 ELSE 0)
                    /\ Seen(e)' \/ Storing(e)' =>
                         messages'[e] + Cardinality(Holding(e)') <= crashes' + Width
  BY DEF OnceInv, Width, ShortLived
<1> DEFINE n == Cardinality(Holding(e))
           k == Cardinality(Holding(e)')
<1>1. /\ n \in Nat /\ n <= Width /\ k \in Nat /\ k <= Width /\ Width \in Nat
  BY HoldingSize, HoldingSizeNext
<1>2. /\ messages[e] \in Nat /\ compactions[e] \in Nat /\ crashes \in Nat
  BY InboxAssumption DEF TypeOK
<1>3. /\ ~ Seen(e) => messages[e] <= crashes + (IF Storing(e) THEN 1 ELSE 0)
      /\ Seen(e) \/ Storing(e) => messages[e] + n <= crashes + Width
  BY DEF OnceInv
<1> HIDE DEF n, k
<1>4. CASE Joins(e)
  <2>1. compactions[e] = 0
    BY <1>2, <1>4, InboxAssumption DEF Joins, Expired, TtlInv, ShortLived
  <2>2. ~ Storing(e) /\ ~ Storing(e)' /\ ~ Seen(e)' /\ ~ Seen(e)
    BY <1>4, <2>1, InboxAssumption DEF Joins, Storing, Recorded, Seen
  <2>3. crashes' = crashes /\ messages'[e] = messages[e]
    BY <1>4 DEF Joins
  <2> QED BY <1>2, <1>3, <2>2, <2>3
<1>5. CASE Stores(e)
  <2>1. ~ Storing(e) /\ Storing(e)' /\ (Seen(e)' <=> Seen(e))
    BY <1>5, InboxAssumption DEF Stores, Storing, Recorded, Seen
  <2>2. crashes' = crashes /\ messages'[e] = messages[e] + 1
    BY <1>5 DEF Stores
  <2>3. k = n - 1
    BY <1>5, HoldingShrinks DEF Stores, n, k
  <2> QED BY <1>1, <1>2, <1>3, <2>1, <2>2, <2>3 DEF k
<1>6. CASE Records(e)
  <2>1. Storing(e) /\ ~ Storing(e)' /\ Seen(e)'
    BY <1>6 DEF Records, Recorded, Seen
  <2>2. crashes' = crashes /\ messages'[e] = messages[e] /\ k = n
    BY <1>6 DEF Records, k, n
  <2> QED BY <1>1, <1>2, <1>3, <2>1, <2>2 DEF k
<1>7. CASE Forgets(e)
  <2>1. ~ Storing(e) /\ ~ Storing(e)' /\ Seen(e) /\ Seen(e)'
    BY <1>2, <1>7, InboxAssumption DEF Forgets, Storing, Recorded, Seen, TypeOK
  <2>2. messages'[e] = messages[e] /\ crashes' = crashes /\ k = n
    BY <1>7 DEF Forgets, k, n
  <2> QED BY <1>1, <1>2, <1>3, <2>1, <2>2 DEF k
<1>8. CASE Dies(e)
  <2>1. ~ Storing(e)' /\ (Seen(e)' <=> Seen(e))
    BY <1>8 DEF Dies, Recorded, Seen
  <2>2. messages'[e] = messages[e] /\ crashes' = crashes + 1
    BY <1>8 DEF Dies
  <2>3. k = 0
    BY <1>8, FS_EmptySet DEF Dies, k
  <2> QED BY <1>1, <1>2, <1>3, <2>1, <2>2, <2>3 DEF k
<1>9. CASE Else(e)
  <2>1. (Storing(e)' <=> Storing(e)) /\ (Seen(e)' <=> Seen(e))
    BY <1>9 DEF Else, Seen
  <2>2. messages'[e] = messages[e] /\ crashes' = crashes
    BY <1>9 DEF Else
  <2>3. k <= n
    BY <1>9, HoldingShrinks DEF Else, k, n
  <2> QED BY <1>1, <1>2, <1>3, <2>1, <2>2, <2>3 DEF k
<1> QED
  BY <1>4, <1>5, <1>6, <1>7, <1>8, <1>9, StepKinds

\* Compaction adds no copy of an envelope whose lifetime is within the retention.
THEOREM ExpiryCoversCompactionCorrect == Spec => []ExpiryCoversCompaction
<1>1. Init => TtlInv /\ OnceInv
  <2> SUFFICES ASSUME Init, NEW e \in Envelopes
               PROVE  /\ ttl[e] = Lifetime[e] /\ Lifetime[e] \in Nat
                      /\ ~ Recorded(e) /\ ~ Storing(e) /\ compactions[e] = 0
                      /\ messages[e] = 0 /\ crashes = 0
    BY DEF TtlInv, OnceInv, Seen
  <2> QED BY InboxAssumption DEF Init, Storing, Recorded
<1>2. TypeOK /\ OnceInv => ExpiryCoversCompaction
  <2> SUFFICES ASSUME TypeOK, OnceInv, NEW e \in Envelopes, ShortLived(e)
               PROVE  messages[e] <= Width + crashes
    BY DEF ExpiryCoversCompaction, Width, ShortLived
  <2>1. messages[e] \in Nat /\ crashes \in Nat
    BY InboxAssumption DEF TypeOK
  <2>2. Cardinality(Holding(e)) \in Nat /\ Width \in Nat
    BY HoldingSize
  <2>3. CASE Seen(e) \/ Storing(e)
    BY <2>1, <2>2, <2>3 DEF OnceInv
  <2>4. CASE ~ (Seen(e) \/ Storing(e))
    BY <2>1, <2>2, <2>4 DEF OnceInv
  <2> QED BY <2>3, <2>4
<1> QED
  BY <1>1, <1>2, InitType, StepType, StepTtl, StepOnce, PTL DEF Spec

-----------------------------------------------------------------------------
(* What a damaged envelope leaves.                                         *)

\* What each await has sorted out by the time a handler is past it, what is in
\* the tables then, and whose conversations there are.
FlawInv ==
  /\ \A h \in Handlers :
       /\ pc[h] # "idle" => Flaw[busy[h]] \notin {"unroutable", "misaddressed"}
       /\ pc[h] \in {"decrypting", "recording"} => Flaw[busy[h]] # "forged"
       /\ pc[h] = "recording" => Flaw[busy[h]] # "undecryptable"
  /\ \A e \in Envelopes : Flaw[e] \notin {"none", "ahead"} => messages[e] = 0 /\ ~ Recorded(e)
  /\ \A c \in Conversations, p \in Peers : <<c, p>> \in opened =>
       \/ c \in OwnIds /\ stamped[p] > 0
       \/ \E f \in Envelopes : Names[f] = c /\ Sender[f] = p /\ Flaw[f] \notin Unverifiable

\* Every step keeps it; of the conversations, only those that change are new.
LEMMA StepFlaw == TypeOK /\ TableInv /\ FlawInv /\ [Next]_vars => FlawInv'
<1> SUFFICES ASSUME TypeOK, TableInv, FlawInv, [Next]_vars PROVE FlawInv'
  OBVIOUS
<1> USE InboxAssumption
<1>0. ASSUME NEW c \in Conversations, NEW p \in Peers, <<c, p>> \in opened'
      PROVE  \/ c \in OwnIds /\ stamped'[p] > 0
             \/ \E f \in Envelopes : Names[f] = c /\ Sender[f] = p /\ Flaw[f] \notin Unverifiable
  <2>1. ASSUME NEW h \in Handlers, Finds(h), Flaw[busy[h]] \notin Unverifiable
        PROVE  \/ c \in OwnIds /\ stamped'[p] > 0
               \/ \E f \in Envelopes : Names[f] = c /\ Sender[f] = p /\ Flaw[f] \notin Unverifiable
    <3>1. PICK e \in Envelopes : e = busy[h]
      BY <2>1, FindRows
    <3>2. stamped' = stamped /\ (<<c, p>> \in opened \/ (c = Names[e] /\ p = Sender[e]))
      BY <1>0, <2>1, <3>1, FindRows DEF tables
    <3> QED BY <2>1, <3>1, <3>2 DEF FlawInv
  <2>2. ASSUME NEW s \in Peers, Sends(s)
        PROVE  \/ c \in OwnIds /\ stamped'[p] > 0
               \/ \E f \in Envelopes : Names[f] = c /\ Sender[f] = p /\ Flaw[f] \notin Unverifiable
    <3>0. PICK n \in Conversations :
            /\ \A d \in Conversations, q \in Peers :
                 <<d, q>> \in opened' <=> <<d, q>> \in opened \/ (d = n /\ q = s)
            /\ <<n, s>> \in opened \/
                 /\ \A d \in Conversations : <<d, s>> \notin opened
                 /\ \A q \in Peers : <<n, q>> \notin opened
                 /\ n \in OwnIds
            /\ clock'   = [clock EXCEPT ![n] = @ + 1]
            /\ stamped' = [stamped EXCEPT ![s] = clock[n] + 1]
            /\ displaced' = displaced
      BY <2>2, SendRows
    <3>1. <<c, p>> \in opened \/ (c = n /\ p = s /\ c \in OwnIds)
      BY <1>0, <3>0
    <3>2. stamped'[s] > 0 /\ (stamped[p] > 0 => stamped'[p] > 0)
      BY <3>0 DEF TypeOK
    <3> QED BY <3>1, <3>2 DEF FlawInv
  <2>3. CASE UNCHANGED tables
    BY <1>0, <2>3 DEF tables, FlawInv
  <2>4. ASSUME NEW h \in Handlers, Verified(h)
        PROVE  Finds(h) /\ Flaw[busy[h]] \notin Unverifiable
    BY <2>4 DEF Verified, Finds, FlawInv, Unverifiable
  <2>5. (\E h \in Handlers : Verified(h)) \/ (\E s \in Peers : Sends(s)) \/ UNCHANGED tables
    BY DEF Sends, Next, NodeNext, Receive, Dismiss, Decrypted, Record, Refuse, Leave,
           SendDirectMessage, Compact, ChangeContact, Day, CrashRestart, Arrive, Lost,
           vars, durable, tables
  <2> QED BY <2>1, <2>2, <2>3, <2>4, <2>5
<1> USE DEF TypeOK, FlawInv, Recorded, durable, rows, handlers
<1>1. ASSUME NEW h \in Handlers, NEW e \in Envelopes, Receive(h, e) PROVE FlawInv'
  BY <1>0, <1>1 DEF Receive, Admissible
<1>2. ASSUME NEW h \in Handlers, Verified(h) PROVE FlawInv'
  BY <1>0, <1>2 DEF Verified
<1>3. ASSUME NEW h \in Handlers, Decrypted(h) PROVE FlawInv'
  BY <1>0, <1>3 DEF Decrypted, Flaws
<1>4. ASSUME NEW h \in Handlers, Record(h) PROVE FlawInv'
  BY <1>0, <1>4 DEF Record, Flaws
<1>5. ASSUME NEW h \in Handlers, Refuse(h) \/ Leave(h) PROVE FlawInv'
  <2>1. /\ pc' = [pc EXCEPT ![h] = "idle"] /\ busy' = [busy EXCEPT ![h] = NoEnvelope]
        /\ messages' = messages /\ age' = age
    BY <1>5 DEF Refuse, Leave
  <2> QED BY <1>0, <2>1
<1>6. ASSUME Compact PROVE FlawInv'
  BY <1>0, <1>6 DEF Compact
<1>7. ASSUME Day PROVE FlawInv'
  BY <1>0, <1>7 DEF Day
<1>8. ASSUME CrashRestart PROVE FlawInv'
  BY <1>0, <1>8 DEF CrashRestart
<1>9. CASE UNCHANGED <<rows, pc, busy>>
  BY <1>0, <1>9
<1> QED
  BY <1>1, <1>2, <1>3, <1>4, <1>5, <1>6, <1>7, <1>8, <1>9
  DEF Next, NodeNext, Dismiss, SendDirectMessage, ChangeContact, Arrive, Lost, vars

\* A damaged envelope leaves no message and keeps its id; without a signature
\* that verifies, it opens no conversation.
THEOREM FlawLeavesNoTraceCorrect == Spec => []FlawLeavesNoTrace
<1>1. Init => TableInv /\ FlawInv
  BY DEF Init, TableInv, Replaced, FlawInv, Recorded
<1>2. FlawInv => FlawLeavesNoTrace
  BY InboxAssumption DEF FlawInv, FlawLeavesNoTrace
<1> QED
  BY <1>1, <1>2, InitType, StepType, StepTable, StepFlaw, PTL DEF Spec
=============================================================================
