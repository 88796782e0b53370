--------------------------- MODULE LocalApiProofs ---------------------------
(***************************************************************************)
(* What the local API promises about contacts, requests and tokens, and    *)
(* what its rate limiter admits over any stretch of time, holds for every  *)
(* set of peers, requests, applications and tokens, every limit and window *)
(* length, and any number of deliveries, answers and crashes.              *)
(***************************************************************************)
EXTENDS LocalApi, FiniteSetTheorems, WellFoundedInduction, TLAPS

-----------------------------------------------------------------------------
(* The inductive invariant.                                                *)

\* An accepted peer was approved, an approved peer asked, and an approval
\* between its two writes is that of a request that was delivered.
AskedInv ==
  /\ \A p \in Peers : contact[p] = "accepted" => p \in approved
  /\ \A p \in approved : \E r \in Incoming : Peer[r] = p /\ receipts[r] > 0
  /\ loop # Free => receipts[loop] > 0

\* A delivered request that waits for an answer has had one answer less than
\* deliveries; a request of this node is answered once it is rejected.
AnswersInv ==
  /\ \A r \in Incoming :
       /\ request[r] # "pending_outbound"
       /\ request[r] # "none" => receipts[r] > 0
       /\ answers[r] <= receipts[r]
       /\ request[r] = "pending_inbound" => answers[r] < receipts[r]
  /\ \A r \in Outgoing :
       /\ request[r] \in {"none", "pending_outbound", "rejected"}
       /\ answers[r] = IF request[r] = "rejected" THEN 1 ELSE 0

ContactInv ==
  /\ ContactTypeOK
  /\ AskedInv
  /\ AnswersInv
  /\ OneOutboundPending
  /\ AcceptedHasContact

\* The part of the other variables' types that the proofs use.
TokenType == token \in [Tokens -> {"none", "active", "revoked"}]
SendType  == send \in [Sends -> SendStage]

Inv == ContactInv /\ TokenType /\ SendType /\ SentToApproved

-----------------------------------------------------------------------------
\* The contact tables start empty.
LEMMA ContactInitInv == ContactInit => ContactInv
BY ContactAssumption
   DEF ContactInit, ContactInv, ContactTypeOK, AskedInv, AnswersInv, OneOutboundPending,
       AcceptedHasContact, ContactStatus, RequestStatus, Requests

\* Every contact use case, each of its two writes apart, keeps the invariant
\* and forgets no approval.
LEMMA ContactStep ==
  ASSUME ContactInv, ContactNext \/ ContactCrash
  PROVE  ContactInv' /\ approved \subseteq approved'
<1> USE ContactAssumption DEF ContactInv, ContactTypeOK, ContactStatus, RequestStatus, Requests
<1>1. ASSUME NEW r \in Requests, SendContactRequest(r)
      PROVE  ContactInv' /\ approved \subseteq approved'
  <2> USE <1>1 DEF SendContactRequest
  <2>1. ContactTypeOK'
    OBVIOUS
  <2>2. AskedInv'
    BY DEF AskedInv
  <2>3. AnswersInv'
    BY DEF AnswersInv
  <2>4. OneOutboundPending'
    BY DEF OneOutboundPending, PendingWith, PendingStatus
  <2>5. AcceptedHasContact'
    BY DEF AcceptedHasContact
  <2> QED BY <2>1, <2>2, <2>3, <2>4, <2>5
<1>2. ASSUME NEW r \in Requests, ReceiveContactRequest(r)
      PROVE  ContactInv' /\ approved \subseteq approved'
  <2> USE <1>2 DEF ReceiveContactRequest
  <2>1. ContactTypeOK'
    OBVIOUS
  <2>2. \A q \in Requests : receipts'[q] >= receipts[q]
    OBVIOUS
  <2>3. AskedInv'
    <3>1. \A p \in approved' : \E q \in Incoming : Peer[q] = p /\ receipts'[q] > 0
      BY <2>1, <2>2 DEF AskedInv
    <3> QED BY <3>1 DEF AskedInv
  <2>4. AnswersInv'
    BY <2>1, <2>2 DEF AnswersInv
  <2>5. OneOutboundPending'
    BY DEF OneOutboundPending
  <2>6. AcceptedHasContact'
    BY DEF AcceptedHasContact
  <2> QED BY <2>1, <2>3, <2>4, <2>5, <2>6
<1>3. ASSUME NEW r \in Requests, Approve(r)
      PROVE  ContactInv' /\ approved \subseteq approved'
  <2> USE <1>3 DEF Approve, Approvable
  <2>0. r \in Incoming /\ answers[r] < receipts[r]
    BY DEF AnswersInv
  <2>1. ContactTypeOK'
    BY <2>0
  <2>2. AskedInv'
    BY <2>0 DEF AskedInv, AnswersInv
  <2>3. AnswersInv'
    BY <2>0 DEF AnswersInv
  <2>4. OneOutboundPending'
    BY <2>0 DEF OneOutboundPending
  <2>5. AcceptedHasContact'
    BY <2>0 DEF AcceptedHasContact
  <2> QED BY <2>1, <2>2, <2>3, <2>4, <2>5
<1>4. ASSUME NEW r \in Requests, SaveApproved(r)
      PROVE  ContactInv' /\ approved \subseteq approved'
  <2> USE <1>4 DEF SaveApproved
  <2>0. r \in Incoming /\ receipts[r] > 0 /\ Peer[r] \in Peers
    BY DEF AskedInv
  <2>1. ContactTypeOK'
    BY <2>0
  <2>2. AskedInv'
    BY <2>0 DEF AskedInv
  <2>3. AnswersInv'
    BY DEF AnswersInv
  <2>4. OneOutboundPending'
    BY DEF OneOutboundPending
  <2>5. AcceptedHasContact'
    BY <2>0 DEF AcceptedHasContact
  <2> QED BY <2>1, <2>2, <2>3, <2>4, <2>5
<1>5. ASSUME NEW r \in Requests, RejectContactRequest(r)
      PROVE  ContactInv' /\ approved \subseteq approved'
  <2> USE <1>5 DEF RejectContactRequest, PendingStatus
  <2>1. ContactTypeOK'
    OBVIOUS
  <2>2. AskedInv'
    BY DEF AskedInv
  <2>3. AnswersInv'
    BY <2>1 DEF AnswersInv
  <2>4. OneOutboundPending'
    BY DEF OneOutboundPending
  <2>5. AcceptedHasContact'
    BY DEF AcceptedHasContact
  <2> QED BY <2>1, <2>2, <2>3, <2>4, <2>5
<1>6. ASSUME NEW p \in Peers, BlockPeer(p)
      PROVE  ContactInv' /\ approved \subseteq approved'
  <2> USE <1>6 DEF BlockPeer
  <2>1. ContactTypeOK'
    OBVIOUS
  <2>2. AskedInv'
    BY DEF AskedInv
  <2>3. AnswersInv' /\ OneOutboundPending'
    BY DEF AnswersInv, OneOutboundPending
  <2>4. AcceptedHasContact'
    BY DEF AcceptedHasContact
  <2> QED BY <2>1, <2>2, <2>3, <2>4
<1>7. ASSUME ContactCrash
      PROVE  ContactInv' /\ approved \subseteq approved'
  <2> USE <1>7 DEF ContactCrash
  <2>1. ContactTypeOK'
    OBVIOUS
  <2>2. AskedInv'
    BY DEF AskedInv
  <2>3. AnswersInv' /\ OneOutboundPending'
    BY DEF AnswersInv, OneOutboundPending
  <2>4. AcceptedHasContact'
    BY DEF AcceptedHasContact
  <2> QED BY <2>1, <2>2, <2>3, <2>4
<1> QED
  BY <1>1, <1>2, <1>3, <1>4, <1>5, <1>6, <1>7 DEF ContactNext

\* A step that leaves the contact tables alone keeps their invariant.
LEMMA ContactStutter ==
  ASSUME ContactInv, UNCHANGED contactVars
  PROVE  ContactInv' /\ approved' = approved
BY DEF contactVars, ContactInv, ContactTypeOK, AskedInv, AnswersInv, OneOutboundPending,
       AcceptedHasContact

\* A revoked token stays revoked through every step of the integration side.
LEMMA AccessStep ==
  ASSUME TokenType, AccessNext \/ AccessCrash
  PROVE  /\ TokenType'
         /\ \A t \in Tokens : token[t] = "revoked" => token'[t] = "revoked"
BY DEF TokenType, AccessNext, AccessCrash, RegisterExternalApplication, CreateApiToken,
       RevokeApiToken, SubscribeExternalAppToEvents, PassTime

\* A call that goes on sealing has found the recipient among the accepted contacts,
\* who were all approved.
LEMMA SendStep ==
  ASSUME Inv, NEW x \in Sends, SendMessageFromExternalApp(x) \/ SendSealed(x)
  PROVE  Inv'
<1> USE SendsAssumption DEF Inv
<1>1. ContactInv' /\ approved' = approved
  BY ContactStutter DEF SendMessageFromExternalApp, SendSealed
<1>2. TokenType'
  BY DEF SendMessageFromExternalApp, SendSealed, accessVars, TokenType
<1>3. SendType'
  BY DEF SendMessageFromExternalApp, SendSealed, SendType, SendStage
<1>4. CASE SendMessageFromExternalApp(x)
  <2>1. contact[To[x]] = "accepted" => To[x] \in approved
    BY DEF ContactInv, AskedInv
  <2>2. SentToApproved'
    BY <1>1, <1>4, <2>1 DEF SendMessageFromExternalApp, SentToApproved, SendType
  <2> QED BY <1>1, <1>2, <1>3, <2>2
<1>5. CASE SendSealed(x)
  <2>1. SentToApproved'
    BY <1>1, <1>5 DEF SendSealed, SentToApproved, SendType
  <2> QED BY <1>1, <1>2, <1>3, <2>1
<1> QED BY <1>4, <1>5

\* The invariant holds at first and every step of the local API keeps it.
LEMMA InvInductive ==
  /\ Init => Inv
  /\ Inv /\ [Next]_vars => Inv'
<1>1. Init => Inv
  BY ContactInitInv
     DEF Init, Inv, AccessInit, TokenType, SendType, SendStage, SentToApproved
<1>2. ASSUME Inv, [Next]_vars
      PROVE  Inv'
  <2> USE <1>2 DEF Inv
  <2>1. CASE ContactNext /\ UNCHANGED <<accessVars, send>>
    BY <2>1, ContactStep DEF accessVars, TokenType, SendType, SentToApproved
  <2>2. CASE AccessNext /\ UNCHANGED <<contactVars, send>>
    BY <2>2, AccessStep, ContactStutter DEF SendType, SentToApproved
  <2>3. ASSUME NEW x \in Sends, SendMessageFromExternalApp(x) \/ SendSealed(x)
        PROVE  Inv'
    BY <2>3, SendStep
  <2>4. CASE CrashRestart
    <3>1. ContactInv' /\ TokenType' /\ approved \subseteq approved'
      BY <2>4, ContactStep, AccessStep DEF CrashRestart
    <3>2. SendType' /\ SentToApproved'
      BY <2>4, <3>1 DEF CrashRestart, SendType, SendStage, SentToApproved
    <3> QED BY <3>1, <3>2
  <2>5. CASE UNCHANGED vars
    BY <2>5, ContactStutter DEF vars, accessVars, TokenType, SendType, SentToApproved
  <2> QED BY <2>1, <2>2, <2>3, <2>4, <2>5 DEF Next
<1> QED BY <1>1, <1>2

\* The inductive invariant holds in every reachable state.
THEOREM InvCorrect == Spec => []Inv
BY InvInductive, PTL DEF Spec

-----------------------------------------------------------------------------
\* Only a peer that asked and was approved is ever an accepted contact.
THEOREM AcceptedHaveAskedCorrect == Spec => []AcceptedHaveAsked
<1>1. Inv => AcceptedHaveAsked
  BY DEF Inv, ContactInv, AskedInv, AcceptedHaveAsked
<1> QED BY <1>1, InvCorrect, PTL

\* At most one request of this node to a peer is pending.
THEOREM OneOutboundPendingCorrect == Spec => []OneOutboundPending
<1>1. Inv => OneOutboundPending
  BY DEF Inv, ContactInv
<1> QED BY <1>1, InvCorrect, PTL

\* A request is answered at most once for each time it was delivered or sent.
THEOREM OneAnswerPerRequestCorrect == Spec => []OneAnswerPerRequest
<1>1. Inv => OneAnswerPerRequest
  BY ContactAssumption
     DEF Inv, ContactInv, ContactTypeOK, AnswersInv, OneAnswerPerRequest, Requests
<1> QED BY <1>1, InvCorrect, PTL

\* An accepted request has a contact row, but for a crash between the writes.
THEOREM AcceptedHasContactCorrect == Spec => []AcceptedHasContact
<1>1. Inv => AcceptedHasContact
  BY DEF Inv, ContactInv
<1> QED BY <1>1, InvCorrect, PTL

\* Messages were only ever accepted for peers that had been approved.
THEOREM SentToApprovedCorrect == Spec => []SentToApproved
<1>1. Inv => SentToApproved
  BY DEF Inv
<1> QED BY <1>1, InvCorrect, PTL

\* A revoked token stays revoked, and of the calls that bring it only those that
\* were sealing their message when it was revoked still end.
THEOREM RevokedIsSilentCorrect == Spec => RevokedIsSilent
<1> DEFINE Silent == \A x \in Sends : token[By[x]] = "revoked" =>
                       /\ token'[By[x]] = "revoked"
                       /\ send'[x] # send[x] => send[x] = "sealing"
<1>1. ASSUME Inv, [Next]_vars
      PROVE  [Silent]_vars
  <2> USE <1>1, SendsAssumption DEF Inv
  <2>1. CASE ContactNext /\ UNCHANGED <<accessVars, send>>
    BY <2>1 DEF accessVars
  <2>2. CASE AccessNext /\ UNCHANGED <<contactVars, send>>
    BY <2>2, AccessStep
  <2>3. ASSUME NEW x \in Sends, SendMessageFromExternalApp(x)
        PROVE  Silent
    BY <2>3 DEF SendMessageFromExternalApp, Authorizes, SendType
  <2>4. ASSUME NEW x \in Sends, SendSealed(x)
        PROVE  Silent
    BY <2>4 DEF SendSealed, accessVars, SendType
  <2>5. CASE CrashRestart
    BY <2>5, AccessStep DEF CrashRestart, SendType
  <2> QED BY <2>1, <2>2, <2>3, <2>4, <2>5 DEF Next
<1> QED BY <1>1, InvCorrect, PTL DEF Spec, RevokedIsSilent

-----------------------------------------------------------------------------
(* The types of the integration side, the limiter's windows included.      *)

\* A request that the limiter lets through fits in a window: the count of an
\* open one is below the limit, a new one begins with one request.
LEMMA CountType ==
  ASSUME AccessTypeOK, NEW a \in Apps, Allows(a), Count(a)
  PROVE  /\ window' \in [Apps -> [age : 0..Window, count : 0..MaxRequests]]
         /\ admitted' \in [Apps -> [Ages -> Nat]]
<1> USE AccessAssumption
<1> DEFINE w == IF Expired(a) THEN [age |-> 0, count |-> 1]
                              ELSE [window[a] EXCEPT !.count = @ + 1]
           W == [age : 0..Window, count : 0..MaxRequests]
<1>1. window[a] \in W /\ admitted[a] \in [Ages -> Nat]
  BY DEF AccessTypeOK
<1>2. w \in W
  <2>1. [age |-> 0, count |-> 1] \in W
    OBVIOUS
  <2>2. ~ Expired(a) => [window[a] EXCEPT !.count = @ + 1] \in W
    BY <1>1 DEF Allows
  <2> QED BY <2>1, <2>2
<1>3. window' = [window EXCEPT ![a] = w]
  BY DEF Count
<1>4. window' \in [Apps -> W]
  <2>1. window \in [Apps -> W]
    BY DEF AccessTypeOK
  <2> HIDE DEF w, W
  <2> QED BY <1>2, <1>3, <2>1
<1>5. [admitted[a] EXCEPT ![0] = @ + 1] \in [Ages -> Nat]
  BY <1>1 DEF Ages
<1>6. admitted' = [admitted EXCEPT ![a] = [admitted[a] EXCEPT ![0] = @ + 1]]
  BY DEF Count
<1>7. admitted' \in [Apps -> [Ages -> Nat]]
  BY <1>5, <1>6 DEF AccessTypeOK
<1> QED BY <1>4, <1>7

\* Time makes a window older, or closes it; what was admitted moves back by one.
LEMMA PassTimeType ==
  ASSUME AccessTypeOK, PassTime
  PROVE  AccessTypeOK'
<1> USE AccessAssumption
<1>1. ASSUME NEW a \in Apps
      PROVE  Older(window[a]) \in [age : 0..Window, count : 0..MaxRequests]
  <2>1. window[a] \in [age : 0..Window, count : 0..MaxRequests]
    BY DEF AccessTypeOK
  <2>2. Closed \in [age : 0..Window, count : 0..MaxRequests]
    BY DEF Closed
  <2>3. window[a].age + 1 < Window =>
          [window[a] EXCEPT !.age = @ + 1] \in [age : 0..Window, count : 0..MaxRequests]
    BY <2>1
  <2> QED BY <2>1, <2>2, <2>3 DEF Older
<1>2. ASSUME NEW a \in Apps
      PROVE  [d \in Ages |-> IF d = 0 THEN 0 ELSE admitted[a][d - 1]] \in [Ages -> Nat]
  <2>1. admitted[a] \in [Ages -> Nat]
    BY DEF AccessTypeOK
  <2>2. \A d \in Ages : d # 0 => d - 1 \in Ages
    BY DEF Ages
  <2> QED BY <2>1, <2>2
<1> QED BY <1>1, <1>2 DEF PassTime, AccessTypeOK

\* Every step of the integration side, and a crash, keeps its types.
LEMMA AccessType ==
  ASSUME AccessTypeOK, AccessNext \/ AccessCrash
  PROVE  AccessTypeOK'
<1> USE AccessAssumption
<1>1. ASSUME NEW a \in Apps, RegisterExternalApplication(a)
      PROVE  AccessTypeOK'
  BY <1>1 DEF RegisterExternalApplication, AccessTypeOK
<1>2. ASSUME NEW t \in Tokens, CreateApiToken(t) \/ RevokeApiToken(t)
      PROVE  AccessTypeOK'
  BY <1>2 DEF CreateApiToken, RevokeApiToken, AccessTypeOK
<1>3. ASSUME NEW t \in Tokens, SubscribeExternalAppToEvents(t)
      PROVE  AccessTypeOK'
  BY <1>3 DEF SubscribeExternalAppToEvents, Authorizes, AccessTypeOK
<1>4. CASE AccessCrash
  <2>1. Closed \in [age : 0..Window, count : 0..MaxRequests]
    BY DEF Closed
  <2>2. window' \in [Apps -> [age : 0..Window, count : 0..MaxRequests]]
    BY <1>4, <2>1 DEF AccessCrash
  <2>3. admitted' \in [Apps -> [Ages -> Nat]]
    BY <1>4 DEF AccessCrash
  <2> QED BY <1>4, <2>2, <2>3 DEF AccessCrash, AccessTypeOK
<1> QED BY <1>1, <1>2, <1>3, <1>4, PassTimeType DEF AccessNext

\* The types hold at first, and every step of the local API keeps them.
LEMMA TypeInductive ==
  /\ Init => TypeOK
  /\ Inv /\ TypeOK /\ Inv' /\ [Next]_vars => TypeOK'
<1> USE ContactAssumption, AccessAssumption
<1>1. ASSUME Init
      PROVE  TypeOK
  <2>1. ContactTypeOK
    BY <1>1, ContactInitInv DEF Init, ContactInv
  <2>2. Closed \in [age : 0..Window, count : 0..MaxRequests]
    BY DEF Closed
  <2>3. /\ window \in [Apps -> [age : 0..Window, count : 0..MaxRequests]]
        /\ admitted \in [Apps -> [Ages -> Nat]]
    BY <1>1, <2>2 DEF Init, AccessInit
  <2> QED BY <1>1, <2>1, <2>3 DEF Init, AccessInit, TypeOK, AccessTypeOK, SendStage
<1>2. ASSUME Inv, TypeOK, Inv', [Next]_vars
      PROVE  TypeOK'
  <2> USE <1>2
  <2>1. ContactTypeOK' /\ send' \in [Sends -> SendStage]
    BY DEF Inv, ContactInv, SendType
  <2>2. AccessTypeOK'
    <3>1. CASE AccessNext \/ AccessCrash
      BY <3>1, AccessType DEF TypeOK
    <3>2. ASSUME NEW x \in Sends, SendMessageFromExternalApp(x)
          PROVE  AccessTypeOK'
      <4>1. App[By[x]] \in Apps
        BY SendsAssumption
      <4>2. Allows(App[By[x]]) /\ Count(App[By[x]]) /\ UNCHANGED <<app, token, webhooks>>
        BY <3>2 DEF SendMessageFromExternalApp
      <4> QED BY <4>1, <4>2, CountType DEF TypeOK, AccessTypeOK
    <3>3. CASE UNCHANGED accessVars
      BY <3>3 DEF accessVars, TypeOK, AccessTypeOK
    <3> QED BY <3>1, <3>2, <3>3 DEF Next, CrashRestart, SendSealed, vars
  <2> QED BY <2>1, <2>2 DEF TypeOK
<1> QED BY <1>1, <1>2

\* The variables of the local API keep their types; above all, no window ever
\* counts more requests than the limit.
THEOREM TypeCorrect == Spec => []TypeOK
BY InvCorrect, InvInductive, TypeInductive, PTL DEF Spec

-----------------------------------------------------------------------------
(* Sums.  The fold of the community modules is the CHOOSE of a recursive   *)
(* function; that there is one, and what it returns, is shown here for the *)
(* sum over the first n numbers, each induction as a least counterexample. *)

Before == {ss \in Nat \X Nat : ss[1] < ss[2]}

\* A set of numbers has a least one.
LEMMA LeastNumber ==
  ASSUME NEW T, T \subseteq Nat, T # {}
  PROVE  \E x \in T : \A y \in T : x <= y
<1>1. IsWellFoundedOn(Before, Nat)
  BY NatLessThanWellFounded, Zenon DEF OpToRel, Before
<1>2. \E x \in T : \A y \in T : ~(<<y, x>> \in Before)
  BY <1>1, WFMin, Zenon
<1>3. \A x, y \in Nat : <<y, x>> \notin Before => x <= y
  BY DEF Before
<1> QED BY <1>2, <1>3

\* h adds f up over the subsets of S, in the order in which CHOOSE takes them.
Adds(f, S, h) ==
  h = [s \in SUBSET S |-> IF s = {} THEN 0
                          ELSE f[CHOOSE x \in s : TRUE] + h[s \ {CHOOSE x \in s : TRUE}]]

Total(f, S) == (CHOOSE h : Adds(f, S, h))[S]

LEMMA SlidingTotal ==
  SlidingLimit <=> \A a \in Apps : Total(admitted[a], Ages) <= 2 * MaxRequests - 1
BY DEF SlidingLimit, MapThenSumSet, MapThenFoldSet, Total, Adds

\* g adds f up over the subsets of 0..n - 1, in whatever order.
Sums(f, n, g) ==
  /\ g \in [SUBSET (0..n - 1) -> Nat]
  /\ g[{}] = 0
  /\ \A s \in SUBSET (0..n - 1) : \A x \in s : g[s] = f[x] + g[s \ {x}]

LEMMA SumsExist ==
  ASSUME NEW n \in Nat, NEW f \in [0..n - 1 -> Nat]
  PROVE  \E g : Sums(f, n, g)
<1> DEFINE Bad == {k \in 0..n : ~ \E g : Sums(f, k, g)}
<1> SUFFICES ASSUME Bad # {} PROVE FALSE
  <2>1. n \in 0..n
    OBVIOUS
  <2> QED BY <2>1
<1>1. PICK k \in Bad : \A i \in Bad : k <= i
  <2>1. Bad \subseteq Nat
    OBVIOUS
  <2> HIDE DEF Bad
  <2> QED BY <2>1, LeastNumber
<1>2. k \in 0..n /\ ~ \E g : Sums(f, k, g)
  OBVIOUS
<1>3. CASE k = 0
  <2> DEFINE g == [s \in SUBSET (0..k - 1) |-> 0]
  <2>1. 0..k - 1 = {}
    BY <1>3
  <2>2. Sums(f, k, g)
    BY <2>1 DEF Sums
  <2> QED BY <1>2, <2>2
<1>4. CASE k # 0
  <2>1. k - 1 \in 0..n /\ k - 1 \in 0..n - 1 /\ ~ (k <= k - 1)
    BY <1>2, <1>4
  <2>2. k - 1 \notin Bad
    BY <1>1, <2>1
  <2>3. PICK g : Sums(f, k - 1, g)
    BY <2>1, <2>2
  <2> DEFINE last == k - 1
             D == 0..k - 1
             E == 0..(k - 1) - 1
             more(s) == IF last \in s THEN f[last] ELSE 0
             h == [s \in SUBSET D |-> g[s \ {last}] + more(s)]
  <2>4. D = E \cup {last} /\ last \notin E
    BY <2>1
  <2>5. f[last] \in Nat /\ \A s : more(s) \in Nat
    BY <2>1
  <2>6. \A x \in D : f[x] \in Nat
    BY <1>2
  <2>7. /\ g \in [SUBSET E -> Nat] /\ g[{}] = 0
        /\ \A s \in SUBSET E : \A x \in s : g[s] = f[x] + g[s \ {x}]
    BY <2>3 DEF Sums
  <2> HIDE DEF D, E, last
  <2>8. h \in [SUBSET D -> Nat]
    <3>1. \A s \in SUBSET D : s \ {last} \in SUBSET E
      BY <2>4
    <3>2. \A s \in SUBSET D : g[s \ {last}] \in Nat
      BY <2>7, <3>1
    <3>3. \A s \in SUBSET D : g[s \ {last}] + more(s) \in Nat
      <4> TAKE s \in SUBSET D
      <4>1. g[s \ {last}] \in Nat /\ more(s) \in Nat
        BY <2>5, <3>2
      <4> HIDE DEF more
      <4> QED BY <4>1
    <3> QED BY <3>3, Zenon
  <2>9. h[{}] = 0
    <3>1. {} \ {last} = {} /\ more({}) = 0 /\ {} \in SUBSET D
      OBVIOUS
    <3> QED BY <2>7, <3>1
  <2>10. ASSUME NEW s \in SUBSET D, NEW x \in s
         PROVE  h[s] = f[x] + h[s \ {x}]
    <3> DEFINE t == s \ {x}
    <3>1. h[s] = g[s \ {last}] + more(s) /\ h[t] = g[t \ {last}] + more(t)
      OBVIOUS
    <3> SUFFICES h[s] = f[x] + h[t]
      OBVIOUS
    <3>2. CASE x = last
      <4>1. t \ {last} = s \ {last} /\ more(t) = 0 /\ more(s) = f[x]
        BY <3>2
      <4>2. g[s \ {last}] \in Nat /\ f[x] \in Nat
        <5>1. s \ {last} \in SUBSET E
          BY <2>4
        <5> QED BY <2>5, <2>7, <3>2, <5>1
      <4>3. h[t] = g[s \ {last}] + 0 /\ h[s] = g[s \ {last}] + f[x]
        BY <3>1, <4>1, Zenon
      <4> HIDE DEF h, t, more
      <4> QED BY <4>2, <4>3
    <3>3. CASE x # last
      <4>1. t \ {last} = (s \ {last}) \ {x} /\ more(t) = more(s)
        BY <3>3
      <4>2. s \ {last} \in SUBSET E /\ x \in s \ {last} /\ (s \ {last}) \ {x} \in SUBSET E
        BY <2>4, <3>3
      <4>3. g[s \ {last}] = f[x] + g[t \ {last}]
        <5>1. g[s \ {last}] = f[x] + g[(s \ {last}) \ {x}]
          BY <2>7, <4>2
        <5> QED BY <4>1, <5>1
      <4>4. g[t \ {last}] \in Nat /\ f[x] \in Nat /\ more(s) \in Nat
        BY <2>5, <2>6, <2>7, <4>1, <4>2
      <4> HIDE DEF h, t, more
      <4> QED BY <3>1, <4>1, <4>3, <4>4
    <3> QED BY <3>2, <3>3
  <2>11. Sums(f, k, h)
    BY <2>8, <2>9, <2>10 DEF Sums, D
  <2> QED BY <1>2, <2>11
<1> QED BY <1>3, <1>4

\* Whatever order CHOOSE takes the elements in, their sum is the same.
LEMMA TotalIsSum ==
  ASSUME NEW n \in Nat, NEW f \in [0..n - 1 -> Nat], NEW g, Sums(f, n, g)
  PROVE  Total(f, 0..n - 1) = g[0..n - 1]
<1> DEFINE S == 0..n - 1
           h == CHOOSE h : Adds(f, S, h)
           some(s) == CHOOSE x \in s : TRUE
<1>1. IsFiniteSet(S)
  BY FS_Interval
<1>2. \A s : s # {} => some(s) \in s
  OBVIOUS
<1>3. /\ g[{}] = 0
      /\ \A s \in SUBSET S : s # {} => g[s] = f[some(s)] + g[s \ {some(s)}]
  <2>1. g[{}] = 0 /\ \A s \in SUBSET S : \A x \in s : g[s] = f[x] + g[s \ {x}]
    BY DEF Sums
  <2> HIDE DEF S, some
  <2> QED BY <1>2, <2>1
<1>4. g = [s \in SUBSET S |-> g[s]]
  BY DEF Sums
<1> HIDE DEF S
<1>5. Adds(f, S, g)
  <2>1. \A s \in SUBSET S : g[s] = IF s = {} THEN 0 ELSE f[some(s)] + g[s \ {some(s)}]
    BY <1>3
  <2> QED BY <1>4, <2>1 DEF Adds
<1>6. Adds(f, S, h)
  BY <1>5
<1> HIDE DEF h
<1>7. /\ h[{}] = 0
      /\ \A s \in SUBSET S : s # {} => h[s] = f[some(s)] + h[s \ {some(s)}]
  BY <1>6 DEF Adds
<1> HIDE DEF some
<1> DEFINE Wrong == {s \in SUBSET S : h[s] # g[s]}
           sizes == {Cardinality(s) : s \in Wrong}
<1>8. \A s \in SUBSET S : IsFiniteSet(s) /\ Cardinality(s) \in Nat
  BY <1>1, FS_Subset, FS_CardinalityType
<1>9. ASSUME Wrong # {} PROVE FALSE
  <2>1. sizes \subseteq Nat /\ sizes # {}
    BY <1>8, <1>9
  <2>2. PICK c \in sizes : \A d \in sizes : c <= d
    BY <2>1, LeastNumber
  <2>3. PICK s \in Wrong : \A t \in Wrong : Cardinality(s) <= Cardinality(t)
    BY <2>2
  <2> DEFINE t == s \ {some(s)}
  <2>4. s \in SUBSET S /\ s # {} /\ h[s] # g[s] /\ some(s) \in s
    BY <1>2, <1>3, <1>7
  <2>5. t \in SUBSET S /\ Cardinality(t) = Cardinality(s) - 1
    BY <1>8, <2>4, FS_RemoveElement
  <2>6. t \notin Wrong
    BY <1>8, <2>3, <2>4, <2>5
  <2>7. h[t] = g[t]
    BY <2>5, <2>6
  <2> QED BY <1>3, <1>7, <2>4, <2>7
<1> QED BY <1>9 DEF Total, h, S

\* p is the sum of f up to, and without, each number.
Prefix(f, n, p) ==
  /\ p \in [0..n -> Nat]
  /\ p[0] = 0
  /\ \A k \in 0..n - 1 : p[k + 1] = p[k] + f[k]

LEMMA TotalIsPrefix ==
  ASSUME NEW n \in Nat, NEW f \in [0..n - 1 -> Nat], NEW p, Prefix(f, n, p)
  PROVE  Total(f, 0..n - 1) = p[n]
<1>1. PICK g : Sums(f, n, g)
  BY SumsExist
<1> DEFINE Bad == {k \in 0..n : g[0..k - 1] # p[k]}
<1>2. ASSUME Bad # {} PROVE FALSE
  <2>1. PICK k \in Bad : \A i \in Bad : k <= i
    <3>1. Bad \subseteq Nat
      OBVIOUS
    <3> HIDE DEF Bad
    <3> QED BY <1>2, <3>1, LeastNumber
  <2>2. k \in 0..n /\ g[0..k - 1] # p[k]
    OBVIOUS
  <2>3. k # 0
    <3>1. 0..0 - 1 = {}
      OBVIOUS
    <3> QED BY <1>1, <2>2, <3>1 DEF Sums, Prefix
  <2>4. k - 1 \in 0..n /\ k - 1 \in 0..n - 1 /\ ~ (k <= k - 1)
    BY <2>2, <2>3
  <2>5. g[0..(k - 1) - 1] = p[k - 1]
    BY <2>1, <2>4
  <2>6. /\ 0..k - 1 \in SUBSET (0..n - 1) /\ k - 1 \in 0..k - 1
        /\ (0..k - 1) \ {k - 1} = 0..(k - 1) - 1
    BY <2>4
  <2>7. g[0..k - 1] = f[k - 1] + g[0..(k - 1) - 1]
    <3>1. \A s \in SUBSET (0..n - 1) : \A x \in s : g[s] = f[x] + g[s \ {x}]
      BY <1>1 DEF Sums
    <3> QED BY <2>6, <3>1
  <2>8. p[(k - 1) + 1] = p[k - 1] + f[k - 1] /\ (k - 1) + 1 = k
    BY <2>4 DEF Prefix
  <2>9. p[k - 1] \in Nat /\ f[k - 1] \in Nat
    BY <2>4 DEF Prefix
  <2> QED BY <2>2, <2>5, <2>7, <2>8, <2>9
<1>3. n \in 0..n
  OBVIOUS
<1>4. g[0..n - 1] = p[n]
  BY <1>2, <1>3
<1>5. Total(f, 0..n - 1) = g[0..n - 1]
  BY <1>1, TotalIsSum
<1> QED BY <1>4, <1>5

-----------------------------------------------------------------------------
(* The rate limit                                                          *)

\* What an application was admitted, p being the sum over the latest units: an
\* open window has counted what came since it began, the first request of it
\* included, and of the window before it a request is out of sight already.
Limited(a, p) ==
  /\ Prefix(admitted[a], Window, p)
  /\ IF Expired(a)
       THEN admitted[a][0] = 0 /\ p[Window] < MaxRequests
       ELSE /\ admitted[a][window[a].age] > 0
            /\ p[window[a].age + 1] = window[a].count
            /\ p[Window] - p[window[a].age + 1] < MaxRequests

LimitInv == \A a \in Apps : \E p : Limited(a, p)

\* With nothing admitted, every sum is zero.
LEMMA NothingAdmitted ==
  ASSUME NEW a \in Apps, window[a] = Closed, admitted[a] = [d \in Ages |-> 0]
  PROVE  \E p : Limited(a, p)
<1> USE AccessAssumption
<1> DEFINE p == [k \in 0..Window |-> 0]
<1>1. Prefix(admitted[a], Window, p)
  BY DEF Prefix, Ages
<1>2. Expired(a)
  BY DEF Expired, Closed
<1>3. admitted[a][0] = 0 /\ p[Window] < MaxRequests
  BY DEF Ages
<1> QED BY <1>1, <1>2, <1>3 DEF Limited

\* A request that the limiter admits.
LEMMA CountKeepsLimit ==
  ASSUME AccessTypeOK, LimitInv, NEW a \in Apps, Allows(a), Count(a), NEW b \in Apps
  PROVE  \E p : Limited(b, p)'
<1> USE AccessAssumption
<1>0. PICK p : Limited(b, p)
  BY DEF LimitInv
<1>1. CASE a # b
  <2>1. window'[b] = window[b] /\ admitted'[b] = admitted[b]
    BY <1>1 DEF Count, AccessTypeOK
  <2> QED BY <1>0, <2>1 DEF Limited, Expired
<1>2. CASE a = b
  <2> DEFINE f == admitted[a]
             w == window[a]
             g == [f EXCEPT ![0] = @ + 1]
             q == [k \in 0..Window |-> IF k = 0 THEN 0 ELSE p[k] + 1]
  <2>1. /\ f \in [0..Window - 1 -> Nat] /\ w.age \in 0..Window /\ w.count \in 0..MaxRequests
        /\ Window \in Nat /\ Window > 0 /\ MaxRequests \in Nat /\ MaxRequests > 0
    BY DEF AccessTypeOK, Ages
  <2>2. /\ p \in [0..Window -> Nat] /\ p[0] = 0
        /\ \A k \in 0..Window - 1 : p[k + 1] = p[k] + f[k]
    BY <1>0, <1>2 DEF Limited, Prefix
  <2>3. admitted'[a] = g
    BY DEF Count, AccessTypeOK
  <2>4. window'[a] = IF Expired(a) THEN [age |-> 0, count |-> 1] ELSE [w EXCEPT !.count = @ + 1]
    BY DEF Count, AccessTypeOK
  <2>5. window'[a].age = (IF Expired(a) THEN 0 ELSE w.age)
    <3>1. w \in [age : 0..Window, count : 0..MaxRequests]
      BY DEF AccessTypeOK
    <3> QED BY <2>4, <3>1
  <2>6. window'[a].count = (IF Expired(a) THEN 1 ELSE w.count + 1)
    <3>1. w \in [age : 0..Window, count : 0..MaxRequests]
      BY DEF AccessTypeOK
    <3> QED BY <2>4, <3>1
  <2>7. /\ g[0] = f[0] + 1 /\ \A k \in 1..Window - 1 : g[k] = f[k]
        /\ \A k \in 0..Window - 1 : g[k] \in Nat
    BY <2>1
  <2>8. q[0] = 0 /\ \A k \in 1..Window : q[k] = p[k] + 1
    BY <2>1
  <2>9. q \in [0..Window -> Nat]
    BY <2>2
  <2> HIDE DEF f, w, g, q
  <2>10. ASSUME NEW k \in 0..Window - 1
         PROVE  q[k + 1] = q[k] + g[k]
    <3>1. /\ k + 1 \in 1..Window /\ p[k + 1] = p[k] + f[k]
          /\ p[k] \in Nat /\ f[k] \in Nat
      BY <2>1, <2>2
    <3>2. q[k + 1] = p[k] + f[k] + 1
      BY <2>8, <3>1
    <3>3. CASE k = 0
      BY <2>2, <2>7, <2>8, <3>1, <3>2, <3>3
    <3>4. CASE k # 0
      <4>1. k \in 1..Window - 1 /\ k \in 1..Window
        BY <2>1, <3>4
      <4>2. g[k] = f[k] /\ q[k] = p[k] + 1
        BY <2>7, <2>8, <4>1
      <4> QED BY <3>1, <3>2, <4>2
    <3> QED BY <3>3, <3>4
  <2>11. Prefix(admitted'[a], Window, q)
    BY <2>3, <2>8, <2>9, <2>10 DEF Prefix
  <2>12. CASE Expired(a)
    <3>1. f[0] = 0 /\ p[Window] < MaxRequests
      BY <1>0, <1>2, <2>12 DEF Limited, f
    <3>2. p[1] = p[0] + f[0]
      BY <2>1, <2>2
    <3>3. q[1] = 1 /\ q[Window] = p[Window] + 1 /\ g[0] = 1 /\ p[Window] \in Nat
      <4>1. 1 \in 1..Window /\ Window \in 1..Window /\ Window \in 0..Window
        BY <2>1
      <4>2. p[1] = 0
        BY <2>2, <3>1, <3>2
      <4> QED BY <2>2, <2>7, <2>8, <3>1, <4>1, <4>2
    <3>4. window'[a].age = 0 /\ window'[a].count = 1 /\ 0 + 1 = 1
      BY <2>5, <2>6, <2>12
    <3>5. ~ Expired(a)'
      BY <2>1, <3>4 DEF Expired
    <3>6. g[0] > 0 /\ q[Window] - q[0 + 1] < MaxRequests
      BY <2>1, <3>1, <3>3
    <3> QED BY <1>2, <2>3, <2>11, <3>3, <3>4, <3>5, <3>6 DEF Limited
  <2>13. CASE ~ Expired(a)
    <3>1. f[w.age] > 0 /\ p[w.age + 1] = w.count /\ p[Window] - p[w.age + 1] < MaxRequests
      BY <1>0, <1>2, <2>13 DEF Limited, f, w
    <3>2. w.age \in 0..Window - 1 /\ ~ (w.age >= Window)
      BY <2>1, <2>13 DEF Expired, w
    <3>3. w.age + 1 \in 1..Window /\ Window \in 1..Window
      BY <2>1, <3>2
    <3>4. g[w.age] > 0
      <4>1. CASE w.age = 0
        BY <2>1, <2>7, <3>1, <4>1
      <4>2. CASE w.age # 0
        <5>1. w.age \in 1..Window - 1
          BY <2>1, <3>2, <4>2
        <5> QED BY <2>7, <3>1, <5>1
      <4> QED BY <4>1, <4>2
    <3>5. q[w.age + 1] = w.count + 1
      BY <2>8, <3>1, <3>3
    <3>6. q[Window] - q[w.age + 1] < MaxRequests
      <4>1. p[Window] \in Nat /\ p[w.age + 1] \in Nat
        BY <2>2, <3>3
      <4>2. q[Window] = p[Window] + 1 /\ q[w.age + 1] = p[w.age + 1] + 1
        BY <2>8, <3>3
      <4> QED BY <2>1, <3>1, <4>1, <4>2
    <3> QED BY <1>2, <2>3, <2>5, <2>6, <2>11, <2>13, <3>2, <3>4, <3>5, <3>6
            DEF Limited, Expired
  <2> QED BY <2>12, <2>13
<1> QED BY <1>1, <1>2

\* A unit of time: what was admitted Window - 1 units ago goes out of sight.
LEMMA PassTimeKeepsLimit ==
  ASSUME AccessTypeOK, LimitInv, PassTime, NEW a \in Apps
  PROVE  \E p : Limited(a, p)'
<1> USE AccessAssumption
<1>0. PICK p : Limited(a, p)
  BY DEF LimitInv
<1> DEFINE f == admitted[a]
           w == window[a]
           g == [d \in Ages |-> IF d = 0 THEN 0 ELSE f[d - 1]]
           q == [k \in 0..Window |-> IF k = 0 THEN 0 ELSE p[k - 1]]
<1>1. /\ f \in [0..Window - 1 -> Nat] /\ w.age \in 0..Window /\ w.count \in 0..MaxRequests
      /\ Window \in Nat /\ Window > 0 /\ MaxRequests \in Nat /\ MaxRequests > 0
  BY DEF AccessTypeOK, Ages
<1>2. /\ p \in [0..Window -> Nat] /\ p[0] = 0
      /\ \A k \in 0..Window - 1 : p[k + 1] = p[k] + f[k]
  BY <1>0 DEF Limited, Prefix
<1>3. admitted'[a] = g /\ window'[a] = Older(w)
  BY DEF PassTime
<1>4. /\ g[0] = 0 /\ \A d \in 1..Window - 1 : g[d] = f[d - 1]
      /\ \A d \in 0..Window - 1 : g[d] \in Nat
  <2>1. 0 \in Ages /\ \A d \in 1..Window - 1 : d \in Ages /\ d # 0
    BY <1>1 DEF Ages
  <2>2. g[0] = 0 /\ \A d \in 1..Window - 1 : g[d] = f[d - 1]
    BY <2>1
  <2>3. \A d \in 0..Window - 1 : d # 0 => d - 1 \in 0..Window - 1
    BY <1>1
  <2>4. \A d \in 0..Window - 1 : g[d] = IF d = 0 THEN 0 ELSE f[d - 1]
    BY DEF Ages
  <2> HIDE DEF f, g
  <2>5. \A d \in 0..Window - 1 : g[d] \in Nat
    BY <1>1, <2>3, <2>4
  <2> QED BY <2>2, <2>5
<1>5. q[0] = 0 /\ \A k \in 1..Window : q[k] = p[k - 1]
  BY <1>1
<1>6. q \in [0..Window -> Nat]
  BY <1>2
<1>7. /\ Older(w).age = (IF w.age + 1 >= Window THEN Window ELSE w.age + 1)
      /\ w.age + 1 < Window => Older(w).count = w.count
  <2>1. w \in [age : 0..Window, count : 0..MaxRequests]
    BY DEF AccessTypeOK
  <2> QED BY <2>1 DEF Older, Closed
<1> HIDE DEF f, w, g, q
<1>8. ASSUME NEW k \in 0..Window - 1
      PROVE  q[k + 1] = q[k] + g[k]
  <2>1. k + 1 \in 1..Window /\ q[k + 1] = p[k]
    BY <1>1, <1>5
  <2>2. CASE k = 0
    BY <1>2, <1>4, <1>5, <2>1, <2>2
  <2>3. CASE k # 0
    <3>1. k \in 1..Window - 1 /\ k \in 1..Window /\ k - 1 \in 0..Window - 1
      BY <1>1, <2>3
    <3>2. g[k] = f[k - 1] /\ q[k] = p[k - 1]
      BY <1>4, <1>5, <3>1
    <3>3. p[(k - 1) + 1] = p[k - 1] + f[k - 1] /\ (k - 1) + 1 = k
      BY <1>2, <3>1
    <3> QED BY <2>1, <3>2, <3>3
  <2> QED BY <2>2, <2>3
<1>9. Prefix(admitted'[a], Window, q)
  BY <1>3, <1>5, <1>6, <1>8 DEF Prefix
<1>10. /\ Window - 1 \in 0..Window - 1 /\ q[Window] = p[Window - 1]
       /\ p[Window] = p[Window - 1] + f[Window - 1]
       /\ p[Window] \in Nat /\ p[Window - 1] \in Nat /\ f[Window - 1] \in Nat
  <2>1. Window - 1 \in 0..Window - 1 /\ (Window - 1) + 1 = Window /\ Window \in 1..Window
    BY <1>1
  <2> QED BY <1>1, <1>2, <1>5, <2>1
<1>11. CASE Expired(a)
  <2>1. p[Window] < MaxRequests /\ w.age + 1 >= Window
    BY <1>0, <1>1, <1>11 DEF Limited, Expired, w
  <2>2. Window >= Window /\ q[Window] < MaxRequests
    BY <1>1, <1>10, <2>1
  <2>3. window'[a].age = Window /\ admitted'[a][0] = 0
    BY <1>3, <1>4, <1>7, <2>1
  <2>4. Expired(a)'
    BY <2>2, <2>3 DEF Expired
  <2> QED BY <1>9, <2>2, <2>3, <2>4 DEF Limited
<1>12. CASE ~ Expired(a)
  <2>1. /\ f[w.age] > 0 /\ p[w.age + 1] = w.count /\ p[Window] - p[w.age + 1] < MaxRequests
        /\ w.age \in 0..Window - 1
    BY <1>0, <1>1, <1>12 DEF Limited, Expired, f, w
  <2>2. CASE w.age + 1 >= Window
    <3>1. w.age = Window - 1
      BY <1>1, <2>1, <2>2
    <3>2. p[Window] = w.count
      BY <1>1, <2>1, <3>1
    <3>3. Window >= Window /\ q[Window] < MaxRequests
      BY <1>1, <1>10, <2>1, <3>1, <3>2
    <3>4. window'[a].age = Window /\ admitted'[a][0] = 0
      BY <1>3, <1>4, <1>7, <2>2
    <3>5. Expired(a)'
      BY <3>3, <3>4 DEF Expired
    <3> QED BY <1>9, <3>3, <3>4, <3>5 DEF Limited
  <2>3. CASE ~ (w.age + 1 >= Window)
    <3>1. w.age + 1 \in 1..Window - 1 /\ (w.age + 1) + 1 \in 1..Window
      <4>1. w.age \in 0..Window - 1
        BY <2>1
      <4>2. Window \in Nat
        BY <1>1
      <4> QED BY <2>3, <4>1, <4>2
    <3>2. g[w.age + 1] > 0
      BY <1>4, <2>1, <3>1
    <3>3. /\ q[(w.age + 1) + 1] = p[w.age + 1]
          /\ p[w.age + 1] = w.count /\ p[w.age + 1] \in Nat
      <4>0. Window \in Nat
        BY <1>1
      <4>1. (w.age + 1) + 1 - 1 = w.age + 1 /\ w.age + 1 \in 0..Window
        BY ONLY <3>1, <4>0
      <4>2. q[(w.age + 1) + 1] = p[(w.age + 1) + 1 - 1]
        BY <1>5, <3>1
      <4>3. p[w.age + 1] = w.count
        BY <2>1
      <4> QED BY <1>2, <4>1, <4>2, <4>3
    <3>4. q[Window] - q[(w.age + 1) + 1] < MaxRequests
      <4>1. q[Window] = p[Window - 1] /\ p[Window - 1] <= p[Window]
        BY <1>10
      <4>2. /\ p[Window] \in Nat /\ p[Window - 1] \in Nat /\ MaxRequests \in Nat
            /\ p[w.age + 1] \in Nat /\ p[Window] - p[w.age + 1] < MaxRequests
        BY <1>1, <1>10, <2>1, <3>3
      <4>3. p[Window - 1] - p[w.age + 1] < MaxRequests
        BY ONLY <4>1, <4>2
      <4> QED BY <3>3, <4>1, <4>3
    <3>5. window'[a].age = w.age + 1 /\ window'[a].count = w.count
      BY <1>1, <1>3, <1>7, <2>1, <2>3
    <3>6. ~ Expired(a)'
      BY <2>3, <3>5 DEF Expired
    <3> QED BY <1>3, <1>9, <3>2, <3>3, <3>4, <3>5, <3>6 DEF Limited
  <2> QED BY <2>2, <2>3
<1> QED BY <1>11, <1>12

\* Every step of the local API keeps the limit.
LEMMA LimitInductive ==
  /\ Init => LimitInv
  /\ TypeOK /\ LimitInv /\ [Next]_vars => LimitInv'
<1>1. ASSUME Init
      PROVE  LimitInv
  BY <1>1, NothingAdmitted DEF Init, AccessInit, LimitInv
<1>2. ASSUME TypeOK, LimitInv, [Next]_vars
      PROVE  LimitInv'
  <2> USE <1>2 DEF TypeOK
  <2> SUFFICES ASSUME NEW a \in Apps PROVE \E p : Limited(a, p)'
    BY DEF LimitInv
  <2>1. CASE UNCHANGED <<window, admitted>>
    <3>1. PICK p : Limited(a, p)
      BY DEF LimitInv
    <3> QED BY <2>1, <3>1 DEF Limited, Expired
  <2>2. CASE PassTime
    BY <2>2, PassTimeKeepsLimit
  <2>3. ASSUME NEW x \in Sends, SendMessageFromExternalApp(x)
        PROVE  \E q : Limited(a, q)'
    BY <2>3, CountKeepsLimit, AccessAssumption, SendsAssumption
       DEF SendMessageFromExternalApp
  <2>4. CASE CrashRestart
    <3>1. window'[a] = Closed /\ admitted'[a] = [d \in Ages |-> 0]
      BY <2>4 DEF CrashRestart, AccessCrash
    <3>2. (window[a] = Closed /\ admitted[a] = [d \in Ages |-> 0] => \E p : Limited(a, p))'
      BY NothingAdmitted, PTL
    <3> QED BY <3>1, <3>2
  <2> QED
    BY <2>1, <2>2, <2>3, <2>4
       DEF Next, vars, accessVars, AccessNext, RegisterExternalApplication, CreateApiToken,
           RevokeApiToken, SubscribeExternalAppToEvents, SendSealed
<1> QED BY <1>1, <1>2

\* For every limit and every length of the window: over the length of one
\* window, wherever it is laid, an application is admitted less than twice the
\* limit, however its tokens share it and whenever its windows begin.
THEOREM SlidingLimitCorrect == Spec => []SlidingLimit
<1>1. TypeOK /\ LimitInv => SlidingLimit
  <2> SUFFICES ASSUME TypeOK, LimitInv, NEW a \in Apps
               PROVE  Total(admitted[a], Ages) <= 2 * MaxRequests - 1
    BY SlidingTotal
  <2> USE AccessAssumption DEF TypeOK, AccessTypeOK, Ages
  <2>1. PICK p : Limited(a, p)
    BY DEF LimitInv
  <2>2. /\ admitted[a] \in [0..Window - 1 -> Nat] /\ Window \in Nat /\ MaxRequests \in Nat
        /\ Prefix(admitted[a], Window, p)
    BY <2>1 DEF Limited
  <2>3. Total(admitted[a], Ages) = p[Window]
    BY <2>2, TotalIsPrefix
  <2>4. p[Window] \in Nat
    BY <2>2 DEF Prefix
  <2>5. CASE Expired(a)
    BY <2>1, <2>2, <2>3, <2>4, <2>5 DEF Limited
  <2>6. CASE ~ Expired(a)
    <3>1. window[a].age + 1 \in 0..Window /\ window[a].count \in 0..MaxRequests
      BY <2>6 DEF Expired
    <3>2. p[window[a].age + 1] = window[a].count /\ p[Window] - window[a].count < MaxRequests
      BY <2>1, <2>6 DEF Limited
    <3> QED BY <2>2, <2>3, <2>4, <3>1, <3>2
  <2> QED BY <2>5, <2>6
<1> QED BY <1>1, TypeCorrect, LimitInductive, PTL DEF Spec
=============================================================================
