------------------------------ MODULE LocalApi ------------------------------
(***************************************************************************)
(* LocalApiHttpHandler over the contact and integration use cases, and the *)
(* route on which the two meet: an external application sends a message,   *)
(* which takes a token, a place in the rate window and an accepted contact.*)
(* These are looked at in one go; the message is then encrypted and signed *)
(* and only then saved, and contacts and tokens may change meanwhile.      *)
(***************************************************************************)
EXTENDS ContactTrust, IntegrationAccess

CONSTANTS Sends, \* calls of SendMessageFromExternalAppUseCase.execute
          By,    \* By[x]: the token the call x brings
          To     \* To[x]: input.toPeerId of the call x

ASSUME SendsAssumption ==
  /\ By \in [Sends -> Tokens]
  /\ To \in [Sends -> Peers]

VARIABLE send \* where each call is

vars == <<contactVars, accessVars, send>>

\* The wait is for encryptDirect and signEnvelope.
SendStage == {"idle", "sealing", "accepted", "failed"}

TypeOK ==
  /\ ContactTypeOK
  /\ AccessTypeOK
  /\ send \in [Sends -> SendStage]

Init ==
  /\ ContactInit
  /\ AccessInit
  /\ send = [x \in Sends |-> "idle"]

-----------------------------------------------------------------------------
\* Mutant of SendMessageFromExternalApp: the contact is not looked at.
SendBeforeContact(x) ==
  /\ loop = Free
  /\ send[x] = "idle"
  /\ Authorizes(By[x], "messages:send")
  /\ Allows(App[By[x]])
  /\ Count(App[By[x]])
  /\ send' = [send EXCEPT ![x] = "sealing"]
  /\ UNCHANGED <<contactVars, app, token, webhooks>>

\* POST /v1/messages/direct up to the wait.  The request counts before the sender
\* looks at the contact, so a refused recipient uses up the window as well; the
\* call is then as good as not made.
SendMessageFromExternalApp(x) ==
  /\ loop = Free
  /\ send[x] = "idle"
  /\ Authorizes(By[x], "messages:send")
  /\ Allows(App[By[x]])
  /\ Count(App[By[x]])
  /\ send' = IF contact[To[x]] = "accepted" THEN [send EXCEPT ![x] = "sealing"] ELSE send
  /\ UNCHANGED <<contactVars, app, token, webhooks>>

\* The message and its outbox row are saved, whatever became of the token and the
\* contact; or a key is missing, and nothing is.
SendSealed(x) ==
  /\ loop = Free
  /\ send[x] = "sealing"
  /\ \E end \in {"accepted", "failed"} : send' = [send EXCEPT ![x] = end]
  /\ UNCHANGED <<contactVars, accessVars>>

CrashRestart ==
  /\ ContactCrash
  /\ AccessCrash
  /\ send' = [x \in Sends |-> IF send[x] = "sealing" THEN "failed" ELSE send[x]]

Next ==
  \/ ContactNext /\ UNCHANGED <<accessVars, send>>
  \/ loop = Free /\ AccessNext /\ UNCHANGED <<contactVars, send>>
  \/ \E x \in Sends : SendMessageFromExternalApp(x) \/ SendSealed(x)
  \/ CrashRestart

Spec == Init /\ [][Next]_vars

-----------------------------------------------------------------------------
(* Whoever a message was ever accepted for had asked to be a contact and   *)
(* been approved, though contacts come and go while messages are sealed,   *)
(* and the limiter, the tokens and the contacts are checked by three       *)
(* components in turn (SendMessageFromExternalAppUseCase,                  *)
(* SendDirectMessageUseCase).                                              *)
SentToApproved ==
  \A x \in Sends : send[x] \in {"sealing", "accepted"} => To[x] \in approved

(* From a token's revocation on, no call that brings it gets past the      *)
(* authorization, so that only messages which were being sealed then can   *)
(* still be accepted, and it is never active again, whatever is issued,    *)
(* revoked once more or restarted (ApiToken.revoke, allows).               *)
RevokedIsSilent ==
  [][\A x \in Sends : token[By[x]] = "revoked" =>
       /\ token'[By[x]] = "revoked"
       /\ send'[x] # send[x] => send[x] = "sealing"]_vars
=============================================================================
