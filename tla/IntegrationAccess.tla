-------------------------- MODULE IntegrationAccess --------------------------
(***************************************************************************)
(* What an external application may do through the local API: its tokens,  *)
(* their scopes and revocation, its webhook subscription, and the          *)
(* fixed-window rate limiter, which lives in memory and is keyed by        *)
(* application.  Each use case runs without giving the event loop away.    *)
(*                                                                         *)
(* Time is relative: a window has an age, and the history counts what was  *)
(* admitted how many units ago.                                            *)
(***************************************************************************)
EXTENDS Integers, FiniteSetsExt

CONSTANTS Apps,        \* application ids
          Tokens,      \* token ids
          App,         \* App[t]: the application a token is issued to
          Scopes,      \* Scopes[t]: the scopes it is issued with
          Prefixed,    \* the hasher's output has the form ApiToken.issue asks for
          MaxRequests, \* requests admitted per window (60 in the code)
          Window       \* length of a window (60000 ms in the code)

ASSUME AccessAssumption ==
  /\ App \in [Tokens -> Apps]
  /\ Prefixed \in BOOLEAN
  /\ MaxRequests \in Nat \ {0}
  /\ Window \in Nat \ {0}

VARIABLES app,      \* external_apps: the ids registered
          token,    \* api_tokens: id -> status
          webhooks, \* webhook_subscriptions: applications that have one
          window,   \* the limiter's Map: application -> age and count
          admitted  \* history: application -> how many, how long ago

accessVars == <<app, token, webhooks, window, admitted>>

-----------------------------------------------------------------------------
Ages == 0..Window - 1
Closed == [age |-> Window, count |-> 0]

AccessTypeOK ==
  /\ app \subseteq Apps
  /\ token \in [Tokens -> {"none", "active", "revoked"}]
  /\ webhooks \subseteq app
  /\ window \in [Apps -> [age : 0..Window, count : 0..MaxRequests]]
  /\ admitted \in [Apps -> [Ages -> Nat]]

AccessInit ==
  /\ app = {}
  /\ token = [t \in Tokens |-> "none"]
  /\ webhooks = {}
  /\ window = [a \in Apps |-> Closed]
  /\ admitted = [a \in Apps |-> [d \in Ages |-> 0]]

-----------------------------------------------------------------------------
RegisterExternalApplication(a) ==
  /\ a \notin app
  /\ app' = app \cup {a}
  /\ UNCHANGED <<token, webhooks, window, admitted>>

\* PermissionGrant.create wants a scope, ApiToken.issue a prefix.
CreateApiToken(t) ==
  /\ token[t] = "none"
  /\ App[t] \in app
  /\ Scopes[t] # {}
  /\ Prefixed
  /\ token' = [token EXCEPT ![t] = "active"]
  /\ UNCHANGED <<app, webhooks, window, admitted>>

RevokeApiToken(t) ==
  /\ token[t] # "none"
  /\ token' = [token EXCEPT ![t] = "revoked"]
  /\ UNCHANGED <<app, webhooks, window, admitted>>

\* Mutant of Authorizes: the revocation is not looked at.
AuthorizesIssued(t, scope) == token[t] # "none" /\ scope \in Scopes[t] /\ App[t] \in app

\* DefaultIntegrationAuthorizer.authorize
Authorizes(t, scope) == token[t] = "active" /\ scope \in Scopes[t] /\ App[t] \in app

SubscribeExternalAppToEvents(t) ==
  /\ Authorizes(t, "notifications:subscribe")
  /\ webhooks' = webhooks \cup {App[t]}
  /\ UNCHANGED <<app, token, window, admitted>>

-----------------------------------------------------------------------------
(* FixedWindowLocalRateLimiter.consume                                     *)

\* Mutant of Expired: the window ends one unit early.
ExpiredEarly(a) == window[a].age + 1 >= Window

Expired(a) == window[a].age >= Window

Allows(a) == Expired(a) \/ window[a].count < MaxRequests

\* A window begins with the first request after the previous one is over.
Count(a) ==
  /\ window' = [window EXCEPT ![a] = IF Expired(a) THEN [age |-> 0, count |-> 1]
                                                   ELSE [window[a] EXCEPT !.count = @ + 1]]
  /\ admitted' = [admitted EXCEPT ![a][0] = @ + 1]

\* Time passes; an expired window is as good as none.
Older(w) == IF w.age + 1 >= Window THEN Closed ELSE [w EXCEPT !.age = @ + 1]

PassTime ==
  /\ window' = [a \in Apps |-> Older(window[a])]
  /\ admitted' = [a \in Apps |-> [d \in Ages |-> IF d = 0 THEN 0 ELSE admitted[a][d - 1]]]
  /\ UNCHANGED <<app, token, webhooks>>

\* The windows go with the process; what it admitted is counted from here.
AccessCrash ==
  /\ window' = [a \in Apps |-> Closed]
  /\ admitted' = [a \in Apps |-> [d \in Ages |-> 0]]
  /\ UNCHANGED <<app, token, webhooks>>

AccessNext ==
  \/ \E a \in Apps : RegisterExternalApplication(a)
  \/ \E t \in Tokens : \/ CreateApiToken(t) \/ RevokeApiToken(t)
                       \/ SubscribeExternalAppToEvents(t)
  \/ PassTime

-----------------------------------------------------------------------------
(* Within the length of one window, wherever it is laid, an application is *)
(* admitted at most 2 * MaxRequests - 1 times while the process lives, all *)
(* its tokens together: a full window can be followed by another, and its  *)
(* first request is then already out of sight (consume).                   *)
SlidingLimit ==
  \A a \in Apps :
    MapThenSumSet(LAMBDA d : admitted[a][d], Ages) <= 2 * MaxRequests - 1
=============================================================================
