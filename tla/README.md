# A TLA+ model of PeerComms

PeerComms is a local-first peer-to-peer messenger in TypeScript, laid out as
`packages/domain` <- `packages/application` <- `packages/infrastructure` and `apps`.
Its daemon (`createLocalDaemonRuntime`, `src/apps/daemon/src/local-daemon-runtime.ts`)
puts together SQLite repositories, an encrypted vault with a key store, a libp2p
node, a local HTTP API behind a loopback server, and two maintenance tasks. This
directory holds a specification of its core: what the tables, handlers, timers and
caches of one node go through, what two nodes do to each other over an unreliable
transport, and which of the promises the code and its docs make hold, checked with
TLC on small instances and, all safety properties among them, proved with TLAPS for
all values of the constants.

## 1. Inventory

| Component | State | Operations | Hard behaviour | Correct when |
|---|---|---|---|---|
| Direct messages, sending: `SendDirectMessageUseCase`, `RetryOutboxMessagesUseCase`, outbox repository | `contacts`, `conversations` (Lamport clock), `messages`, `outbox_messages`; the delivery task's batch | send; one execution of the delivery task every 2000 ms; backoff | sends interleave at the crypto pool; publishes outlive the interval or fail after delivering; rows that are never deliverable and never pruned; crash between two writes | an answer `ok` means a queued row; a queued row has its message; only what was handed over is published, once and for all; no message starves while such rows leave room |
| Direct messages, receiving: `DirectMessageIncomingEnvelopeProcessor`, `ReceiveDirectMessageUseCase`, `CompactInboxReplayMetadataUseCase` | `conversations`, `messages`, `inbox_messages` | receive, compact | one handler per stream, all on one table; check and record separated by two crypto calls; conversations upserted under ids that peers choose; retries; expiry; compaction | a recorded envelope has its message, in its sender's conversation; clocks go on; duplicates are bounded; a bad envelope leaves nothing |
| Delivery between two nodes | the two above and what is in flight | the two above | loss, duplication, "failed" publishes that delivered, independent crashes | store-and-forward |
| Contacts and trust: contact use cases | `contacts`, `contact_requests` | send, receive, approve, reject, block | repeated deliveries of a request, crossing requests, crash inside the approval | only a peer that asked and was approved is accepted |
| Groups: group use cases, `Group`, `GroupInvitation` | `groups`, `group_members`, `group_invitations` | create, invite, accept, reject, remove, rotate | read-modify-write across the crypto port; non-transactional save | members were invited; a removed member holds no key in use |
| Integration access: application, token and webhook use cases, `FixedWindowLocalRateLimiter` | `external_apps`, `api_tokens`, `webhook_subscriptions`; the limiter's map | register, issue, revoke, subscribe, authorize, consume | window boundary, restart, several tokens of one application | nothing after a revocation; bounded rate |
| Local HTTP API: `LocalApiHttpHandler` | none of its own (SSE clients) | routes | three checks of three components in one request, then a wait before the save | an application reaches approved contacts only |
| Daemon: `PeerCommsDaemon`, `NodeLoopbackServer`, libp2p and database as resources | `runningUrl`, `resourcesClosed`, timers, running tasks | `start`, `stop`, ticks, requests | starts and stops in any interleaving, failing steps, draining, clients that leave or stay | tasks never overlap; everything is closed, once |
| Vault and key store: `PersistentWebCryptoKeyStore`, `WebCryptoEncryptedJsonVault` | `encrypted_vault_records`, passphrase, three Maps | register, get, rotate, lock, export, restore | rotation interrupted or meeting a writer; caches against rows; restart | every row readable and current; caches agree |
| Domain events: `SseDomainEventBus`, the hub in `LocalApiHttpHandler`, notifications, `network_peers` | `notifications`, `network_peers`, open streams, pending webhook requests | publish, list, mark read, subscribe, connection events | publications overlap at their webhook rounds; nobody awaits a connection event's, nor a request's whose client left; a stop or a crash comes in between | no notification falls between list and stream, up to the list's limit; read stays read; the newest notification of a peer is right; a webhook holds nobody up |
| Boot: `SqliteMigrationRunner`, `ensure-local-identity`, `CreateLocalIdentityUseCase` | `schema_migrations`, tables, `identities`, `devices`, the key record in the vault; a connection's transaction | migrate, create the identity | starts share a connection; processes share a file; SQLITE_BUSY; crash between any two statements | migrations are all or nothing; an identity has its key; who starts alone fails only if its new key is refused |
| libp2p peer node | known peers, handlers | publish, receive, start, stop | stream closes after delivery | seen through what its callers observe |
| Schemas; SDK; desktop, CLI; shared kernel | none that the node depends on | | | not modelled, section 8 |

How they meet: the local API calls the use cases; a send writes rows which the
delivery task later reads; the task calls the libp2p node of this process, which
calls the envelope processor of the other; contacts gate sends and receptions on
both sides; use cases that changed something publish domain events, awaited, to
the SSE hub, the webhooks and the notification projection; the daemon owns the
timers, the server and the resources and decides in which order they go.

The hazards, one line of code each with the properties that watch it, are in
`PROJECT.json`. Those no property covers carry a note.

## 2. Conventions

- **The event loop.** Node runs a handler until it waits. The `node:sqlite`
  adapter is synchronous, so an `await` of a repository does not let another I/O
  callback in; only WebCrypto, the network, timers and event subscribers do. Each
  action is the code from one such wait to the next.
- **The variable `loop`.** Where a handler writes two rows with no wait in
  between, only a crash can separate them. The two writes are two actions and
  `loop` names the handler between them; every other action of the process but
  the crash needs it to be `Nobody` (or `Free`).
- **Crashes** keep the tables and forget handlers, batches, caches and timers.
- **Time is relative**: what is left until `next_attempt_at`, the age of an inbox
  row, the age of a rate window. `Outbox` counts 1000 ms, `Inbox` days,
  `IntegrationAccess` whatever fraction of a window is chosen.
- **Data are model values**: an element of `Msgs` names a call of the send use
  case together with its row, envelope and outbox entry; an envelope has a `Flaw`
  (`none`, `unroutable`, `misaddressed`, `ahead`, `forged`, `undecryptable`) in
  place of bytes.
- **History variables** are not in the code: `handed` (`Outbox`), `stamped`,
  `displaced`, `compactions` (`Inbox`), `fresh`, `stale`, `forces`, `torn` (`GroupMembership`), `raced`
  (`DaemonLifecycle`), `latest`, `mixed`, `late` (`KeyVault`), `receipts`,
  `answers`, `approved`, `torn` (`ContactTrust`), `admitted`
  (`IntegrationAccess`), `left`, `cut` (`EventFanout`),
  `overlapped` (`Boot`). No guard reads one, except where
  it serves as a named bound (`compactions`, `receipts`, `stamped`), where `left` tells
  `ServerClosed` which requests hold no connection, and where
  `latest` says that an identity, whose id is new each time, was created already.
- **Microtasks.** An `await` of a call that answers at once lets other
  microtasks run. `Boot` needs this grain, as its starts share a connection: each
  SQL statement is an action there, and `LoopIsFree` says where the event loop
  itself, on which WebCrypto answers, gets a turn.
- **Mutants.** Definitions whose comment begins "Mutant of" are plausible bugs, one for each
  checked property; substituted for the definition they name, they must make
  TLC find that property violated. Nothing else refers to them.
- `PROJECT.json` "map" gives the source lines each definition stands for.

## 3. Modules

**`Outbox`** - the sending half. `Send(m)` goes through `opening` (conversation
saved with its ticked clock), `encrypting`, `signing`, `queueing` (message row written), `announcing`
(outbox row written) to `ok`; a blocked or absent contact ends it as `refused`, a throwing crypto
call as `failed`. `TimerFires` starts an execution of the task (a member of
`Runs`) if the task is not already running, and takes the `Limit` oldest due rows (`FindDue`); `Handed` is the moment the
receiver gets an envelope, `Published`, `Unreachable` and `PublishThrows` the three ways
`publish` comes back, so a publish can fail after it delivered. `Unreachable`
computes the next attempt from the time the execution *began*, as the code does.
`ChangeContact` stands for the contact use cases, `Tick` for time. An envelope that replaces a
conversation (below) sets its clock back; that belongs to `Inbox`.

**`Inbox`** - the receiving half. `Receive` is the path up to the first wait
(address, contact, skew, expiry, `inbox.exists`), `Dismiss` its early returns, `Verified`
and `Decrypted` the next two segments, the former opening the conversation, the latter writing the message row,
`Record` the inbox row, `Refuse` the failures, `Leave` the end of the event.
`FileUnder` is the part that looks for the sender's conversation and otherwise saves one
under the id the envelope names: the upsert of that id replaces whoever had it (`displaced`) and
sets its clock to 0. `SendDirectMessage` is what the node's own sends do to that table.
`Compact` deletes stale rows, oldest first; `Day` is time; `Arrive` and `Lost` are the
transport, for which `DirectDelivery` puts the other node.

**`StoreAndForward`** - the abstract promise: a message is accepted, carried while pending, delivered
only if carried, given up only after it was carried.
**`DirectDelivery`** - EXTENDS `Outbox` with the other node, `R == INSTANCE Inbox`, on the
same `wire` (a recipient that sends nothing itself in the runs, `MaxSends` 0; the theorems do not ask for that), with `Lose`, independent crashes, and the refinement mapping `Abstract`:
accepted = outbox rows, pending = queued rows, carried = `handed`, delivered =
envelopes with a message row at the recipient. `DeliverySpec` is the whole. Of the
`Peers` only `You` is there; the others no dial reaches: their rows are what fills the batches
in the liveness run. `HasRoom` counts how many such rows the batches can take: a row whose dial failed
is due again `Cap` after its execution began, executions begin at most `Period` apart, and each
takes `Limit` rows. `ReliableSpec` is the system under which delivery can be promised.

**`GroupMembership`** - one node's copy of one group. A use case reads the
aggregate, applies its change to a copy (`plan`), waits for the crypto port, and
saves: invitation, `groups` row, member rows, in the code's order with a crash possible in between. `stale`
remembers that a save overwrote a change made since its read, `torn` the invitations that a crash
caught between their own save and that of the member rows.
The shipped runtime does not compose these use cases (the crypto port has no
implementation and nothing calls `GroupInvitation.inbound`); `ReceiveInvitation`
is therefore the assumption of an adapter.

**`DaemonLifecycle`** - calls of `start` and `stop` as processes. A start goes
`identity` -> `creating` -> `up`, and through its catch block into `draining`, `releasing`
and `refused`/`done`; a stop goes `draining` -> `closing` -> `releasing` -> `done`.
`BeginClose` is `closeResources`. An exchange is an ordinary request or an event stream; its end
(`RequestEnds`, `StreamLeaves`) frees the connection, and a client that leaves an ordinary request
(`ClientLeaves`) frees it while the handler goes on until `HandlerEnds`. `raced` remembers that a start was pending beside another call.

**`KeyVault`** - `Put`/`EndPut` (encrypt, write the row and the Map),
`Get`/`EndGet` (read, decrypt, fill the Map), `Rotate`, `ReadOne`, `AllRead`,
`WriteOne`, `AllWritten`, `RotationFails`, then `Lock`, `Export`, `Restore`.
A ciphertext is the pair of a value and the passphrase that reads it.

**`EventFanout`** - publications of domain events. One begins in an HTTP exchange
(`RequestPublishes`), in a stream handler (`StreamPublishes`) or with a connection event
(`PeerPublishes`, which first writes `network_peers`); it sends the event's frame and
waits for the webhooks (`posting`), stores and announces the notification (`Record`) and
waits for the webhooks of that one (`spreading`). `FetchEnds` is a request that is answered,
refused or aborted. The client opens the stream, lists the newest rows up to `PageLimit`, leaves and marks as
read. The client of an exchange may leave before its answer (`ClientLeaves`). `Stop`, `ServerClosed`, `DatabaseClosed` are the parts of the daemon's stop that matter
here: exchanges whose clients are there are awaited, connection events are not, and one that finds the database
closed ends the process (`ProcessEnds`). `cut` remembers the peers whose events that, or a crash, cut short.

**`Boot`** - what a start does before it listens. A start goes through the migration runner
statement by statement (`ledger`, `check`, `begin`, `statement`, `record`, `commit`,
or `rollback`), then through the identity (`local`, `create`, `keys`, `stamp`, `row`,
`device`, `ready`), and is `up`, or `closing` and `failed`. A connection sees
`disk` and what is `pending` in its transaction; `Writes` is one statement on it, `MayThrow` says
when one may fail. `wellFormed` says whether the value objects accept the references of a
new key (`Stamp`); it is any Boolean at first and never changes. `Migrations` and `Statements` are bounds.

**`ContactTrust`**, **`IntegrationAccess`** - components without a next-state
relation of their own in a run; **`LocalApi`** EXTENDS both, adds
`SendMessageFromExternalApp` (token, then rate window, then contact, up to the wait for the
crypto), `SendSealed` (the save and the answer, whatever changed meanwhile) and one crash
for all, and is what TLC and TLAPS look at. `Prefixed` says whether the token hasher
answers a value `ApiToken` accepts; see section 7.

`MC*` modules hold the functions the `.cfg` files pass as constants.
`DeliveryProofs` (of `Outbox` and `DirectDelivery`), `InboxProofs`, `GroupProofs`,
`DaemonProofs`, `KeyVaultProofs`, `LocalApiProofs`, `FanoutProofs` and `BootProofs` hold the
theorems.

## 4. Runs

Every "pass" run ends with no error. Deadlock is checked in the vault runs and
`local_api`; the other models stop when their bounded supplies (sends, calls,
copies, epochs) are used up, as the system would with nothing left to do.

| Run | Instance | Shows |
|---|---|---|
| `outbox_safety` | 2 sends to 1 peer that may refuse loudly; 2 task identities; `Limit` 1, `Interval` 1, `Cap` 2, `MaxDial` 2; 1 crash | `ReportedIsQueued`, `QueuedIsStored`, `PublishedIsFinal`, `OwnMessagesInSendOrder` |
| `inbox_safety` | a sound envelope of one peer whose clock may be ahead, one of another peer that names the same conversation and does not decrypt, one that is forged; 2 handlers; 1 own send to each peer; 1 compaction each; 1 crash | `RecordedIsStored`, `ClockGoesOn`, `DuplicatesBounded`, `FlawLeavesNoTrace` |
| `inbox_race` | 1 envelope, 2 handlers, no crash | violated: `OneMessagePerEnvelope` |
| `delivery_refinement` | 1 message, which expires after a day, 2 task identities, 2 handlers, a crash of each node, 2 copies in flight, 1 compaction | `ImplementsStoreAndForward`, `ExpiryCoversCompaction` |
| `delivery_liveness` | 1 message to the other node and 2, older or younger, to an absent peer; `Limit` 1, `Interval` 1, `Cap` 5, `MaxRetry` 3, `MaxDial` 1; 1 send in progress at a time; reliable transport; fair | `QueuedIsDelivered`, `NoStarvation`: backoff keeps hopeless rows from blocking the rest, at the largest number that leaves room |
| `groups_safety` | 3 peers, 2 invitations, 2 executions, 2 rotations, 1 crash | `MembersWereInvited`, `AcceptedIsMember`, `RemovedLosesAccess` |
| `daemon` | 2 starts, 2 stops, 2 tasks, 1 open exchange per server, request or event stream; 1 handler whose client left; fair | `MaintenanceNeverOverlaps`, `ResourcesClosedOnce`, `StopDrains`, `StoppedReleasesAll`, `CallsEnd` |
| `vault` | 1 identity, 1 secret, 1 peer key, 2 values, 2 passphrases, 2 operations in progress, 1 crash | `Readable`, `StoredIsLatest`, `CachedIsLatest` |
| `vault_restart` | 1 value, 1 operation, 1 crash | violated: `RegisteredIsKept` |
| `local_api` | 1 application, 2 tokens of different scopes, 2 peers, 3 requests sent and 1 received at most twice; 2 per window of 2; 2 sends, one with each token | `AcceptedHaveAsked`, `AcceptedHasContact`, `SlidingLimit`, `SentToApproved`, `RevokedIsSilent` |
| `events` | 1 exchange, 1 received message, a peer that is found, connects and leaves; 1 webhook for the exchange's event; a list of 2 rows; the exchange's notification may be read; crashes and restarts without bound; fair | `ClientIsCurrent`, `NewestTellsConnection`, `RequestsNeverFail`, `ReadStaysRead`, `PublicationsEnd` |
| `boot` | 2 starts of one runtime and 1 in another process, on one new file; 2 migrations of 2 statements; references accepted or refused; crashes | `MigrationsAreAtomic`, `IdentityHasKey`, `RunsAsLocal`, `LoneFailureIsRefusal` |

The runs `outbox_safety`, `groups_safety` and `daemon` also check the type
invariant of their module. Those of all modules are theorems.

**Why these bounds.** Two sends are what it takes for handlers to interleave, for
order to mean something, and with `Limit` 1 for one row to be kept out of a
batch. `Cap` and `MaxRetry` are large enough that a backoff passes the interval,
where two rows begin to alternate. A dial longer than the interval (`MaxDial` 2, `Interval` 1) lets
the timer fire during an execution, and the second member of `Runs` is there to
show it is not taken. In `delivery_liveness` two rows for an absent
peer meet `HasRoom` exactly (2 < 1 * (6 div 2)), so the case it is about happens: with `Cap` 4 they
are one too many and TLC finds the starvation (section 7). Two handlers are the least that can hold copies of
one envelope; one compaction is the least that can make an inbox row forget; one
crash reaches every gap between two writes, and a second would start from states
that one reaches as well, since nothing but rows survives. In `inbox_safety` two envelopes of different peers name one conversation, so that each may take it over from the other,
before or after an own send on it. In `delivery_refinement` the envelope's lifetime is the retention, so that it
can expire before, on and after the day its row is compacted. `delivery_refinement` has one message: no
action of either node reads two envelopes at once but the batch order, which
`outbox_safety` and `delivery_liveness` have. Two starts and two stops give every pairing of calls, a third
party included. In `vault`, 2 values tell "current" from "earlier", 2 passphrases
are those of one rotation; `Ops` is a symmetry set, and no liveness is checked there. `Unmixed` cuts
behaviours where `mixed` has become true; each property of the module is
vacuous from then on, and `mixed` never becomes false again. In `events` each source
of events is there once and the peer comes and goes once: an end that overtakes its
beginning is what could go wrong. The webhook wants the exchange's event only: that publication waits, and the
others' rounds, with no request in them, still settle in any order. The received message bears a time of sending
among those of the other events, and four notifications exceed the list's two, so that one may fall below its limit. The theorems lift all these bounds. In
`boot` two starts of one runtime meet on a connection and the third on the file; two migrations let
a start stand between them, two statements leave one half done (the code ships
one file with many statements).

**Bounds that are the model's own**: `MaxInFlight`, `MaxCrashes`,
`MaxCompactions`, `MaxEpoch`, `MaxRetry` (beyond which the count no longer matters
to the backoff), `MaxReceipts`, `MaxSends` of `Inbox`, `MaxPending`, `MaxRequests` of `DaemonLifecycle`
(also of the handlers whose client left), `Readable` of `EventFanout`, `MaxValue`, `Migrations` and `Statements`. Bounds that are the code's: `Limit` (50), `Interval` (2 s), `Cap`
(60 s), `Retention`, `CompactLimit`, `PageLimit` (50, at most 200), `MaxRequests` and `Window` of the limiter.

## 5. Fairness

`DirectDelivery!ReliableSpec`: timers fire, time goes on and
a `publish` comes back (libp2p's dials time out): weak fairness. Being handed over and
being published are under strong fairness, and only for reachable peers: a peer that is dialed again and
again is reached in the end. That is an assumption about networks, not about
the code, and the weakest under which delivery can be promised at all. On the receiving side a
stream that was opened is served and crypto calls come back. The reliable
specification has no loss and no crash: the daemon writes `published` once a
publish succeeds and expects no acknowledgement, so an envelope lost after
that is not sent again; hence `StoreAndForward` promises no delivery.
`ReliableSpec` also has the two nodes keep each other as accepted contacts: a send is otherwise refused, and
an envelope refused by the recipient is `published` for the sender. Both properties are conditional on
`HasRoom`. Nothing in the code sees to that: with its constants, 1500 hopeless rows break it if dials
take no time, and 50 if the dials of a batch last a minute (section 7).

`DaemonLifecycle!FairSpec`: each await of a call settles, maintenance runs end
(their dials time out), and an ordinary request is answered. Nothing is assumed of event streams,
which last as long as their clients stay: `server.close` waits for them. `CallsEnd` therefore
is conditional: every call ends *if* each server is without an open stream again and again. Without
that condition TLC finds a stop that never ends (in the hazards).

`EventFanout!FairSpec`: a publication whose await has settled goes on, and a webhook
request ends, for the code aborts it after two seconds. As publications are finitely many
and each takes finitely many such steps, weak fairness of the steps together is
enough. Nothing is assumed of clients, of the peer or of the daemon's stop.

## 6. Proofs

All theorems are checked to the last leaf; they hold for every value of the
constants that satisfies the module's named ASSUME (`OutboxAssumption`,
`DeliveryAssumption`, `InboxAssumption`, `GroupAssumption`, `DaemonAssumption`,
`VaultAssumption`, `ContactAssumption`, `AccessAssumption`, `SendsAssumption`,
`FanoutAssumption`, `BootAssumption`), which TLC evaluates in the runs. Every invariant
and every action property that a passing run checks is a theorem (`ExpiryCoversCompaction` as one of `Inbox`,
of which the run checks the instance in `DirectDelivery`), and so is the refinement.

**`DeliveryProofs`**, the sender: `Spec => []` of `TypeOK`, `ReportedIsQueued`,
`QueuedIsStored`, `PublishedWasHanded`, `OwnMessagesInSendOrder`, and
`PublishedIsFinal`. None of these is inductive. `Inv` adds what the handlers and
the task know: `SendsInv` (in `queueing` the message is stored and the row is
not there yet; in `announcing` it is), `BornInv` (no two sends have one rank), `TaskInv`
(the rows of a batch are queued, and only one execution is active: without this two executions could hold
one row and the later failure would undo the earlier success), `HandedInv` (phase
`handed` means the transport did deliver). The order of messages
needs `StampInv` on top: among the sends to one peer, whoever began earlier holds
a smaller stamp, none exceeds the conversation's clock, and a conversation is opened and
first ticked with the event loop held, so that no other send ticks it in between.

**`DeliveryProofs`**, the two nodes: `DeliverySpec => Spec`, `DeliverySpec => R!Spec` and
`DeliverySpec => ImplementsStoreAndForward`. To the sender, a step of the recipient or a loss is an envelope that
leaves the network or nothing at all (`DeliveryStepIsSenders`), so all that is proved of `Outbox`
holds in the composition. To the recipient, `Handed` is `Arrive`, a loss is `Lost`, and the rest nothing;
`DeliveryAssumption` contains what `InboxAssumption` asks of the parameters, so the
theorems of `InboxProofs` hold of it by the same substitution (a step the prover
does not take: it cannot discharge the assumption of an instantiated module). On the recipient's side the refinement needs `CarriedInv` only: what is in flight or
in a handler was carried. Then `SendQueued` is `Accept` (by `SendsInv` there was no row), `Handed` is `Carry` and
`Published` is `GiveUp` (by `TaskInv` the row is still queued, by `HandedInv` it was carried),
`Decrypted` is `Deliver`, and every other step leaves the four sets alone: a
retry, a crash, a compaction, a loss.

**`InboxProofs`**: `TypeOK`, `RecordedIsStored`, `ClockGoesOn`, `DuplicatesBounded`,
`ExpiryCoversCompaction`, `FlawLeavesNoTrace`. Conversations: `TableInv` says that no id has two peers, that a peer
of whom nothing was displaced has at most one conversation, with the clock of the last own message, and that
a handler past its verification holds one that is there for its sender or was displaced; an envelope's conversation
is opened only where the sender has none, which is what keeps it. The bounds on duplicates count: `CountInv` says that
while the inbox has no row for an envelope its message rows are those of earlier
compactions and crashes, and that once it has one (or a handler stands between the two
writes) the message rows *plus the handlers that hold a copy and may still write
one* are at most one round of handlers more. That second sum is what makes the bound
inductive, for each handler turns its place in the sum into a row. It is
about cardinalities of sets of handlers, with lemmas for a handler joining and
leaving. For expiry, `TtlInv` ties an inbox row's age to the lifetime left, so that a compacted row's envelope
has none, and `OnceInv` is the count without the term for compactions. `FlawInv` says what each
wait has sorted out by the time a handler is past it.

**`GroupProofs`**: `TypeOK`, `MembersWereInvited`, `AcceptedIsMember`, `RemovedLosesAccess`. The copies that
executions hold need invariants of their own: `PlanInv` (whom a copy lists was invited), `SavingInv`
(a copy saved for an invitation lists its invitee), and, until a stale save, `FreshInv`:
a copy that nobody overtook is of a later epoch, or of the same one with nobody removed in
it who is not removed in the tables. With it, `ForcesInv` (nobody removed was a
member under the epoch of the tables, also between the `groups` row and the member rows) is kept by a save.

**`DaemonProofs`**: `MaintenanceNeverOverlaps` and `ResourcesClosedOnce`, from
`RunsInv` (the set `running` is exactly the tasks with a run, at most one each) and
`CloseInv` (until the flag `resourcesClosed` is set the database is open and no call is
releasing). `TypeOK`, `StopDrains` and `StoppedReleasesAll` need `ResourcesInv`: timers are at most as many
as starts that got past creating them (`TimersInv`), a live node is the daemon's or one being stopped
(`NodesInv`), an exchange or a stream is on the server that listens or on one being closed (`RequestsInv`),
and, unless `raced`, a pending start is alone (`AloneInv`), nothing reappears behind a stop
(`ReleasedInv`), and a lone stop waits for all there is, in its order (`DrainsInv`). What `StopDrains` excepts is in its statement: a start
that was pending beside another call, another stop, a start that failed or is closing; and it
speaks of connections, so that the handlers of clients that left are not covered.

**`KeyVaultProofs`**: `TypeOK`, `Readable`, `StoredIsLatest`, `CachedIsLatest`. Until two writers of
the vault have met (`mixed`), a rotation is the only writer (`AloneInv`) and what it holds is what the
rows hold, all of them once it writes (`HeldInv`); a row is under the next passphrase exactly if
the write loop has come past it (`PassInv`). So whatever a rotation writes back is the
latest material, and setting the passphrase after the loop makes every row readable.

**`LocalApiProofs`**: `TypeOK`, `AcceptedHaveAsked`, `OneOutboundPending`,
`OneAnswerPerRequest`, `AcceptedHasContact`, `SentToApproved`, `RevokedIsSilent`,
from one invariant: what a request's status says about its direction and its deliveries
(`AskedInv`), the count of answers against deliveries with one to spare while it
is pending (`AnswersInv`), and for the composition that an accepted peer was approved, which makes
`SentToApproved` inductive though contacts are blocked later, during the wait included. `RevokedIsSilent` is about
steps: past its revocation a token authorises nothing, and what may still be accepted is what was being sealed.
`SlidingLimit` is about a sum over a window's length of time. `LimitInv` relates the counter to it: while the window is open, its
count is what was admitted since it began, its first request included, and
what is in sight from before is less than `MaxRequests`; once it is closed, all that is in
sight is. A request that opens a window therefore finds less than `MaxRequests` in sight, and the first request of a
full window leaves the sight before the next window can open. The sum
itself is a fold of the community modules; that it equals the partial sums the invariant speaks of is
proved by taking a least set on which they differ (`LeastNumber`), since the induction theorems are
out of the prover's reach.

**`FanoutProofs`**: `TypeOK`, `ClientIsCurrent`, `RequestsNeverFail`,
`NewestTellsConnection`, `ReadStaysRead`. The parts of the invariant: a notification's row is not
there before its event's round is settled (`RowInv`, hence it is saved once); what a client
holds is stored, and what it lacks is no newer than a full page it holds (`ClientInv`): rows that come
later are sent to it; while a request whose client is there publishes, the daemon serves
(`RequestInv`); the latest connection event of a peer tells whether it is connected,
and whoever is past its own round carries its time on the notification (`LatestInv`). The last is
what makes the order of finishing not matter: a new event is later than all before it.

**`BootProofs`**: `TypeOK`, `MigrationsAreAtomic`, `IdentityHasKey`,
`LoneFailureIsRefusal`, `RunsAsLocal`. `TxnInv`: an open transaction belongs to exactly one start, which
is in the runner's try block; this needs BEGIN to be refused rather than rolled back when
another start's transaction is open. `WrittenInv`: of the migrations' tables and ledger rows that transaction
holds what its start has executed, so a COMMIT brings a whole migration. `KeyInv`:
the key record is written while the event loop is free, when no start of the process is in a
transaction, so it is committed before the identity refers to it. `LoneInv`: whatever makes a
statement throw (another connection's transaction, a closed handle, a ledger row that was not there
at the check) tells of another start, or, where the references are refused (`RefusalInv`), its key is in the vault by then
and no identity ever comes after it. For `RunsAsLocal`, `PassedInv` (what a start has come past is applied)
gives that no start of a process is in a transaction once one makes an identity; so at most one start of a
process is between its clock reading and its row (`MakingInv`), and the identities of a process reach
the file in the order of `createdAt` (`MadeInv`): the earliest stays the earliest.

**Only model-checked**: liveness (`NoStarvation`, `QueuedIsDelivered`,
`CallsEnd`, `PublicationsEnd`), which this prover does not reach, and the two properties that are
shown to be violated.

## 7. What the checks found

Shown by a run (details and quotations in `PROJECT.json`):

1. `inbox_race`: deduplication asks `inbox.exists` two crypto calls before it
   records the envelope; two handlers with copies of one envelope store two messages.
   `docs/offline-first.md:17` says otherwise. `DuplicatesBounded` says what does hold.
2. `vault_restart`: remote verification keys are kept in memory only;
   `docs/progress.md:38` lists them as persisted.

Met while modelling, and outside what the models contain or assumed away by name:

3. Accepting an invitation adds a member under the epoch in use;
   `docs/protocol/group-flow.md:6` says membership changes rotate it.
4. A first start cannot succeed with the shipped key provider: its references lack
   the prefixes the identity value objects demand. `Boot` has these starts where `wellFormed` is FALSE:
   `LoneFailureIsRefusal` says that each fails with its key left in the vault, and that then none ever comes up.
5. Tokens cannot be issued with the shipped hasher, for the same reason.
   `local_api` sets `Prefixed` to TRUE, as the tests' hasher has it.
6. A stop while a start is pending finds nothing to stop, closes the resources and
   returns; the start then listens over a closed database. `DaemonLifecycle` has the steps;
   `StoppedReleasesAll` and `StopDrains` except them through `raced`.
7. Two pending starts on a fresh database make each other fail, and the daemon
   cannot be started again. `Boot` has the steps; `LoneFailureIsRefusal` excepts them through `overlapped`.
8. A connection event that finds the database closed is a rejection nobody handles, which
   ends the process. `EventFanout` has the step.
9. Frames on the event stream carry the domain event's class name, the documented names
   are heard for `notification.created` only.
10. Rows to absent peers are never pruned, retried for ever and taken oldest first: once they
    fill all the batches that begin within a backoff, newer rows starve. `NoStarvation` and
    `QueuedIsDelivered` hold below that number (`HasRoom`), and the run meets it exactly.
11. A late message's notification is sorted by the time of its sending and may lie below the list's limit
    from the start (`ClientIsCurrent` says that a client lacks no more than that); received messages carry Lamport
    clock 0 and are listed before all own ones,
    which is not the causal order `docs/architecture/ddd-context-map.md:13` lists;
    `network_peers` keeps saying `peer_reachable` after a crash.
12. An envelope that names the id of an existing conversation takes its row, whoever it was with, and
    resets its clock. `Inbox` has the step; `RecordedIsStored` and `ClockGoesOn` except exactly what was so
    replaced (`displaced`).
13. `server.close` waits for connections, not for handlers: a client that leaves before its answer lets a stop
    close the database under the handler. `DaemonLifecycle` and `EventFanout` have the steps; `StopDrains` does
    not count such handlers, `RequestsNeverFail` excepts their requests (`left`).

Properties that hold only with an exception say so: `RemovedLosesAccess` excepts
saves of stale copies (last writer wins), `AcceptedIsMember` and
`AcceptedHasContact` exactly the invitations and requests that a crash caught between the writes of their
acceptance (`torn`; after which the request can no longer be approved), `RecordedIsStored` and `ClockGoesOn`
conversations that another peer's envelope replaced, `RequestsNeverFail` and `StopDrains` handlers whose
client has left, `RevokedIsSilent` messages that were being sealed, `LoneFailureIsRefusal` starts that met
another, `CachedIsLatest` keys replaced under a lookup
and restores, which leave the Maps alone, `NewestTellsConnection` peers whose events a
crash or the closed database cut short, `RunsAsLocal` two processes that make
identities on one new file.

## 8. What is not modelled, and what comes next

Not modelled: payloads, formats and wording; read-only routes, CORS and JSON;
discovery and known peers of the libp2p node beyond the events it reports (no use case
decides anything by them); mDNS, peer exchange; the peer-node use cases and
`CreateNotificationUseCase`, which the daemon does not compose; schemas, SDK, desktop
application, CLI, which keep no state of the node's. The SQLite adapter is present in `Boot`
with its connections and transactions, elsewhere as the assumption
that its calls are synchronous and each statement atomic.

Simplifications to know of: `EventFanout` gives each connection event a time of its own (the
code's ids and times have milliseconds) and leaves out the list's filter by unread; frames queued for a client that does not read are
not counted. `ContactTrust` takes the ids of requests that peers send to be other than those of own requests. `Boot` lets a statement throw whenever another connection is in a
transaction, which SQLite does in fewer cases, and does not model what two
processes' schema changes do to each other's prepared statements.

Order followed so far: `Outbox`, `Inbox`, their composition and refinement, the
access path of the local API, the daemon, groups, the vault, the event fan-out, the boot; then proofs
of each and of the refinement. Planned:

1. `LocalApi`'s request path as a refinement of an abstract access policy (who may send to
   whom, and how often), with the invariants of `LocalApiProofs`.
2. The order in which a conversation's messages are listed on both sides (Lamport
   clocks of two nodes against `created_at`).
3. The libp2p node's own state as far as `publishToPeer` depends on it.
