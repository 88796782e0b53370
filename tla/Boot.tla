--------------------------------- MODULE Boot ---------------------------------
(***************************************************************************)
(* What a start of the daemon does to its database before it listens:      *)
(* SqliteMigrationRunner.run, then the startup task that makes sure there  *)
(* is a local identity, whose private key goes to the vault.               *)
(*                                                                         *)
(* A runtime has one connection, so two calls of its start share one       *)
(* transaction; runtimes in other processes have connections of their own  *)
(* to the same file, and SQLite answers SQLITE_BUSY where they collide.    *)
(* The driver is synchronous: a start goes from statement to statement     *)
(* through microtasks, between which only other microtasks of its process  *)
(* run, and waits for the event loop only while WebCrypto makes and        *)
(* encrypts the key.  Other processes interleave anywhere, and a process   *)
(* may crash anywhere.  The program is built with one key provider, whose  *)
(* references the value objects of an identity take or refuse.             *)
(***************************************************************************)
EXTENDS Integers, FiniteSets

CONSTANTS Starts,     \* calls of start(); each also names the identity it makes
          Runtime,    \* start -> its runtime, with one connection
          Process,    \* start -> the process of the runtime
          Migrations, \* bound: number of migration files
          Statements, \* bound: statements in each of them
          None        \* no identity

ASSUME BootAssumption ==
  /\ IsFiniteSet(Starts)
  /\ None \notin Starts
  /\ Migrations \in Nat
  /\ Statements \in Nat \ {0}
  /\ \A s, t \in Starts : Runtime[s] = Runtime[t] => Process[s] = Process[t]

VARIABLES pc,         \* where each start is
          migration,  \* start -> the migration it has come to
          statement,  \* start -> the statement of it
          disk,       \* what is committed
          inTxn,      \* runtime -> its connection is in a transaction
          pending,    \* runtime -> what that transaction has written
          open,       \* runtimes whose connection is open
          released,   \* runtimes whose resources were closed (resourcesClosed)
          wellFormed, \* the key provider's references have the form demanded
          clock,      \* time, advanced by every identity made
          createdAt,  \* start -> createdAt of the identity it made
          runsAs,     \* start -> the identity its daemon runs as
          overlapped  \* history: starts that were pending beside another

database == <<disk, inTxn, pending, open>>
identity == <<wellFormed, clock, createdAt, runsAs>>
vars == <<pc, migration, statement, database, released, identity, overlapped>>

-----------------------------------------------------------------------------
Runtimes  == {Runtime[s] : s \in Starts}
Processes == {Process[s] : s \in Starts}

\* Rows and tables.
Ledger      == <<"schema_migrations">>
Table(m, k) == <<"table", m, k>>
Applied(m)  == <<"applied", m>>
Key(s)      == <<"key", s>>
Identity(s) == <<"identity", s>>
Device(s)   == <<"device", s>>

Items == {Ledger} \cup {Table(m, k) : m \in 1..Migrations, k \in 1..Statements}
         \cup {Applied(m) : m \in 1..Migrations}
         \cup UNION {{Key(s), Identity(s), Device(s)} : s \in Starts}

\* Places a start leaves in a microtask; at "keys" it waits for WebCrypto.
InTry   == {"statement", "record", "commit"}
Chain   == InTry \cup {"ledger", "check", "begin", "rollback", "local",
                       "create", "stamp", "row", "device", "ready", "closing"}
Pending(s) == pc[s] \in Chain \cup {"keys"}

\* What a connection sees: the file, and its own transaction.
Sees(r) == disk \cup pending[r]

Identities(r) == {s \in Starts : Identity(s) \in Sees(r)}

\* getLocal: the identity with the least created_at.
Local(r) == IF Identities(r) = {} THEN None
            ELSE CHOOSE s \in Identities(r) :
                   \A t \in Identities(r) : createdAt[s] <= createdAt[t]

TypeOK ==
  /\ pc \in [Starts -> Chain \cup {"idle", "keys", "up", "refused", "failed", "dead"}]
  /\ migration \in [Starts -> 1..Migrations + 1]
  /\ statement \in [Starts -> 1..Statements + 1]
  /\ disk \subseteq Items
  /\ inTxn \in [Runtimes -> BOOLEAN]
  /\ pending \in [Runtimes -> SUBSET Items]
  /\ open \subseteq Runtimes
  /\ released \subseteq Runtimes
  /\ wellFormed \in BOOLEAN
  /\ clock \in Nat
  /\ createdAt \in [Starts -> 0..clock]
  /\ runsAs \in [Starts -> Starts \cup {None}]
  /\ overlapped \subseteq Starts
  /\ \A r \in Runtimes : pending[r] # {} => inTxn[r] /\ r \in open

Init ==
  /\ pc = [s \in Starts |-> "idle"]
  /\ migration = [s \in Starts |-> 1]
  /\ statement = [s \in Starts |-> 1]
  /\ disk = {}
  /\ inTxn = [r \in Runtimes |-> FALSE]
  /\ pending = [r \in Runtimes |-> {}]
  /\ open = Runtimes
  /\ released = {}
  /\ wellFormed \in BOOLEAN
  /\ clock = 0
  /\ createdAt = [s \in Starts |-> 0]
  /\ runsAs = [s \in Starts |-> None]
  /\ overlapped = {}

-----------------------------------------------------------------------------
(* SQLite.                                                                 *)

Others(r) == Runtimes \ {r}

\* Another connection has written in a transaction it has not ended.
Locked(r) == \E q \in Others(r) : pending[q] # {}

\* A statement on runtime r writes the item, in the transaction if there is
\* one, or else by itself.
Writes(r, item) ==
  /\ r \in open
  /\ ~Locked(r)
  /\ IF inTxn[r]
       THEN pending' = [pending EXCEPT ![r] = @ \cup {item}] /\ UNCHANGED disk
       ELSE disk' = disk \cup {item} /\ UNCHANGED pending
  /\ UNCHANGED <<inTxn, open>>

\* A statement on runtime r may throw: the handle is closed, or the file is
\* locked, or about to be, by a transaction of another connection.
MayThrow(r) == r \notin open \/ \E q \in Others(r) : inTxn[q]

Ends(r) ==
  /\ inTxn' = [inTxn EXCEPT ![r] = FALSE]
  /\ pending' = [pending EXCEPT ![r] = {}]

-----------------------------------------------------------------------------
(* The steps of a start.                                                   *)

Moves(s, from, to) == pc[s] = from /\ pc' = [pc EXCEPT ![s] = to]

\* Only microtasks of other starts of the process come between two steps.
LoopIsFree(s) == \A t \in Starts : Process[t] = Process[s] => pc[t] \notin Chain

\* start() of a daemon that does not run yet.
Start(s) ==
  /\ \A t \in Starts : Runtime[t] = Runtime[s] => pc[t] # "up"
  /\ Moves(s, "idle", IF Runtime[s] \in released THEN "refused" ELSE "ledger")
  /\ overlapped' = overlapped \cup
       UNION {{s, t} : t \in {u \in Starts \ {s} : Pending(u)}}
  /\ UNCHANGED <<migration, statement, database, released, identity>>

\* CREATE TABLE IF NOT EXISTS schema_migrations
CreateLedger(s) ==
  /\ Moves(s, "ledger", "check")
  /\ Writes(Runtime[s], Ledger)
  /\ UNCHANGED <<migration, statement, released, identity, overlapped>>

\* Mutant of Check: the ledger is not asked.
CheckNothing(s) ==
  LET m == migration[s] IN
  /\ Runtime[s] \in open
  /\ Moves(s, "check", IF m > Migrations THEN "local" ELSE "begin")
  /\ UNCHANGED <<migration, statement, database, released, identity, overlapped>>

\* The next migration: applied already, to be applied, or there is none left.
Check(s) ==
  LET m == migration[s] IN
  /\ Runtime[s] \in open
  /\ Moves(s, "check", IF m > Migrations                     THEN "local"
                       ELSE IF Applied(m) \in Sees(Runtime[s]) THEN "check"
                       ELSE "begin")
  /\ migration' = [migration EXCEPT ![s] =
       IF m <= Migrations /\ Applied(m) \in Sees(Runtime[s]) THEN m + 1 ELSE m]
  /\ UNCHANGED <<statement, database, released, identity, overlapped>>

\* Mutant of Begin: BEGIN is inside the try, so a nested one is rolled back.
BeginInTry(s) ==
  LET r == Runtime[s] IN
  /\ r \in open
  /\ Moves(s, "begin", IF inTxn[r] THEN "rollback" ELSE "statement")
  /\ inTxn' = [inTxn EXCEPT ![r] = TRUE]
  /\ statement' = [statement EXCEPT ![s] = 1]
  /\ UNCHANGED <<migration, disk, pending, open, released, identity, overlapped>>

\* BEGIN, outside the try: within a transaction it throws.
Begin(s) ==
  LET r == Runtime[s] IN
  /\ r \in open
  /\ Moves(s, "begin", IF inTxn[r] THEN "closing" ELSE "statement")
  /\ inTxn' = [inTxn EXCEPT ![r] = TRUE]
  /\ statement' = [statement EXCEPT ![s] = 1]
  /\ UNCHANGED <<migration, disk, pending, open, released, identity, overlapped>>

\* One CREATE TABLE IF NOT EXISTS of the migration.
Execute(s) ==
  LET k == statement[s] IN
  /\ Moves(s, "statement", IF k < Statements THEN "statement" ELSE "record")
  /\ Writes(Runtime[s], Table(migration[s], k))
  /\ statement' = [statement EXCEPT ![s] = k + 1]
  /\ UNCHANGED <<migration, released, identity, overlapped>>

\* INSERT INTO schema_migrations; a second row of the same id throws.
Record(s) ==
  /\ Moves(s, "record", "commit")
  /\ Applied(migration[s]) \notin Sees(Runtime[s])
  /\ Writes(Runtime[s], Applied(migration[s]))
  /\ UNCHANGED <<migration, statement, released, identity, overlapped>>

Commit(s) ==
  LET r == Runtime[s] IN
  /\ Moves(s, "commit", "check")
  /\ inTxn[r]
  /\ disk' = disk \cup pending[r]
  /\ Ends(r)
  /\ migration' = [migration EXCEPT ![s] = @ + 1]
  /\ UNCHANGED <<statement, open, released, identity, overlapped>>

\* A statement of the try throws.
Throws(s) ==
  LET r == Runtime[s] IN
  /\ pc[s] \in InTry
  /\ \/ MayThrow(r)
     \/ pc[s] = "record" /\ Applied(migration[s]) \in Sees(r)
     \/ pc[s] = "commit" /\ ~inTxn[r]
  /\ pc' = [pc EXCEPT ![s] = "rollback"]
  /\ UNCHANGED <<migration, statement, database, released, identity, overlapped>>

\* ROLLBACK, then the error: on a closed handle, or outside a transaction,
\* the rollback throws an error of its own.
Rollback(s) ==
  /\ Moves(s, "rollback", "closing")
  /\ Ends(Runtime[s])
  /\ UNCHANGED <<migration, statement, disk, open, released, identity, overlapped>>

-----------------------------------------------------------------------------
(* ensure-local-identity                                                   *)

\* The task's getLocal.
EnsureLocalIdentity(s) ==
  LET r == Runtime[s] IN
  /\ r \in open
  /\ Moves(s, "local", IF Identities(r) = {} THEN "create" ELSE "ready")
  /\ UNCHANGED <<migration, statement, database, released, identity, overlapped>>

\* The use case's getLocal: an identity that came in between is an error.
CreateLocalIdentity(s) ==
  LET r == Runtime[s] IN
  /\ r \in open
  /\ Moves(s, "create", IF Identities(r) = {} THEN "keys" ELSE "closing")
  /\ UNCHANGED <<migration, statement, database, released, identity, overlapped>>

\* Mutant of GenerateIdentity: the vault is written later, or never.
GenerateIdentityUnsaved(s) ==
  /\ LoopIsFree(s)
  /\ Runtime[s] \in open
  /\ Moves(s, "keys", "stamp")
  /\ UNCHANGED <<migration, statement, database, released, identity, overlapped>>

\* createIdentity of the key store: the key record is in the vault.
GenerateIdentity(s) ==
  /\ LoopIsFree(s)
  /\ Moves(s, "keys", "stamp")
  /\ Writes(Runtime[s], Key(s))
  /\ UNCHANGED <<migration, statement, released, identity, overlapped>>

\* const now = new Date(), and the value objects of the identity, which throw if
\* a key, its reference or the fingerprint lacks its prefix.
Stamp(s) ==
  /\ Moves(s, "stamp", IF wellFormed THEN "row" ELSE "closing")
  /\ clock' = clock + 1
  /\ createdAt' = [createdAt EXCEPT ![s] = clock + 1]
  /\ UNCHANGED <<migration, statement, database, released, wellFormed, runsAs, overlapped>>

\* The two writes of SqliteIdentityRepository.save, in no transaction.
SaveIdentity(s) ==
  /\ Moves(s, "row", "device")
  /\ Writes(Runtime[s], Identity(s))
  /\ UNCHANGED <<migration, statement, released, identity, overlapped>>

SaveDevice(s) ==
  /\ Moves(s, "device", "ready")
  /\ Writes(Runtime[s], Device(s))
  /\ UNCHANGED <<migration, statement, released, identity, overlapped>>

\* Mutant of Ready: a daemon that made an identity runs as that one.
ReadyAsMade(s) ==
  /\ Runtime[s] \in open
  /\ Moves(s, "ready", "up")
  /\ runsAs' = [runsAs EXCEPT ![s] =
       IF createdAt[s] > 0 THEN s ELSE Local(Runtime[s])]
  /\ UNCHANGED <<migration, statement, database, released, wellFormed, clock, createdAt,
                 overlapped>>

\* start-libp2p asks for the local identity again and runs as that one.
Ready(s) ==
  /\ Runtime[s] \in open
  /\ Moves(s, "ready", "up")
  /\ runsAs' = [runsAs EXCEPT ![s] = Local(Runtime[s])]
  /\ UNCHANGED <<migration, statement, database, released, wellFormed, clock, createdAt,
                 overlapped>>

-----------------------------------------------------------------------------
(* Failures.                                                               *)

\* A statement outside the migrations' try throws.
Fails(s) ==
  /\ \/ pc[s] \in {"ledger", "check", "begin", "local", "create", "row", "device",
                   "ready"}
     \/ pc[s] = "keys" /\ LoopIsFree(s)
  /\ MayThrow(Runtime[s])
  /\ pc' = [pc EXCEPT ![s] = "closing"]
  /\ UNCHANGED <<migration, statement, database, released, identity, overlapped>>

\* The catch block of start closes the resources unless somebody has; with
\* the handle, its transaction is gone.
CloseResources(s) ==
  LET r == Runtime[s] IN
  /\ Moves(s, "closing", "failed")
  /\ released' = released \cup {r}
  /\ open' = open \ {r}
  /\ Ends(r)
  /\ UNCHANGED <<migration, statement, disk, identity, overlapped>>

Crash(p) ==
  LET gone == {r \in Runtimes : \E s \in Starts : Process[s] = p /\ Runtime[s] = r}
  IN /\ \E s \in Starts : Process[s] = p /\ pc[s] \notin {"idle", "dead"}
     /\ pc' = [s \in Starts |-> IF Process[s] = p THEN "dead" ELSE pc[s]]
     /\ open' = open \ gone
     /\ inTxn' = [r \in Runtimes |-> inTxn[r] /\ r \notin gone]
     /\ pending' = [r \in Runtimes |-> IF r \in gone THEN {} ELSE pending[r]]
     /\ UNCHANGED <<migration, statement, disk, released, identity, overlapped>>

Next ==
  \/ \E s \in Starts :
       \/ Start(s) \/ CreateLedger(s) \/ Check(s) \/ Begin(s) \/ Execute(s)
       \/ Record(s) \/ Commit(s) \/ Throws(s) \/ Rollback(s)
       \/ EnsureLocalIdentity(s) \/ CreateLocalIdentity(s)
       \/ GenerateIdentity(s) \/ Stamp(s) \/ SaveIdentity(s) \/ SaveDevice(s)
       \/ Ready(s)
       \/ Fails(s) \/ CloseResources(s)
  \/ \E p \in Processes : Crash(p)

Spec == Init /\ [][Next]_vars

-----------------------------------------------------------------------------
(* The file holds the tables of a migration exactly when its ledger names  *)
(* the migration, whatever starts, connections and crashes met (the        *)
(* transaction of SqliteMigrationRunner.run, and that a BEGIN refused      *)
(* within another start's transaction does not end that).                  *)
MigrationsAreAtomic ==
  \A m \in 1..Migrations :
    \A k \in 1..Statements : Table(m, k) \in disk <=> Applied(m) \in disk

(* An identity in the database has its private key in the vault (the key   *)
(* record is written before the identity row, neither in a transaction).   *)
IdentityHasKey == \A s \in Starts : Identity(s) \in disk => Key(s) \in disk

(* A running daemon runs as the identity that getLocal returns, although   *)
(* two starts may each have made one.  Two processes that do so on one new *)
(* file are excepted: the row of the earlier identity may come later.      *)
RunsAsLocal ==
  LET made == {s \in Starts : Identity(s) \in disk} IN
  (\A s, t \in made : Process[s] = Process[t]) =>
    \A s \in Starts : pc[s] = "up" /\ Runtime[s] \in open => runsAs[s] = Local(Runtime[s])

(* A start that met no other fails in one case only, whatever crashes and  *)
(* failed starts have left in the file: it had to make the identity, and   *)
(* the value objects refused what the key provider made, as they refuse    *)
(* what the shipped one makes; its key stays in the vault.  Where they     *)
(* refuse it, no identity ever comes to be and no daemon ever runs         *)
(* (CreateLocalIdentityUseCase.execute, PublicKey, PrivateKeyReference and *)
(* IdentityFingerprint.create).                                            *)
LoneFailureIsRefusal ==
  /\ \A s \in Starts : pc[s] = "failed" =>
       s \in overlapped \/ (~wellFormed /\ Key(s) \in disk)
  /\ ~wellFormed => \A s \in Starts : pc[s] # "up" /\ Identity(s) \notin disk
=============================================================================
