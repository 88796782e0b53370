------------------------------ MODULE BootProofs ------------------------------
(***************************************************************************)
(* However many starts, runtimes and processes meet on a file, and         *)
(* wherever they crash, migrations are all or nothing, identities have     *)
(* their keys, a start that met no other fails only where the key          *)
(* provider's references are refused, and a running daemon runs as the     *)
(* identity that getLocal returns.                                         *)
(***************************************************************************)
EXTENDS Boot, WellFoundedInduction, TLAPS

-----------------------------------------------------------------------------
(* The inductive invariant.                                                *)

Holds(s) == pc[s] \in InTry \cup {"rollback"}

\* A transaction belongs to one start, which is in the runner's try block.
TxnInv ==
  /\ \A r \in Runtimes : inTxn[r] => r \in open /\ \E s \in Starts : Runtime[s] = r /\ Holds(s)
  /\ \A s \in Starts : Holds(s) /\ Runtime[s] \in open => inTxn[Runtime[s]]
  /\ \A s, t \in Starts :
       Holds(s) /\ Holds(t) /\ Runtime[s] = Runtime[t] /\ Runtime[s] \in open => s = t

\* Where a start is in its migration.
ProgressInv ==
  \A s \in Starts :
    /\ pc[s] \in InTry \cup {"begin"} => migration[s] \in 1..Migrations
    /\ pc[s] = "statement" => statement[s] \in 1..Statements
    /\ pc[s] \in {"record", "commit"} => statement[s] = Statements + 1

\* An open transaction holds of the migrations what its start has executed.
WrittenInv ==
  \A s \in Starts : pc[s] \in InTry /\ Runtime[s] \in open =>
    \A m \in 1..Migrations :
      /\ \A k \in 1..Statements : Table(m, k) \in pending[Runtime[s]]
                                  <=> m = migration[s] /\ k < statement[s]
      /\ Applied(m) \in pending[Runtime[s]] <=> m = migration[s] /\ pc[s] = "commit"

\* A key is committed before its identity is written anywhere.
KeyInv ==
  \A s \in Starts :
    /\ pc[s] \in {"stamp", "row"} => Key(s) \in disk
    /\ Identity(s) \in disk => Key(s) \in disk
    /\ \A r \in Runtimes : Identity(s) \in pending[r] => Key(s) \in disk

\* The value objects refused what the key provider made for a start.
Refused(s) == ~wellFormed /\ Key(s) \in disk

\* Where they refuse it, nobody gets as far as the identity row.
RefusalInv ==
  ~wellFormed => \A s \in Starts :
    /\ pc[s] \notin {"row", "device", "ready", "up"}
    /\ Identity(s) \notin disk
    /\ \A r \in Runtimes : Identity(s) \notin pending[r]

\* Who has met nobody finds its connection open and what it has checked.
LoneInv ==
  /\ \A s, t \in Starts : s # t /\ Pending(s) /\ Pending(t) => s \in overlapped
  /\ \A s \in Starts : pc[s] # "dead" /\ Runtime[s] \notin open => Runtime[s] \in released
  /\ \A s \in Starts : Pending(s) /\ Runtime[s] \in released => s \in overlapped
  /\ \A s \in Starts : pc[s] = "rollback" => s \in overlapped
  /\ \A s \in Starts : pc[s] \in {"closing", "failed"} => s \in overlapped \/ Refused(s)
  /\ \A s \in Starts : pc[s] \in {"begin", "statement", "record"} /\ s \notin overlapped
       => Applied(migration[s]) \notin Sees(Runtime[s])
  /\ \A s \in Starts : pc[s] = "create" /\ s \notin overlapped => Identities(Runtime[s]) = {}

Inv == /\ TypeOK /\ TxnInv /\ ProgressInv /\ WrittenInv
       /\ MigrationsAreAtomic /\ KeyInv /\ RefusalInv /\ LoneInv

-----------------------------------------------------------------------------
\* Rows and tables of different kinds are different.
LEMMA Distinct ==
  /\ \A m, k, n, l : Table(m, k) = Table(n, l) <=> m = n /\ k = l
  /\ \A m, n : Applied(m) = Applied(n) <=> m = n
  /\ \A s, t : Identity(s) = Identity(t) <=> s = t
  /\ \A m, k, n : Table(m, k) # Applied(n)
  /\ \A m, k : Table(m, k) # Ledger
  /\ \A m : Applied(m) # Ledger
  /\ \A m, k, s : Table(m, k) \notin {Key(s), Identity(s), Device(s)}
  /\ \A m, s : Applied(m) \notin {Key(s), Identity(s), Device(s)}
  /\ \A s, t : Identity(s) \notin {Key(t), Device(t)}
  /\ \A s : Identity(s) # Ledger
BY DEF Table, Applied, Identity, Ledger, Key, Device
\* The steps of a start, those that write and those that only look.
Writing(s) == CreateLedger(s) \/ Execute(s) \/ Record(s) \/ GenerateIdentity(s)
              \/ SaveIdentity(s) \/ SaveDevice(s)
Looking(s) == Check(s) \/ EnsureLocalIdentity(s) \/ CreateLocalIdentity(s) \/ Stamp(s)
              \/ Ready(s) \/ Throws(s) \/ Fails(s)
Other(s)   == Start(s) \/ Begin(s) \/ Commit(s) \/ Rollback(s) \/ CloseResources(s)
StepOf(s)  == Writing(s) \/ Looking(s) \/ Other(s)

\* A start moves on its own: nobody else's place in the code changes.
LEMMA OneMoves ==
  ASSUME Inv, NEW s \in Starts, StepOf(s)
  PROVE  /\ pc' \in [Starts -> Chain \cup {"idle", "keys", "up", "refused", "failed", "dead"}]
         /\ \A t \in Starts \ {s} : /\ pc'[t] = pc[t]
                                    /\ migration'[t] = migration[t]
                                    /\ statement'[t] = statement[t]
         /\ Runtime[s] \in Runtimes
<1>1. Runtime[s] \in Runtimes
  BY DEF Runtimes
<1>2. CASE Writing(s)
  BY <1>1, <1>2 DEF Inv, TypeOK, Writing, CreateLedger, Execute, Record, GenerateIdentity,
                    SaveIdentity, SaveDevice, Moves, Chain, InTry
<1>3. CASE Looking(s)
  BY <1>1, <1>3 DEF Inv, TypeOK, Looking, Check, EnsureLocalIdentity, CreateLocalIdentity,
                    Stamp, Ready, Throws, Fails, Moves, Chain, InTry
<1>4. CASE Other(s)
  BY <1>1, <1>4 DEF Inv, TypeOK, Other, Start, Begin, Commit, Rollback, CloseResources,
                    Moves, Chain, InTry
<1> QED BY <1>2, <1>3, <1>4 DEF StepOf

\* What a writing step writes, and where it goes.
LEMMA WriteEffect ==
  ASSUME Inv, NEW s \in Starts, Writing(s)
  PROVE  \E item \in Items :
           /\ Writes(Runtime[s], item)
           /\ \/ pc[s] = "ledger" /\ pc'[s] = "check" /\ item = Ledger
              \/ /\ pc[s] = "statement" /\ item = Table(migration[s], statement[s])
                 /\ pc'[s] = IF statement[s] < Statements THEN "statement" ELSE "record"
              \/ pc[s] = "record" /\ pc'[s] = "commit" /\ item = Applied(migration[s])
              \/ /\ pc[s] = "keys" /\ pc'[s] = "stamp" /\ item = Key(s)
                 /\ LoopIsFree(s)
              \/ pc[s] = "row" /\ pc'[s] = "device" /\ item = Identity(s)
              \/ pc[s] = "device" /\ pc'[s] = "ready" /\ item = Device(s)
           /\ statement' = IF pc[s] = "statement"
                             THEN [statement EXCEPT ![s] = statement[s] + 1] ELSE statement
           /\ UNCHANGED <<migration, released, identity, overlapped>>
<1> USE DEF Inv, TypeOK, Moves
<1>1. CASE CreateLedger(s)
  BY <1>1 DEF CreateLedger, Items
<1>2. CASE Execute(s)
  <2>1. Table(migration[s], statement[s]) \in Items
    BY <1>2 DEF Execute, Items, ProgressInv, InTry
  <2> QED BY <1>2, <2>1 DEF Execute
<1>3. CASE Record(s)
  <2>1. Applied(migration[s]) \in Items
    BY <1>3 DEF Record, Items, ProgressInv, InTry
  <2> QED BY <1>3, <2>1 DEF Record
<1>4. CASE GenerateIdentity(s)
  BY <1>4 DEF GenerateIdentity, Items
<1>5. CASE SaveIdentity(s)
  BY <1>5 DEF SaveIdentity, Items
<1>6. CASE SaveDevice(s)
  BY <1>6 DEF SaveDevice, Items
<1> QED BY <1>1, <1>2, <1>3, <1>4, <1>5, <1>6 DEF Writing

\* What a start that only looks does to the rest.
LEMMA LookEffect ==
  ASSUME Inv, NEW s \in Starts, Looking(s)
  PROVE  /\ UNCHANGED <<database, released, overlapped, statement>>
         /\ Holds(s) => pc[s] \in InTry /\ pc'[s] = "rollback"
         /\ pc'[s] \in InTry \cup {"rollback"} => Holds(s)
         /\ pc'[s] \in {"begin"} \cup InTry => migration'[s] \in 1..Migrations
         /\ migration' \in [Starts -> 1..Migrations + 1]
<1> USE DEF Inv, TypeOK, Moves, InTry, Holds, database
<1>1. CASE Check(s)
  <2>1. /\ migration' = [migration EXCEPT ![s] = migration'[s]]
        /\ migration'[s] \in 1..Migrations + 1
        /\ pc'[s] = "begin" => migration'[s] \in 1..Migrations
    BY <1>1, BootAssumption DEF Check
  <2> QED BY <1>1, <2>1 DEF Check
<1>2. CASE Throws(s)
  BY <1>2 DEF Throws, ProgressInv
<1>3. CASE ~Check(s) /\ ~Throws(s)
  BY <1>3 DEF Looking, EnsureLocalIdentity, CreateLocalIdentity, Stamp, Ready, Fails
<1> QED BY <1>1, <1>2, <1>3

-----------------------------------------------------------------------------
(* TypeOK                                                                  *)

Before == {ss \in Nat \X Nat : ss[1] < ss[2]}

\* A set of times has an earliest one.
LEMMA EarliestTime ==
  ASSUME NEW T, T \subseteq Nat, T # {}
  PROVE  \E x \in T : \A y \in T : x <= y
<1>1. IsWellFoundedOn(Before, Nat)
  BY NatLessThanWellFounded, Zenon DEF OpToRel, Before
<1>2. \E x \in T : \A y \in T : ~(<<y, x>> \in Before)
  BY <1>1, WFMin, Zenon
<1>3. \A x, y \in Nat : <<y, x>> \notin Before => x <= y
  BY DEF Before
<1> QED BY <1>2, <1>3

\* Hence getLocal answers with one of the identities it finds.
LEMMA LocalIsOne ==
  ASSUME TypeOK, NEW r \in Runtimes
  PROVE  Local(r) \in Starts \cup {None}
<1>1. CASE Identities(r) = {}
  BY <1>1 DEF Local
<1>2. CASE Identities(r) # {}
  <2> DEFINE times == {createdAt[s] : s \in Identities(r)}
  <2>1. times \subseteq Nat /\ times # {}
    BY <1>2 DEF TypeOK, Identities
  <2>2. PICK x \in times : \A y \in times : x <= y
    BY <2>1, EarliestTime
  <2>3. \E s \in Identities(r) : \A t \in Identities(r) : createdAt[s] <= createdAt[t]
    BY <2>2
  <2> QED BY <1>2, <2>3 DEF Local, Identities
<1> QED BY <1>1, <1>2

LEMMA TypeStep ==
  ASSUME Inv, NEW s \in Starts, StepOf(s)
  PROVE  TypeOK'
<1> USE DEF Inv, TypeOK
<1>0. Runtime[s] \in Runtimes
  BY OneMoves
<1>1. CASE Writing(s)
  <2>1. PICK item \in Items : /\ Writes(Runtime[s], item)
                              /\ UNCHANGED <<migration, released, identity, overlapped>>
    BY <1>1, WriteEffect
  <2>2. statement' \in [Starts -> 1..Statements + 1]
    BY <1>1, WriteEffect, BootAssumption DEF ProgressInv
  <2>3. /\ disk' \subseteq Items /\ inTxn' = inTxn /\ open' = open
        /\ pending' \in [Runtimes -> SUBSET Items]
        /\ \A r \in Runtimes : pending'[r] # {} => inTxn[r] /\ r \in open
    BY <1>0, <2>1 DEF Writes
  <2> QED BY <1>1, <2>1, <2>2, <2>3, OneMoves DEF StepOf, identity
<1>2. CASE Looking(s)
  <2>1. /\ wellFormed' \in BOOLEAN
        /\ clock' \in Nat /\ createdAt' \in [Starts -> 0..clock']
        /\ runsAs' \in [Starts -> Starts \cup {None}]
    <3>1. CASE Stamp(s)
      BY <3>1 DEF Stamp
    <3>2. CASE Ready(s)
      <4>1. Local(Runtime[s]) \in Starts \cup {None}
        BY <1>0, LocalIsOne
      <4> QED BY <3>2, <4>1 DEF Ready
    <3> QED BY <1>2, <3>1, <3>2 DEF Looking, Check, EnsureLocalIdentity, CreateLocalIdentity,
                                    Throws, Fails, identity
  <2> QED BY <1>2, <2>1, LookEffect, OneMoves DEF StepOf, database
<1>3. CASE Other(s)
  <2>0. pc' \in [Starts -> Chain \cup {"idle", "keys", "up", "refused", "failed", "dead"}]
    BY <1>3, OneMoves DEF StepOf
  <2>1. CASE Start(s)
    <3>1. overlapped' \subseteq Starts
      BY <2>1 DEF Start
    <3> QED BY <2>0, <2>1, <3>1 DEF Start, database, identity
  <2>2. CASE Begin(s)
    BY <1>0, <2>0, <2>2, BootAssumption DEF Begin, identity
  <2>3. CASE Commit(s)
    <3>1. migration[s] \in 1..Migrations
      BY <2>3 DEF Commit, Moves, ProgressInv, InTry
    <3> QED BY <1>0, <2>0, <2>3, <3>1, BootAssumption DEF Commit, Ends, identity
  <2>4. CASE Rollback(s) \/ CloseResources(s)
    <3>1. /\ UNCHANGED <<migration, statement, disk, wellFormed, clock, createdAt, runsAs,
                         overlapped>>
          /\ released' \subseteq Runtimes /\ open' \subseteq Runtimes
          /\ \A r \in open : r # Runtime[s] => r \in open'
      BY <1>0, <2>4 DEF Rollback, CloseResources, identity
    <3>2. /\ inTxn' = [inTxn EXCEPT ![Runtime[s]] = FALSE]
          /\ pending' = [pending EXCEPT ![Runtime[s]] = {}]
      BY <2>4 DEF Rollback, CloseResources, Ends
    <3> QED BY <1>0, <2>0, <3>1, <3>2
  <2> QED BY <1>3, <2>1, <2>2, <2>3, <2>4 DEF Other
<1> QED BY <1>1, <1>2, <1>3 DEF StepOf
-----------------------------------------------------------------------------
(* Transactions and migrations                                             *)

LEMMA TxnStep ==
  ASSUME Inv, NEW s \in Starts, StepOf(s)
  PROVE  TxnInv'
<1> USE DEF Inv, TypeOK
<1>0. /\ Runtime[s] \in Runtimes
      /\ \A t \in Starts : Runtime[t] \in Runtimes
      /\ \A t \in Starts \ {s} : Holds(t)' = Holds(t)
  BY OneMoves DEF Runtimes, Holds
<1>1. CASE Writing(s)
  <2>1. UNCHANGED <<inTxn, open>> /\ Holds(s)' = Holds(s)
    BY <1>1, WriteEffect DEF Writes, Holds, InTry
  <2> QED BY <1>0, <2>1 DEF TxnInv
<1>2. CASE Looking(s)
  <2>1. UNCHANGED <<inTxn, open>> /\ Holds(s)' = Holds(s)
    BY <1>2, LookEffect DEF database, Holds
  <2> QED BY <1>0, <2>1 DEF TxnInv
<1>3. CASE Start(s)
  <2>1. UNCHANGED <<inTxn, open>> /\ ~Holds(s)' /\ ~Holds(s)
    BY <1>3 DEF Start, Moves, database, Holds, InTry
  <2> QED BY <1>0, <2>1 DEF TxnInv
<1>4. CASE Begin(s)
  <2>1. /\ ~Holds(s) /\ Runtime[s] \in open /\ open' = open
        /\ Holds(s)' <=> ~inTxn[Runtime[s]]
        /\ inTxn' = [inTxn EXCEPT ![Runtime[s]] = TRUE]
    BY <1>4 DEF Begin, Moves, Holds, InTry
  <2> QED BY <1>0, <2>1 DEF TxnInv
<1>5. CASE Commit(s) \/ Rollback(s)
  <2>1. /\ Holds(s) /\ ~Holds(s)' /\ open' = open
        /\ inTxn' = [inTxn EXCEPT ![Runtime[s]] = FALSE]
    BY <1>5 DEF Commit, Rollback, Ends, Moves, Holds, InTry
  <2> QED BY <1>0, <2>1 DEF TxnInv
<1>6. CASE CloseResources(s)
  <2>1. /\ ~Holds(s) /\ ~Holds(s)' /\ open' = open \ {Runtime[s]}
        /\ inTxn' = [inTxn EXCEPT ![Runtime[s]] = FALSE]
    BY <1>6 DEF CloseResources, Ends, Moves, Holds, InTry
  <2> QED BY <1>0, <2>1 DEF TxnInv
<1> QED BY <1>1, <1>2, <1>3, <1>4, <1>5, <1>6 DEF StepOf, Other

LEMMA ProgressStep ==
  ASSUME Inv, NEW s \in Starts, StepOf(s)
  PROVE  ProgressInv'
<1> USE DEF Inv, TypeOK
<1> SUFFICES /\ pc'[s] \in InTry \cup {"begin"} => migration'[s] \in 1..Migrations
             /\ pc'[s] = "statement" => statement'[s] \in 1..Statements
             /\ pc'[s] \in {"record", "commit"} => statement'[s] = Statements + 1
  BY OneMoves DEF ProgressInv
<1>1. CASE Writing(s)
  BY <1>1, WriteEffect, BootAssumption DEF ProgressInv, InTry
<1>2. CASE Looking(s)
  <2>1. pc'[s] \notin InTry
    BY <1>2, LookEffect DEF Looking, Check, EnsureLocalIdentity, CreateLocalIdentity, Stamp,
                            Ready, Throws, Fails, Moves, InTry
  <2> QED BY <1>2, <2>1, LookEffect DEF InTry
<1>3. CASE Other(s)
  BY <1>3, BootAssumption DEF Other, Start, Begin, Commit, Rollback, CloseResources, Moves,
                              ProgressInv, InTry
<1> QED BY <1>1, <1>2, <1>3 DEF StepOf
\* What a step writes of the migrations: the table or the ledger row its start
\* has come to, and that only within the start's own transaction.
LEMMA WritingWithin ==
  ASSUME Inv, NEW s \in Starts, Writing(s)
  PROVE  LET r == Runtime[s] IN
         /\ r \in open /\ r \in Runtimes
         /\ UNCHANGED <<inTxn, open, migration>>
         /\ \A q \in Runtimes \ {r} : pending'[q] = pending[q]
         /\ Holds(s) => inTxn[r] /\ disk' = disk
         /\ \A m, k : /\ Table(m, k) \in disk' <=> Table(m, k) \in disk
                      /\ Applied(m) \in disk' <=> Applied(m) \in disk
         /\ \A m, k : Table(m, k) \in pending'[r] <=>
              \/ Table(m, k) \in pending[r]
              \/ pc[s] = "statement" /\ m = migration[s] /\ k = statement[s]
         /\ \A m : Applied(m) \in pending'[r] <=>
              \/ Applied(m) \in pending[r]
              \/ pc[s] = "record" /\ m = migration[s]
<1> USE DEF Inv, TypeOK
<1> DEFINE r == Runtime[s]
<1>0. r \in Runtimes
  BY DEF Runtimes
<1>1. PICK item \in Items :
        /\ Writes(r, item)
        /\ \/ item = Ledger \/ item \in {Key(s), Identity(s), Device(s)}
           \/ pc[s] = "statement" /\ item = Table(migration[s], statement[s])
           \/ pc[s] = "record" /\ item = Applied(migration[s])
        /\ pc[s] = "statement" => item = Table(migration[s], statement[s])
        /\ pc[s] = "record" => item = Applied(migration[s])
        /\ Holds(s) => pc[s] \in {"statement", "record"}
        /\ UNCHANGED migration
  BY WriteEffect DEF Holds, InTry
<1>2. /\ r \in open /\ UNCHANGED <<inTxn, open>>
      /\ IF inTxn[r] THEN pending' = [pending EXCEPT ![r] = @ \cup {item}] /\ disk' = disk
                     ELSE disk' = disk \cup {item} /\ pending' = pending
  BY <1>1 DEF Writes
<1>3. Holds(s) => inTxn[r]
  BY <1>2 DEF TxnInv
<1>4. pc[s] \in {"statement", "record"} => Holds(s)
  BY DEF Holds, InTry
<1>5. \A m, k : /\ item = Table(m, k) <=> pc[s] = "statement" /\ m = migration[s] /\ k = statement[s]
                /\ item = Applied(m) <=> pc[s] = "record" /\ m = migration[s]
  <2>1. CASE item = Ledger \/ item \in {Key(s), Identity(s), Device(s)}
    BY <1>1, <2>1, Distinct
  <2>2. CASE pc[s] = "statement" /\ item = Table(migration[s], statement[s])
    BY <2>2, Distinct
  <2>3. CASE pc[s] = "record" /\ item = Applied(migration[s])
    BY <2>3, Distinct
  <2>4. \/ (item = Ledger \/ item \in {Key(s), Identity(s), Device(s)})
        \/ pc[s] = "statement" /\ item = Table(migration[s], statement[s])
        \/ pc[s] = "record" /\ item = Applied(migration[s])
    BY ONLY <1>1
  <2> QED BY ONLY <2>1, <2>2, <2>3, <2>4, Zenon
<1>6. /\ \A q \in Runtimes \ {r} : pending'[q] = pending[q]
      /\ Holds(s) => inTxn[r] /\ disk' = disk
  BY <1>0, <1>2, <1>3
<1>7. pc[s] \in {"statement", "record"} => inTxn[r]
  BY <1>3, <1>4
<1>8. \A x : x \in disk' <=> x \in disk \/ (~inTxn[r] /\ x = item)
  BY <1>2
<1>9. \A x : x \in pending'[r] <=> x \in pending[r] \/ (inTxn[r] /\ x = item)
  BY <1>0, <1>2
<1>10. \A m, k : /\ Table(m, k) \in disk' <=> Table(m, k) \in disk
                 /\ Applied(m) \in disk' <=> Applied(m) \in disk
  BY ONLY <1>5, <1>7, <1>8
<1>11. /\ \A m, k : Table(m, k) \in pending'[r] <=>
             \/ Table(m, k) \in pending[r]
             \/ pc[s] = "statement" /\ m = migration[s] /\ k = statement[s]
       /\ \A m : Applied(m) \in pending'[r] <=>
             \/ Applied(m) \in pending[r]
             \/ pc[s] = "record" /\ m = migration[s]
  <2>1. \A m, k : Table(m, k) \in pending'[r] <=>
             \/ Table(m, k) \in pending[r]
             \/ pc[s] = "statement" /\ m = migration[s] /\ k = statement[s]
    BY ONLY <1>5, <1>7, <1>9
  <2>2. \A m : Applied(m) \in pending'[r] <=>
             \/ Applied(m) \in pending[r]
             \/ pc[s] = "record" /\ m = migration[s]
    BY ONLY <1>5, <1>7, <1>9
  <2> QED BY ONLY <2>1, <2>2
<1>12. r \in open /\ UNCHANGED <<inTxn, open, migration>>
  BY <1>1, <1>2
<1> HIDE DEF r
<1> QED BY <1>0, <1>6, <1>10, <1>11, <1>12, Zenon DEF r

LEMMA WrittenStep ==
  ASSUME Inv, NEW s \in Starts, StepOf(s)
  PROVE  WrittenInv'
<1> USE DEF Inv, TypeOK
<1>a. 1 \in 1..Statements
  BY BootAssumption
<1> SUFFICES ASSUME NEW t \in Starts, pc'[t] \in InTry, Runtime[t] \in open',
                    NEW m \in 1..Migrations, NEW k \in 1..Statements
             PROVE  /\ Table(m, k) \in pending'[Runtime[t]]
                         <=> m = migration'[t] /\ k < statement'[t]
                    /\ Applied(m) \in pending'[Runtime[t]]
                         <=> m = migration'[t] /\ pc'[t] = "commit"
  BY <1>a DEF WrittenInv
<1>0. /\ Runtime[s] \in Runtimes /\ Runtime[t] \in Runtimes
      /\ t # s => pc'[t] = pc[t] /\ migration'[t] = migration[t] /\ statement'[t] = statement[t]
  BY OneMoves DEF Runtimes
<1>1. ASSUME t # s, Runtime[t] \in open,
             /\ Table(m, k) \in pending'[Runtime[t]] <=> Table(m, k) \in pending[Runtime[t]]
             /\ Applied(m) \in pending'[Runtime[t]] <=> Applied(m) \in pending[Runtime[t]]
      PROVE  /\ Table(m, k) \in pending'[Runtime[t]]
                  <=> m = migration'[t] /\ k < statement'[t]
             /\ Applied(m) \in pending'[Runtime[t]]
                  <=> m = migration'[t] /\ pc'[t] = "commit"
  BY <1>0, <1>1 DEF WrittenInv
<1>2. Runtime[t] = Runtime[s] /\ t # s /\ Runtime[t] \in open => ~Holds(s)
  BY <1>0 DEF TxnInv, Holds
<1>3. CASE Writing(s)
  <2>1. CASE t = s
    <3>1. /\ migration'[s] = migration[s]
          /\ \/ /\ pc[s] = "statement"
                /\ pc'[s] = IF statement[s] < Statements THEN "statement" ELSE "record"
                /\ statement'[s] = statement[s] + 1
             \/ pc[s] = "record" /\ pc'[s] = "commit" /\ statement' = statement
      BY <1>3, <2>1, WriteEffect DEF InTry
    <3>2. /\ Table(m, k) \in pending[Runtime[s]] <=> m = migration[s] /\ k < statement[s]
          /\ Applied(m) \in pending[Runtime[s]] <=> m = migration[s] /\ pc[s] = "commit"
      BY <1>3, <2>1, <3>1, WritingWithin DEF WrittenInv, InTry
    <3>3. /\ Table(m, k) \in pending'[Runtime[s]] <=>
               \/ Table(m, k) \in pending[Runtime[s]]
               \/ pc[s] = "statement" /\ m = migration[s] /\ k = statement[s]
          /\ Applied(m) \in pending'[Runtime[s]] <=>
               \/ Applied(m) \in pending[Runtime[s]]
               \/ pc[s] = "record" /\ m = migration[s]
      BY <1>3, WritingWithin
    <3>4. statement[s] \in Nat /\ k \in Nat
      BY BootAssumption
    <3> QED BY <2>1, <3>1, <3>2, <3>3, <3>4
  <2>2. CASE t # s
    <3>1. Runtime[t] \in open
      BY <1>3, WritingWithin
    <3>2. /\ Table(m, k) \in pending'[Runtime[t]] <=> Table(m, k) \in pending[Runtime[t]]
          /\ Applied(m) \in pending'[Runtime[t]] <=> Applied(m) \in pending[Runtime[t]]
      BY <1>0, <1>2, <1>3, <2>2, <3>1, WritingWithin DEF Holds, InTry
    <3> QED BY <1>1, <2>2, <3>1, <3>2
  <2> QED BY <2>1, <2>2
<1>4. CASE Looking(s)
  <2>1. t # s
    BY <1>4, LookEffect DEF InTry
  <2> QED BY <1>1, <1>4, <2>1, LookEffect DEF database
<1>5. CASE Start(s)
  <2>1. t # s
    BY <1>5 DEF Start, Moves, InTry
  <2> QED BY <1>1, <1>5, <2>1 DEF Start, database
<1>6. CASE Begin(s)
  <2>1. CASE t = s
    <3>1. pc'[s] = "statement" /\ statement'[s] = 1 /\ pending'[Runtime[s]] = {}
      BY <1>0, <1>6, <2>1 DEF Begin, Moves, InTry
    <3> QED BY <2>1, <3>1
  <2>2. CASE t # s
    BY <1>1, <1>6, <2>2 DEF Begin
  <2> QED BY <2>1, <2>2
<1>7. CASE Commit(s) \/ Rollback(s)
  <2>1. t # s /\ open' = open /\ Holds(s)
    BY <1>7 DEF Commit, Rollback, Moves, Holds, InTry
  <2>2. Runtime[t] # Runtime[s]
    BY <1>2, <2>1
  <2> QED BY <1>1, <1>7, <2>1, <2>2 DEF Commit, Rollback, Ends
<1>8. CASE CloseResources(s)
  <2>1. t # s /\ Runtime[t] # Runtime[s] /\ Runtime[t] \in open
    BY <1>8 DEF CloseResources, Moves, InTry
  <2> QED BY <1>1, <1>8, <2>1 DEF CloseResources, Ends
<1> QED BY <1>3, <1>4, <1>5, <1>6, <1>7, <1>8 DEF StepOf, Other

LEMMA AtomicStep ==
  ASSUME Inv, NEW s \in Starts, StepOf(s)
  PROVE  MigrationsAreAtomic'
<1> USE DEF Inv, TypeOK
<1>1. CASE Writing(s)
  BY <1>1, WritingWithin DEF MigrationsAreAtomic
<1>2. CASE Commit(s)
  <2>1. /\ Runtime[s] \in Runtimes /\ pc[s] = "commit" /\ inTxn[Runtime[s]]
        /\ disk' = disk \cup pending[Runtime[s]]
    BY <1>2 DEF Commit, Moves, Runtimes
  <2>2. \A m \in 1..Migrations : \A k \in 1..Statements :
          /\ Table(m, k) \in pending[Runtime[s]] <=> m = migration[s]
          /\ Applied(m) \in pending[Runtime[s]] <=> m = migration[s]
    <3>1. Runtime[s] \in open /\ statement[s] = Statements + 1
      BY <2>1 DEF TxnInv, ProgressInv
    <3>2. \A k \in 1..Statements : k < Statements + 1
      BY BootAssumption
    <3> QED BY <2>1, <3>1, <3>2 DEF WrittenInv, InTry
  <2> QED BY <2>1, <2>2 DEF MigrationsAreAtomic
<1>3. CASE ~Writing(s) /\ ~Commit(s)
  <2>1. disk' = disk
    BY <1>3, LookEffect DEF StepOf, Other, database, Start, Begin, Rollback, CloseResources
  <2> QED BY <2>1 DEF MigrationsAreAtomic
<1> QED BY <1>1, <1>2, <1>3

-----------------------------------------------------------------------------
(* Identities and keys                                                     *)

LEMMA KeyStep ==
  ASSUME Inv, NEW s \in Starts, StepOf(s)
  PROVE  KeyInv'
<1> USE DEF Inv, TypeOK
<1>0. \A t \in Starts \ {s} : pc'[t] = pc[t]
  BY OneMoves
<1>1. CASE Writing(s)
  <2> DEFINE r == Runtime[s]
  <2>1. PICK item \in Items :
          /\ Writes(r, item)
          /\ \/ item = Identity(s) /\ pc[s] = "row" /\ pc'[s] = "device"
             \/ /\ item = Key(s) /\ pc[s] = "keys" /\ pc'[s] = "stamp" /\ LoopIsFree(s)
             \/ /\ \A t \in Starts : item # Identity(t)
                /\ pc'[s] \notin {"stamp", "row"}
    <3>1. PICK item \in Items :
            /\ Writes(r, item)
            /\ \/ item = Identity(s) /\ pc[s] = "row" /\ pc'[s] = "device"
               \/ /\ item = Key(s) /\ pc[s] = "keys" /\ pc'[s] = "stamp" /\ LoopIsFree(s)
               \/ /\ \/ item \in {Ledger, Device(s), Applied(migration[s])}
                     \/ item = Table(migration[s], statement[s])
                  /\ pc'[s] \notin {"stamp", "row"}
      BY <1>1, WriteEffect
    <3>2. \A t \in Starts :
            /\ Identity(t) \notin {Ledger, Device(s), Applied(migration[s])}
            /\ Identity(t) # Table(migration[s], statement[s])
      BY Distinct
    <3> QED BY <3>1, <3>2
  <2>2. /\ disk \subseteq disk' /\ disk' \subseteq disk \cup {item}
        /\ \A q \in Runtimes : pending'[q] \subseteq pending[q] \cup {item}
    BY <2>1 DEF Writes, Runtimes
  <2>3. CASE item = Identity(s) /\ pc[s] = "row" /\ pc'[s] = "device"
    <3>1. Key(s) \in disk
      BY <2>3 DEF KeyInv
    <3> QED BY <1>0, <2>2, <2>3, <3>1, Distinct DEF KeyInv
  <2>4. CASE item = Key(s) /\ pc[s] = "keys" /\ pc'[s] = "stamp" /\ LoopIsFree(s)
    <3>1. ~inTxn[r]
      BY <2>4, BootAssumption DEF TxnInv, Holds, LoopIsFree, Chain, Runtimes
    <3>2. Key(s) \in disk'
      BY <2>1, <2>4, <3>1 DEF Writes
    <3>3. \A t \in Starts : item # Identity(t)
      BY <2>4, Distinct
    <3> QED BY <1>0, <2>2, <3>2, <3>3 DEF KeyInv
  <2>5. CASE /\ \A t \in Starts : item # Identity(t)
             /\ pc'[s] \notin {"stamp", "row"}
    BY <1>0, <2>2, <2>5 DEF KeyInv
  <2> QED BY <2>1, <2>3, <2>4, <2>5
<1>2. CASE ~Writing(s)
  <2>1. pc'[s] \in {"stamp", "row"} => pc[s] \in {"stamp", "row"}
    BY <1>2 DEF StepOf, Looking, Check, EnsureLocalIdentity, CreateLocalIdentity, Stamp, Ready,
                Throws, Fails, Other, Start, Begin, Commit, Rollback, CloseResources, Moves
  <2>2. /\ disk \subseteq disk'
        /\ \A q \in Runtimes : pending'[q] \subseteq pending[q]
        /\ \A x \in disk' : x \in disk \/ \E q \in Runtimes : x \in pending[q]
    BY <1>2, LookEffect DEF StepOf, Other, Start, Begin, Commit, Rollback, CloseResources, Ends,
                            database, Runtimes
  <2> QED BY <1>0, <2>1, <2>2 DEF KeyInv
<1> QED BY <1>1, <1>2
-----------------------------------------------------------------------------
(* References that the value objects refuse                                *)

\* The key provider stays the same, and nothing is deleted from the file.
LEMMA RefusalStays ==
  ASSUME Inv, NEW s \in Starts, StepOf(s)
  PROVE  /\ wellFormed' = wellFormed
         /\ disk \subseteq disk'
         /\ \A t \in Starts : Refused(t) => Refused(t)'
<1>1. wellFormed' = wellFormed
  BY WriteEffect
     DEF StepOf, Looking, Check, EnsureLocalIdentity, CreateLocalIdentity, Stamp, Ready, Throws,
         Fails, Other, Start, Begin, Commit, Rollback, CloseResources, identity
<1>2. disk \subseteq disk'
  BY WriteEffect, LookEffect
     DEF StepOf, Other, Start, Begin, Commit, Rollback, CloseResources, Writes, database
<1> QED BY <1>1, <1>2 DEF Refused

LEMMA RefusalStep ==
  ASSUME Inv, NEW s \in Starts, StepOf(s)
  PROVE  RefusalInv'
<1> USE DEF Inv, TypeOK
<1> SUFFICES ASSUME ~wellFormed
             PROVE  /\ pc'[s] \notin {"row", "device", "ready", "up"}
                    /\ \A t \in Starts :
                         /\ Identity(t) \notin disk'
                         /\ \A r \in Runtimes : Identity(t) \notin pending'[r]
  BY OneMoves, RefusalStays DEF RefusalInv
<1>0. \A t \in Starts : /\ Identity(t) \notin disk
                        /\ \A r \in Runtimes : Identity(t) \notin pending[r]
  BY DEF RefusalInv
<1>1. pc[s] \notin {"row", "device", "ready", "up"}
  BY DEF RefusalInv
<1>2. CASE Writing(s)
  <2>1. PICK item \in Items : /\ Writes(Runtime[s], item)
                              /\ \A t \in Starts : item # Identity(t)
                              /\ pc'[s] \notin {"row", "device", "ready", "up"}
    <3>1. PICK item \in Items :
            /\ Writes(Runtime[s], item)
            /\ \/ item \in {Ledger, Key(s), Device(s), Applied(migration[s])}
               \/ item = Table(migration[s], statement[s])
            /\ pc'[s] \notin {"row", "device", "ready", "up"}
      BY <1>1, <1>2, WriteEffect
    <3>2. \A t \in Starts :
            /\ Identity(t) \notin {Ledger, Key(s), Device(s), Applied(migration[s])}
            /\ Identity(t) # Table(migration[s], statement[s])
      BY Distinct
    <3> QED BY <3>1, <3>2
  <2>2. /\ disk' \subseteq disk \cup {item}
        /\ \A q \in Runtimes : pending'[q] \subseteq pending[q] \cup {item}
    BY <2>1 DEF Writes, Runtimes
  <2> QED BY <1>0, <2>1, <2>2
<1>3. CASE ~Writing(s)
  <2>1. /\ \A q \in Runtimes : pending'[q] \subseteq pending[q]
        /\ \A x \in disk' : x \in disk \/ \E q \in Runtimes : x \in pending[q]
    BY <1>3, LookEffect DEF StepOf, Other, Start, Begin, Commit, Rollback, CloseResources, Ends,
                            database, Runtimes
  <2>2. CASE EnsureLocalIdentity(s)
    <3>1. Identities(Runtime[s]) = {}
      BY <1>0, OneMoves DEF Identities, Sees
    <3> QED BY <1>0, <2>1, <2>2, <3>1 DEF EnsureLocalIdentity, Moves
  <2>3. CASE ~EnsureLocalIdentity(s)
    <3>1. pc'[s] \notin {"row", "device", "ready", "up"}
      BY <1>1, <1>3, <2>3
         DEF StepOf, Looking, Check, CreateLocalIdentity, Stamp, Ready, Throws, Fails, Other,
             Start, Begin, Commit, Rollback, CloseResources, Moves
    <3> QED BY <1>0, <2>1, <3>1
  <2> QED BY <2>2, <2>3
<1> QED BY <1>2, <1>3

-----------------------------------------------------------------------------
(* Starts that met no other                                                *)

\* A statement that throws tells of another start.
LEMMA ThrowsInCompany ==
  ASSUME Inv, NEW s \in Starts, Pending(s), MayThrow(Runtime[s])
  PROVE  s \in overlapped
<1> USE DEF Inv
<1>1. CASE Runtime[s] \notin open
  BY <1>1 DEF LoneInv, Pending, Chain, InTry
<1>2. ASSUME NEW q \in Others(Runtime[s]), inTxn[q]
      PROVE  s \in overlapped
  <2>1. PICK t \in Starts : Runtime[t] = q /\ Holds(t)
    BY <1>2 DEF TxnInv, Others
  <2>2. t # s /\ Pending(t)
    BY <1>2, <2>1 DEF Others, Holds, Pending, Chain
  <2> QED BY <2>2 DEF LoneInv
<1> QED BY <1>1, <1>2 DEF MayThrow

\* A start that goes on was pending already; whoever is pending with it is
\* known to have met it.
LEMMA GoingOn ==
  ASSUME Inv, NEW s \in Starts, StepOf(s), ~Start(s)
  PROVE  /\ Pending(s) /\ pc[s] # "dead" /\ pc'[s] # "dead" /\ overlapped' = overlapped
         /\ \A t \in Starts \ {s} : Pending(t) => t \in overlapped
<1>1. Pending(s) /\ pc[s] # "dead" /\ pc'[s] # "dead" /\ overlapped' = overlapped
  <2>1. CASE Writing(s)
    BY <2>1, WriteEffect DEF Pending, Chain, InTry
  <2>2. CASE Looking(s)
    BY <2>2, LookEffect
       DEF Looking, Check, EnsureLocalIdentity, CreateLocalIdentity, Stamp, Ready, Throws,
           Fails, Moves, Pending, Chain, InTry, Inv, TypeOK
  <2>3. CASE Other(s)
    BY <2>3 DEF Other, Begin, Commit, Rollback, CloseResources, Moves, Pending, Chain, InTry,
                Inv, TypeOK
  <2> QED BY <2>1, <2>2, <2>3 DEF StepOf
<1> QED BY <1>1 DEF Inv, LoneInv

LEMMA LoneStep ==
  ASSUME Inv, NEW s \in Starts, StepOf(s)
  PROVE  LoneInv'
<1> USE DEF Inv, TypeOK
<1>0. /\ \A t \in Starts \ {s} : pc'[t] = pc[t] /\ migration'[t] = migration[t]
      /\ \A t \in Starts : Runtime[t] \in Runtimes
  BY OneMoves DEF Runtimes
<1>1. CASE Start(s)
  <2>1. /\ pc[s] = "idle"
        /\ \/ pc'[s] = "refused"
           \/ pc'[s] = "ledger" /\ Runtime[s] \notin released
        /\ UNCHANGED <<disk, pending, open, released, createdAt>>
        /\ overlapped \subseteq overlapped'
        /\ \A t \in Starts \ {s} : Pending(t) => s \in overlapped' /\ t \in overlapped'
    BY <1>1 DEF Start, Moves, database, identity
  <2>2. /\ \A t \in Starts \ {s} : Pending(t)' = Pending(t)
        /\ \A r \in Runtimes : Sees(r)' = Sees(r) /\ Identities(r)' = Identities(r)
    BY <1>0, <2>1 DEF Pending, Sees, Identities
  <2>3. \A t, u \in Starts : t # u /\ Pending(t)' /\ Pending(u)' => t \in overlapped'
    BY <2>1, <2>2 DEF LoneInv
  <2>4. \A t \in Starts : pc'[t] # "dead" /\ Runtime[t] \notin open' => Runtime[t] \in released'
    BY <1>0, <2>1 DEF LoneInv
  <2>5. \A t \in Starts : Pending(t)' /\ Runtime[t] \in released' => t \in overlapped'
    BY <2>1, <2>2 DEF LoneInv, Pending, Chain, InTry
  <2>6. /\ \A t \in Starts : pc'[t] = "rollback" => t \in overlapped'
        /\ \A t \in Starts : pc'[t] \in {"closing", "failed"} => t \in overlapped' \/ Refused(t)'
    BY <1>0, <1>1, <2>1, RefusalStays DEF LoneInv, StepOf, Other
  <2>7. \A t \in Starts : pc'[t] \in {"begin", "statement", "record"} /\ t \notin overlapped'
          => Applied(migration'[t]) \notin Sees(Runtime[t])'
    BY <1>0, <2>1, <2>2 DEF LoneInv
  <2>8. \A t \in Starts : pc'[t] = "create" /\ t \notin overlapped' => Identities(Runtime[t])' = {}
    BY <1>0, <2>1, <2>2 DEF LoneInv
  <2> QED BY <2>3, <2>4, <2>5, <2>6, <2>7, <2>8 DEF LoneInv
<1>2. CASE ~Start(s)
  <2>0. /\ Pending(s) /\ pc[s] # "dead" /\ overlapped' = overlapped
        /\ \A t \in Starts \ {s} : Pending(t) => t \in overlapped
        /\ \A t \in Starts \ {s} : Pending(t)' = Pending(t)
    BY <1>0, <1>2, GoingOn DEF Pending
  <2>1. \/ UNCHANGED <<open, released>>
        \/ /\ CloseResources(s)
           /\ open' = open \ {Runtime[s]} /\ released' = released \cup {Runtime[s]}
    BY <1>2, WriteEffect, LookEffect
       DEF StepOf, Other, Begin, Commit, Rollback, CloseResources, Writes, database
  <2>3. \A t, u \in Starts : t # u /\ Pending(t)' /\ Pending(u)' => t \in overlapped'
    BY <2>0 DEF LoneInv
  <2>4. \A t \in Starts : pc'[t] # "dead" /\ Runtime[t] \notin open' => Runtime[t] \in released'
    BY <1>0, <2>0, <2>1 DEF LoneInv
  <2>5. \A t \in Starts : Pending(t)' /\ Runtime[t] \in released' => t \in overlapped'
    <3>1. CloseResources(s) => ~Pending(s)'
      BY DEF CloseResources, Moves, Pending, Chain, InTry
    <3> QED BY <2>0, <2>1, <3>1 DEF LoneInv
  <2>6. /\ \A t \in Starts : pc'[t] = "rollback" => t \in overlapped'
        /\ \A t \in Starts : pc'[t] \in {"closing", "failed"} => t \in overlapped' \/ Refused(t)'
    <3>0. \A t \in Starts : Refused(t) => Refused(t)'
      BY RefusalStays
    <3> SUFFICES /\ pc'[s] = "rollback" => s \in overlapped
                 /\ pc'[s] \in {"closing", "failed"} => s \in overlapped \/ Refused(s)
      BY <1>0, <2>0, <3>0 DEF LoneInv
    <3>1. /\ pc[s] = "rollback" => s \in overlapped
          /\ pc[s] \in {"closing", "failed"} => s \in overlapped \/ Refused(s)
      BY DEF LoneInv
    <3>2. MayThrow(Runtime[s]) => s \in overlapped
      BY <2>0, ThrowsInCompany
    <3>3. CASE Writing(s)
      BY <3>3, WriteEffect
    <3>4. CASE Throws(s)
      <4>1. CASE pc[s] = "record" /\ Applied(migration[s]) \in Sees(Runtime[s])
        BY <4>1 DEF LoneInv
      <4>2. CASE pc[s] = "commit" /\ ~inTxn[Runtime[s]]
        <5>1. Runtime[s] \notin open
          BY <4>2 DEF TxnInv, Holds, InTry
        <5> QED BY <3>2, <5>1 DEF MayThrow
      <4> QED BY <3>2, <3>4, <4>1, <4>2 DEF Throws
    <3>5. CASE Fails(s)
      BY <3>2, <3>5 DEF Fails
    <3>6. CASE CreateLocalIdentity(s)
      BY <3>6 DEF LoneInv, CreateLocalIdentity, Moves
    <3>7. CASE Check(s) \/ EnsureLocalIdentity(s) \/ Ready(s) \/ Commit(s)
      BY <3>7 DEF Check, EnsureLocalIdentity, Ready, Commit, Moves
    <3>10. CASE Stamp(s)
      BY <3>10 DEF Stamp, Moves, KeyInv, Refused
    <3>8. CASE Begin(s)
      <4>1. ASSUME inTxn[Runtime[s]]
            PROVE  s \in overlapped
        <5>1. PICK t \in Starts : Holds(t)
          BY <1>0, <4>1 DEF TxnInv
        <5>2. t # s /\ Pending(t)
          BY <3>8, <5>1 DEF Begin, Moves, Holds, Pending, Chain, InTry
        <5> QED BY <2>0, <5>2 DEF LoneInv
      <4> QED BY <3>8, <4>1 DEF Begin, Moves
    <3>9. CASE Rollback(s) \/ CloseResources(s)
      BY <3>1, <3>9 DEF Rollback, CloseResources, Moves
    <3> QED BY <1>2, <3>3, <3>4, <3>5, <3>6, <3>7, <3>8, <3>9, <3>10 DEF StepOf, Looking, Other
  <2>7. \A t \in Starts : pc'[t] \in {"begin", "statement", "record"} /\ t \notin overlapped'
          => Applied(migration'[t]) \notin Sees(Runtime[t])'
    <3>1. ASSUME pc'[s] \in {"begin", "statement", "record"}, s \notin overlapped
          PROVE  Applied(migration'[s]) \notin Sees(Runtime[s])'
      <4>1. CASE Writing(s)
        <5>1. pc[s] = "statement"
          BY <3>1, <4>1, WriteEffect
        <5> QED BY <3>1, <4>1, <5>1, WritingWithin DEF LoneInv, Sees
      <4>2. CASE Check(s)
        BY <3>1, <4>2 DEF Check, Moves, Sees, database
      <4>3. CASE Begin(s)
        BY <3>1, <4>3 DEF Begin, Moves, Sees, LoneInv
      <4>4. CASE ~Writing(s) /\ ~Check(s) /\ ~Begin(s)
        BY <1>2, <3>1, <4>4
           DEF StepOf, Looking, EnsureLocalIdentity, CreateLocalIdentity, Stamp, Ready, Throws,
               Fails, Other, Commit, Rollback, CloseResources, Moves
      <4> QED BY <4>1, <4>2, <4>3, <4>4
    <3> QED BY <1>0, <2>0, <3>1 DEF Pending, Chain, InTry
  <2>8. \A t \in Starts : pc'[t] = "create" /\ t \notin overlapped' => Identities(Runtime[t])' = {}
    <3>1. ASSUME pc'[s] = "create", s \notin overlapped
          PROVE  Identities(Runtime[s])' = {}
      <4>1. EnsureLocalIdentity(s)
        BY <1>2, <3>1, WriteEffect
           DEF StepOf, Looking, Check, CreateLocalIdentity, Stamp, Ready, Throws, Fails, Other,
               Begin, Commit, Rollback, CloseResources, Moves
      <4> QED BY <3>1, <4>1 DEF EnsureLocalIdentity, Moves, Identities, Sees, database
    <3> QED BY <1>0, <2>0, <3>1 DEF Pending, Chain, InTry
  <2> QED BY <2>3, <2>4, <2>5, <2>6, <2>7, <2>8 DEF LoneInv
<1> QED BY <1>1, <1>2

-----------------------------------------------------------------------------
(* The invariant                                                           *)

LEMMA InitInv == Init => Inv
<1> SUFFICES ASSUME Init PROVE Inv
  OBVIOUS
<1>1. TypeOK
  BY BootAssumption DEF Init, TypeOK
<1>2. /\ TxnInv /\ ProgressInv /\ WrittenInv /\ MigrationsAreAtomic /\ KeyInv
      /\ RefusalInv /\ LoneInv
  BY DEF Init, TxnInv, Holds, InTry, ProgressInv, WrittenInv, MigrationsAreAtomic, KeyInv,
         RefusalInv, LoneInv, Pending, Chain, Runtimes
<1> QED BY <1>1, <1>2 DEF Inv

\* A process that crashes takes its starts, connections and transactions along.
LEMMA CrashKeepsInv ==
  ASSUME Inv, NEW p \in Processes, Crash(p)
  PROVE  Inv'
<1> USE DEF Inv, TypeOK
<1> DEFINE gone == {r \in Runtimes : \E s \in Starts : Process[s] = p /\ Runtime[s] = r}
<1>0. /\ pc' = [s \in Starts |-> IF Process[s] = p THEN "dead" ELSE pc[s]]
      /\ open' = open \ gone
      /\ inTxn' = [r \in Runtimes |-> inTxn[r] /\ r \notin gone]
      /\ pending' = [r \in Runtimes |-> IF r \in gone THEN {} ELSE pending[r]]
      /\ UNCHANGED <<migration, statement, disk, released, wellFormed, clock, createdAt, runsAs,
                     overlapped>>
  BY DEF Crash, identity
<1>1. \A s \in Starts : Runtime[s] \in Runtimes /\ (Runtime[s] \in gone <=> Process[s] = p)
  BY BootAssumption DEF Runtimes
<1> HIDE DEF gone
<1>2. TypeOK'
  BY <1>0
<1>3. TxnInv'
  <2>1. \A s \in Starts : Holds(s)' <=> Holds(s) /\ Runtime[s] \notin gone
    BY <1>0, <1>1 DEF Holds, InTry
  <2>2. \A r \in Runtimes : inTxn'[r] <=> inTxn[r] /\ r \notin gone
    BY <1>0
  <2>3. \A r \in Runtimes : r \in open' <=> r \in open /\ r \notin gone
    BY <1>0
  <2> HIDE DEF Inv
  <2>4. TxnInv /\ \A s \in Starts : Runtime[s] \in Runtimes
    BY <1>1 DEF Inv
  <2> QED BY <2>1, <2>2, <2>3, <2>4 DEF TxnInv
<1>4. ProgressInv'
  BY <1>0 DEF ProgressInv, InTry
<1>5. WrittenInv'
  BY <1>0, <1>1 DEF WrittenInv, InTry
<1>6. MigrationsAreAtomic' /\ KeyInv' /\ RefusalInv'
  BY <1>0 DEF MigrationsAreAtomic, KeyInv, RefusalInv
<1>7. LoneInv'
  <2>1. \A s \in Starts : pc'[s] # "dead" =>
          /\ pc'[s] = pc[s] /\ Runtime[s] \notin gone
          /\ Pending(s)' = Pending(s)
          /\ Sees(Runtime[s])' = Sees(Runtime[s])
          /\ Identities(Runtime[s])' = Identities(Runtime[s])
    BY <1>0, <1>1 DEF Pending, Sees, Identities
  <2>2. \A s \in Starts : Pending(s)' => pc'[s] # "dead"
    BY DEF Pending, Chain, InTry
  <2>3. /\ open' = open \ gone
        /\ UNCHANGED <<migration, released, overlapped>>
        /\ \A s \in Starts : Refused(s)' <=> Refused(s)
    BY <1>0 DEF Refused
  <2> HIDE DEF Inv
  <2>4. LoneInv
    BY DEF Inv
  <2>5. /\ \A s, t \in Starts : s # t /\ Pending(s)' /\ Pending(t)' => s \in overlapped'
        /\ \A s \in Starts : Pending(s)' /\ Runtime[s] \in released' => s \in overlapped'
    BY <2>1, <2>2, <2>3, <2>4 DEF LoneInv
  <2>6. /\ \A s \in Starts : pc'[s] # "dead" /\ Runtime[s] \notin open' => Runtime[s] \in released'
        /\ \A s \in Starts : pc'[s] = "rollback" => s \in overlapped'
        /\ \A s \in Starts : pc'[s] \in {"closing", "failed"} => s \in overlapped' \/ Refused(s)'
    BY <2>1, <2>3, <2>4 DEF LoneInv
  <2>7. \A s \in Starts : pc'[s] \in {"begin", "statement", "record"} /\ s \notin overlapped'
          => Applied(migration'[s]) \notin Sees(Runtime[s])'
    BY <2>1, <2>3, <2>4 DEF LoneInv
  <2>8. \A s \in Starts : pc'[s] = "create" /\ s \notin overlapped' => Identities(Runtime[s])' = {}
    BY <2>1, <2>3, <2>4 DEF LoneInv
  <2> QED BY <2>5, <2>6, <2>7, <2>8 DEF LoneInv
<1> QED BY <1>2, <1>3, <1>4, <1>5, <1>6, <1>7

LEMMA InvStep == Inv /\ [Next]_vars => Inv'
<1> SUFFICES ASSUME Inv, [Next]_vars PROVE Inv'
  OBVIOUS
<1>1. ASSUME NEW s \in Starts, StepOf(s)
      PROVE  Inv'
  BY <1>1, TypeStep, TxnStep, ProgressStep, WrittenStep, AtomicStep, KeyStep,
     RefusalStep, LoneStep DEF Inv
<1>2. CASE UNCHANGED vars
  <2>1. UNCHANGED <<pc, migration, statement, disk, inTxn, pending, open, released, wellFormed,
                    clock, createdAt, runsAs, overlapped>>
    BY <1>2 DEF vars, database, identity
  <2>2. TypeOK' /\ TxnInv' /\ ProgressInv' /\ WrittenInv'
    BY <2>1 DEF Inv, TypeOK, TxnInv, Holds, ProgressInv, WrittenInv
  <2>3. MigrationsAreAtomic' /\ KeyInv' /\ RefusalInv' /\ LoneInv'
    BY <2>1 DEF Inv, MigrationsAreAtomic, KeyInv, RefusalInv, LoneInv, Refused, Pending, Sees,
                Identities
  <2> QED BY <2>2, <2>3 DEF Inv
<1> QED BY <1>1, <1>2, CrashKeepsInv DEF Next, StepOf, Writing, Looking, Other

\* The invariant of the module as a whole.
THEOREM InvCorrect == Spec => []Inv
BY InitInv, InvStep, PTL DEF Spec

\* The type invariant of the boot.
THEOREM TypeCorrect == Spec => []TypeOK
<1>1. Inv => TypeOK
  BY DEF Inv
<1> QED BY <1>1, InvCorrect, PTL

\* For any number of migrations and statements, starts, runtimes and
\* processes: a migration is in the file as a whole, ledger row included, or
\* not at all.
THEOREM MigrationsAreAtomicCorrect == Spec => []MigrationsAreAtomic
<1>1. Inv => MigrationsAreAtomic
  BY DEF Inv
<1> QED BY <1>1, InvCorrect, PTL

\* Every identity in the database has its key in the vault: the key record is
\* written by itself, for no transaction is open while the event loop is free.
THEOREM IdentityHasKeyCorrect == Spec => []IdentityHasKey
<1>1. Inv => IdentityHasKey
  BY DEF Inv, KeyInv, IdentityHasKey
<1> QED BY <1>1, InvCorrect, PTL

\* Only a start that was pending beside another fails, or one whose key provider's
\* references are refused; and where they are, no start ever succeeds.
THEOREM LoneFailureIsRefusalCorrect == Spec => []LoneFailureIsRefusal
<1>1. Inv => LoneFailureIsRefusal
  BY DEF Inv, LoneInv, RefusalInv, Refused, LoneFailureIsRefusal
<1> QED BY <1>1, InvCorrect, PTL

-----------------------------------------------------------------------------
(* The identity a daemon runs as: the invariant of what is made.           *)

\* The connection is open and no start is about to close it: what it has seen
\* is not lost.
Sound(r) == r \in open /\ \A t \in Starts : Runtime[t] = r => pc[t] # "closing"

\* What a start has come past is applied, in the file or in a transaction.
PassedInv ==
  \A s \in Starts :
    /\ Sound(Runtime[s]) =>
         \A m \in 1..Migrations : m < migration[s] => Applied(m) \in Sees(Runtime[s])
    /\ pc[s] \in {"local", "create", "keys"} => migration[s] = Migrations + 1

\* One start of a process makes an identity at a time, when no transaction is
\* open on its connection and none will be.
MakingInv ==
  \A s \in Starts : pc[s] \in {"stamp", "row"} =>
    /\ \A m \in 1..Migrations : Applied(m) \in disk
    /\ \A t \in Starts : Runtime[t] = Runtime[s] => ~ Holds(t) /\ pc[t] # "begin"
    /\ \A t \in Starts \ {s} : Process[t] = Process[s] => pc[t] \notin {"stamp", "row"}

Made == {s \in Starts : Identity(s) \in disk}

\* Identities go straight to the file, those of a process in the order in which
\* they are made, and a start that runs has found or made one.
MadeInv ==
  /\ \A s \in Starts : \A r \in Runtimes : Identity(s) \notin pending[r]
  /\ \A s \in Made : /\ createdAt[s] > 0
                     /\ pc[s] \in {"device", "ready", "up", "closing", "failed", "dead"}
  /\ \A s, t \in Starts : createdAt[s] = createdAt[t] /\ createdAt[s] > 0 => s = t
  /\ \A s \in Starts : pc[s] = "row" =>
       /\ createdAt[s] > 0
       /\ \A t \in Made : Process[t] = Process[s] => createdAt[t] < createdAt[s]
  /\ \A s \in Starts : pc[s] \in {"device", "ready", "up"} => Made # {}

RunsInv == PassedInv /\ MakingInv /\ MadeInv /\ RunsAsLocal

-----------------------------------------------------------------------------
(* The earliest of the identities.                                         *)

Least(S, c) == CHOOSE s \in S : \A t \in S : c[s] <= c[t]

LEMMA LeastIs ==
  ASSUME NEW S \in SUBSET Starts, NEW c \in [Starts -> Nat],
         \A s, t \in S : c[s] = c[t] => s = t,
         NEW x \in S, \A t \in S : c[x] <= c[t]
  PROVE  Least(S, c) = x
<1> DEFINE y == Least(S, c)
<1>1. y \in S /\ \A t \in S : c[y] <= c[t]
  BY DEF Least
<1> HIDE DEF y
<1>2. c[y] \in Nat /\ c[x] \in Nat
  BY <1>1
<1>3. c[y] = c[x]
  BY <1>1, <1>2
<1> QED BY <1>1, <1>3 DEF y

LEMMA LeastExists ==
  ASSUME NEW S \in SUBSET Starts, NEW c \in [Starts -> Nat], S # {}
  PROVE  \E x \in S : \A t \in S : c[x] <= c[t]
<1> DEFINE times == {c[s] : s \in S}
<1>1. times \subseteq Nat /\ times # {}
  OBVIOUS
<1>2. PICK x \in times : \A y \in times : x <= y
  BY <1>1, EarliestTime
<1> QED BY <1>2

\* getLocal sees the same identities on every connection.
LEMMA LocalIsLeast ==
  ASSUME MadeInv, NEW r \in Runtimes
  PROVE  /\ Identities(r) = Made
         /\ Local(r) = IF Made = {} THEN None ELSE Least(Made, createdAt)
<1>1. Identities(r) = Made
  BY DEF MadeInv, Identities, Made, Sees
<1> QED BY <1>1 DEF Local, Least

-----------------------------------------------------------------------------
(* What has been passed                                                    *)

LEMMA SeesStep ==
  ASSUME Inv, NEW s \in Starts, StepOf(s), NEW r \in Runtimes, Sound(r)'
  PROVE  Sound(r) /\ disk \subseteq disk' /\ Sees(r) \subseteq Sees(r)'
<1> USE DEF Inv, TypeOK
<1>0. /\ Runtime[s] \in Runtimes
      /\ \A t \in Starts \ {s} : pc'[t] = pc[t]
  BY OneMoves
<1>1. CASE Writing(s)
  <2>1. PICK item \in Items : Writes(Runtime[s], item)
    BY <1>1, WriteEffect
  <2>2. pc[s] # "closing"
    BY <1>1, WriteEffect
  <2>3. Sound(r)
    BY <1>0, <2>1, <2>2 DEF Sound, Writes
  <2> QED BY <1>0, <2>1, <2>3 DEF Writes, Sees
<1>2. CASE Looking(s)
  <2>1. pc[s] # "closing"
    BY <1>2 DEF Looking, Check, EnsureLocalIdentity, CreateLocalIdentity, Stamp, Ready,
                Throws, Fails, Moves, InTry
  <2>2. UNCHANGED <<disk, pending, open>>
    BY <1>2, LookEffect DEF database
  <2> QED BY <1>0, <2>1, <2>2 DEF Sound, Sees
<1>3. CASE Start(s) \/ Begin(s)
  <2>1. pc[s] # "closing" /\ UNCHANGED <<disk, pending, open>>
    BY <1>3 DEF Start, Begin, Moves, database
  <2> QED BY <1>0, <2>1 DEF Sound, Sees
<1>4. CASE Commit(s)
  <2>1. /\ pc[s] # "closing" /\ open' = open
        /\ disk' = disk \cup pending[Runtime[s]]
        /\ \A q \in Runtimes \ {Runtime[s]} : pending'[q] = pending[q]
    BY <1>0, <1>4 DEF Commit, Ends, Moves
  <2> QED BY <1>0, <2>1 DEF Sound, Sees
<1>5. CASE Rollback(s) \/ CloseResources(s)
  <2>1. /\ disk' = disk /\ open' \subseteq open
        /\ \A q \in Runtimes \ {Runtime[s]} : pending'[q] = pending[q]
        /\ pc'[s] = "closing" \/ Runtime[s] \notin open'
    BY <1>0, <1>5 DEF Rollback, CloseResources, Ends, Moves
  <2>2. r # Runtime[s]
    BY <2>1 DEF Sound
  <2> QED BY <1>0, <2>1, <2>2 DEF Sound, Sees
<1> QED BY <1>1, <1>2, <1>3, <1>4, <1>5 DEF StepOf, Other

LEMMA PassedStep ==
  ASSUME Inv, PassedInv, NEW s \in Starts, StepOf(s)
  PROVE  PassedInv'
<1> USE DEF Inv, TypeOK
<1>0. /\ \A t \in Starts \ {s} : pc'[t] = pc[t] /\ migration'[t] = migration[t]
      /\ \A t \in Starts : Runtime[t] \in Runtimes
  BY OneMoves DEF Runtimes
<1>1. ASSUME NEW t \in Starts, Sound(Runtime[t])', NEW m \in 1..Migrations, m < migration'[t]
      PROVE  Applied(m) \in Sees(Runtime[t])'
  <2>1. Sound(Runtime[t]) /\ Sees(Runtime[t]) \subseteq Sees(Runtime[t])'
    BY <1>0, <1>1, SeesStep
  <2>2. CASE m < migration[t]
    BY <2>1, <2>2 DEF PassedInv
  <2>3. CASE ~ (m < migration[t])
    <3>1. t = s /\ (Check(s) \/ Commit(s))
      BY <1>0, <1>1, <2>3, WriteEffect
         DEF StepOf, Looking, EnsureLocalIdentity, CreateLocalIdentity, Stamp, Ready, Throws,
             Fails, Other, Start, Begin, Rollback, CloseResources
    <3>2. CASE Check(s)
      BY <1>1, <2>1, <2>3, <3>1, <3>2 DEF Check
    <3>3. CASE Commit(s)
      <4>1. m = migration[s] /\ pc[s] = "commit"
        BY <1>1, <2>3, <3>1, <3>3 DEF Commit, Moves
      <4>2. Applied(m) \in pending[Runtime[s]]
        BY <2>1, <3>1, <4>1 DEF Sound, WrittenInv, InTry
      <4> QED BY <2>1, <3>1, <4>2 DEF Sees
    <3> QED BY <3>1, <3>2, <3>3
  <2> QED BY <2>2, <2>3
<1>2. ASSUME NEW t \in Starts, pc'[t] \in {"local", "create", "keys"}
      PROVE  migration'[t] = Migrations + 1
  <2>1. CASE t # s
    BY <1>0, <1>2, <2>1 DEF PassedInv
  <2>2. CASE t = s
    <3>1. Check(s) \/ EnsureLocalIdentity(s) \/ CreateLocalIdentity(s)
      BY <1>2, <2>2, WriteEffect
         DEF StepOf, Looking, Stamp, Ready, Throws, Fails, Other, Start, Begin, Commit,
             Rollback, CloseResources, Moves
    <3>2. CASE Check(s)
      BY <1>2, <2>2, <3>2, BootAssumption DEF Check, Moves
    <3>3. CASE EnsureLocalIdentity(s) \/ CreateLocalIdentity(s)
      BY <1>2, <2>2, <3>3 DEF EnsureLocalIdentity, CreateLocalIdentity, Moves, PassedInv
    <3> QED BY <3>1, <3>2, <3>3
  <2> QED BY <2>1, <2>2
<1> QED BY <1>1, <1>2 DEF PassedInv

-----------------------------------------------------------------------------
(* Making an identity                                                      *)

\* The key is written when the event loop is free: nobody of the process is in
\* a transaction, and every migration is in the file.
LEMMA KeyEffect ==
  ASSUME Inv, PassedInv, NEW s \in Starts, GenerateIdentity(s)
  PROVE  /\ pc[s] = "keys" /\ pc'[s] = "stamp"
         /\ \A t \in Starts : Process[t] = Process[s] => pc[t] \notin Chain
         /\ \A m \in 1..Migrations : Applied(m) \in disk
<1> USE DEF Inv, TypeOK
<1> DEFINE r == Runtime[s]
<1>1. /\ pc[s] = "keys" /\ pc'[s] = "stamp" /\ r \in Runtimes /\ r \in open
      /\ \A t \in Starts : Process[t] = Process[s] => pc[t] \notin Chain
  BY DEF GenerateIdentity, Moves, Writes, LoopIsFree, Runtimes
<1>2. \A t \in Starts : Runtime[t] = r => pc[t] \notin Chain
  BY <1>1, BootAssumption
<1>3. Sound(r)
  BY <1>1, <1>2 DEF Sound, Chain
<1>4. \A m \in 1..Migrations : Applied(m) \in Sees(r)
  BY <1>1, <1>3, BootAssumption DEF PassedInv
<1>5. ~ inTxn[r]
  BY <1>1, <1>2 DEF TxnInv, Holds, Chain
<1>6. pending[r] = {}
  BY <1>1, <1>5
<1> QED BY <1>1, <1>4, <1>6 DEF Sees

LEMMA MakingStep ==
  ASSUME Inv, PassedInv, MakingInv, NEW s \in Starts, StepOf(s)
  PROVE  MakingInv'
<1> USE DEF Inv, TypeOK
<1>0. \A t \in Starts \ {s} : pc'[t] = pc[t] /\ Holds(t)' = Holds(t)
  BY OneMoves DEF Holds
<1>1. disk \subseteq disk'
  BY WriteEffect, LookEffect
     DEF StepOf, Writes, Other, Start, Begin, Commit, Rollback, CloseResources, database
<1>2. pc'[s] = "row" => pc[s] = "stamp"
  BY WriteEffect
     DEF StepOf, Looking, Check, EnsureLocalIdentity, CreateLocalIdentity, Stamp, Ready,
         Throws, Fails, Other, Start, Begin, Commit, Rollback, CloseResources, Moves
<1>3. pc'[s] = "stamp" => GenerateIdentity(s)
  BY DEF StepOf, Writing, CreateLedger, Execute, Record, SaveIdentity, SaveDevice,
         Looking, Check, EnsureLocalIdentity, CreateLocalIdentity, Stamp, Ready,
         Throws, Fails, Other, Start, Begin, Commit, Rollback, CloseResources, Moves
<1>4. CASE GenerateIdentity(s)
  <2>1. /\ pc'[s] = "stamp"
        /\ \A t \in Starts : Process[t] = Process[s] => pc[t] \notin Chain
        /\ \A m \in 1..Migrations : Applied(m) \in disk
    BY <1>4, KeyEffect
  <2>2. \A t \in Starts : Process[t] = Process[s] => ~ Holds(t)' /\ pc'[t] # "begin"
    BY <1>0, <2>1 DEF Holds, Chain, InTry
  <2>3. \A t \in Starts \ {s} : Process[t] = Process[s] => pc'[t] \notin {"stamp", "row"}
    BY <1>0, <2>1 DEF Chain
  <2>4. ASSUME NEW u \in Starts, pc'[u] \in {"stamp", "row"}
        PROVE  /\ \A m \in 1..Migrations : Applied(m) \in disk'
               /\ \A t \in Starts : Runtime[t] = Runtime[u] => ~ Holds(t)' /\ pc'[t] # "begin"
               /\ \A t \in Starts \ {u} : Process[t] = Process[u] => pc'[t] \notin {"stamp", "row"}
    <3>1. CASE u = s
      BY <1>1, <2>1, <2>2, <2>3, <3>1, BootAssumption
    <3>2. CASE u # s
      <4>1. pc[u] \in {"stamp", "row"} /\ Process[u] # Process[s]
        BY <1>0, <2>3, <2>4, <3>2
      <4>2. Runtime[u] # Runtime[s]
        BY <4>1, BootAssumption
      <4> QED BY <1>0, <1>1, <4>1, <4>2 DEF MakingInv
    <3> QED BY <3>1, <3>2
  <2> QED BY <2>4 DEF MakingInv
<1>5. CASE ~ GenerateIdentity(s)
  <2>1. \A t \in Starts : pc'[t] \in {"stamp", "row"} => pc[t] \in {"stamp", "row"}
    BY <1>0, <1>2, <1>3, <1>5
  <2>2. ASSUME NEW u \in Starts, pc[u] \in {"stamp", "row"}, Runtime[u] = Runtime[s]
        PROVE  ~ Holds(s)' /\ pc'[s] # "begin"
    <3>1. /\ \A m \in 1..Migrations : Applied(m) \in Sees(Runtime[s])
          /\ ~ Holds(s) /\ pc[s] # "begin"
      BY <2>2 DEF MakingInv, Sees
    <3>2. CASE Writing(s)
      BY <3>1, <3>2, WriteEffect DEF Holds, InTry
    <3>3. CASE Check(s)
      BY <3>1, <3>3, BootAssumption DEF Check, Moves, Holds, InTry
    <3>4. CASE ~ Writing(s) /\ ~ Check(s)
      BY <3>1, <3>4
         DEF StepOf, Looking, EnsureLocalIdentity, CreateLocalIdentity, Stamp, Ready,
             Throws, Fails, Other, Start, Begin, Commit, Rollback, CloseResources, Moves,
             Holds, InTry
    <3> QED BY <3>2, <3>3, <3>4
  <2> QED BY <1>0, <1>1, <2>1, <2>2 DEF MakingInv
<1> QED BY <1>4, <1>5

-----------------------------------------------------------------------------
(* What is made                                                            *)

\* Only the save of an identity adds one, and it adds it to the file.
LEMMA MadeEffect ==
  ASSUME Inv, MakingInv, MadeInv, NEW s \in Starts, StepOf(s)
  PROVE  /\ \A t \in Starts : \A r \in Runtimes : Identity(t) \notin pending'[r]
         /\ SaveIdentity(s) => Made' = Made \cup {s}
         /\ ~ SaveIdentity(s) => Made' = Made
<1> USE DEF Inv, TypeOK
<1> DEFINE r == Runtime[s]
<1>0. r \in Runtimes
  BY OneMoves
<1>1. CASE SaveIdentity(s)
  <2>1. pc[s] = "row" /\ Writes(r, Identity(s))
    BY <1>1 DEF SaveIdentity, Moves
  <2>2. ~ inTxn[r]
    BY <1>0, <2>1 DEF TxnInv, MakingInv
  <2>3. disk' = disk \cup {Identity(s)} /\ pending' = pending
    BY <2>1, <2>2 DEF Writes
  <2>4. \A t \in Starts : Identity(t) = Identity(s) <=> t = s
    BY Distinct
  <2> QED BY <1>1, <2>3, <2>4 DEF MadeInv, Made
<1>2. CASE Writing(s) /\ ~ SaveIdentity(s)
  <2>1. pc[s] # "row"
    BY <1>2 DEF Writing, CreateLedger, Execute, Record, GenerateIdentity, SaveDevice, Moves
  <2>2. PICK item \in Items :
          /\ Writes(r, item)
          /\ \/ item \in {Ledger, Table(migration[s], statement[s])}
             \/ item \in {Applied(migration[s]), Key(s), Device(s)}
    BY <1>2, <2>1, WriteEffect
  <2>3. \A t \in Starts : item # Identity(t)
    BY <2>2, Distinct
  <2>4. \A t \in Starts : Identity(t) \in disk' <=> Identity(t) \in disk
    BY <2>2, <2>3 DEF Writes
  <2>5. \A t \in Starts : \A q \in Runtimes : Identity(t) \notin pending'[q]
    BY <1>0, <2>2, <2>3 DEF Writes, MadeInv
  <2> QED BY <1>2, <2>4, <2>5 DEF Made
<1>3. CASE Looking(s) \/ Start(s) \/ Begin(s)
  <2>1. UNCHANGED <<disk, pending>>
    BY <1>3, LookEffect DEF Start, Begin, database
  <2>2. ~ SaveIdentity(s)
    BY <1>3 DEF SaveIdentity, Looking, Check, EnsureLocalIdentity, CreateLocalIdentity, Stamp,
                Ready, Throws, Fails, Start, Begin, Moves, InTry
  <2> QED BY <2>1, <2>2 DEF MadeInv, Made
<1>4. CASE Commit(s) \/ Rollback(s) \/ CloseResources(s)
  <2>1. /\ disk' = disk \/ disk' = disk \cup pending[r]
        /\ pending' = [pending EXCEPT ![r] = {}]
        /\ ~ SaveIdentity(s)
    BY <1>4 DEF Commit, Rollback, CloseResources, Ends, SaveIdentity, Moves
  <2> QED BY <1>0, <2>1 DEF MadeInv, Made
<1> QED BY <1>1, <1>2, <1>3, <1>4 DEF StepOf, Other, Writing

\* Only a stamp changes when an identity was created.
LEMMA TimeEffect ==
  ASSUME Inv, NEW s \in Starts, StepOf(s)
  PROVE  /\ \A t \in Starts \ {s} : createdAt'[t] = createdAt[t]
         /\ createdAt'[s] = IF pc[s] = "stamp" /\ Stamp(s) THEN clock + 1 ELSE createdAt[s]
         /\ \A t \in Starts : createdAt[t] \in Nat /\ createdAt[t] < clock + 1
<1> USE DEF Inv, TypeOK
<1>1. \A t \in Starts : createdAt[t] \in Nat /\ createdAt[t] < clock + 1
  OBVIOUS
<1>2. CASE Stamp(s)
  BY <1>1, <1>2 DEF Stamp, Moves
<1>3. CASE ~ Stamp(s)
  <2>1. createdAt' = createdAt
    BY <1>3, WriteEffect
       DEF StepOf, Looking, Check, EnsureLocalIdentity, CreateLocalIdentity, Ready, Throws,
           Fails, Other, Start, Begin, Commit, Rollback, CloseResources, identity
  <2> QED BY <1>1, <1>3, <2>1
<1> QED BY <1>2, <1>3

LEMMA MadeStep ==
  ASSUME Inv, MakingInv, MadeInv, NEW s \in Starts, StepOf(s)
  PROVE  MadeInv'
<1> USE DEF Inv, TypeOK
<1>0. \A t \in Starts \ {s} : pc'[t] = pc[t]
  BY OneMoves
<1>1. /\ \A t \in Starts : \A r \in Runtimes : Identity(t) \notin pending'[r]
      /\ Made \subseteq Made'
      /\ \A t \in Made' : t \in Made \/ (t = s /\ SaveIdentity(s))
  BY MadeEffect
<1>2. Stamp(s) => s \notin Made
  BY DEF Stamp, Moves, MadeInv
<1>3. SaveIdentity(s) => pc[s] = "row" /\ pc'[s] = "device" /\ createdAt[s] > 0
  BY DEF SaveIdentity, Moves, MadeInv
<1>4. \A t \in Made' : createdAt'[t] = createdAt[t] /\ createdAt'[t] > 0 /\ t \in Starts
  <2>1. SaveIdentity(s) => ~ Stamp(s)
    BY DEF SaveIdentity, Stamp, Moves
  <2>2. \A t \in Made : t \in Starts /\ createdAt[t] > 0
    BY DEF MadeInv, Made
  <2> QED BY <1>1, <1>2, <1>3, <2>1, <2>2, TimeEffect
<1>5. \A t \in Made' : pc'[t] \in {"device", "ready", "up", "closing", "failed", "dead"}
  <2>1. ASSUME s \in Made
        PROVE  pc'[s] \in {"device", "ready", "up", "closing", "failed", "dead"}
    <3>1. pc[s] \in {"device", "ready", "up", "closing", "failed", "dead"}
      BY <2>1 DEF MadeInv
    <3>2. CASE Writing(s)
      BY <3>1, <3>2, WriteEffect
    <3>3. CASE Looking(s)
      BY <3>1, <3>3 DEF Looking, Check, EnsureLocalIdentity, CreateLocalIdentity, Stamp, Ready,
                        Throws, Fails, Moves, InTry
    <3>4. CASE Other(s)
      BY <3>1, <3>4 DEF Other, Start, Begin, Commit, Rollback, CloseResources, Moves
    <3> QED BY <3>2, <3>3, <3>4 DEF StepOf
  <2> QED BY <1>0, <1>1, <1>3, <1>4, <2>1 DEF MadeInv
<1>6. \A t, u \in Starts : createdAt'[t] = createdAt'[u] /\ createdAt'[t] > 0 => t = u
  BY TimeEffect DEF MadeInv
<1>7. ASSUME NEW t \in Starts, pc'[t] = "row"
      PROVE  /\ createdAt'[t] > 0
             /\ \A u \in Made' : Process[u] = Process[t] => createdAt'[u] < createdAt'[t]
  <2>1. CASE t = s
    <3>1. Stamp(s)
      BY <1>7, <2>1, WriteEffect
         DEF StepOf, Looking, Check, EnsureLocalIdentity, CreateLocalIdentity, Ready, Throws,
             Fails, Other, Start, Begin, Commit, Rollback, CloseResources, Moves
    <3>2. createdAt'[s] = clock + 1
      BY <3>1, TimeEffect DEF Stamp, Moves
    <3>3. ~ SaveIdentity(s)
      BY <3>1 DEF SaveIdentity, Stamp, Moves
    <3> QED BY <1>1, <1>2, <1>4, <2>1, <3>1, <3>2, <3>3, TimeEffect
  <2>2. CASE t # s
    <3>1. pc[t] = "row" /\ createdAt'[t] = createdAt[t] /\ createdAt[t] > 0
      BY <1>0, <1>7, <2>2, TimeEffect DEF MadeInv
    <3>2. SaveIdentity(s) => Process[s] # Process[t]
      BY <1>3, <2>2, <3>1 DEF MakingInv
    <3> QED BY <1>1, <1>4, <3>1, <3>2 DEF MadeInv
  <2> QED BY <2>1, <2>2
<1>8. ASSUME NEW t \in Starts, pc'[t] \in {"device", "ready", "up"}
      PROVE  Made' # {}
  <2>1. CASE t # s
    BY <1>0, <1>1, <1>8, <2>1 DEF MadeInv
  <2>2. CASE t = s
    <3>1. CASE SaveIdentity(s)
      BY <3>1, MadeEffect
    <3>2. CASE EnsureLocalIdentity(s)
      <4>1. Identities(Runtime[s]) # {}
        BY <1>8, <2>2, <3>2 DEF EnsureLocalIdentity, Moves
      <4>2. Runtime[s] \in Runtimes
        BY OneMoves
      <4> QED BY <1>1, <4>1, <4>2, LocalIsLeast
    <3>3. CASE ~ SaveIdentity(s) /\ ~ EnsureLocalIdentity(s)
      <4>1. pc[s] \in {"device", "ready"}
        BY <1>8, <2>2, <3>3
           DEF StepOf, Writing, CreateLedger, Execute, Record, GenerateIdentity, SaveDevice,
               Looking, Check, CreateLocalIdentity, Stamp, Ready, Throws, Fails,
               Other, Start, Begin, Commit, Rollback, CloseResources, Moves
      <4> QED BY <1>1, <4>1 DEF MadeInv
    <3> QED BY <3>1, <3>2, <3>3
  <2> QED BY <2>1, <2>2
<1> QED BY <1>1, <1>4, <1>5, <1>6, <1>7, <1>8 DEF MadeInv

-----------------------------------------------------------------------------
(* The identity that getLocal returns stays the same                       *)

RunsAsLeast ==
  (\A s, t \in Made : Process[s] = Process[t]) =>
    \A s \in Starts : pc[s] = "up" /\ Runtime[s] \in open =>
      runsAs[s] = Least(Made, createdAt)

\* Those who run, run as the earliest identity of the file.
LEMMA LocalIsEarliest == MadeInv => (RunsAsLocal <=> RunsAsLeast)
<1> SUFFICES ASSUME MadeInv PROVE RunsAsLocal <=> RunsAsLeast
  OBVIOUS
<1>1. \A s \in Starts : Runtime[s] \in Runtimes
  BY DEF Runtimes
<1>2. \A s \in Starts : pc[s] = "up" => Local(Runtime[s]) = Least(Made, createdAt)
  BY <1>1, LocalIsLeast DEF MadeInv
<1>3. Made = {s \in Starts : Identity(s) \in disk}
  BY DEF Made
<1> QED BY <1>2, <1>3, Zenon DEF RunsAsLocal, RunsAsLeast

LEMMA RunsStep ==
  ASSUME Inv, RunsInv, NEW s \in Starts, StepOf(s), MadeInv'
  PROVE  RunsAsLocal'
<1> USE DEF Inv, RunsInv
<1>1. SUFFICES ASSUME \A t, u \in Made' : Process[t] = Process[u],
                      NEW t \in Starts, pc'[t] = "up", Runtime[t] \in open'
               PROVE  runsAs'[t] = Least(Made', createdAt')
  <2>1. RunsAsLocal' <=> RunsAsLeast'
    BY LocalIsEarliest, PTL
  <2> QED BY <2>1 DEF RunsAsLeast
<1>2. Made \subseteq Made' /\ Made' \subseteq Starts
  BY MadeEffect DEF Made
<1>3. CASE Ready(s) /\ t = s
  <2>1. runsAs'[s] = Local(Runtime[s]) /\ Runtime[s] \in Runtimes /\ UNCHANGED <<disk, createdAt>>
    BY <1>3, OneMoves DEF Ready, TypeOK, Moves, database
  <2>2. Made # {}
    BY <1>3 DEF Ready, Moves, MadeInv
  <2>3. Local(Runtime[s]) = Least(Made, createdAt)
    BY <2>1, <2>2, LocalIsLeast
  <2>4. Made' = Made
    BY <2>1 DEF Made
  <2> QED BY <1>3, <2>1, <2>3, <2>4
<1>4. CASE ~ (Ready(s) /\ t = s)
  <2>1. /\ pc[t] = "up" /\ Runtime[t] \in open
        /\ runsAs'[t] = runsAs[t]
    <3>1. pc[t] = "up"
      <4>1. t # s
        BY <1>1, <1>4, WriteEffect
           DEF StepOf, Looking, Check, EnsureLocalIdentity, CreateLocalIdentity, Stamp,
               Throws, Fails, Other, Start, Begin, Commit, Rollback, CloseResources, Moves,
               TypeOK
      <4> QED BY <1>1, <4>1, OneMoves
    <3>2. open' \subseteq open
      BY WriteEffect, LookEffect
         DEF StepOf, Other, Start, Begin, Commit, Rollback, CloseResources, database, Writes
    <3>3. Ready(s) \/ runsAs' = runsAs
      BY WriteEffect
         DEF StepOf, Looking, Check, EnsureLocalIdentity, CreateLocalIdentity, Stamp,
             Throws, Fails, Other, Start, Begin, Commit, Rollback, CloseResources, identity
    <3>4. Ready(s) => runsAs'[t] = runsAs[t]
      BY <1>4 DEF Ready, TypeOK
    <3> QED BY <1>1, <3>1, <3>2, <3>3, <3>4
  <2>2. runsAs[t] = Least(Made, createdAt)
    BY <1>1, <1>2, <2>1, LocalIsEarliest DEF RunsAsLeast
  <2>3. Made # {} /\ Made \in SUBSET Starts
    BY <1>2, <2>1 DEF MadeInv
  <2>4. createdAt \in [Starts -> Nat] /\ createdAt' \in [Starts -> Nat]
    <3>1. TypeOK'
      BY TypeStep
    <3> QED BY <3>1 DEF TypeOK
  <2>5. PICK x \in Made : \A y \in Made : createdAt[x] <= createdAt[y]
    BY <2>3, <2>4, LeastExists
  <2>6. \A y, z \in Made : createdAt[y] = createdAt[z] => y = z
    BY <2>3 DEF MadeInv
  <2>7. Least(Made, createdAt) = x
    BY <2>3, <2>4, <2>5, <2>6, LeastIs
  <2>8. \A y, z \in Made' : createdAt'[y] = createdAt'[z] => y = z
    BY <1>2 DEF MadeInv
  <2>9. \A y \in Made : createdAt'[y] = createdAt[y]
    <3>1. Stamp(s) => s \notin Made
      BY DEF Stamp, Moves, MadeInv
    <3> QED BY <2>3, <3>1, TimeEffect
  <2>10. \A y \in Made' : createdAt'[x] <= createdAt'[y]
    <3>1. CASE ~ SaveIdentity(s)
      BY <2>5, <2>9, <3>1, MadeEffect
    <3>2. CASE SaveIdentity(s)
      <4>1. pc[s] = "row" /\ Made' = Made \cup {s} /\ ~ Stamp(s)
        BY <3>2, MadeEffect DEF SaveIdentity, Stamp, Moves
      <4>2. createdAt[x] < createdAt[s] /\ createdAt'[s] = createdAt[s]
        BY <1>1, <4>1, TimeEffect DEF MadeInv
      <4>3. createdAt[x] <= createdAt[s]
        BY <2>3, <2>4, <4>2
      <4> QED BY <2>5, <2>9, <4>1, <4>2, <4>3
    <3> QED BY <3>1, <3>2
  <2>11. Least(Made', createdAt') = x
    <3>1. Made' \in SUBSET Starts /\ x \in Made'
      BY <1>2
    <3> QED BY <2>4, <2>8, <2>10, <3>1, LeastIs
  <2> QED BY <2>1, <2>2, <2>7, <2>11
<1> QED BY <1>3, <1>4

\* A process that crashes takes nothing of the file along; the others go on.
LEMMA CrashKeepsRunsInv ==
  ASSUME Inv, RunsInv, NEW p \in Processes, Crash(p)
  PROVE  RunsInv'
<1> USE DEF Inv, RunsInv
<1> DEFINE gone == {r \in Runtimes : \E s \in Starts : Process[s] = p /\ Runtime[s] = r}
<1>0. /\ pc' = [s \in Starts |-> IF Process[s] = p THEN "dead" ELSE pc[s]]
      /\ open' = open \ gone
      /\ pending' = [r \in Runtimes |-> IF r \in gone THEN {} ELSE pending[r]]
      /\ UNCHANGED <<migration, disk, createdAt, runsAs>>
  BY DEF Crash, identity
<1>1. \A s \in Starts : Runtime[s] \in Runtimes /\ (Runtime[s] \in gone <=> Process[s] = p)
  BY BootAssumption DEF Runtimes
<1> HIDE DEF gone
<1>2. PassedInv'
  <2>1. \A s \in Starts : Sound(Runtime[s])' =>
          Sound(Runtime[s]) /\ Sees(Runtime[s])' = Sees(Runtime[s])
    BY <1>0, <1>1 DEF Sound, Sees
  <2>2. \A s \in Starts : pc'[s] \in {"local", "create", "keys"} => pc'[s] = pc[s]
    BY <1>0
  <2> QED BY <1>0, <2>1, <2>2 DEF PassedInv
<1>3. MakingInv'
  <2>1. \A s \in Starts : pc'[s] = "dead" \/ pc'[s] = pc[s]
    BY <1>0
  <2>2. \A s \in Starts : Holds(s)' => Holds(s)
    BY <2>1 DEF Holds, InTry
  <2> QED BY <1>0, <2>1, <2>2 DEF MakingInv
<1>4. MadeInv'
  <2>1. \A s \in Starts : pc'[s] = "dead" \/ pc'[s] = pc[s]
    BY <1>0
  <2>2. Made' = Made
    BY <1>0 DEF Made
  <2>3. \A s \in Starts : \A r \in Runtimes : Identity(s) \notin pending'[r]
    BY <1>0 DEF MadeInv
  <2>4. \A s \in Made : s \in Starts
    BY DEF Made
  <2> QED BY <1>0, <2>1, <2>2, <2>3, <2>4 DEF MadeInv
<1>5. RunsAsLocal'
  <2>1. Made' = Made /\ createdAt' = createdAt /\ runsAs' = runsAs
    BY <1>0 DEF Made
  <2>2. \A s \in Starts : pc'[s] = "up" /\ Runtime[s] \in open' => pc[s] = "up" /\ Runtime[s] \in open
    BY <1>0
  <2>3. RunsAsLeast
    BY LocalIsEarliest
  <2>4. RunsAsLeast'
    BY <2>1, <2>2, <2>3 DEF RunsAsLeast
  <2>5. MadeInv' => (RunsAsLocal' <=> RunsAsLeast')
    BY LocalIsEarliest, PTL
  <2> QED BY <1>4, <2>4, <2>5
<1> QED BY <1>2, <1>3, <1>4, <1>5

LEMMA RunsInductive ==
  /\ Init => RunsInv
  /\ Inv /\ RunsInv /\ [Next]_vars => RunsInv'
<1>1. ASSUME Init PROVE RunsInv
  <2>1. Made = {}
    BY <1>1 DEF Init, Made
  <2>2. PassedInv /\ MakingInv /\ RunsAsLocal
    BY <1>1 DEF Init, PassedInv, MakingInv, RunsAsLocal
  <2>3. MadeInv
    BY <1>1, <2>1 DEF Init, MadeInv
  <2> QED BY <2>2, <2>3 DEF RunsInv
<1>2. ASSUME Inv, RunsInv, NEW s \in Starts, StepOf(s)
      PROVE  RunsInv'
  <2>1. PassedInv' /\ MakingInv' /\ MadeInv'
    BY <1>2, PassedStep, MakingStep, MadeStep DEF RunsInv
  <2> QED BY <1>2, <2>1, RunsStep DEF RunsInv
<1>3. ASSUME Inv, RunsInv, UNCHANGED vars
      PROVE  RunsInv'
  <2>1. UNCHANGED <<pc, migration, disk, pending, open, createdAt, runsAs>>
    BY <1>3 DEF vars, database, identity
  <2>2. PassedInv' /\ MakingInv' /\ MadeInv'
    BY <1>3, <2>1 DEF RunsInv, PassedInv, MakingInv, MadeInv, Made, Sound, Sees, Holds
  <2>3. RunsAsLocal'
    <3>1. RunsAsLeast
      BY <1>3, LocalIsEarliest DEF RunsInv
    <3>2. RunsAsLeast'
      BY <2>1, <3>1 DEF RunsAsLeast, Made
    <3>3. MadeInv' => (RunsAsLocal' <=> RunsAsLeast')
      BY LocalIsEarliest, PTL
    <3> QED BY <2>2, <3>2, <3>3
  <2> QED BY <2>2, <2>3 DEF RunsInv
<1> QED BY <1>1, <1>2, <1>3, CrashKeepsRunsInv DEF Next, StepOf, Writing, Looking, Other

\* Whichever starts made identities, a running daemon runs as the one that
\* getLocal answers with ever after, if one process made them: identities are
\* written to the file in the order of their creation, and never in a
\* transaction, so the earliest is there before any daemon asks.
THEOREM RunsAsLocalCorrect == Spec => []RunsAsLocal
<1>1. RunsInv => RunsAsLocal
  BY DEF RunsInv
<1> QED BY <1>1, InitInv, InvStep, RunsInductive, PTL DEF Spec
=============================================================================
