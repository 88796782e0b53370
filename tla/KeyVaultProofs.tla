--------------------------- MODULE KeyVaultProofs ---------------------------
(***************************************************************************)
(* Rotations, puts, lookups, restores and crashes may meet in any way: as  *)
(* long as no two writers of the vault met, every row can be read, holds   *)
(* the latest material of its key, and so does the cache.                  *)
(***************************************************************************)
EXTENDS KeyVault, TLAPS

-----------------------------------------------------------------------------
(* The inductive invariant.                                                *)

\* A row that a rotation is still to read is there: rows are never deleted.
TodoInv ==
  \A o \in Ops : op[o].at = "reading" => \A k \in op[o].todo : rows[k] # Nil

\* Writers of the vault that did not meet: one rotation, or puts under the
\* passphrase in use.
AloneInv ==
  /\ \A o, r \in Rotating : o = r
  /\ \A o \in Ops : op[o].at = "putting" => Rotating = {} /\ op[o].pass = passphrase

\* What a rotation holds is what the rows hold; while it reads it has not
\* lost a row, and while it writes it knows them all.
HeldInv ==
  \A o \in Rotating : \A k \in Keys :
    /\ op[o].held[k] > 0 => rows[k] # Nil /\ rows[k].value = op[o].held[k]
    /\ rows[k] # Nil => \/ op[o].held[k] > 0
                        \/ op[o].at = "reading" /\ k \in op[o].todo

\* Each row is under the passphrase in use, or under the next one if the
\* rotation in its write loop has come past it.
PassInv ==
  \A k \in Present :
    IF \E o \in Writing : k \notin op[o].todo
      THEN \A o \in Writing : rows[k].pass = op[o].pass
      ELSE rows[k].pass = passphrase

\* What a lookup will cache is the latest material, or the key is named in late.
LookupInv ==
  \A o \in Ops : op[o].at = "getting" =>
    op[o].key \in late \/ op[o].value = latest[op[o].key]

\* The part that holds until writers of the vault meet.
Sound == AloneInv /\ HeldInv /\ PassInv /\ LookupInv /\ StoredIsLatest /\ CachedIsLatest

Inv == TypeOK /\ TodoInv /\ (~mixed => Sound)

-----------------------------------------------------------------------------
\* The fields that an execution has where it stands.
LEMMA Fields ==
  ASSUME TypeOK, NEW o \in Ops
  PROVE  /\ op[o].at \in {"idle", "putting", "getting", "reading", "writing"}
         /\ op[o].at = "putting" =>
              op[o].key \in Keys /\ op[o].value \in Values /\ op[o].pass \in Passes
         /\ op[o].at = "getting" => op[o].key \in Keys /\ op[o].value \in Values
         /\ op[o].at \in {"reading", "writing"} =>
              /\ op[o] \in [at : {"reading", "writing"}, pass : Passes, todo : SUBSET Keys,
                            held : [Keys -> 0..MaxValue]]
              /\ op[o].pass \in Passes
              /\ op[o].todo \subseteq Keys
              /\ op[o].held \in [Keys -> 0..MaxValue]
<1>1. op[o] \in Operation
  BY DEF TypeOK
<1>2. CASE op[o] = Idle
  BY <1>2 DEF Idle
<1>3. CASE op[o] \in [at : {"putting"}, key : Keys, value : Values, pass : Passes]
  BY <1>3
<1>4. CASE op[o] \in [at : {"getting"}, key : Keys, value : Values]
  BY <1>4
<1>5. CASE op[o] \in [at : {"reading", "writing"}, pass : Passes, todo : SUBSET Keys,
                      held : [Keys -> 0..MaxValue]]
  BY <1>5
<1> QED BY <1>1, <1>2, <1>3, <1>4, <1>5 DEF Operation

\* Nil is no row.
LEMMA NilIsNoRow ==
  /\ Nil \notin Row
  /\ \A v \in Values, p \in Passes : [value |-> v, pass |-> p] \in Row
  /\ \A r \in Row : r.value \in Values /\ r.pass \in Passes /\ r.value > 0
BY VaultAssumption DEF Row, Values

\* The step of an execution leaves the others where they are.
OnlyMoves(o) ==
  /\ op' \in [Ops -> Operation]
  /\ \A p \in Ops \ {o} : op'[p] = op[p]

\* An execution that begins.
LEMMA BeginsEffect ==
  ASSUME TypeOK, NEW o \in Ops, NEW operation \in Operation, Begins(o, operation)
  PROVE  OnlyMoves(o) /\ op[o].at = "idle" /\ op'[o] = operation
BY DEF TypeOK, Begins, Idle, OnlyMoves

\* An execution that ends.
LEMMA EndsEffect ==
  ASSUME TypeOK, NEW o \in Ops, Ends(o)
  PROVE  OnlyMoves(o) /\ op'[o] = Idle /\ op'[o].at = "idle"
BY DEF TypeOK, Ends, Idle, Operation, OnlyMoves

\* What each step makes of the execution that takes it.
LEMMA PutEffect ==
  ASSUME TypeOK, NEW o \in Ops, NEW k \in Identities \cup Secrets, NEW v \in Values,
         Put(o, k, v)
  PROVE  /\ OnlyMoves(o) /\ op[o].at = "idle"
         /\ op'[o].at = "putting" /\ op'[o].key = k /\ op'[o].value = v
         /\ op'[o].pass = passphrase
<1> DEFINE new == [at |-> "putting", key |-> k, value |-> v, pass |-> passphrase]
<1>1. new \in Operation
  BY DEF TypeOK, Operation, Keys
<1>2. Begins(o, new)
  BY DEF Put
<1>3. OnlyMoves(o) /\ op[o].at = "idle" /\ op'[o] = new
  BY <1>1, <1>2, BeginsEffect
<1> QED BY <1>3

LEMMA GetEffect ==
  ASSUME TypeOK, NEW o \in Ops, NEW k \in Identities \cup Secrets, Get(o, k)
  PROVE  /\ OnlyMoves(o) /\ op[o].at = "idle"
         /\ op'[o].at = "getting" /\ op'[o].key = k /\ op'[o].value = rows[k].value
<1> DEFINE new == [at |-> "getting", key |-> k, value |-> rows[k].value]
<1>1. new \in Operation
  BY NilIsNoRow DEF TypeOK, Operation, Keys, Get
<1>2. Begins(o, new)
  BY DEF Get
<1>3. OnlyMoves(o) /\ op[o].at = "idle" /\ op'[o] = new
  BY <1>1, <1>2, BeginsEffect
<1> QED BY <1>3

LEMMA RotateEffect ==
  ASSUME TypeOK, NEW o \in Ops, NEW next \in Passes, Rotate(o, next)
  PROVE  /\ OnlyMoves(o) /\ op[o].at = "idle"
         /\ op'[o].at = "reading" /\ op'[o].pass = next
         /\ op'[o].todo = Present /\ op'[o].held = Nothing
<1> DEFINE new == [at |-> "reading", pass |-> next, todo |-> Present, held |-> Nothing]
<1>1. Nothing \in [Keys -> 0..MaxValue] /\ Present \in SUBSET Keys
  BY VaultAssumption DEF Nothing, Present
<1>2. new \in Operation
  BY <1>1 DEF Operation
<1>3. Begins(o, new)
  BY DEF Rotate
<1>4. OnlyMoves(o) /\ op[o].at = "idle" /\ op'[o] = new
  BY <1>2, <1>3, BeginsEffect
<1> QED BY <1>4

\* A row is read, or the rotation gives up.
LEMMA ReadOneEffect ==
  ASSUME TypeOK, TodoInv, NEW o \in Ops, NEW k \in Keys, ReadOne(o, k)
  PROVE  /\ OnlyMoves(o)
         /\ op[o].at = "reading" /\ k \in op[o].todo /\ rows[k] \in Row
         /\ \/ op'[o].at = "idle" /\ op'[o] = Idle
            \/ /\ rows[k].pass = passphrase
               /\ op'[o].at = "reading" /\ op'[o].pass = op[o].pass
               /\ op'[o].todo = op[o].todo \ {k}
               /\ op'[o].held = [op[o].held EXCEPT ![k] = rows[k].value]
<1>1. op[o].at = "reading" /\ k \in op[o].todo /\ rows[k] \in Row
  BY DEF ReadOne, TodoInv, TypeOK
<1>2. CASE rows[k].pass = passphrase
  <2> DEFINE held == [op[o].held EXCEPT ![k] = rows[k].value]
             new == [at |-> "reading", pass |-> op[o].pass, todo |-> op[o].todo \ {k},
                     held |-> held]
  <2>1. held \in [Keys -> 0..MaxValue]
    BY <1>1, Fields, NilIsNoRow DEF Values
  <2>2. new \in Operation
    BY <1>1, <2>1, Fields DEF Operation
  <2>3. op' = [op EXCEPT ![o].held[k] = rows[k].value, ![o].todo = @ \ {k}]
    BY <1>2 DEF ReadOne
  <2>4. op'[o] = new /\ \A p \in Ops \ {o} : op'[p] = op[p]
    BY <1>1, <2>3, Fields DEF TypeOK
  <2> HIDE DEF new
  <2>5. op' \in [Ops -> Operation]
    BY <2>2, <2>3, <2>4 DEF TypeOK
  <2> QED BY <1>1, <1>2, <2>4, <2>5 DEF OnlyMoves, new
<1>3. CASE rows[k].pass # passphrase
  <2>1. Ends(o)
    BY <1>3 DEF ReadOne
  <2> QED BY <1>1, <2>1, EndsEffect
<1> QED BY <1>2, <1>3

LEMMA AllReadEffect ==
  ASSUME TypeOK, NEW o \in Ops, AllRead(o)
  PROVE  /\ OnlyMoves(o)
         /\ op[o].at = "reading" /\ op[o].todo = {}
         /\ op'[o].at = "writing" /\ op'[o].pass = op[o].pass /\ op'[o].held = op[o].held
         /\ op'[o].todo = {k \in Keys : op[o].held[k] > 0}
<1> DEFINE todo == {k \in Keys : op[o].held[k] > 0}
           new  == [at |-> "writing", pass |-> op[o].pass, todo |-> todo, held |-> op[o].held]
<1>1. op[o].at = "reading" /\ op[o].todo = {}
  BY DEF AllRead
<1>2. new \in Operation
  BY <1>1, Fields DEF Operation
<1>3. op' = [op EXCEPT ![o].at = "writing", ![o].todo = todo]
  BY DEF AllRead
<1>4. op'[o] = new /\ \A p \in Ops \ {o} : op'[p] = op[p]
  BY <1>1, <1>3, Fields DEF TypeOK
<1> HIDE DEF new, todo
<1>5. op' \in [Ops -> Operation]
  BY <1>2, <1>3, <1>4 DEF TypeOK
<1> QED BY <1>1, <1>4, <1>5 DEF OnlyMoves, new, todo

LEMMA WriteOneEffect ==
  ASSUME TypeOK, NEW o \in Ops, NEW k \in Keys, WriteOne(o, k)
  PROVE  /\ OnlyMoves(o)
         /\ op[o].at = "writing" /\ k \in op[o].todo
         /\ op'[o].at = "writing" /\ op'[o].pass = op[o].pass /\ op'[o].held = op[o].held
         /\ op'[o].todo = op[o].todo \ {k}
         /\ [value |-> op[o].held[k], pass |-> op[o].pass] \in Row
         /\ rows' = [rows EXCEPT ![k] = [value |-> op[o].held[k], pass |-> op[o].pass]]
<1> DEFINE new == [at |-> "writing", pass |-> op[o].pass, todo |-> op[o].todo \ {k},
                   held |-> op[o].held]
<1>1. op[o].at = "writing" /\ k \in op[o].todo
  BY DEF WriteOne
<1>2. op[o].held[k] \in Values
  BY <1>1, Fields DEF Values, TypeOK, Writing
<1>3. new \in Operation
  BY <1>1, Fields DEF Operation
<1>4. op' = [op EXCEPT ![o].todo = @ \ {k}]
  BY DEF WriteOne
<1>5. op'[o] = new /\ \A p \in Ops \ {o} : op'[p] = op[p]
  BY <1>1, <1>4, Fields DEF TypeOK
<1> HIDE DEF new
<1>6. op' \in [Ops -> Operation]
  BY <1>3, <1>4, <1>5 DEF TypeOK
<1>7. /\ [value |-> op[o].held[k], pass |-> op[o].pass] \in Row
      /\ rows' = [rows EXCEPT ![k] = [value |-> op[o].held[k], pass |-> op[o].pass]]
  BY <1>1, <1>2, Fields, NilIsNoRow DEF WriteOne
<1> QED BY <1>1, <1>5, <1>6, <1>7 DEF OnlyMoves, new

\* The type invariant, of which a step of one execution can disturb the part
\* about what is to be written only for itself.
LEMMA StepType ==
  ASSUME TypeOK, NEW o \in Ops, OnlyMoves(o),
         op'[o].at = "writing" => \A k \in op'[o].todo : op'[o].held[k] > 0,
         rows' \in [Keys -> Row \cup {Nil}], cache' \in [Keys -> 0..MaxValue],
         passphrase' \in Passes, UNCHANGED <<backup, crashes>>,
         latest' \in [Keys -> 0..MaxValue], mixed' \in BOOLEAN, late' \subseteq Keys
  PROVE  TypeOK'
BY DEF TypeOK, OnlyMoves, Writing

\* Material that is registered has its type.
LEMMA RegistersType ==
  ASSUME TypeOK, NEW k \in Keys, NEW v \in Values, Registers(k, v)
  PROVE  /\ cache' \in [Keys -> 0..MaxValue]
         /\ latest' \in [Keys -> 0..MaxValue]
         /\ late' \subseteq Keys
<1>1. v \in 0..MaxValue
  BY VaultAssumption DEF Values
<1>2. cache' = [cache EXCEPT ![k] = v] /\ latest' = [latest EXCEPT ![k] = v]
  BY DEF Registers
<1>3. late' \subseteq Keys
  BY DEF Registers, TypeOK
<1> QED BY <1>1, <1>2, <1>3 DEF TypeOK

LEMMA NothingType == Nothing \in [Keys -> 0..MaxValue]
BY VaultAssumption DEF Nothing

-----------------------------------------------------------------------------
\* The step of one execution.
StepOf(o) ==
  \/ \E k \in Identities \cup Secrets : \/ \E v \in Values : Put(o, k, v)
                                        \/ Get(o, k)
  \/ EndPut(o) \/ EndGet(o)
  \/ \E p \in Passes : Rotate(o, p)
  \/ \E k \in Keys : ReadOne(o, k) \/ WriteOne(o, k)
  \/ AllRead(o) \/ AllWritten(o) \/ RotationFails(o)

\* TypeOK and TodoInv are inductive together.
LEMMA TypeStep ==
  ASSUME TypeOK, TodoInv, [Next]_vars
  PROVE  TypeOK'
<1>1. ASSUME NEW o \in Ops, NEW k \in Identities \cup Secrets,
             (\E v \in Values : Put(o, k, v)) \/ Get(o, k)
      PROVE  TypeOK'
  <2>1. OnlyMoves(o) /\ op'[o].at # "writing"
    BY <1>1, PutEffect, GetEffect
  <2> QED BY <1>1, <2>1, StepType DEF Put, Get, history, TypeOK
<1>2. ASSUME NEW o \in Ops, EndPut(o)
      PROVE  TypeOK'
  <2>1. OnlyMoves(o) /\ op'[o].at = "idle"
    BY <1>2, EndsEffect DEF EndPut
  <2>2. op[o].key \in Keys /\ op[o].value \in Values /\ op[o].pass \in Passes
    BY <1>2, Fields DEF EndPut
  <2>3. rows' \in [Keys -> Row \cup {Nil}]
    BY <1>2, <2>2, NilIsNoRow DEF EndPut, TypeOK
  <2>4. /\ cache' \in [Keys -> 0..MaxValue]
        /\ latest' \in [Keys -> 0..MaxValue]
        /\ late' \subseteq Keys
    BY <1>2, <2>2, RegistersType DEF EndPut
  <2> QED BY <1>2, <2>1, <2>3, <2>4, StepType DEF EndPut, TypeOK
<1>3. ASSUME NEW o \in Ops, EndGet(o)
      PROVE  TypeOK'
  <2>1. OnlyMoves(o) /\ op'[o].at = "idle"
    BY <1>3, EndsEffect DEF EndGet
  <2>2. cache' \in [Keys -> 0..MaxValue]
    BY <1>3, Fields, VaultAssumption DEF EndGet, TypeOK, Values
  <2> QED BY <1>3, <2>1, <2>2, StepType DEF EndGet, history, TypeOK
<1>4. ASSUME NEW o \in Ops, NEW p \in Passes, Rotate(o, p)
      PROVE  TypeOK'
  <2>1. OnlyMoves(o) /\ op'[o].at = "reading"
    BY <1>4, RotateEffect
  <2> QED BY <1>4, <2>1, StepType DEF Rotate, TypeOK
<1>5. ASSUME NEW o \in Ops, NEW k \in Keys, ReadOne(o, k)
      PROVE  TypeOK'
  <2>1. OnlyMoves(o) /\ op'[o].at # "writing"
    BY <1>5, ReadOneEffect
  <2> QED BY <1>5, <2>1, StepType DEF ReadOne, history, TypeOK
<1>6. ASSUME NEW o \in Ops, NEW k \in Keys, WriteOne(o, k)
      PROVE  TypeOK'
  <2>1. OnlyMoves(o) /\ \A j \in op'[o].todo : op'[o].held[j] > 0
    BY <1>6, WriteOneEffect DEF TypeOK, Writing
  <2>2. rows' \in [Keys -> Row \cup {Nil}]
    BY <1>6, WriteOneEffect DEF TypeOK
  <2> QED BY <1>6, <2>1, <2>2, StepType DEF WriteOne, history, TypeOK
<1>7. ASSUME NEW o \in Ops, AllRead(o)
      PROVE  TypeOK'
  <2>1. OnlyMoves(o) /\ \A j \in op'[o].todo : op'[o].held[j] > 0
    BY <1>7, AllReadEffect
  <2> QED BY <1>7, <2>1, StepType DEF AllRead, history, TypeOK
<1>8. ASSUME NEW o \in Ops, AllWritten(o) \/ RotationFails(o)
      PROVE  TypeOK'
  <2>1. OnlyMoves(o) /\ op'[o].at = "idle"
    BY <1>8, EndsEffect DEF AllWritten, RotationFails
  <2>2. op[o].pass \in Passes
    BY <1>8, Fields DEF AllWritten, RotationFails
  <2> QED BY <1>8, <2>1, <2>2, StepType, NothingType
             DEF AllWritten, RotationFails, history, TypeOK
<1>9. ASSUME NEW k \in PeerKeys, NEW v \in Values, RegisterPublicIdentity(k, v)
      PROVE  TypeOK'
  <2>1. k \in Keys
    BY DEF Keys
  <2>2. /\ cache' \in [Keys -> 0..MaxValue]
        /\ latest' \in [Keys -> 0..MaxValue]
        /\ late' \subseteq Keys
    BY <1>9, <2>1, RegistersType DEF RegisterPublicIdentity
  <2> QED BY <1>9, <2>2 DEF RegisterPublicIdentity, TypeOK, Writing
<1>10. ASSUME NEW overwrite \in BOOLEAN, Restore(overwrite)
       PROVE  TypeOK'
  <2> DEFINE taken == {k \in Keys : backup[k] # Nil /\ (overwrite \/ rows[k] = Nil)}
  <2>1. rows' = [k \in Keys |-> IF k \in taken THEN backup[k] ELSE rows[k]]
    BY <1>10 DEF Restore
  <2>2. latest' = [k \in Keys |-> IF k \in taken THEN backup[k].value ELSE latest[k]]
    BY <1>10 DEF Restore
  <2>3. \A k \in taken : backup[k] \in Row /\ backup[k].value \in 0..MaxValue
    BY NilIsNoRow DEF TypeOK, Values
  <2>4. rows' \in [Keys -> Row \cup {Nil}] /\ latest' \in [Keys -> 0..MaxValue]
    BY <2>1, <2>2, <2>3 DEF TypeOK
  <2>5. late' \subseteq Keys /\ mixed' \in BOOLEAN
    BY <1>10 DEF Restore, TypeOK
  <2> QED BY <1>10, <2>4, <2>5 DEF Restore, TypeOK, Writing
<1>11. CASE Lock \/ Export
  BY <1>11, NothingType DEF Lock, Export, history, TypeOK, Writing
<1>12. CASE CrashRestart
  <2>1. op' = [o \in Ops |-> Idle] /\ op' \in [Ops -> Operation]
    BY <1>12 DEF CrashRestart, Operation
  <2>2. Writing' = {}
    BY <2>1 DEF Writing, Idle
  <2>3. passphrase' \in Passes
    BY <1>12, Fields DEF CrashRestart, Writing, TypeOK
  <2>4. crashes' \in 0..MaxCrashes
    BY <1>12, VaultAssumption DEF CrashRestart, TypeOK
  <2> QED BY <1>12, <2>1, <2>2, <2>3, <2>4, NothingType DEF CrashRestart, TypeOK
<1>13. CASE UNCHANGED vars
  BY <1>13 DEF vars, history, TypeOK, Writing
<1> QED
  BY <1>1, <1>2, <1>3, <1>4, <1>5, <1>6, <1>7, <1>8, <1>9, <1>10, <1>11, <1>12, <1>13
  DEF Next

\* No step deletes a row.
LEMMA RowsStay ==
  ASSUME TypeOK, TodoInv, [Next]_vars
  PROVE  \A k \in Keys : rows[k] # Nil => rows'[k] # Nil
<1>1. ASSUME NEW o \in Ops, EndPut(o)
      PROVE  \A k \in Keys : rows[k] # Nil => rows'[k] # Nil
  <2>1. [value |-> op[o].value, pass |-> op[o].pass] # Nil
    BY <1>1, Fields, NilIsNoRow DEF EndPut
  <2> QED BY <1>1, <2>1 DEF EndPut, TypeOK
<1>2. ASSUME NEW o \in Ops, NEW k \in Keys, WriteOne(o, k)
      PROVE  \A j \in Keys : rows[j] # Nil => rows'[j] # Nil
  <2> DEFINE row == [value |-> op[o].held[k], pass |-> op[o].pass]
  <2>1. row \in Row /\ rows' = [rows EXCEPT ![k] = row]
    BY <1>2, WriteOneEffect
  <2> HIDE DEF row
  <2> QED BY <2>1, NilIsNoRow DEF TypeOK
<1>3. ASSUME NEW overwrite \in BOOLEAN, Restore(overwrite)
      PROVE  \A k \in Keys : rows[k] # Nil => rows'[k] # Nil
  BY <1>3 DEF Restore
<1>4. ASSUME NEW o \in Ops, StepOf(o), ~EndPut(o), \A k \in Keys : ~WriteOne(o, k)
      PROVE  UNCHANGED rows
  BY <1>4 DEF StepOf, Put, Get, EndGet, Rotate, ReadOne, AllRead, AllWritten, RotationFails
<1>5. CASE \/ \E k \in PeerKeys, v \in Values : RegisterPublicIdentity(k, v)
           \/ Lock \/ Export \/ CrashRestart \/ UNCHANGED vars
  BY <1>5 DEF RegisterPublicIdentity, Lock, Export, CrashRestart, vars
<1> QED BY <1>1, <1>2, <1>3, <1>4, <1>5 DEF Next, StepOf

LEMMA TodoStep ==
  ASSUME TypeOK, TodoInv, [Next]_vars
  PROVE  TodoInv'
<1> USE DEF TodoInv
<1>0. \A k \in Keys : rows[k] # Nil => rows'[k] # Nil
  BY RowsStay
<1>1. ASSUME NEW o \in Ops, OnlyMoves(o),
             op'[o].at = "reading" => \A k \in op'[o].todo : k \in Keys /\ rows[k] # Nil
      PROVE  TodoInv'
  BY <1>0, <1>1, Fields DEF OnlyMoves
<1>2. ASSUME NEW o \in Ops, StepOf(o)
      PROVE  TodoInv'
  <2>1. ASSUME NEW k \in Identities \cup Secrets, (\E v \in Values : Put(o, k, v)) \/ Get(o, k)
        PROVE  TodoInv'
    <3>1. OnlyMoves(o) /\ op'[o].at # "reading"
      BY <2>1, PutEffect, GetEffect
    <3> QED BY <1>1, <3>1
  <2>2. CASE EndPut(o) \/ EndGet(o) \/ AllWritten(o) \/ RotationFails(o)
    <3>1. OnlyMoves(o) /\ op'[o].at = "idle"
      BY <2>2, EndsEffect DEF EndPut, EndGet, AllWritten, RotationFails
    <3> QED BY <1>1, <3>1
  <2>3. ASSUME NEW p \in Passes, Rotate(o, p)
        PROVE  TodoInv'
    <3>1. OnlyMoves(o) /\ op'[o].todo = Present
      BY <2>3, RotateEffect
    <3> QED BY <1>1, <3>1 DEF Present
  <2>4. ASSUME NEW k \in Keys, ReadOne(o, k)
        PROVE  TodoInv'
    <3>1. OnlyMoves(o) /\ op[o].at = "reading"
          /\ (op'[o].at = "reading" => op'[o].todo = op[o].todo \ {k})
      BY <2>4, ReadOneEffect
    <3> QED BY <1>1, <3>1, Fields
  <2>5. ASSUME NEW k \in Keys, WriteOne(o, k)
        PROVE  TodoInv'
    <3>1. OnlyMoves(o) /\ op'[o].at = "writing"
      BY <2>5, WriteOneEffect
    <3> QED BY <1>1, <3>1
  <2>6. CASE AllRead(o)
    <3>1. OnlyMoves(o) /\ op'[o].at = "writing"
      BY <2>6, AllReadEffect
    <3> QED BY <1>1, <3>1
  <2> QED BY <1>2, <2>1, <2>2, <2>3, <2>4, <2>5, <2>6 DEF StepOf
<1>3. CASE CrashRestart
  BY <1>3 DEF CrashRestart, Idle
<1>4. CASE UNCHANGED op
  BY <1>0, <1>4, Fields
<1> QED
  BY <1>2, <1>3, <1>4
  DEF Next, StepOf, vars, RegisterPublicIdentity, Restore, Lock, Export

-----------------------------------------------------------------------------
(* The steps keep Sound, one lemma for each.                               *)

\* Nothing but the place of the execution o changes, and o does not rotate.
LEMMA PutKeepsSound ==
  ASSUME TypeOK, Sound, ~mixed', NEW o \in Ops,
         NEW k \in Identities \cup Secrets, NEW v \in Values, Put(o, k, v)
  PROVE  Sound'
<1>1. /\ OnlyMoves(o) /\ op[o].at = "idle"
      /\ op'[o].at = "putting" /\ op'[o].pass = passphrase
  BY PutEffect
<1>2. Rotating = {} /\ ~mixed
  BY DEF Put
<1>3. Rotating' = {} /\ Writing = {} /\ Writing' = {}
  BY <1>1, <1>2 DEF Rotating, Writing, OnlyMoves
<1>4. UNCHANGED <<rows, cache, passphrase, latest, late>>
  BY DEF Put
<1>5. AloneInv'
  BY <1>1, <1>2, <1>3, <1>4 DEF Sound, AloneInv, OnlyMoves
<1>6. HeldInv' /\ PassInv'
  BY <1>3, <1>4 DEF Sound, HeldInv, PassInv, Present
<1>7. LookupInv'
  BY <1>1, <1>4 DEF Sound, LookupInv, OnlyMoves
<1>8. StoredIsLatest' /\ CachedIsLatest'
  BY <1>2, <1>4 DEF Sound, StoredIsLatest, CachedIsLatest
<1> QED BY <1>5, <1>6, <1>7, <1>8 DEF Sound

\* What is registered is the latest of its key, for the cache and for lookups.
LEMMA RegistersKeeps ==
  ASSUME TypeOK, Sound, ~mixed, NEW k \in Keys, NEW v \in Values, Registers(k, v),
         \A o \in Ops : op'[o].at = "getting" => op'[o] = op[o]
  PROVE  LookupInv' /\ CachedIsLatest'
<1>1. /\ cache' = [cache EXCEPT ![k] = v]
      /\ latest' = [latest EXCEPT ![k] = v]
  BY DEF Registers
<1>2. \A j \in Keys \ {k} : j \in late => j \in late'
  BY DEF Registers
<1>3. \A o \in Ops : op[o].at = "getting" /\ op[o].key = k => k \in late'
  BY DEF Registers, Getting
<1>4. LookupInv'
  <2> SUFFICES ASSUME NEW o \in Ops, op'[o].at = "getting"
               PROVE  op'[o].key \in late' \/ op'[o].value = latest'[op'[o].key]
    BY DEF LookupInv
  <2>1. op'[o] = op[o] /\ op[o].at = "getting" /\ op[o].key \in Keys
    BY Fields
  <2>2. op[o].key \in late \/ op[o].value = latest[op[o].key]
    BY <2>1 DEF Sound, LookupInv
  <2> QED BY <1>1, <1>2, <1>3, <2>1, <2>2 DEF TypeOK
<1>5. CachedIsLatest'
  BY <1>1, <1>2 DEF Sound, CachedIsLatest, TypeOK
<1> QED BY <1>4, <1>5

LEMMA EndPutKeepsSound ==
  ASSUME TypeOK, Sound, ~mixed', NEW o \in Ops, EndPut(o)
  PROVE  Sound'
<1> DEFINE k == op[o].key
           v == op[o].value
<1>1. op[o].at = "putting" /\ k \in Keys /\ v \in Values /\ op[o].pass = passphrase
      /\ Rotating = {} /\ ~mixed
  BY Fields DEF EndPut, Sound, AloneInv
<1>2. OnlyMoves(o) /\ op'[o].at = "idle"
  BY EndsEffect DEF EndPut
<1>3. /\ rows' = [rows EXCEPT ![k] = [value |-> v, pass |-> passphrase]]
      /\ latest' = [latest EXCEPT ![k] = v]
      /\ passphrase' = passphrase
      /\ [value |-> v, pass |-> passphrase] # Nil
      /\ v # 0
  BY <1>1, Fields, NilIsNoRow DEF EndPut, Registers, Values
<1>4. Rotating' = {} /\ Writing = {} /\ Writing' = {}
  BY <1>1, <1>2 DEF Rotating, Writing, OnlyMoves
<1>5. AloneInv'
  BY <1>2, <1>3, <1>4 DEF Sound, AloneInv, OnlyMoves
<1>6. HeldInv'
  BY <1>4 DEF HeldInv
<1>7. PassInv'
  BY <1>3, <1>4 DEF Sound, PassInv, Present, TypeOK
<1>8. StoredIsLatest'
  BY <1>1, <1>3 DEF Sound, StoredIsLatest, TypeOK, Keys
<1>9. LookupInv' /\ CachedIsLatest'
  BY <1>1, <1>2, RegistersKeeps DEF EndPut, OnlyMoves
<1> QED BY <1>5, <1>6, <1>7, <1>8, <1>9 DEF Sound

\* A remote verification key is neither an identity nor a secret: no row of it
\* is accounted for.
LEMMA RegisterPublicKeepsSound ==
  ASSUME TypeOK, Sound, ~mixed', NEW k \in PeerKeys, NEW v \in Values,
         RegisterPublicIdentity(k, v)
  PROVE  Sound'
<1>1. k \in Keys /\ ~mixed /\ UNCHANGED <<rows, passphrase, op>>
  BY DEF RegisterPublicIdentity, Keys
<1>2. AloneInv' /\ HeldInv' /\ PassInv'
  BY <1>1 DEF Sound, AloneInv, HeldInv, PassInv, Rotating, Writing, Present
<1>3. StoredIsLatest'
  BY <1>1, VaultAssumption
  DEF Sound, StoredIsLatest, RegisterPublicIdentity, Registers, TypeOK, Keys
<1>4. LookupInv' /\ CachedIsLatest'
  BY <1>1, RegistersKeeps DEF RegisterPublicIdentity
<1> QED BY <1>2, <1>3, <1>4 DEF Sound

\* A lookup takes the latest material, which is what the row holds.
LEMMA GetKeepsSound ==
  ASSUME TypeOK, Sound, ~mixed', NEW o \in Ops, NEW k \in Identities \cup Secrets, Get(o, k)
  PROVE  Sound'
<1>1. /\ OnlyMoves(o) /\ op[o].at = "idle"
      /\ op'[o].at = "getting" /\ op'[o].key = k /\ op'[o].value = rows[k].value
  BY GetEffect
<1>2. ~mixed /\ rows[k] # Nil /\ UNCHANGED <<rows, cache, passphrase, latest, late>>
  BY DEF Get, history
<1>3. Rotating' = Rotating /\ Writing' = Writing
  BY <1>1 DEF Rotating, Writing, OnlyMoves
<1>4. AloneInv'
  BY <1>1, <1>2, <1>3 DEF Sound, AloneInv, OnlyMoves
<1>5. HeldInv' /\ PassInv'
  <2>1. \A p \in Rotating \cup Writing : op'[p] = op[p]
    BY <1>1 DEF Rotating, Writing, OnlyMoves
  <2> QED BY <1>2, <1>3, <2>1 DEF Sound, HeldInv, PassInv, Present
<1>6. rows[k].value = latest[k]
  BY <1>2 DEF Sound, StoredIsLatest
<1>7. LookupInv'
  BY <1>1, <1>2, <1>6 DEF Sound, LookupInv, OnlyMoves
<1>8. StoredIsLatest' /\ CachedIsLatest'
  BY <1>2 DEF Sound, StoredIsLatest, CachedIsLatest
<1> QED BY <1>4, <1>5, <1>7, <1>8 DEF Sound

LEMMA EndGetKeepsSound ==
  ASSUME TypeOK, Sound, ~mixed', NEW o \in Ops, EndGet(o)
  PROVE  Sound'
<1>1. OnlyMoves(o) /\ op[o].at = "getting" /\ op'[o].at = "idle"
  BY EndsEffect DEF EndGet
<1>2. /\ ~mixed /\ UNCHANGED <<rows, passphrase, latest, late>>
      /\ cache' = [cache EXCEPT ![op[o].key] = op[o].value]
  BY DEF EndGet, history
<1>3. Rotating' = Rotating /\ Writing' = Writing
  BY <1>1 DEF Rotating, Writing, OnlyMoves
<1>4. AloneInv'
  BY <1>1, <1>2, <1>3 DEF Sound, AloneInv, OnlyMoves
<1>5. HeldInv' /\ PassInv'
  <2>1. \A p \in Rotating \cup Writing : op'[p] = op[p]
    BY <1>1 DEF Rotating, Writing, OnlyMoves
  <2> QED BY <1>2, <1>3, <2>1 DEF Sound, HeldInv, PassInv, Present
<1>6. LookupInv'
  BY <1>1, <1>2 DEF Sound, LookupInv, OnlyMoves
<1>7. StoredIsLatest'
  BY <1>2 DEF Sound, StoredIsLatest
<1>8. CachedIsLatest'
  BY <1>1, <1>2 DEF Sound, CachedIsLatest, LookupInv, TypeOK
<1> QED BY <1>4, <1>5, <1>6, <1>7, <1>8 DEF Sound

\* A rotation that begins alone holds nothing and is to read all there is.
LEMMA RotateKeepsSound ==
  ASSUME TypeOK, Sound, ~mixed', NEW o \in Ops, NEW next \in Passes, Rotate(o, next)
  PROVE  Sound'
<1>1. /\ OnlyMoves(o) /\ op[o].at = "idle" /\ op'[o].at = "reading"
      /\ op'[o].todo = Present /\ op'[o].held = Nothing
  BY RotateEffect
<1>2. /\ ~mixed /\ Rotating = {} /\ \A k \in Keys : Putting(k) = {}
      /\ UNCHANGED <<rows, cache, passphrase, latest, late>>
  BY DEF Rotate
<1>3. \A p \in Ops : op[p].at # "putting"
  BY <1>2, Fields DEF Putting
<1>4. Rotating' = {o} /\ Writing = {} /\ Writing' = {}
  BY <1>1, <1>2 DEF Rotating, Writing, OnlyMoves
<1>5. AloneInv'
  BY <1>1, <1>3, <1>4 DEF AloneInv, OnlyMoves
<1>6. HeldInv'
  BY <1>1, <1>2, <1>4 DEF HeldInv, Nothing, Present
<1>7. PassInv'
  BY <1>2, <1>4 DEF Sound, PassInv, Present
<1>8. LookupInv'
  BY <1>1, <1>2 DEF Sound, LookupInv, OnlyMoves
<1>9. StoredIsLatest' /\ CachedIsLatest'
  BY <1>2 DEF Sound, StoredIsLatest, CachedIsLatest
<1> QED BY <1>5, <1>6, <1>7, <1>8, <1>9 DEF Sound

\* A rotation that ends, or moves on, without touching rows or lookups.
LEMMA RotatorFrame ==
  ASSUME TypeOK, Sound, ~mixed, NEW o \in Ops, OnlyMoves(o),
         op[o].at \in {"reading", "writing"}, op'[o].at \in {"idle", "reading", "writing"},
         UNCHANGED <<latest, late>>
  PROVE  /\ Rotating = {o}
         /\ Rotating' \subseteq {o}
         /\ AloneInv'
         /\ LookupInv'
<1>1. Rotating = {o}
  BY DEF Sound, AloneInv, Rotating
<1>2. Rotating' \subseteq {o}
  BY <1>1 DEF Rotating, OnlyMoves
<1>3. \A p \in Ops : op'[p].at # "putting"
  BY <1>1 DEF Sound, AloneInv, OnlyMoves
<1>4. LookupInv'
  BY DEF Sound, LookupInv, OnlyMoves
<1> QED BY <1>1, <1>2, <1>3, <1>4 DEF AloneInv

LEMMA ReadOneKeepsSound ==
  ASSUME TypeOK, TodoInv, Sound, ~mixed', NEW o \in Ops, NEW k \in Keys, ReadOne(o, k)
  PROVE  Sound'
<1>1. ~mixed /\ UNCHANGED <<rows, cache, passphrase, latest, late>>
  BY DEF ReadOne, history
<1>2. OnlyMoves(o) /\ op[o].at = "reading" /\ k \in op[o].todo /\ rows[k] \in Row
      /\ op'[o].at \in {"idle", "reading"}
  BY ReadOneEffect
<1>3. Rotating = {o} /\ Rotating' \subseteq {o} /\ AloneInv' /\ LookupInv'
  BY <1>1, <1>2, RotatorFrame
<1>4. Writing = {} /\ Writing' = {}
  BY <1>2, <1>3 DEF Writing, Rotating
<1>5. HeldInv'
  <2>1. CASE op'[o].at = "idle"
    BY <1>3, <2>1 DEF HeldInv, Rotating
  <2>2. CASE op'[o].at = "reading"
    <3>1. /\ op'[o].todo = op[o].todo \ {k}
          /\ op'[o].held = [op[o].held EXCEPT ![k] = rows[k].value]
      BY <2>2, ReadOneEffect
    <3>2. rows[k].value > 0 /\ rows[k] # Nil
      BY <1>2, NilIsNoRow
    <3>3. op[o].held \in [Keys -> 0..MaxValue]
      BY <1>2, Fields
    <3>4. \A j \in Keys :
            /\ op'[o].held[j] > 0 => rows'[j] # Nil /\ rows'[j].value = op'[o].held[j]
            /\ rows'[j] # Nil => op'[o].held[j] > 0 \/ j \in op'[o].todo
      BY <1>1, <1>2, <1>3, <3>1, <3>2, <3>3 DEF Sound, HeldInv
    <3> QED BY <1>3, <2>2, <3>4 DEF HeldInv
  <2> QED BY <1>2, <2>1, <2>2
<1>6. PassInv'
  BY <1>1, <1>4 DEF Sound, PassInv, Present
<1>7. StoredIsLatest' /\ CachedIsLatest'
  BY <1>1 DEF Sound, StoredIsLatest, CachedIsLatest
<1> QED BY <1>3, <1>5, <1>6, <1>7 DEF Sound

\* Once all is read, every row is held and none is written.
LEMMA AllReadKeepsSound ==
  ASSUME TypeOK, Sound, ~mixed', NEW o \in Ops, AllRead(o)
  PROVE  Sound'
<1>1. ~mixed /\ UNCHANGED <<rows, cache, passphrase, latest, late>>
  BY DEF AllRead, history
<1>2. /\ OnlyMoves(o) /\ op[o].at = "reading" /\ op[o].todo = {} /\ op'[o].at = "writing"
      /\ op'[o].held = op[o].held /\ op'[o].todo = {k \in Keys : op[o].held[k] > 0}
  BY AllReadEffect
<1>3. Rotating = {o} /\ Rotating' \subseteq {o} /\ AloneInv' /\ LookupInv'
  BY <1>1, <1>2, RotatorFrame
<1>4. Rotating' = {o} /\ Writing = {} /\ Writing' = {o}
  BY <1>2, <1>3 DEF Writing, Rotating
<1>5. \A k \in Present : op[o].held[k] > 0
  BY <1>2, <1>3 DEF Sound, HeldInv, Present
<1>6. HeldInv'
  BY <1>1, <1>2, <1>3, <1>4, <1>5 DEF Sound, HeldInv, Present
<1>7. PassInv'
  BY <1>1, <1>2, <1>4, <1>5 DEF Sound, PassInv, Present
<1>8. StoredIsLatest' /\ CachedIsLatest'
  BY <1>1 DEF Sound, StoredIsLatest, CachedIsLatest
<1> QED BY <1>3, <1>6, <1>7, <1>8 DEF Sound

\* What is written back is what the row held, under the next passphrase.
LEMMA WriteOneKeepsSound ==
  ASSUME TypeOK, Sound, ~mixed', NEW o \in Ops, NEW k \in Keys, WriteOne(o, k)
  PROVE  Sound'
<1> DEFINE row == [value |-> op[o].held[k], pass |-> op[o].pass]
<1>1. ~mixed /\ UNCHANGED <<cache, passphrase, latest, late>>
  BY DEF WriteOne, history
<1>2. /\ OnlyMoves(o) /\ op[o].at = "writing" /\ k \in op[o].todo /\ op'[o].at = "writing"
      /\ op'[o].pass = op[o].pass /\ op'[o].held = op[o].held
      /\ op'[o].todo = op[o].todo \ {k}
      /\ row \in Row
      /\ rows' = [rows EXCEPT ![k] = row]
  BY WriteOneEffect
<1>3. Rotating = {o} /\ Rotating' \subseteq {o} /\ AloneInv' /\ LookupInv'
  BY <1>1, <1>2, RotatorFrame
<1>4. Rotating' = {o} /\ Writing = {o} /\ Writing' = {o}
  BY <1>2, <1>3 DEF Writing, Rotating
<1>5. /\ row # Nil /\ row.value = op[o].held[k] /\ row.pass = op[o].pass
      /\ rows'[k] = row
      /\ \A j \in Keys \ {k} : rows'[j] = rows[j]
  BY <1>2, NilIsNoRow DEF TypeOK
<1>6. op[o].held[k] > 0 /\ rows[k] # Nil /\ rows[k].value = op[o].held[k]
  BY <1>2, <1>3, <1>4 DEF Sound, HeldInv, TypeOK
<1> HIDE DEF row
<1>7. HeldInv'
  BY <1>2, <1>3, <1>4, <1>5, <1>6 DEF Sound, HeldInv
<1>8. PassInv'
  BY <1>1, <1>2, <1>4, <1>5 DEF Sound, PassInv, Present
<1>9. StoredIsLatest'
  BY <1>1, <1>5, <1>6 DEF Sound, StoredIsLatest, Keys
<1>10. CachedIsLatest'
  BY <1>1 DEF Sound, CachedIsLatest
<1> QED BY <1>3, <1>7, <1>8, <1>9, <1>10 DEF Sound

\* At the end of the write loop every row is under the next passphrase; where
\* a write fails before any was done, none is.
LEMMA AllWrittenKeepsSound ==
  ASSUME TypeOK, Sound, ~mixed', NEW o \in Ops, AllWritten(o)
  PROVE  Sound'
<1>1. /\ ~mixed /\ UNCHANGED <<rows, latest, late>>
      /\ op[o].at = "writing" /\ op[o].todo = {}
      /\ passphrase' = op[o].pass /\ cache' = Nothing
  BY DEF AllWritten, history
<1>2. OnlyMoves(o) /\ op'[o].at = "idle"
  BY EndsEffect DEF AllWritten
<1>3. Rotating = {o} /\ Rotating' \subseteq {o} /\ AloneInv' /\ LookupInv'
  BY <1>1, <1>2, RotatorFrame
<1>4. Rotating' = {} /\ Writing = {o} /\ Writing' = {}
  BY <1>1, <1>2, <1>3 DEF Writing, Rotating
<1>5. HeldInv' /\ PassInv'
  BY <1>1, <1>4 DEF Sound, HeldInv, PassInv, Present
<1>6. StoredIsLatest' /\ CachedIsLatest'
  BY <1>1 DEF Sound, StoredIsLatest, CachedIsLatest, Nothing
<1> QED BY <1>3, <1>5, <1>6 DEF Sound

LEMMA RotationFailsKeepsSound ==
  ASSUME TypeOK, Sound, ~mixed', NEW o \in Ops, RotationFails(o)
  PROVE  Sound'
<1>1. /\ ~mixed /\ UNCHANGED <<rows, cache, passphrase, latest, late>>
      /\ op[o].at = "writing"
      /\ \A k \in Keys \ op[o].todo : ~(op[o].held[k] > 0)
  BY DEF RotationFails
<1>2. OnlyMoves(o) /\ op'[o].at = "idle"
  BY EndsEffect DEF RotationFails
<1>3. Rotating = {o} /\ Rotating' \subseteq {o} /\ AloneInv' /\ LookupInv'
  BY <1>1, <1>2, RotatorFrame
<1>4. Rotating' = {} /\ Writing = {o} /\ Writing' = {}
  BY <1>1, <1>2, <1>3 DEF Writing, Rotating
<1>5. \A k \in Present : k \in op[o].todo
  BY <1>1, <1>3 DEF Sound, HeldInv, Present
<1>6. HeldInv' /\ PassInv'
  BY <1>1, <1>4, <1>5 DEF Sound, HeldInv, PassInv, Present
<1>7. StoredIsLatest' /\ CachedIsLatest'
  BY <1>1 DEF Sound, StoredIsLatest, CachedIsLatest
<1> QED BY <1>3, <1>6, <1>7 DEF Sound

\* A restore brings rows under the passphrase in use, while nothing rotates.
LEMMA RestoreKeepsSound ==
  ASSUME TypeOK, Sound, ~mixed', NEW overwrite \in BOOLEAN, Restore(overwrite)
  PROVE  Sound'
<1> DEFINE taken == {k \in Keys : backup[k] # Nil /\ (overwrite \/ rows[k] = Nil)}
<1>1. /\ rows' = [k \in Keys |-> IF k \in taken THEN backup[k] ELSE rows[k]]
      /\ latest' = [k \in Keys |-> IF k \in taken THEN backup[k].value ELSE latest[k]]
      /\ late' = late \cup {k \in taken : cache[k] # 0 \/ Getting(k) # {}}
      /\ ~mixed /\ Rotating = {} /\ \A k \in taken : backup[k].pass = passphrase
      /\ UNCHANGED <<cache, passphrase, op>>
  BY DEF Restore
<1>2. \A k \in taken : backup[k] # Nil /\ backup[k].value # 0
  BY NilIsNoRow DEF TypeOK
<1>3. Rotating' = {} /\ Writing = {} /\ Writing' = {}
  BY <1>1 DEF Rotating, Writing
<1> HIDE DEF taken
<1>4. AloneInv' /\ HeldInv'
  BY <1>1, <1>3 DEF Sound, AloneInv, HeldInv
<1>5. PassInv'
  BY <1>1, <1>3 DEF Sound, PassInv, Present
<1>6. LookupInv'
  <2> SUFFICES ASSUME NEW o \in Ops, op[o].at = "getting"
               PROVE  op[o].key \in late' \/ op[o].value = latest'[op[o].key]
    BY <1>1 DEF LookupInv
  <2>1. op[o].key \in Keys /\ o \in Getting(op[o].key)
    BY Fields DEF Getting
  <2> QED BY <1>1, <2>1 DEF Sound, LookupInv
<1>7. StoredIsLatest'
  BY <1>1, <1>2 DEF Sound, StoredIsLatest, Keys
<1>8. CachedIsLatest'
  BY <1>1 DEF Sound, CachedIsLatest
<1> QED BY <1>4, <1>5, <1>6, <1>7, <1>8 DEF Sound

\* A crash in no write loop leaves the passphrase in use.
LEMMA CrashKeepsSound ==
  ASSUME TypeOK, Sound, ~mixed', CrashRestart
  PROVE  Sound'
<1>1. /\ ~mixed /\ Writing = {} /\ passphrase' = passphrase /\ cache' = Nothing
      /\ op' = [o \in Ops |-> Idle]
      /\ UNCHANGED <<rows, latest, late>>
  BY DEF CrashRestart
<1>2. /\ \A o \in Ops : op'[o].at = "idle"
      /\ Rotating' = {} /\ Writing' = {}
  BY <1>1 DEF Rotating, Writing, Idle
<1>3. AloneInv' /\ HeldInv' /\ LookupInv'
  BY <1>2 DEF AloneInv, HeldInv, LookupInv
<1>4. PassInv'
  BY <1>1, <1>2 DEF Sound, PassInv, Present
<1>5. StoredIsLatest' /\ CachedIsLatest'
  BY <1>1 DEF Sound, StoredIsLatest, CachedIsLatest, Nothing
<1> QED BY <1>3, <1>4, <1>5 DEF Sound

\* Locking and exporting touch neither the rows nor an execution.
LEMMA LockKeepsSound ==
  ASSUME TypeOK, Sound, ~mixed', Lock \/ Export \/ UNCHANGED vars
  PROVE  Sound'
<1>1. ~mixed /\ (cache' = Nothing \/ cache' = cache)
      /\ UNCHANGED <<rows, passphrase, op, latest, late>>
  BY DEF Lock, Export, vars, history
<1>2. AloneInv' /\ HeldInv' /\ PassInv' /\ LookupInv'
  BY <1>1 DEF Sound, AloneInv, HeldInv, PassInv, LookupInv, Rotating, Writing, Present
<1>3. StoredIsLatest' /\ CachedIsLatest'
  BY <1>1 DEF Sound, StoredIsLatest, CachedIsLatest, Nothing
<1> QED BY <1>2, <1>3 DEF Sound

\* The invariant holds at first and every step keeps it.
LEMMA InvInductive ==
  /\ Init => Inv
  /\ Inv /\ [Next]_vars => Inv'
<1>1. ASSUME Init
      PROVE  Inv
  <2>1. \A o \in Ops : op[o] = Idle /\ op[o].at = "idle"
    BY <1>1 DEF Init, Idle
  <2>2. Rotating = {} /\ Writing = {} /\ Present = {}
    BY <1>1, <2>1 DEF Init, Rotating, Writing, Present, NoRows
  <2>3. TypeOK
    <3>1. op \in [Ops -> Operation]
      BY <1>1 DEF Init, Operation
    <3>2. rows \in [Keys -> Row \cup {Nil}] /\ backup \in [Keys -> Row \cup {Nil}]
      <4>1. rows = NoRows /\ backup = NoRows
        BY <1>1 DEF Init
      <4> QED BY <4>1 DEF NoRows
    <3>3. crashes \in 0..MaxCrashes
      BY <1>1, VaultAssumption DEF Init
    <3>4. late \subseteq Keys /\ mixed \in BOOLEAN
      BY <1>1, Zenon DEF Init
    <3> QED BY <1>1, <2>2, <3>1, <3>2, <3>3, <3>4, NothingType DEF Init, TypeOK
  <2>4. TodoInv /\ AloneInv /\ HeldInv /\ PassInv /\ LookupInv
    BY <2>1, <2>2 DEF TodoInv, AloneInv, HeldInv, PassInv, LookupInv
  <2>5. StoredIsLatest /\ CachedIsLatest
    BY <1>1 DEF Init, StoredIsLatest, CachedIsLatest, NoRows, Nothing, Keys
  <2> QED BY <2>3, <2>4, <2>5 DEF Inv, Sound
<1>2. ASSUME Inv, [Next]_vars
      PROVE  Inv'
  <2>1. TypeOK' /\ TodoInv'
    BY <1>2, TypeStep, TodoStep DEF Inv
  <2>2. ASSUME ~mixed'
        PROVE  Sound'
    <3>1. ~mixed
      <4>1. CASE \E o \in Ops : StepOf(o)
        BY <2>2, <4>1 DEF StepOf, Put, Get, EndPut, EndGet, Rotate, ReadOne, WriteOne,
                          AllRead, AllWritten, RotationFails, history
      <4>2. CASE ~ \E o \in Ops : StepOf(o)
        BY <1>2, <2>2, <4>2 DEF Next, StepOf, RegisterPublicIdentity, Restore, Lock,
                                Export, CrashRestart, history, vars
      <4> QED BY <4>1, <4>2
    <3>2. TypeOK /\ TodoInv /\ Sound
      BY <1>2, <3>1 DEF Inv
    <3>3. ASSUME NEW o \in Ops, StepOf(o)
          PROVE  Sound'
      BY <2>2, <3>2, <3>3, PutKeepsSound, GetKeepsSound, EndPutKeepsSound, EndGetKeepsSound,
         RotateKeepsSound, ReadOneKeepsSound, AllReadKeepsSound, WriteOneKeepsSound,
         AllWrittenKeepsSound, RotationFailsKeepsSound DEF StepOf
    <3>4. ASSUME ~ \E o \in Ops : StepOf(o)
          PROVE  Sound'
      BY <1>2, <2>2, <3>2, <3>4, RegisterPublicKeepsSound, RestoreKeepsSound,
         CrashKeepsSound, LockKeepsSound DEF Next, StepOf
    <3> QED BY <3>3, <3>4
  <2> QED BY <2>1, <2>2 DEF Inv
<1> QED BY <1>1, <1>2

\* The inductive invariant holds in every reachable state.
THEOREM InvCorrect == Spec => []Inv
BY InvInductive, PTL DEF Spec

\* Every variable of the vault and the key store has its type; a rotation
\* never reads a row that is not there and never writes a null.
THEOREM TypeCorrect == Spec => []TypeOK
<1>1. Inv => TypeOK
  BY DEF Inv
<1> QED BY <1>1, InvCorrect, PTL

\* Every row can be read, with the passphrase in use or, while a rotation
\* writes, with the next one.
THEOREM ReadableCorrect == Spec => []Readable
<1>1. Inv => Readable
  BY DEF Inv, Sound, PassInv, Readable
<1> QED BY <1>1, InvCorrect, PTL

\* Every row holds the material last registered or restored.
THEOREM StoredIsLatestCorrect == Spec => []StoredIsLatest
<1>1. Inv => StoredIsLatest
  BY DEF Inv, Sound, StoredIsLatest
<1> QED BY <1>1, InvCorrect, PTL

\* A cached key is the latest, unless it is named in late.
THEOREM CachedIsLatestCorrect == Spec => []CachedIsLatest
<1>1. Inv => CachedIsLatest
  BY DEF Inv, Sound, CachedIsLatest
<1> QED BY <1>1, InvCorrect, PTL
=============================================================================
