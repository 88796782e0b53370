------------------------------ MODULE KeyVault ------------------------------
(***************************************************************************)
(* The encrypted vault and the key store on top of it:                     *)
(* PersistentWebCryptoKeyStore (its passphrase and its three Maps, here    *)
(* cache), WebCryptoEncryptedJsonVault and the encrypted_vault_records     *)
(* table (rows).                                                           *)
(*                                                                         *)
(* A key is one entry of those Maps: a local identity, a direct-message    *)
(* secret, or the verification key of a remote peer.  A row can be read    *)
(* with the passphrase that encrypted it and with no other.  Deriving,     *)
(* encrypting and decrypting give the event loop away; reading or writing  *)
(* rows does not.  Op identities stand for executions in progress.         *)
(***************************************************************************)
EXTENDS Integers, FiniteSets

CONSTANTS Identities, \* local identities, each created once
          Secrets,    \* pairs of peers that can share a secret
          PeerKeys,   \* remote peers whose verification key is registered
          MaxValue,   \* bound: versions of the material of a key
          Passes,     \* passphrases
          Ops,        \* executions in progress at a time
          MaxCrashes, \* bound: crashes of the process
          Nil         \* no row

Keys   == Identities \cup Secrets \cup PeerKeys
Values == 1..MaxValue

ASSUME VaultAssumption ==
  /\ MaxValue \in Nat \ {0}
  /\ Passes # {}
  /\ MaxCrashes \in Nat
  /\ Nil \notin [value : Values, pass : Passes]
  /\ PeerKeys \cap (Identities \cup Secrets) = {}

VARIABLES rows,       \* encrypted_vault_records
          cache,      \* the key store's Maps: version of the material, 0 when absent
          passphrase, \* this.passphrase
          backup,     \* the last exported backup
          op,         \* what each execution is doing
          latest,     \* history: the material last registered or restored
          mixed,      \* history: the rows may be under several passphrases
          late,       \* history: keys replaced while a read was under way
          crashes     \* crashes so far

history == <<latest, mixed, late>>
vars    == <<rows, cache, passphrase, backup, op, history, crashes>>

-----------------------------------------------------------------------------
Row     == [value : Values, pass : Passes]
Nothing == [k \in Keys |-> 0]
NoRows  == [k \in Keys |-> Nil]
Present == {k \in Keys : rows[k] # Nil}

Idle == [at |-> "idle"]
Operation ==
  {Idle} \cup [at : {"putting"}, key : Keys, value : Values, pass : Passes]
         \cup [at : {"getting"}, key : Keys, value : Values]
         \cup [at : {"reading", "writing"}, pass : Passes, todo : SUBSET Keys,
               held : [Keys -> 0..MaxValue]]

Rotating == {o \in Ops : op[o].at \in {"reading", "writing"}}
Writing  == {o \in Ops : op[o].at = "writing"}
Putting(k) == {o \in Ops : op[o].at = "putting" /\ op[o].key = k}
Getting(k) == {o \in Ops : op[o].at = "getting" /\ op[o].key = k}

\* A rotation writes what it has read, and never a null.
TypeOK ==
  /\ rows \in [Keys -> Row \cup {Nil}]
  /\ cache \in [Keys -> 0..MaxValue]
  /\ passphrase \in Passes
  /\ backup \in [Keys -> Row \cup {Nil}]
  /\ op \in [Ops -> Operation]
  /\ \A o \in Writing : \A k \in op[o].todo : op[o].held[k] > 0
  /\ latest \in [Keys -> 0..MaxValue]
  /\ mixed \in BOOLEAN
  /\ late \subseteq Keys
  /\ crashes \in 0..MaxCrashes

Init ==
  /\ rows = NoRows
  /\ cache = Nothing
  /\ passphrase \in Passes
  /\ backup = NoRows
  /\ op = [o \in Ops |-> Idle]
  /\ latest = Nothing
  /\ mixed = FALSE
  /\ late = {}
  /\ crashes = 0

Begins(o, operation) ==
  /\ op[o] = Idle
  /\ op' = [op EXCEPT ![o] = operation]

Ends(o) == op' = [op EXCEPT ![o] = Idle]

-----------------------------------------------------------------------------
(* createIdentity, registerSharedSecret, registerPublicIdentity.           *)

\* putJson up to the encryption: it takes the passphrase of this moment.
Put(o, k, v) ==
  /\ k \in Identities => latest[k] = 0 /\ Putting(k) = {} /\ v = 1
  /\ Begins(o, [at |-> "putting", key |-> k, value |-> v, pass |-> passphrase])
  /\ mixed' = (mixed \/ Rotating # {})
  /\ UNCHANGED <<rows, cache, passphrase, backup, latest, late, crashes>>

\* The material of k is now v, for whoever registers it and in the cache; a
\* read of k that is under way will put the earlier one back there.
Registers(k, v) ==
  /\ cache' = [cache EXCEPT ![k] = v]
  /\ latest' = [latest EXCEPT ![k] = v]
  /\ late' = IF Getting(k) = {} THEN late \ {k} ELSE late \cup {k}

\* Mutant of EndPut: a row that is there already is kept.
EndPutIfAbsent(o) ==
  /\ op[o].at = "putting"
  /\ rows' = [rows EXCEPT ![op[o].key] =
                IF @ = Nil THEN [value |-> op[o].value, pass |-> op[o].pass] ELSE @]
  /\ Registers(op[o].key, op[o].value)
  /\ Ends(o)
  /\ UNCHANGED <<passphrase, backup, mixed, crashes>>

\* Mutant of EndPut: the Map is not updated.
EndPutUncached(o) ==
  /\ op[o].at = "putting"
  /\ rows' = [rows EXCEPT ![op[o].key] = [value |-> op[o].value, pass |-> op[o].pass]]
  /\ latest' = [latest EXCEPT ![op[o].key] = op[o].value]
  /\ Ends(o)
  /\ UNCHANGED <<cache, passphrase, backup, mixed, late, crashes>>

\* writeRecord (an upsert), then the Map.
EndPut(o) ==
  /\ op[o].at = "putting"
  /\ rows' = [rows EXCEPT ![op[o].key] = [value |-> op[o].value, pass |-> op[o].pass]]
  /\ Registers(op[o].key, op[o].value)
  /\ Ends(o)
  /\ UNCHANGED <<passphrase, backup, mixed, crashes>>

\* registerPublicIdentity of the persistent store: the Map and nothing else.
RegisterPublicIdentity(k, v) ==
  /\ Registers(k, v)
  /\ UNCHANGED <<rows, passphrase, backup, op, mixed, crashes>>

-----------------------------------------------------------------------------
(* getSigningKey, getVerificationKey, getSharedSecret.                     *)

\* Not cached, and the row can be read; otherwise the call returns or throws
\* and nothing changes.
Get(o, k) ==
  /\ cache[k] = 0
  /\ rows[k] # Nil
  /\ rows[k].pass = passphrase
  /\ Begins(o, [at |-> "getting", key |-> k, value |-> rows[k].value])
  /\ UNCHANGED <<rows, cache, passphrase, backup, history, crashes>>

EndGet(o) ==
  /\ op[o].at = "getting"
  /\ cache' = [cache EXCEPT ![op[o].key] = op[o].value]
  /\ Ends(o)
  /\ UNCHANGED <<rows, passphrase, backup, history, crashes>>

-----------------------------------------------------------------------------
(* rotatePassphrase: read every row, write every row, take the passphrase. *)

Rotate(o, next) ==
  /\ Begins(o, [at |-> "reading", pass |-> next, todo |-> Present, held |-> Nothing])
  /\ mixed' = (mixed \/ Rotating # {} \/ \E k \in Keys : Putting(k) # {})
  /\ UNCHANGED <<rows, cache, passphrase, backup, latest, late, crashes>>

\* getJson of one key; the rotation throws on a row it cannot read.
ReadOne(o, k) ==
  /\ op[o].at = "reading"
  /\ k \in op[o].todo
  /\ IF rows[k].pass = passphrase
       THEN op' = [op EXCEPT ![o].held[k] = rows[k].value, ![o].todo = @ \ {k}]
       ELSE Ends(o)
  /\ UNCHANGED <<rows, cache, passphrase, backup, history, crashes>>

AllRead(o) ==
  /\ op[o].at = "reading"
  /\ op[o].todo = {}
  /\ op' = [op EXCEPT ![o].at = "writing",
                      ![o].todo = {k \in Keys : op[o].held[k] > 0}]
  /\ UNCHANGED <<rows, cache, passphrase, backup, history, crashes>>

\* putJson of one held value under the next passphrase.
WriteOne(o, k) ==
  /\ op[o].at = "writing"
  /\ k \in op[o].todo
  /\ rows' = [rows EXCEPT ![k] = [value |-> op[o].held[k], pass |-> op[o].pass]]
  /\ op' = [op EXCEPT ![o].todo = @ \ {k}]
  /\ UNCHANGED <<cache, passphrase, backup, history, crashes>>

\* Mutant of AllWritten: the key store keeps the old passphrase.
AllWrittenUnset(o) ==
  /\ op[o].at = "writing"
  /\ op[o].todo = {}
  /\ cache' = Nothing
  /\ Ends(o)
  /\ UNCHANGED <<rows, passphrase, backup, history, crashes>>

\* this.passphrase = nextPassphrase, then lock().
AllWritten(o) ==
  /\ op[o].at = "writing"
  /\ op[o].todo = {}
  /\ passphrase' = op[o].pass
  /\ cache' = Nothing
  /\ Ends(o)
  /\ UNCHANGED <<rows, backup, history, crashes>>

\* A write fails: the rows written so far stay written.
RotationFails(o) ==
  /\ op[o].at = "writing"
  /\ op[o].todo # {}
  /\ Ends(o)
  /\ mixed' = (mixed \/ \E k \in Keys \ op[o].todo : op[o].held[k] > 0)
  /\ UNCHANGED <<rows, cache, passphrase, backup, latest, late, crashes>>

-----------------------------------------------------------------------------
(* lock, exportEncryptedBackup, restoreEncryptedBackup, and a crash.       *)

Lock ==
  /\ cache' = Nothing
  /\ UNCHANGED <<rows, passphrase, backup, op, history, crashes>>

Export ==
  /\ backup' = rows
  /\ UNCHANGED <<rows, cache, passphrase, op, history, crashes>>

\* Rows present already are kept unless overwrite; the Maps are left alone.
Restore(overwrite) ==
  LET taken == {k \in Keys : backup[k] # Nil /\ (overwrite \/ rows[k] = Nil)} IN
  /\ rows' = [k \in Keys |-> IF k \in taken THEN backup[k] ELSE rows[k]]
  /\ latest' = [k \in Keys |-> IF k \in taken THEN backup[k].value ELSE latest[k]]
  /\ late' = late \cup {k \in taken : cache[k] # 0 \/ Getting(k) # {}}
  /\ mixed' = \/ mixed
              \/ Rotating # {}
              \/ \E k \in taken : backup[k].pass # passphrase
  /\ UNCHANGED <<cache, passphrase, backup, op, crashes>>

\* The rows survive; whoever restarts the daemon gives it the passphrase in
\* use, or the next one of a rotation that was being written.
CrashRestart ==
  /\ crashes < MaxCrashes
  /\ crashes' = crashes + 1
  /\ op' = [o \in Ops |-> Idle]
  /\ cache' = Nothing
  /\ passphrase' \in {passphrase} \cup {op[o].pass : o \in Writing}
  /\ mixed' = (mixed \/ Writing # {})
  /\ UNCHANGED <<rows, backup, latest, late>>

-----------------------------------------------------------------------------
Next ==
  \/ \E o \in Ops :
       \/ \E k \in Identities \cup Secrets : \/ \E v \in Values : Put(o, k, v)
                                             \/ Get(o, k)
       \/ EndPut(o) \/ EndGet(o)
       \/ \E p \in Passes : Rotate(o, p)
       \/ \E k \in Keys : ReadOne(o, k) \/ WriteOne(o, k)
       \/ AllRead(o) \/ AllWritten(o) \/ RotationFails(o)
  \/ \E k \in PeerKeys, v \in Values : RegisterPublicIdentity(k, v)
  \/ \E overwrite \in BOOLEAN : Restore(overwrite)
  \/ Lock \/ Export \/ CrashRestart

Spec == Init /\ [][Next]_vars

-----------------------------------------------------------------------------
(* Unless two writers of the vault met, a rotation broke off in its write  *)
(* loop, or a backup under another passphrase was restored, every row can  *)
(* be read with the passphrase the key store holds; while a rotation       *)
(* writes, with that one or the next (rotatePassphrase, putJson).          *)
Readable ==
  \A k \in Present :
    ~mixed => \/ rows[k].pass = passphrase
              \/ \E o \in Writing : k \notin op[o].todo /\ rows[k].pass = op[o].pass

(* Under the same condition each row holds the material last registered or *)
(* restored for its key, through rotations, reads, locks and crashes: a    *)
(* rotation writes back what it read, never something older (EndPut,       *)
(* rotatePassphrase, restoreEncryptedBackup).                              *)
StoredIsLatest ==
  ~mixed => \A k \in Identities \cup Secrets :
              IF latest[k] = 0 THEN rows[k] = Nil
                               ELSE rows[k] # Nil /\ rows[k].value = latest[k]

(* A cached key is the one last registered or restored, unless it was      *)
(* replaced while a lookup was decrypting the row, or replaced by a        *)
(* restore, which leaves the Maps alone, or rotated back (getSharedSecret, *)
(* getSigningKey, registerSharedSecret).                                   *)
CachedIsLatest ==
  ~mixed => \A k \in Keys : cache[k] # 0 => k \in late \/ cache[k] = latest[k]

(* docs/progress.md line 38 lists "persisted remote verification-key       *)
(* references": a registered key can be found again, cached or in a row.   *)
(* The persistent store's registerPublicIdentity writes no row.            *)
RegisteredIsKept ==
  ~mixed => \A k \in Keys : latest[k] # 0 => cache[k] # 0 \/ rows[k] # Nil
=============================================================================
