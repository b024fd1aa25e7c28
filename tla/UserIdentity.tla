---------------------------- MODULE UserIdentity ----------------------------
(***************************************************************************)
(* The user's identity (core/src/recovery.rs): a log of signed operations, *)
(* the first naming the user and the recovery key, each later one naming a *)
(* new active key, signed by the active or the recovery key of its time.   *)
(* log.json, user.key and recovery.key are three files written one after   *)
(* the other, by commands that take no lock. A file is taken to be written *)
(* whole or not at all.                                                    *)
(***************************************************************************)
EXTENDS Sequences, Integers

CONSTANTS
  Command,      \* the processes that run a command
  MaxKey,       \* bound: the number of keys ever generated
  Overlaps      \* together: two commands at once; crash: one ends half-way

VARIABLES
  userKey,      \* user.key; 0: the file is missing
  recoveryKey,  \* recovery.key, likewise
  log,          \* log.json; <<>>: the file is missing
  fresh,        \* how many keys have been generated
  pc,           \* what each command has left to write
  draft,        \* the log each command is about to write
  newKey        \* the key each command has generated

files == <<userKey, recoveryKey, log>>
vars == <<files, fresh, pc, draft, newKey>>

Key == 1..MaxKey
Op == [signer : Key, active : Key, recovery : Key]

Init ==
  /\ userKey = 0 /\ recoveryKey = 0 /\ log = <<>> /\ fresh = 0
  /\ pc = [c \in Command |-> "idle"]
  /\ draft = [c \in Command |-> <<>>]
  /\ newKey = [c \in Command |-> 0]

TypeOK ==
  /\ userKey \in 0..MaxKey /\ recoveryKey \in 0..MaxKey /\ fresh \in 0..MaxKey
  /\ log \in Seq(Op)
  /\ pc \in [Command -> {"idle", "recovery.key", "user.key", "log.json"}]
  /\ draft \in [Command -> Seq(Op)] /\ newKey \in [Command -> 0..MaxKey]

May(c) ==
  pc[c] = "idle" /\ ("together" \in Overlaps \/ \A d \in Command : pc[d] = "idle")

----------------------------------------------------------------------------
\* verify_and_resolve: every operation is signed by the key active then or by
\* the recovery key, which never changes.
Resolves(l) ==
  /\ l # <<>> => l[1].signer = l[1].active
  /\ \A i \in 2..Len(l) : /\ l[i].recovery = l[1].recovery
                          /\ l[i].signer \in {l[i-1].active, l[1].recovery}

\* user_identity: the key in user.key, generated if there is none.
Touch ==
  /\ userKey = 0 /\ fresh < MaxKey
  /\ fresh' = fresh + 1 /\ userKey' = fresh'
  /\ UNCHANGED <<recoveryKey, log, pc, draft, newKey>>

Establish(c) ==
  /\ May(c) /\ log = <<>> /\ userKey # 0 /\ fresh < MaxKey
  /\ fresh' = fresh + 1
  /\ newKey' = [newKey EXCEPT ![c] = fresh']
  /\ draft' = [draft EXCEPT ![c] =
       <<[signer |-> userKey, active |-> userKey, recovery |-> fresh']>>]
  /\ pc' = [pc EXCEPT ![c] = "recovery.key"]
  /\ UNCHANGED files

\* A slip: the extended log is not verified before it is committed.
AppendUnverified(c, signer) ==
  /\ May(c) /\ log # <<>> /\ signer # 0 /\ fresh < MaxKey
  /\ fresh' = fresh + 1
  /\ newKey' = [newKey EXCEPT ![c] = fresh']
  /\ draft' = [draft EXCEPT ![c] =
       Append(log, [signer |-> signer, active |-> fresh',
                    recovery |-> log[1].recovery])]
  /\ pc' = [pc EXCEPT ![c] = "user.key"]
  /\ UNCHANGED files

\* An operation that signs in a new active key; a log that would not verify
\* ends the command.
Extend(c, signer) ==
  /\ May(c) /\ log # <<>> /\ signer # 0 /\ fresh < MaxKey
  /\ fresh' = fresh + 1
  /\ newKey' = [newKey EXCEPT ![c] = fresh']
  /\ draft' = [draft EXCEPT ![c] =
       Append(log, [signer |-> signer, active |-> fresh',
                    recovery |-> log[1].recovery])]
  /\ Resolves(draft'[c])
  /\ pc' = [pc EXCEPT ![c] = "user.key"]
  /\ UNCHANGED files

Rotate(c) == Extend(c, userKey)
Recover(c) ==
  /\ log # <<>> /\ log[1].recovery = recoveryKey
  /\ Extend(c, recoveryKey)

SaveRecovery(c) ==
  /\ pc[c] = "recovery.key"
  /\ recoveryKey' = newKey[c]
  /\ pc' = [pc EXCEPT ![c] = "log.json"]
  /\ UNCHANGED <<userKey, log, fresh, draft, newKey>>

SaveActive(c) ==
  /\ pc[c] = "user.key"
  /\ userKey' = newKey[c]
  /\ pc' = [pc EXCEPT ![c] = "log.json"]
  /\ UNCHANGED <<recoveryKey, log, fresh, draft, newKey>>

WriteLog(c) ==
  /\ pc[c] = "log.json"
  /\ log' = draft[c]
  /\ pc' = [pc EXCEPT ![c] = "idle"]
  /\ UNCHANGED <<userKey, recoveryKey, fresh, draft, newKey>>

Crash(c) ==
  /\ "crash" \in Overlaps /\ pc[c] # "idle"
  /\ pc' = [pc EXCEPT ![c] = "idle"]
  /\ UNCHANGED <<files, fresh, draft, newKey>>

\* The device that held user.key is gone; log and recovery key were backed up.
LoseActive ==
  /\ userKey # 0 /\ log # <<>> /\ \A c \in Command : pc[c] = "idle"
  /\ userKey' = 0
  /\ UNCHANGED <<recoveryKey, log, fresh, pc, draft, newKey>>

Next ==
  \/ Touch \/ LoseActive
  \/ \E c \in Command :
       \/ Establish(c) \/ Rotate(c) \/ Recover(c) \/ SaveRecovery(c)
       \/ SaveActive(c) \/ WriteLog(c) \/ Crash(c)

Spec == Init /\ [][Next]_vars

----------------------------------------------------------------------------
\* Whatever command stopped half-way and whatever key was lost or replaced, an
\* identity that was established can still be recovered: its log verifies and
\* the recovery key on disk is the one the log names.
IdentityRecoverable ==
  log # <<>> => Resolves(log) /\ recoveryKey = log[1].recovery
=============================================================================
