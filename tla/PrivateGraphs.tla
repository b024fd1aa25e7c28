--------------------------- MODULE PrivateGraphs ---------------------------
(***************************************************************************)
(* Encrypted copies of plaintext graphs (core/src/private.rs): a copy is   *)
(* encrypted under fresh keys, its blocks are stored, its key is sealed in *)
(* the vault, the source is locked and the copy is entered in the index,   *)
(* which holds one copy of a source. A rotation replaces the copy by one   *)
(* under new keys. All of it runs under the policy lock, which the death   *)
(* of the process gives up. A tree stands for its root, keys and blocks.   *)
(***************************************************************************)
EXTENDS Integers

CONSTANTS
  Proc,         \* the processes and threads
  Source,       \* the plaintext graphs
  MaxTree,      \* bound: the trees ever encrypted
  None

VARIABLES
  made,         \* how many trees were encrypted
  blocks,       \* the trees whose blocks are all in the store
  vault,        \* the trees whose key is sealed in the vault
  index,        \* private-index.json: the copy of each source
  locks,        \* the sources locked against plaintext egress
  guard,        \* who holds the policy lock
  pc,           \* where each process stands
  job           \* the source, the tree and the vault as it was read

files == <<blocks, vault, index, locks>>
vars == <<made, files, guard, pc, job>>

Tree == 1..MaxTree
Job == [source : Source, tree : 0..MaxTree, vault : SUBSET Tree,
        kind : {"convert", "rotate", "pin"}]

Init ==
  /\ made = 0 /\ blocks = {} /\ vault = {} /\ locks = {}
  /\ index = [x \in Source |-> None]
  /\ guard = None
  /\ pc = [p \in Proc |-> "idle"]
  /\ job = [p \in Proc |-> CHOOSE j \in Job : j.tree = 0 /\ j.vault = {}]

TypeOK ==
  /\ made \in 0..MaxTree /\ blocks \subseteq Tree /\ vault \subseteq Tree
  /\ index \in [Source -> Tree \cup {None}] /\ locks \subseteq Source
  /\ guard \in Proc \cup {None}
  /\ pc \in [Proc -> {"idle", "store", "open", "seal", "lock", "record"}]
  /\ job \in [Proc -> Job]

Goes(p, from, to) == pc[p] = from /\ pc' = [pc EXCEPT ![p] = to]
Leaves(p) == guard' = None /\ pc' = [pc EXCEPT ![p] = "idle"]

----------------------------------------------------------------------------
\* A slip: the policy lock is not taken.
BeginUnlocked(p, x, kind) ==
  /\ made < MaxTree
  /\ kind = "rotate" => index[x] \in blocks \cap vault
  /\ Goes(p, "idle", "store")
  /\ made' = made + 1
  /\ job' = [job EXCEPT ![p] = [source |-> x, tree |-> made', vault |-> {},
                                kind |-> kind]]
  /\ UNCHANGED <<files, guard>>

\* The plan, the password and the grant are checked under the lock; a rotation
\* opens the copy with its key. The graph is encrypted under fresh keys.
Begin(p, x, kind) ==
  /\ guard = None /\ guard' = p
  /\ made < MaxTree
  /\ kind = "rotate" => index[x] \in blocks \cap vault
  /\ Goes(p, "idle", "store")
  /\ made' = made + 1
  /\ job' = [job EXCEPT ![p] = [source |-> x, tree |-> made', vault |-> {},
                                kind |-> kind]]
  /\ UNCHANGED files

Store(p) ==
  /\ Goes(p, "store", "open")
  /\ blocks' = blocks \cup {job[p].tree}
  /\ UNCHANGED <<made, vault, index, locks, guard, job>>

\* add_capability_to_vault: the vault is opened ...
OpenVault(p) ==
  /\ Goes(p, "open", "seal")
  /\ job' = [job EXCEPT ![p].vault = vault]
  /\ UNCHANGED <<made, files, guard>>

\* ... and sealed with the new key; a copy made only to be pinned ends here.
SealVault(p) ==
  /\ pc[p] = "seal"
  /\ vault' = job[p].vault \cup {job[p].tree}
  /\ IF job[p].kind = "pin"
     THEN Leaves(p)
     ELSE /\ pc' = [pc EXCEPT ![p] =
                      IF job[p].kind = "convert" THEN "lock" ELSE "record"]
          /\ UNCHANGED guard
  /\ UNCHANGED <<made, blocks, index, locks, job>>

LockSource(p) ==
  /\ Goes(p, "lock", "record")
  /\ locks' = locks \cup {job[p].source}
  /\ UNCHANGED <<made, blocks, vault, index, guard, job>>

\* The copy replaces the one the index has of the source.
Record(p) ==
  /\ pc[p] = "record" /\ Leaves(p)
  /\ index' = [index EXCEPT ![job[p].source] = job[p].tree]
  /\ UNCHANGED <<made, blocks, vault, locks, job>>

\* The user unlocks the plaintext.
UnlockSource(x) ==
  /\ guard = None /\ x \in locks
  /\ locks' = locks \ {x}
  /\ UNCHANGED <<made, blocks, vault, index, guard, pc, job>>

Crash(p) ==
  /\ pc[p] # "idle"
  /\ pc' = [pc EXCEPT ![p] = "idle"]
  /\ guard' = IF guard = p THEN None ELSE guard
  /\ UNCHANGED <<made, files, job>>

\* A collection of the store keeps what names reach: no name reaches a copy.
Collect ==
  /\ blocks # {}
  /\ blocks' = {}
  /\ UNCHANGED <<made, vault, index, locks, guard, pc, job>>

Next ==
  \/ \E p \in Proc :
       \/ \E x \in Source, kind \in {"convert", "rotate", "pin"} :
            Begin(p, x, kind)
       \/ Store(p) \/ OpenVault(p) \/ SealVault(p) \/ LockSource(p)
       \/ Record(p) \/ Crash(p)
  \/ \E x \in Source : UnlockSource(x)

Spec == Init /\ [][Next]_vars

\* The same, with collections of the store in between.
SpecCollected == Init /\ [][Next \/ Collect]_vars

----------------------------------------------------------------------------
\* What was encrypted here can be opened here, though two processes convert at
\* once or one ends half-way: a copy the index lists has its key in the vault,
\* and what has its key in the vault has its blocks in the store.
CopiesOpen ==
  /\ \A x \in Source : index[x] # None => index[x] \in vault
  /\ vault \subseteq blocks
=============================================================================
