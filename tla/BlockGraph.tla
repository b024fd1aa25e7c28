----------------------------- MODULE BlockGraph -----------------------------
(***************************************************************************)
(* The graph of content-addressed blocks and what retention says about it. *)
(* A block's identifier is the hash of its content, so what it links to    *)
(* never changes: the graph is a constant, and the disk holds a subset of  *)
(* it at any time.                                                         *)
(***************************************************************************)
EXTENDS Integers, Sequences, FiniteSets

CONSTANTS
  Cid,          \* the block identifiers: one per content that is ever stored
  NoCid,        \* no block: an unbound name, a checkpoint without parent
  Name,         \* the names that can be bound
  Latest,       \* the name bound to the head of the checkpoint chain
  Keep,         \* how many of the newest checkpoints retention keeps
  Links,        \* Links[c]: the blocks that block c links to
  Parent,       \* Parent[c]: the parent a checkpoint links to, or NoCid
  Checkpoint,   \* the blocks that are checkpoints
  Decision      \* the blocks that are decisions

ASSUME BlockGraphAssumption ==
  /\ IsFiniteSet(Cid) /\ NoCid \notin Cid
  /\ Latest \in Name
  /\ Keep \in Nat
  /\ Links \in [Cid -> SUBSET Cid]
  /\ Parent \in [Cid -> Cid \cup {NoCid}]
  /\ Checkpoint \subseteq Cid
  /\ Decision \subseteq Cid
  /\ Checkpoint \cap Decision = {}

(***************************************************************************)
(* The checkpoint chain, newest first, as the walk over parent pointers    *)
(* finds it on a given disk from a given head: it ends at the first block  *)
(* that is absent, not a checkpoint, or already visited.                   *)
(***************************************************************************)
ChainFrom(head, disk) ==
  LET walk[k \in 0..Cardinality(Cid)] ==
        IF k = 0 THEN <<>>
        ELSE LET before == walk[k - 1]
                 cursor == IF before = <<>> THEN head
                                            ELSE Parent[before[Len(before)]]
             IN  IF /\ cursor \in disk \cap Checkpoint
                    /\ \A i \in DOMAIN before : before[i] # cursor
                 THEN Append(before, cursor)
                 ELSE before
  IN  walk[Cardinality(Cid)]

Bound(map) == {c \in Cid : \E n \in Name : map[n] = c}

\* A slip: a checkpoint that has a name is let go as well.
TrimmedTail(map, disk) ==
  LET chain == ChainFrom(map[Latest], disk)
  IN  {c \in Checkpoint : \E i \in DOMAIN chain : i > Keep /\ chain[i] = c}

\* The checkpoints retention lets go: past the newest Keep, and not named.
Trimmed(map, disk) ==
  LET chain == ChainFrom(map[Latest], disk)
  IN  {c \in Checkpoint : \E i \in DOMAIN chain : i > Keep /\ chain[i] = c}
        \ Bound(map)

\* The newest Keep checkpoints of the chain.
Tip(map, disk) ==
  LET chain == ChainFrom(map[Latest], disk)
  IN  {c \in Checkpoint : \E i \in DOMAIN chain : i <= Keep /\ chain[i] = c}

(***************************************************************************)
(* Closed(S, disk, cut): S contains every block on the disk that one of    *)
(* its blocks links to, a parent pointer into cut excepted.                *)
(* Needed(...) is the least such set that contains the roots: the blocks   *)
(* that are named and the decisions.                                       *)
(***************************************************************************)
Closed(S, disk, cut) ==
  \A a \in S : \A b \in Links[a] \cap disk :
     ~(b \in cut /\ Parent[a] = b) => b \in S

Needed(map, disk, cut) ==
  {c \in disk :
     \A S \in SUBSET disk :
        ((Bound(map) \cup Decision) \cap disk \subseteq S /\ Closed(S, disk, cut))
           => c \in S}

=============================================================================
