--------------------------- MODULE StoreContract ---------------------------
(***************************************************************************)
(* What the Concierge store promises its callers: a set of content-        *)
(* addressed blocks, a map from names to block identifiers in which every  *)
(* write concerns one name, and a reclaimer that may delete a block only   *)
(* when it holds a receipt for it and nothing that is kept needs it.       *)
(*                                                                         *)
(* The promise is the one the documentation of the garbage collector makes *)
(* (src/crates/mem/src/gc.rs:20-22): the closure of everything kept is     *)
(* complete, and the only links left dangling are the parent pointers of   *)
(* checkpoints into the trimmed tail of the checkpoint chain.              *)
(***************************************************************************)
EXTENDS BlockGraph

VARIABLES
  names,        \* names[n]: the block name n is bound to, or NoCid
  blocks,       \* the blocks on disk
  receipts,     \* the blocks a tombstone explains the absence of
  tail          \* the checkpoints retention has decided to let go

vars == <<names, blocks, receipts, tail>>

----------------------------------------------------------------------------
Init ==
  /\ names = [n \in Name |-> NoCid]
  /\ blocks = {}
  /\ receipts = {}
  /\ tail = {}

Put(c) ==
  /\ blocks' = blocks \cup {c}
  /\ UNCHANGED <<names, receipts, tail>>

\* One name changes; unbinding is binding to NoCid.
Bind(n, c) ==
  /\ names' = [names EXCEPT ![n] = c]
  /\ UNCHANGED <<blocks, receipts, tail>>

Certify(S) ==
  /\ receipts' = receipts \cup S
  /\ UNCHANGED <<names, blocks, tail>>

\* Retention decides once what it lets go, on the chain as it is then: while
\* it removes that tail one checkpoint at a time, the chain ends earlier.
LetGo ==
  /\ tail' = Trimmed(names, blocks)
  /\ UNCHANGED <<names, blocks, receipts>>

\* Retention has ended, or was interrupted.
Rest ==
  /\ tail' = {}
  /\ UNCHANGED <<names, blocks, receipts>>

Reclaim(c) ==
  /\ c \in blocks \cap receipts
  /\ c \notin Needed(names, blocks, tail)
  /\ c \notin Tip(names, blocks)
  /\ blocks' = blocks \ {c}
  /\ UNCHANGED <<names, receipts, tail>>

Next ==
  \/ \E c \in Cid : Put(c) \/ Reclaim(c)
  \/ \E n \in Name, c \in Cid \cup {NoCid} : Bind(n, c)
  \/ \E S \in SUBSET blocks : Certify(S)
  \/ LetGo \/ Rest

Spec == Init /\ [][Next]_vars
============================================================================
