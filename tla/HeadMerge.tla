----------------------------- MODULE HeadMerge -----------------------------
(***************************************************************************)
(* Heads that diverged while devices were apart (core/src/merge.rs): those *)
(* that are ancestors of others are collapsed, the rest stay side by side  *)
(* until a merge of them is accepted, which becomes one more head. Chains  *)
(* are followed over the parents of checkpoints, up to a block that was    *)
(* collected; a block that is missing is an error.                         *)
(*                                                                         *)
(* Authority and signatures are left out. A pull that ends brings all that *)
(* the peer has (HeadSync is about the one that does not).                 *)
(***************************************************************************)
EXTENDS Integers, FiniteSets, Sequences

CONSTANTS
  Device,
  MaxBlocks,    \* bound: the checkpoints and merges there will be
  Faults        \* "trim": retention collects checkpoints

VARIABLES
  made,         \* every block: its parent, 0 for none, and what it merges
  has,          \* the blocks a device has
  tombs,        \* the blocks it collected
  heads,        \* its heads
  known         \* the blocks that ever were among its heads

vars == <<made, has, tombs, heads, known>>

Block == 1..MaxBlocks

Init ==
  /\ made = <<>>
  /\ has = [d \in Device |-> {}] /\ tombs = [d \in Device |-> {}]
  /\ heads = [d \in Device |-> {}] /\ known = [d \in Device |-> {}]

TypeOK ==
  /\ made \in Seq([parent : 0..MaxBlocks, merges : SUBSET Block])
  /\ has \in [Device -> SUBSET Block] /\ tombs \in [Device -> SUBSET Block]
  /\ heads \in [Device -> SUBSET Block] /\ known \in [Device -> SUBSET Block]
  /\ Len(made) <= MaxBlocks

----------------------------------------------------------------------------
\* checkpoint_parent: none for a merge and for what was collected.
Parent(d, b) == IF b \in tombs[d] THEN 0 ELSE made[b].parent
\* The blocks met on the way up from b.
Ancestors(d, b) ==
  {a \in Block : \A S \in SUBSET Block :
     /\ Parent(d, b) \in S \cup {0}
     /\ \A n \in S \cap DOMAIN made : Parent(d, n) \in S \cup {0}
     => a \in S}
\* What a block was made from.
Under(b) == made[b].merges \cup ({made[b].parent} \ {0})
\* What a block stands on, itself too, over parents and merges, collected or
\* not.
History(b) ==
  {a \in Block : \A S \in SUBSET Block :
     b \in S /\ (\A n \in S \cap DOMAIN made : Under(n) \subseteq S) => a \in S}

\* A slip: the question is asked the wrong way round.
TipsReversed(d) ==
  {h \in heads[d] : \A o \in heads[d] \ {h} : o \notin Ancestors(d, h)}
\* merge_heads: what is no ancestor of another head.
Tips(d) ==
  {h \in heads[d] : \A o \in heads[d] \ {h} : h \notin Ancestors(d, o)}

Add(d, block) ==
  /\ Len(made) < MaxBlocks
  /\ made' = Append(made, block)
  /\ has' = [has EXCEPT ![d] = @ \cup {Len(made')}]
Becomes(d, H) ==
  /\ heads' = [heads EXCEPT ![d] = H]
  /\ known' = [known EXCEPT ![d] = @ \cup H]

----------------------------------------------------------------------------
\* A device goes on from one of its heads, or begins.
Checkpoint(d, h) ==
  /\ Add(d, [parent |-> h, merges |-> {}])
  /\ Becomes(d, (heads[d] \ {h}) \cup {Len(made')})
  /\ UNCHANGED tombs

\* A sync: the blocks of the peer, and the union of the heads.
Pull(d, e) ==
  /\ has' = [has EXCEPT ![d] = @ \cup (has[e] \ tombs[d])]
  /\ Becomes(d, heads[d] \cup heads[e])
  /\ UNCHANGED <<made, tombs>>

\* merge_heads of several heads, which fails on a chain it cannot follow.
Resolve(d) ==
  /\ Cardinality(heads[d]) >= 2
  /\ \A h \in heads[d] : {h} \cup Ancestors(d, h) \subseteq has[d] \cup tombs[d]
  /\ Becomes(d, Tips(d))
  /\ UNCHANGED <<made, has, tombs>>

\* apply_merge: the node is the same wherever the same heads are merged.
Accept(d) ==
  /\ Cardinality(heads[d]) >= 2
  /\ LET merge == [parent |-> 0, merges |-> heads[d]]
         same == {b \in DOMAIN made : made[b] = merge}
     IN IF same = {} THEN Add(d, merge) /\ Becomes(d, heads[d] \cup {Len(made')})
        ELSE /\ has' = [has EXCEPT ![d] = @ \cup same]
             /\ Becomes(d, heads[d] \cup same)
             /\ UNCHANGED made
  /\ UNCHANGED tombs

\* Retention collects an old checkpoint.
Trim(d, b) ==
  /\ "trim" \in Faults
  /\ b \in has[d] \ heads[d]
  /\ has' = [has EXCEPT ![d] = @ \ {b}]
  /\ tombs' = [tombs EXCEPT ![d] = @ \cup {b}]
  /\ UNCHANGED <<made, heads, known>>

Next ==
  \E d \in Device :
    \/ \E h \in heads[d] \cup {0} : Checkpoint(d, h)
    \/ \E e \in Device \ {d} : Pull(d, e)
    \/ Resolve(d) \/ Accept(d)
    \/ \E b \in Block : Trim(d, b)

Spec == Init /\ [][Next]_vars

----------------------------------------------------------------------------
\* No branch is discarded: what was ever a head of a device is one still or
\* lies under one, whatever was pulled, collapsed, merged and collected since
\* (merge.rs, its head comment).
BranchesKept ==
  \A d \in Device : known[d] \subseteq UNION {History(h) : h \in heads[d]}
============================================================================
