---------------------------- MODULE SharingProofs ----------------------------
(***************************************************************************)
(* Theorems of the components of SharingServices, for any number of        *)
(* devices, sites, callers and records.                                    *)
(***************************************************************************)
EXTENDS SharingServices, Sequences, TLAPS, WellFoundedInduction

----------------------------------------------------------------------------
(* Heads that are pulled. What the blocks of a device link to is there, is  *)
(* in the queue of its pull, or was when a pull was cut.                   *)

PullsCover ==
  \A d \in Device :
    /\ heads[d] \subseteq has[d]
    /\ \A c \in has[d] : Links[c] \subseteq has[d] \cup queue[d] \cup gaps[d]
    /\ IF syncPc[d] = "idle" THEN queue[d] = {}
       ELSE /\ adopt[d] \subseteq has[d] \cup queue[d]
            /\ seen[d] \subseteq has[d]

HeadsInv == Heads!TypeOK /\ PullsCover

\* What is reached from a set is the least closed set around it.
LEMMA BelowIsLeast ==
  ASSUME NEW C \in SUBSET Cid
  PROVE  /\ C \subseteq Heads!Below(C) /\ Heads!Below(C) \subseteq Cid
         /\ Heads!Closed(Heads!Below(C))
         /\ \A S \in SUBSET Cid :
              C \subseteq S /\ Heads!Closed(S) => Heads!Below(C) \subseteq S
BY SharingAssumption DEF Heads!Below, Heads!Closed

LEMMA HeadsTypeStep ==
  ASSUME Heads!TypeOK, [Heads!Next]_(Heads!vars)
  PROVE  Heads!TypeOK'
<1> USE SharingAssumption DEF Heads!TypeOK, Heads!sync, Heads!Ends
<1>1. ASSUME NEW d \in Device, NEW c \in Cid,
             Heads!Write(d, c) \/ Heads!Publish(d, c)
      PROVE  Heads!TypeOK'
  BY <1>1 DEF Heads!Write, Heads!Publish
<1>2. ASSUME NEW d \in Device, NEW c \in Cid, Heads!Visit(d, c)
      PROVE  Heads!TypeOK'
  BY <1>2 DEF Heads!Visit
<1>3. ASSUME NEW d \in Device, NEW p \in Device, Heads!Begin(d, p)
      PROVE  Heads!TypeOK'
  BY <1>3 DEF Heads!Begin
<1>4. ASSUME NEW d \in Device, Heads!TimeOut(d) \/ Heads!Adopt(d)
      PROVE  Heads!TypeOK'
  BY <1>4 DEF Heads!TimeOut, Heads!Adopt
<1>5. CASE UNCHANGED Heads!vars
  BY <1>5 DEF Heads!vars
<1> QED BY <1>1, <1>2, <1>3, <1>4, <1>5 DEF Heads!Next

LEMMA InitHeads == Heads!Init => HeadsInv
BY DEF Heads!Init, Heads!TypeOK, PullsCover, HeadsInv

LEMMA HeadsStep ==
  ASSUME HeadsInv, [Heads!Next]_(Heads!vars)
  PROVE  HeadsInv'
<1> USE SharingAssumption DEF HeadsInv, Heads!TypeOK, Heads!sync, PullsCover
<1>1. ASSUME NEW d \in Device, NEW c \in Cid, Heads!Write(d, c)
      PROVE  PullsCover'
  BY <1>1 DEF Heads!Write
<1>2. ASSUME NEW d \in Device, NEW c \in Cid, Heads!Publish(d, c)
      PROVE  PullsCover'
  BY <1>2 DEF Heads!Publish
<1>3. ASSUME NEW d \in Device, NEW p \in Device, Heads!Begin(d, p)
      PROVE  PullsCover'
  BY <1>3 DEF Heads!Begin
<1>4. ASSUME NEW d \in Device, NEW c \in Cid, Heads!Visit(d, c)
      PROVE  PullsCover'
  BY <1>4 DEF Heads!Visit
<1>5. ASSUME NEW d \in Device, Heads!TimeOut(d) PROVE PullsCover'
  BY <1>5 DEF Heads!TimeOut, Heads!Ends
<1>6. ASSUME NEW d \in Device, Heads!Adopt(d) PROVE PullsCover'
  BY <1>6 DEF Heads!Adopt, Heads!Ends
<1>7. CASE UNCHANGED Heads!vars
  BY <1>7 DEF Heads!vars
<1> QED
  BY <1>1, <1>2, <1>3, <1>4, <1>5, <1>6, <1>7, HeadsTypeStep DEF Heads!Next

\* The heads of a device are complete there down to the last block, but for what
\* lies below a block that it waits for, or that a pull that was cut waited for
\* and nothing brought since: whatever the device and its peers write and publish
\* meanwhile, and however often a sync is cut (sync_from_peer).
THEOREM AdoptedHeadsAreWhole == Heads!Spec => []HeadsAreWhole
<1>1. ASSUME HeadsInv PROVE HeadsAreWhole
  <2> SUFFICES ASSUME NEW d \in Device, NEW h \in heads[d]
               PROVE  Heads!Below({h})
                        \subseteq has[d] \cup Heads!Below(Heads!Awaited(d))
    BY DEF HeadsAreWhole, Heads!HeadsAreWhole
  <2> DEFINE A == Heads!Awaited(d)
             S == has[d] \cup Heads!Below(A)
  <2>1. /\ A \in SUBSET Cid /\ has[d] \in SUBSET Cid
        /\ heads[d] \in SUBSET Cid /\ heads[d] \subseteq has[d]
    BY <1>1 DEF HeadsInv, Heads!TypeOK, PullsCover, Heads!Awaited
  <2>2. \A c \in has[d] : Links[c] \subseteq has[d] \cup A
    BY <1>1 DEF HeadsInv, PullsCover, Heads!Awaited
  <2> HIDE DEF A
  <2>3. A \subseteq Heads!Below(A) /\ Heads!Closed(Heads!Below(A))
        /\ Heads!Below(A) \subseteq Cid
    BY <2>1, BelowIsLeast
  <2>4. S \in SUBSET Cid /\ Heads!Closed(S) /\ {h} \subseteq S
    BY <2>1, <2>2, <2>3 DEF Heads!Closed
  <2>5. Heads!Below({h}) \subseteq S
    BY <2>1, <2>4, BelowIsLeast
  <2> QED BY <2>5 DEF A
<1>2. HeadsInv /\ [Heads!Next]_(Heads!vars) => HeadsInv'
  BY HeadsStep
<1> QED
  BY <1>1, <1>2, InitHeads, PTL DEF Heads!Spec

\* The types are kept.
LEMMA HeadsType == Heads!Spec => []Heads!TypeOK
<1>1. Heads!Init => Heads!TypeOK
  BY InitHeads DEF HeadsInv
<1>2. Heads!TypeOK /\ [Heads!Next]_(Heads!vars) => Heads!TypeOK'
  BY HeadsTypeStep
<1> QED BY <1>1, <1>2, PTL DEF Heads!Spec

\* While a device pulls, the heads it will adopt hold its own.
PullsAdd ==
  /\ syncPc \in [Device -> {"idle", "pull"}]
  /\ DOMAIN heads = Device /\ DOMAIN adopt = Device
  /\ \A d \in Device : syncPc[d] = "pull" => heads[d] \subseteq adopt[d]

\* When a device does not publish while it pulls, a sync never drops a head
\* it had (the union of reconcile).
THEOREM SyncKeepsHeads ==
  "publish" \notin SyncFaults => (Heads!Spec => Heads!HeadsAreKept)
<1> SUFFICES ASSUME "publish" \notin SyncFaults
             PROVE  Heads!Spec => Heads!HeadsAreKept
  OBVIOUS
<1> DEFINE Kept == \A d \in Device :
             syncPc[d] = "pull" /\ syncPc'[d] = "idle" => heads[d] \subseteq heads'[d]
<1>1. Heads!Init => PullsAdd
  BY DEF Heads!Init, PullsAdd
<1>2. PullsAdd /\ [Heads!Next]_(Heads!vars) => PullsAdd'
  <2> SUFFICES ASSUME PullsAdd, [Heads!Next]_(Heads!vars) PROVE PullsAdd'
    OBVIOUS
  <2> USE DEF PullsAdd, Heads!sync, Heads!Ends
  <2>1. ASSUME NEW d \in Device, NEW c \in Cid,
               Heads!Write(d, c) \/ Heads!Publish(d, c) \/ Heads!Visit(d, c)
        PROVE  PullsAdd'
    BY <2>1 DEF Heads!Write, Heads!Publish, Heads!Visit
  <2>2. ASSUME NEW d \in Device, NEW p \in Device, Heads!Begin(d, p) PROVE PullsAdd'
    BY <2>2 DEF Heads!Begin
  <2>3. ASSUME NEW d \in Device, Heads!TimeOut(d) \/ Heads!Adopt(d) PROVE PullsAdd'
    BY <2>3 DEF Heads!TimeOut, Heads!Adopt
  <2>4. CASE UNCHANGED Heads!vars
    BY <2>4 DEF Heads!vars
  <2> QED
    BY <2>1, <2>2, <2>3, <2>4 DEF Heads!Next
<1>3. PullsAdd /\ [Heads!Next]_(Heads!vars) => [Kept]_(Heads!vars)
  <2> SUFFICES ASSUME PullsAdd, Heads!Next PROVE Kept
    OBVIOUS
  <2> SUFFICES ASSUME NEW d \in Device, syncPc[d] = "pull", syncPc'[d] = "idle"
               PROVE  heads[d] \subseteq heads'[d]
    OBVIOUS
  <2>1. PICK e \in Device :
          \/ \E c \in Cid :
               Heads!Write(e, c) \/ Heads!Publish(e, c) \/ Heads!Visit(e, c)
          \/ \E p \in Device : Heads!Begin(e, p)
          \/ Heads!TimeOut(e) \/ Heads!Adopt(e)
    BY DEF Heads!Next
  <2>2. CASE \E c \in Cid :
               Heads!Write(e, c) \/ Heads!Publish(e, c) \/ Heads!Visit(e, c)
    BY <2>2 DEF Heads!Write, Heads!Publish, Heads!Visit, Heads!sync
  <2>3. CASE \E p \in Device : Heads!Begin(e, p)
    BY <2>3 DEF Heads!Begin, PullsAdd
  <2>4. CASE Heads!TimeOut(e)
    BY <2>4 DEF Heads!TimeOut, Heads!Ends
  <2>5. CASE Heads!Adopt(e)
    BY <2>5 DEF Heads!Adopt, Heads!Ends, PullsAdd
  <2> QED
    BY <2>1, <2>2, <2>3, <2>4, <2>5
<1> QED
  BY <1>1, <1>2, <1>3, PTL DEF Heads!Spec, Heads!HeadsAreKept

----------------------------------------------------------------------------
(* Heads that are merged. A head that is collapsed is an ancestor of       *)
(* another one; as blocks are made after what they stand on, the newest of *)
(* those that stand on it is collapsed by none.                            *)

LEMMA LeastElement ==
  ASSUME NEW T \in SUBSET Nat, T # {}
  PROVE  \E x \in T : \A y \in T : x <= y
<1> DEFINE R == {p \in Nat \X Nat : p[1] < p[2]}
<1>1. IsWellFoundedOn(R, Nat)
  BY NatLessThanWellFounded DEF OpToRel
<1>2. \A x, y \in Nat : y < x => <<y, x>> \in R
  OBVIOUS
<1> HIDE DEF R
<1>3. PICK x \in T : \A y \in T : ~ (<<y, x>> \in R)
  BY <1>1, WFMin
<1>4. ASSUME NEW y \in T PROVE x <= y
  <2>1. x \in Nat /\ y \in Nat
    OBVIOUS
  <2>2. ~(y < x)
    BY <1>2, <1>3, <2>1
  <2> QED
    BY <2>1, <2>2
<1> QED
  BY <1>4

LEMMA GreatestElement ==
  ASSUME NEW N \in Nat, NEW T \in SUBSET (0..N), T # {}
  PROVE  \E x \in T : \A y \in T : y <= x
<1> DEFINE U == {N - x : x \in T}
<1>1. \A x \in T : N - x \in Nat
  OBVIOUS
<1>2. U \in SUBSET Nat /\ U # {}
  BY <1>1
<1>3. PICK u \in U : \A v \in U : u <= v
  BY <1>2, LeastElement
<1>4. PICK x \in T : u = N - x
  BY <1>3
<1>5. ASSUME NEW y \in T PROVE y <= x
  <2>1. N - y \in U
    OBVIOUS
  <2>2. N - x <= N - y
    BY <1>3, <1>4, <2>1
  <2> QED
    BY <2>2
<1> QED
  BY <1>5

MergeBlock == [parent : 0..MaxBlocks, merges : SUBSET Merge!Block]

MergeTyped ==
  /\ nodes \in Seq(MergeBlock)
  /\ Len(nodes) <= MaxBlocks
  /\ tips \in [Device -> SUBSET (1..Len(nodes))]
  /\ known \in [Device -> SUBSET Merge!Block]

\* A block is made after those it stands on.
MadeInOrder ==
  \A n \in DOMAIN nodes :
    nodes[n].parent < n /\ nodes[n].merges \subseteq 1..(n - 1)

MergeInv == MergeTyped /\ MadeInOrder /\ Merge!BranchesKept

\* A block is part of its own history, and a history holds those of its
\* blocks.
LEMMA HistoryIsClosed ==
  /\ \A b \in Merge!Block : b \in Merge!History(b)
  /\ \A b \in Merge!Block : \A a \in Merge!History(b) :
       Merge!History(a) \subseteq Merge!History(b)
BY DEF Merge!History

\* Nothing leaves a history when blocks are made.
LEMMA HistoryGrows ==
  ASSUME DOMAIN nodes \subseteq DOMAIN nodes',
         \A n \in DOMAIN nodes : nodes'[n] = nodes[n], NEW b \in Merge!Block
  PROVE  Merge!History(b) \subseteq Merge!History(b)'
BY DEF Merge!History, Merge!Under

\* What is met on the way up is part of the history, and was made before.
LEMMA AncestorsInHistory ==
  ASSUME MergeTyped, MadeInOrder, NEW d \in Device, NEW b \in DOMAIN nodes
  PROVE  Merge!Ancestors(d, b) \subseteq Merge!History(b) \cap (1..(b - 1))
<1>1. b \in 1..MaxBlocks /\ b \in Merge!Block
  <2>1. DOMAIN nodes = 1..Len(nodes) /\ Len(nodes) \in Nat
    BY DEF MergeTyped
  <2> QED
    BY <2>1, SharingAssumption DEF MergeTyped, Merge!Block
<1>2. \A n \in DOMAIN nodes : Merge!Parent(d, n) \in {0, nodes[n].parent}
  BY DEF Merge!Parent
<1>3. \A n \in DOMAIN nodes : nodes[n].parent \in {0} \cup Merge!Under(n)
  BY DEF Merge!Under
<1>4. ASSUME NEW S \in SUBSET Merge!Block, b \in S,
             \A n \in S \cap DOMAIN nodes : Merge!Under(n) \subseteq S
      PROVE  /\ Merge!Parent(d, b) \in S \cup {0}
             /\ \A n \in S \cap DOMAIN nodes : Merge!Parent(d, n) \in S \cup {0}
  BY <1>2, <1>3, <1>4
<1>5. Merge!Ancestors(d, b) \subseteq Merge!History(b)
  BY <1>4 DEF Merge!Ancestors, Merge!History
<1>6. (1..(b - 1)) \in SUBSET Merge!Block
  BY <1>1, SharingAssumption DEF Merge!Block
<1>7. \A n \in DOMAIN nodes :
        n <= b => Merge!Parent(d, n) \in (1..(b - 1)) \cup {0}
  <2> SUFFICES ASSUME NEW n \in DOMAIN nodes, n <= b
               PROVE  Merge!Parent(d, n) \in (1..(b - 1)) \cup {0}
    OBVIOUS
  <2>1. n \in Nat /\ nodes[n].parent \in Nat
    <3>1. n \in 1..Len(nodes) /\ nodes[n] \in MergeBlock
      BY DEF MergeTyped
    <3> QED
      BY <3>1, SharingAssumption DEF MergeBlock
  <2>2. nodes[n].parent < n
    BY DEF MadeInOrder
  <2> QED
    BY <1>1, <1>2, <2>1, <2>2
<1>8. Merge!Ancestors(d, b) \subseteq 1..(b - 1)
  <2>1. \A n \in (1..(b - 1)) \cap DOMAIN nodes :
          Merge!Parent(d, n) \in (1..(b - 1)) \cup {0}
    BY <1>1, <1>7
  <2>2. Merge!Parent(d, b) \in (1..(b - 1)) \cup {0}
    BY <1>1, <1>7
  <2> QED
    BY <1>6, <2>1, <2>2 DEF Merge!Ancestors
<1> QED
  BY <1>5, <1>8

\* Every head is a tip, or lies under one.
LEMMA TipsCover ==
  ASSUME MergeTyped, MadeInOrder, NEW d \in Device, NEW h \in tips[d]
  PROVE  \E t \in Merge!Tips(d) : h \in Merge!History(t)
<1> DEFINE T == {o \in tips[d] : h \in Merge!History(o)}
<1>1. /\ \A o \in tips[d] : o \in DOMAIN nodes /\ o \in Merge!Block
      /\ T \in SUBSET (0..MaxBlocks)
  BY SharingAssumption DEF MergeTyped, Merge!Block
<1>2. h \in T
  BY <1>1, HistoryIsClosed
<1>3. PICK t \in T : \A o \in T : o <= t
  BY <1>1, <1>2, SharingAssumption, GreatestElement
<1>4. ASSUME NEW o \in tips[d], t \in Merge!Ancestors(d, o) PROVE FALSE
  <2>1. t \in Merge!History(o) /\ t < o
    <3>1. Merge!Ancestors(d, o) \subseteq Merge!History(o) \cap (1..(o - 1))
      BY <1>1, <1>4, AncestorsInHistory
    <3>2. o \in Nat
      BY <1>1, <1>4 DEF MergeTyped
    <3> QED
      BY <1>4, <3>1, <3>2
  <2>2. o \in T
    BY <1>1, <2>1, HistoryIsClosed
  <2> QED
    BY <1>1, <1>3, <2>1, <2>2
<1> QED
  BY <1>3, <1>4 DEF Merge!Tips

LEMMA InitMerge == Merge!Init => MergeInv
BY SharingAssumption
DEF Merge!Init, MergeInv, MergeTyped, MadeInOrder, Merge!BranchesKept

\* A step after which every head is a head or lies under one, and which notes
\* as known no more than the heads, keeps the branches.
LEMMA KeepsBranches ==
  ASSUME MergeInv, MergeTyped',
         DOMAIN nodes \subseteq DOMAIN nodes',
         \A n \in DOMAIN nodes : nodes'[n] = nodes[n],
         \A d \in Device : known'[d] \subseteq known[d] \cup tips'[d],
         \A d \in Device : \A t \in tips[d] :
           \E u \in tips'[d] : t \in Merge!History(u)'
  PROVE  Merge!BranchesKept'
<1> SUFFICES ASSUME NEW d \in Device, NEW k \in known'[d]
             PROVE  \E u \in tips'[d] : k \in Merge!History(u)'
  BY DEF Merge!BranchesKept
<1>1. \A u \in tips[d] : u \in Merge!Block
  BY SharingAssumption DEF MergeInv, MergeTyped, Merge!Block
<1>2. \A u \in tips'[d] : u \in Merge!Block
  BY SharingAssumption DEF MergeTyped, Merge!Block
<1>3. /\ \A b \in Merge!Block : b \in Merge!History(b)'
      /\ \A b \in Merge!Block : \A a \in Merge!History(b)' :
           Merge!History(a)' \subseteq Merge!History(b)'
  BY DEF Merge!History
<1>4. CASE k \in known[d]
  <2>1. PICK t \in tips[d] : k \in Merge!History(t)
    BY <1>4 DEF MergeInv, Merge!BranchesKept
  <2>2. PICK u \in tips'[d] : t \in Merge!History(u)'
    OBVIOUS
  <2>3. k \in Merge!History(t)'
    BY <1>1, <2>1, HistoryGrows
  <2> QED
    BY <1>2, <1>3, <2>2, <2>3
<1>5. CASE k \in tips'[d]
  BY <1>2, <1>3, <1>5
<1> QED
  BY <1>4, <1>5

\* What adding a block does; whatever becomes of the heads.
LEMMA AddExtends ==
  ASSUME MergeTyped, MadeInOrder, NEW d \in Device, NEW block \in MergeBlock,
         block.parent <= Len(nodes), block.merges \subseteq 1..Len(nodes),
         Merge!Add(d, block)
  PROVE  /\ nodes' \in Seq(MergeBlock) /\ MadeInOrder'
         /\ Len(nodes') = Len(nodes) + 1 /\ Len(nodes') <= MaxBlocks
         /\ nodes'[Len(nodes')] = block
         /\ DOMAIN nodes \subseteq DOMAIN nodes'
         /\ \A n \in DOMAIN nodes : nodes'[n] = nodes[n]
<1>1. nodes' = Append(nodes, block) /\ Len(nodes) < MaxBlocks
  BY DEF Merge!Add
<1>2. nodes \in Seq(MergeBlock) /\ Len(nodes) \in Nat
  BY DEF MergeTyped
<1>3. /\ nodes' \in Seq(MergeBlock) /\ Len(nodes') = Len(nodes) + 1
      /\ nodes'[Len(nodes')] = block
      /\ DOMAIN nodes = 1..Len(nodes) /\ DOMAIN nodes' = 1..(Len(nodes) + 1)
      /\ \A n \in DOMAIN nodes : nodes'[n] = nodes[n]
  BY <1>1, <1>2
<1>4. ASSUME NEW n \in DOMAIN nodes'
      PROVE  nodes'[n].parent < n /\ nodes'[n].merges \subseteq 1..(n - 1)
  <2>1. CASE n \in DOMAIN nodes
    BY <1>3, <2>1 DEF MadeInOrder
  <2>2. CASE n = Len(nodes) + 1
    <3>1. nodes'[n] = block /\ block.parent \in Nat
      BY <1>3, <2>2, SharingAssumption DEF MergeBlock
    <3>2. n - 1 = Len(nodes)
      BY <1>2, <2>2
    <3> QED
      BY <1>2, <2>2, <3>1, <3>2
  <2> QED
    BY <1>2, <1>3, <2>1, <2>2
<1> QED
  BY <1>1, <1>2, <1>3, <1>4, SharingAssumption DEF MadeInOrder

\* Heads that become blocks that exist are typed.
LEMMA BecomesTyped ==
  ASSUME MergeTyped, nodes' \in Seq(MergeBlock), Len(nodes') <= MaxBlocks,
         Len(nodes) <= Len(nodes'),
         NEW d \in Device, NEW H, H \subseteq 1..Len(nodes'), Merge!Becomes(d, H)
  PROVE  /\ MergeTyped'
         /\ tips'[d] = H /\ known'[d] = known[d] \cup H
         /\ \A e \in Device : e # d => tips'[e] = tips[e] /\ known'[e] = known[e]
<1>1. Len(nodes) \in Nat /\ Len(nodes') \in Nat
  BY DEF MergeTyped
<1>2. (1..Len(nodes)) \subseteq 1..Len(nodes') /\ (1..Len(nodes')) \subseteq Merge!Block
  BY <1>1, SharingAssumption DEF Merge!Block
<1>3. /\ tips' = [tips EXCEPT ![d] = H]
      /\ known' = [known EXCEPT ![d] = @ \cup H]
  BY DEF Merge!Becomes
<1> QED
  BY <1>2, <1>3 DEF MergeTyped

LEMMA MergeStep ==
  ASSUME MergeInv, [Merge!Next]_(Merge!vars)
  PROVE  MergeInv'
<1>0. /\ MergeTyped /\ MadeInOrder /\ Len(nodes) \in Nat
      /\ \A d \in Device : \A t \in tips[d] : t \in 1..Len(nodes)
      /\ \A b \in 1..Len(nodes) : b \in Merge!Block
  BY SharingAssumption DEF MergeInv, MergeTyped, Merge!Block
<1>00. \A b \in Merge!Block : b \in Merge!History(b)'
  BY DEF Merge!History
<1>1. ASSUME NEW d \in Device, NEW h \in tips[d] \cup {0}, Merge!Checkpoint(d, h)
      PROVE  MergeInv'
  <2> DEFINE block == [parent |-> h, merges |-> {}]
  <2>0. PICK new \in Nat : new = Len(nodes) + 1
    BY <1>0
  <2>1. block \in MergeBlock /\ block.parent <= Len(nodes)
    BY <1>0, SharingAssumption DEF MergeTyped, MergeBlock, Merge!Block
  <2>2. /\ nodes' \in Seq(MergeBlock) /\ MadeInOrder'
        /\ Len(nodes') = new /\ new <= MaxBlocks /\ nodes'[new] = block
        /\ DOMAIN nodes \subseteq DOMAIN nodes'
        /\ \A n \in DOMAIN nodes : nodes'[n] = nodes[n]
    BY <1>0, <1>1, <2>0, <2>1, AddExtends DEF Merge!Checkpoint
  <2>3. /\ MergeTyped'
        /\ tips'[d] = (tips[d] \ {h}) \cup {new}
        /\ known'[d] = known[d] \cup tips'[d]
        /\ \A e \in Device : e # d => tips'[e] = tips[e] /\ known'[e] = known[e]
    <3>1. Merge!Becomes(d, (tips[d] \ {h}) \cup {new})
      BY <1>1, <2>2 DEF Merge!Checkpoint
    <3>2. (tips[d] \ {h}) \cup {new} \subseteq 1..Len(nodes')
      BY <1>0, <2>0, <2>2
    <3> QED
      BY <1>0, <2>2, <3>1, <3>2, BecomesTyped
  <2>4. ASSUME h # 0 PROVE h \in Merge!History(new)'
    <3>1. new \in DOMAIN nodes' /\ h \in Merge!Under(new)' /\ h \in Merge!Block
      BY <1>0, <2>2, <2>4 DEF Merge!Under
    <3> QED
      BY <3>1 DEF Merge!History
  <2>5. ASSUME NEW e \in Device, NEW t \in tips[e]
        PROVE  \E u \in tips'[e] : t \in Merge!History(u)'
    <3>1. CASE e = d /\ t = h
      <4>1. h # 0 /\ new \in tips'[e]
        BY <1>0, <2>3, <3>1
      <4> QED
        BY <2>4, <3>1, <4>1
    <3>2. CASE ~(e = d /\ t = h)
      BY <1>0, <1>00, <2>3, <3>2
    <3> QED
      BY <3>1, <3>2
  <2>6. Merge!BranchesKept'
    BY <2>2, <2>3, <2>5, KeepsBranches
  <2> QED
    BY <2>2, <2>3, <2>6 DEF MergeInv
<1>2. ASSUME NEW d \in Device, NEW e \in Device \ {d}, Merge!Pull(d, e) PROVE MergeInv'
  <2>1. nodes' = nodes /\ Merge!Becomes(d, tips[d] \cup tips[e])
    BY <1>2 DEF Merge!Pull
  <2>2. tips[d] \cup tips[e] \subseteq 1..Len(nodes')
    BY <1>0, <2>1
  <2>3. /\ MergeTyped'
        /\ tips'[d] = tips[d] \cup tips[e] /\ known'[d] = known[d] \cup tips'[d]
        /\ \A x \in Device : x # d => tips'[x] = tips[x] /\ known'[x] = known[x]
    BY <1>0, <2>1, <2>2, BecomesTyped DEF MergeTyped
  <2>4. ASSUME NEW x \in Device, NEW t \in tips[x]
        PROVE  \E u \in tips'[x] : t \in Merge!History(u)'
    BY <1>0, <1>00, <2>3
  <2>5. Merge!BranchesKept'
    BY <2>1, <2>3, <2>4, KeepsBranches
  <2> QED
    BY <1>0, <2>1, <2>3, <2>5 DEF MergeInv, MadeInOrder
<1>3. ASSUME NEW d \in Device, Merge!Resolve(d) PROVE MergeInv'
  <2>1. nodes' = nodes /\ Merge!Becomes(d, Merge!Tips(d))
    BY <1>3 DEF Merge!Resolve
  <2>2. Merge!Tips(d) \subseteq 1..Len(nodes')
    BY <1>0, <2>1 DEF Merge!Tips
  <2>3. /\ MergeTyped'
        /\ tips'[d] = Merge!Tips(d) /\ known'[d] = known[d] \cup tips'[d]
        /\ \A x \in Device : x # d => tips'[x] = tips[x] /\ known'[x] = known[x]
    BY <1>0, <2>1, <2>2, BecomesTyped DEF MergeTyped
  <2>4. \A b \in Merge!Block : Merge!History(b) \subseteq Merge!History(b)'
    BY <2>1, HistoryGrows
  <2>5. ASSUME NEW x \in Device, NEW t \in tips[x]
        PROVE  \E u \in tips'[x] : t \in Merge!History(u)'
    <3>1. CASE x = d
      <4>1. PICK u \in tips'[d] : t \in Merge!History(u)
        BY <1>0, <2>3, <3>1, TipsCover
      <4>2. u \in Merge!Block
        BY <1>0, <2>3 DEF Merge!Tips
      <4> QED
        BY <2>4, <3>1, <4>1, <4>2
    <3>2. CASE x # d
      BY <1>0, <1>00, <2>3, <3>2
    <3> QED
      BY <3>1, <3>2
  <2>6. Merge!BranchesKept'
    BY <2>1, <2>3, <2>5, KeepsBranches
  <2> QED
    BY <1>0, <2>1, <2>3, <2>6 DEF MergeInv, MadeInOrder
<1>4. ASSUME NEW d \in Device, Merge!Accept(d) PROVE MergeInv'
  <2> DEFINE merge == [parent |-> 0, merges |-> tips[d]]
             same == {b \in DOMAIN nodes : nodes[b] = merge}
             new == Len(nodes) + 1
  <2>1. merge \in MergeBlock /\ merge.parent <= Len(nodes)
        /\ merge.merges \subseteq 1..Len(nodes)
    BY <1>0, SharingAssumption DEF MergeTyped, MergeBlock, Merge!Block
  <2>2. CASE same = {}
    <3>1. Merge!Add(d, merge) /\ Merge!Becomes(d, tips[d] \cup {Len(nodes')})
      BY <1>4, <2>2 DEF Merge!Accept
    <3>2. /\ nodes' \in Seq(MergeBlock) /\ MadeInOrder'
          /\ Len(nodes') = new /\ new <= MaxBlocks
          /\ DOMAIN nodes \subseteq DOMAIN nodes'
          /\ \A n \in DOMAIN nodes : nodes'[n] = nodes[n]
      BY <1>0, <2>1, <3>1, AddExtends
    <3>3. tips[d] \cup {Len(nodes')} \subseteq 1..Len(nodes')
      BY <1>0, <3>2
    <3>4. /\ MergeTyped'
          /\ tips'[d] = tips[d] \cup {Len(nodes')} /\ known'[d] = known[d] \cup tips'[d]
          /\ \A x \in Device : x # d => tips'[x] = tips[x] /\ known'[x] = known[x]
      BY <1>0, <3>1, <3>2, <3>3, BecomesTyped
    <3>5. ASSUME NEW x \in Device, NEW t \in tips[x]
          PROVE  \E u \in tips'[x] : t \in Merge!History(u)'
      BY <1>0, <1>00, <3>4
    <3>6. Merge!BranchesKept'
      BY <3>2, <3>4, <3>5, KeepsBranches
    <3> QED
      BY <3>2, <3>4, <3>6 DEF MergeInv
  <2>3. CASE same # {}
    <3>1. nodes' = nodes /\ Merge!Becomes(d, tips[d] \cup same)
      BY <1>4, <2>3 DEF Merge!Accept
    <3>2. tips[d] \cup same \subseteq 1..Len(nodes')
      BY <1>0, <3>1 DEF MergeTyped
    <3>3. /\ MergeTyped'
          /\ tips'[d] = tips[d] \cup same /\ known'[d] = known[d] \cup tips'[d]
          /\ \A x \in Device : x # d => tips'[x] = tips[x] /\ known'[x] = known[x]
      BY <1>0, <3>1, <3>2, BecomesTyped DEF MergeTyped
    <3>4. ASSUME NEW x \in Device, NEW t \in tips[x]
          PROVE  \E u \in tips'[x] : t \in Merge!History(u)'
      BY <1>0, <1>00, <3>3
    <3>5. Merge!BranchesKept'
      BY <3>1, <3>3, <3>4, KeepsBranches
    <3> QED
      BY <1>0, <3>1, <3>3, <3>5 DEF MergeInv, MadeInOrder
  <2> QED
    BY <2>2, <2>3
<1>5. ASSUME UNCHANGED <<nodes, tips, known>> PROVE MergeInv'
  BY <1>5
  DEF MergeInv, MergeTyped, MadeInOrder, Merge!BranchesKept, Merge!History,
      Merge!Under
<1>6. ASSUME NEW d \in Device, NEW b \in Merge!Block, Merge!Trim(d, b) PROVE MergeInv'
  BY <1>5, <1>6 DEF Merge!Trim
<1>7. CASE UNCHANGED Merge!vars
  BY <1>5, <1>7 DEF Merge!vars
<1> QED
  BY <1>1, <1>2, <1>3, <1>4, <1>6, <1>7 DEF Merge!Next

\* No branch is discarded: what was ever among the heads of a device is one
\* still, or lies under one, whatever is pulled, collapsed, merged and
\* collected (merge_heads, apply_merge).
THEOREM NoBranchIsLost == Merge!Spec => []BranchesKept
<1>1. MergeInv => BranchesKept
  BY DEF MergeInv, BranchesKept
<1>2. MergeInv /\ [Merge!Next]_(Merge!vars) => MergeInv'
  BY MergeStep
<1> QED
  BY <1>1, <1>2, InitMerge, PTL DEF Merge!Spec

\* A device has and collects blocks that were made.
DevicesTyped ==
  holds \in [Device -> SUBSET Merge!Block] /\ tombs \in [Device -> SUBSET Merge!Block]

LEMMA MergeType == Merge!Spec => []Merge!TypeOK
<1>1. Merge!Init => DevicesTyped
  BY DEF Merge!Init, DevicesTyped
<1>2. ASSUME MergeInv, MergeInv', DevicesTyped, [Merge!Next]_(Merge!vars)
      PROVE  DevicesTyped'
  <2> USE <1>2 DEF DevicesTyped
  <2>1. ASSUME NEW d \in Device, NEW block, Merge!Add(d, block), UNCHANGED tombs
        PROVE  DevicesTyped'
    <3>1. Len(nodes') = Len(nodes) + 1 /\ Len(nodes) \in Nat /\ Len(nodes') <= MaxBlocks
      BY <2>1 DEF Merge!Add, MergeInv, MergeTyped
    <3>2. Len(nodes') \in Merge!Block
      BY <3>1, SharingAssumption DEF Merge!Block
    <3> QED BY <2>1, <3>2 DEF Merge!Add
  <2>2. ASSUME NEW d \in Device, NEW e \in Device, Merge!Pull(d, e)
        PROVE  DevicesTyped'
    BY <2>2 DEF Merge!Pull
  <2>3. ASSUME NEW d \in Device, Merge!Accept(d) PROVE DevicesTyped'
    <3> DEFINE merge == [parent |-> 0, merges |-> tips[d]]
               same == {b \in DOMAIN nodes : nodes[b] = merge}
    <3>1. CASE same = {}
      BY <2>1, <2>3, <3>1 DEF Merge!Accept
    <3>2. CASE same # {}
      <4>1. /\ holds' = [holds EXCEPT ![d] = @ \cup same] /\ tombs' = tombs
        BY <2>3, <3>2 DEF Merge!Accept
      <4>2. same \subseteq Merge!Block
        BY SharingAssumption DEF MergeInv, MergeTyped, Merge!Block
      <4> QED BY <4>1, <4>2
    <3> QED BY <3>1, <3>2
  <2>4. ASSUME NEW d \in Device, NEW b \in Merge!Block, Merge!Trim(d, b)
        PROVE  DevicesTyped'
    BY <2>4 DEF Merge!Trim
  <2>5. ASSUME NEW d \in Device, Merge!Resolve(d) PROVE DevicesTyped'
    BY <2>5 DEF Merge!Resolve
  <2>6. CASE UNCHANGED Merge!vars
    BY <2>6 DEF Merge!vars
  <2>7. ASSUME NEW d \in Device, NEW h, Merge!Checkpoint(d, h) PROVE DevicesTyped'
    BY <2>1, <2>7 DEF Merge!Checkpoint
  <2> QED BY <2>2, <2>3, <2>4, <2>5, <2>6, <2>7 DEF Merge!Next
<1>3. MergeInv /\ DevicesTyped => Merge!TypeOK
  <2> SUFFICES ASSUME MergeInv, DevicesTyped PROVE Merge!TypeOK
    OBVIOUS
  <2>1. (1..Len(nodes)) \subseteq Merge!Block
    BY SharingAssumption DEF MergeInv, MergeTyped, Merge!Block
  <2> QED
    BY <2>1 DEF MergeInv, MergeTyped, MergeBlock, DevicesTyped, Merge!TypeOK
<1> QED BY <1>1, <1>2, <1>3, InitMerge, MergeStep, PTL DEF Merge!Spec

----------------------------------------------------------------------------
(* Records kept hot. While a call writes the list, the list and the node   *)
(* disagree about one record at most; whoever may be reading is alone.     *)

\* An entry names a ciphertext of its own record, each record once.
Tidy(L) ==
  /\ L \subseteq Pins!Entry
  /\ \A e \in L : e.cid[1] = e.source
  /\ \A e, f \in L : e.source = f.source => e = f

PinTyped == Pins!TypeOK /\ DOMAIN call = PinCaller /\ Tidy(listed)

PinTurns ==
  \A c, d \in PinCaller : call[c].at # "idle" /\ call[d].at # "idle" => c = d

\* What each call has in hand.
PinCalls ==
  \A c \in PinCaller :
    /\ call[c].at \in {"pin", "read"} =>
         /\ call[c] \in [at : {"pin", "read"}, source : PinRecord, cid : Pins!Copy]
         /\ call[c].cid[1] = call[c].source
    /\ call[c].at = "read" => call[c].cid \in pinned
    /\ call[c].at = "write" =>
         Tidy(call[c].new) /\ \A e \in call[c].new : e.cid \in pinned
    /\ call[c].at = "unpin" =>
         \E e \in listed : call[c].cid = e.cid /\ call[c].new = listed \ {e}
    /\ call[c].at = "flag" => call[c].to \in BOOLEAN

\* Unless the list is about to be written, all of it is pinned.
PinsBehindList ==
  (\A c \in PinCaller : call[c].at # "write") => \A e \in listed : e.cid \in pinned

PinInv == PinTyped /\ PinTurns /\ PinCalls /\ PinsBehindList

LEMMA InitPins == Pins!Init => PinInv
<1> SUFFICES ASSUME Pins!Init PROVE PinInv
  OBVIOUS
<1>1. PinTyped
  <2>1. Pins!TypeOK
    <3>1. enabled \in BOOLEAN /\ running \in BOOLEAN
      BY Zenon DEF Pins!Init
    <3> QED
      BY <3>1, SharingAssumption DEF Pins!Init, Pins!TypeOK
  <2>2. DOMAIN call = PinCaller
    BY DEF Pins!Init
  <2>3. Tidy(listed)
    BY DEF Pins!Init, Tidy
  <2> QED
    BY <2>1, <2>2, <2>3 DEF PinTyped
<1>2. \A c \in PinCaller : call[c].at = "idle"
  BY DEF Pins!Init, Pins!Idle
<1> QED
  BY <1>1, <1>2 DEF Pins!Init, PinInv, PinTurns, PinCalls, PinsBehindList

LEMMA PinStep ==
  ASSUME PinOverlaps \cap {"together", "kill"} = {},
         PinInv, [Pins!Next]_(Pins!vars)
  PROVE  PinInv'
<1> USE SharingAssumption
    DEF PinInv, PinTyped, PinTurns, PinCalls, PinsBehindList, Tidy,
        Pins!TypeOK, Pins!Copy, Pins!Entry, Pins!Stands, Pins!Goes, Pins!Idle,
        Pins!node, Pins!MayBegin
<1>1. ASSUME NEW c \in PinCaller, NEW r \in PinRecord, Pins!Begin(c, r) PROVE PinInv'
  BY <1>1 DEF Pins!Begin
<1>2. ASSUME NEW c \in PinCaller, NEW r \in PinRecord, Pins!Unpin(c, r) PROVE PinInv'
  BY <1>2 DEF Pins!Unpin
<1>3. ASSUME NEW c \in PinCaller, Pins!LaunchNode(c) PROVE PinInv'
  BY <1>3 DEF Pins!LaunchNode
<1>4. ASSUME NEW c \in PinCaller, Pins!Import(c) PROVE PinInv'
  BY <1>4 DEF Pins!Import
<1>5. ASSUME NEW c \in PinCaller, Pins!ReadList(c) PROVE PinInv'
  BY <1>5 DEF Pins!ReadList
<1>6. ASSUME NEW c \in PinCaller, Pins!WriteList(c) PROVE PinInv'
  BY <1>6 DEF Pins!WriteList
<1>7. ASSUME NEW c \in PinCaller, Pins!Remove(c) PROVE PinInv'
  BY <1>7 DEF Pins!Remove
<1>8. ASSUME NEW c \in PinCaller, Pins!Enable(c) PROVE PinInv'
  BY <1>8 DEF Pins!Enable
<1>9. ASSUME NEW c \in PinCaller, Pins!Disable(c) PROVE PinInv'
  <2>1. CASE UNCHANGED call
    BY <1>9, <2>1, ZenonT(60) DEF Pins!Disable
  <2>2. CASE call' = [call EXCEPT ![c] = [at |-> "flag", to |-> FALSE]]
    BY <1>9, <2>2, ZenonT(60) DEF Pins!Disable
  <2> QED
    BY <1>9, <2>1, <2>2 DEF Pins!Disable
<1>10. ASSUME NEW c \in PinCaller, Pins!WriteFlag(c) PROVE PinInv'
  BY <1>10 DEF Pins!WriteFlag
<1>11. ASSUME NEW c \in PinCaller, Pins!Fail(c) PROVE PinInv'
  BY <1>11 DEF Pins!Fail
<1>12. CASE Pins!NodeDies
  <2>1. running' \in BOOLEAN
    BY <1>12, Zenon DEF Pins!NodeDies
  <2>2. UNCHANGED <<enabled, pinned, listed, copies, call>>
    BY <1>12 DEF Pins!NodeDies
  <2> QED
    BY <2>1, <2>2
<1>13. CASE UNCHANGED Pins!vars
  BY <1>13 DEF Pins!vars
<1> QED
  BY <1>1, <1>2, <1>3, <1>4, <1>5, <1>6, <1>7, <1>8, <1>9, <1>10, <1>11,
     <1>12, <1>13 DEF Pins!Next, Pins!Kill

\* When the calls take turns and none is killed, what the list shows as kept
\* hot is pinned on the node, once each, though the node may die and any step
\* before the writing of the list may fail (pin_record, unpin_hot).
THEOREM HotListHolds ==
  PinOverlaps \cap {"together", "kill"} = {} => (Pins!Spec => []ListedIsPinned)
<1> SUFFICES ASSUME PinOverlaps \cap {"together", "kill"} = {}
             PROVE  Pins!Spec => []ListedIsPinned
  OBVIOUS
<1>1. PinInv => ListedIsPinned
  BY DEF PinInv, PinTyped, PinTurns, PinCalls, PinsBehindList, Tidy,
         ListedIsPinned, Pins!ListedIsPinned, Pins!Leaving, Pins!Stands
<1>2. PinInv /\ [Pins!Next]_(Pins!vars) => PinInv'
  BY PinStep
<1> QED
  BY <1>1, <1>2, InitPins, PTL DEF Pins!Spec

\* Without the assumption: what each call has in hand.
CallsShaped ==
  \A c \in PinCaller :
    /\ call[c].at \in {"idle", "pin", "read", "write", "unpin", "flag"}
    /\ call[c].at \in {"pin", "read"} =>
         /\ call[c] \in [at : {"pin", "read"}, source : PinRecord, cid : Pins!Copy]
         /\ call[c].cid[1] = call[c].source
    /\ call[c].at \in {"write", "unpin"} => Tidy(call[c].new)
    /\ call[c].at = "flag" => call[c].to \in BOOLEAN

LEMMA ShapedStep ==
  ASSUME PinTyped, CallsShaped, [Pins!Next]_(Pins!vars)
  PROVE  PinTyped' /\ CallsShaped'
<1> USE SharingAssumption
    DEF PinTyped, CallsShaped, Tidy, Pins!TypeOK, Pins!Copy, Pins!Entry,
        Pins!Stands, Pins!Goes, Pins!Idle, Pins!node, Pins!MayBegin
<1>1. ASSUME NEW c \in PinCaller, NEW r \in PinRecord, Pins!Begin(c, r)
      PROVE  PinTyped' /\ CallsShaped'
  BY <1>1 DEF Pins!Begin
<1>2. ASSUME NEW c \in PinCaller, NEW r \in PinRecord, Pins!Unpin(c, r)
      PROVE  PinTyped' /\ CallsShaped'
  BY <1>2 DEF Pins!Unpin
<1>3. ASSUME NEW c \in PinCaller, Pins!LaunchNode(c) PROVE PinTyped' /\ CallsShaped'
  BY <1>3 DEF Pins!LaunchNode
<1>4. ASSUME NEW c \in PinCaller, Pins!Import(c) PROVE PinTyped' /\ CallsShaped'
  BY <1>4 DEF Pins!Import
<1>5. ASSUME NEW c \in PinCaller, Pins!ReadList(c) PROVE PinTyped' /\ CallsShaped'
  BY <1>5 DEF Pins!ReadList
<1>6. ASSUME NEW c \in PinCaller, Pins!WriteList(c) PROVE PinTyped' /\ CallsShaped'
  BY <1>6 DEF Pins!WriteList
<1>7. ASSUME NEW c \in PinCaller, Pins!Remove(c) PROVE PinTyped' /\ CallsShaped'
  BY <1>7 DEF Pins!Remove
<1>8. ASSUME NEW c \in PinCaller, Pins!Enable(c) PROVE PinTyped' /\ CallsShaped'
  BY <1>8 DEF Pins!Enable
<1>9. ASSUME NEW c \in PinCaller, Pins!Disable(c) PROVE PinTyped' /\ CallsShaped'
  <2>1. CASE UNCHANGED call
    BY <1>9, <2>1, ZenonT(60) DEF Pins!Disable
  <2>2. CASE call' = [call EXCEPT ![c] = [at |-> "flag", to |-> FALSE]]
    BY <1>9, <2>2, ZenonT(60) DEF Pins!Disable
  <2> QED
    BY <1>9, <2>1, <2>2 DEF Pins!Disable
<1>10. ASSUME NEW c \in PinCaller, Pins!WriteFlag(c) PROVE PinTyped' /\ CallsShaped'
  BY <1>10 DEF Pins!WriteFlag
<1>11. ASSUME NEW c \in PinCaller, Pins!Fail(c) \/ Pins!Kill(c)
       PROVE  PinTyped' /\ CallsShaped'
  BY <1>11 DEF Pins!Fail, Pins!Kill
<1>12. CASE Pins!NodeDies
  <2>1. running' \in BOOLEAN
    BY <1>12, Zenon DEF Pins!NodeDies
  <2>2. UNCHANGED <<enabled, pinned, listed, copies, call>>
    BY <1>12 DEF Pins!NodeDies
  <2> QED
    BY <2>1, <2>2
<1>13. CASE UNCHANGED Pins!vars
  BY <1>13 DEF Pins!vars
<1> QED
  BY <1>1, <1>2, <1>3, <1>4, <1>5, <1>6, <1>7, <1>8, <1>9, <1>10, <1>11,
     <1>12, <1>13 DEF Pins!Next

LEMMA InitShaped == Pins!Init => PinTyped /\ CallsShaped
<1>1. Pins!Init => CallsShaped
  BY DEF Pins!Init, Pins!Idle, CallsShaped
<1> QED
  BY <1>1, InitPins DEF PinInv

\* Even when calls overlap and are killed, the list of what is kept hot has a
\* record once, with a ciphertext of its own and not of another record; what
\* may then be wrong is only that one is not pinned (pin_record, unpin_hot).
THEOREM HotListIsTidy == Pins!Spec => []Tidy(listed)
<1>1. PinTyped => Tidy(listed)
  BY DEF PinTyped
<1> QED
  BY <1>1, ShapedStep, InitShaped, PTL DEF Pins!Spec

LEMMA PinsType == Pins!Spec => []Pins!TypeOK
<1>1. PinTyped => Pins!TypeOK
  BY DEF PinTyped
<1> QED
  BY <1>1, ShapedStep, InitShaped, PTL DEF Pins!Spec

----------------------------------------------------------------------------
(* Sites. A file that was compared with the plan is still as the plan has  *)
(* it, or was touched; what is read again of the others is the plan's.     *)

Compared(f) == Sites!Listed(f) = publishing.up.plan.files[f]
Answers(f) ==
  \/ publishing.up.files[f] = publishing.up.plan.files[f]
  \/ f \in Skipped /\ publishing.up.dest \in Public

UploadFollows ==
  publishing # Sites!Idle =>
    /\ publishing.up.plan \in reviewed
    /\ publishing.at \in {"check", "read"} =>
         publishing.up.dest = publishing.up.plan.dest
    /\ publishing.at = "check" =>
         \A f \in publishing.done \ publishing.up.touched : Compared(f)
    /\ publishing.at = "read" =>
         /\ \/ publishing.up.moved
            \/ Sites!Destination(publishing.up.plan.dest) = publishing.up.plan.dest
         /\ \A f \in File \ publishing.up.touched :
              IF f \in publishing.done THEN Answers(f) ELSE Compared(f)
    /\ publishing.at \in {"send", "record"} =>
         /\ \/ publishing.up.dest = publishing.up.plan.dest
            \/ publishing.up.moved /\ publishing.up.plan.dest \notin Public
         /\ \A f \in File \ publishing.up.touched : Answers(f)

SiteInv == Sites!TypeOK /\ UploadFollows /\ Sites!PushesKept

LEMMA InitSites == Sites!Init => SiteInv
BY SharingAssumption
DEF Sites!Init, Sites!Idle, Sites!Files, SiteInv, Sites!TypeOK, UploadFollows,
    Sites!PushesKept

LEMMA JobShape ==
  ASSUME publishing \in Sites!Job
  PROVE  /\ publishing.at \in {"check", "read", "send", "record"}
         /\ publishing.done \in SUBSET File /\ publishing.up \in Sites!Upload
         /\ publishing.base \in SUBSET (1..MaxPushes)
         /\ publishing.up.plan \in Sites!Plan /\ publishing.up.files \in Sites!Files
         /\ publishing.up.dest \in Dest \cup Public
         /\ publishing.up.touched \in SUBSET File /\ publishing.up.moved \in BOOLEAN
BY DEF Sites!Job, Sites!Upload

LEMMA UploadExcept ==
  ASSUME NEW up \in Sites!Upload, NEW t
  PROVE  /\ [up EXCEPT !.touched = t]
            = [plan |-> up.plan, files |-> up.files, dest |-> up.dest,
               moved |-> up.moved, touched |-> t]
         /\ [up EXCEPT !.moved = t]
            = [plan |-> up.plan, files |-> up.files, dest |-> up.dest,
               moved |-> t, touched |-> up.touched]
BY DEF Sites!Upload

LEMMA ListedOrSkipped ==
  ASSUME NEW f
  PROVE  f \in Skipped \/ Sites!Listed(f) = folder[f]
BY DEF Sites!Listed

\* A write to the folder touches what it changes between the two readings.
LEMMA WritesTouch ==
  ASSUME SiteInv, NEW g \in File, NEW x \in Content \cup {NoPage},
         Sites!Write(g, x), UNCHANGED account, reviewed \subseteq reviewed'
  PROVE  /\ folder' \in Sites!Files
         /\ publishing' = Sites!Idle \/ publishing' \in Sites!Job
         /\ UploadFollows'
<1>1. folder' = [folder EXCEPT ![g] = x] /\ folder' \in Sites!Files
  BY DEF Sites!Write, SiteInv, Sites!TypeOK, Sites!Files
<1>2. \A f \in File : f # g \/ x = folder[g] \/ g \in Skipped =>
        Sites!Listed(f)' = Sites!Listed(f)
  BY <1>1 DEF Sites!Listed, SiteInv, Sites!TypeOK, Sites!Files
<1>3. CASE publishing' = publishing /\ ~ (g \in Sites!Between /\ x # folder[g])
  <2>1. publishing = Sites!Idle \/ publishing \in Sites!Job
    BY DEF SiteInv, Sites!TypeOK
  <2>2. CASE publishing = Sites!Idle
    BY <1>1, <1>3, <2>2 DEF UploadFollows
  <2>3. CASE publishing # Sites!Idle
    <3>1. publishing.at = "check" =>
            \A f \in publishing.done \ publishing.up.touched : Compared(f)'
      BY <1>2, <1>3, <2>1, <2>3, JobShape
      DEF Sites!Between, Compared, SiteInv, UploadFollows
    <3>2. publishing.at = "read" =>
            \A f \in File \ publishing.up.touched :
              IF f \in publishing.done THEN Answers(f)' ELSE Compared(f)'
      BY <1>2, <1>3, <2>1, <2>3, JobShape
      DEF Sites!Between, Compared, Answers, SiteInv, UploadFollows
    <3>3. publishing.at \in {"send", "record"} =>
            \A f \in File \ publishing.up.touched : Answers(f)'
      BY <1>3, <2>1, <2>3, JobShape DEF Answers, SiteInv, UploadFollows
    <3> QED
      BY <1>1, <1>3, <2>1, <2>3, <3>1, <3>2, <3>3
      DEF SiteInv, UploadFollows, Sites!Destination
  <2> QED BY <2>2, <2>3
<1>4. CASE /\ g \in Sites!Between
           /\ publishing' = [publishing EXCEPT !.up.touched = @ \cup {g}]
  <2>1. publishing \in Sites!Job /\ publishing # Sites!Idle
        /\ publishing.at \in {"check", "read"}
    BY <1>4 DEF SiteInv, Sites!TypeOK, Sites!Between, Sites!Idle
  <2>2. publishing' =
          [at |-> publishing.at, done |-> publishing.done, base |-> publishing.base,
           up |-> [publishing.up EXCEPT !.touched = @ \cup {g}]]
    BY <1>4, <2>1 DEF Sites!Job
  <2>3. [publishing.up EXCEPT !.touched = @ \cup {g}]
        = [plan |-> publishing.up.plan, files |-> publishing.up.files,
           dest |-> publishing.up.dest, moved |-> publishing.up.moved,
           touched |-> publishing.up.touched \cup {g}]
    BY <2>1, JobShape, UploadExcept
  <2>4. publishing' \in Sites!Job
    BY <2>1, <2>2, <2>3, JobShape DEF Sites!Job, Sites!Upload
  <2>5. /\ publishing'.at = publishing.at /\ publishing'.done = publishing.done
        /\ publishing'.up.plan = publishing.up.plan
        /\ publishing'.up.files = publishing.up.files
        /\ publishing'.up.dest = publishing.up.dest
        /\ publishing'.up.moved = publishing.up.moved
        /\ publishing'.up.touched = publishing.up.touched \cup {g}
    BY <2>2, <2>3
  <2>6. \A f \in File \ publishing'.up.touched :
          (Compared(f) => Compared(f)') /\ (Answers(f) => Answers(f)')
    BY <1>2, <2>5 DEF Compared, Answers
  <2>7. publishing.done \subseteq File
    BY <2>1, JobShape
  <2>8. /\ publishing.at = "check" =>
             \A f \in publishing'.done \ publishing'.up.touched : Compared(f)'
        /\ publishing.at = "read" =>
             \A f \in File \ publishing'.up.touched :
               IF f \in publishing'.done THEN Answers(f)' ELSE Compared(f)'
    BY <2>1, <2>5, <2>6, <2>7 DEF SiteInv, UploadFollows
  <2> QED
    BY <1>1, <2>1, <2>4, <2>5, <2>8 DEF SiteInv, UploadFollows, Sites!Destination
<1> QED BY <1>3, <1>4 DEF Sites!Write

LEMMA SiteStep ==
  ASSUME SiteInv, [Sites!Next]_(Sites!vars)
  PROVE  SiteInv'
<1> USE SharingAssumption DEF Sites!branches
<1>0. /\ folder \in Sites!Files /\ account \in Dest
      /\ reviews \subseteq reviewed /\ reviewed \subseteq Sites!Plan
      /\ publishing = Sites!Idle \/ publishing \in Sites!Job
  BY DEF SiteInv, Sites!TypeOK
<1>1. ASSUME NEW f \in File, NEW c \in (Content \ {Page}) \cup {NoPage},
             Sites!Edit(f, c)
      PROVE  SiteInv'
  BY <1>1, WritesTouch DEF Sites!Edit, SiteInv, Sites!TypeOK, Sites!PushesKept
<1>2. ASSUME NEW d \in Dest, Sites!Connect(d) PROVE SiteInv'
  <2>1. /\ account' = d
        /\ UNCHANGED <<folder, reviews, reviewed, pushed, merged>>
    BY <1>2 DEF Sites!Connect
  <2>2. CASE publishing' = publishing /\ (publishing.at = "read" => d = account)
    <3>1. UploadFollows'
      BY <2>1, <2>2 DEF SiteInv, UploadFollows, Compared, Answers, Sites!Listed,
                        Sites!Destination
    <3> QED BY <2>1, <2>2, <3>1 DEF SiteInv, Sites!TypeOK, Sites!PushesKept
  <2>3. CASE /\ publishing.at = "read"
             /\ publishing' = [publishing EXCEPT !.up.moved = TRUE]
    <3>1. publishing \in Sites!Job /\ publishing # Sites!Idle
      BY <1>0, <2>3 DEF Sites!Idle
    <3>2. publishing' =
            [at |-> publishing.at, done |-> publishing.done,
             base |-> publishing.base, up |-> [publishing.up EXCEPT !.moved = TRUE]]
      BY <2>3, <3>1 DEF Sites!Job
    <3>3. [publishing.up EXCEPT !.moved = TRUE]
          = [plan |-> publishing.up.plan, files |-> publishing.up.files,
             dest |-> publishing.up.dest, moved |-> TRUE,
             touched |-> publishing.up.touched]
      BY <3>1, JobShape, UploadExcept
    <3>4. publishing' \in Sites!Job
      BY <3>1, <3>2, <3>3, JobShape DEF Sites!Job, Sites!Upload
    <3>5. /\ publishing'.at = publishing.at /\ publishing'.done = publishing.done
          /\ publishing'.up.plan = publishing.up.plan
          /\ publishing'.up.files = publishing.up.files
          /\ publishing'.up.dest = publishing.up.dest
          /\ publishing'.up.touched = publishing.up.touched
          /\ publishing'.up.moved
      BY <3>2, <3>3
    <3>6. \A f : (Compared(f) <=> Compared(f)') /\ (Answers(f) <=> Answers(f)')
      BY <2>1, <3>5 DEF Compared, Answers, Sites!Listed
    <3>7. /\ publishing.up.plan \in reviewed
          /\ publishing.up.dest = publishing.up.plan.dest
          /\ \A f \in File \ publishing.up.touched :
               IF f \in publishing.done THEN Answers(f) ELSE Compared(f)
      BY <2>3, <3>1 DEF SiteInv, UploadFollows
    <3>8. \A f \in File \ publishing'.up.touched :
            IF f \in publishing'.done THEN Answers(f)' ELSE Compared(f)'
      BY <3>5, <3>6, <3>7
    <3>9. UploadFollows'
      <4>1. publishing'.up.plan \in reviewed'
            /\ publishing'.up.dest = publishing'.up.plan.dest
        BY <2>1, <3>5, <3>7
      <4>2. publishing'.at = "read"
        BY <2>3, <3>5
      <4> QED
        BY <3>5, <3>8, <4>1, <4>2, ZenonT(30) DEF UploadFollows
    <3> QED BY <2>1, <3>4, <3>9 DEF SiteInv, Sites!TypeOK, Sites!PushesKept
  <2> QED BY <1>2, <2>2, <2>3 DEF Sites!Connect
<1>3. ASSUME NEW d \in {account} \cup Public, NEW kind, Sites!Review(d, kind)
      PROVE  SiteInv'
  <2> DEFINE plan == [files |-> [f \in File |-> Sites!Listed(f)'],
                      dest |-> Sites!Destination(d)]
  <2>1. /\ UNCHANGED <<folder, publishing>> \/ Sites!Write(Index, Page)
        /\ reviews' = reviews \cup {plan} /\ reviewed' = reviewed \cup {plan}
        /\ UNCHANGED <<account, pushed, merged>>
    BY <1>3 DEF Sites!Review
  <2>2. /\ folder' \in Sites!Files
        /\ publishing' = Sites!Idle \/ publishing' \in Sites!Job
        /\ UploadFollows'
    <3>1. CASE UNCHANGED <<folder, publishing>>
      <4> HIDE DEF plan
      <4> QED
        BY <1>0, <2>1, <3>1 DEF SiteInv, UploadFollows, Compared, Answers,
                                Sites!Listed, Sites!Destination
    <3>2. CASE Sites!Write(Index, Page)
      <4> HIDE DEF plan
      <4> QED BY <2>1, <3>2, WritesTouch
    <3> QED BY <2>1, <3>1, <3>2
  <2>3. plan \in Sites!Plan
    <3>1. Sites!Destination(d) \in Dest \cup Public
      BY <1>0 DEF Sites!Destination
    <3>2. [f \in File |-> Sites!Listed(f)'] \in Sites!Files
      BY <2>2 DEF Sites!Files, Sites!Listed
    <3> QED BY <3>1, <3>2 DEF Sites!Plan
  <2> HIDE DEF plan
  <2> QED BY <1>0, <2>1, <2>2, <2>3 DEF SiteInv, Sites!TypeOK, Sites!PushesKept
<1>4. ASSUME NEW plan \in reviews, Sites!Expire(plan) PROVE SiteInv'
  <2>1. UNCHANGED <<folder, account, reviewed, publishing, pushed, merged>>
        /\ reviews' \subseteq reviews
    BY <1>4 DEF Sites!Expire
  <2> QED
    BY <2>1 DEF SiteInv, Sites!TypeOK, UploadFollows, Compared, Answers,
                Sites!Listed, Sites!Destination, Sites!PushesKept
<1>5. ASSUME NEW plan \in reviews, Sites!Begin(plan) PROVE SiteInv'
  <2> DEFINE up == [plan |-> plan, files |-> [f \in File |-> NoPage],
                    dest |-> plan.dest, touched |-> {}, moved |-> FALSE]
  <2>1. /\ publishing' = [at |-> "check", done |-> {}, base |-> {}, up |-> up]
        /\ UNCHANGED <<folder, account, reviews, reviewed, pushed, merged>>
    BY <1>5 DEF Sites!Begin
  <2>2. plan \in Sites!Plan /\ plan.dest \in Dest \cup Public
    BY <1>0 DEF Sites!Plan
  <2>3. [f \in File |-> NoPage] \in Sites!Files
    BY DEF Sites!Files
  <2>4. up \in Sites!Upload /\ up.plan = plan /\ up.dest = plan.dest
    BY <2>2, <2>3 DEF Sites!Upload
  <2> HIDE DEF up
  <2>5. publishing' \in Sites!Job /\ publishing'.at = "check"
        /\ publishing'.done = {} /\ publishing'.up = up
    BY <2>1, <2>4 DEF Sites!Job
  <2>6. UploadFollows'
    BY <1>0, <2>1, <2>4, <2>5 DEF UploadFollows
  <2> QED BY <2>1, <2>5, <2>6 DEF SiteInv, Sites!TypeOK, Sites!PushesKept
<1>6. ASSUME NEW f \in File, Sites!Compare(f) PROVE SiteInv'
  <2>1. /\ publishing \in Sites!Job /\ publishing # Sites!Idle
        /\ publishing.at = "check" /\ Compared(f)
        /\ publishing' = [publishing EXCEPT !.done = @ \cup {f}]
        /\ UNCHANGED <<folder, account, reviews, reviewed, pushed, merged>>
    BY <1>0, <1>6 DEF Sites!Compare, Sites!Idle, Compared
  <2>2. publishing' \in Sites!Job /\ publishing'.at = "check"
        /\ publishing'.done = publishing.done \cup {f}
        /\ publishing'.up = publishing.up
    BY <2>1 DEF Sites!Job
  <2>3. UploadFollows'
    BY <2>1, <2>2 DEF SiteInv, UploadFollows, Compared, Sites!Listed
  <2> QED BY <2>1, <2>2, <2>3 DEF SiteInv, Sites!TypeOK, Sites!PushesKept
<1>7. CASE Sites!Approve
  <2>1. /\ publishing \in Sites!Job /\ publishing # Sites!Idle
        /\ publishing.at = "check" /\ publishing.done = File
        /\ Sites!Destination(publishing.up.plan.dest) = publishing.up.plan.dest
        /\ publishing' = [publishing EXCEPT !.at = "read", !.done = {}]
        /\ UNCHANGED <<folder, account, reviews, reviewed, pushed, merged>>
    BY <1>0, <1>7 DEF Sites!Approve, Sites!Idle
  <2>2. publishing' \in Sites!Job /\ publishing'.at = "read"
        /\ publishing'.done = {} /\ publishing'.up = publishing.up
    BY <2>1 DEF Sites!Job
  <2>3. UploadFollows'
    BY <2>1, <2>2
    DEF SiteInv, UploadFollows, Compared, Sites!Listed, Sites!Destination
  <2> QED BY <2>1, <2>2, <2>3 DEF SiteInv, Sites!TypeOK, Sites!PushesKept
<1>8. ASSUME NEW f \in File, Sites!Read(f) PROVE SiteInv'
  <2> DEFINE x == IF publishing.up.dest \in Public THEN folder[f]
                  ELSE Sites!Listed(f)
  <2>1. /\ publishing \in Sites!Job /\ publishing # Sites!Idle
        /\ publishing.at = "read" /\ f \notin publishing.done
        /\ publishing' = [publishing EXCEPT !.done = @ \cup {f}, !.up.files[f] = x]
        /\ UNCHANGED <<folder, account, reviews, reviewed, pushed, merged>>
    BY <1>0, <1>8 DEF Sites!Read, Sites!Idle
  <2>2. x \in Content \cup {NoPage}
    BY <1>0 DEF Sites!Files, Sites!Listed
  <2>3. \/ x = Sites!Listed(f)
        \/ f \in Skipped /\ publishing.up.dest \in Public
    BY ListedOrSkipped
  <2> HIDE DEF x
  <2> DEFINE new == [publishing.up.files EXCEPT ![f] = x]
  <2>4. new \in Sites!Files /\ new[f] = x
        /\ \A g \in File \ {f} : new[g] = publishing.up.files[g]
    BY <2>1, <2>2, JobShape DEF Sites!Files
  <2>5. publishing' =
          [at |-> publishing.at, done |-> publishing.done \cup {f},
           base |-> publishing.base, up |-> [publishing.up EXCEPT !.files[f] = x]]
    BY <2>1 DEF Sites!Job
  <2>6. [publishing.up EXCEPT !.files[f] = x]
        = [plan |-> publishing.up.plan, files |-> new,
           dest |-> publishing.up.dest, moved |-> publishing.up.moved,
           touched |-> publishing.up.touched]
    BY <2>1, JobShape DEF Sites!Upload
  <2> HIDE DEF new
  <2>7. publishing' \in Sites!Job
    BY <2>1, <2>4, <2>5, <2>6, JobShape DEF Sites!Job, Sites!Upload
  <2>8. /\ publishing'.at = "read" /\ publishing'.done = publishing.done \cup {f}
        /\ publishing'.up.plan = publishing.up.plan
        /\ publishing'.up.files = new
        /\ publishing'.up.dest = publishing.up.dest
        /\ publishing'.up.moved = publishing.up.moved
        /\ publishing'.up.touched = publishing.up.touched
    BY <2>1, <2>5, <2>6
  <2>9. \A g \in File \ publishing.up.touched :
          IF g \in publishing'.done THEN Answers(g)' ELSE Compared(g)'
    <3>1. \A g \in File \ publishing.up.touched :
            IF g \in publishing.done THEN Answers(g) ELSE Compared(g)
      BY <2>1 DEF SiteInv, UploadFollows
    <3>2. \A g \in File \ {f} : (Compared(g) <=> Compared(g)')
                                /\ (Answers(g) <=> Answers(g)')
      BY <2>1, <2>4, <2>8 DEF Compared, Answers, Sites!Listed
    <3>3. Compared(f) => Answers(f)'
      BY <2>3, <2>4, <2>8 DEF Compared, Answers
    <3> QED BY <2>1, <2>8, <3>1, <3>2, <3>3
  <2>10. UploadFollows'
    BY <2>1, <2>8, <2>9 DEF SiteInv, UploadFollows, Sites!Destination
  <2> QED BY <2>1, <2>7, <2>10 DEF SiteInv, Sites!TypeOK, Sites!PushesKept
<1>9. CASE Sites!Open
  <2> DEFINE d == Sites!Destination(publishing.up.plan.dest)
             base == IF d \in Branch THEN merged[d] ELSE {}
  <2>1. /\ publishing \in Sites!Job /\ publishing # Sites!Idle
        /\ publishing.at = "read" /\ publishing.done = File
        /\ publishing' = [publishing EXCEPT !.at = "send", !.done = {},
                                            !.up.dest = d, !.base = base]
        /\ UNCHANGED <<folder, account, reviews, reviewed, pushed, merged>>
    BY <1>0, <1>9 DEF Sites!Open, Sites!Idle
  <2>2. publishing.up.plan.dest \in Dest \cup Public
    BY <2>1, JobShape DEF Sites!Plan
  <2>3. d \in Dest \cup Public /\ base \in SUBSET (1..MaxPushes)
    BY <1>0, <2>2 DEF Sites!Destination, SiteInv, Sites!TypeOK
  <2>4. publishing.up.plan.dest \in Public => d = publishing.up.plan.dest
    BY DEF Sites!Destination
  <2>5. publishing.up.moved \/ d = publishing.up.plan.dest
    BY <2>1 DEF SiteInv, UploadFollows
  <2> HIDE DEF d, base
  <2>6. publishing' =
          [at |-> "send", done |-> {}, base |-> base,
           up |-> [publishing.up EXCEPT !.dest = d]]
    BY <2>1 DEF Sites!Job
  <2>7. [publishing.up EXCEPT !.dest = d]
        = [plan |-> publishing.up.plan, files |-> publishing.up.files,
           dest |-> d, moved |-> publishing.up.moved,
           touched |-> publishing.up.touched]
    BY <2>1, JobShape DEF Sites!Upload
  <2>8. publishing' \in Sites!Job
    BY <2>1, <2>3, <2>6, <2>7, JobShape DEF Sites!Job, Sites!Upload
  <2>9. /\ publishing'.at = "send"
        /\ publishing'.up.plan = publishing.up.plan
        /\ publishing'.up.files = publishing.up.files
        /\ publishing'.up.dest = d
        /\ publishing'.up.moved = publishing.up.moved
        /\ publishing'.up.touched = publishing.up.touched
    BY <2>6, <2>7
  <2>10. /\ publishing.up.dest = publishing.up.plan.dest
         /\ \A f \in File \ publishing.up.touched : Answers(f)
    BY <2>1 DEF SiteInv, UploadFollows
  <2>11. \A f \in File \ publishing.up.touched : Answers(f)'
    BY <2>4, <2>9, <2>10 DEF Answers
  <2>12. UploadFollows'
    BY <2>1, <2>4, <2>5, <2>9, <2>11 DEF SiteInv, UploadFollows
  <2> QED BY <2>1, <2>8, <2>12 DEF SiteInv, Sites!TypeOK, Sites!PushesKept
<1>10. CASE Sites!Release
  <2>1. /\ publishing \in Sites!Job /\ publishing # Sites!Idle
        /\ publishing.at = "send"
        /\ publishing' = [publishing EXCEPT !.at = "record"]
        /\ UNCHANGED <<folder, account, reviews, reviewed, pushed>>
    BY <1>0, <1>10 DEF Sites!Release, Sites!Idle
  <2>2. merged' = merged
    BY <1>10 DEF Sites!Release, SiteInv, Sites!TypeOK
  <2>3. publishing' \in Sites!Job /\ publishing'.at = "record"
        /\ publishing'.up = publishing.up
    BY <2>1 DEF Sites!Job
  <2>4. UploadFollows'
    BY <2>1, <2>3 DEF SiteInv, UploadFollows, Answers
  <2> QED BY <2>1, <2>2, <2>3, <2>4 DEF SiteInv, Sites!TypeOK, Sites!PushesKept
<1>11. CASE Sites!Record \/ Sites!Fail
  <2>1. /\ publishing' = Sites!Idle /\ reviews' \subseteq reviews
        /\ UNCHANGED <<folder, account, reviewed, pushed, merged>>
    BY <1>11 DEF Sites!Record, Sites!Fail
  <2>2. UploadFollows'
    BY <2>1 DEF UploadFollows
  <2> QED BY <2>1, <2>2 DEF SiteInv, Sites!TypeOK, Sites!PushesKept
<1>12. ASSUME NEW b \in Branch, Sites!Push(b) PROVE SiteInv'
  <2>1. UNCHANGED <<folder, account, reviews, reviewed, publishing>>
    BY <1>12 DEF Sites!Push
  <2>2. /\ pushed' \in [Branch -> 0..MaxPushes]
        /\ merged' \in [Branch -> SUBSET (1..MaxPushes)]
        /\ \A x \in Branch : merged'[x] = 1..pushed'[x]
    <3>0. pushed \in [Branch -> 0..MaxPushes]
          /\ merged \in [Branch -> SUBSET (1..MaxPushes)]
      BY DEF SiteInv, Sites!TypeOK
    <3>1. pushed[b] \in 0..MaxPushes /\ pushed[b] < MaxPushes
          /\ merged[b] = 1..pushed[b]
      BY <1>12, <3>0 DEF Sites!Push, SiteInv, Sites!PushesKept
    <3>2. pushed[b] + 1 \in 0..MaxPushes
          /\ merged[b] \cup {pushed[b] + 1} = 1..(pushed[b] + 1)
      BY <3>1
    <3>3. (1..(pushed[b] + 1)) \in SUBSET (1..MaxPushes)
      BY <3>1
    <3> QED
      BY <1>12, <3>0, <3>2, <3>3 DEF Sites!Push, SiteInv, Sites!PushesKept
  <2>3. UploadFollows'
    BY <2>1 DEF SiteInv, UploadFollows, Compared, Answers, Sites!Listed,
                Sites!Destination
  <2> QED BY <2>1, <2>2, <2>3 DEF SiteInv, Sites!TypeOK, Sites!PushesKept
<1>13. CASE UNCHANGED Sites!vars
  BY <1>13 DEF Sites!vars, SiteInv, Sites!TypeOK, UploadFollows, Compared,
               Answers, Sites!Listed, Sites!Destination, Sites!PushesKept
<1> QED
  BY <1>1, <1>2, <1>3, <1>4, <1>5, <1>6, <1>7, <1>8, <1>9, <1>10, <1>11,
     <1>12, <1>13 DEF Sites!Next

\* While the folder is edited and other credentials are saved at any time, and
\* a publication fails, dies or is tried again: what goes on line is what was
\* reviewed, for where it was reviewed, but for what changed between the two
\* readings and for what a listing leaves out and IPFS takes; and no push of
\* others is undone (publish_site, publish_external, deploy_github).
THEOREM SitesHold == Sites!Spec => []SitesAsReviewed
<1>1. SiteInv => SitesAsReviewed
  <2> SUFFICES ASSUME SiteInv PROVE SitesAsReviewed
    OBVIOUS
  <2>1. publishing.at = "record" => publishing # Sites!Idle
    BY DEF Sites!Idle
  <2> QED
    BY <2>1 DEF SiteInv, UploadFollows, Answers, SitesAsReviewed,
                Sites!SitesAsReviewed, Sites!ReleaseWasReviewed
<1> QED
  BY <1>1, SiteStep, InitSites, PTL DEF Sites!Spec

LEMMA SitesType == Sites!Spec => []Sites!TypeOK
<1>1. SiteInv => Sites!TypeOK
  BY DEF SiteInv
<1> QED BY <1>1, SiteStep, InitSites, PTL DEF Sites!Spec

----------------------------------------------------------------------------
(* The checkpoints of a site. A file that was filled is never touched      *)
(* again, so that any copy of the manifest, however old, opens.            *)

Listing == [ts : Studio!Second, cid : StudioPage]

\* A manifest opens, with these files.
Opens(m, files) ==
  \A s \in Site : \A i \in DOMAIN m[s] : files[s][m[s][i].ts] = m[s][i].cid

StudioTyped ==
  /\ now \in Studio!Second
  /\ staged \in [Site -> StudioPage \cup {NoPage}]
  /\ copy \in [Site -> [Studio!Second -> StudioPage \cup {NoPage, Studio!Empty}]]
  /\ manifest \in [Site -> Seq(Listing)]
  /\ DOMAIN save = Saver

\* What each save has in hand: its page, until its file is made; its file;
\* the manifest it will put in place.
SaveHolds(c) ==
  /\ save[c].at = "read" =>
       /\ save[c] \in [at : {"read"}, site : Site, cid : StudioPage]
       /\ staged[save[c].site] = save[c].cid
  /\ save[c].at \in {"create", "fill", "list"} =>
       /\ save[c] \in [at : {"create", "fill", "list"}, site : Site,
                       cid : StudioPage, page : StudioPage, ts : Studio!Second]
       /\ save[c].page = save[c].cid
  /\ save[c].at = "fill" => copy[save[c].site][save[c].ts] = Studio!Empty
  /\ save[c].at = "list" => copy[save[c].site][save[c].ts] = save[c].cid
  /\ save[c].at = "replace" =>
       save[c].new \in [Site -> Seq(Listing)] /\ Opens(save[c].new, copy)

\* Two saves at once are of two sites.
SavesApart ==
  /\ \A c \in Saver :
       save[c].at \in {"idle", "read", "create", "fill", "list", "replace"}
  /\ \A c, d \in Saver :
       /\ save[c].at \in {"read", "create", "fill", "list"}
       /\ save[d].at \in {"read", "create", "fill", "list"}
       /\ save[c].site = save[d].site
       => c = d

StudioInv ==
  StudioTyped /\ SavesApart /\ (\A c \in Saver : SaveHolds(c)) /\ Opens(manifest, copy)

\* What is at the front of a list with a new head is the head or was there.
LEMMA FrontOfList ==
  ASSUME NEW S, NEW e \in S, NEW t \in Seq(S), NEW n \in Nat, n <= Len(t) + 1,
         NEW u, u = SubSeq(<<e>> \o t, 1, n)
  PROVE  /\ u \in Seq(S)
         /\ \A i \in DOMAIN u : u[i] = e \/ \E j \in DOMAIN t : u[i] = t[j]
<1> DEFINE l == <<e>> \o t
<1>1. l \in Seq(S) /\ Len(l) = Len(t) + 1
  OBVIOUS
<1>2. l[1] = e /\ \A i \in 2..Len(l) : i - 1 \in DOMAIN t /\ l[i] = t[i - 1]
  OBVIOUS
<1>3. u \in Seq(S) /\ Len(u) = n /\ \A i \in 1..n : u[i] = l[i]
  BY <1>1
<1>4. DOMAIN u = 1..n
  BY <1>3
<1>5. ASSUME NEW i \in 1..n PROVE u[i] = e \/ \E j \in DOMAIN t : u[i] = t[j]
  <2>1. CASE i = 1
    BY <2>1, <1>2, <1>3
  <2>2. CASE i # 1
    <3>1. i \in 2..Len(l)
      BY <2>2, <1>1
    <3> QED
      BY <3>1, <1>2, <1>3
  <2> QED
    BY <2>1, <2>2
<1> QED
  BY <1>3, <1>4, <1>5

\* What opens goes on opening while filled files stay as they are.
LEMMA OpensStays ==
  ASSUME NEW m \in [Site -> Seq(Listing)], NEW old, NEW new, Opens(m, old),
         \A s \in Site, t \in Studio!Second :
           old[s][t] \in StudioPage => new[s][t] = old[s][t]
  PROVE  Opens(m, new)
<1> SUFFICES ASSUME NEW s \in Site, NEW i \in DOMAIN m[s]
             PROVE  new[s][m[s][i].ts] = m[s][i].cid
  BY DEF Opens
<1>1. m[s][i] \in Listing
  OBVIOUS
<1>2. m[s][i].ts \in Studio!Second /\ m[s][i].cid \in StudioPage
  BY <1>1 DEF Listing
<1> QED
  BY <1>2 DEF Opens

LEMMA InitStudio == Studio!Init => StudioInv
<1> SUFFICES ASSUME Studio!Init PROVE StudioInv
  OBVIOUS
<1>1. StudioTyped
  BY SharingAssumption DEF Studio!Init, StudioTyped, Studio!Second
<1>2. \A c \in Saver : save[c].at = "idle"
  BY DEF Studio!Init, Studio!Idle
<1>3. Opens(manifest, copy)
  BY DEF Studio!Init, Opens
<1> QED
  BY <1>1, <1>2, <1>3 DEF StudioInv, SavesApart, SaveHolds

\* An action that changes no file, no manifest and nothing staged, and moves
\* one save on.
LEMMA SaveMovesOn ==
  ASSUME StudioInv, UNCHANGED <<staged, copy, manifest>>, now' \in Studio!Second,
         NEW c \in Saver, NEW to, save' = [save EXCEPT ![c] = to],
         SaveHolds(c)',
         \/ to.at = "idle"
         \/ to.at = "replace"
         \/ /\ to.at \in {"create", "fill", "list"} /\ to.site = save[c].site
            /\ save[c].at \in {"read", "create", "fill", "list"}
  PROVE  StudioInv'
<1>1. StudioTyped' /\ Opens(manifest, copy)'
  BY DEF StudioInv, StudioTyped
<1>2. SavesApart'
  BY DEF StudioInv, StudioTyped, SavesApart
<1>3. ASSUME NEW d \in Saver, d # c PROVE SaveHolds(d)'
  BY <1>3 DEF StudioInv, StudioTyped, SaveHolds
<1> QED
  BY <1>1, <1>2, <1>3 DEF StudioInv

LEMMA StudioStep ==
  ASSUME StudioOverlaps \cap {"same_site", "edit"} = {},
         StudioInv, [Studio!Next]_(Studio!vars)
  PROVE  StudioInv'
<1> USE SharingAssumption
    DEF Studio!Stands, Studio!Goes, Studio!Idle, Studio!Empty, Studio!Busy,
        Studio!MayBegin
<1>1. ASSUME NEW c \in Saver, NEW s \in Site, NEW p \in StudioPage, Studio!Save(c, s, p)
      PROVE  StudioInv'
  BY <1>1 DEF Studio!Save, StudioInv, StudioTyped, SavesApart, SaveHolds
<1>2. ASSUME NEW c \in Saver, NEW s \in Site, Studio!Publish(c, s)
      PROVE  StudioInv'
  BY <1>2 DEF Studio!Publish, StudioInv, StudioTyped, SavesApart, SaveHolds
<1>3. ASSUME NEW c \in Saver, Studio!Read(c) PROVE StudioInv'
  <2> DEFINE to == [at |-> "create", site |-> save[c].site, cid |-> save[c].cid,
                    page |-> staged[save[c].site], ts |-> now]
  <2>1. save' = [save EXCEPT ![c] = to] /\ UNCHANGED <<now, staged, copy, manifest>>
        /\ save[c].at = "read"
    BY <1>3 DEF Studio!Read
  <2>2. SaveHolds(c)'
    BY <2>1 DEF StudioInv, StudioTyped, SavesApart, SaveHolds
  <2> QED
    BY <2>1, <2>2, SaveMovesOn DEF StudioInv, StudioTyped
<1>4. ASSUME NEW c \in Saver, Studio!Create(c) PROVE StudioInv'
  <2> DEFINE s == save[c].site
             t == save[c].ts
  <2>1. save[c].at = "create" /\ s \in Site /\ t \in Studio!Second
    BY <1>4 DEF Studio!Create, StudioInv, SaveHolds
  <2>2. CASE copy[s][t] # NoPage
    <3> DEFINE to == [save[c] EXCEPT !.ts = @ + 1]
    <3>1. save' = [save EXCEPT ![c] = to] /\ t + 1 \in Studio!Second
          /\ UNCHANGED <<now, staged, copy, manifest>>
      BY <1>4, <2>2 DEF Studio!Create
    <3>2. SaveHolds(c)' /\ to.at = "create" /\ to.site = s
      BY <2>1, <3>1 DEF StudioInv, StudioTyped, SavesApart, SaveHolds
    <3> QED
      BY <2>1, <3>1, <3>2, SaveMovesOn DEF StudioInv, StudioTyped
  <2>3. CASE copy[s][t] = NoPage
    <3>1. /\ save' = [save EXCEPT ![c] = [save[c] EXCEPT !.at = "fill"]]
          /\ copy' = [copy EXCEPT ![s] = [@ EXCEPT ![t] = Studio!Empty]]
          /\ UNCHANGED <<now, staged, manifest>>
      BY <1>4, <2>3 DEF Studio!Create
    <3>2. \A x \in Site, y \in Studio!Second :
            copy[x][y] \in StudioPage => copy'[x][y] = copy[x][y]
      BY <2>1, <2>3, <3>1 DEF StudioInv, StudioTyped
    <3>3. StudioTyped' /\ SavesApart'
      BY <2>1, <3>1 DEF StudioInv, StudioTyped, SavesApart, SaveHolds
    <3>4. Opens(manifest, copy)'
      <4>1. manifest \in [Site -> Seq(Listing)] /\ Opens(manifest, copy)
        BY DEF StudioInv, StudioTyped
      <4>2. Opens(manifest, copy')
        BY <3>2, <4>1, OpensStays
      <4> QED
        BY <3>1, <4>2
    <3>5. SaveHolds(c)'
      <4>1. save[c] \in [at : {"create", "fill", "list"}, site : Site,
               cid : StudioPage, page : StudioPage, ts : Studio!Second]
            /\ save[c].page = save[c].cid
        BY <2>1 DEF StudioInv, SaveHolds
      <4>2. save'[c] = [save[c] EXCEPT !.at = "fill"]
        BY <3>1 DEF StudioInv, StudioTyped
      <4>3. copy'[s][t] = Studio!Empty
        BY <2>1, <3>1 DEF StudioInv, StudioTyped
      <4> QED
        BY <4>1, <4>2, <4>3 DEF SaveHolds
    <3>6. ASSUME NEW d \in Saver, d # c PROVE SaveHolds(d)'
      <4>1. save'[d] = save[d] /\ staged' = staged
        BY <3>1, <3>6 DEF StudioInv, StudioTyped
      <4>2. SaveHolds(d)
        BY DEF StudioInv
      <4>3. ASSUME save[d].at = "replace" PROVE Opens(save[d].new, copy')
        <5>1. save[d].new \in [Site -> Seq(Listing)] /\ Opens(save[d].new, copy)
          BY <4>2, <4>3 DEF SaveHolds
        <5>2. \A m \in [Site -> Seq(Listing)] : Opens(m, copy) => Opens(m, copy')
          BY <3>2, OpensStays
        <5> QED
          BY <5>1, <5>2
      <4>4. save[d].at = "list" =>
              copy'[save[d].site][save[d].ts] = copy[save[d].site][save[d].ts]
        BY <3>2, <4>2 DEF SaveHolds
      <4>5. save[d].at = "fill" =>
              save[d].site # s /\ save[d].site \in Site /\ save[d].ts \in Studio!Second
        BY <2>1, <3>6, <4>2 DEF StudioInv, SavesApart, SaveHolds
      <4>6. save[d].at = "fill" =>
              copy'[save[d].site][save[d].ts] = copy[save[d].site][save[d].ts]
        BY <2>1, <3>1, <4>5 DEF StudioInv, StudioTyped
      <4> QED
        BY <4>1, <4>2, <4>3, <4>4, <4>6 DEF SaveHolds
    <3> QED
      BY <3>3, <3>4, <3>5, <3>6 DEF StudioInv
  <2> QED
    BY <2>2, <2>3
<1>5. ASSUME NEW c \in Saver, Studio!Fill(c) PROVE StudioInv'
  <2> DEFINE s == save[c].site
             t == save[c].ts
  <2>1. save[c].at = "fill" /\ s \in Site /\ t \in Studio!Second
        /\ copy[s][t] = Studio!Empty
    BY <1>5 DEF Studio!Fill, StudioInv, SaveHolds
  <2>2. /\ save' = [save EXCEPT ![c] = [save[c] EXCEPT !.at = "list"]]
        /\ copy' = [copy EXCEPT ![s] = [@ EXCEPT ![t] = save[c].page]]
        /\ UNCHANGED <<now, staged, manifest>>
    BY <1>5 DEF Studio!Fill
  <2>3. \A x \in Site, y \in Studio!Second :
          copy[x][y] \in StudioPage => copy'[x][y] = copy[x][y]
    BY <2>1, <2>2 DEF StudioInv, StudioTyped
  <2>4. StudioTyped' /\ SavesApart'
    BY <2>1, <2>2 DEF StudioInv, StudioTyped, SavesApart, SaveHolds
  <2>5. Opens(manifest, copy)'
    <3>1. manifest \in [Site -> Seq(Listing)] /\ Opens(manifest, copy)
      BY DEF StudioInv, StudioTyped
    <3>2. Opens(manifest, copy')
      BY <2>3, <3>1, OpensStays
    <3> QED
      BY <2>2, <3>2
  <2>6. SaveHolds(c)'
    BY <2>1, <2>2, ZenonT(60) DEF StudioInv, StudioTyped, SavesApart, SaveHolds
  <2>7. ASSUME NEW d \in Saver, d # c PROVE SaveHolds(d)'
    <3>1. save'[d] = save[d] /\ staged' = staged
      BY <2>2, <2>7 DEF StudioInv, StudioTyped
    <3>2. SaveHolds(d)
      BY DEF StudioInv
    <3>3. ASSUME save[d].at = "replace" PROVE Opens(save[d].new, copy')
      <4>1. save[d].new \in [Site -> Seq(Listing)] /\ Opens(save[d].new, copy)
        BY <3>2, <3>3 DEF SaveHolds
      <4>2. \A m \in [Site -> Seq(Listing)] : Opens(m, copy) => Opens(m, copy')
        BY <2>3, OpensStays
      <4> QED
        BY <4>1, <4>2
    <3>4. save[d].at = "list" =>
            copy'[save[d].site][save[d].ts] = copy[save[d].site][save[d].ts]
      BY <2>3, <3>2 DEF SaveHolds
    <3>5. save[d].at = "fill" =>
            save[d].site # s /\ save[d].site \in Site /\ save[d].ts \in Studio!Second
      BY <2>1, <2>7, <3>2 DEF StudioInv, SavesApart, SaveHolds
    <3>6. save[d].at = "fill" =>
            copy'[save[d].site][save[d].ts] = copy[save[d].site][save[d].ts]
      BY <2>1, <2>2, <3>5 DEF StudioInv, StudioTyped
    <3> QED
      BY <3>1, <3>2, <3>3, <3>4, <3>6 DEF SaveHolds
  <2> QED
    BY <2>4, <2>5, <2>6, <2>7 DEF StudioInv
<1>6. ASSUME NEW c \in Saver, Studio!ReadManifest(c) PROVE StudioInv'
  <2> DEFINE s == save[c].site
             entry == [ts |-> save[c].ts, cid |-> save[c].cid]
             longer == <<entry>> \o manifest[s]
             n == IF Len(longer) > MaxList THEN MaxList ELSE Len(longer)
             list == SubSeq(longer, 1, n)
             new == [manifest EXCEPT ![s] = list]
  <2>1. /\ save[c].at = "list" /\ s \in Site /\ entry \in Listing
        /\ copy[s][entry.ts] = entry.cid
    BY <1>6 DEF Studio!ReadManifest, StudioInv, SaveHolds, Listing
  <2>2. /\ save' = [save EXCEPT ![c] = [at |-> "replace", site |-> s, new |-> new]]
        /\ UNCHANGED <<now, staged, copy, manifest>>
    BY <1>6 DEF Studio!ReadManifest
  <2>3. manifest[s] \in Seq(Listing)
    BY <2>1 DEF StudioInv, StudioTyped
  <2>4. n \in Nat /\ n <= Len(manifest[s]) + 1
    BY <2>3
  <2>5. list = SubSeq(<<entry>> \o manifest[s], 1, n)
    OBVIOUS
  <2> HIDE DEF entry, longer, n, list
  <2>6. list \in Seq(Listing)
        /\ \A i \in DOMAIN list :
             list[i] = entry \/ \E j \in DOMAIN manifest[s] : list[i] = manifest[s][j]
    BY <2>1, <2>3, <2>4, <2>5, FrontOfList
  <2>7. new \in [Site -> Seq(Listing)] /\ Opens(new, copy)
    <3>1. new \in [Site -> Seq(Listing)]
      BY <2>1, <2>6 DEF StudioInv, StudioTyped
    <3>2. ASSUME NEW x \in Site, NEW i \in DOMAIN new[x]
          PROVE  copy[x][new[x][i].ts] = new[x][i].cid
      <4>1. CASE x = s
        <5>1. new[x] = list
          BY <2>1, <4>1 DEF StudioInv, StudioTyped
        <5>2. \A j \in DOMAIN manifest[s] :
                copy[s][manifest[s][j].ts] = manifest[s][j].cid
          BY <2>1 DEF StudioInv, Opens
        <5> QED
          BY <2>1, <2>6, <4>1, <5>1, <5>2, SMTT(40)
      <4>2. CASE x # s
        <5>1. new[x] = manifest[x]
          BY <4>2 DEF StudioInv, StudioTyped
        <5> QED
          BY <5>1 DEF StudioInv, Opens
      <4> QED
        BY <4>1, <4>2
    <3> QED
      BY <3>1, <3>2 DEF Opens
  <2>8. SaveHolds(c)'
    BY <2>2, <2>7 DEF StudioInv, StudioTyped, SaveHolds
  <2> QED
    BY <2>2, <2>8, SaveMovesOn DEF StudioInv, StudioTyped
<1>7. ASSUME NEW c \in Saver, Studio!ReplaceManifest(c) PROVE StudioInv'
  <2>1. /\ save' = [save EXCEPT ![c] = [at |-> "idle"]]
        /\ manifest' = save[c].new /\ UNCHANGED <<now, staged, copy>>
        /\ manifest' \in [Site -> Seq(Listing)] /\ Opens(manifest', copy')
    BY <1>7 DEF Studio!ReplaceManifest, StudioInv, SaveHolds
  <2>2. StudioTyped' /\ SavesApart' /\ Opens(manifest, copy)'
    BY <2>1 DEF StudioInv, StudioTyped, SavesApart
  <2>3. ASSUME NEW d \in Saver PROVE SaveHolds(d)'
    BY <2>1 DEF StudioInv, StudioTyped, SaveHolds
  <2> QED
    BY <2>2, <2>3 DEF StudioInv
<1>8. ASSUME NEW c \in Saver, Studio!Fail(c) PROVE StudioInv'
  <2>1. /\ save' = [save EXCEPT ![c] = [at |-> "idle"]]
        /\ UNCHANGED <<now, staged, copy, manifest>>
    BY <1>8 DEF Studio!Fail
  <2>2. SaveHolds(c)'
    BY <2>1 DEF StudioInv, StudioTyped, SaveHolds
  <2> QED
    BY <2>1, <2>2, SaveMovesOn DEF StudioInv, StudioTyped
<1>9. ASSUME NEW s \in Site, NEW p \in StudioPage, Studio!Edit(s, p)
      PROVE  StudioInv'
  BY <1>9 DEF Studio!Edit, StudioInv, StudioTyped, SavesApart, SaveHolds
<1>10. CASE Studio!Tick
  <2>1. now' \in Studio!Second /\ UNCHANGED <<staged, copy, manifest, save>>
    BY <1>10 DEF Studio!Tick, StudioInv, StudioTyped, Studio!Second
  <2> QED
    BY <2>1 DEF StudioInv, StudioTyped, SavesApart, SaveHolds
<1>11. CASE UNCHANGED Studio!vars
  BY <1>11 DEF Studio!vars, StudioInv, StudioTyped, SavesApart, SaveHolds
<1> QED
  BY <1>1, <1>2, <1>3, <1>4, <1>5, <1>6, <1>7, <1>8, <1>9, <1>10, <1>11
  DEF Studio!Next

\* When a site is saved and edited by one request at a time, every checkpoint
\* in its list opens as the page saved under its CID: while other sites are
\* saved, several times within a second, and though saves fail anywhere
\* (record_site_checkpoint).
THEOREM CheckpointsOpen ==
  StudioOverlaps \cap {"same_site", "edit"} = {} => (Studio!Spec => []ListedOpens)
<1> SUFFICES ASSUME StudioOverlaps \cap {"same_site", "edit"} = {}
             PROVE  Studio!Spec => []ListedOpens
  OBVIOUS
<1>1. StudioInv => ListedOpens
  BY DEF StudioInv, StudioTyped, Opens, ListedOpens, Studio!ListedOpens,
         Studio!ToSet
<1>2. StudioInv /\ [Studio!Next]_(Studio!vars) => StudioInv'
  BY StudioStep
<1> QED
  BY <1>1, <1>2, InitStudio, PTL DEF Studio!Spec

\* Without the assumption: a list has as many entries as it may, and each
\* entry's file was filled.
ShortList == {l \in Seq(Listing) : Len(l) <= MaxList}
FilesFilled(m, files) ==
  \A s \in Site : \A i \in DOMAIN m[s] : files[s][m[s][i].ts] \in StudioPage

StudioBounds ==
  /\ now \in Studio!Second
  /\ staged \in [Site -> StudioPage \cup {NoPage}]
  /\ copy \in [Site -> [Studio!Second -> StudioPage \cup {NoPage, Studio!Empty}]]
  /\ manifest \in [Site -> ShortList]
  /\ DOMAIN save = Saver

SaveShaped(c) ==
  /\ save[c].at \in {"idle", "read", "create", "fill", "list", "replace"}
  /\ save[c].at = "read" =>
       /\ save[c] \in [at : {"read"}, site : Site, cid : StudioPage]
       /\ staged[save[c].site] \in StudioPage
  /\ save[c].at \in {"create", "fill", "list"} =>
       save[c] \in [at : {"create", "fill", "list"}, site : Site,
                    cid : StudioPage, page : StudioPage, ts : Studio!Second]
  /\ save[c].at = "fill" => copy[save[c].site][save[c].ts] = Studio!Empty
  /\ save[c].at = "list" => copy[save[c].site][save[c].ts] \in StudioPage
  /\ save[c].at = "replace" =>
       save[c].new \in [Site -> ShortList] /\ FilesFilled(save[c].new, copy)

\* Two saves never fill the same file.
OneFills ==
  \A c, d \in Saver :
    /\ save[c].at = "fill" /\ save[d].at = "fill"
    /\ save[c].site = save[d].site /\ save[c].ts = save[d].ts
    => c = d

StudioShape ==
  /\ StudioBounds /\ OneFills
  /\ \A c \in Saver : SaveShaped(c)
  /\ FilesFilled(manifest, copy)

\* Filled files stay as they are.
FilesStay ==
  \A s \in Site, t \in Studio!Second :
    copy[s][t] \in StudioPage => copy'[s][t] = copy[s][t]

LEMMA FilledStays ==
  ASSUME FilesStay, NEW m \in [Site -> ShortList], FilesFilled(m, copy)
  PROVE  FilesFilled(m, copy')
<1> SUFFICES ASSUME NEW s \in Site, NEW i \in DOMAIN m[s]
             PROVE  copy'[s][m[s][i].ts] \in StudioPage
  BY DEF FilesFilled
<1>1. m[s] \in Seq(Listing)
  BY DEF ShortList
<1>2. m[s][i] \in Listing
  BY <1>1
<1>3. m[s][i].ts \in Studio!Second /\ copy[s][m[s][i].ts] \in StudioPage
  BY <1>2 DEF Listing, FilesFilled
<1> QED
  BY <1>3 DEF FilesStay

\* A save that does not move keeps what it has in hand.
LEMMA OthersShaped ==
  ASSUME StudioShape, FilesStay, NEW d \in Saver, save'[d] = save[d],
         \A s \in Site : staged[s] \in StudioPage => staged'[s] \in StudioPage,
         save[d].at = "fill" =>
           copy'[save[d].site][save[d].ts] = copy[save[d].site][save[d].ts]
  PROVE  SaveShaped(d)'
<1>1. SaveShaped(d)
  BY DEF StudioShape
<1>2. ASSUME save[d].at = "replace" PROVE FilesFilled(save[d].new, copy')
  BY <1>1, <1>2, FilledStays DEF SaveShaped
<1>3. ASSUME save[d].at = "list"
      PROVE  copy'[save[d].site][save[d].ts] \in StudioPage
  BY <1>1, <1>3 DEF SaveShaped, FilesStay
<1>4. ASSUME save[d].at = "read" PROVE staged'[save[d].site] \in StudioPage
  BY <1>1, <1>4 DEF SaveShaped
<1>5. save[d].at = "fill" => copy'[save[d].site][save[d].ts] = Studio!Empty
  BY <1>1 DEF SaveShaped
<1> QED
  BY <1>1, <1>2, <1>3, <1>4, <1>5 DEF SaveShaped

\* One save moves on, and no file changes.
LEMMA ShapeMovesOn ==
  ASSUME StudioShape, NEW c \in Saver, NEW to, save' = [save EXCEPT ![c] = to],
         UNCHANGED <<now, copy>>, to.at # "fill",
         staged' \in [Site -> StudioPage \cup {NoPage}],
         \A s \in Site : staged[s] \in StudioPage => staged'[s] \in StudioPage,
         manifest' \in [Site -> ShortList], FilesFilled(manifest', copy),
         SaveShaped(c)'
  PROVE  StudioShape' /\ FilesStay
<1>1. FilesStay
  BY DEF FilesStay
<1>2. \A d \in Saver : d # c => save'[d] = save[d]
  BY DEF StudioShape, StudioBounds
<1>3. save'[c] = to
  BY DEF StudioShape, StudioBounds
<1>4. \A d \in Saver : SaveShaped(d)'
  BY <1>1, <1>2, OthersShaped
<1>5. OneFills'
  BY <1>2, <1>3 DEF OneFills, StudioShape
<1>6. StudioBounds'
  BY DEF StudioShape, StudioBounds
<1>7. FilesFilled(manifest, copy)'
  OBVIOUS
<1> QED
  BY <1>1, <1>4, <1>5, <1>6, <1>7 DEF StudioShape

LEMMA ShapeCreate ==
  ASSUME StudioShape, NEW c \in Saver, Studio!Create(c)
  PROVE  StudioShape' /\ FilesStay
<1> DEFINE s == save[c].site
           t == save[c].ts
<1> USE SharingAssumption DEF Studio!Goes, Studio!Stands, Studio!Empty
<1>1. /\ save[c].at = "create" /\ s \in Site /\ t \in Studio!Second
      /\ save[c] \in [at : {"create", "fill", "list"}, site : Site,
                       cid : StudioPage, page : StudioPage, ts : Studio!Second]
  BY DEF Studio!Create, StudioShape, SaveShaped
<1>2. CASE copy[s][t] # NoPage
  <2> DEFINE to == [save[c] EXCEPT !.ts = @ + 1]
  <2>1. /\ save' = [save EXCEPT ![c] = to] /\ t + 1 \in Studio!Second
        /\ UNCHANGED <<now, staged, copy, manifest>>
    BY <1>2 DEF Studio!Create
  <2>2. /\ to \in [at : {"create", "fill", "list"}, site : Site,
                   cid : StudioPage, page : StudioPage, ts : Studio!Second]
        /\ to.at = "create"
    BY <1>1, <2>1
  <2>3. save'[c] = to
    BY <2>1 DEF StudioShape, StudioBounds
  <2>4. SaveShaped(c)'
    BY <2>2, <2>3 DEF SaveShaped
  <2> HIDE DEF to
  <2>5. /\ staged' \in [Site -> StudioPage \cup {NoPage}]
        /\ manifest' \in [Site -> ShortList] /\ FilesFilled(manifest', copy)
    BY <2>1 DEF StudioShape, StudioBounds
  <2> QED BY <2>1, <2>2, <2>4, <2>5, ShapeMovesOn
<1>3. CASE copy[s][t] = NoPage
  <2>1. /\ save' = [save EXCEPT ![c] = [save[c] EXCEPT !.at = "fill"]]
        /\ copy' = [copy EXCEPT ![s] = [@ EXCEPT ![t] = Studio!Empty]]
        /\ UNCHANGED <<now, staged, manifest>>
    BY <1>3 DEF Studio!Create
  <2>2. \A x \in Site, y \in Studio!Second :
          copy'[x][y] = IF x = s /\ y = t THEN Studio!Empty ELSE copy[x][y]
    BY <1>1, <2>1 DEF StudioShape, StudioBounds
  <2>3. FilesStay
    BY <1>3, <2>2 DEF FilesStay
  <2>4. /\ save'[c] = [save[c] EXCEPT !.at = "fill"]
        /\ \A d \in Saver : d # c => save'[d] = save[d]
    BY <2>1 DEF StudioShape, StudioBounds
  <2>5. SaveShaped(c)'
    BY <1>1, <2>2, <2>4 DEF SaveShaped
  <2>6. ASSUME NEW d \in Saver, d # c, save[d].at = "fill"
        PROVE  /\ copy[save[d].site][save[d].ts] = Studio!Empty
               /\ save[d].site \in Site /\ save[d].ts \in Studio!Second
    BY <2>6 DEF StudioShape, SaveShaped
  <2>7. ASSUME NEW d \in Saver, d # c PROVE SaveShaped(d)'
    <3>1. save[d].at = "fill" =>
            copy'[save[d].site][save[d].ts] = copy[save[d].site][save[d].ts]
      BY <2>2, <2>6, <2>7
    <3> QED BY <2>1, <2>3, <2>4, <2>7, <3>1, OthersShaped
  <2>8. OneFills'
    <3>1. ASSUME NEW d \in Saver, d # c, save[d].at = "fill"
          PROVE  ~ (save[d].site = s /\ save[d].ts = t)
      BY <1>3, <2>6, <3>1
    <3>2. save'[c].site = s /\ save'[c].ts = t
      BY <1>1, <2>4
    <3>3. \A d \in Saver : d # c /\ save'[d].at = "fill" =>
            ~ (save'[d].site = s /\ save'[d].ts = t)
      BY <2>4, <3>1
    <3>4. \A d, e \in Saver :
            /\ d # c /\ e # c /\ save'[d].at = "fill" /\ save'[e].at = "fill"
            /\ save'[d].site = save'[e].site /\ save'[d].ts = save'[e].ts
            => d = e
      BY <2>4 DEF StudioShape, OneFills
    <3> HIDE DEF s, t
    <3> QED BY <3>2, <3>3, <3>4, Zenon DEF OneFills
  <2>9. StudioBounds'
    BY <1>1, <2>1 DEF StudioShape, StudioBounds
  <2>10. FilesFilled(manifest, copy)'
    BY <2>1, <2>3, FilledStays DEF StudioShape, StudioBounds
  <2> QED BY <2>3, <2>5, <2>7, <2>8, <2>9, <2>10 DEF StudioShape
<1> QED BY <1>2, <1>3

LEMMA ShapeFill ==
  ASSUME StudioShape, NEW c \in Saver, Studio!Fill(c)
  PROVE  StudioShape' /\ FilesStay
<1> DEFINE s == save[c].site
           t == save[c].ts
<1> USE SharingAssumption DEF Studio!Goes, Studio!Stands, Studio!Empty
<1>1. /\ save[c].at = "fill" /\ s \in Site /\ t \in Studio!Second
      /\ save[c] \in [at : {"create", "fill", "list"}, site : Site,
                       cid : StudioPage, page : StudioPage, ts : Studio!Second]
      /\ copy[s][t] = Studio!Empty
  BY DEF Studio!Fill, StudioShape, SaveShaped
<1>2. /\ save' = [save EXCEPT ![c] = [save[c] EXCEPT !.at = "list"]]
      /\ copy' = [copy EXCEPT ![s] = [@ EXCEPT ![t] = save[c].page]]
      /\ UNCHANGED <<now, staged, manifest>>
  BY DEF Studio!Fill
<1>3. \A x \in Site, y \in Studio!Second :
        copy'[x][y] = IF x = s /\ y = t THEN save[c].page ELSE copy[x][y]
  BY <1>1, <1>2 DEF StudioShape, StudioBounds
<1>4. FilesStay
  BY <1>1, <1>3 DEF FilesStay
<1>5. /\ save'[c] = [save[c] EXCEPT !.at = "list"]
      /\ \A d \in Saver : d # c => save'[d] = save[d]
  BY <1>2 DEF StudioShape, StudioBounds
<1>6. SaveShaped(c)'
  BY <1>1, <1>3, <1>5 DEF SaveShaped
<1>7. ASSUME NEW d \in Saver, d # c PROVE SaveShaped(d)'
  <2>1. ASSUME save[d].at = "fill"
        PROVE  copy'[save[d].site][save[d].ts] = copy[save[d].site][save[d].ts]
    <3>1. save[d].site \in Site /\ save[d].ts \in Studio!Second
      BY <2>1 DEF StudioShape, SaveShaped
    <3>2. ~ (save[d].site = s /\ save[d].ts = t)
      BY <1>1, <1>7, <2>1 DEF StudioShape, OneFills
    <3> QED BY <1>3, <3>1, <3>2
  <2> QED BY <1>2, <1>4, <1>5, <1>7, <2>1, OthersShaped
<1>8. OneFills'
  <2>1. save'[c].at = "list"
    BY <1>1, <1>5
  <2> QED BY <1>5, <2>1 DEF StudioShape, OneFills
<1>9. StudioBounds'
  BY <1>1, <1>2 DEF StudioShape, StudioBounds
<1>10. FilesFilled(manifest, copy)'
  BY <1>2, <1>4, FilledStays DEF StudioShape, StudioBounds
<1> QED BY <1>4, <1>6, <1>7, <1>8, <1>9, <1>10 DEF StudioShape

LEMMA ShapeRead ==
  ASSUME StudioShape, NEW c \in Saver, Studio!ReadManifest(c)
  PROVE  StudioShape' /\ FilesStay
<1> DEFINE s == save[c].site
           entry == [ts |-> save[c].ts, cid |-> save[c].cid]
           longer == <<entry>> \o manifest[s]
           n == IF Len(longer) > MaxList THEN MaxList ELSE Len(longer)
           list == SubSeq(longer, 1, n)
           new == [manifest EXCEPT ![s] = list]
           to == [at |-> "replace", site |-> s, new |-> new]
<1>1. /\ save[c].at = "list" /\ s \in Site /\ entry \in Listing
      /\ copy[s][entry.ts] \in StudioPage
  BY DEF Studio!ReadManifest, Studio!Stands, StudioShape, SaveShaped, Listing
<1>2. /\ save' = [save EXCEPT ![c] = to]
      /\ UNCHANGED <<now, staged, copy, manifest>>
  BY DEF Studio!ReadManifest, Studio!Goes
<1>3. manifest[s] \in Seq(Listing)
  BY <1>1 DEF StudioShape, StudioBounds, ShortList
<1>4. n \in Nat /\ n <= Len(manifest[s]) + 1 /\ n <= MaxList
  BY <1>3, SharingAssumption
<1>5. list = SubSeq(<<entry>> \o manifest[s], 1, n)
  OBVIOUS
<1> HIDE DEF entry, longer, n, list
<1>6. list \in Seq(Listing)
      /\ \A i \in DOMAIN list :
           list[i] = entry \/ \E j \in DOMAIN manifest[s] : list[i] = manifest[s][j]
  BY <1>1, <1>3, <1>4, <1>5, FrontOfList
<1>7. Len(list) = n
  BY <1>1, <1>3, <1>4, <1>5
<1>8. new \in [Site -> ShortList]
  BY <1>1, <1>4, <1>6, <1>7 DEF StudioShape, StudioBounds, ShortList
<1>9. ASSUME NEW x \in Site, NEW i \in DOMAIN new[x]
      PROVE  copy[x][new[x][i].ts] \in StudioPage
  <2>1. CASE x = s
    <3>1. new[x] = list
      BY <1>1, <2>1 DEF StudioShape, StudioBounds
    <3>2. \A j \in DOMAIN manifest[s] : copy[s][manifest[s][j].ts] \in StudioPage
      BY <1>1 DEF StudioShape, FilesFilled
    <3> QED
      BY <1>1, <1>6, <2>1, <3>1, <3>2, SMTT(40)
  <2>2. CASE x # s
    <3>1. new[x] = manifest[x]
      BY <2>2 DEF StudioShape, StudioBounds
    <3> QED
      BY <3>1 DEF StudioShape, FilesFilled
  <2> QED BY <2>1, <2>2
<1>10. FilesFilled(new, copy)
  BY <1>9 DEF FilesFilled
<1>11. save'[c] = to
  BY <1>2 DEF StudioShape, StudioBounds
<1> HIDE DEF new
<1>12. SaveShaped(c)'
  BY <1>2, <1>8, <1>10, <1>11 DEF SaveShaped
<1>13. /\ staged' \in [Site -> StudioPage \cup {NoPage}]
       /\ manifest' \in [Site -> ShortList] /\ FilesFilled(manifest', copy)
  BY <1>2 DEF StudioShape, StudioBounds
<1>14. to.at # "fill"
  OBVIOUS
<1> HIDE DEF to
<1> QED BY <1>2, <1>12, <1>13, <1>14, ShapeMovesOn

LEMMA ShapeStep ==
  ASSUME StudioShape, [Studio!Next]_(Studio!vars)
  PROVE  StudioShape' /\ FilesStay
<1> USE SharingAssumption
    DEF Studio!Stands, Studio!Goes, Studio!Idle, Studio!Empty, Studio!MayBegin
<1>0. /\ staged \in [Site -> StudioPage \cup {NoPage}] /\ DOMAIN save = Saver
      /\ manifest \in [Site -> ShortList] /\ FilesFilled(manifest, copy)
  BY DEF StudioShape, StudioBounds
<1>1. ASSUME NEW c \in Saver, NEW s \in Site, NEW p \in StudioPage, Studio!Save(c, s, p)
      PROVE  StudioShape' /\ FilesStay
  <2> DEFINE to == [at |-> "read", site |-> s, cid |-> p]
  <2>1. /\ save' = [save EXCEPT ![c] = to] /\ staged' = [staged EXCEPT ![s] = p]
        /\ UNCHANGED <<now, copy, manifest>>
    BY <1>1 DEF Studio!Save
  <2>2. SaveShaped(c)'
    BY <1>0, <2>1 DEF SaveShaped
  <2>3. /\ to.at # "fill"
        /\ staged' \in [Site -> StudioPage \cup {NoPage}]
        /\ \A x \in Site : staged[x] \in StudioPage => staged'[x] \in StudioPage
        /\ manifest' \in [Site -> ShortList] /\ FilesFilled(manifest', copy)
    BY <1>0, <2>1
  <2> HIDE DEF to
  <2> QED BY <2>1, <2>2, <2>3, ShapeMovesOn
<1>2. ASSUME NEW c \in Saver, NEW s \in Site, Studio!Publish(c, s)
      PROVE  StudioShape' /\ FilesStay
  <2> DEFINE to == [at |-> "read", site |-> s, cid |-> staged[s]]
  <2>1. /\ save' = [save EXCEPT ![c] = to] /\ staged[s] \in StudioPage
        /\ UNCHANGED <<now, staged, copy, manifest>>
    BY <1>0, <1>2 DEF Studio!Publish
  <2>2. SaveShaped(c)'
    BY <1>0, <2>1 DEF SaveShaped
  <2>3. /\ to.at # "fill"
        /\ staged' \in [Site -> StudioPage \cup {NoPage}]
        /\ \A x \in Site : staged[x] \in StudioPage => staged'[x] \in StudioPage
        /\ manifest' \in [Site -> ShortList] /\ FilesFilled(manifest', copy)
    BY <1>0, <2>1
  <2> HIDE DEF to
  <2> QED BY <2>1, <2>2, <2>3, ShapeMovesOn
<1>3. ASSUME NEW c \in Saver, Studio!Read(c) PROVE StudioShape' /\ FilesStay
  <2> DEFINE to == [at |-> "create", site |-> save[c].site, cid |-> save[c].cid,
                    page |-> staged[save[c].site], ts |-> now]
  <2>1. /\ save' = [save EXCEPT ![c] = to] /\ save[c].at = "read"
        /\ UNCHANGED <<now, staged, copy, manifest>>
    BY <1>3 DEF Studio!Read
  <2>2. SaveShaped(c)'
    BY <1>0, <2>1 DEF StudioShape, StudioBounds, SaveShaped
  <2>3. /\ to.at # "fill"
        /\ staged' \in [Site -> StudioPage \cup {NoPage}]
        /\ \A x \in Site : staged[x] \in StudioPage => staged'[x] \in StudioPage
        /\ manifest' \in [Site -> ShortList] /\ FilesFilled(manifest', copy)
    BY <1>0, <2>1
  <2> HIDE DEF to
  <2> QED BY <2>1, <2>2, <2>3, ShapeMovesOn
<1>4. ASSUME NEW c \in Saver, Studio!ReplaceManifest(c)
      PROVE  StudioShape' /\ FilesStay
  <2> DEFINE to == [at |-> "idle"]
  <2>1. /\ save' = [save EXCEPT ![c] = to]
        /\ manifest' = save[c].new /\ save[c].at = "replace"
        /\ UNCHANGED <<now, staged, copy>>
    BY <1>4 DEF Studio!ReplaceManifest
  <2>2. manifest' \in [Site -> ShortList] /\ FilesFilled(manifest', copy)
    BY <2>1 DEF StudioShape, SaveShaped
  <2>3. SaveShaped(c)'
    BY <1>0, <2>1 DEF SaveShaped
  <2>4. /\ to.at # "fill"
        /\ staged' \in [Site -> StudioPage \cup {NoPage}]
        /\ \A x \in Site : staged[x] \in StudioPage => staged'[x] \in StudioPage
    BY <1>0, <2>1
  <2> HIDE DEF to
  <2> QED BY <2>1, <2>2, <2>3, <2>4, ShapeMovesOn
<1>5. ASSUME NEW c \in Saver, Studio!Fail(c) PROVE StudioShape' /\ FilesStay
  <2> DEFINE to == [at |-> "idle"]
  <2>1. /\ save' = [save EXCEPT ![c] = to]
        /\ UNCHANGED <<now, staged, copy, manifest>>
    BY <1>5 DEF Studio!Fail
  <2>2. SaveShaped(c)'
    BY <1>0, <2>1 DEF SaveShaped
  <2>3. /\ to.at # "fill"
        /\ staged' \in [Site -> StudioPage \cup {NoPage}]
        /\ \A x \in Site : staged[x] \in StudioPage => staged'[x] \in StudioPage
        /\ manifest' \in [Site -> ShortList] /\ FilesFilled(manifest', copy)
    BY <1>0, <2>1
  <2> HIDE DEF to
  <2> QED BY <2>1, <2>2, <2>3, ShapeMovesOn
<1>6. ASSUME UNCHANGED <<copy, manifest, save>>, now' \in Studio!Second,
             staged' \in [Site -> StudioPage \cup {NoPage}],
             \A s \in Site : staged[s] \in StudioPage => staged'[s] \in StudioPage
      PROVE  StudioShape' /\ FilesStay
  <2>1. FilesStay
    BY <1>6 DEF FilesStay
  <2>2. \A d \in Saver : SaveShaped(d)'
    BY <1>6, <2>1, OthersShaped
  <2> QED BY <1>6, <2>1, <2>2 DEF StudioShape, StudioBounds, OneFills
<1>7. ASSUME NEW s \in Site, NEW p \in StudioPage, Studio!Edit(s, p)
      PROVE  StudioShape' /\ FilesStay
  BY <1>0, <1>6, <1>7 DEF Studio!Edit, StudioShape, StudioBounds
<1>8. CASE Studio!Tick
  BY <1>0, <1>6, <1>8 DEF Studio!Tick, StudioShape, StudioBounds, Studio!Second
<1>9. CASE UNCHANGED Studio!vars
  BY <1>0, <1>6, <1>9 DEF Studio!vars, StudioShape, StudioBounds
<1> QED
  BY <1>1, <1>2, <1>3, <1>4, <1>5, <1>7, <1>8, <1>9, ShapeCreate, ShapeFill,
     ShapeRead
  DEF Studio!Next

LEMMA InitShape == Studio!Init => StudioShape
<1> SUFFICES ASSUME Studio!Init PROVE StudioShape
  OBVIOUS
<1>1. StudioBounds
  BY SharingAssumption
  DEF Studio!Init, StudioBounds, Studio!Second, ShortList
<1>2. \A c \in Saver : save[c].at = "idle"
  BY DEF Studio!Init, Studio!Idle
<1>3. FilesFilled(manifest, copy)
  BY DEF Studio!Init, FilesFilled
<1> QED
  BY <1>1, <1>2, <1>3 DEF StudioShape, SaveShaped, OneFills

\* Even when a site is saved and edited by several requests at once, the file
\* of a checkpoint is never written over once it was filled, and no list names
\* a file that is missing or empty; what may be wrong is only that a file
\* shows another page than the one its CID was computed of, or that an entry
\* is lost (record_site_checkpoint).
THEOREM CheckpointsStay ==
  Studio!Spec => [][FilesStay]_(Studio!vars) /\ []FilesFilled(manifest, copy)
<1>1. StudioShape => FilesFilled(manifest, copy)
  BY DEF StudioShape
<1>2. StudioShape /\ [Studio!Next]_(Studio!vars) => StudioShape' /\ [FilesStay]_(Studio!vars)
  BY ShapeStep
<1> QED
  BY <1>1, <1>2, InitShape, PTL DEF Studio!Spec

LEMMA StudioType == Studio!Spec => []Studio!TypeOK
<1>1. StudioShape => Studio!TypeOK
  <2> SUFFICES ASSUME StudioShape, NEW s \in Site
               PROVE  /\ Len(manifest[s]) <= MaxList
                      /\ Studio!ToSet(manifest[s]) \subseteq Listing
    BY DEF StudioShape, StudioBounds, Studio!TypeOK, Listing
  <2>1. manifest[s] \in Seq(Listing) /\ Len(manifest[s]) <= MaxList
    BY DEF StudioShape, StudioBounds, ShortList
  <2> QED BY <2>1 DEF Studio!ToSet
<1>2. StudioShape /\ [Studio!Next]_(Studio!vars) => StudioShape'
  BY ShapeStep
<1> QED
  BY <1>1, <1>2, InitShape, PTL DEF Studio!Spec
=============================================================================
