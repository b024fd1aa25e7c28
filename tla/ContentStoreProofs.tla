------------------------- MODULE ContentStoreProofs -------------------------
(***************************************************************************)
(* Theorems about ContentStore for every block graph, every set of names   *)
(* and every set of requests, checked by TLAPS.                            *)
(*                                                                         *)
(*   TypeCorrect       every variable keeps its type                       *)
(*   HolesStop         a pass that meets a link to a block that never was  *)
(*                     here removes nothing, whatever runs at once         *)
(*   ReceiptsComplete  with at most one collector in flight, every block   *)
(*                     that was deleted has its tombstone                  *)
(*   SweepSafe         with one request at a time, the sweep spares what   *)
(*                     is reached without a link into the trimmed tail,    *)
(*                     and all that is needed where only parent pointers   *)
(*                     lead there                                          *)
(*   SupersededSoundly a checkpoint reported superseded has the surviving  *)
(*                     tip as a descendant, whatever runs at once          *)
(*   PassesMoveOn      no step of a pass is taken twice: every step marks  *)
(*                     a block more, drops one from the work list or       *)
(*                     removes one, whatever runs at once                  *)
(*   ContractKept      with one request at a time, and checkpoints linked  *)
(*                     to by parent pointers only, the store implements    *)
(*                     StoreContract                                       *)
(***************************************************************************)
EXTENDS ContentStore, TLAPS, FiniteSetTheorems, WellFoundedInduction

\* The type of every variable is an invariant.
THEOREM TypeCorrect == Spec => []TypeOK
<1>1. Init => TypeOK
  BY BlockGraphAssumption, StoreAssumption
  DEF Init, TypeOK, Unbound, NoLedger, BlockGraphAssumption, StoreAssumption
<1>2. TypeOK /\ [Next]_vars => TypeOK'
  <2> SUFFICES ASSUME TypeOK, [Next]_vars
               PROVE  TypeOK'
    OBVIOUS
  <2> USE BlockGraphAssumption, StoreAssumption
      DEF TypeOK, BlockGraphAssumption, StoreAssumption
  <2>0. ASSUME NEW r \in Request, Forget(r)
        PROVE  TypeOK'
    BY <2>0 DEF Forget, files, Unbound, NoLedger
  <2>1. ASSUME NEW r \in Request, Open(r)
        PROVE  TypeOK'
    BY <2>1 DEF Open, files, marks
  <2>2. ASSUME NEW r \in Request, NEW c \in Cid, Put(r, c)
        PROVE  TypeOK'
    BY <2>2 DEF Put, marks
  <2>3. ASSUME NEW r \in Request, NEW n \in Name, NEW c \in Cid, Bind(r, n, c)
        PROVE  TypeOK'
    BY <2>3 DEF Bind, marks
  <2>4. ASSUME NEW r \in Request, NEW n \in Name, Unbind(r, n)
        PROVE  TypeOK'
    BY <2>4 DEF Unbind, marks
  <2>5. ASSUME NEW r \in Request, GcOpen(r)
        PROVE  TypeOK'
    BY <2>5 DEF GcOpen, files, marks
  <2>6. ASSUME NEW r \in Request, GcScan(r)
        PROVE  TypeOK'
    BY <2>6 DEF GcScan, files, marks
  <2>7. ASSUME NEW r \in Request, GcRoots(r)
        PROVE  TypeOK'
    <3>1. Trimmed(view[r], blocks) \in SUBSET Cid
      BY DEF Trimmed
    <3>2. Bound(view[r]) \cup Tip(view[r], blocks) \in SUBSET Cid
      BY DEF Bound, Tip
    <3>3. SurvivingTip(ChainFrom(view[r][Latest], blocks)) \in Cid \cup {NoCid}
      BY DEF SurvivingTip
    <3> HIDE DEF BlockGraphAssumption, StoreAssumption
    <3>4. QED
      BY <2>7, <3>1, <3>2, <3>3 DEF GcRoots, files
  <2>8. ASSUME NEW r \in Request, GcMark(r)
        PROVE  TypeOK'
    BY <2>8 DEF GcMark, files
  <2>9. ASSUME NEW r \in Request, GcFrontier(r)
        PROVE  TypeOK'
    BY <2>9 DEF GcFrontier, files
  <2>10. ASSUME NEW r \in Request, GcLedger(r)
         PROVE  TypeOK'
    BY <2>10 DEF GcLedger, Receipts, marks
  <2>11. ASSUME NEW r \in Request, GcSweep(r)
         PROVE  TypeOK'
    BY <2>11 DEF GcSweep, marks
  <2>12. CASE UNCHANGED vars
    BY <2>12 DEF vars, files, marks
  <2>13. QED
    BY <2>0, <2>1, <2>2, <2>3, <2>4, <2>5, <2>6, <2>7, <2>8, <2>9, <2>10,
       <2>11, <2>12
    DEF Next, GcStep, Stop, GcRootsFail, GcMarkFail, GcDone
<1>3. QED
  BY <1>1, <1>2, PTL DEF Spec

----------------------------------------------------------------------------
(***************************************************************************)
(* Receipts. A tombstone the file or a collector's copy of it holds is for *)
(* a block that was stored; what a collector has listed was stored.        *)
(***************************************************************************)
NoForgedReceipt == \A c \in Cid : Tombstoned(c) => c \in made

HonestInv ==
  /\ TypeOK
  /\ NoForgedReceipt
  /\ blocks \subseteq made
  /\ \A r \in Request : onDisk[r] \subseteq made
  /\ \A r \in Request, c \in Cid : ledger[r][c] # NoTomb => c \in made

LEMMA HonestInvariant == Spec => []HonestInv
<1> USE BlockGraphAssumption, StoreAssumption
    DEF HonestInv, NoForgedReceipt, Tombstoned
<1>1. Init => HonestInv
  BY DEF Init, TypeOK, Unbound, NoLedger, BlockGraphAssumption, StoreAssumption
<1>2. TypeOK /\ TypeOK' /\ HonestInv /\ [Next]_vars => HonestInv'
  <2> SUFFICES ASSUME TypeOK, TypeOK', HonestInv, [Next]_vars
               PROVE  HonestInv'
    OBVIOUS
  <2>0. ASSUME NEW r \in Request, Forget(r)
        PROVE  HonestInv'
    BY <2>0 DEF Forget, files, NoLedger, TypeOK
  <2>1. ASSUME NEW r \in Request, Open(r) \/ GcOpen(r)
        PROVE  HonestInv'
    BY <2>1 DEF Open, GcOpen, files, marks
  <2>2. ASSUME NEW r \in Request, NEW c \in Cid, Put(r, c)
        PROVE  HonestInv'
    BY <2>2 DEF Put, marks
  <2>3. ASSUME NEW r \in Request, NEW n \in Name,
               Unbind(r, n) \/ \E c \in Cid : Bind(r, n, c)
        PROVE  HonestInv'
    BY <2>3 DEF Bind, Unbind, marks
  <2>4. ASSUME NEW r \in Request, GcScan(r)
        PROVE  HonestInv'
    BY <2>4 DEF GcScan, files, marks, TypeOK
  <2>5. ASSUME NEW r \in Request, GcRoots(r) \/ GcMark(r) \/ GcFrontier(r)
        PROVE  HonestInv'
    BY <2>5 DEF GcRoots, GcMark, GcFrontier, files
  <2>6. ASSUME NEW r \in Request, GcLedger(r)
        PROVE  HonestInv'
    BY <2>6 DEF GcLedger, Receipts, marks, TypeOK
  <2>7. ASSUME NEW r \in Request, GcSweep(r)
        PROVE  HonestInv'
    BY <2>7 DEF GcSweep, marks
  <2>8. CASE UNCHANGED vars
    BY <2>8 DEF vars, files, marks
  <2> HIDE DEF HonestInv, NoForgedReceipt, Tombstoned
  <2>9. ASSUME NEW r \in Request, Stop(r) \/ GcStep(r)
        PROVE  HonestInv'
    BY <2>0, <2>4, <2>5, <2>6, <2>7, <2>9
    DEF GcStep, Stop, GcRootsFail, GcMarkFail, GcDone
  <2>10. QED
    BY <2>1, <2>2, <2>3, <2>8, <2>9 DEF Next
<1>3. QED
  BY <1>1, <1>2, TypeCorrect, PTL DEF Spec

(***************************************************************************)
(* With one collector, its copy of the ledger stays equal to the file      *)
(* until it writes it, and what it is about to remove is in the file.      *)
(***************************************************************************)
OneCollector == \A p, q \in Collector : p = q

ReceiptInv ==
  /\ EveryDeathHasReceipt
  /\ \A r \in Request : pc[r] \notin {"idle", "open"} => r \in Collector
  /\ \A r \in Request : pc[r] \in {"roots", "mark"} => ledger[r] = tombs
  /\ \A r \in Request : \A c \in deaths[r] : Tombstoned(c)
  /\ \A r \in Request : pc[r] # "sweep" => deaths[r] = {}

LEMMA ReceiptInvariant == ASSUME OneCollector PROVE Spec => []ReceiptInv
<1> USE OneCollector, BlockGraphAssumption, StoreAssumption
    DEF ReceiptInv, EveryDeathHasReceipt, Tombstoned
<1>1. Init => ReceiptInv
  BY DEF Init, NoLedger
<1>2. TypeOK /\ HonestInv /\ ReceiptInv /\ [Next]_vars => ReceiptInv'
  <2> SUFFICES ASSUME TypeOK, HonestInv, ReceiptInv, [Next]_vars
               PROVE  ReceiptInv'
    OBVIOUS
  <2>0. ASSUME NEW r \in Request, Forget(r)
        PROVE  ReceiptInv'
    BY <2>0 DEF Forget, files, TypeOK
  <2>1. ASSUME NEW r \in Request, Open(r) \/ GcOpen(r)
        PROVE  ReceiptInv'
    BY <2>1, ZenonT(60) DEF Open, GcOpen, files, marks, TypeOK
  <2>2. ASSUME NEW r \in Request, NEW c \in Cid, Put(r, c)
        PROVE  ReceiptInv'
    BY <2>2 DEF Put, marks, TypeOK
  <2>3. ASSUME NEW r \in Request, NEW n \in Name,
               Unbind(r, n) \/ \E c \in Cid : Bind(r, n, c)
        PROVE  ReceiptInv'
    BY <2>3 DEF Bind, Unbind, marks, TypeOK
  <2>4. ASSUME NEW r \in Request, GcScan(r)
        PROVE  ReceiptInv'
    BY <2>4 DEF GcScan, files, marks, TypeOK
  <2>5. ASSUME NEW r \in Request, GcRoots(r) \/ GcMark(r) \/ GcFrontier(r)
        PROVE  ReceiptInv'
    BY <2>5, ZenonT(60) DEF GcRoots, GcMark, GcFrontier, files, TypeOK
  <2>6. ASSUME NEW r \in Request, GcLedger(r)
        PROVE  ReceiptInv'
    <3>1. \A c \in Cid : tombs[c] # NoTomb => tombs'[c] # NoTomb
      BY <2>6 DEF GcLedger, Receipts, TypeOK, StoreAssumption
    <3>2. \A c \in deaths'[r] : tombs'[c] # NoTomb
      BY <2>6 DEF GcLedger, Receipts, TypeOK, StoreAssumption
    <3>3. \A p \in Request : p # r => pc[p] \in {"idle", "open"}
      BY <2>6 DEF GcLedger, Receipts, OneCollector
    <3>4. EveryDeathHasReceipt'
      BY <2>6, <3>1 DEF GcLedger, Receipts, HonestInv, TypeOK
    <3>5. \A p \in Request : pc'[p] \notin {"idle", "open"} => p \in Collector
      BY <2>6, <3>3 DEF GcLedger, Receipts, TypeOK
    <3>6. \A p \in Request : pc'[p] \in {"roots", "mark"} => ledger'[p] = tombs'
      BY <2>6, <3>3 DEF GcLedger, Receipts, TypeOK
    <3>7. \A p \in Request : p # r => deaths'[p] = {}
      BY <2>6, <3>3 DEF GcLedger, Receipts, TypeOK
    <3>8. \A p \in Request : pc'[p] # "sweep" => deaths'[p] = {}
      BY <2>6, <3>7 DEF GcLedger, Receipts, TypeOK
    <3>9. QED
      BY <3>2, <3>4, <3>5, <3>6, <3>7, <3>8
  <2>7. ASSUME NEW r \in Request, GcSweep(r)
        PROVE  ReceiptInv'
    BY <2>7 DEF GcSweep, marks, TypeOK
  <2>8. CASE UNCHANGED vars
    BY <2>8 DEF vars, files, marks
  <2> HIDE DEF ReceiptInv, EveryDeathHasReceipt, Tombstoned
  <2>9. ASSUME NEW r \in Request, Stop(r) \/ GcStep(r)
        PROVE  ReceiptInv'
    BY <2>0, <2>4, <2>5, <2>6, <2>7, <2>9
    DEF GcStep, Stop, GcRootsFail, GcMarkFail, GcDone
  <2>10. QED
    BY <2>1, <2>2, <2>3, <2>8, <2>9 DEF Next
<1>3. QED
  BY <1>1, <1>2, TypeCorrect, HonestInvariant, PTL DEF Spec

\* With one collector in flight, every block that was stored and is gone has
\* its tombstone, also when the collector is killed between two steps.
THEOREM ReceiptsComplete ==
  ASSUME OneCollector
  PROVE  Spec => []EveryDeathHasReceipt
<1>1. ReceiptInv => EveryDeathHasReceipt
  BY DEF ReceiptInv
<1>2. QED
  BY <1>1, ReceiptInvariant, PTL

----------------------------------------------------------------------------
(***************************************************************************)
(* Progress of a pass. That it ends needs fairness and is model-checked    *)
(* (PassEnds); what makes it end is a safety property. A marked block is   *)
(* not on the work list, so popping marks a block for the first time.      *)
(***************************************************************************)
Smaller(S, T) == S \subseteq T /\ S # T

UnmarkedWork ==
  \A r \in Request :
    /\ pc[r] # "sweep" => stack[r] \cap keep[r] = {}
    /\ pc[r] \in {"idle", "open", "scan", "roots"} => keep[r] = {}

\* Within the mark phase more blocks are marked, or as many and fewer wait;
\* within the sweep fewer blocks wait to be removed.
PassMovesOn(r) ==
  /\ pc[r] = "mark" /\ pc'[r] = "mark" =>
       \/ keep'[r] = keep[r] /\ stack'[r] = stack[r]
       \/ Smaller(keep[r], keep'[r])
       \/ keep'[r] = keep[r] /\ Smaller(stack'[r], stack[r])
  /\ pc[r] = "sweep" /\ pc'[r] = "sweep" =>
       \/ deaths'[r] = deaths[r]
       \/ Smaller(deaths'[r], deaths[r])

PassesMove == \A r \in Request : PassMovesOn(r)

LEMMA UnmarkedInvariant == Spec => []UnmarkedWork
<1> USE BlockGraphAssumption, StoreAssumption DEF UnmarkedWork
<1>1. Init => UnmarkedWork
  BY DEF Init
<1>2. TypeOK /\ UnmarkedWork /\ [Next]_vars => UnmarkedWork'
  <2> SUFFICES ASSUME TypeOK, UnmarkedWork, [Next]_vars
               PROVE  UnmarkedWork'
    OBVIOUS
  <2>0. ASSUME NEW r \in Request, Forget(r)
        PROVE  UnmarkedWork'
    BY <2>0 DEF Forget, files, TypeOK
  <2>1. ASSUME NEW r \in Request, Open(r) \/ GcOpen(r)
        PROVE  UnmarkedWork'
    BY <2>1 DEF Open, GcOpen, files, marks, TypeOK
  <2>2. ASSUME NEW r \in Request, NEW c \in Cid, Put(r, c)
        PROVE  UnmarkedWork'
    BY <2>2 DEF Put, marks, TypeOK
  <2>3. ASSUME NEW r \in Request, NEW n \in Name,
               Unbind(r, n) \/ \E c \in Cid : Bind(r, n, c)
        PROVE  UnmarkedWork'
    BY <2>3 DEF Bind, Unbind, marks, TypeOK
  <2>4. ASSUME NEW r \in Request, GcScan(r)
        PROVE  UnmarkedWork'
    BY <2>4 DEF GcScan, files, marks, TypeOK
  <2>5. ASSUME NEW r \in Request, GcRoots(r)
        PROVE  UnmarkedWork'
    <3>1. keep' = keep /\ keep[r] = {} /\ pc' = [pc EXCEPT ![r] = "mark"]
      BY <2>5 DEF GcRoots
    <3>2. \A q \in Request : q # r => stack'[q] = stack[q]
      BY <2>5 DEF GcRoots, TypeOK
    <3> QED
      BY <3>1, <3>2 DEF TypeOK
  <2>6. ASSUME NEW r \in Request, GcMark(r)
        PROVE  UnmarkedWork'
    BY <2>6 DEF GcMark, files, TypeOK
  <2>7. ASSUME NEW r \in Request, GcFrontier(r)
        PROVE  UnmarkedWork'
    BY <2>7 DEF GcFrontier, files, TypeOK
  <2>8. ASSUME NEW r \in Request, GcLedger(r) \/ GcSweep(r)
        PROVE  UnmarkedWork'
    BY <2>8 DEF GcLedger, GcSweep, marks, TypeOK
  <2>9. CASE UNCHANGED vars
    BY <2>9 DEF vars, files, marks
  <2> HIDE DEF UnmarkedWork
  <2>10. ASSUME NEW r \in Request, Stop(r) \/ GcStep(r)
         PROVE  UnmarkedWork'
    BY <2>0, <2>4, <2>5, <2>6, <2>7, <2>8, <2>10
    DEF GcStep, Stop, GcRootsFail, GcMarkFail, GcDone
  <2>11. QED
    BY <2>1, <2>2, <2>3, <2>9, <2>10 DEF Next
<1>3. QED
  BY <1>1, <1>2, TypeCorrect, PTL DEF Spec

\* Whatever the requests that write meanwhile, a pass never marks a block a
\* second time: each of its steps marks one more block, takes one from the
\* work list or removes one, and no other request undoes that. With finitely
\* many blocks, the loops of gc.rs therefore end once their steps are taken.
THEOREM PassesMoveOn == Spec => [][PassesMove]_vars
<1>1. TypeOK /\ UnmarkedWork /\ [Next]_vars
        => [PassesMove]_vars
  <2> SUFFICES ASSUME TypeOK, UnmarkedWork, Next, NEW q \in Request
               PROVE  PassMovesOn(q)
    BY DEF PassesMove
  <2> USE DEF PassMovesOn, Smaller
  <2>0. ASSUME NEW r \in Request, Forget(r)
        PROVE  PassMovesOn(q)
    BY <2>0 DEF Forget, files, TypeOK
  <2>1. ASSUME NEW r \in Request, Open(r) \/ GcOpen(r) \/ GcScan(r)
        PROVE  PassMovesOn(q)
    BY <2>1 DEF Open, GcOpen, GcScan, files, marks, TypeOK
  <2>2. ASSUME NEW r \in Request, NEW c \in Cid, Put(r, c)
        PROVE  PassMovesOn(q)
    BY <2>2 DEF Put, marks, TypeOK
  <2>3. ASSUME NEW r \in Request, NEW n \in Name,
               Unbind(r, n) \/ \E c \in Cid : Bind(r, n, c)
        PROVE  PassMovesOn(q)
    BY <2>3 DEF Bind, Unbind, marks, TypeOK
  <2>4. ASSUME NEW r \in Request, GcRoots(r)
        PROVE  PassMovesOn(q)
    <3>1. pc[r] = "roots" /\ deaths' = deaths /\ keep' = keep
          /\ \A p \in Request : p # r => stack'[p] = stack[p]
      BY <2>4 DEF GcRoots, TypeOK
    <3>2. pc'[r] = "mark"
      BY <2>4 DEF GcRoots, TypeOK
    <3> QED
      BY <3>1, <3>2
  <2>5. ASSUME NEW r \in Request, GcMark(r)
        PROVE  PassMovesOn(q)
    <3>1. PICK c \in stack[r] :
            keep' = [keep EXCEPT ![r] = @ \cup {c}]
      BY <2>5 DEF GcMark
    <3>2. c \notin keep[r] /\ pc[r] = "mark" /\ pc' = pc /\ deaths' = deaths
      BY <2>5, <3>1 DEF GcMark, UnmarkedWork
    <3>3. \A p \in Request : p # r => stack'[p] = stack[p]
      BY <2>5 DEF GcMark, TypeOK
    <3>4. keep'[r] = keep[r] \cup {c}
          /\ \A p \in Request : p # r => keep'[p] = keep[p]
      BY <3>1 DEF TypeOK
    <3> QED
      BY <3>2, <3>3, <3>4
  <2>6. ASSUME NEW r \in Request, GcFrontier(r)
        PROVE  PassMovesOn(q)
    BY <2>6 DEF GcFrontier, files, TypeOK
  <2>7. ASSUME NEW r \in Request, GcLedger(r)
        PROVE  PassMovesOn(q)
    BY <2>7 DEF GcLedger, marks, TypeOK
  <2>8. ASSUME NEW r \in Request, GcSweep(r)
        PROVE  PassMovesOn(q)
    BY <2>8 DEF GcSweep, marks, TypeOK
  <2> HIDE DEF PassMovesOn
  <2>9. ASSUME NEW r \in Request, Stop(r) \/ GcStep(r)
        PROVE  PassMovesOn(q)
    BY <2>0, <2>1, <2>4, <2>5, <2>6, <2>7, <2>8, <2>9
    DEF GcStep, Stop, GcRootsFail, GcMarkFail, GcDone
  <2>10. QED
    BY <2>1, <2>2, <2>3, <2>9 DEF Next
<1>2. QED
  BY <1>1, TypeCorrect, UnmarkedInvariant, PTL DEF Spec

----------------------------------------------------------------------------
(***************************************************************************)
(* Holes. Whatever a marked block links to is marked, waits on the work    *)
(* list, is cut off, or was stored here once: it left the work list as a   *)
(* frontier, and a frontier has a receipt, and receipts are honest.        *)
(***************************************************************************)
NoHoleBehind ==
  \A r \in Request :
    /\ pc[r] = "mark" => \A c \in keep[r] :
         Links[c] \subseteq keep[r] \cup stack[r] \cup trim[r] \cup made
    /\ pc[r] = "sweep" => \A c \in keep[r] :
         Links[c] \subseteq keep[r] \cup trim[r] \cup made

LEMMA NoHoleInvariant == Spec => []NoHoleBehind
<1> USE BlockGraphAssumption, StoreAssumption
<1>1. Init => NoHoleBehind
  BY DEF Init, NoHoleBehind
<1>2. TypeOK /\ HonestInv /\ UnmarkedWork /\ NoHoleBehind /\ [Next]_vars
        => NoHoleBehind'
  <2> SUFFICES ASSUME TypeOK, HonestInv, UnmarkedWork, NoHoleBehind, [Next]_vars
               PROVE  NoHoleBehind'
    OBVIOUS
  <2> USE DEF NoHoleBehind
  <2>0. ASSUME NEW r \in Request, Forget(r)
        PROVE  NoHoleBehind'
    BY <2>0 DEF Forget, files, TypeOK
  <2>1. ASSUME NEW r \in Request, Open(r) \/ GcOpen(r)
        PROVE  NoHoleBehind'
    BY <2>1 DEF Open, GcOpen, files, marks, TypeOK
  <2>2. ASSUME NEW r \in Request, NEW c \in Cid, Put(r, c)
        PROVE  NoHoleBehind'
    BY <2>2 DEF Put, marks, TypeOK
  <2>3. ASSUME NEW r \in Request, NEW n \in Name,
               Unbind(r, n) \/ \E c \in Cid : Bind(r, n, c)
        PROVE  NoHoleBehind'
    BY <2>3 DEF Bind, Unbind, marks, TypeOK
  <2>4. ASSUME NEW r \in Request, GcScan(r)
        PROVE  NoHoleBehind'
    BY <2>4 DEF GcScan, files, marks, TypeOK
  <2>5. ASSUME NEW r \in Request, GcRoots(r)
        PROVE  NoHoleBehind'
    <3>1. /\ pc' = [pc EXCEPT ![r] = "mark"] /\ keep' = keep /\ keep[r] = {}
          /\ made' = made
      BY <2>5 DEF GcRoots, UnmarkedWork, files
    <3>2. \A q \in Request : q # r => stack'[q] = stack[q] /\ trim'[q] = trim[q]
      BY <2>5 DEF GcRoots, TypeOK
    <3> QED
      BY <3>1, <3>2 DEF TypeOK
  <2>6. ASSUME NEW r \in Request, GcMark(r)
        PROVE  NoHoleBehind'
    BY <2>6 DEF GcMark, files, TypeOK
  <2>7. ASSUME NEW r \in Request, GcFrontier(r)
        PROVE  NoHoleBehind'
    BY <2>7 DEF GcFrontier, files, TypeOK, HonestInv, NoForgedReceipt
  <2>8. ASSUME NEW r \in Request, GcLedger(r) \/ GcSweep(r)
        PROVE  NoHoleBehind'
    BY <2>8 DEF GcLedger, GcSweep, marks, TypeOK
  <2>9. CASE UNCHANGED vars
    BY <2>9 DEF vars, files, marks
  <2> HIDE DEF NoHoleBehind
  <2>10. ASSUME NEW r \in Request, Stop(r) \/ GcStep(r)
         PROVE  NoHoleBehind'
    BY <2>0, <2>4, <2>5, <2>6, <2>7, <2>8, <2>10
    DEF GcStep, Stop, GcRootsFail, GcMarkFail, GcDone
  <2>11. QED
    BY <2>1, <2>2, <2>3, <2>9, <2>10 DEF Next
<1>3. QED
  BY <1>1, <1>2, TypeCorrect, HonestInvariant, UnmarkedInvariant, PTL DEF Spec

\* However many requests and collectors interleave, and wherever they are
\* killed, a pass that has come to its sweep met no link to a block that never
\* was here: what it did not find had died here, with a receipt.
THEOREM HolesStop == Spec => []HolesStopAPass
<1>1. NoHoleBehind => HolesStopAPass
  BY DEF NoHoleBehind, HolesStopAPass
<1>2. QED
  BY <1>1, NoHoleInvariant, PTL

----------------------------------------------------------------------------
(***************************************************************************)
(* One request at a time. The request's copy of the name index is then the *)
(* file itself.                                                            *)
(***************************************************************************)
OneRequest == \A p, q \in Request : p = q

FreshView == \A r \in Request : pc[r] # "idle" => view[r] = names

LEMMA ViewsFresh == ASSUME OneRequest PROVE Spec => []FreshView
<1> USE OneRequest DEF OneRequest, FreshView
<1>1. Init => FreshView
  BY DEF Init
<1>2. TypeOK /\ FreshView /\ [Next]_vars => FreshView'
  <2> SUFFICES ASSUME TypeOK, FreshView, [Next]_vars
               PROVE  FreshView'
    OBVIOUS
  <2> USE DEF TypeOK, files, marks
  <2>0. ASSUME NEW r \in Request, Forget(r)
        PROVE  FreshView'
    BY <2>0 DEF Forget
  <2>1. ASSUME NEW r \in Request, Open(r) \/ GcOpen(r)
        PROVE  FreshView'
    BY <2>1 DEF Open, GcOpen
  <2>2. ASSUME NEW r \in Request, NEW c \in Cid, Put(r, c)
        PROVE  FreshView'
    BY <2>2 DEF Put
  <2>3. ASSUME NEW r \in Request, NEW n \in Name,
               Unbind(r, n) \/ \E c \in Cid : Bind(r, n, c)
        PROVE  FreshView'
    BY <2>3, SMTT(40) DEF Bind, Unbind
  <2>4. ASSUME NEW r \in Request,
               \/ GcScan(r) \/ GcRoots(r) \/ GcMark(r) \/ GcFrontier(r)
               \/ GcLedger(r) \/ GcSweep(r)
        PROVE  FreshView'
    BY <2>4 DEF GcScan, GcRoots, GcMark, GcFrontier, GcLedger, Receipts, GcSweep
  <2>5. CASE UNCHANGED vars
    BY <2>5 DEF vars
  <2> HIDE DEF FreshView, TypeOK, files, marks
  <2>6. ASSUME NEW r \in Request, Stop(r) \/ GcStep(r)
        PROVE  FreshView'
    BY <2>0, <2>4, <2>6 DEF GcStep, Stop, GcRootsFail, GcMarkFail, GcDone
  <2>7. QED
    BY <2>1, <2>2, <2>3, <2>5, <2>6 DEF Next
<1>3. QED
  BY <1>1, <1>2, TypeCorrect, PTL DEF Spec

(***************************************************************************)
(* The sweep. While it marks, a collector has kept, or still has on its    *)
(* work list, every root that is on disk, and whatever a kept block links  *)
(* to is kept, on the work list, cut off, or absent. When the work list is *)
(* empty the kept blocks therefore form a set that is closed in the sense  *)
(* of BlockGraph, and Needed is the least one.                             *)
(***************************************************************************)
Roots == Bound(names) \cup Decision

MarkInv(r) ==
  /\ trim[r] \subseteq Checkpoint \ Bound(names)
  /\ onDisk[r] = blocks
  /\ keep[r] \subseteq blocks
  /\ Roots \cap blocks \subseteq keep[r] \cup stack[r]
  /\ \A a \in keep[r] :
       Links[a] \cap blocks \subseteq keep[r] \cup stack[r] \cup trim[r]

SweepInv(r) ==
  /\ trim[r] \subseteq Checkpoint
  /\ keep[r] \subseteq blocks
  /\ deaths[r] \cap keep[r] = {}
  /\ Roots \cap blocks \subseteq keep[r]
  /\ \A a \in keep[r] : Links[a] \cap blocks \subseteq keep[r] \cup trim[r]

PassInv ==
  \A r \in Request :
    /\ pc[r] \in {"idle", "open", "scan", "roots"} => keep[r] = {}
    /\ pc[r] # "sweep" => deaths[r] = {}
    /\ pc[r] = "roots" => onDisk[r] = blocks
    /\ pc[r] = "mark" => MarkInv(r)
    /\ pc[r] = "sweep" => SweepInv(r)

LEMMA PassInvariant == ASSUME OneRequest PROVE Spec => []PassInv
<1> USE OneRequest, BlockGraphAssumption, StoreAssumption DEF OneRequest
<1>1. Init => PassInv
  BY DEF Init, PassInv
<1>2. TypeOK /\ FreshView /\ PassInv /\ [Next]_vars => PassInv'
  <2> SUFFICES ASSUME TypeOK, FreshView, PassInv, [Next]_vars
               PROVE  PassInv'
    OBVIOUS
  <2>0. ASSUME NEW r \in Request, Forget(r)
        PROVE  PassInv'
    BY <2>0 DEF Forget, TypeOK, PassInv
  <2>1. ASSUME NEW r \in Request,
               \/ Open(r) \/ GcOpen(r) \/ GcScan(r)
               \/ \E c \in Cid : Put(r, c)
               \/ \E n \in Name : Unbind(r, n)
               \/ \E n \in Name, c \in Cid : Bind(r, n, c)
        PROVE  PassInv'
    BY <2>1 DEF Open, GcOpen, GcScan, Put, Unbind, Bind, files, marks, TypeOK,
                PassInv
  <2>2. ASSUME NEW r \in Request, GcRoots(r)
        PROVE  PassInv'
    <3>1. /\ pc'[r] = "mark" /\ keep'[r] = {} /\ deaths'[r] = {}
          /\ onDisk'[r] = blocks /\ blocks' = blocks /\ names' = names
      BY <2>2 DEF GcRoots, PassInv, TypeOK, files
    <3>2. trim'[r] = Trimmed(names, blocks)
      BY <2>2 DEF GcRoots, FreshView, TypeOK
    <3>3. trim'[r] \subseteq Checkpoint \ Bound(names)
      BY <3>2 DEF Trimmed
    <3>4. stack'[r] = (Bound(names) \cup Tip(names, blocks)
                         \cup (blocks \cap Decision)) \ trim'[r]
      BY <2>2 DEF GcRoots, FreshView, TypeOK, PassInv
    <3>5. Roots' \cap blocks \subseteq stack'[r]
      BY <3>1, <3>3, <3>4 DEF Roots, Bound, BlockGraphAssumption
    <3>6. MarkInv(r)'
      BY <3>1, <3>3, <3>5 DEF MarkInv, Bound
    <3>7. QED
      BY <3>1, <3>6 DEF PassInv
  <2>3. ASSUME NEW r \in Request, GcMark(r)
        PROVE  PassInv'
    <3>1. PICK c \in stack[r] :
            /\ c \in blocks
            /\ keep' = [keep EXCEPT ![r] = @ \cup {c}]
            /\ stack' = [stack EXCEPT ![r] =
                 (@ \cup (Links[c] \ (trim[r] \cup keep'[r]))) \ {c}]
      BY <2>3 DEF GcMark
    <3>2. /\ keep'[r] = keep[r] \cup {c}
          /\ stack'[r] = (stack[r] \cup (Links[c] \ (trim[r] \cup keep'[r])))
                           \ {c}
      BY <3>1 DEF TypeOK
    <3>3. MarkInv(r)
      BY <2>3 DEF GcMark, PassInv
    <3>4. UNCHANGED <<names, blocks, pc, trim, onDisk, deaths>>
      BY <2>3 DEF GcMark, files
    <3>5. MarkInv(r)'
      BY <3>1, <3>2, <3>3, <3>4 DEF MarkInv, Roots, Bound
    <3>6. QED
      BY <2>3, <3>4, <3>5 DEF PassInv, GcMark
  <2>4. ASSUME NEW r \in Request, GcFrontier(r)
        PROVE  PassInv'
    <3>1. PICK c \in stack[r] \ blocks :
            stack' = [stack EXCEPT ![r] = @ \ {c}]
      BY <2>4 DEF GcFrontier
    <3>2. stack'[r] = stack[r] \ {c}
      BY <3>1 DEF TypeOK
    <3>3. MarkInv(r)
      BY <2>4 DEF GcFrontier, PassInv
    <3>4. UNCHANGED <<names, blocks, pc, trim, onDisk, keep, deaths>>
      BY <2>4 DEF GcFrontier, files
    <3>5. MarkInv(r)'
      BY <3>1, <3>2, <3>3, <3>4 DEF MarkInv, Roots, Bound
    <3>6. QED
      BY <2>4, <3>4, <3>5 DEF PassInv, GcFrontier
  <2>5. ASSUME NEW r \in Request, GcLedger(r)
        PROVE  PassInv'
    <3>1. MarkInv(r)
      BY <2>5 DEF GcLedger, Receipts, PassInv
    <3>2. pc'[r] = "sweep" /\ deaths'[r] = onDisk[r] \ keep[r] /\ stack[r] = {}
      BY <2>5 DEF GcLedger, Receipts, TypeOK
    <3>3. UNCHANGED <<names, blocks, trim, keep>>
      BY <2>5 DEF GcLedger, Receipts, marks
    <3>4. SweepInv(r)'
      BY <3>1, <3>2, <3>3 DEF MarkInv, SweepInv, Roots, Bound
    <3>5. QED
      BY <3>2, <3>4 DEF PassInv
  <2>6. ASSUME NEW r \in Request, GcSweep(r)
        PROVE  PassInv'
    <3>1. PICK c \in deaths[r] :
            /\ blocks' = blocks \ {c}
            /\ deaths' = [deaths EXCEPT ![r] = @ \ {c}]
      BY <2>6 DEF GcSweep
    <3>2. deaths'[r] = deaths[r] \ {c}
      BY <3>1 DEF TypeOK
    <3>3. SweepInv(r) /\ pc[r] = "sweep"
      BY <2>6 DEF GcSweep, PassInv
    <3>4. UNCHANGED <<names, pc, trim, keep>>
      BY <2>6 DEF GcSweep, marks
    <3>5. SweepInv(r)'
      BY <3>1, <3>2, <3>3, <3>4 DEF SweepInv, Roots, Bound
    <3>6. QED
      BY <3>3, <3>4, <3>5 DEF PassInv
  <2>7. CASE UNCHANGED vars
    BY <2>7 DEF vars, files, marks, PassInv, MarkInv, SweepInv, Roots, Bound
  <2>8. ASSUME NEW r \in Request, Stop(r) \/ GcStep(r)
        PROVE  PassInv'
    BY <2>0, <2>1, <2>2, <2>3, <2>4, <2>5, <2>6, <2>8
    DEF GcStep, Stop, GcRootsFail, GcMarkFail, GcDone
  <2>9. QED
    BY <2>1, <2>7, <2>8 DEF Next
<1>3. QED
  BY <1>1, <1>2, TypeCorrect, ViewsFresh, PTL DEF Spec

(***************************************************************************)
(* What the sweep spares. For any graph: whatever the roots reach without  *)
(* a link into the trimmed tail. The tail itself falls out however a kept  *)
(* block links to it, which is where the words of gc.rs:20 ("the only      *)
(* links it leaves dangling are checkpoint parent pointers") go further    *)
(* than its code: a prompt links to a checkpoint that was loaded as its    *)
(* context (session.rs:953). Where only parent pointers lead from kept     *)
(* blocks into the tail, what is spared is all that is needed.             *)
(***************************************************************************)
Reached(map, disk, cut) ==
  {c \in disk :
     \A S \in SUBSET disk :
        /\ (Bound(map) \cup Decision) \cap disk \subseteq S
        /\ \A a \in S : Links[a] \cap (disk \ cut) \subseteq S
        => c \in S}

ReachedIsSpared ==
  \A r \in Request : deaths[r] \cap Reached(names, blocks, trim[r]) = {}

ParentsLeadToTail ==
  \A r \in Request : \A a \in keep[r] : \A b \in Links[a] \cap trim[r] :
    Parent[a] = b

\* With one request at a time, for every block graph and whatever is trimmed,
\* the sweep spares what the roots reach outside the trimmed tail; and nothing
\* that it removes is needed by a name or a decision as long as the blocks it
\* has kept lead into the tail by parent pointers only.
THEOREM SweepSafe ==
  ASSUME OneRequest
  PROVE  Spec => [](ReachedIsSpared /\ (ParentsLeadToTail => SweepIsSafe))
<1>1. TypeOK /\ PassInv => ReachedIsSpared
  <2> SUFFICES ASSUME TypeOK, PassInv, NEW r \in Request, NEW c \in deaths[r],
                      c \in Reached(names, blocks, trim[r])
               PROVE  FALSE
    BY DEF ReachedIsSpared
  <2>1. SweepInv(r)
    BY DEF PassInv
  <2>2. keep[r] \in SUBSET blocks
    BY <2>1 DEF SweepInv
  <2>3. (Bound(names) \cup Decision) \cap blocks \subseteq keep[r]
    BY <2>1 DEF SweepInv, Roots
  <2>4. \A a \in keep[r] : Links[a] \cap (blocks \ trim[r]) \subseteq keep[r]
    BY <2>1 DEF SweepInv
  <2>5. c \in keep[r]
    BY <2>2, <2>3, <2>4 DEF Reached
  <2>6. QED
    BY <2>1, <2>5 DEF SweepInv
<1>2. TypeOK /\ PassInv /\ ParentsLeadToTail => SweepIsSafe
  <2> SUFFICES ASSUME TypeOK, PassInv, ParentsLeadToTail, NEW r \in Request,
                      NEW c \in deaths[r],
                      c \in Needed(names, blocks, trim[r])
               PROVE  FALSE
    BY DEF SweepIsSafe
  <2>1. SweepInv(r)
    BY DEF PassInv
  <2>2. keep[r] \in SUBSET blocks
    BY <2>1 DEF SweepInv
  <2>3. (Bound(names) \cup Decision) \cap blocks \subseteq keep[r]
    BY <2>1 DEF SweepInv, Roots
  <2>4. Closed(keep[r], blocks, trim[r])
    BY <2>1 DEF Closed, SweepInv, ParentsLeadToTail
  <2>5. c \in keep[r]
    BY <2>2, <2>3, <2>4 DEF Needed
  <2>6. QED
    BY <2>1, <2>5 DEF SweepInv
<1>3. QED
  BY <1>1, <1>2, TypeCorrect, PassInvariant, PTL

(***************************************************************************)
(* A condition on the graph under which that is always so: only a          *)
(* checkpoint's parent pointer links to a checkpoint.                      *)
(***************************************************************************)
CheckpointsByParentOnly ==
  \A a \in Cid : \A b \in Links[a] \cap Checkpoint : Parent[a] = b

LEMMA SweepSparesNeeded ==
  ASSUME OneRequest, CheckpointsByParentOnly
  PROVE  Spec => []SweepIsSafe
<1>1. TypeOK /\ PassInv => ParentsLeadToTail
  <2> SUFFICES ASSUME TypeOK, PassInv, NEW r \in Request, NEW a \in keep[r],
                      NEW b \in Links[a] \cap trim[r]
               PROVE  Parent[a] = b
    BY DEF ParentsLeadToTail
  <2>1. keep[r] # {} /\ a \in Cid
    BY DEF TypeOK
  <2>2. MarkInv(r) \/ SweepInv(r)
    BY <2>1 DEF PassInv, TypeOK
  <2>3. trim[r] \subseteq Checkpoint
    BY <2>2 DEF MarkInv, SweepInv
  <2> QED
    BY <2>1, <2>3, CheckpointsByParentOnly DEF CheckpointsByParentOnly
<1>2. QED
  BY <1>1, SweepSafe, TypeCorrect, PassInvariant, OneRequest, PTL

----------------------------------------------------------------------------
(***************************************************************************)
(* The chain of checkpoints. It is a function of the number of steps that  *)
(* were taken along it, and what holds of it is shown step by step: by the *)
(* least number of steps after which it would not hold.                    *)
(***************************************************************************)
LEMMA LeastNumber ==
  ASSUME NEW T \in SUBSET Nat, T # {}
  PROVE  \E x \in T : \A y \in T : x <= y
<1> DEFINE R == {p \in Nat \X Nat : p[1] < p[2]}
<1>1. IsWellFoundedOn(R, Nat)
  BY NatLessThanWellFounded DEF OpToRel
<1>2. \A x, y \in Nat : y < x => <<y, x>> \in R
  OBVIOUS
<1> HIDE DEF R
<1>3. PICK x \in T : \A y \in T : ~ (<<y, x>> \in R)
  BY <1>1, WFMin
<1>4. ASSUME NEW y \in T PROVE x <= y
  <2>1. x \in Nat /\ y \in Nat
    OBVIOUS
  <2>2. ~(y < x)
    BY <1>2, <1>3, <2>1
  <2> QED
    BY <2>1, <2>2
<1> QED
  BY <1>4

\* One step along the chain.
Further(before, head, disk) ==
  LET cursor == IF before = <<>> THEN head ELSE Parent[before[Len(before)]]
  IN  IF /\ cursor \in disk \cap Checkpoint
         /\ \A i \in DOMAIN before : before[i] # cursor
      THEN Append(before, cursor)
      ELSE before

\* The walk up to n steps.
IsWalk(f, n, head, disk) ==
  f = [k \in 0..n |-> IF k = 0 THEN <<>> ELSE Further(f[k - 1], head, disk)]

LEMMA WalkExists ==
  ASSUME NEW head, NEW disk, NEW n \in Nat
  PROVE  \E f : IsWalk(f, n, head, disk)
<1> SUFFICES ASSUME ~ \E f : IsWalk(f, n, head, disk) PROVE FALSE
  OBVIOUS
<1> DEFINE Bad == {m \in Nat : ~ \E f : IsWalk(f, m, head, disk)}
<1>1. PICK m \in Bad : \A l \in Bad : m <= l
  BY LeastNumber
<1>2. m # 0
  <2>1. IsWalk([k \in 0..0 |-> <<>>], 0, head, disk)
    BY DEF IsWalk
  <2> QED
    BY <2>1
<1>3. m - 1 \in Nat /\ m - 1 \notin Bad
  BY <1>1, <1>2
<1>4. PICK f : IsWalk(f, m - 1, head, disk)
  BY <1>3
<1> DEFINE g == [k \in 0..m |-> IF k = m THEN Further(f[m - 1], head, disk) ELSE f[k]]
<1>5. IsWalk(g, m, head, disk)
  <2>1. DOMAIN g = 0..m /\ \A k \in 0..(m - 1) : g[k] = f[k]
    BY <1>3
  <2>2. g[m] = Further(g[m - 1], head, disk)
    BY <1>3, <2>1
  <2>3. \A k \in 0..(m - 1) :
          g[k] = IF k = 0 THEN <<>> ELSE Further(g[k - 1], head, disk)
    BY <1>3, <1>4, <2>1 DEF IsWalk
  <2>4. ASSUME NEW k \in 0..m
        PROVE  g[k] = IF k = 0 THEN <<>> ELSE Further(g[k - 1], head, disk)
    <3>1. CASE k = m
      BY <1>2, <2>2, <3>1
    <3>2. CASE k # m
      <4>1. k \in 0..(m - 1)
        BY <1>3, <3>2
      <4> QED
        BY <2>3, <4>1
    <3> QED
      BY <3>1, <3>2
  <2>5. g = [k \in 0..m |-> g[k]]
    OBVIOUS
  <2> HIDE DEF g
  <2> QED
    BY <2>4, <2>5, Zenon DEF IsWalk
<1> QED
  BY <1>5

\* The chain starts at the head, goes from each checkpoint to its parent, stays
\* on the disk, and meets none twice.
GoodChain(s, head, disk) ==
  /\ s \in Seq(disk \cap Checkpoint)
  /\ \A i \in 1..Len(s) : s[i] = IF i = 1 THEN head ELSE Parent[s[i - 1]]
  /\ \A i, j \in 1..Len(s) : s[i] = s[j] => i = j

LEMMA FurtherIsGood ==
  ASSUME NEW head, NEW disk, NEW s, GoodChain(s, head, disk)
  PROVE  GoodChain(Further(s, head, disk), head, disk)
<1> DEFINE cursor == IF s = <<>> THEN head ELSE Parent[s[Len(s)]]
           t == Append(s, cursor)
<1>1. s \in Seq(disk \cap Checkpoint) /\ Len(s) \in Nat /\ DOMAIN s = 1..Len(s)
  BY DEF GoodChain
<1>2. CASE Further(s, head, disk) = s
  BY <1>2
<1>3. CASE Further(s, head, disk) # s
  <2>1. /\ Further(s, head, disk) = t /\ cursor \in disk \cap Checkpoint
        /\ \A i \in DOMAIN s : s[i] # cursor
    BY <1>3 DEF Further
  <2>2. /\ t \in Seq(disk \cap Checkpoint) /\ Len(t) = Len(s) + 1 /\ t[Len(t)] = cursor
        /\ \A i \in 1..Len(s) : t[i] = s[i]
    BY <1>1, <2>1
  <2>3. cursor = IF Len(t) = 1 THEN head ELSE Parent[t[Len(t) - 1]]
    <3>1. CASE s = <<>>
      BY <2>2, <3>1
    <3>2. CASE s # <<>>
      <4>1. Len(s) # 0 /\ Len(t) - 1 = Len(s) /\ Len(s) \in 1..Len(s)
        BY <1>1, <2>2, <3>2
      <4>2. t[Len(t) - 1] = s[Len(s)]
        BY <2>2, <4>1
      <4> QED
        BY <1>1, <2>2, <3>2, <4>1, <4>2
    <3> QED
      BY <3>1, <3>2
  <2> HIDE DEF cursor, t
  <2>4. ASSUME NEW i \in 1..Len(t)
        PROVE  t[i] = IF i = 1 THEN head ELSE Parent[t[i - 1]]
    <3>1. CASE i = Len(t)
      BY <2>2, <2>3, <3>1
    <3>2. CASE i # Len(t)
      <4>1. i \in 1..Len(s) /\ (i # 1 => i - 1 \in 1..Len(s))
        BY <1>1, <2>2, <3>2
      <4> QED
        BY <2>2, <4>1 DEF GoodChain
    <3> QED
      BY <3>1, <3>2
  <2>5. ASSUME NEW i \in 1..Len(t), NEW j \in 1..Len(t), t[i] = t[j] PROVE i = j
    <3>1. \A k \in 1..Len(t) : k \in 1..Len(s) \/ k = Len(t)
      BY <1>1, <2>2
    <3>2. \A k \in 1..Len(s) : t[k] = s[k] /\ t[k] # t[Len(t)]
      BY <1>1, <2>1, <2>2
    <3> QED
      BY <2>5, <3>1, <3>2 DEF GoodChain
  <2> QED
    BY <2>1, <2>2, <2>4, <2>5 DEF GoodChain
<1> QED
  BY <1>2, <1>3

LEMMA WalkIsGood ==
  ASSUME NEW head, NEW disk, NEW n \in Nat, NEW f, IsWalk(f, n, head, disk)
  PROVE  GoodChain(f[n], head, disk)
<1> DEFINE Bad == {m \in 0..n : ~GoodChain(f[m], head, disk)}
<1>1. \A m \in 0..n : f[m] = IF m = 0 THEN <<>> ELSE Further(f[m - 1], head, disk)
  BY DEF IsWalk
<1>2. Bad = {}
  <2> SUFFICES ASSUME Bad # {} PROVE FALSE
    OBVIOUS
  <2>0. Bad \in SUBSET Nat
    OBVIOUS
  <2>1. PICK m \in Bad : \A l \in Bad : m <= l
    BY <2>0, LeastNumber
  <2>2. m # 0
    <3>1. GoodChain(<<>>, head, disk)
      BY DEF GoodChain
    <3> QED
      BY <1>1, <2>1, <3>1
  <2>3. m - 1 \in 0..n /\ m - 1 \notin Bad
    BY <2>1, <2>2
  <2>4. GoodChain(f[m - 1], head, disk)
    BY <2>3
  <2>5. f[m] = Further(f[m - 1], head, disk)
    BY <1>1, <2>1, <2>2
  <2>6. GoodChain(f[m], head, disk)
    BY <2>4, <2>5, FurtherIsGood
  <2> QED
    BY <2>1, <2>6
<1> QED
  BY <1>2

\* The walk that ChainFrom ends is one.
LEMMA ChainIsWalk ==
  ASSUME NEW head, NEW disk
  PROVE  \E f : /\ IsWalk(f, Cardinality(Cid), head, disk)
                /\ ChainFrom(head, disk) = f[Cardinality(Cid)]
<1> DEFINE N == Cardinality(Cid)
           f == CHOOSE g : IsWalk(g, N, head, disk)
<1>1. N \in Nat
  BY BlockGraphAssumption, FS_CardinalityType
<1>2. IsWalk(f, N, head, disk)
  BY <1>1, WalkExists
<1>3. ChainFrom(head, disk) = f[N]
  BY Zenon DEF ChainFrom, IsWalk, Further
<1> QED
  BY <1>2, <1>3

LEMMA ChainIsGood ==
  ASSUME NEW head, NEW disk
  PROVE  GoodChain(ChainFrom(head, disk), head, disk)
<1>1. Cardinality(Cid) \in Nat
  BY BlockGraphAssumption, FS_CardinalityType
<1> QED
  BY <1>1, ChainIsWalk, WalkIsGood

\* What comes later on the chain is an ancestor of what comes before.
LEMMA LaterIsAncestor ==
  ASSUME NEW head, NEW disk, NEW s, GoodChain(s, head, disk),
         NEW i \in 1..Len(s), NEW j \in 1..Len(s), i < j
  PROVE  AncestorOf(s[j], s[i])
<1>1. Len(s) \in Nat /\ \A k \in 1..Len(s) : s[k] \in Cid /\ s[k] # NoCid
  BY BlockGraphAssumption DEF GoodChain
<1>2. s[j] # s[i]
  BY DEF GoodChain
<1>3. ASSUME NEW S \in SUBSET Cid, s[i] \in S,
             \A x \in S : Parent[x] \in S \cup {NoCid}
      PROVE  s[j] \in S
  <2> SUFFICES ASSUME s[j] \notin S PROVE FALSE
    OBVIOUS
  <2> DEFINE Out == {k \in i..Len(s) : s[k] \notin S}
  <2>1. Out \in SUBSET Nat /\ j \in Out
    BY <1>1
  <2>2. PICK k \in Out : \A l \in Out : k <= l
    BY <2>1, LeastNumber
  <2>3. k # i /\ k - 1 \in i..Len(s) /\ k - 1 \notin Out
    BY <1>1, <1>3, <2>2
  <2>4. s[k - 1] \in S
    BY <2>3
  <2>5. k \in 1..Len(s) /\ k # 1
    BY <1>1, <2>2, <2>3
  <2>6. s[k] = Parent[s[k - 1]]
    BY <2>5 DEF GoodChain
  <2> QED
    BY <1>1, <1>3, <2>2, <2>4, <2>5, <2>6
<1> QED
  BY <1>2, <1>3 DEF AncestorOf

\* The surviving tip is a descendant of whatever is trimmed with it.
LEMMA TipIsDescendant ==
  ASSUME NEW map \in [Name -> Cid \cup {NoCid}], NEW disk,
         NEW c \in Trimmed(map, disk), NEW t \in Cid,
         t = SurvivingTip(ChainFrom(map[Latest], disk))
  PROVE  AncestorOf(c, t)
<1> DEFINE chain == ChainFrom(map[Latest], disk)
           place == IF Keep = 0 THEN 1 ELSE Keep
<1>1. GoodChain(chain, map[Latest], disk)
  BY ChainIsGood
<1>2. PICK j \in DOMAIN chain : j > Keep /\ chain[j] = c
  BY DEF Trimmed
<1>3. c \in Cid /\ c \notin Bound(map)
  BY BlockGraphAssumption DEF Trimmed
<1>4. place \in DOMAIN chain /\ chain[place] = t
  <2> DEFINE IsTip(x) == place \in DOMAIN chain /\ chain[place] = x
  <2>1. SurvivingTip(chain) = IF \E x \in Checkpoint : IsTip(x)
                                THEN CHOOSE x \in Checkpoint : IsTip(x)
                                ELSE NoCid
    BY DEF SurvivingTip
  <2>2. t # NoCid
    BY BlockGraphAssumption
  <2>3. \E x \in Checkpoint : IsTip(x)
    BY <2>1, <2>2
  <2> HIDE DEF IsTip
  <2>4. IsTip(t)
    BY <2>1, <2>3
  <2> QED
    BY <2>4 DEF IsTip
<1> HIDE DEF chain
<1>5. DOMAIN chain = 1..Len(chain) /\ Len(chain) \in Nat
  BY <1>1 DEF GoodChain
<1>6. place < j
  <2>1. CASE Keep = 0 /\ j = 1
    <3>1. c = map[Latest]
      BY <1>1, <1>2, <1>5, <2>1 DEF GoodChain
    <3> QED
      BY <1>3, <3>1, BlockGraphAssumption DEF Bound
  <2>2. CASE ~(Keep = 0 /\ j = 1)
    BY <1>2, <1>5, <2>2, BlockGraphAssumption
  <2> QED
    BY <2>1, <2>2
<1> QED
  BY <1>1, <1>2, <1>4, <1>5, <1>6, LaterIsAncestor

\* Every receipt, in the file or in the hands of a collector, and every one
\* that a collector may come to write names a descendant.
ReceiptsClimb(l) == \A c \in Cid : l[c] \in Cid => AncestorOf(c, l[c])

ClimbInv ==
  /\ ReceiptsClimb(tombs)
  /\ \A r \in Request : ReceiptsClimb(ledger[r])
  /\ \A r \in Request : \A c \in trim[r] : tip[r] \in Cid => AncestorOf(c, tip[r])

LEMMA ClimbStep ==
  ASSUME TypeOK, ClimbInv, [Next]_vars
  PROVE  ClimbInv'
<1> USE BlockGraphAssumption, StoreAssumption DEF TypeOK, files, marks
<1>0. ReceiptsClimb(NoLedger)
  BY DEF ReceiptsClimb, NoLedger
<1>1. ASSUME NEW r \in Request, Forget(r) PROVE ClimbInv'
  BY <1>0, <1>1 DEF Forget, ClimbInv
<1>2. ASSUME NEW r \in Request, UNCHANGED <<tombs, ledger, trim, tip>>
      PROVE  ClimbInv'
  BY <1>2 DEF ClimbInv
<1>3. ASSUME NEW r \in Request, GcScan(r) PROVE ClimbInv'
  BY <1>3 DEF GcScan, ClimbInv
<1>4. ASSUME NEW r \in Request, GcRoots(r) PROVE ClimbInv'
  <2> DEFINE cut == Trimmed(view[r], blocks)
             top == SurvivingTip(ChainFrom(view[r][Latest], blocks))
  <2>1. \A c \in cut : top \in Cid => AncestorOf(c, top)
    BY TipIsDescendant
  <2>2. trim' = [trim EXCEPT ![r] = cut] /\ tip' = [tip EXCEPT ![r] = top]
        /\ UNCHANGED <<tombs, ledger>>
    BY <1>4 DEF GcRoots
  <2> HIDE DEF cut, top
  <2> QED
    BY <2>1, <2>2 DEF ClimbInv
<1>5. ASSUME NEW r \in Request, GcLedger(r) PROVE ClimbInv'
  <2> DEFINE dead == onDisk[r] \ keep[r]
  <2>1. tombs' = Receipts(r, dead) /\ UNCHANGED <<ledger, trim, tip>>
    BY <1>5 DEF GcLedger
  <2>2. ASSUME NEW c \in Cid, tombs'[c] \in Cid PROVE AncestorOf(c, tombs'[c])
    <3>1. tombs'[c] = ledger[r][c] \/ (c \in trim[r] /\ tombs'[c] = tip[r])
      BY <2>1, <2>2 DEF Receipts
    <3> QED
      BY <2>2, <3>1 DEF ClimbInv, ReceiptsClimb
  <2> QED
    BY <2>1, <2>2 DEF ClimbInv, ReceiptsClimb
<1>6. ASSUME NEW r \in Request,
             \/ Open(r) \/ GcOpen(r) \/ \E c \in Cid : Put(r, c)
             \/ \E n \in Name : Unbind(r, n) \/ \E c \in Cid : Bind(r, n, c)
             \/ GcMark(r) \/ GcFrontier(r) \/ GcSweep(r)
      PROVE  ClimbInv'
  <2>1. UNCHANGED <<tombs, ledger, trim, tip>>
    BY <1>6 DEF Open, GcOpen, Put, Unbind, Bind, GcMark, GcFrontier, GcSweep
  <2> QED
    BY <1>2, <2>1
<1>7. CASE UNCHANGED vars
  BY <1>7 DEF vars, ClimbInv
<1> QED
  BY <1>1, <1>3, <1>4, <1>5, <1>6, <1>7
  DEF Next, GcStep, Stop, GcRootsFail, GcMarkFail, GcDone

\* Following superseded_by goes up the history, never in a circle, whatever
\* requests, crashes and collectors overlap, and for every Keep.
THEOREM SupersededSoundly == Spec => []SupersededByDescendant
<1>1. Init => ClimbInv
  BY StoreAssumption DEF Init, NoLedger, ClimbInv, ReceiptsClimb
<1>2. TypeOK /\ ClimbInv /\ [Next]_vars => ClimbInv'
  BY ClimbStep
<1>3. ClimbInv => SupersededByDescendant
  BY DEF ClimbInv, ReceiptsClimb, SupersededByDescendant
<1> QED
  BY <1>1, <1>2, <1>3, TypeCorrect, PTL DEF Spec

----------------------------------------------------------------------------
(***************************************************************************)
(* The contract. What is missing for it is that the newest checkpoints of  *)
(* the chain survive. The chain on a disk that holds less is the beginning *)
(* of the chain on the disk that holds more, so a sweep that spares the    *)
(* newest checkpoints it found brings no other into their place.           *)
(***************************************************************************)
Begins(s, t) ==
  /\ Len(s) <= Len(t)
  /\ \A i \in 1..Len(s) : s[i] = t[i]

\* s stopped where it is, or has come as far as t.
Trails(s, t, head, disk) ==
  \/ s = t
  \/ Begins(s, t) /\ Further(s, head, disk) = s

LEMMA TrailsOn ==
  ASSUME NEW head, NEW disk, NEW rest \in SUBSET disk,
         NEW s \in Seq(Checkpoint), NEW t \in Seq(Checkpoint),
         Trails(s, t, head, rest)
  PROVE  Trails(Further(s, head, rest), Further(t, head, disk), head, rest)
<1>1. ASSUME NEW u \in Seq(Checkpoint)
      PROVE  Begins(u, Further(u, head, disk))
  <2> DEFINE cursor == IF u = <<>> THEN head ELSE Parent[u[Len(u)]]
  <2>1. Further(u, head, disk) = u \/
        (cursor \in Checkpoint /\ Further(u, head, disk) = Append(u, cursor))
    BY DEF Further
  <2> HIDE DEF cursor
  <2>2. CASE Further(u, head, disk) = u
    BY <2>2 DEF Begins
  <2>3. CASE cursor \in Checkpoint /\ Further(u, head, disk) = Append(u, cursor)
    <3>1. /\ Len(Append(u, cursor)) = Len(u) + 1 /\ Len(u) \in Nat
          /\ \A i \in 1..Len(u) : Append(u, cursor)[i] = u[i]
      BY <2>3
    <3> QED
      BY <2>3, <3>1 DEF Begins
  <2> QED
    BY <2>1, <2>2, <2>3
<1>2. CASE Further(s, head, rest) = s
  <2>1. CASE s = t
    BY <1>1, <1>2, <2>1 DEF Trails
  <2>2. CASE Begins(s, t)
    <3>1. Begins(t, Further(t, head, disk))
      BY <1>1
    <3>2. Begins(s, Further(t, head, disk))
      <4>1. Further(t, head, disk) \in Seq(Checkpoint)
        BY DEF Further
      <4>2. Len(s) \in Nat /\ Len(t) \in Nat /\ Len(Further(t, head, disk)) \in Nat
        BY <4>1
      <4> QED
        BY <2>2, <3>1, <4>2 DEF Begins
    <3> QED
      BY <1>2, <3>2 DEF Trails
  <2> QED
    BY <2>1, <2>2 DEF Trails
<1>3. CASE Further(s, head, rest) # s
  <2>1. s = t
    BY <1>3 DEF Trails
  <2>2. Further(s, head, rest) = Further(s, head, disk)
    BY <1>3 DEF Further
  <2> QED
    BY <2>1, <2>2 DEF Trails
<1> QED
  BY <1>2, <1>3

LEMMA WalkTrails ==
  ASSUME NEW head, NEW disk, NEW rest \in SUBSET disk, NEW n \in Nat,
         NEW f, IsWalk(f, n, head, rest), NEW g, IsWalk(g, n, head, disk)
  PROVE  Trails(f[n], g[n], head, rest)
<1> DEFINE Bad == {m \in 0..n : ~Trails(f[m], g[m], head, rest)}
<1>1. \A m \in 0..n :
        /\ f[m] = IF m = 0 THEN <<>> ELSE Further(f[m - 1], head, rest)
        /\ g[m] = IF m = 0 THEN <<>> ELSE Further(g[m - 1], head, disk)
  BY DEF IsWalk
<1>2. Bad = {}
  <2> SUFFICES ASSUME Bad # {} PROVE FALSE
    OBVIOUS
  <2>0. Bad \in SUBSET Nat
    OBVIOUS
  <2>1. PICK m \in Bad : \A l \in Bad : m <= l
    BY <2>0, LeastNumber
  <2>2. m # 0
    BY <1>1, <2>1 DEF Trails
  <2>3. m - 1 \in 0..n /\ m - 1 \notin Bad
    BY <2>1, <2>2
  <2>4. Trails(f[m - 1], g[m - 1], head, rest)
    BY <2>3
  <2>5. f[m] = Further(f[m - 1], head, rest) /\ g[m] = Further(g[m - 1], head, disk)
    BY <1>1, <2>1, <2>2
  <2>6. IsWalk([k \in 0..(m - 1) |-> f[k]], m - 1, head, rest)
    BY <2>3 DEF IsWalk
  <2>7. IsWalk([k \in 0..(m - 1) |-> g[k]], m - 1, head, disk)
    BY <2>3 DEF IsWalk
  <2>8. m - 1 \in Nat
    BY <2>3
  <2>9. GoodChain(f[m - 1], head, rest)
    BY <2>6, <2>8, WalkIsGood
  <2>10. GoodChain(g[m - 1], head, disk)
    BY <2>7, <2>8, WalkIsGood
  <2>11. f[m - 1] \in Seq(Checkpoint) /\ g[m - 1] \in Seq(Checkpoint)
    BY <2>9, <2>10 DEF GoodChain
  <2>12. Trails(f[m], g[m], head, rest)
    BY <2>4, <2>5, <2>11, TrailsOn
  <2> QED
    BY <2>1, <2>12
<1> QED
  BY <1>2

LEMMA TipOfLess ==
  ASSUME NEW map, NEW disk, NEW rest \in SUBSET disk
  PROVE  Tip(map, rest) \subseteq Tip(map, disk)
<1> DEFINE N == Cardinality(Cid)
           s == ChainFrom(map[Latest], rest)
           t == ChainFrom(map[Latest], disk)
<1>0. N \in Nat
  BY BlockGraphAssumption, FS_CardinalityType
<1>1. PICK f : IsWalk(f, N, map[Latest], rest) /\ s = f[N]
  BY ChainIsWalk
<1>2. PICK g : IsWalk(g, N, map[Latest], disk) /\ t = g[N]
  BY ChainIsWalk
<1>3. Trails(s, t, map[Latest], rest)
  BY <1>0, <1>1, <1>2, WalkTrails
<1>4. GoodChain(s, map[Latest], rest) /\ GoodChain(t, map[Latest], disk)
  BY ChainIsGood
<1> HIDE DEF s, t
<1>5. /\ DOMAIN s = 1..Len(s) /\ Len(s) \in Nat
      /\ DOMAIN t = 1..Len(t) /\ Len(t) \in Nat
  BY <1>4 DEF GoodChain
<1>6. \A i \in DOMAIN s : i \in DOMAIN t /\ t[i] = s[i]
  BY <1>3, <1>5 DEF Trails, Begins
<1> QED
  BY <1>6 DEF Tip, s, t

LEMMA TipStays ==
  ASSUME NEW map, NEW disk
  PROVE  Tip(map, disk) \subseteq disk \ Trimmed(map, disk)
<1> DEFINE s == ChainFrom(map[Latest], disk)
<1>1. GoodChain(s, map[Latest], disk)
  BY ChainIsGood
<1> HIDE DEF s
<1>2. /\ DOMAIN s = 1..Len(s) /\ \A i \in DOMAIN s : s[i] \in disk
      /\ \A i, j \in DOMAIN s : s[i] = s[j] => i = j
  BY <1>1 DEF GoodChain
<1>3. \A i \in DOMAIN s : i <= Keep => ~(i > Keep)
  BY <1>2, BlockGraphAssumption
<1> QED
  BY <1>2, <1>3 DEF Tip, Trimmed, s

\* While it marks, a collector has kept or has on its work list the newest
\* checkpoints; when it sweeps it has kept them.
TipInv ==
  \A r \in Request :
    /\ pc[r] = "mark" => Tip(names, blocks) \subseteq keep[r] \cup stack[r]
    /\ pc[r] = "sweep" => Tip(names, blocks) \subseteq keep[r]

LEMMA TipInvariant == ASSUME OneRequest PROVE Spec => []TipInv
<1> USE OneRequest, BlockGraphAssumption, StoreAssumption DEF OneRequest
<1>1. Init => TipInv
  BY DEF Init, TipInv
<1>2. TypeOK /\ FreshView /\ PassInv /\ TipInv /\ [Next]_vars => TipInv'
  <2> SUFFICES ASSUME TypeOK, FreshView, PassInv, TipInv, [Next]_vars
               PROVE  TipInv'
    OBVIOUS
  <2>0. Tip(names, blocks) \subseteq blocks \ Trimmed(names, blocks)
    BY TipStays
  <2>1. ASSUME NEW r \in Request, Forget(r)
        PROVE  TipInv'
    BY <2>1 DEF Forget, TypeOK, TipInv
  <2>2. ASSUME NEW r \in Request,
               \/ Open(r) \/ GcOpen(r) \/ GcScan(r)
               \/ \E c \in Cid : Put(r, c)
               \/ \E n \in Name : Unbind(r, n)
               \/ \E n \in Name, c \in Cid : Bind(r, n, c)
        PROVE  TipInv'
    <3>1. pc'[r] \notin {"mark", "sweep"}
      BY <2>2 DEF Open, GcOpen, GcScan, Put, Unbind, Bind, TypeOK
    <3> QED
      BY <3>1 DEF TipInv
  <2>3. ASSUME NEW r \in Request, GcRoots(r)
        PROVE  TipInv'
    <3>1. pc'[r] = "mark" /\ UNCHANGED <<names, blocks>>
      BY <2>3 DEF GcRoots, TypeOK, files
    <3>2. stack'[r] = (Bound(names) \cup Tip(names, blocks)
                         \cup (blocks \cap Decision)) \ Trimmed(names, blocks)
      BY <2>3 DEF GcRoots, FreshView, TypeOK, PassInv
    <3>3. Tip(names', blocks') = Tip(names, blocks)
      BY <3>1
    <3>4. Tip(names, blocks) \subseteq stack'[r]
      BY <2>0, <3>2
    <3> QED
      BY <3>1, <3>3, <3>4 DEF TipInv
  <2>4. ASSUME NEW r \in Request, GcMark(r) \/ GcFrontier(r)
        PROVE  TipInv'
    <3>1. pc[r] = "mark" /\ pc' = pc /\ UNCHANGED <<names, blocks>>
      BY <2>4 DEF GcMark, GcFrontier, files
    <3>2. Tip(names, blocks) \subseteq keep[r] \cup stack[r]
      BY <3>1 DEF TipInv
    <3>3. (keep[r] \cup stack[r]) \cap blocks \subseteq keep'[r] \cup stack'[r]
      BY <2>4 DEF GcMark, GcFrontier, TypeOK
    <3>4. Tip(names', blocks') = Tip(names, blocks)
      BY <3>1
    <3> QED
      BY <2>0, <3>1, <3>2, <3>3, <3>4 DEF TipInv
  <2>5. ASSUME NEW r \in Request, GcLedger(r)
        PROVE  TipInv'
    <3>1. pc[r] = "mark" /\ pc'[r] = "sweep" /\ stack[r] = {}
          /\ UNCHANGED <<names, blocks, keep>>
      BY <2>5 DEF GcLedger, TypeOK, marks
    <3>2. Tip(names', blocks') = Tip(names, blocks)
      BY <3>1
    <3> QED
      BY <3>1, <3>2 DEF TipInv
  <2>6. ASSUME NEW r \in Request, GcSweep(r)
        PROVE  TipInv'
    <3>1. pc[r] = "sweep" /\ pc' = pc /\ UNCHANGED <<names, keep>>
      BY <2>6 DEF GcSweep, marks
    <3>2. blocks' \in SUBSET blocks
      BY <2>6 DEF GcSweep
    <3>3. Tip(names, blocks') \subseteq Tip(names, blocks)
      BY <3>2, TipOfLess
    <3>4. Tip(names', blocks') = Tip(names, blocks')
      BY <3>1
    <3> QED
      BY <3>1, <3>3, <3>4 DEF TipInv
  <2>7. CASE UNCHANGED vars
    <3>1. UNCHANGED <<names, blocks, pc, keep, stack>>
      BY <2>7 DEF vars, files, marks
    <3>2. Tip(names', blocks') = Tip(names, blocks)
      BY <3>1
    <3> QED
      BY <3>1, <3>2 DEF TipInv
  <2>8. ASSUME NEW r \in Request, Stop(r) \/ GcStep(r)
        PROVE  TipInv'
    BY <2>1, <2>2, <2>3, <2>4, <2>5, <2>6, <2>8
    DEF GcStep, Stop, GcRootsFail, GcMarkFail, GcDone
  <2>9. QED
    BY <2>2, <2>7, <2>8 DEF Next
<1>3. QED
  BY <1>1, <1>2, TypeCorrect, ViewsFresh, PassInvariant, PTL DEF Spec

LEMMA SameChain ==
  ASSUME NEW head, NEW disk
  PROVE  Contract!ChainFrom(head, disk) = ChainFrom(head, disk)
<1>1. Contract!Cardinality(Cid) = Cardinality(Cid)
  BY Zenon DEF Cardinality, Contract!Cardinality
<1> QED
  BY <1>1, Zenon DEF Contract!ChainFrom, ChainFrom

LEMMA OneCut ==
  ASSUME OneRequest, NEW cuts, NEW r \in Request
  PROVE  UNION {cuts[q] : q \in Request} = cuts[r]
<1>1. Request = {r}
  BY OneRequest DEF OneRequest
<1> QED
  BY <1>1

\* With one request at a time the store keeps its contract, for every block
\* graph in which only parent pointers link to checkpoints: every step of a
\* command or of the collector is a step of StoreContract, or changes nothing
\* that the contract sees. A crash between two removals only ends the pass.
THEOREM ContractKept ==
  ASSUME OneRequest, CheckpointsByParentOnly
  PROVE  Spec => KeepsContract
<1>1. Init => Contract!Init
  BY StoreAssumption
  DEF Init, Contract!Init, Unbound, NoLedger, Explained, Tombstoned, Cut
<1>2. TypeOK /\ FreshView /\ PassInv /\ ReceiptInv /\ TipInv /\ SweepIsSafe
        /\ [Next]_vars => [Contract!Next]_(Contract!vars)
  <2> SUFFICES ASSUME TypeOK, FreshView, PassInv, ReceiptInv, TipInv,
                      SweepIsSafe, [Next]_vars
               PROVE  [Contract!Next]_(Contract!vars)
    OBVIOUS
  <2> USE BlockGraphAssumption, StoreAssumption
  <2>a. ASSUME tombs' = tombs PROVE Explained' = Explained
    BY <2>a DEF Explained, Tombstoned
  <2>b. ASSUME trim' = trim PROVE Cut' = Cut
    BY <2>b DEF Cut
  <2>c. ASSUME NEW r \in Request PROVE Cut = trim[r] /\ Cut' = trim'[r]
    BY OneRequest, OneCut DEF Cut
  <2>1. ASSUME UNCHANGED <<names, blocks, tombs, trim>>
        PROVE  UNCHANGED Contract!vars
    BY <2>1, <2>a, <2>b DEF Contract!vars
  <2>2. ASSUME NEW r \in Request, Forget(r)
        PROVE  Contract!Rest
    <3>1. UNCHANGED <<names, blocks, tombs>>
      BY <2>2 DEF Forget, files
    <3>2. trim'[r] = {}
      BY <2>2 DEF Forget, TypeOK
    <3> QED
      BY <3>1, <3>2, <2>a, <2>c DEF Contract!Rest
  <2>3. ASSUME NEW r \in Request, NEW c \in Cid, Put(r, c)
        PROVE  Contract!Put(c)
    BY <2>3, <2>a, <2>b DEF Put, Contract!Put, marks
  <2>4. ASSUME NEW r \in Request, NEW n \in Name, NEW c \in Cid, Bind(r, n, c)
        PROVE  Contract!Bind(n, c)
    BY <2>4, <2>a, <2>b DEF Bind, Contract!Bind, FreshView, marks
  <2>5. ASSUME NEW r \in Request, NEW n \in Name, Unbind(r, n)
        PROVE  Contract!Bind(n, NoCid)
    BY <2>5, <2>a, <2>b DEF Unbind, Contract!Bind, FreshView, marks
  <2>6. ASSUME NEW r \in Request,
               Open(r) \/ GcOpen(r) \/ GcScan(r) \/ GcMark(r) \/ GcFrontier(r)
        PROVE  UNCHANGED Contract!vars
    BY <2>1, <2>6 DEF Open, GcOpen, GcScan, GcMark, GcFrontier, files, marks
  <2>7. ASSUME NEW r \in Request, GcRoots(r)
        PROVE  Contract!LetGo
    <3>1. UNCHANGED <<names, blocks, tombs>>
      BY <2>7 DEF GcRoots, files
    <3>2. trim'[r] = Trimmed(names, blocks)
      BY <2>7 DEF GcRoots, FreshView, TypeOK
    <3>3. Contract!Trimmed(names, blocks) = Trimmed(names, blocks)
      BY SameChain DEF Contract!Trimmed, Trimmed, Contract!Bound, Bound
    <3> QED
      BY <3>1, <3>2, <3>3, <2>a, <2>c DEF Contract!LetGo
  <2>8. ASSUME NEW r \in Request, GcLedger(r)
        PROVE  Contract!Certify(onDisk[r] \ keep[r])
               /\ onDisk[r] \ keep[r] \in SUBSET blocks
    <3> DEFINE dead == onDisk[r] \ keep[r]
    <3>1. tombs' = Receipts(r, dead) /\ UNCHANGED <<names, blocks, trim>>
          /\ pc[r] = "mark"
      BY <2>8 DEF GcLedger, marks
    <3>2. ledger[r] = tombs /\ onDisk[r] = blocks
      BY <3>1 DEF ReceiptInv, PassInv, MarkInv
    <3>3. \A c \in Cid : tombs'[c] # NoTomb <=> c \in dead \/ tombs[c] # NoTomb
      BY <3>1, <3>2 DEF Receipts, TypeOK
    <3>4. dead \subseteq Cid
      BY <3>2 DEF TypeOK
    <3> HIDE DEF dead
    <3>5. Explained' = Explained \cup dead
      BY <3>3, <3>4 DEF Explained, Tombstoned
    <3> QED
      BY <3>1, <3>2, <3>5, <2>b DEF Contract!Certify, dead
  <2>9. ASSUME NEW r \in Request, GcSweep(r)
        PROVE  UNCHANGED Contract!vars \/ \E c \in Cid : Contract!Reclaim(c)
    <3>1. PICK c \in deaths[r] : blocks' = blocks \ {c}
      BY <2>9 DEF GcSweep
    <3>2. UNCHANGED <<names, tombs, trim>> /\ pc[r] = "sweep"
      BY <2>9 DEF GcSweep, marks
    <3>3. CASE c \notin blocks
      <4>1. blocks' = blocks
        BY <3>1, <3>3
      <4> QED
        BY <2>1, <3>2, <4>1
    <3>4. CASE c \in blocks
      <4>1. c \in Cid /\ Tombstoned(c)
        BY <3>4 DEF TypeOK, ReceiptInv
      <4>2. Cut = trim[r]
        BY <2>c
      <4>3. c \notin Needed(names, blocks, trim[r])
        BY <3>1 DEF SweepIsSafe
      <4>4. c \notin Tip(names, blocks)
        BY <3>1, <3>2 DEF TipInv, PassInv, SweepInv
      <4>5. Contract!Needed(names, blocks, Cut) = Needed(names, blocks, trim[r])
        BY <4>2 DEF Contract!Needed, Needed, Contract!Closed, Closed,
                    Contract!Bound, Bound
      <4>6. Contract!Tip(names, blocks) = Tip(names, blocks)
        BY SameChain DEF Contract!Tip, Tip
      <4>7. UNCHANGED <<names, Explained, Cut>>
        BY <3>2, <2>a, <2>b
      <4>8. Contract!Reclaim(c)
        BY <3>1, <3>4, <4>1, <4>3, <4>4, <4>5, <4>6, <4>7
        DEF Contract!Reclaim, Explained
      <4> QED
        BY <4>1, <4>8
    <3> QED
      BY <3>3, <3>4
  <2>10. CASE UNCHANGED vars
    BY <2>1, <2>10 DEF vars, files, marks
  <2>11. ASSUME NEW r \in Request, Stop(r) \/ GcStep(r)
         PROVE  Contract!Next \/ UNCHANGED Contract!vars
    BY <2>2, <2>6, <2>7, <2>8, <2>9, <2>11
    DEF GcStep, Stop, GcRootsFail, GcMarkFail, GcDone, Contract!Next
  <2> QED
    BY <2>3, <2>4, <2>5, <2>6, <2>10, <2>11, BlockGraphAssumption
    DEF Next, Contract!Next
<1>3. OneCollector
  BY OneRequest, StoreAssumption DEF OneRequest, OneCollector
<1> QED
  BY <1>1, <1>2, <1>3, OneRequest, CheckpointsByParentOnly, TypeCorrect,
     ViewsFresh, PassInvariant, ReceiptInvariant, TipInvariant, SweepSparesNeeded,
     PTL
  DEF Spec, KeepsContract, Contract!Spec
=============================================================================
