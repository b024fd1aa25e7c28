---------------------------- MODULE ContentStore ----------------------------
(***************************************************************************)
(* The block store of the mem crate with the three files it consists of:   *)
(* the block directory, the name index (names.json) and the tombstone      *)
(* ledger (tombstones.json), used by several requests at once.             *)
(*                                                                         *)
(* A request is one execution of a command or handler: a CLI process, a    *)
(* thread of the GUI server, the GUI's daily maintenance thread. No lock   *)
(* orders them. Each opens the store for itself, which copies the name     *)
(* index into memory (mem/src/names.rs, NameIndex::load); a bind rewrites  *)
(* the whole index file from that copy. A collector runs the retention     *)
(* pass of mem/src/gc.rs step by step, so that another request, or a       *)
(* crash, can come between any two of its accesses to the disk.            *)
(***************************************************************************)
EXTENDS BlockGraph

CONSTANTS
  NoTomb,       \* no tombstone in the ledger
  Request,      \* the requests that may be in flight at once
  Collector,    \* those of them that run the collector
  Foreign       \* blocks of other stores: linked to, never stored here

VARIABLES
  names,        \* the name index file
  blocks,       \* the block directory
  tombs,        \* the ledger file: superseded_by of every tombstone, or NoTomb
  made,         \* history: the blocks ever stored here
  pc,           \* where each request stands
  view,         \* each request's in-memory copy of the name index
  ledger,       \* each collector's in-memory copy of the tombstone ledger
  onDisk,       \* each collector's listing of the block directory
  trim,         \* each collector's cut: the checkpoints to be trimmed
  tip,          \* each collector's surviving tip, superseded_by of the trimmed
  stack,        \* each collector's work list of the mark phase
  keep,         \* each collector's set of marked blocks
  deaths        \* each collector's blocks still to be removed

files == <<names, blocks, tombs, made>>
marks == <<trim, tip, stack, keep>>
vars == <<files, pc, view, ledger, onDisk, marks, deaths>>

ASSUME StoreAssumption ==
  /\ NoTomb \notin Cid \cup {NoCid}
  /\ Collector \subseteq Request
  /\ Foreign \subseteq Cid

Unbound == [n \in Name |-> NoCid]
NoLedger == [c \in Cid |-> NoTomb]

Tombstoned(c) == tombs[c] # NoTomb

----------------------------------------------------------------------------
Init ==
  /\ names = Unbound
  /\ blocks = {}
  /\ tombs = NoLedger
  /\ made = {}
  /\ pc = [r \in Request |-> "idle"]
  /\ view = [r \in Request |-> Unbound]
  /\ ledger = [r \in Request |-> NoLedger]
  /\ onDisk = [r \in Request |-> {}]
  /\ trim = [r \in Request |-> {}]
  /\ tip = [r \in Request |-> NoCid]
  /\ stack = [r \in Request |-> {}]
  /\ keep = [r \in Request |-> {}]
  /\ deaths = [r \in Request |-> {}]

\* A request that ends, fails or is killed loses what it had in memory.
Forget(r) ==
  /\ pc' = [pc EXCEPT ![r] = "idle"]
  /\ view' = [view EXCEPT ![r] = Unbound]
  /\ ledger' = [ledger EXCEPT ![r] = NoLedger]
  /\ onDisk' = [onDisk EXCEPT ![r] = {}]
  /\ trim' = [trim EXCEPT ![r] = {}]
  /\ tip' = [tip EXCEPT ![r] = NoCid]
  /\ stack' = [stack EXCEPT ![r] = {}]
  /\ keep' = [keep EXCEPT ![r] = {}]
  /\ deaths' = [deaths EXCEPT ![r] = {}]
  /\ UNCHANGED files

----------------------------------------------------------------------------
(* Requests that read and write.                                           *)

\* open_store: load the name index. A request may open the store again.
Open(r) ==
  /\ pc[r] \in {"idle", "open"}
  /\ pc' = [pc EXCEPT ![r] = "open"]
  /\ view' = [view EXCEPT ![r] = names]
  /\ UNCHANGED <<files, ledger, onDisk, marks, deaths>>

\* Store::put_node: a block that is there is reused, otherwise it is written.
\* A writer knows the blocks it links to, its own or those of another store.
Put(r, c) ==
  /\ pc[r] = "open"
  /\ c \notin Foreign
  /\ Links[c] \subseteq made \cup Foreign
  /\ blocks' = blocks \cup {c}
  /\ made' = made \cup {c}
  /\ UNCHANGED <<names, tombs, pc, view, ledger, onDisk, marks, deaths>>

\* NameIndex::bind: the whole file is replaced by the request's copy of the
\* index with one entry changed. Nothing checks that the block is there.
Bind(r, n, c) ==
  /\ pc[r] = "open"
  /\ c \in made
  /\ names' = [view[r] EXCEPT ![n] = c]
  /\ view' = [view EXCEPT ![r] = [@ EXCEPT ![n] = c]]
  /\ UNCHANGED <<blocks, tombs, made, pc, ledger, onDisk, marks, deaths>>

\* NameIndex::unbind: nothing happens unless the copy has the name.
Unbind(r, n) ==
  /\ pc[r] = "open"
  /\ view[r][n] # NoCid
  /\ names' = [view[r] EXCEPT ![n] = NoCid]
  /\ view' = [view EXCEPT ![r] = [@ EXCEPT ![n] = NoCid]]
  /\ UNCHANGED <<blocks, tombs, made, pc, ledger, onDisk, marks, deaths>>

\* The end of a request, or a crash of its process at any point.
Stop(r) ==
  /\ pc[r] # "idle"
  /\ Forget(r)

----------------------------------------------------------------------------
(* The retention pass: Store::gc and gc::collect.                          *)

\* open_store before the pass: the names it will treat as roots.
GcOpen(r) ==
  /\ r \in Collector
  /\ pc[r] = "idle"
  /\ pc' = [pc EXCEPT ![r] = "scan"]
  /\ view' = [view EXCEPT ![r] = names]
  /\ UNCHANGED <<files, ledger, onDisk, marks, deaths>>

\* The ledger is loaded and the block directory listed.
GcScan(r) ==
  /\ pc[r] = "scan"
  /\ pc' = [pc EXCEPT ![r] = "roots"]
  /\ ledger' = [ledger EXCEPT ![r] = tombs]
  /\ onDisk' = [onDisk EXCEPT ![r] = blocks]
  /\ UNCHANGED <<files, view, marks, deaths>>

\* Slips: the oldest of the chain taken for the tip; no tip for a short chain.
OldestAsTip(chain) ==
  LET i == Len(chain)
      IsTip(c) == i \in DOMAIN chain /\ chain[i] = c
  IN  IF \E c \in Checkpoint : IsTip(c)
        THEN CHOOSE c \in Checkpoint : IsTip(c)
        ELSE NoCid
TipOrNothing(chain) ==
  IF Keep \in DOMAIN chain THEN chain[Keep] ELSE NoTomb

\* What superseded_by of the trimmed checkpoints names: the element
\* chain.get(keep_n.saturating_sub(1)), if the chain is that long.
SurvivingTip(chain) ==
  LET i == IF Keep = 0 THEN 1 ELSE Keep
      IsTip(c) == i \in DOMAIN chain /\ chain[i] = c
  IN  IF \E c \in Checkpoint : IsTip(c)
        THEN CHOOSE c \in Checkpoint : IsTip(c)
        ELSE NoCid

\* The chain is walked, the tail cut off, and the decisions searched for in
\* every listed block.
GcRoots(r) ==
  /\ pc[r] = "roots"
  /\ onDisk[r] \subseteq blocks
  /\ pc' = [pc EXCEPT ![r] = "mark"]
  /\ trim' = [trim EXCEPT ![r] = Trimmed(view[r], blocks)]
  /\ tip' = [tip EXCEPT ![r] =
               SurvivingTip(ChainFrom(view[r][Latest], blocks))]
  /\ stack' = [stack EXCEPT ![r] =
                 (Bound(view[r]) \cup Tip(view[r], blocks)
                    \cup (onDisk[r] \cap Decision)) \ trim'[r]]
  /\ UNCHANGED <<files, view, ledger, onDisk, keep, deaths>>

\* A listed block is gone when the decisions are searched: the pass fails.
GcRootsFail(r) ==
  /\ pc[r] = "roots"
  /\ ~(onDisk[r] \subseteq blocks)
  /\ Forget(r)

\* A slip: the block is not popped.
GcMarkWithoutPop(r) ==
  /\ pc[r] = "mark"
  /\ \E c \in stack[r] :
       /\ c \in blocks
       /\ keep' = [keep EXCEPT ![r] = @ \cup {c}]
       /\ stack' = [stack EXCEPT ![r] = @ \cup (Links[c] \ trim[r])]
  /\ UNCHANGED <<files, pc, view, ledger, onDisk, trim, tip, deaths>>

\* mark: pop a block; if it is readable, keep it and push its links.
GcMark(r) ==
  /\ pc[r] = "mark"
  /\ \E c \in stack[r] :
       /\ c \in blocks
       /\ keep' = [keep EXCEPT ![r] = @ \cup {c}]
       /\ stack' = [stack EXCEPT ![r] =
            (@ \cup (Links[c] \ (trim[r] \cup keep'[r]))) \ {c}]
  /\ UNCHANGED <<files, pc, view, ledger, onDisk, trim, tip, deaths>>

\* A slip: an absent block is taken for a frontier whatever the ledger says.
GcPassOver(r) ==
  /\ pc[r] = "mark"
  /\ \E c \in stack[r] \ blocks : stack' = [stack EXCEPT ![r] = @ \ {c}]
  /\ UNCHANGED <<files, pc, view, ledger, onDisk, trim, tip, keep, deaths>>

\* mark: an absent block that has a tombstone is a frontier.
GcFrontier(r) ==
  /\ pc[r] = "mark"
  /\ \E c \in stack[r] \ blocks :
       /\ Tombstoned(c)
       /\ stack' = [stack EXCEPT ![r] = @ \ {c}]
  /\ UNCHANGED <<files, pc, view, ledger, onDisk, trim, tip, keep, deaths>>

\* mark: an absent block without a tombstone is a hole; the pass fails.
GcMarkFail(r) ==
  /\ pc[r] = "mark"
  /\ \E c \in stack[r] \ blocks : ~Tombstoned(c)
  /\ Forget(r)

\* The ledger with a receipt for every given block: a checkpoint that was
\* trimmed is superseded by the surviving tip.
\* A slip: the ledger starts empty.
ReceiptsAfresh(r, dead) ==
  [c \in Cid |-> IF c \notin dead THEN NoTomb
                 ELSE IF c \in trim[r] THEN tip[r] ELSE NoCid]
Receipts(r, dead) ==
  [c \in Cid |-> IF c \notin dead THEN ledger[r][c]
                 ELSE IF c \in trim[r] THEN tip[r] ELSE NoCid]

\* The receipts of every death are written, in one write, before the first
\* removal. The file is replaced by the collector's copy with the entries.
GcLedger(r) ==
  LET dead == onDisk[r] \ keep[r]
  IN  /\ pc[r] = "mark"
      /\ stack[r] = {}
      /\ pc' = [pc EXCEPT ![r] = "sweep"]
      /\ deaths' = [deaths EXCEPT ![r] = dead]
      /\ tombs' = Receipts(r, dead)
      /\ UNCHANGED <<names, blocks, made, view, ledger, onDisk, marks>>

\* LocalBlocks::remove: an absent file is no error.
GcSweep(r) ==
  /\ pc[r] = "sweep"
  /\ \E c \in deaths[r] :
       /\ blocks' = blocks \ {c}
       /\ deaths' = [deaths EXCEPT ![r] = @ \ {c}]
  /\ UNCHANGED <<names, tombs, made, pc, view, ledger, onDisk, marks>>

GcDone(r) ==
  /\ pc[r] = "sweep"
  /\ deaths[r] = {}
  /\ Forget(r)

GcStep(r) ==
  \/ GcScan(r) \/ GcRoots(r) \/ GcRootsFail(r)
  \/ GcMark(r) \/ GcFrontier(r) \/ GcMarkFail(r)
  \/ GcLedger(r) \/ GcSweep(r) \/ GcDone(r)

Next ==
  \E r \in Request :
    \/ Open(r)
    \/ \E c \in Cid : Put(r, c)
    \/ \E n \in Name, c \in Cid : Bind(r, n, c)
    \/ \E n \in Name : Unbind(r, n)
    \/ Stop(r)
    \/ GcOpen(r)
    \/ GcStep(r)

Spec == Init /\ [][Next]_vars

\* A pass that has begun keeps running: it is a loop without a wait.
FairSpec == Spec /\ \A r \in Collector : WF_vars(GcStep(r))

----------------------------------------------------------------------------
\* Type invariant: the types of the files and of what each request holds in memory.
TypeOK ==
  /\ names \in [Name -> Cid \cup {NoCid}]
  /\ blocks \subseteq Cid
  /\ tombs \in [Cid -> Cid \cup {NoCid, NoTomb}]
  /\ made \subseteq Cid
  /\ pc \in [Request -> {"idle", "open", "scan", "roots", "mark", "sweep"}]
  /\ view \in [Request -> [Name -> Cid \cup {NoCid}]]
  /\ ledger \in [Request -> [Cid -> Cid \cup {NoCid, NoTomb}]]
  /\ onDisk \in [Request -> SUBSET Cid]
  /\ trim \in [Request -> SUBSET Cid]
  /\ tip \in [Request -> Cid \cup {NoCid}]
  /\ stack \in [Request -> SUBSET Cid]
  /\ keep \in [Request -> SUBSET Cid]
  /\ deaths \in [Request -> SUBSET Cid]

\* A block that was stored here and is no longer on disk has a tombstone: the
\* ledger is "a receipt of truth for every block GC deletes"
\* (mem/src/tombstones.rs:1), whatever a crash interrupts.
EveryDeathHasReceipt == \A c \in made \ blocks : Tombstoned(c)

\* A pass never sweeps after it met a hole. What a kept block links to and is
\* neither kept nor cut off was once stored here, so its absence is a death with
\* a receipt; a link to a block that never was here ends the pass before
\* anything is removed (mark's "Otherwise it's a real hole", gc.rs:207). It
\* takes a receipt that was issued for such a block, or a hole taken for a
\* frontier, to break this.
HolesStopAPass ==
  \A r \in Request : pc[r] = "sweep" =>
    \A c \in keep[r] : Links[c] \subseteq keep[r] \cup trim[r] \cup made

\* What superseded_by points to is a later checkpoint of the same history:
\* following it moves up the parent pointers, so it never runs in a circle.
AncestorOf(c, s) ==
  /\ c # s
  /\ \A S \in SUBSET Cid :
       s \in S /\ (\A x \in S : Parent[x] \in S \cup {NoCid}) => c \in S

SupersededByDescendant ==
  \A c \in Cid : tombs[c] \in Cid => AncestorOf(c, tombs[c])

\* No block that the sweep is about to remove is needed by a name or a
\* decision: gc.rs promises that "the kept closure is always complete".
SweepIsSafe ==
  \A r \in Request :
    deaths[r] \cap Needed(names, blocks, trim[r]) = {}

\* A write of the name index changes the binding of one name only.
OneNamePerWrite ==
  [][\A n, m \in Name :
       names'[n] # names[n] /\ names'[m] # names[m] => n = m]_vars

\* The store keeps its promise. What it lets go is what its collectors cut.
Explained == {c \in Cid : Tombstoned(c)}
Cut == UNION {trim[r] : r \in Request}

Contract == INSTANCE StoreContract WITH receipts <- Explained, tail <- Cut

KeepsContract == Contract!Spec

\* A pass ends: marked blocks are not marked again.
PassEnds == \A r \in Collector : pc[r] = "mark" ~> pc[r] \in {"sweep", "idle"}
============================================================================
