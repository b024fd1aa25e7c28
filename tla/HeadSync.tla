------------------------------ MODULE HeadSync ------------------------------
(***************************************************************************)
(* Synchronisation of a namespace between devices (core/src/sync.rs, and   *)
(* the driver in net/src/sync.rs): a device fetches the head record of a   *)
(* peer, reconciles it with its own heads, pulls the blocks it misses,     *)
(* following links as they arrive, and then adopts the union of the heads. *)
(*                                                                         *)
(* A block's links are part of it and CIDs are checked on arrival, so a    *)
(* block is what it is; what varies is who has which. Records that do not  *)
(* verify end a sync at once and are left out. A sync is bounded by 60 s,  *)
(* and the CLI runs one per process.                                       *)
(***************************************************************************)
EXTENDS Naturals

CONSTANTS
  Device,       \* the devices that share the namespace
  Cid,          \* the blocks there may be
  Links,        \* the links of each block
  Writer,       \* the devices that may write and advertise heads
  Faults        \* publish: a device publishes while it pulls

VARIABLES
  blocks,       \* the blocks each device has
  heads,        \* its localheads file
  record,       \* the heads in the record it serves; {} is none
  pc,           \* where its sync stands
  source,       \* the peer it pulls from
  queue,        \* the CIDs still to visit
  seen,         \* the CIDs visited
  target,       \* the heads it will adopt
  gaps          \* history: what a pull that was cut was still waiting for

sync == <<pc, source, queue, seen, target>>
vars == <<blocks, heads, record, sync, gaps>>

Init ==
  /\ blocks = [d \in Device |-> {}]
  /\ heads = [d \in Device |-> {}]
  /\ record = [d \in Device |-> {}]
  /\ pc = [d \in Device |-> "idle"]
  /\ source = [d \in Device |-> d]
  /\ queue = [d \in Device |-> {}]
  /\ seen = [d \in Device |-> {}]
  /\ target = [d \in Device |-> {}]
  /\ gaps = [d \in Device |-> {}]

TypeOK ==
  /\ blocks \in [Device -> SUBSET Cid] /\ heads \in [Device -> SUBSET Cid]
  /\ record \in [Device -> SUBSET Cid]
  /\ pc \in [Device -> {"idle", "pull"}] /\ source \in [Device -> Device]
  /\ queue \in [Device -> SUBSET Cid] /\ seen \in [Device -> SUBSET Cid]
  /\ target \in [Device -> SUBSET Cid] /\ gaps \in [Device -> SUBSET Cid]

----------------------------------------------------------------------------
\* With each of its blocks, S has what the block links to.
Closed(S) == \A c \in S : Links[c] \subseteq S

\* What can be reached from a set of blocks: the least closed set around it.
Below(C) == {c \in Cid : \A S \in SUBSET Cid : C \subseteq S /\ Closed(S) => c \in S}

\* A writer puts a block; it links only to blocks the writer has.
Write(d, c) ==
  /\ d \in Writer
  /\ c \notin blocks[d] /\ Links[c] \subseteq blocks[d]
  /\ blocks' = [blocks EXCEPT ![d] = @ \cup {c}]
  /\ UNCHANGED <<heads, record, sync, gaps>>

\* publish_head: the record is signed and stored, and its heads are the
\* device's own. A writer advertises what it wrote on top of its heads.
Publish(d, c) ==
  /\ d \in Writer
  /\ "publish" \in Faults \/ pc[d] = "idle"
  /\ c \in blocks[d] /\ heads[d] \subseteq {c} \cup Links[c]
  /\ record' = [record EXCEPT ![d] = {c}]
  /\ heads' = [heads EXCEPT ![d] = {c}]
  /\ UNCHANGED <<blocks, sync, gaps>>

\* sync_from_peer, 1 and 2: the peer's record, and reconcile: the heads to
\* adopt are those of both, the heads to pull are those that are missing.
Begin(d, p) ==
  /\ pc[d] = "idle" /\ p # d /\ record[p] # {}
  /\ pc' = [pc EXCEPT ![d] = "pull"]
  /\ source' = [source EXCEPT ![d] = p]
  /\ queue' = [queue EXCEPT ![d] = record[p] \ blocks[d]]
  /\ seen' = [seen EXCEPT ![d] = {}]
  /\ target' = [target EXCEPT ![d] = heads[d] \cup record[p]]
  /\ UNCHANGED <<blocks, heads, record, gaps>>

\* A slip: the links of a block are followed only to what it was fetched for.
VisitShallow(d, c) ==
  /\ pc[d] = "pull" /\ c \in queue[d]
  /\ c \in blocks[d] \cup blocks[source[d]]
  /\ blocks' = [blocks EXCEPT ![d] = @ \cup {c}]
  /\ seen' = [seen EXCEPT ![d] = @ \cup {c}]
  /\ queue' = [queue EXCEPT ![d] = @ \ {c}]
  /\ UNCHANGED <<heads, record, pc, source, target, gaps>>

\* 3: a CID is fetched unless it is here, and its links are queued.
Visit(d, c) ==
  /\ pc[d] = "pull" /\ c \in queue[d]
  /\ c \in blocks[d] \cup blocks[source[d]]
  /\ blocks' = [blocks EXCEPT ![d] = @ \cup {c}]
  /\ seen' = [seen EXCEPT ![d] = @ \cup {c}]
  /\ queue' = [queue EXCEPT ![d] = (@ \cup Links[c]) \ seen'[d]]
  /\ UNCHANGED <<heads, record, pc, source, target, gaps>>

\* What a sync knew is gone with it.
Ends(d) ==
  /\ pc' = [pc EXCEPT ![d] = "idle"]
  /\ source' = [source EXCEPT ![d] = d]
  /\ queue' = [queue EXCEPT ![d] = {}] /\ seen' = [seen EXCEPT ![d] = {}]
  /\ target' = [target EXCEPT ![d] = {}]

\* A block cannot be fetched, or not in time: the sync ends without heads, and
\* what has arrived stays.
TimeOut(d) ==
  /\ pc[d] = "pull" /\ queue[d] # {}
  /\ gaps' = [gaps EXCEPT ![d] = @ \cup (queue[d] \ blocks[d])]
  /\ Ends(d)
  /\ UNCHANGED <<blocks, heads, record>>

\* 4: the converged heads become the device's heads.
Adopt(d) ==
  /\ pc[d] = "pull" /\ queue[d] = {}
  /\ heads' = [heads EXCEPT ![d] = target[d]]
  /\ Ends(d)
  /\ UNCHANGED <<blocks, record, gaps>>

Next ==
  \E d \in Device :
    \/ \E c \in Cid : Write(d, c) \/ Publish(d, c) \/ Visit(d, c)
    \/ \E p \in Device : Begin(d, p)
    \/ TimeOut(d)
    \/ Adopt(d)

Spec == Init /\ [][Next]_vars

----------------------------------------------------------------------------
\* What a device waits for, or waited for when its pull was cut.
Awaited(d) == (gaps[d] \cup queue[d]) \ blocks[d]

\* A head a device has adopted is complete there, down to its last block,
\* however often its syncs were tried, from whichever peers, and whatever it and
\* the peers wrote meanwhile: the heads are adopted only after "durable commit".
\* Only a pull that was cut leaves a hole, as long as what it was waiting for has
\* not come: a later sync that finds the head here does not look below it.
HeadsAreWhole ==
  \A d \in Device : \A h \in heads[d] :
    Below({h}) \subseteq blocks[d] \cup Below(Awaited(d))

\* Concurrent heads are preserved: a sync never drops a head that the device
\* or the peer it synchronised with had.
HeadsAreKept ==
  [][\A d \in Device :
       pc[d] = "pull" /\ pc'[d] = "idle" => heads[d] \subseteq heads'[d]]_vars
============================================================================
