# Universal Concierge: a TLA+ model

Universal Concierge is a local-first memory for AI tools. A content-addressed
store keeps everything that is remembered; command-line tools, a GUI server, an
MCP server and a background kernel use it at the same time, on files, without a
common lock. This directory holds TLA+ modules that model the parts of it where
the order of steps matters, the TLC configurations that check them on small
instances, and TLAPS proofs about them for instances of every size. Paths below
are relative to `src/crates/`.

## Components

| Component | State | Operations | Interacts with | What is hard |
|---|---|---|---|---|
| Block store (`mem/src/store.rs`, `blockstore.rs`) | one file per block, named by the hash of its content | put, get, list, remove | everything | a block is written once and removed by the collector only |
| Name index (`mem/src/names.rs`) | `names.json` and one in-memory copy per request | load, bind, unbind | every request opens its own copy | the file is replaced as a whole from that copy |
| Tombstones (`mem/src/tombstones.rs`) | `tombstones.json`, one copy per collector | load, record | collector, readers of absent blocks | as the name index; a crash between ledger and removal |
| Retention (`mem/src/gc.rs`) | listing, roots, cut, marks, deaths | collect | `mem gc`, the daily GUI thread, the gc route | runs beside writers and beside itself |
| Chat session (`mem/src/session.rs`) | turns, head, loaded records, last checkpoint | ask, record, checkpoint, load, resume, exit | store, retention in another process | blocks that have no name yet; failures half way |
| Work agent (`mem/src/session.rs`, `work.rs`, `audit.rs`) | writes in memory, files on disk, findings | draft, fix imports, audit, build, align, record | models, workspace, store | two copies of each file; laps that must end |
| Day map (`mem/src/hamt.rs`) | a tree of buckets and links | set, get, flush, load | days of the store | one shape per set of entries |
| Kernel daemon (`kernel/src/main.rs`) | socket path, lockfile, signal flag | bind, serve, shut down | supervisors | steps on shared files by several processes |
| Supervisor (`kernel-client/src/client.rs`) | one request in progress | send, start, stop, retry | kernel | time-outs, stale pid, kernel killed while answering |
| Kernel index (`kernel/src/state.rs`, `core/src/retrieval.rs`) | warm index, its age and completeness, snapshot | search, append, snapshot, reconcile | store, capture | index behind the store |
| Capture (`kernel/src/capture.rs`, adapters, `core/src/binding.rs`) | positions in transcripts, maps of days | seed, pass, record, save | harnesses, store, index | positions ahead of what is stored |
| Messaging (`core/src/binding/messaging_binding.rs`, `dm_outbox.rs`) | threads, room heads, queue of undelivered messages | post, accept, queue, retry, acknowledge | transport, store | lost, repeated and reordered messages; 24 h limit |
| Network node (`net/src/transport.rs`, `kernel/src/node.rs`) | tables of requests and deliveries, two queues | send, answer, fail, acknowledge | messaging, synchronisation, swarm | answers and failures that find their request, places that come free |
| Suggestions (`core/src/outbox.rs`) | append-only file and offset | emit, peek, drain | harness | offset saved before delivery |
| Synchronisation (`core/src/sync.rs`, `merge.rs`, `net/src/sync.rs`) | heads, blocks | reconcile, pull, merge | peers, retention | partial transfer, concurrent heads |
| Networks (`core/src/membership.rs`, `pairing.rs`, `revocation.rs`) | descriptor, certificates, offers, ledger | offer, pair, grant, revoke | peers | one-use offers, epochs |
| Identity (`core/src/recovery.rs`, `identity.rs`) | log of keys, two key files | establish, rotate, recover | everything that signs | three files, one after the other |
| Egress (`core/src/egress.rs`, `security.rs`) | locks, clearances, quarantine, receipts, grants | plan, review, approve, execute | GUI, publishing | what was reviewed changes |
| Private copies (`core/src/private.rs`, `crypto/`) | vault, index, ciphertext blocks | encrypt, rotate | store, egress, retention | keys kept as one sealed whole |
| Publishing (`core/src/deploy.rs`, `binding/deployment.rs`) | folder, review, receipt | review, publish, connect | hosts | read, read again, upload |
| Hot pins (`core/src/binding/pinning.rs`, `node.rs`) | `hot-pins.json`, the node's pins, a flag | pin, unpin, enable, disable | IPFS node | a node that dies, a list beside it |
| Self-update (`core/src/update/`) | rules and their epoch, staged program | refresh, pause, stage, swap | release server | failure between steps |
| GUI host (`gui/src/server.rs`, `cli/src/main.rs`) | `gui.json`, a port | mount, reuse, bind, stop | harnesses | a lock that outlives its process |
| Studio checkpoints (`gui/src/canvas.rs`) | page, copies, `manifest.json` | save, publish, edit, open | store, publishing | names by the second, a list replaced as a whole |

What makes each correct, in a line. A name holds what was bound to it and the store
holds everything a name reaches; every absence the collector caused has a receipt and
no other absence has one; a session can be resumed from every checkpoint that has a
name; what a job records lies in the workspace; equal days have equal roots. One kernel
runs and can be found; a request to it ends; a search finds what was captured; no line
of a transcript is passed over. A queued message is stored by its recipient before it is
forgotten, the head of a thread is its newest message, and whoever asks the network is
answered or told. Adopted heads are complete and no branch is lost; an offer lets one
device in, and who was revoked stays out; an identity can be recovered. Nothing fenced
leaves without a grant for exactly that, copies can be opened, a site is what was
reviewed, what is listed as pinned is pinned. The rules and the program that run are
whole and verified. A store has one host, which its lock names, and a listed version of
a site opens. `PROJECT.json` lists every part with what is left out of it and why.

## Modules

* `BlockGraph` — identifiers, links, checkpoint chain, trimming, reachability: the
  pure part of `gc.rs`. A block's content is fixed by its identifier, so the graph
  is a constant and the disk is a subset of it.
* `StoreContract` — what the store promises: put, bind one name, certify, and reclaim what
  has a receipt and nothing needs. `tail` is what retention has let go: `LetGo` settles it
  on the chain as it is, `Rest` drops it. It has to be settled once, since removing a
  checkpoint shortens the chain on which it would be settled again.
* `ContentStore` — the three files and any number of requests. `Open`, `Put`,
  `Bind`, `Unbind`, `Stop` are what commands and handlers do; `GcOpen`, `GcScan`,
  `GcRoots`, `GcMark`, `GcFrontier`, `GcLedger`, `GcSweep`, `GcDone` are
  `gc::collect`, one action per access to the disk, `GcRootsFail` and `GcMarkFail`
  its two error returns. `Stop` is also a crash, possible at every step.
  `made` is a history variable: what was ever stored here. The contract's `receipts` are
  `Explained`, what a tombstone or a ledger about to be written explains, and its `tail` is
  `Cut`, what the collector at work has trimmed.
* `Session` — a chat over a store that another process collects. The log of blocks
  grows; identifiers are positions in it. One action per command of the chat
  (`Ask`, `Record`, `MaybeCheckpoint`, `ManualCheckpoint`, `Load`, `Resume`, `Exit`)
  and per failure (`RecordFails`, `ResumeFails`, `Crash`); `Collect` is a whole pass
  of the collector and uses the same `Trimmed` and `Tip` as `ContentStore`, through
  an instance of `BlockGraph`. `Events` switches on what the code permits and its
  promises do not survive; `faults` is what a behaviour may meet, all of `Events` or
  none, and `strayed` records that a resume has failed after it moved the head.
* `KernelLifecycle` — daemons that go through `bind_socket`, `serve` and
  `install_shutdown` one system call at a time, and supervisors that go through
  `send_supervised`, `ensure_running` and `stop_running_kernel`. The socket path and
  the lockfile hold the daemon that wrote them; `available` is a connection to
  whoever listens on the path. `Faults` switches on kills, failures, slowness.
* `DeliveryContract` — what the outbox of direct messages promises: a message is
  written, owed from its queueing until its recipient has stored it or its time is
  up, and stored once.
* `DirectMessages` — two installs and the room they share. A post is `BeginPost` (the head is
  read), `StorePost` (block and id), `ShowPost` (the head), `QueuePost` (outbox and first
  send); an acceptance is `StoreMessage`, `Compare`, `Advance`, or `Redelivered` for what is
  known. `Retry` is a tick of the 30-second loop, `AckArrives` the clearing of an entry,
  `Lose` and `LoseAck` what the wire or a refusal takes, and `QueueFails`, `PostFails`,
  `AcceptFails`, `DeleteThread`, `Crash` what else happens. `HeadUnreadable` and
  `AdvanceBlind` are the acceptance that cannot read the current head and moves it all the
  same (`unwrap_or(true)`). An envelope is its author, clock and parent; `Thread` is the walk
  of `room_thread`. A request is taken from the wire and handled in one step, since the order
  in which requests arrive is free. `cut` and `expired` are history variables.
* `RulesChannel` — refreshes of the scanner rules: `Begin` (the state file is read),
  `Fetch`, `Snapshot` (the rules that run are kept as last known good), `Swap`, `Save`
  (the copy read at the beginning is written back); pauses and a pinned key.
* `AppUpdate` — a release is staged (archive, record), and a launch swaps it in with two
  renames and undoes the first when the second fails. The undoing may fail too
  (`RestoreFails`), and `Kill` ends a launch at any step; the history variable `stranded`
  records that one ended between the two renames.
* `WarmIndex` — the index of the kernel beside the store it describes: start from a
  snapshot, appends of what was captured, searches with their reconciliation, expiry.
* `Capture` — a thread per transcript: seed, pass, and for each event the read, extension
  and binding of the map of its day; the position is saved afterwards.
* `DayMap` — that map as a tree: buckets of `BucketSize`, overflowing into nodes, dirty
  nodes, flush and load. `Hamt::set` is a list of calls of `Node::set` (`calls`), one
  action per branch of it: `SetFree`, `SetBelow`, `Overwrite`, `SetInBucket`, `Overflow`.
  The tree is a map from the paths of slots to what they hold; nothing recurses.
* `Outbox` — suggestions written in thirds of a line (part of the text, all of it, the
  newline), and drains that overlap and die at any step: the offset read, the lines read
  (`Whole`: those whose text is whole, with or without the newline), the offset's file
  emptied and written, the suggestions printed. `lost` and `again` are history variables.
* `NodeLoop` — two nodes, `near` that sends and asks and `far` that answers, each with the
  two queues between the event loop and its program and the tables `outbound_dms`,
  `pending`, `inbound_dms`. One action per arm of the loop (`Take`, `Response`,
  `OutboundFailure`, `Deliver`, `Serve`, `AcknowledgeDirect`) and per step of the program
  (`Retry`, `Ask`, `GiveUp`, `HandleDirect`, `HandleDelivered`).
* `HeadSync` — a pull from a peer: heads, the walk along links, adoption; publications and
  writes on both sides. `TimeOut` cuts a pull at any step; `gaps` is a history variable,
  what the cut pulls of a device still waited for.
* `HeadMerge` — heads classified by ancestry, merges, and a collection that trims chains.
* `Membership` — offers, pairings, grants, revocations on the install that holds the root
  key; what verifies is read off the descriptor and the ledger.
* `UserIdentity` — log, active key and recovery key, and the commands that write them one
  after the other.
* `Egress` — locks and clearances under the policy lock; a plan, its review, the approval
  and its execution with or without a grant; other sessions, quarantine and receipts.
* `PrivateGraphs` — an encrypted copy from its cipher blocks to the index entry, rotation,
  death at each step, and a collection of the store.
* `SitePublish` — review, the comparison and the second reading file by file, upload, release
  and receipt, with edits and new credentials at any step and files a listing leaves out.
  A job remembers what was changed between its two readings (`touched`, `moved`). A commit
  follows the tip that was read; `merged` is what the tip of a branch follows.
* `HotPins` — pin and unpin with the list beside the node, and a node that may die. "kill"
  also stands for a list that cannot be written after the node was told.
* `WorkRepair` — the laps of a `/work` job over the writes in memory and the files on disk.
* `GuiHost` — mounts of several stores on a small range of ports: lock read, probe, port
  picked and bound, lock written, shutdown in its two steps, kill.
* `SiteCheckpoints` — a save or publication from the staged page to the manifest, by
  several request threads, with the clock that names the copies.
* `AccessServices` (`UserIdentity`, `Membership`, `Egress`, `PrivateGraphs`), `KernelServices`
  (`WarmIndex`, `Capture`, `DayMap`, `NodeLoop`, `GuiHost`), `UpkeepServices` (`RulesChannel`,
  `AppUpdate`, `Outbox`, `WorkRepair`) and `SharingServices` (`HeadSync`, `HeadMerge`,
  `SitePublish`, `HotPins`, `SiteCheckpoints`) instantiate these components side by side,
  rename what two of them name alike, collect their assumptions, and name the property of
  each. The property a run checks and the one a theorem states are this one definition.
* `MCServices` — the four of them in one instance, one component at a time.
  They share no variable. The first state chooses a component (`focus`); only that one
  moves and the others stay in their initial states, so what is explored is the sum of
  the components' state graphs, each the graph of the component alone.
* `MCContentStore`, `MCSession`, `MCKernelLifecycle`, `MCDirectMessages`, `MCPrivateGraphs`
  — the constants of the other instances.
* `ContentStoreProofs`, `SessionProofs`, `KernelLifecycleProofs`, `DirectMessagesProofs`,
  `AccessUpkeepProofs`, `KernelServicesProofs`, `SharingProofs` — theorems and proofs
  about the components.
* `ServicesProofs` — theorems about `MCServices`: that the composition runs each component
  by its own specification, and so has its properties.

A definition whose comment begins with "A slip" or "Two slips" is the definition
below it with a plausible mistake; properties are tested against these.

## Runs

| Run | Instance | Shows |
|---|---|---|
| `store_serial` | five blocks (three chained checkpoints, a second branch from the oldest, a decision), two names, one request that may write or collect, crash at any step, keep 1 | every death has a receipt, `superseded_by` leads to a later checkpoint, the sweep is safe, `StoreContract` is implemented |
| `store_shared` | two blocks and a link to a third that never was here, one name, two requests that may both write and collect | a pass that met such a hole sweeps nothing, under any interleaving; a mark phase ends |
| `store_lost_bind` | one block, two names, two writers | **violation** of `OneNamePerWrite`: a bind undoes another's |
| `store_sweep_race` | one block, a writer and a collector | **violation** of `SweepIsSafe`: a bound block is removed |
| `session` | keep 1, a checkpoint each turn, one on exit; eight blocks calm, seven with collections during the model call and conversations that cannot be written | calm: named checkpoints can be resumed and the head is whole; in both: the chain follows the history, trimming frees checkpoints only |
| `session_gc_during_call` | eight blocks | **violation** of `NamedCheckpointsResumable`: the prompt is collected during the call |
| `kernel_apart` | two supervisors, three daemons, cold start or a daemon of another version; kills, lockfile and spawn failures | one kernel, which can be found; an upgrade is answered by the new version; a request ends |
| `kernel_race` | two supervisors, a stale socket, a bind between another's probe and removal | **violation** of `AtMostOneKernel` |
| `messages_pair` | two installs, two messages by either, everything that may go wrong, no overlap on an install | the head is the newest message, a linear conversation coheres, `DeliveryContract` is implemented, the outbox empties |
| `messages_crossing` | the same, nothing goes wrong | **violation** of `ThreadsAgree`: messages that cross hide each other |
| `services` | `MCServices`: two callers, devices, sessions or records each, see Bounds | the property of each of the eighteen components, named in the four modules above, and their types |
| `private_collect` | two processes, two sources, with collections of the store | **violation** of `CopiesOpen`: the ciphertext of a copy has no name and is collected |

The violations are behaviours of the code that its comments exclude; `findings` in
`PROJECT.json` quotes both. Other behaviours were seen in instances not kept as
runs:

* two overlapping collectors violate `EveryDeathHasReceipt`: the second rewrites
  the ledger without the receipts of the first;
* in `Session`, `Events = {"unpinned_context"}` violates `NamedCheckpointsResumable`: a
  checkpoint, or a record whose name has moved on, used as context is collected;
  `{"resume_by_cid"}` violates `HeadIsWhole` at nine blocks and
  `NamedCheckpointsResumable` at ten; `{"io_error"}` violates
  `HeadIsWhole` and `NamedCheckpointsResumable`. With `"gc_during_call"`, at eight blocks, a
  resume that fails after it has moved the head (`mem/src/session.rs:1097-1099`) leaves a
  checkpoint of another history as the last one; the next automatic checkpoint joins the two
  histories, and a later trim frees a conversation that could still be read. It was found
  because the proof of `ChainFollowsHistory` as first stated failed: seven blocks hid it.
  That property now speaks of conversations whose context can be read, and
  `TrimFreesOnlyCheckpoints` of sessions in which no resume has failed;
* `Faults` with `"slow_exit"` violates `ServingKernelIsFound` and `UpgradedMeansCurrent`: a
  daemon that takes longer than 3 s, or between whose removal of the socket and of the
  lockfile (`kernel/src/main.rs:159-160`) another binds, removes the lockfile of the other;
* `Overlap = TRUE` with three messages violates `HeadIsNewest`: a post moves the head back
  to its own message while the node accepts a newer one;
* rules: a refresh that ends after a pause or a pinned key undoes it (`PauseHolds` with
  `Overlaps = {"settings"}`); a crash between swap and save lets a replayed epoch lower
  the rules that run (`RulesMoveForward`), as do two refreshes at once;
* program: two launches at once leave no program. A launch that ends between its two
  renames, or whose undoing fails, leaves the program beside its place (`stranded`):
  `core/src/update/app.rs:376` says "never leaves the user with no binary" of a rename whose
  result is dropped;
* index: a first reconciliation that failed leaves an index marked complete; quarantined
  records are still found (`WithheldFromSearch`), though `core/src/retrieval.rs:581-583`
  says they are withheld;
* suggestions: a drain that dies after it saved the offset drops what it held, one that reads
  a line before its text is whole skips it for good, drains that overlap and one that dies
  while the offset's file is empty give suggestions twice. `core/src/outbox.rs:13-16` says
  that a crash never drops or double-delivers; `GivenExactlyOnce` says what is left of that;
* synchronisation: after a pull that was cut, a later one can adopt a head below which a
  block is missing (`HeadsAreWhole` says which: what the cut pull waited for); a publication
  during a pull is overwritten; a merge, being a decision without `parent`, never
  supersedes what it merged; after trimming, an ancestor is no longer recognised;
* identity: a crash between the active key and the log leaves a key that is not the active
  one until a recovery; commands that overlap lose a rotation or a recovery key;
* networks: two revocations at once lose a record of the ledger and a step of the epoch;
* egress: a plan blocked by a quarantine can be published with a grant, though
  `core/src/egress.rs:683-686` says otherwise; the grants of one session purge another's;
  once something has a receipt its fence does not return;
* capture: passes that overlap lose entries of a day; a transcript that was never saved is
  seeded anew at its end after a restart;
* publishing: edits or new credentials between the check and the second reading put on
  line what nobody reviewed, and IPFS takes files a listing leaves out: these and nothing
  else are what `SitesAsReviewed` allows; a failure after the release leaves a site without a receipt;
* work: a command run by the worker changes files the record does not follow;
* hot pins: pinning a private record again encrypts it anew, and the old ciphertext stays
  pinned and unlisted; unpinning while the node is down removes the entry and not the pin,
  though `core/src/binding/pinning.rs:363-365` says it is no longer served; a kill between
  the node and the list, or a list that cannot be written there (`pinning.rs:380`), leaves
  an entry that is not pinned;
* GUI: after a kill the port of a stale lock may be that of another store's GUI, which is
  then reused, since the probe asks only whether a Data Platter answers
  (`gui/src/server.rs:709-711` says a stale lock never matches); two mounts at once serve a
  store twice, and the first to stop removes the lock of the other;
* Studio: two saves of one site at once, or an edit before the page is read back, list a
  page under another's CID.

### Bounds

* Blocks. Trimming needs a chain one longer than `Keep`, and supersession along
  two trimmed checkpoints one more: three checkpoints with `Keep = 1`. A second branch from
  the oldest can be named while the chain is trimmed above it, and a decision is a root
  without a name. With two requests
  the graph is reduced to a checkpoint and what it links to, since what matters is
  which access comes between which.
* Requests. Two: each of the races needs one other actor.
* `MaxBlocks`. A turn, its conversation and its checkpoint are three blocks; with the
  memory of the initial state the eight of the calm session are two turns with checkpoints and one more
  put, enough for a trimmed checkpoint, a resume of it and a turn after that.
* Daemons. Three: the old one, its replacement, and one more after a kill. A supervisor
  that would need a fourth stops in the model, so `RequestEnds` is stated for
  behaviours that have one left, and deadlock is not checked there. With a third
  supervisor and a fourth daemon, a stale SIGTERM can also reach a kernel whose
  replacement is starting; that case lies outside these instances, and within what
  `OneKernel`, `KernelIsFound` and `UpgradeHolds` prove.
* Messages. Two, by either install: the properties relate a message to the head, to
  its parent or to one that crosses it. One copy of a request in flight: it is sent
  again after delivery and before the acknowledgement, so duplicates occur. The safety
  properties were also checked once with three messages (2,183,930 states up to a
  permutation), and the theorems hold for any number.

* Services. Two of whoever acts in each (callers, devices, processes, transcripts, sessions):
  the races are between two. `Overlaps`, `Races` and `Faults` hold what the property survives,
  usually a death at any step; the interleavings that break it are listed above. Outbox,
  synchronised heads and sites exclude nothing of this kind, but for a publication during a
  pull, which multiplies the states (1.55 million for `HeadSync` alone, without an error) and
  is left to the theorem. Counters run to two or three: three epochs (the newest, the one it
  replaces, an older one replayed), six keys (two for each command and a recovery), two lines
  and two transcripts, four blocks of a merged history, three laps of a job, two findings of an
  audit (`MaxFindings`), three encrypted trees, two copies made for pins. A folder has three
  files, one of them left out by listings. One plan is shown in a behaviour, for one of two
  hosts (one a branch) or IPFS, and published as often as its token allows: what the property
  says of an upload concerns its own plan, and `SitesHold` covers any number of them. Suggestions are two, of three parts each. In `DayMap`, with
  buckets of two (three in the code), four keys that share a slot make it overflow and three
  of them overflow again below. In `NodeLoop` a table of one place, two messages and one
  question make a delivery be refused, fail, be repeated and be answered after a restart
  within three requests. In `GuiHost` three mounts of two stores on two ports let a port pass
  from one store to the other and let a mount find none free. In `SiteCheckpoints` two seconds
  and a list of one entry make names collide and the list be cut.

### Fairness

`ContentStore!FairSpec` assumes that a collector which has begun keeps taking steps:
`collect` is a loop without waits. `KernelLifecycle!FairSpec` assumes that each daemon
that can take a step takes one and that each supervisor does: they are processes that
block on no lock of another, and every wait in them is bounded by time. Starting a
request, writing, crashing and failing are never assumed to happen. A wait with a
time limit ends when its condition holds or when the other side can do nothing more
within the limit; `slow_start` and `slow_exit` end it at any time.

`DirectMessages!FairSpec` assumes that a post or an acceptance that has begun goes on, that
the retry timer ticks (weak fairness), and that a message sent again and again is
handled in the end, and an acknowledgement sent again and again received (strong
fairness: two installs that are never online together deliver nothing). Posting,
losing, failing, deleting and crashing are never assumed.

## Proofs

The theorems hold for every value of the constants under their named assumptions
(`StoreAssumption`, `SessionAssumption`, …), which TLC evaluates on the instances.
They give the constants their types and say what the code fixes: that `index.html` is never
left out of a listing and that a generated page is a page, that bounds are numbers.
Where a theorem assumes more, the assumption excludes what one of the violation runs or
one of the other behaviours above shows to break the property; it is given in the
table, and "none" means that every event and interleaving of the module is allowed.

| Theorem | Property | Assumes | What makes it inductive |
|---|---|---|---|
| **`ContentStoreProofs`** | | | |
| `TypeCorrect` | `TypeOK` | none | |
| `HolesStop` | `HolesStopAPass` | none | `HonestInv`: a ledger is written from a copy and from an earlier listing, so each collector's copy holds receipts of stored blocks only; with it, what a mark has followed is kept, listed, cut or was once stored |
| `SupersededSoundly` | `SupersededByDescendant` | none | `ClimbInv`: file and copies name descendants only, and what a collector has trimmed descends to the tip it saw |
| `ReceiptsComplete` | `EveryDeathHasReceipt` | one collector | `ReceiptInv`: its copy agrees with the file between scan and write, and what it is about to remove has its receipt |
| `SweepSafe` | the sweep spares `Reached`; and `SweepIsSafe` where kept blocks lead into the trimmed tail by parent pointers only | one request | `PassInv`: roots are marked or listed, the links of marked blocks marked, listed or cut; at the sweep the marks are closed and so contain the least closed set |
| `ContractKept` | `KeepsContract` | one request; checkpoints are linked to by parent pointers only | `TipInv`: the newest checkpoints are marked; see below |
| `PassesMoveOn` | `PassesMove`, the variant behind `PassEnds` | none | `UnmarkedWork`: what waits to be marked is not marked, so that a popped block is marked for the first time |
| **`SessionProofs`** | | | |
| `SessionTypeCorrect` | `TypeOK` | none | `SessionInv`: each kind of block has its fields and links back |
| `ChainKept` | `ChainFollowsHistory` | none | `ChainInv`, with: the history of a conversation never changes |
| `TrimKeepsHistory` | `TrimFreesOnlyCheckpoints` | none | `LineInv` (a checkpoint snapshots what continues its parent's conversation) and `SegmentInv` (between the two no conversation is missing, if both are there) |
| `CalmSessionsAreSound` | `SoundWhenCalm` | none | `SavedInv`, `CalmInv`: what names save is on the disk, the head is in it, what is loaded has a name |
| **`KernelLifecycleProofs`** | | | |
| `LifecycleTypeCorrect` | `TypeOK` | none | |
| `OneKernel` | `AtMostOneKernel` | no `takeover` | `PathInv`: the path leads to whoever listens and has not removed it, and nothing listens while a daemon is about to remove a stale path |
| `KernelIsFound` | `ServingKernelIsFound` | no `takeover`, no `slow_exit` | `LockInv`: the lockfile names who listens, and who is about to remove it is alone |
| `UpgradeHolds` | `UpgradedMeansCurrent` | as above | `UpgradeInv`: a kernel of another version serves or has left for good, and a supervisor that upgrades has signalled it, then seen it gone |
| **`DirectMessagesProofs`** | | | |
| `MessagesTypeCorrect` | `TypeOK` | none | |
| `DeliveryKept` | `KeepsDeliveryContract` | none | `Unsent`: a message between its storing and its queueing is nowhere else |
| `HeadKeptNewest` | `HeadIsNewest` | `~ Overlap` | `HeadInv`: a post answers the head as it is, an acceptance about to move the head holds a message not older, and a head is ahead of all that is stored but for what is half way |
| `LinearThreadsCohere` | `LinearThreadsAgree` | `~ Overlap` | `HeadInv`; where nothing crossed clocks differ, and a thread that reaches the head shows a message of every smaller clock |
| **`AccessUpkeepProofs`** | | | |
| `MembershipTypeCorrect` | types | none | |
| `OneGrantPerOffer` | `OfferGivesOnce` | none | who is past the look-up of an offer holds the policy lock |
| `RevocationHolds` | `RevokedStaysOut` | revocations take turns | the ledger being written contains the one on disk |
| `IdentityHolds` | `IdentityRecoverable` | commands take turns | what is about to be written was verified when drafted |
| `FenceHolds` | `FencedLeavesByGrant` | none | who carries out a plan holds the policy lock, under which what the plan was checked against changes |
| `PrivateCopiesOpen` | `CopiesOpen` | none, in a store nobody collects | a conversion is alone, and blocks, key and entry follow one another |
| `LogOnlyGrows` | what is written to the log begins with what was there | commands take turns | `DraftsFollow`: a draft begins with the log on disk |
| `RevocationsAdd` | records and epoch only advance | revocations take turns | `EpochsFollow`: the epoch a revocation is about to write is one more than the recorded one |
| `RulesStayVerified` | `LiveRulesVerified` | refreshes take turns, settings change between them | what a refresh carries was accepted against the state as it still is |
| `ProgramStays` | `ProgramIsThere` | launches take turns | what is recorded is whole, and one of the two places holds a program, whatever fails or is killed |
| `DrainGivesOnce` | `GivenExactlyOnce` | none | `OutboxInv`: what begins before an offset, saved or about to be, is given, lost or held by a drain; while drains take turns, what lies past it is neither |
| `JobsProduce` | `ProducedIsThere` | paths are places; no command changes files | a write in memory that is recorded is on disk |
| `PauseIsKept` | `RulesChannel!PauseHolds` | as `RulesStayVerified` | the state a refresh writes back is the state still |
| `RulesGoForward` | `RulesChannel!RulesMoveForward`, `LastKnownGoodIsOlder` | refreshes take turns and are not cut short | `LevelInv`: what runs, what is recorded and what is staged are level in each step of a refresh |
| **`KernelServicesProofs`** | | | |
| `SearchesCover` | `SearchFindsTheStore` | the first reconciliation does not fail | what an index called complete lacks waits to be told or was never told |
| `StoresServedOnce` | `OneHostFound` | mounts of a store take turns and may reuse | between lock and bind a mount is alone, and a host is in the lock and on its port |
| `LinesAreRecorded` | `NothingSkipped` | passes take turns | the position trails what is bound, and the map a pass holds is the one stored |
| `DayGrows` | the events of a day only grow | passes take turns | as above |
| `SameEntries` | `SameEntriesSameRoot` | none | `Shape`: a slot holds a sorted bucket of keys on its path or is crowded, with nodes above it, and what is in no bucket is still to be set |
| `OneRoot` | | none | a sorted bucket is determined by its entries (`OneOrder`) |
| `LoopAccounts` | `DeliveriesAccounted` | none | ids are fresh, so whatever still names the request of an open delivery or question is about that one |
| **`SharingProofs`** | | | |
| `AdoptedHeadsAreWhole` | `HeadsAreWhole` | none | what blocks lack is in the queue of a pull or in the gaps of one that was cut |
| `SyncKeepsHeads` | `HeadSync!HeadsAreKept` | no publication during a pull | what will be adopted holds the heads |
| `NoBranchIsLost` | `BranchesKept` | none | blocks are made in order, so that a history is settled when its block is made |
| `HotListHolds` | `ListedIsPinned` | calls take turns and are not killed | the list is behind the node but for the call in progress |
| `SitesHold` | `SitesAsReviewed` | none | `SiteInv`: what was compared and not edited since is as reviewed, what was read again is what it was then, and the commit follows all that its base held |
| `CheckpointsOpen` | `ListedOpens` | saves of one site take turns, no edit before the page is read back | what is about to be listed is the copy under that identifier |
| **`ServicesProofs`** | | | |
| `ServicesTypeCorrect` | `MCServices!TypeOK` | none | eighteen lemmas (`HeadsType`, `OutboxType`, …), one per component, each with no assumption |
| `ComponentsRun` | `MCServices!Spec` implies the specification of each component | none | the chosen component takes its own step, every other one stutters |
| `ServicesHold` | the nineteen safety properties of the run `services`, together | those of the components | `ComponentsRun` and the theorems of the components |

### What holds without the assumptions

The interleavings and failures that an assumption of the table excludes break one
property; they do not break everything. These theorems assume nothing beyond the named
assumptions on constants, and say what is left when callers overlap and processes die:

| Theorem | Whatever overlaps, fails or dies |
|---|---|
| `LogAlwaysVerifies` | the identity log on disk verifies; what a crash or an overlap costs is the recovery key or a rotation, never the log |
| `KeysAreKept` | with collections too, the key of every copy in the private index is in the vault and no key is ever lost; `private_collect` loses the ciphertext |
| `RulesAlwaysSound` | the rules that run, and those kept to roll back to, compile, hash to what was signed, and were signed by a key a user trusted; what refreshes that overlap can cost is the order of epochs and the settings |
| `RecordedWasAudited` | what a work job records was in want of nothing when it was recorded |
| `JobsEnd` | a job has at most `MaxLaps` laps, and each of its steps begins the next lap or brings the lap nearer to its end |
| `RecordedWasWritten` | what is captured is a line of a transcript, and positions stay within it |
| `HotListIsTidy` | the list of what is kept hot has a record once, with a ciphertext of its own; what can be wrong is that one is not pinned |
| `CheckpointsStay` | the file of a checkpoint is never written over, and every file a list names is there and filled; what can be wrong is which page it shows |
| `PassesMoveOn`, `HolesStop`, `SupersededSoundly` | as in the table, for the store |
| `DrainGivesOnce`, `AdoptedHeadsAreWhole`, `SitesHold` | as in the table: their properties say what is lost when drains overlap, pulls are cut and folders change |

Five arguments are worth knowing.

*Without induction over data.* Reachability, histories and what lies below a head are
defined as least closed sets, so that a proof exhibits a closed set instead of an
induction on paths. Where a definition is a recursive function (the chain of checkpoints,
`Reach` of `Session`) the proof takes the least number at which a claim about it fails,
which well-foundedness of `<` gives (`LeastNumber`, `LinksBack`).

*`ContractKept`.* A sweep removes one block at a time and the chain on the disk shrinks
with it. `StoreContract` first decided anew at every removal which checkpoints are the
tail. The proof did not go through, and TLC found the reason: of three chained checkpoints
with a second branch that names the oldest, removing the middle one puts the oldest
outside the tail of what is left. Retention decides once, so the contract now has `tail`.
The refinement then needs that the newest checkpoints stay the newest while the tail goes:
the chain on a disk that holds less is the beginning of the chain on the disk that holds
more (`TrailsOn`, `TipStays`).

*`TrimKeepsHistory`.* The obvious invariant, that whatever has a name is whole, fails when
a session resumes a checkpoint by CID that nothing names and a collection comes before the
next turn. What does survive is weaker: a history may end early, but between two
checkpoints that are present, with their conversations, it has no gap. A trimmed
conversation that is there is therefore reached from the one that is kept, and the last
link on that way leads to it (`LinkBack`).

*`SameEntries`.* That insertion order does not matter is not proved by comparing two orders
but by saying which tree the entries determine (`IsCanonical`): a slot is a child node
exactly when more than `BucketSize` keys share its path. While an overflow is under way
the keys of the bucket are in the list of calls and in no bucket; the node is crowded
already, by keys that are yet to come back. That a node is crowded never changes, as keys
are only added; that a bucket is not follows from its length once nothing is left to set.
That a child always has a next part of the digest is a consequence too: two keys that
share a whole digest would be one.

*`RulesGoForward`.* The swap of the rules comes before the save of the state, so that within
a refresh the epoch recorded lags behind the rules. The invariant names which of the two is
ahead in each step. A refresh that dies in between leaves them so, and the next one may then
accept an older epoch than the rules that run: that is why cuts are excluded.

Model-checked only: `PassEnds`, `RequestEnds` and `OutboxDrains`, which are liveness under
fairness. `PassesMoveOn` proves the safety half of the first: the loops of a pass have a
variant that every step of it moves and no other request undoes. Of the services, `JobsEnd`
is the same for the laps of a job.

## Not modelled, and the plan

Next: wider models of the parts that are only partly covered: `core/src/deploy.rs`,
`gui/src/mutations.rs`, `gui/src/canvas.rs`, `mem/src/audit.rs`.

Not modelled, and why:

* retrieval, ranking, synthesis (`core/src/retrieval.rs`, `brain.rs`, `compiler.rs`): numeric
  and heuristic, no protocol;
* transcript formats, rendering, configuration, HTTP to models and hosts: parsing and
  formatting, and the answers of others;
* cryptographic primitives: taken as sound; a signature is its signer, a cipher its key;
* the libp2p swarm, discovery, relays, gossip and the peer map (`kernel/src/node.rs:356`): the
  swarm is third-party code and its effects are the environment of `NodeLoop`; the map is a
  cache with one bound;
* rooms of more than two installs, policies and mutes: `DirectMessages` is the room of two;
* the parser of `/ingest` and folder imports: one request of `ContentStore` that puts and
  binds;
* the signalling relay and the editor of the canvas, the OAuth flow of connectors, the MCP
  tools: requests with one table each and no step that another reads half done;
* the rollback of the scanner rules (`core/src/update/rules.rs:364`): nothing but a test calls it;
* processes that emit suggestions at once, interleaved within a line, or die within one:
  `Outbox` has one writer that ends its lines;
* torn writes of single files (`core/src/binding.rs:890` writes a block in place): blocks and
  files are whole or absent in every module;
* the public IPFS node, naming and pinning services: single calls of external services;
* the Python adapters, installers and packaging.
