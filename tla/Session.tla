------------------------------ MODULE Session ------------------------------
(***************************************************************************)
(* A chat session of the mem crate (mem/src/session.rs) over a store that  *)
(* another process garbage-collects (mem/src/gc.rs).                       *)
(*                                                                         *)
(* Chatting is writing to memory: a turn puts a prompt, calls the model,   *)
(* puts what came back, puts a new Conversation whose parent is the last   *)
(* one, and binds "conversation" to it. Every few turns a Checkpoint of    *)
(* the conversation is put, its parent the checkpoint before, and "latest" *)
(* bound to it. A session is restored from a checkpoint by reading the     *)
(* conversation, its turns, and every record a prompt used as context.     *)
(*                                                                         *)
(* Automatic checkpoints are on (checkpoint.auto, the default). A          *)
(* collection is one step here; ContentStore has its own steps.            *)
(***************************************************************************)
EXTENDS Integers, Sequences, FiniteSets

CONSTANTS
  Keep,         \* checkpoint.keep_checkpoints
  EveryTurns,   \* checkpoint.every_turns
  OnExit,       \* checkpoint.on_exit
  MaxBlocks,    \* bound: how many blocks a behaviour may put, and one more
                \*   if nothing fails in it
  Events        \* which of the events below may happen, if any may

\* gc_during_call   a collection while the model is being called
\* unpinned_context what is loaded may be a checkpoint, may have no name, and
\*                  may lose its name while the session is open
\* resume_by_cid    /resume of a checkpoint that has no name
\* io_error         the conversation of a turn cannot be written or bound
AllEvents == {"gc_during_call", "unpinned_context", "resume_by_cid",
              "io_error"}

ASSUME SessionAssumption ==
  /\ Keep \in Nat /\ EveryTurns \in Nat /\ MaxBlocks \in Nat \ {0}
  /\ OnExit \in BOOLEAN
  /\ Events \subseteq AllEvents

VARIABLES
  log,          \* every block ever put, in order; a block's CID is its index
  disk,         \* the blocks present; GC left a tombstone for all the others
  names,        \* the name index file; 0 is unbound
  view,         \* the session's copy of the index, read when it began
  phase,        \* off, ready, asked (model call), recorded (turn written)
  turns,        \* Session.turns
  head,         \* Session.head, or 0
  loaded,       \* Session.loaded
  since,        \* Session.turns_since_checkpoint
  last,         \* Session.last_checkpoint, or 0
  faults,       \* the events that may happen in this behaviour: all or none
  strayed       \* history: a resume has failed after it moved the head

session == <<view, phase, turns, head, loaded, since, last>>
vars == <<log, disk, names, session, faults, strayed>>

Name == {"note", "conversation", "latest", "milestone"}
Unbound == [n \in Name |-> 0]
Cid == DOMAIN log

----------------------------------------------------------------------------
(* Blocks. A turn stands for a prompt with its tool result and response.   *)

MemoryNode == [kind |-> "memory"]
TurnNode(context) == [kind |-> "turn", context |-> context]
ConversationNode(ts, parent) == [kind |-> "conversation", turns |-> ts,
                             parent |-> parent]
CheckpointNode(root, parent) == [kind |-> "checkpoint", root |-> root,
                             parent |-> parent]

Elements(seq) == {seq[i] : i \in DOMAIN seq}
IsCheckpoint(b) == log[b].kind = "checkpoint"

\* dag::block_links: every link of a block, structural or associative.
BlockLinks(b) ==
  LET r == log[b]
  IN  (CASE r.kind = "memory"       -> {}
         [] r.kind = "turn"         -> r.context
         [] r.kind = "conversation" -> Elements(r.turns) \cup {r.parent}
         [] r.kind = "checkpoint"   -> {r.root, r.parent}) \ {0}

Graph == INSTANCE BlockGraph WITH
  NoCid <- 0,
  Latest <- "latest",
  Links <- [b \in Cid |-> BlockLinks(b)],
  Parent <- [b \in Cid |-> IF IsCheckpoint(b) THEN log[b].parent ELSE 0],
  Checkpoint <- {b \in Cid : IsCheckpoint(b)},
  Decision <- {}

\* What can be reached from some blocks over present ones, never into cut.
\* A block links to earlier ones only.
Reach(roots, cut) ==
  LET reached[b \in Cid] ==
        /\ b \in disk \ cut
        /\ \/ b \in roots
           \/ \E a \in (b + 1)..Len(log) : b \in BlockLinks(a) /\ reached[a]
  IN  {b \in Cid : reached[b]}

Conversations == {b \in Cid : log[b].kind = "conversation"}

\* S holds convo and, with a conversation, the one it continues.
Continues(convo, S) ==
  \A c \in {convo} \cup {log[d].parent : d \in S} : c # 0 => c \in S

\* The conversations a conversation continues, itself included.
History(convo) ==
  {c \in Conversations :
     \A S \in SUBSET Conversations : Continues(convo, S) => c \in S}

----------------------------------------------------------------------------
Init ==
  /\ log = <<MemoryNode>>
  /\ disk = {1}
  /\ names = [n \in Name |-> IF n = "note" THEN 1 ELSE 0]
  /\ view = Unbound
  /\ phase = "off"
  /\ turns = <<>> /\ head = 0 /\ loaded = {} /\ since = 0 /\ last = 0
  /\ faults \in {{}, Events}
  /\ strayed = FALSE

\* open_store and Session::new.
Start ==
  /\ phase = "off"
  /\ phase' = "ready"
  /\ view' = names
  /\ UNCHANGED <<log, disk, names, turns, head, loaded, since, last>>

\* The process has ended and its session with it.
Off ==
  /\ phase' = "off"
  /\ view' = Unbound
  /\ turns' = <<>> /\ head' = 0 /\ loaded' = {} /\ since' = 0 /\ last' = 0

Room(n) == Len(log) + n <= MaxBlocks + (IF faults = {} THEN 1 ELSE 0)

\* Store::put_node of the given blocks, in order.
PutAll(blocks) ==
  /\ Room(Len(blocks))
  /\ log' = log \o blocks
  /\ disk' = disk \cup (Len(log) + 1)..(Len(log) + Len(blocks))

\* NameIndex::bind by the session: the file becomes the session's copy with
\* one entry changed.
Bind(n, b) ==
  /\ view' = [view EXCEPT ![n] = b]
  /\ names' = view'

Named(b) == \E n \in Name : view[n] = b

\* load: recall a record by name or CID into the session's context. The
\* memory stands for every record that is not a checkpoint.
Load(b) ==
  /\ phase = "ready"
  /\ b \in disk
  /\ IsCheckpoint(b) \/ ~Named(b) => "unpinned_context" \in faults
  /\ log[b].kind \in {"memory", "checkpoint"}
  /\ loaded' = loaded \cup {b}
  /\ UNCHANGED <<log, disk, names, view, phase, turns, head, since, last>>

\* Another program records a newer memory under the name "note".
RebindNote ==
  /\ phase = "off" \/ "unpinned_context" \in faults
  /\ PutAll(<<MemoryNode>>)
  /\ names' = [names EXCEPT !["note"] = Len(log')]
  /\ UNCHANGED session

\* turn_streaming up to the model call: the prompt is put, with an edge to
\* every loaded record.
Ask ==
  /\ phase = "ready"
  /\ PutAll(<<TurnNode(loaded)>>)
  /\ phase' = "asked"
  /\ UNCHANGED <<names, view, turns, head, loaded, since, last>>

\* The prompt of the call in progress is the last one put.
Asked == CHOOSE b \in Cid : /\ log[b].kind = "turn"
                             /\ \A c \in Cid : c > b => log[c].kind # "turn"

\* Slips: the conversation is not bound; it does not link to the last one.
RecordUnbound ==
  /\ phase = "asked"
  /\ turns' = Append(turns, Asked)
  /\ PutAll(<<ConversationNode(turns', head)>>)
  /\ head' = Len(log')
  /\ phase' = "recorded"
  /\ UNCHANGED <<names, view, loaded, since, last>>
RecordUnchained ==
  /\ phase = "asked"
  /\ turns' = Append(turns, Asked)
  /\ PutAll(<<ConversationNode(turns', 0)>>)
  /\ Bind("conversation", Len(log'))
  /\ head' = Len(log')
  /\ phase' = "recorded"
  /\ UNCHANGED <<loaded, since, last>>

\* The rest of the turn, the model's answer or its error recorded: the
\* conversation is put and bound, and becomes the head.
Record ==
  /\ phase = "asked"
  /\ turns' = Append(turns, Asked)
  /\ PutAll(<<ConversationNode(turns', head)>>)
  /\ Bind("conversation", Len(log'))
  /\ head' = Len(log')
  /\ phase' = "recorded"
  /\ UNCHANGED <<loaded, since, last>>

\* The conversation cannot be put: the turn list has grown, the head has not moved.
RecordFails ==
  /\ "io_error" \in faults
  /\ phase = "asked"
  /\ turns' = Append(turns, Asked)
  /\ phase' = "ready"
  /\ UNCHANGED <<log, disk, names, view, head, loaded, since, last>>

\* write_auto_checkpoint: chained to the previous one, bound to "latest".
PutSnapshot ==
  /\ PutAll(<<CheckpointNode(head, last)>>)
  /\ names' = [view EXCEPT !["latest"] = Len(log')]

\* maybe_checkpoint, on the configured cadence.
MaybeCheckpoint ==
  /\ phase = "recorded"
  /\ phase' = "ready"
  /\ IF since + 1 >= EveryTurns
       THEN PutSnapshot /\ view' = names' /\ last' = Len(log') /\ since' = 0
       ELSE since' = since + 1 /\ UNCHANGED <<log, disk, names, view, last>>
  /\ UNCHANGED <<turns, head, loaded>>

\* /checkpoint: a labelled snapshot outside the chain, bound to a given name.
ManualCheckpoint(n) ==
  /\ phase = "ready"
  /\ head # 0
  /\ PutAll(<<CheckpointNode(head, 0)>>)
  /\ Bind(n, Len(log'))
  /\ UNCHANGED <<phase, turns, head, loaded, since, last>>

\* load_context_from_turns reads every turn and every context of a prompt.
Context(ts) == UNION {log[t].context : t \in Elements(ts)}
ContextReadable(ts) ==
  /\ Elements(ts) \subseteq disk
  /\ Context(ts) \subseteq disk

\* The checkpoint and the conversation it snapshots can be read.
RootReadable(b) == b \in disk /\ log[b].root \in disk

ResumeTarget(b) ==
  /\ b \in Cid /\ IsCheckpoint(b) /\ RootReadable(b)
  /\ ~Named(b) => "resume_by_cid" \in faults

\* A slip: last_checkpoint keeps its value.
ResumeOffChain(b) ==
  /\ phase = "ready"
  /\ ResumeTarget(b)
  /\ head' = log[b].root
  /\ turns' = log[head'].turns
  /\ ContextReadable(turns')
  /\ loaded' = Context(turns')
  /\ since' = 0
  /\ UNCHANGED <<log, disk, names, view, phase, last>>

\* resume_from_checkpoint, by name or CID.
Resume(b) ==
  /\ phase = "ready"
  /\ ResumeTarget(b)
  /\ head' = log[b].root
  /\ turns' = log[head'].turns
  /\ ContextReadable(turns')
  /\ loaded' = Context(turns')
  /\ last' = b
  /\ since' = 0
  /\ UNCHANGED <<log, disk, names, view, phase>>

\* The context cannot be read: turns and head are assigned by then, the rest
\* of the session is not.
ResumeFails(b) ==
  /\ phase = "ready"
  /\ ResumeTarget(b)
  /\ head' = log[b].root
  /\ turns' = log[head'].turns
  /\ ~ContextReadable(turns')
  /\ UNCHANGED <<log, disk, names, view, phase, loaded, last, since>>

\* checkpoint_on_exit, then the process ends.
Exit ==
  /\ phase = "ready"
  /\ IF OnExit /\ since > 0 /\ head # 0
       THEN PutSnapshot
       ELSE UNCHANGED <<log, disk, names>>
  /\ Off

\* The process is killed.
Crash ==
  /\ phase # "off"
  /\ Off
  /\ UNCHANGED <<log, disk, names>>

\* gc::collect by another process.
Collect ==
  LET cut == Graph!Trimmed(names, disk)
      kept == Reach(Elements([n \in Name |-> names[n]])
                      \cup Graph!Tip(names, disk), cut)
  IN  /\ phase = "asked" => "gc_during_call" \in faults
      /\ kept # disk
      /\ disk' = kept
      /\ UNCHANGED <<log, names, session>>

Step ==
  \/ Start \/ Ask \/ Record \/ RecordFails \/ MaybeCheckpoint
  \/ Exit \/ Crash \/ RebindNote \/ Collect
  \/ \E b \in Cid : Load(b) \/ Resume(b)
  \/ \E n \in {"latest", "milestone"} : ManualCheckpoint(n)

Next ==
  /\ \/ Step /\ UNCHANGED strayed
     \/ (\E b \in Cid : ResumeFails(b)) /\ strayed' = TRUE
  /\ UNCHANGED faults

Spec == Init /\ [][Next]_vars

----------------------------------------------------------------------------
Ids == 0..Len(log)

\* Type invariant: every block links to earlier blocks only, so the graph has no cycle, and the
\* session refers to blocks that exist.
TypeOK ==
  /\ \A b \in Cid :
       /\ log[b].kind \in {"memory", "turn", "conversation", "checkpoint"}
       /\ \A l \in BlockLinks(b) : l < b
  /\ disk \subseteq Cid
  /\ names \in [Name -> Ids] /\ view \in [Name -> Ids]
  /\ phase \in {"off", "ready", "asked", "recorded"}
  /\ turns \in Seq(Cid)
  /\ head \in Ids /\ last \in Ids
  /\ loaded \subseteq Cid
  /\ since \in Nat
  /\ faults \subseteq Events
  /\ strayed \in BOOLEAN

Resumable(b) ==
  /\ RootReadable(b)
  /\ ContextReadable(log[log[b].root].turns)

\* A session can be restored from every checkpoint that has a name:
\* retention keeps it whole, "so a resume from the kept tip still sees full
\* history" (mem/src/gc.rs:324-326).
NamedCheckpointsResumable ==
  \A n \in Name : names[n] # 0 /\ IsCheckpoint(names[n]) => Resumable(names[n])

\* Trimming a checkpoint frees the checkpoint only: the conversation it is a
\* snapshot of stays (mem/src/gc.rs:10-13). After a resume that failed the
\* chain joins two histories, and trimming loses one of them.
TrimFreesOnlyCheckpoints ==
  [][Collect /\ ~strayed =>
       \A b \in Graph!Trimmed(names, disk) :
         log[b].root \in disk => log[b].root \in disk']_vars

\* The next automatic checkpoint continues the previous one: the session's
\* head is a continuation of the conversation that was last snapshotted. Only
\* a resume that fails moves the head alone, and leaves turns behind that
\* cannot be read.
ChainFollowsHistory ==
  phase # "off" /\ last # 0 /\ ContextReadable(turns)
    => log[last].root \in History(head)

\* A conversation on disk that is bound or being continued lacks no turn and
\* no earlier part.
HeadIsWhole ==
  \A c \in {names["conversation"]} \cup (IF phase = "off" THEN {} ELSE {head}) :
    c # 0 /\ c \in disk =>
      \A h \in History(c) : h \in disk /\ Elements(log[h].turns) \subseteq disk

\* As long as nothing fails and no collection comes while the model answers,
\* a session can be restored from every checkpoint that has a name, and a
\* conversation that is bound or continued lacks no turn.
SoundWhenCalm == faults = {} => NamedCheckpointsResumable /\ HeadIsWhole
============================================================================
