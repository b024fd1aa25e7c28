------------------------------- MODULE Outbox -------------------------------
(***************************************************************************)
(* The outbox of the node (core/src/outbox.rs): a file of lines to which   *)
(* the node appends its suggestions and which a harness drains by running  *)
(* the CLI; a second file holds how far it has been drained. Nothing is    *)
(* locked: drains overlap, read a line that is being written, and may die  *)
(* at any step.                                                            *)
(*                                                                         *)
(* Lengths and offsets count thirds of a line: suggestion i begins at      *)
(* 3i - 3, at 3i - 2 a part of its text is written, at 3i - 1 all of it,   *)
(* and at 3i its newline.                                                  *)
(***************************************************************************)
EXTENDS Integers, FiniteSets

CONSTANTS
  Drain,        \* the processes that may drain the outbox
  MaxEntries    \* bound: how many suggestions are emitted

VARIABLES
  length,       \* how much of outbox.jsonl has been written
  offset,       \* outbox.offset; an empty file counts as 0
  pc,           \* where each drain stands
  end,          \* the offset each drain has read, then how far it has read
  read,         \* the suggestions each drain has read and not given out
  given,        \* history: how often each suggestion was given to a harness,
                \* 2 for more than once
  lost,         \* history: what a drain that died after saving the offset
                \* still held, and what was read half-written
  again         \* history: two drains were under way at once, or one left
                \* outbox.offset empty

files == <<length, offset>>
history == <<given, lost, again>>
vars == <<files, pc, end, read, history>>

Entry == 1..MaxEntries
Size == 0..3 * MaxEntries
Quiet == \A d \in Drain : pc[d] = "idle"

Init ==
  /\ length = 0 /\ offset = 0
  /\ pc = [d \in Drain |-> "idle"]
  /\ end = [d \in Drain |-> 0]
  /\ read = [d \in Drain |-> {}]
  /\ given = [e \in Entry |-> 0] /\ lost = {} /\ again = FALSE

TypeOK ==
  /\ length \in Size /\ offset \in Size
  /\ pc \in [Drain -> {"idle", "open", "save", "write", "give"}]
  /\ end \in [Drain -> Size] /\ read \in [Drain -> SUBSET Entry]
  /\ given \in [Entry -> 0..2] /\ lost \in SUBSET Entry /\ again \in BOOLEAN

\* The line of suggestion e begins before this place.
Begun(e, at) == 3 * e - 2 <= at

\* The lines that begin at or after an offset and whose text is whole, with
\* or without the newline; what is left of a line, at either end, cannot be
\* parsed and is skipped.
Whole(from, to) == {e \in Entry : from <= 3 * e - 3 /\ 3 * e - 1 <= to}

\* The suggestion whose text ends after this place.
Torn(at) == {e \in Entry : at = 3 * e - 2}

\* emit_context_suggested, in the writes a drain may come between.
Emit ==
  /\ length < 3 * MaxEntries
  /\ length' = length + 1
  /\ UNCHANGED <<offset, pc, end, read, history>>

\* outbox_drain: the offset is read.
Open(d) ==
  /\ pc[d] = "idle"
  /\ pc' = [pc EXCEPT ![d] = "open"]
  /\ end' = [end EXCEPT ![d] = offset]
  /\ again' = (again \/ ~Quiet)
  /\ UNCHANGED <<files, read, given, lost>>

\* outbox_drain: the pending lines are read, up to the end of the file.
Read(d) ==
  /\ pc[d] = "open"
  /\ pc' = [pc EXCEPT ![d] = IF end[d] = length THEN "give" ELSE "save"]
  /\ read' = [read EXCEPT ![d] = Whole(end[d], length)]
  /\ end' = [end EXCEPT ![d] = length]
  /\ UNCHANGED <<files, history>>

\* outbox_drain: the file of the offset is opened, which empties it.
Truncate(d) ==
  /\ pc[d] = "save"
  /\ pc' = [pc EXCEPT ![d] = "write"]
  /\ offset' = 0
  /\ UNCHANGED <<length, end, read, history>>

\* A slip: the offset saved is that of the end of the file as it is by now.
SaveEnd(d) ==
  /\ pc[d] = "write"
  /\ pc' = [pc EXCEPT ![d] = "give"]
  /\ offset' = length
  /\ lost' = lost \cup Torn(length)
  /\ UNCHANGED <<length, end, read, given, again>>

\* outbox_drain: the offset is saved.
SaveOffset(d) ==
  /\ pc[d] = "write"
  /\ pc' = [pc EXCEPT ![d] = "give"]
  /\ offset' = end[d]
  /\ lost' = lost \cup Torn(end[d])
  /\ UNCHANGED <<length, end, read, given, again>>

\* cmd_outbox prints what was drained, a suggestion at a time.
Give(d) ==
  \E e \in read[d] :
    /\ pc[d] = "give" /\ \A f \in read[d] : e <= f
    /\ read' = [read EXCEPT ![d] = @ \ {e}]
    /\ given' = [given EXCEPT ![e] = IF @ = 0 THEN 1 ELSE 2]
    /\ UNCHANGED <<files, pc, end, lost, again>>

Finish(d) ==
  /\ pc[d] = "give" /\ read[d] = {}
  /\ pc' = [pc EXCEPT ![d] = "idle"] /\ end' = [end EXCEPT ![d] = 0]
  /\ UNCHANGED <<files, read, history>>

\* The process of a drain dies, or the offset cannot be written.
Crash(d) ==
  /\ pc[d] # "idle"
  /\ lost' = IF pc[d] = "give" THEN lost \cup read[d] ELSE lost
  /\ again' = (again \/ pc[d] = "write")
  /\ pc' = [pc EXCEPT ![d] = "idle"] /\ end' = [end EXCEPT ![d] = 0]
  /\ read' = [read EXCEPT ![d] = {}]
  /\ UNCHANGED <<files, given>>

Next ==
  \/ Emit
  \/ \E d \in Drain : \/ Open(d) \/ Read(d) \/ Truncate(d) \/ SaveOffset(d)
                      \/ Give(d) \/ Finish(d) \/ Crash(d)

Spec == Init /\ [][Next]_vars

----------------------------------------------------------------------------
\* A drained suggestion is dropped only by a drain that died with it after the
\* offset was saved, or that read half of its line: whatever overlaps, what
\* begins before the offset was given out or is one of those. And nothing is
\* given twice, or ahead of the offset, as long as drains take turns and none
\* dies while it writes the offset. outbox.rs:14-15 promises more ("a crash
\* never drops or double-delivers").
GivenExactlyOnce ==
  Quiet =>
    \A e \in Entry :
      /\ Begun(e, offset) => given[e] > 0 \/ e \in lost
      /\ ~again =>
           given[e] = IF Begun(e, offset) /\ e \notin lost THEN 1 ELSE 0
============================================================================
