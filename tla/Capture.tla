------------------------------ MODULE Capture ------------------------------
(***************************************************************************)
(* How the daemon records what an agent's harness writes (kernel/src/      *)
(* capture.rs with the adapters): a thread per harness follows its         *)
(* transcripts and puts each new event into the map of its day (core/src/  *)
(* binding.rs). A thread here follows one transcript, and all events are   *)
(* of one day. Where a transcript was read to is in memory; one harness    *)
(* also saves it to a file. Months and years, which every pass derives     *)
(* from the days it lists at its end, are left out.                        *)
(*                                                                         *)
(* A pass runs only while the harness is attached: since nothing says that *)
(* a pass must come, that is any time.                                     *)
(***************************************************************************)
EXTENDS Integers

CONSTANTS
  Thread,       \* the capture threads, each with its transcript
  Saving,       \* those that save their position
  MaxLine,      \* bound: the lines of a transcript
  Overlaps      \* together: two threads' passes overlap; kill: the daemon
                \* ends

VARIABLES
  lines,        \* the complete lines of each transcript
  saved,        \* capture-offsets.json; -1: not in it
  offset,       \* the position in memory; -1: not seen yet
  pc,           \* where each thread stands
  upto, event,  \* the pass: the line it reads to, the line it is at
  view,         \* the day's map as a thread has read it
  grew,         \* whether the pass has recorded anything
  day,          \* the events in the day's map
  from,         \* history: where each transcript was taken from
  failed        \* history: the events that were not recorded

pass == <<upto, event, view, grew>>
history == <<from, failed>>
vars == <<lines, saved, offset, pc, pass, day, history>>

Event == Thread \X (1..MaxLine)
Position == -1..MaxLine

Init ==
  /\ lines = [t \in Thread |-> -1]        \* no transcript yet
  /\ saved = lines /\ offset = lines
  /\ pc = [t \in Thread |-> "down"]
  /\ upto = [t \in Thread |-> 0] /\ event = upto
  /\ view = [t \in Thread |-> {}] /\ grew = [t \in Thread |-> FALSE]
  /\ day = {}
  /\ from = saved /\ failed = {}

TypeOK ==
  /\ lines \in [Thread -> Position] /\ saved \in [Thread -> Position]
  /\ offset \in [Thread -> Position]
  /\ pc \in [Thread -> {"down", "idle", "next", "bind", "save"}]
  /\ upto \in [Thread -> 0..MaxLine] /\ event \in [Thread -> 0..(MaxLine + 1)]
  /\ view \in [Thread -> SUBSET Event] /\ grew \in [Thread -> BOOLEAN]
  /\ day \subseteq Event
  /\ from \in [Thread -> Position] /\ failed \subseteq Event

Goes(t, a, b) == pc[t] = a /\ pc' = [pc EXCEPT ![t] = b]

----------------------------------------------------------------------------
\* The harness creates the transcript, or appends a line.
Write(t) ==
  /\ lines[t] < MaxLine
  /\ lines' = [lines EXCEPT ![t] = IF @ = -1 THEN 1 ELSE @ + 1]
  /\ UNCHANGED <<saved, offset, pc, pass, day, history>>

\* A slip: what is saved is forgotten and the end is taken.
SeedOver(t) == lines[t]

\* seed_offsets: a saved position is kept, another transcript that exists is
\* taken from its end.
Seed(t) == IF saved[t] # -1 THEN saved[t] ELSE lines[t]

Start(t) ==
  /\ Goes(t, "down", "idle")
  /\ offset' = [offset EXCEPT ![t] = Seed(t)]
  /\ saved' = IF t \in Saving THEN [saved EXCEPT ![t] = Seed(t)] ELSE saved
  /\ from' = IF saved[t] # -1 THEN from
             ELSE [from EXCEPT ![t] = IF lines[t] = -1 THEN 0 ELSE lines[t]]
  /\ UNCHANGED <<lines, pass, day, failed>>

\* A pass reads the lines past the position; a new transcript from its start.
Pass(t) ==
  /\ "together" \in Overlaps \/ \A u \in Thread : pc[u] \in {"down", "idle"}
  /\ Goes(t, "idle", "next")
  /\ lines[t] > IF offset[t] = -1 THEN 0 ELSE offset[t]
  /\ upto' = [upto EXCEPT ![t] = lines[t]]
  /\ event' = [event EXCEPT ![t] = IF offset[t] = -1 THEN 1 ELSE offset[t] + 1]
  /\ grew' = [grew EXCEPT ![t] = FALSE]
  /\ UNCHANGED <<lines, saved, offset, view, day, history>>

Current(t) == <<t, event[t]>>

\* record_event_in_day: the record is stored and the day's map read ...
Record(t) ==
  /\ event[t] <= upto[t] /\ Current(t) \notin day
  /\ Goes(t, "next", "bind")
  /\ view' = [view EXCEPT ![t] = day]
  /\ UNCHANGED <<lines, saved, offset, upto, event, grew, day, history>>

\* ... and bound again with the event.
Bind(t) ==
  /\ Goes(t, "bind", "next")
  /\ day' = view[t] \cup {Current(t)}
  /\ event' = [event EXCEPT ![t] = @ + 1]
  /\ grew' = [grew EXCEPT ![t] = TRUE]
  /\ view' = [view EXCEPT ![t] = {}]
  /\ UNCHANGED <<lines, saved, offset, upto, history>>

\* The day contains the event, or it is not recorded, being of no record or
\* failing: the pass goes on.
Skip(t) ==
  /\ event[t] <= upto[t] /\ pc[t] = "next"
  /\ event' = [event EXCEPT ![t] = @ + 1]
  /\ failed' = IF Current(t) \in day THEN failed ELSE failed \cup {Current(t)}
  /\ UNCHANGED <<lines, saved, offset, pc, upto, view, grew, day, from>>

\* The position moves once all its lines are in.
Finish(t) ==
  /\ event[t] > upto[t]
  /\ Goes(t, "next", IF grew[t] /\ t \in Saving THEN "save" ELSE "idle")
  /\ offset' = [offset EXCEPT ![t] = upto[t]]
  /\ upto' = [upto EXCEPT ![t] = 0] /\ event' = [event EXCEPT ![t] = 0]
  /\ grew' = [grew EXCEPT ![t] = FALSE]
  /\ UNCHANGED <<lines, saved, view, day, history>>

Save(t) ==
  /\ Goes(t, "save", "idle")
  /\ saved' = [saved EXCEPT ![t] = offset[t]]
  /\ UNCHANGED <<lines, offset, pass, day, history>>

\* The daemon ends, with all its threads.
Kill ==
  /\ "kill" \in Overlaps
  /\ \E t \in Thread : pc[t] # "down"
  /\ pc' = [t \in Thread |-> "down"]
  /\ offset' = [t \in Thread |-> -1]
  /\ upto' = [t \in Thread |-> 0] /\ event' = upto'
  /\ view' = [t \in Thread |-> {}] /\ grew' = [t \in Thread |-> FALSE]
  /\ UNCHANGED <<lines, saved, day, history>>

Next ==
  \/ \E t \in Thread : \/ Write(t) \/ Start(t) \/ Pass(t) \/ Record(t) \/ Bind(t)
                       \/ Skip(t) \/ Finish(t) \/ Save(t)
  \/ Kill

Spec == Init /\ [][Next]_vars

----------------------------------------------------------------------------
\* No line is passed over: every one between where the transcript was taken
\* from and the position, in memory or on disk, is in the day's map or was not
\* recorded on its own account; so a daemon that was killed goes on where the
\* records end.
NothingSkipped ==
  \A t \in Thread : from[t] # -1 =>
    \A i \in 1..MaxLine :
      from[t] < i /\ (i <= saved[t] \/ i <= offset[t])
        => <<t, i>> \in day \cup failed
============================================================================
