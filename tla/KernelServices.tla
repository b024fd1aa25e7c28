-------------------------- MODULE KernelServices ---------------------------
(***************************************************************************)
(* What the kernel and the desktop shell keep running: the search index,    *)
(* the capture threads, the map of a day they file into, the loop of the   *)
(* network node, the host of the GUI.                                      *)
(* The components share no state; where two of them name a variable or a   *)
(* constant alike, a name is changed here. What the constants are is said  *)
(* in the module of the component, and so is what the properties are for.  *)
(***************************************************************************)
EXTENDS Integers, FiniteSets

CONSTANTS
  WarmRecord, NoIndex, WarmErrors, \* WarmIndex
  Thread, Saving, MaxLine, CaptureOverlaps, \* Capture
  DayKey, DayValue, DaySlot, Depth, Digest, BucketSize, \* DayMap
  Message, Question, Held, MaxPending, MaxRequests, Restarts, \* NodeLoop
  Mount, StoreOf, Ports, Nobody, GuiOverlaps  \* GuiHost

ASSUME KernelAssumption ==
  /\ \A rs \in SUBSET WarmRecord : rs # NoIndex
  /\ Saving \subseteq Thread /\ MaxLine \in Nat \ {0}
  /\ Message \cap Question = {}
  /\ Nobody \notin Mount /\ Ports \in Nat \ {0}
  /\ MaxRequests \in Nat

\* Digests do not collide.
ASSUME DayAssumption ==
  /\ DayKey \subseteq Int /\ BucketSize \in Nat \ {0} /\ Depth \in Nat \ {0}
  /\ Digest \in [DayKey -> [1..Depth -> DaySlot]]
  /\ \A k, l \in DayKey : Digest[k] = Digest[l] => k = l

VARIABLES
  store, withheld, snapshot, up, entries, complete, expired, captured,
  unseen, found,
  lines, saved, offset, capturePc, upto, event, dayRead, grew, day, from,
  failed,
  set, tree, setCalls, flushed, root,
  outbox, stored, caller, commands, events, next, wire, answers, outbound,
  pending, inbound, delivery,
  at, port, gui

WarmVars ==
  <<store, withheld, snapshot, up, entries, complete, expired, captured,
  unseen, found>>
HarnessVars ==
  <<lines, saved, offset, capturePc, upto, event, dayRead, grew, day, from,
  failed>>
DaysVars == <<set, tree, setCalls, flushed, root>>
LoopVars ==
  <<outbox, stored, caller, commands, events, next, wire, answers, outbound,
  pending, inbound, delivery>>
HostVars == <<at, port, gui>>

Warm == INSTANCE WarmIndex WITH
  Record <- WarmRecord, Errors <- WarmErrors, quarantine <- withheld,
  index <- entries

Harness == INSTANCE Capture WITH
  Overlaps <- CaptureOverlaps, pc <- capturePc, view <- dayRead

Days == INSTANCE DayMap WITH
  Key <- DayKey, Value <- DayValue, Slot <- DaySlot, entries <- set,
  calls <- setCalls, saved <- flushed

Loop == INSTANCE NodeLoop

Host == INSTANCE GuiHost WITH
  Overlaps <- GuiOverlaps

----------------------------------------------------------------------------
\* A search ranks what the store has, whatever order snapshots, captures,
\* restarts and searches come in (WarmIndex).
SearchFindsTheStore == Warm!SearchFindsTheStore

\* No line of a transcript is passed over (Capture).
NothingSkipped == Harness!NothingSkipped

\* The same entries make the same root, in whatever order they are set, and a
\* search finds each (DayMap).
SameEntriesSameRoot == Days!SameEntriesSameRoot

\* Deliveries and questions stay accounted for on both sides of the node loop
\* (NodeLoop).
DeliveriesAccounted == Loop!DeliveriesAccounted

\* Mounts that take turns serve a store once, and its lock names who does
\* (GuiHost).
OneHostFound == Host!OneHostFound
============================================================================
