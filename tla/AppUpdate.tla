----------------------------- MODULE AppUpdate -----------------------------
(***************************************************************************)
(* The program's own update (core/src/update/app.rs): a release is         *)
(* downloaded, verified and staged while the program runs, and swapped for *)
(* the program's file when it is next launched. Every way of launching     *)
(* looks for a pending update, may be killed at any step of it, and no     *)
(* call on a file is sure to succeed; Races says whether two launches may  *)
(* apply an update at once.                                                *)
(***************************************************************************)
EXTENDS Integers

CONSTANTS
  Launch,       \* the processes that may be starting up
  MaxVersion,   \* bound: the newest release
  Races         \* together: two launches apply at once

VARIABLES
  target,       \* the program's file: a version, Partial or Absent
  fresh,        \* target.new
  old,          \* target.old
  archive,      \* the staged archive
  staging,      \* the archive is whole and not yet recorded as pending
  pending,      \* pending.json: the version it names, or Absent
  step,         \* where each launch stands
  release,      \* the newest release there is
  stranded      \* history: a launch ended between its two renames, killed or
                \* with the old program not put back

stage == <<archive, staging>>
disk == <<target, fresh, old, pending>>
rest == <<release, stranded>>
vars == <<disk, stage, step, rest>>

Absent == 0
Partial == -1
Version == 1..MaxVersion

Init ==
  /\ target = 1 /\ fresh = Absent /\ old = Absent
  /\ archive = Absent /\ staging = FALSE /\ pending = Absent
  /\ step = [l \in Launch |-> "idle"]
  /\ release = 1
  /\ stranded = FALSE

TypeOK ==
  /\ target \in Version \cup {Absent, Partial}
  /\ fresh \in Version \cup {Absent, Partial}
  /\ old \in Version \cup {Absent, Partial}
  /\ archive \in Version \cup {Absent, Partial}
  /\ pending \in Version \cup {Absent} /\ staging \in BOOLEAN
  /\ step \in [Launch -> {"idle", "write", "unlink", "aside", "swap",
                          "restore", "clean", "clear"}]
  /\ release \in Version
  /\ stranded \in BOOLEAN

Quiet == \A l \in Launch : step[l] = "idle"
Goes(l, from, to) == step[l] = from /\ step' = [step EXCEPT ![l] = to]

----------------------------------------------------------------------------
Publish ==
  /\ release' \in Version /\ release' > release
  /\ UNCHANGED <<disk, stage, step, stranded>>

\* A slip: an archive that was cut short is recorded all the same.
StageCut ==
  /\ target \in Version /\ release > target
  /\ "together" \in Races \/ Quiet
  /\ archive' \in {release, Partial} /\ staging' = TRUE
  /\ UNCHANGED <<disk, step, rest>>

\* stage: the archive of a newer release replaces the staged one, in place;
\* a process that is killed leaves part of it.
StageArchive ==
  /\ target \in Version /\ release > target
  /\ "together" \in Races \/ Quiet
  /\ \/ archive' = release /\ staging' = TRUE
     \/ archive' = Partial /\ staging' = FALSE
  /\ UNCHANGED <<disk, step, rest>>

\* stage: the staged archive is recorded as pending.
StageRecord ==
  /\ "together" \in Races \/ Quiet
  /\ staging
  /\ pending' = archive
  /\ staging' = FALSE
  /\ UNCHANGED <<target, fresh, old, archive, step, rest>>

----------------------------------------------------------------------------
(* apply_on_launch, by a launch that finds an update pending.              *)

\* A process starts from the program's file, extracts the new program, and
\* begins to write it next to the old one.
Open(l) ==
  /\ target \in Version
  /\ "together" \in Races \/ Quiet
  /\ pending # Absent /\ archive \in Version
  /\ Goes(l, "idle", "write")
  /\ fresh' = Partial
  /\ UNCHANGED <<target, old, pending, stage, rest>>

\* The new program is written to the end.
Write(l) ==
  /\ Goes(l, "write", "unlink")
  /\ fresh' = archive
  /\ UNCHANGED <<target, old, pending, stage, rest>>

\* What an earlier update left behind is removed, if that succeeds.
Unlink(l) ==
  /\ Goes(l, "unlink", "aside")
  /\ old' \in {Absent, old}
  /\ UNCHANGED <<target, fresh, pending, stage, rest>>

\* The running program is moved aside; an error ends the update.
Aside(l) ==
  /\ Goes(l, "aside", IF target = Absent THEN "idle" ELSE "swap")
  /\ IF target = Absent THEN UNCHANGED <<target, old>>
     ELSE old' = target /\ target' = Absent
  /\ UNCHANGED <<fresh, pending, stage, rest>>

\* The new program is moved into place.
Swap(l) ==
  /\ fresh # Absent
  /\ Goes(l, "swap", "clean")
  /\ target' = fresh /\ fresh' = Absent
  /\ UNCHANGED <<old, pending, stage, rest>>

\* A slip: the failed update gives up at once.
SwapGivesUp(l) ==
  /\ Goes(l, "swap", "idle")
  /\ UNCHANGED <<disk, stage, rest>>

\* The rename fails.
SwapFails(l) ==
  /\ Goes(l, "swap", "restore")
  /\ UNCHANGED <<disk, stage, rest>>

\* The old program is put back, and the update stays pending.
Restore(l) ==
  /\ Goes(l, "restore", "idle")
  /\ target' = IF old = Absent THEN target ELSE old
  /\ old' = Absent
  /\ UNCHANGED <<fresh, pending, stage, rest>>

Clean(l) ==
  /\ Goes(l, "clean", "clear")
  /\ old' \in {Absent, old}
  /\ UNCHANGED <<target, fresh, pending, stage, rest>>

Clear(l) ==
  /\ Goes(l, "clear", "idle")
  /\ pending' = Absent
  /\ UNCHANGED <<target, fresh, old, stage, rest>>

\* The undoing fails as well: let _ = rename.
RestoreFails(l) ==
  /\ Goes(l, "restore", "idle")
  /\ stranded' = TRUE
  /\ UNCHANGED <<disk, stage, release>>

\* The process is killed, or a call fails where that ends the update.
Kill(l) ==
  /\ step[l] # "idle"
  /\ step' = [step EXCEPT ![l] = "idle"]
  /\ stranded' = (stranded \/ step[l] \in {"swap", "restore"})
  /\ UNCHANGED <<disk, stage, release>>

Next ==
  \/ Publish \/ StageArchive \/ StageRecord
  \/ \E l \in Launch : \/ Open(l) \/ Write(l) \/ Unlink(l) \/ Aside(l)
                       \/ Swap(l) \/ SwapFails(l) \/ Restore(l)
                       \/ RestoreFails(l)
                       \/ Clean(l) \/ Clear(l) \/ Kill(l)

Spec == Init /\ [][Next]_vars

----------------------------------------------------------------------------
\* A failed or interrupted update never costs the user the program. A whole
\* program is on the disk at any time, in its place or beside it; and when no
\* launch is busy it is in its place, unless one was killed between the two
\* renames or could not undo the first ("so a failed swap never leaves the user
\* with no binary", app.rs:376, which is said of a best effort).
ProgramIsThere ==
  /\ target \in Version \/ old \in Version
  /\ Quiet /\ ~stranded => target \in Version

============================================================================
