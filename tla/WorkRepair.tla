----------------------------- MODULE WorkRepair -----------------------------
(***************************************************************************)
(* A /work job (mem/src/session.rs work_with_trace, mem/src/work.rs): the  *)
(* concierge plans and lists files, the worker writes them one by one;     *)
(* then laps of an import fix, an audit of what was written, a build in a  *)
(* copy of the workspace and an alignment of the files found wanting, for  *)
(* as long as the findings shrink. What is clean at last is recorded. The  *)
(* audit looks at the writes in memory, the build and the user at the disk.*)
(*                                                                         *)
(* A file is sound, faulty, imports a module by a wrong path ("astray") or *)
(* imports one that nothing provides ("needy"). What models answer and     *)
(* what a build says is any of the answers there are. The records of       *)
(* prompts and replies, which only grow, are left out.                     *)
(***************************************************************************)
EXTENDS Integers, FiniteSets

CONSTANTS
  Path,         \* the paths that models and builds name
  At,           \* where each path lies on disk
  Lib,          \* the path of the module that is imported
  MaxLaps,      \* MAX_REPAIR_LAPS
  MaxFindings,  \* bound: the findings of an audit
  Faults,       \* "command": a command changes files, "write": no disk space
  None

VARIABLES
  phase,        \* where the job stands
  todo,         \* the files still to be written in this phase
  writes,       \* what the job wrote, by path
  disk,         \* the workspace
  report,       \* how many findings the last audit had
  lap,          \* the repair laps begun
  produced      \* the files recorded by the last job that succeeded

vars == <<phase, todo, writes, disk, report, lap, produced>>

Verdict == {"sound", "faulty", "astray", "needy"}
Files == UNION {[S -> Verdict] : S \in SUBSET Path}
Nothing == [p \in {} |-> None]
Put(files, p, c) == [q \in DOMAIN files \cup {p} |->
                       IF q = p THEN c ELSE files[q]]

Init ==
  /\ phase = "idle" /\ todo = {} /\ writes = Nothing
  /\ disk = [l \in {At[p] : p \in Path} |-> None]
  /\ report = 0 /\ lap = 0 /\ produced = Nothing

TypeOK ==
  /\ phase \in {"idle", "build", "fix", "audit", "align", "persist"}
  /\ todo \subseteq Path /\ report \in 0..MaxFindings
  /\ writes \in Files /\ produced \in Files
  /\ disk \in [{At[p] : p \in Path} -> Verdict \cup {None}]
  /\ lap \in 0..MaxLaps

----------------------------------------------------------------------------
\* review_with_project_files: what is wrong in the files as a whole.
Wanting(files) ==
  {p \in DOMAIN files : \/ files[p] \in {"faulty", "astray"}
                        \/ files[p] = "needy" /\ Lib \notin DOMAIN files}
\* alignment_files: those, and the modules that they miss.
Scope(files, found) ==
  found \cup {p \in {Lib} : \E q \in found \cap DOMAIN files :
                              files[q] = "needy" /\ Lib \notin DOMAIN files}
\* fix_import_paths: an import that some written file does provide is bent.
Bent(files) ==
  [p \in DOMAIN files |-> IF files[p] = "astray" /\ Lib \in DOMAIN files
                          THEN "sound" ELSE files[p]]

\* A file reaches the disk, whole, and the list of writes.
Write(p, c) ==
  /\ writes' = Put(writes, p, c)
  /\ disk' = [disk EXCEPT ![At[p]] = c]

\* The job ends without a success: the session hears why.
Fails == phase' = "idle" /\ produced' = Nothing

----------------------------------------------------------------------------
\* The concierge planned and listed files; when it cannot, nothing was touched.
Start(manifest) ==
  /\ phase = "idle" /\ phase' = "build"
  /\ todo' = manifest /\ writes' = Nothing
  /\ report' = 0 /\ lap' = 0 /\ produced' = Nothing
  /\ UNCHANGED disk

\* The worker's answer for one file, or an error, which skips the file.
Build(p, c) ==
  /\ phase = "build" /\ p \in todo
  /\ todo' = todo \ {p}
  /\ \/ Write(p, c)
     \/ UNCHANGED <<writes, disk>>
  /\ UNCHANGED <<phase, report, lap, produced>>

\* The draft, or a lap, is through.
Written ==
  /\ phase \in {"build", "align"} /\ todo = {}
  /\ IF writes = Nothing THEN Fails
     ELSE phase' = "fix" /\ UNCHANGED produced
  /\ UNCHANGED <<todo, writes, disk, report, lap>>

\* A slip: the corrected imports do not reach the disk.
FixInMemory ==
  /\ phase = "fix" /\ phase' = "audit"
  /\ writes' = Bent(writes)
  /\ UNCHANGED <<todo, disk, report, lap, produced>>

\* deterministic_import_fix writes the files it changed; an error there ends
\* the job, with the list already changed.
FixImports ==
  /\ phase = "fix"
  /\ writes' = Bent(writes)
  /\ LET changed == {p \in DOMAIN writes : writes'[p] # writes[p]} IN
     \/ /\ phase' = "audit"
        /\ disk' = [l \in DOMAIN disk |->
             IF \E p \in changed : At[p] = l THEN "sound" ELSE disk[l]]
        /\ UNCHANGED produced
     \/ /\ "write" \in Faults /\ changed # {}
        /\ Fails /\ UNCHANGED disk
  /\ UNCHANGED <<todo, report, lap>>

\* The report of the audit or, when that is clean, of the build, which fails
\* on any files of the workspace or passes.
Found == IF Wanting(writes) # {} THEN {Wanting(writes)}
         ELSE {S \in SUBSET Path : \A p \in S : disk[At[p]] # None}

\* Clean, or another lap, or no more: laps are bounded and each must leave
\* fewer findings than the one before, of which a file may have several.
Audit ==
  /\ phase = "audit"
  /\ \E found \in Found, count \in 0..MaxFindings :
       \/ /\ found = {}
          /\ phase' = "persist" /\ todo' = {}
          /\ UNCHANGED <<report, lap, produced>>
       \/ /\ found # {} /\ count >= Cardinality(found)
          /\ lap = MaxLaps \/ (lap > 0 /\ count >= report)
          /\ Fails
          /\ UNCHANGED <<todo, report, lap>>
       \/ /\ found # {} /\ count >= Cardinality(found)
          /\ lap = 0 \/ (lap < MaxLaps /\ count < report)
          /\ phase' = "align" /\ todo' = Scope(writes, found)
          /\ report' = count /\ lap' = lap + 1
          /\ UNCHANGED produced
  /\ UNCHANGED <<writes, disk>>

\* alignment_lap for one file. The worker's answer is its new content, or a
\* tool: a write or an edit of any file, which is all for this file; a command,
\* after which it is asked again. An error or an empty answer skips the file.
Align(p, q, c) ==
  /\ phase = "align" /\ p \in todo
  /\ todo' = todo \ {p}
  /\ \/ Write(q, c)
     \/ "command" \in Faults /\ disk' = [disk EXCEPT ![At[q]] = c] /\ UNCHANGED writes
     \/ UNCHANGED <<writes, disk>>
  /\ UNCHANGED <<phase, report, lap, produced>>

\* A file node for each write; the session's conversation follows.
Persist ==
  /\ phase = "persist" /\ phase' = "idle"
  /\ produced' = writes
  /\ UNCHANGED <<todo, writes, disk, report, lap>>

Next ==
  \/ \E manifest \in (SUBSET Path) \ {{}} : Start(manifest)
  \/ \E p \in Path, c \in Verdict : Build(p, c)
  \/ Written \/ FixImports \/ Audit \/ Persist
  \/ \E p, q \in Path, c \in Verdict : Align(p, q, c)

Spec == Init /\ [][Next]_vars

----------------------------------------------------------------------------
\* What a job that succeeded recorded is in the workspace, and nothing in it
\* was found wanting: the audited list and the disk never part, over all laps
\* and tools (work_with_trace, persist_file_node).
ProducedIsThere ==
  /\ Wanting(produced) = {}
  /\ phase = "idle" => \A p \in DOMAIN produced : disk[At[p]] = produced[p]
=============================================================================
