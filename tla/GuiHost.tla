------------------------------ MODULE GuiHost ------------------------------
(***************************************************************************)
(* Mounting the Data Platter: every harness calls `gui` when a session     *)
(* starts, and a store that is served already must be reused. A mount      *)
(* reads the lock file gui.json of its store, probes the port it names,    *)
(* and otherwise picks a free port, binds it and writes the lock           *)
(* (src/crates/cli/src/main.rs cmd_gui, src/crates/gui/src/server.rs).     *)
(* The probe asks whether the port is served by a Data Platter, not        *)
(* whether it is that of this store.                                       *)
(*                                                                         *)
(* The closed window, the death of the watched harness and a signal all    *)
(* end a host by the same shutdown: Stop and Exit.                         *)
(***************************************************************************)
EXTENDS Naturals, FiniteSetsExt

CONSTANTS
  Mount,     \* the processes that run `gui`
  StoreOf,   \* StoreOf[m]: the store m is run for
  Ports,     \* the ports scanned upward, the first one the preferred
  Nobody,
  Overlaps   \* what may happen at once: "mounts", "no_reuse", "kill"

Store == {StoreOf[m] : m \in Mount}

VARIABLES
  at,      \* at[m]: how far m has come
  port,    \* port[m]: the port m read, picked or bound; 0 for none
  gui      \* gui[s]: what gui.json names, a process and its port

vars == <<at, port, gui>>

NoLock == [pid |-> Nobody, port |-> 0]

Init ==
  /\ at = [m \in Mount |-> "idle"]
  /\ port = [m \in Mount |-> 0]
  /\ gui = [s \in Store |-> NoLock]

\* Who listens, until the process is gone.
Up == {"bound", "serving", "stopping"}
Listeners(p) == {m \in Mount : at[m] \in Up /\ port[m] = p}
Hosts(s) == {m \in Mount : at[m] \in {"bound", "serving"} /\ StoreOf[m] = s}

Mounting(m) == at[m] \in {"probing", "alone", "picked", "bound"}

\* Two mounts of a store at once only where they may overlap.
MayMount(m) ==
  \/ "mounts" \in Overlaps
  \/ \A n \in Mount : StoreOf[n] = StoreOf[m] => ~Mounting(n)

----------------------------------------------------------------------------
\* running_gui_port reads the lock; there may be none.
ReadLock(m) ==
  /\ at[m] = "idle" /\ MayMount(m)
  /\ port' = [port EXCEPT ![m] = gui[StoreOf[m]].port]
  /\ at' = [at EXCEPT ![m] = IF gui[StoreOf[m]] = NoLock THEN "alone"
                                                         ELSE "probing"]
  /\ UNCHANGED gui

\* --no-reuse
Anyway(m) ==
  /\ "no_reuse" \in Overlaps
  /\ at[m] = "idle" /\ MayMount(m)
  /\ at' = [at EXCEPT ![m] = "alone"]
  /\ UNCHANGED <<port, gui>>

(* A Data Platter answers on that port: this process opens a window on it  *)
(* and is done. After a kill, or when the host stopped since the lock was  *)
(* read, it may be another store's. One that has just bound may not answer *)
(* within the timeout.                                                     *)
Reuse(m) ==
  /\ at[m] = "probing"
  /\ Listeners(port[m]) # {}
  /\ at' = [at EXCEPT ![m] = "idle"]
  /\ port' = [port EXCEPT ![m] = 0]
  /\ UNCHANGED gui

NoAnswer(m) ==
  /\ at[m] = "probing"
  /\ \A n \in Listeners(port[m]) : at[n] = "bound"
  /\ at' = [at EXCEPT ![m] = "alone"]
  /\ UNCHANGED <<port, gui>>

\* pick_free_port: the first that can be bound, or the preferred one.
Pick(m) ==
  LET free == {p \in 1..Ports : Listeners(p) = {}} IN
  /\ at[m] = "alone"
  /\ port' = [port EXCEPT ![m] = IF free = {} THEN 1 ELSE Min(free)]
  /\ at' = [at EXCEPT ![m] = "picked"]
  /\ UNCHANGED gui

\* The port may have been taken since: the mount then fails.
Bind(m) ==
  /\ at[m] = "picked"
  /\ at' = [at EXCEPT ![m] = IF Listeners(port[m]) = {} THEN "bound"
                                                        ELSE "idle"]
  /\ UNCHANGED <<port, gui>>

WriteLock(m) ==
  /\ at[m] = "bound"
  /\ gui' = [gui EXCEPT ![StoreOf[m]] = [pid |-> m, port |-> port[m]]]
  /\ at' = [at EXCEPT ![m] = "serving"]
  /\ UNCHANGED port

\* The lock is removed, whoever wrote it, and then the process ends.
Stop(m) ==
  /\ at[m] = "serving"
  /\ gui' = [gui EXCEPT ![StoreOf[m]] = NoLock]
  /\ at' = [at EXCEPT ![m] = "stopping"]
  /\ UNCHANGED port

\* A slip: the lock is removed when the process is gone, whoever has written
\* it since.
ExitCleans(m) ==
  /\ at[m] = "stopping"
  /\ at' = [at EXCEPT ![m] = "idle"]
  /\ port' = [port EXCEPT ![m] = 0]
  /\ gui' = [gui EXCEPT ![StoreOf[m]] = NoLock]

Exit(m) ==
  /\ at[m] = "stopping"
  /\ at' = [at EXCEPT ![m] = "idle"]
  /\ port' = [port EXCEPT ![m] = 0]
  /\ UNCHANGED gui

\* The lock stays, and its port may be another store's by the next mount.
Kill(m) ==
  /\ "kill" \in Overlaps
  /\ at[m] # "idle"
  /\ at' = [at EXCEPT ![m] = "idle"]
  /\ port' = [port EXCEPT ![m] = 0]
  /\ UNCHANGED gui

Next ==
  \E m \in Mount :
    \/ ReadLock(m) \/ Anyway(m) \/ Reuse(m) \/ NoAnswer(m)
    \/ Pick(m) \/ Bind(m) \/ WriteLock(m)
    \/ Stop(m) \/ Exit(m) \/ Kill(m)

Spec == Init /\ [][Next]_vars

----------------------------------------------------------------------------
(* What must hold.                                                         *)

\* Every variable has its type.
TypeOK ==
  /\ at \in [Mount -> {"idle", "probing", "alone", "picked"} \cup Up]
  /\ port \in [Mount -> 0..Ports]
  /\ gui \in [Store -> [pid : Mount \cup {Nobody}, port : 0..Ports]]

(* Mounts of a store that take turns never serve it twice, and the lock    *)
(* names the host there is, however other stores' mounts, shutdowns and    *)
(* kills come between: cmd_gui's mount that does not leak servers.         *)
OneHostFound ==
  \A s \in Store :
    /\ \A m, n \in Hosts(s) : m = n
    /\ \A m \in Hosts(s) :
         at[m] = "serving" => gui[s] = [pid |-> m, port |-> port[m]]

=============================================================================
