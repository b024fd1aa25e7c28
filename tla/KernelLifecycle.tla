-------------------------- MODULE KernelLifecycle --------------------------
(***************************************************************************)
(* The life of the memory kernel: daemon processes that take a socket path *)
(* and a lockfile (kernel/src/main.rs), and the supervisors in the GUI,    *)
(* the CLI and the MCP server that talk to it, start it, restart it after  *)
(* a crash and replace it after an upgrade (kernel-client/src/client.rs).  *)
(*                                                                         *)
(* The socket path and the lockfile are plain files: whoever removes one   *)
(* removes what is there, and every step on them is one system call. The   *)
(* supervisors' waits are bounded by time (2 s for a start, 3 s for a      *)
(* stop); Faults says whether a daemon may take longer.                    *)
(***************************************************************************)
EXTENDS Integers, FiniteSets

CONSTANTS
  Supervisor,   \* the processes that send supervised requests
  Daemon,       \* bound: the daemon processes there may ever be
  First,        \* the daemon of the initial state, if there is one
  NoDaemon,     \* no daemon
  Starts,       \* what the initial state may be: none, stale, old
  Faults        \* which of the faults below may happen

\* crash       a daemon is killed at any step
\* lock_fails  the lockfile cannot be written
\* spawn_fails the kernel binary is missing or cannot be started
\* slow_start  a daemon may not have bound its socket within 2 s
\* slow_exit   a daemon may take more than 3 s to remove its socket, and
\*             another may bind the path before it removes the lockfile
\* takeover    a daemon may bind the path after another has found it stale and
\*             before that one removes it
AllFaults ==
  {"crash", "lock_fails", "spawn_fails", "slow_start", "slow_exit", "takeover"}

ASSUME LifecycleAssumption ==
  /\ First \in Daemon /\ NoDaemon \notin Daemon
  /\ IsFiniteSet(Daemon)
  /\ Starts \subseteq {"none", "stale", "old"}
  /\ Faults \subseteq AllFaults

VARIABLES
  sock,         \* the socket file: the daemon that bound it, or NoDaemon
  lock,         \* the lockfile: the daemon whose pid it holds, or NoDaemon
  at,           \* where each daemon stands
  old,          \* the daemons of another protocol version
  term,         \* the daemons that have received SIGTERM
  pc,           \* where each supervisor stands with its request
  peer,         \* the daemon at the other end of its connection
  label,        \* the KernelLifecycle it will report
  done          \* what its request came to: <<label, who answered>>

files == <<sock, lock>>
daemon == <<at, old, term>>
client == <<pc, peer, label, done>>
vars == <<files, daemon, client>>

Starting == {"exists", "probe", "stat", "unlink", "bind"}
Listening == {"lock", "locked", "serving", "unsock", "unlock"}

\* A daemon of which nothing has asked that it stop.
Running(d) == at[d] \in {"lock", "locked", "serving"}

\* What connecting to the socket path finds: a listening process, or not.
Available == sock # NoDaemon /\ at[sock] \in Listening

----------------------------------------------------------------------------
Init ==
  /\ \E start \in Starts :
       /\ sock = IF start = "none" THEN NoDaemon ELSE First
       /\ lock = IF start = "none" THEN NoDaemon ELSE First
       /\ at = [d \in Daemon |-> IF d # First \/ start = "none" THEN "unborn"
                                 ELSE IF start = "old" THEN "serving"
                                 ELSE "dead"]
       /\ old = IF start = "old" THEN {First} ELSE {}
  /\ term = {}
  /\ pc = [s \in Supervisor |-> "idle"]
  /\ peer = [s \in Supervisor |-> NoDaemon]
  /\ label = [s \in Supervisor |-> "Warm"]
  /\ done = [s \in Supervisor |-> <<"none", NoDaemon>>]

----------------------------------------------------------------------------
(* The daemon: bind_socket, step by step.                                  *)

Goes(d, from, to) == at[d] = from /\ at' = [at EXCEPT ![d] = to]

\* sock.exists()
CheckExists(d) ==
  /\ Goes(d, "exists", IF sock = NoDaemon THEN "bind" ELSE "probe")
  /\ UNCHANGED <<files, old, term, client>>

\* A slip: the socket file is taken for stale without a connection.
ProbeBlindly(d) ==
  /\ Goes(d, "probe", "stat")
  /\ UNCHANGED <<files, old, term, client>>

\* UnixStream::connect(sock): a live listener is refused a duplicate.
Probe(d) ==
  /\ Goes(d, "probe", IF Available THEN "dead" ELSE "stat")
  /\ UNCHANGED <<files, old, term, client>>

\* symlink_metadata(sock): an error if the file is gone by now.
Stat(d) ==
  /\ Goes(d, "stat", IF sock = NoDaemon THEN "dead" ELSE "unlink")
  /\ UNCHANGED <<files, old, term, client>>

\* remove_file(sock): an error if the file is gone by now.
Unlink(d) ==
  /\ Goes(d, "unlink", IF sock = NoDaemon THEN "dead" ELSE "bind")
  /\ sock' = NoDaemon
  /\ UNCHANGED <<lock, old, term, client>>

\* UnixListener::bind(sock): fails if the path exists.
Bind(d) ==
  /\ "takeover" \in Faults \/ \A e \in Daemon : at[e] \notin {"stat", "unlink"}
  /\ "slow_exit" \in Faults \/ \A e \in Daemon : at[e] # "unlock"
  /\ Goes(d, "bind", IF sock = NoDaemon THEN "lock" ELSE "dead")
  /\ sock' = IF sock = NoDaemon THEN d ELSE sock
  /\ UNCHANGED <<lock, old, term, client>>

(* The daemon: serve.                                                      *)

\* A slip: a lockfile that is there is left alone.
WriteLockOnce(d) ==
  /\ Goes(d, "lock", "locked")
  /\ lock' = IF lock = NoDaemon THEN d ELSE lock
  /\ UNCHANGED <<sock, old, term, client>>

\* KernelLock::write: the file is replaced by one with this pid.
WriteLock(d) ==
  /\ Goes(d, "lock", "locked")
  /\ lock' = d
  /\ UNCHANGED <<sock, old, term, client>>

\* KernelLock::write fails: the socket path is removed, the daemon ends.
WriteLockFails(d) ==
  /\ "lock_fails" \in Faults
  /\ Goes(d, "lock", "dead")
  /\ sock' = NoDaemon
  /\ UNCHANGED <<lock, old, term, client>>

\* install_shutdown; before it, a SIGTERM ends the process at once.
InstallShutdown(d) ==
  /\ Goes(d, "locked", IF d \in term THEN "dead" ELSE "serving")
  /\ UNCHANGED <<files, old, term, client>>

\* The poller sees the signal and saves the index snapshot.
SeeSignal(d) ==
  /\ d \in term
  /\ Goes(d, "serving", "unsock")
  /\ UNCHANGED <<files, old, term, client>>

\* The poller removes the socket path, whatever it is now.
RemoveSock(d) ==
  /\ Goes(d, "unsock", "unlock")
  /\ sock' = NoDaemon
  /\ UNCHANGED <<lock, old, term, client>>

\* The poller removes the lockfile, whatever it holds now, and exits.
RemoveLock(d) ==
  /\ Goes(d, "unlock", "dead")
  /\ lock' = NoDaemon
  /\ UNCHANGED <<sock, old, term, client>>

Crash(d) ==
  /\ "crash" \in Faults
  /\ at[d] \notin {"unborn", "dead"}
  /\ at' = [at EXCEPT ![d] = "dead"]
  /\ UNCHANGED <<files, old, term, client>>

----------------------------------------------------------------------------
(* The supervisor: send_supervised.                                        *)

Moves(s, from, to) == pc[s] = from /\ pc' = [pc EXCEPT ![s] = to]

Finish(s, answerer) ==
  /\ pc' = [pc EXCEPT ![s] = "idle"]
  /\ peer' = [peer EXCEPT ![s] = NoDaemon]
  /\ label' = [label EXCEPT ![s] = "Warm"]
  /\ done' = [done EXCEPT ![s] =
       IF answerer = NoDaemon THEN <<"error", NoDaemon>>
                              ELSE <<label[s], answerer>>]

\* A request begins: whether the socket exists is noted for the label.
Request(s) ==
  /\ Moves(s, "idle", "send")
  /\ label' = [label EXCEPT ![s] =
       IF sock = NoDaemon THEN "Started" ELSE "Restarted"]
  /\ done' = [done EXCEPT ![s] = <<"none", NoDaemon>>]
  /\ UNCHANGED <<files, daemon, peer>>

\* send: connect and write the request.
Connect(s) ==
  /\ pc[s] \in {"send", "resend"}
  /\ Available
  /\ pc' = [pc EXCEPT ![s] = IF @ = "send" THEN "sent" ELSE "resent"]
  /\ peer' = [peer EXCEPT ![s] = sock]
  /\ UNCHANGED <<files, daemon, label, done>>

\* A slip: a peer that dies before it answers goes unnoticed.
SendFailsAtConnect(s) ==
  /\ pc[s] = "send" /\ ~Available
  /\ pc' = [pc EXCEPT ![s] = "ensure"]
  /\ peer' = [peer EXCEPT ![s] = NoDaemon]
  /\ UNCHANGED <<files, daemon, label, done>>

\* The first send fails, at the connection or because the peer dies.
SendFails(s) ==
  /\ \/ pc[s] = "send" /\ ~Available
     \/ pc[s] = "sent" /\ at[peer[s]] = "dead"
  /\ pc' = [pc EXCEPT ![s] = "ensure"]
  /\ peer' = [peer EXCEPT ![s] = NoDaemon]
  /\ UNCHANGED <<files, daemon, label, done>>

CanAnswer(d) == at[d] \in {"serving", "unsock", "unlock"}

\* The running kernel answers, in the supervisor's protocol version.
AnswerWarm(s) ==
  /\ pc[s] = "sent" /\ CanAnswer(peer[s]) /\ peer[s] \notin old
  /\ pc' = [pc EXCEPT ![s] = "idle"]
  /\ peer' = [peer EXCEPT ![s] = NoDaemon]
  /\ label' = [label EXCEPT ![s] = "Warm"]
  /\ done' = [done EXCEPT ![s] = <<"Warm", peer[s]>>]
  /\ UNCHANGED <<files, daemon>>

\* The running kernel answers in another protocol version.
AnswerSkewed(s) ==
  /\ pc[s] = "sent" /\ CanAnswer(peer[s]) /\ peer[s] \in old
  /\ pc' = [pc EXCEPT ![s] = "stop"]
  /\ peer' = [peer EXCEPT ![s] = NoDaemon]
  /\ label' = [label EXCEPT ![s] = "Upgraded"]
  /\ UNCHANGED <<files, daemon, done>>

\* A slip: nothing is signalled.
TerminateNobody(s) ==
  /\ Moves(s, "stop", "gone")
  /\ UNCHANGED <<files, daemon, peer, label, done>>

\* stop_running_kernel: SIGTERM to the pid in the lockfile, if there is one.
Terminate(s) ==
  /\ Moves(s, "stop", "gone")
  /\ term' = term \cup ({lock} \ {NoDaemon})
  /\ UNCHANGED <<files, at, old, peer, label, done>>

\* stop_running_kernel waits until nothing listens, for 3 s at most: by then
\* every daemon that was signalled has gone, unless it is slow.
AwaitGone(s) ==
  /\ Moves(s, "gone", "ensure")
  /\ \/ ~Available
     \/ "slow_exit" \in Faults
     \/ \A d \in term : at[d] = "dead"
  /\ UNCHANGED <<files, daemon, peer, label, done>>

\* ensure_running: a kernel is available, or one is spawned.
EnsureAvailable(s) ==
  /\ Moves(s, "ensure", "resend")
  /\ Available
  /\ UNCHANGED <<files, daemon, peer, label, done>>

Spawn(s) ==
  /\ Moves(s, "ensure", "up")
  /\ ~Available
  /\ \E d \in Daemon :
       /\ at[d] = "unborn"
       /\ at' = [at EXCEPT ![d] = "exists"]
  /\ UNCHANGED <<files, old, term, peer, label, done>>

SpawnFails(s) ==
  /\ "spawn_fails" \in Faults
  /\ Moves(s, "ensure", "resend")
  /\ ~Available
  /\ UNCHANGED <<files, daemon, peer, label, done>>

\* ensure_running waits until a kernel is available, for 2 s at most.
AwaitUp(s) ==
  /\ Moves(s, "up", "resend")
  /\ \/ Available
     \/ "slow_start" \in Faults
     \/ \A d \in Daemon : at[d] \notin Starting
  /\ UNCHANGED <<files, daemon, peer, label, done>>

\* The retry is answered, whatever the version of the answer.
RetryAnswered(s) ==
  /\ pc[s] = "resent" /\ CanAnswer(peer[s])
  /\ Finish(s, peer[s])
  /\ UNCHANGED <<files, daemon>>

RetryFails(s) ==
  /\ \/ pc[s] = "resend" /\ ~Available
     \/ pc[s] = "resent" /\ at[peer[s]] = "dead"
  /\ Finish(s, NoDaemon)
  /\ UNCHANGED <<files, daemon>>

----------------------------------------------------------------------------
DaemonStep(d) ==
  \/ CheckExists(d) \/ Probe(d) \/ Stat(d) \/ Unlink(d) \/ Bind(d)
  \/ WriteLock(d) \/ WriteLockFails(d) \/ InstallShutdown(d)
  \/ SeeSignal(d) \/ RemoveSock(d) \/ RemoveLock(d)

\* A request in progress. A supervisor that would spawn a daemon beyond the
\* bound stops there.
ClientStep(s) ==
  \/ Connect(s) \/ SendFails(s) \/ AnswerWarm(s) \/ AnswerSkewed(s)
  \/ Terminate(s) \/ AwaitGone(s) \/ EnsureAvailable(s) \/ Spawn(s)
  \/ SpawnFails(s) \/ AwaitUp(s) \/ RetryAnswered(s) \/ RetryFails(s)

Next ==
  \/ \E d \in Daemon : DaemonStep(d) \/ Crash(d)
  \/ \E s \in Supervisor : Request(s) \/ ClientStep(s)

Spec == Init /\ [][Next]_vars

\* Processes and threads that can take a step take it: none of them waits on
\* a lock of another.
FairSpec ==
  /\ Spec
  /\ \A d \in Daemon : WF_vars(DaemonStep(d))
  /\ \A s \in Supervisor : WF_vars(ClientStep(s))

----------------------------------------------------------------------------
\* Type invariant: the files name daemons, and only daemons are signalled.
TypeOK ==
  /\ sock \in Daemon \cup {NoDaemon}
  /\ lock \in Daemon \cup {NoDaemon}
  /\ at \in [Daemon -> {"unborn", "dead"} \cup Starting \cup Listening]
  /\ old \subseteq Daemon /\ term \subseteq Daemon
  /\ pc \in [Supervisor -> {"idle", "send", "sent", "stop", "gone", "ensure",
                            "up", "resend", "resent"}]
  /\ peer \in [Supervisor -> Daemon \cup {NoDaemon}]
  /\ label \in [Supervisor -> {"Warm", "Started", "Restarted", "Upgraded"}]
  /\ done \in [Supervisor ->
       {"none", "error", "Warm", "Started", "Restarted", "Upgraded"}
         \X (Daemon \cup {NoDaemon})]

\* "bind_socket refuses a second live listener, so at most one kernel ever
\* runs" (kernel-client/src/client.rs:65-66).
AtMostOneKernel ==
  \A d, e \in Daemon : Running(d) /\ Running(e) => d = e

\* A kernel that serves can be found: the socket path leads to it and the
\* lockfile, the "stable lifecycle marker", names it.
ServingKernelIsFound ==
  \A d \in Daemon : at[d] = "serving" => sock = d /\ lock = d

\* A retry labelled Upgraded was answered by a kernel of this version.
UpgradedMeansCurrent ==
  \A s \in Supervisor : done[s][1] = "Upgraded" => done[s][2] \notin old

\* A supervised request comes to an end, whatever dies meanwhile, as long as
\* the processes the bound allows are not used up.
RequestEnds ==
  \A s \in Supervisor :
    pc[s] # "idle" ~> pc[s] = "idle" \/ \A d \in Daemon : at[d] # "unborn"
============================================================================
