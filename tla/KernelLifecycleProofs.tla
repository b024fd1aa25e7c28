----------------------- MODULE KernelLifecycleProofs -----------------------
(***************************************************************************)
(* Theorems of KernelLifecycle, for any number of daemons and supervisors. *)
(* When no daemon binds the path between the moment another has found it   *)
(* stale and the moment that one removes it, whoever listens owns the      *)
(* socket path, so at most one kernel runs.                                *)
(***************************************************************************)
EXTENDS KernelLifecycle, TLAPS

\* The socket path leads to whoever listens and has not removed it.
ListenerOwnsPath ==
  \A d \in Daemon :
    at[d] \in {"lock", "locked", "serving", "unsock"} => sock = d

\* What the path leads to listens on it, or has died.
PathIsBound ==
  sock # NoDaemon =>
    at[sock] \in {"lock", "locked", "serving", "unsock", "dead"}

\* Nothing listens while a daemon is about to remove what it found stale.
StaleIsDead ==
  \A d \in Daemon :
    at[d] \in {"stat", "unlink"} => sock = NoDaemon \/ at[sock] = "dead"

PathInv == TypeOK /\ ListenerOwnsPath /\ PathIsBound /\ StaleIsDead

----------------------------------------------------------------------------
USE LifecycleAssumption

LEMMA InitType == Init => TypeOK
BY DEF Init, TypeOK, Starting, Listening

LEMMA DaemonType ==
  ASSUME TypeOK, NEW d \in Daemon, DaemonStep(d) \/ Crash(d)
  PROVE  TypeOK'
<1>1. CASE CheckExists(d) \/ Probe(d) \/ Stat(d) \/ Unlink(d) \/ Bind(d)
  BY <1>1 DEF CheckExists, Probe, Stat, Unlink, Bind, Goes, Available,
              TypeOK, Starting, Listening, files, client
<1>2. CASE \/ WriteLock(d) \/ WriteLockFails(d) \/ InstallShutdown(d)
           \/ SeeSignal(d) \/ RemoveSock(d) \/ RemoveLock(d)
  BY <1>2 DEF WriteLock, WriteLockFails, InstallShutdown, SeeSignal,
              RemoveSock, RemoveLock, Goes, TypeOK, Starting, Listening,
              files, client
<1>3. CASE Crash(d)
  BY <1>3 DEF Crash, TypeOK, Starting, Listening, files, client
<1> QED BY <1>1, <1>2, <1>3 DEF DaemonStep

\* A supervisor changes the daemons by a signal or a spawn only.
LEMMA ClientType ==
  ASSUME TypeOK, NEW s \in Supervisor, Request(s) \/ ClientStep(s)
  PROVE  TypeOK'
<1>1. CASE Request(s)
  BY <1>1 DEF Request, Moves, TypeOK, files, daemon, vars
<1>2. CASE Connect(s)
  BY <1>2 DEF Connect, Available, TypeOK, files, daemon
<1>3. CASE SendFails(s)
  BY <1>3 DEF SendFails, TypeOK, files, daemon
<1>4. CASE AnswerWarm(s)
  BY <1>4 DEF AnswerWarm, TypeOK, files, daemon
<1>5. CASE AnswerSkewed(s)
  BY <1>5 DEF AnswerSkewed, TypeOK, files, daemon
<1>6. CASE Terminate(s)
  BY <1>6 DEF Terminate, Moves, TypeOK, files
<1>7. CASE Spawn(s)
  BY <1>7 DEF Spawn, Moves, TypeOK, Starting, files
<1>8. CASE AwaitGone(s) \/ EnsureAvailable(s) \/ SpawnFails(s) \/ AwaitUp(s)
  BY <1>8 DEF AwaitGone, EnsureAvailable, SpawnFails, AwaitUp, Moves, TypeOK,
              files, daemon
<1>9. CASE RetryAnswered(s)
  BY <1>9 DEF RetryAnswered, Finish, TypeOK, files, daemon
<1>10. CASE RetryFails(s)
  BY <1>10 DEF RetryFails, Finish, TypeOK, files, daemon
<1> QED
  BY <1>1, <1>2, <1>3, <1>4, <1>5, <1>6, <1>7, <1>8, <1>9, <1>10
  DEF ClientStep

\* Every variable of the kernel's lifecycle keeps its type.
THEOREM LifecycleTypeCorrect == Spec => []TypeOK
<1>1. TypeOK /\ [Next]_vars => TypeOK'
  <2> SUFFICES ASSUME TypeOK, [Next]_vars PROVE TypeOK'
    OBVIOUS
  <2>1. CASE \E d \in Daemon : DaemonStep(d) \/ Crash(d)
    BY <2>1, DaemonType
  <2>2. CASE \E s \in Supervisor : Request(s) \/ ClientStep(s)
    BY <2>2, ClientType
  <2>3. CASE UNCHANGED vars
    BY <2>3 DEF vars, files, daemon, client, TypeOK
  <2> QED BY <2>1, <2>2, <2>3 DEF Next
<1> QED BY <1>1, InitType, PTL DEF Spec

----------------------------------------------------------------------------
LEMMA InitPath == Init => PathInv
<1> SUFFICES ASSUME Init PROVE ListenerOwnsPath /\ PathIsBound /\ StaleIsDead
  BY InitType DEF PathInv
<1> QED BY DEF Init, ListenerOwnsPath, PathIsBound, StaleIsDead

\* A daemon on its way to the path, or one that ends, leaves the path with
\* whoever listens.
LEMMA DaemonPath ==
  ASSUME PathInv, "takeover" \notin Faults, TypeOK',
         NEW d \in Daemon, DaemonStep(d) \/ Crash(d)
  PROVE  PathInv'
<1> USE DEF PathInv, ListenerOwnsPath, PathIsBound, StaleIsDead, Goes
<1>1. CASE CheckExists(d)
  BY <1>1 DEF CheckExists, TypeOK, files
<1>2. CASE Probe(d)
  BY <1>2 DEF Probe, Available, Listening, TypeOK, files
<1>3. CASE Stat(d)
  BY <1>3 DEF Stat, TypeOK, files
<1>4. CASE Unlink(d)
  BY <1>4 DEF Unlink, TypeOK
<1>5. CASE Bind(d)
  BY <1>5 DEF Bind, TypeOK
<1>6. CASE WriteLock(d)
  BY <1>6 DEF WriteLock, TypeOK
<1>7. CASE WriteLockFails(d)
  BY <1>7 DEF WriteLockFails, TypeOK
<1>8. CASE InstallShutdown(d)
  BY <1>8 DEF InstallShutdown, TypeOK, files
<1>9. CASE SeeSignal(d)
  BY <1>9 DEF SeeSignal, TypeOK, files
<1>10. CASE RemoveSock(d)
  BY <1>10 DEF RemoveSock, TypeOK
<1>11. CASE RemoveLock(d)
  BY <1>11 DEF RemoveLock, TypeOK
<1>12. CASE Crash(d)
  BY <1>12 DEF Crash, TypeOK, files
<1> QED
  BY <1>1, <1>2, <1>3, <1>4, <1>5, <1>6, <1>7, <1>8, <1>9, <1>10, <1>11,
     <1>12 DEF DaemonStep

\* A supervisor touches neither file, and a daemon it spawns holds nothing.
LEMMA ClientPath ==
  ASSUME PathInv, TypeOK', NEW s \in Supervisor, Request(s) \/ ClientStep(s)
  PROVE  PathInv'
<1>1. CASE Spawn(s)
  BY <1>1 DEF Spawn, files, PathInv, ListenerOwnsPath, PathIsBound,
              StaleIsDead, TypeOK
<1>2. CASE ~Spawn(s)
  <2>1. UNCHANGED <<sock, at>>
    BY <1>2 DEF Request, ClientStep, Connect, SendFails, AnswerWarm,
       AnswerSkewed, Terminate, AwaitGone, EnsureAvailable, SpawnFails,
       AwaitUp, RetryAnswered, RetryFails, files, daemon
  <2> QED
    BY <2>1 DEF PathInv, ListenerOwnsPath, PathIsBound, StaleIsDead
<1> QED BY <1>1, <1>2

LEMMA PathStep ==
  ASSUME PathInv, "takeover" \notin Faults, [Next]_vars
  PROVE  PathInv'
<1>1. CASE \E d \in Daemon : DaemonStep(d) \/ Crash(d)
  BY <1>1, DaemonType, DaemonPath DEF PathInv
<1>2. CASE \E s \in Supervisor : Request(s) \/ ClientStep(s)
  BY <1>2, ClientType, ClientPath DEF PathInv
<1>3. CASE UNCHANGED vars
  BY <1>3 DEF vars, files, daemon, client, PathInv, TypeOK,
              ListenerOwnsPath, PathIsBound, StaleIsDead
<1> QED BY <1>1, <1>2, <1>3 DEF Next

\* At most one kernel ever runs, however many supervisors spawn daemons and
\* whatever dies: what bind_socket promises (client.rs:65-66), as long as no
\* daemon binds the path between the probe of another and its remove_file.
THEOREM OneKernel ==
  ASSUME "takeover" \notin Faults
  PROVE  Spec => []AtMostOneKernel
<1>1. PathInv /\ [Next]_vars => PathInv'
  BY PathStep
<1>2. PathInv => AtMostOneKernel
  BY DEF PathInv, ListenerOwnsPath, AtMostOneKernel, Running
<1> QED BY <1>1, <1>2, InitPath, PTL DEF Spec

----------------------------------------------------------------------------
(* The lockfile. Whoever removes it has removed its socket before, and when *)
(* nobody binds the path in between, nobody else has written the lockfile. *)

\* The lockfile names the daemon that listens, once it has written it.
ListenerOwnsLock ==
  \A d \in Daemon : at[d] \in {"locked", "serving", "unsock"} => lock = d

\* Nobody else listens while a daemon is about to remove the lockfile.
LeaverIsAlone ==
  \A d, e \in Daemon :
    at[d] = "unlock" => at[e] \notin {"lock", "locked", "serving", "unsock"}

LockInv == PathInv /\ ListenerOwnsLock /\ LeaverIsAlone

LEMMA InitLock == Init => LockInv
<1> SUFFICES ASSUME Init PROVE ListenerOwnsLock /\ LeaverIsAlone
  BY InitPath DEF LockInv
<1> QED BY DEF Init, ListenerOwnsLock, LeaverIsAlone

LEMMA LockStep ==
  ASSUME LockInv, {"takeover", "slow_exit"} \cap Faults = {}, [Next]_vars
  PROVE  LockInv'
<1>1. PathInv'
  BY PathStep DEF LockInv
<1> USE DEF LockInv, PathInv, ListenerOwnsPath, ListenerOwnsLock,
            LeaverIsAlone, Goes
<1>2. ASSUME NEW d \in Daemon,
             CheckExists(d) \/ Probe(d) \/ Stat(d) \/ Unlink(d) \/ Crash(d)
      PROVE  ListenerOwnsLock' /\ LeaverIsAlone'
  BY <1>2 DEF CheckExists, Probe, Stat, Unlink, Crash, TypeOK, files
<1>3. ASSUME NEW d \in Daemon, Bind(d) PROVE ListenerOwnsLock' /\ LeaverIsAlone'
  BY <1>3 DEF Bind, TypeOK
<1>4. ASSUME NEW d \in Daemon, WriteLock(d) \/ WriteLockFails(d)
      PROVE  ListenerOwnsLock' /\ LeaverIsAlone'
  BY <1>4 DEF WriteLock, WriteLockFails, TypeOK
<1>5. ASSUME NEW d \in Daemon, InstallShutdown(d) \/ SeeSignal(d)
      PROVE  ListenerOwnsLock' /\ LeaverIsAlone'
  BY <1>5 DEF InstallShutdown, SeeSignal, TypeOK, files
<1>6. ASSUME NEW d \in Daemon, RemoveSock(d) \/ RemoveLock(d)
      PROVE  ListenerOwnsLock' /\ LeaverIsAlone'
  BY <1>6 DEF RemoveSock, RemoveLock, TypeOK
<1>7. ASSUME NEW s \in Supervisor, Spawn(s)
      PROVE  ListenerOwnsLock' /\ LeaverIsAlone'
  BY <1>7 DEF Spawn, TypeOK, files
<1>8. ASSUME NEW s \in Supervisor, Request(s) \/ ClientStep(s), ~Spawn(s)
      PROVE  ListenerOwnsLock' /\ LeaverIsAlone'
  <2>1. UNCHANGED <<lock, at>>
    BY <1>8 DEF Request, ClientStep, Connect, SendFails, AnswerWarm,
       AnswerSkewed, Terminate, AwaitGone, EnsureAvailable, SpawnFails,
       AwaitUp, RetryAnswered, RetryFails, files, daemon
  <2> QED BY <2>1
<1>9. CASE UNCHANGED vars
  <2>1. UNCHANGED <<lock, at>>
    BY <1>9 DEF vars, files, daemon
  <2> QED BY <1>1, <2>1
<1> QED
  BY <1>1, <1>2, <1>3, <1>4, <1>5, <1>6, <1>7, <1>8, <1>9 DEF Next, DaemonStep

\* A kernel that serves is found by its socket path and named by its lockfile,
\* however many supervisors stop and start kernels and whatever dies: as long
\* as no daemon binds the path while another is about to remove what it found
\* stale, or its own lockfile.
THEOREM KernelIsFound ==
  ASSUME {"takeover", "slow_exit"} \cap Faults = {}
  PROVE  Spec => []ServingKernelIsFound
<1>1. LockInv /\ [Next]_vars => LockInv'
  BY LockStep
<1>2. LockInv => ServingKernelIsFound
  BY DEF LockInv, PathInv, ListenerOwnsPath, ListenerOwnsLock,
         ServingKernelIsFound
<1> QED BY <1>1, <1>2, InitLock, PTL DEF Spec

----------------------------------------------------------------------------
(* The upgrade. The pid in the lockfile is that of the kernel of another   *)
(* version, as long as that one listens; once it does not, it never will.  *)

\* A daemon of another version serves or leaves.
Left(d) == at[d] \in {"unlock", "dead"}
OldPhases == \A d \in old : at[d] \in {"serving", "unsock"} \/ Left(d)

\* A supervisor that upgrades has signalled the old kernel, then seen it gone.
OldLeaves ==
  \A s \in Supervisor :
    /\ pc[s] \in {"send", "sent"} => label[s] # "Upgraded"
    /\ label[s] = "Upgraded" =>
         /\ pc[s] = "gone" => \A d \in old : d \in term \/ Left(d)
         /\ pc[s] \in {"ensure", "up", "resend"} => \A d \in old : Left(d)
         /\ pc[s] = "resent" => peer[s] \notin old

UpgradeInv == LockInv /\ OldPhases /\ OldLeaves /\ UpgradedMeansCurrent

LEMMA InitUpgrade == Init => UpgradeInv
<1> SUFFICES ASSUME Init PROVE OldPhases /\ OldLeaves /\ UpgradedMeansCurrent
  BY InitLock DEF UpgradeInv
<1>1. OldPhases
  BY DEF Init, OldPhases, Left
<1>2. OldLeaves /\ UpgradedMeansCurrent
  BY DEF Init, OldLeaves, UpgradedMeansCurrent
<1> QED BY <1>1, <1>2

\* A daemon step never brings an old kernel back.
LEMMA DaemonUpgrade ==
  ASSUME UpgradeInv, NEW d \in Daemon, DaemonStep(d) \/ Crash(d)
  PROVE  OldPhases' /\ OldLeaves' /\ UpgradedMeansCurrent'
<1>1. /\ old' = old /\ term' = term /\ UNCHANGED client
      /\ \A e \in Daemon : e # d => at'[e] = at[e]
  BY DEF DaemonStep, Crash, CheckExists, Probe, Stat, Unlink, Bind, WriteLock,
         WriteLockFails, InstallShutdown, SeeSignal, RemoveSock, RemoveLock,
         Goes, UpgradeInv, LockInv, PathInv, TypeOK
<1>2. /\ at[d] = "serving" => at'[d] \in {"unsock", "dead"}
      /\ at[d] = "unsock" => at'[d] \in {"unlock", "dead"}
      /\ Left(d) => Left(d)'
  BY DEF DaemonStep, Crash, CheckExists, Probe, Stat, Unlink, Bind, WriteLock,
         WriteLockFails, InstallShutdown, SeeSignal, RemoveSock, RemoveLock,
         Goes, UpgradeInv, LockInv, PathInv, TypeOK, Left
<1>3. \A e \in old : e \in Daemon /\ (Left(e) => Left(e)')
  BY <1>1, <1>2 DEF UpgradeInv, LockInv, PathInv, TypeOK, Left
<1> QED
  BY <1>1, <1>2, <1>3
  DEF client, UpgradeInv, OldPhases, OldLeaves, UpgradedMeansCurrent, Left

\* An old kernel that listens is available, and the lockfile names it.
LEMMA OldIsKnown ==
  ASSUME UpgradeInv, NEW d \in old, ~Left(d)
  PROVE  sock = d /\ lock = d /\ Available /\ d \in Daemon /\ at[d] # "dead"
BY DEF UpgradeInv, OldPhases, LockInv, PathInv, ListenerOwnsPath,
       ListenerOwnsLock, TypeOK, Available, Listening, Left

LEMMA ClientUpgrade ==
  ASSUME UpgradeInv, "slow_exit" \notin Faults,
         NEW s \in Supervisor, Request(s) \/ ClientStep(s)
  PROVE  OldPhases' /\ OldLeaves' /\ UpgradedMeansCurrent'
<1> USE DEF UpgradeInv, LockInv, PathInv, TypeOK, OldPhases, OldLeaves,
            UpgradedMeansCurrent, files, daemon, Left
<1>1. CASE Request(s)
  BY <1>1 DEF Request, Moves
<1>2. CASE Connect(s)
  BY <1>2 DEF Connect, Available, Listening, PathIsBound
<1>3. CASE SendFails(s)
  BY <1>3 DEF SendFails
<1>4. CASE AnswerWarm(s)
  BY <1>4 DEF AnswerWarm
<1>5. CASE AnswerSkewed(s)
  BY <1>5 DEF AnswerSkewed
<1>6. CASE Terminate(s)
  BY <1>6, OldIsKnown DEF Terminate, Moves
<1>7. CASE AwaitGone(s)
  BY <1>7, OldIsKnown DEF AwaitGone, Moves
<1>8. CASE Spawn(s)
  BY <1>8 DEF Spawn, Moves
<1>9. CASE EnsureAvailable(s) \/ SpawnFails(s) \/ AwaitUp(s)
  BY <1>9 DEF EnsureAvailable, SpawnFails, AwaitUp, Moves
<1>10. CASE RetryAnswered(s)
  BY <1>10 DEF RetryAnswered, Finish
<1>11. CASE RetryFails(s)
  BY <1>11 DEF RetryFails, Finish
<1> QED
  BY <1>1, <1>2, <1>3, <1>4, <1>5, <1>6, <1>7, <1>8, <1>9, <1>10, <1>11
  DEF ClientStep

\* A request that reports an upgrade was answered by a kernel of this version:
\* the kernel that was stopped is the old one, and it is not reached again.
THEOREM UpgradeHolds ==
  ASSUME {"takeover", "slow_exit"} \cap Faults = {}
  PROVE  Spec => []UpgradedMeansCurrent
<1>1. UpgradeInv /\ [Next]_vars => UpgradeInv'
  <2> SUFFICES ASSUME UpgradeInv, [Next]_vars PROVE UpgradeInv'
    OBVIOUS
  <2>1. LockInv'
    BY LockStep DEF UpgradeInv
  <2>2. CASE \E d \in Daemon : DaemonStep(d) \/ Crash(d)
    BY <2>1, <2>2, DaemonUpgrade DEF UpgradeInv
  <2>3. CASE \E s \in Supervisor : Request(s) \/ ClientStep(s)
    BY <2>1, <2>3, ClientUpgrade DEF UpgradeInv
  <2>4. CASE UNCHANGED vars
    BY <2>1, <2>4
    DEF vars, daemon, client, UpgradeInv, OldPhases, OldLeaves,
        UpgradedMeansCurrent, Left
  <2> QED BY <2>2, <2>3, <2>4 DEF Next
<1>2. UpgradeInv => UpgradedMeansCurrent
  BY DEF UpgradeInv
<1> QED BY <1>1, <1>2, InitUpgrade, PTL DEF Spec
============================================================================
