------------------------ MODULE KernelServicesProofs ------------------------
(***************************************************************************)
(* Theorems of the components of KernelServices, for any number of         *)
(* records, transcripts, entries, messages, questions, mounts and stores.  *)
(***************************************************************************)
EXTENDS KernelServices, Sequences, TLAPS, FiniteSetTheorems,
        WellFoundedInduction

----------------------------------------------------------------------------
(* The search index. An index is called complete when it was reconciled    *)
(* with the store; what the store gets afterwards is handed to it, waits   *)
(* to be, or is among what it was not told of.                             *)

CompleteCovers ==
  complete =>
    entries # NoIndex /\ Warm!Indexable(store) \subseteq entries \cup unseen \cup captured

WarmInv == Warm!TypeOK /\ CompleteCovers /\ Warm!SearchFindsTheStore

LEMMA InitWarm == Warm!Init => WarmInv
BY DEF Warm!Init, WarmInv, Warm!TypeOK, Warm!Entries, CompleteCovers,
       Warm!SearchFindsTheStore

\* The world changes under the index.
LEMMA WorldStep ==
  ASSUME WarmInv, NEW r \in WarmRecord,
         \/ Warm!Put(r) \/ Warm!Capture(r) \/ Warm!Prune(r)
         \/ Warm!Quarantine(r) \/ Warm!Release(r)
  PROVE  WarmInv'
<1> USE DEF WarmInv, Warm!TypeOK, Warm!Entries, CompleteCovers,
        Warm!SearchFindsTheStore, Warm!Indexable, Warm!NotTold, Warm!memory
<1>1. CASE Warm!Put(r)
  BY <1>1 DEF Warm!Put
<1>2. CASE Warm!Capture(r)
  BY <1>2 DEF Warm!Capture
<1>3. CASE Warm!Prune(r)
  BY <1>3 DEF Warm!Prune
<1>4. CASE Warm!Quarantine(r)
  BY <1>4 DEF Warm!Quarantine
<1>5. CASE Warm!Release(r)
  BY <1>5 DEF Warm!Release
<1> QED BY <1>1, <1>2, <1>3, <1>4, <1>5

LEMMA WarmStep ==
  ASSUME "start" \notin WarmErrors, WarmInv, [Warm!Next]_(Warm!vars)
  PROVE  WarmInv'
<1> USE KernelAssumption
    DEF WarmInv, Warm!TypeOK, Warm!Entries, CompleteCovers,
        Warm!SearchFindsTheStore, Warm!Indexable, Warm!NotTold, Warm!world,
        Warm!Reconciled
<1>1. CASE \E r \in WarmRecord :
             \/ Warm!Put(r) \/ Warm!Capture(r) \/ Warm!Prune(r)
             \/ Warm!Quarantine(r) \/ Warm!Release(r)
  BY <1>1, WorldStep
<1>2. CASE Warm!Start
  BY <1>2 DEF Warm!Start
<1>3. CASE Warm!Append
  BY <1>3 DEF Warm!Append
<1>4. CASE Warm!AppendFails
  BY <1>4 DEF Warm!AppendFails
<1>5. CASE Warm!Expire
  BY <1>5 DEF Warm!Expire
<1>6. CASE Warm!Search
  BY <1>6 DEF Warm!Search
<1>7. CASE Warm!Shutdown
  BY <1>7 DEF Warm!Shutdown
<1>8. CASE Warm!Crash
  BY <1>8 DEF Warm!Crash
<1>9. CASE UNCHANGED Warm!vars
  BY <1>9 DEF Warm!vars, Warm!memory
<1> QED
  BY <1>1, <1>2, <1>3, <1>4, <1>5, <1>6, <1>7, <1>8, <1>9 DEF Warm!Next

\* When the reconciliation at the start does not fail, a search ranks every
\* record of the store that is not quarantined, but for those put there behind
\* a complete index's back and those about to be handed to it, whatever is
\* captured, collected, quarantined and restarted meanwhile and whatever
\* snapshot the kernel began with (prepare_index_for_search,
\* kernel/src/state.rs).
THEOREM SearchesCover ==
  ASSUME "start" \notin WarmErrors
  PROVE  Warm!Spec => []SearchFindsTheStore
<1>1. WarmInv /\ [Warm!Next]_(Warm!vars) => WarmInv'
  BY WarmStep
<1>2. WarmInv => SearchFindsTheStore
  BY DEF WarmInv, SearchFindsTheStore
<1> QED BY <1>1, <1>2, InitWarm, PTL DEF Warm!Spec

\* The types are kept whatever fails.
LEMMA WarmType == Warm!Spec => []Warm!TypeOK
<1>1. Warm!Init => Warm!TypeOK
  BY DEF Warm!Init, Warm!TypeOK, Warm!Entries
<1>2. ASSUME Warm!TypeOK, [Warm!Next]_(Warm!vars) PROVE Warm!TypeOK'
  <2> USE <1>2 DEF Warm!TypeOK, Warm!Entries, Warm!Indexable, Warm!NotTold,
                   Warm!world, Warm!memory, Warm!Reconciled
  <2>1. ASSUME NEW r \in WarmRecord,
               \/ Warm!Put(r) \/ Warm!Capture(r) \/ Warm!Prune(r)
               \/ Warm!Quarantine(r) \/ Warm!Release(r)
        PROVE  Warm!TypeOK'
    BY <2>1 DEF Warm!Put, Warm!Capture, Warm!Prune, Warm!Quarantine,
                Warm!Release
  <2>2. CASE Warm!Start
    BY <2>2 DEF Warm!Start
  <2>3. CASE Warm!Append
    BY <2>3 DEF Warm!Append
  <2>4. CASE Warm!AppendFails \/ Warm!Expire
    BY <2>4 DEF Warm!AppendFails, Warm!Expire
  <2>5. CASE Warm!Search
    BY <2>5 DEF Warm!Search
  <2>6. CASE Warm!Shutdown \/ Warm!Crash
    BY <2>6 DEF Warm!Shutdown, Warm!Crash
  <2>7. CASE UNCHANGED Warm!vars
    BY <2>7 DEF Warm!vars
  <2> QED
    BY <2>1, <2>2, <2>3, <2>4, <2>5, <2>6, <2>7 DEF Warm!Next
<1> QED BY <1>1, <1>2, PTL DEF Warm!Spec

----------------------------------------------------------------------------
(* The host of the GUI. Mounts of a store take turns up to the bind: who   *)
(* finds no host knows that there is none, since a host, once it serves,   *)
(* is in the lock and answers on its port.                                 *)

\* Of some numbers one is the least.
LEMMA LeastNumber ==
  ASSUME NEW T \in SUBSET Nat, T # {}
  PROVE  \E x \in T : \A y \in T : x <= y
<1> DEFINE Less == {p \in Nat \X Nat : p[1] < p[2]}
<1>1. IsWellFoundedOn(Less, Nat)
  BY NatLessThanWellFounded DEF OpToRel
<1>2. \A x, y \in Nat : y < x => <<y, x>> \in Less
  OBVIOUS
<1> HIDE DEF Less
<1>3. PICK x \in T : \A y \in T : ~ (<<y, x>> \in Less)
  BY <1>1, WFMin
<1>4. ASSUME NEW y \in T PROVE x <= y
  <2>1. x \in Nat /\ y \in Nat /\ ~ (y < x)
    BY <1>2, <1>3
  <2> QED
    BY <2>1
<1> QED
  BY <1>4

\* Between reading the lock and binding, a mount is the store's only one; past
\* the probe, nobody hosts the store; at the probe, a host is on that port.
MountingAlone ==
  \A m, n \in Mount : m # n /\ StoreOf[m] = StoreOf[n] /\ Host!Mounting(m) =>
    /\ ~Host!Mounting(n)
    /\ n \in Host!Hosts(StoreOf[m]) => at[m] = "probing" /\ port[n] = port[m]

\* Who serves a store is its only host and the one its lock names.
OneServes ==
  \A m \in Mount : at[m] = "serving" =>
    /\ gui[StoreOf[m]] = [pid |-> m, port |-> port[m]]
    /\ \A n \in Mount : StoreOf[n] = StoreOf[m] /\ at[n] = "serving" => n = m

\* What each variable is a function of.
HostTyped ==
  /\ at \in [Mount -> {"idle", "probing", "alone", "picked"} \cup Host!Up]
  /\ DOMAIN port = Mount /\ DOMAIN gui = Host!Store

HostInv == HostTyped /\ MountingAlone /\ OneServes

LEMMA InitHost == Host!Init => HostInv
BY DEF Host!Init, HostInv, HostTyped, MountingAlone, OneServes,
       Host!Mounting, Host!Hosts

LEMMA HostStep ==
  ASSUME GuiOverlaps \cap {"mounts", "no_reuse"} = {},
         HostInv, [Host!Next]_(Host!vars)
  PROVE  HostInv'
<1> USE KernelAssumption
    DEF HostInv, HostTyped, MountingAlone, OneServes, Host!Mounting,
        Host!Hosts, Host!Up, Host!Store
<1>1. ASSUME NEW m \in Mount, Host!ReadLock(m) PROVE HostInv'
  <2> DEFINE lock == gui[StoreOf[m]]
  <2>1. /\ at[m] = "idle"
        /\ \A n \in Mount : StoreOf[n] = StoreOf[m] => ~Host!Mounting(n)
        /\ port' = [port EXCEPT ![m] = lock.port]
        /\ at' = [at EXCEPT ![m] = IF lock = Host!NoLock THEN "alone"
                                                        ELSE "probing"]
        /\ gui' = gui
    BY <1>1 DEF Host!ReadLock, Host!MayMount
  <2>2. \A n \in Mount : n # m => at'[n] = at[n] /\ port'[n] = port[n]
    BY <2>1
  <2>3. \A n \in Host!Hosts(StoreOf[m]) :
          at[n] = "serving" /\ lock # Host!NoLock /\ lock.port = port[n]
    <3> SUFFICES ASSUME NEW n \in Mount, StoreOf[n] = StoreOf[m],
                        at[n] \in {"bound", "serving"}
                 PROVE  /\ at[n] = "serving"
                        /\ lock # Host!NoLock /\ lock.port = port[n]
      OBVIOUS
    <3>1. at[n] = "serving"
      BY <2>1
    <3>2. lock = [pid |-> n, port |-> port[n]]
      BY <3>1
    <3>3. lock.pid = n /\ lock.port = port[n] /\ Host!NoLock.pid = Nobody
      BY <3>2 DEF Host!NoLock
    <3> QED BY <3>1, <3>3
  <2>4. MountingAlone'
    BY <2>1, <2>2, <2>3
  <2>5. HostTyped'
    BY <2>1
  <2>6. OneServes'
    BY <2>1, <2>2
  <2> QED BY <2>4, <2>5, <2>6
<1>2. ASSUME NEW m \in Mount, Host!Anyway(m) PROVE HostInv'
  BY <1>2 DEF Host!Anyway
<1>3. ASSUME NEW m \in Mount, Host!Reuse(m) PROVE HostInv'
  BY <1>3 DEF Host!Reuse
<1>4. ASSUME NEW m \in Mount, Host!NoAnswer(m) PROVE HostInv'
  BY <1>4 DEF Host!NoAnswer, Host!Listeners
<1>5. ASSUME NEW m \in Mount, Host!Pick(m) PROVE HostInv'
  <2>1. PICK p : port' = [port EXCEPT ![m] = p]
    BY <1>5 DEF Host!Pick
  <2>2. at[m] = "alone" /\ at' = [at EXCEPT ![m] = "picked"] /\ gui' = gui
    BY <1>5 DEF Host!Pick
  <2>3. \A n \in Mount : n # m => at'[n] = at[n] /\ port'[n] = port[n]
    BY <2>1, <2>2
  <2>4. MountingAlone'
    BY <2>2, <2>3
  <2>5. HostTyped'
    BY <2>1, <2>2
  <2> QED BY <2>2, <2>3, <2>4, <2>5
<1>6. ASSUME NEW m \in Mount, Host!Bind(m) PROVE HostInv'
  BY <1>6 DEF Host!Bind
<1>7. ASSUME NEW m \in Mount, Host!WriteLock(m) PROVE HostInv'
  <2>1. /\ at[m] = "bound" /\ at' = [at EXCEPT ![m] = "serving"]
        /\ gui' = [gui EXCEPT ![StoreOf[m]] = [pid |-> m, port |-> port[m]]]
        /\ port' = port
    BY <1>7 DEF Host!WriteLock
  <2>2. HostTyped'
    BY <2>1
  <2>3. MountingAlone'
    BY <2>1
  <2>4. OneServes'
    BY <2>1
  <2> QED BY <2>2, <2>3, <2>4
<1>8. ASSUME NEW m \in Mount, Host!Stop(m) PROVE HostInv'
  <2>1. /\ at[m] = "serving" /\ at' = [at EXCEPT ![m] = "stopping"]
        /\ gui' = [gui EXCEPT ![StoreOf[m]] = Host!NoLock]
        /\ port' = port
    BY <1>8 DEF Host!Stop
  <2>2. HostTyped'
    BY <2>1
  <2>3. MountingAlone'
    BY <2>1
  <2>4. OneServes'
    BY <2>1
  <2> QED BY <2>2, <2>3, <2>4
<1>9. ASSUME NEW m \in Mount, Host!Exit(m) \/ Host!Kill(m) PROVE HostInv'
  BY <1>9 DEF Host!Exit, Host!Kill
<1>10. CASE UNCHANGED Host!vars
  BY <1>10 DEF Host!vars
<1> QED
  BY <1>1, <1>2, <1>3, <1>4, <1>5, <1>6, <1>7, <1>8, <1>9, <1>10
  DEF Host!Next

\* When the mounts of a store take turns and ask for reuse, a store is served
\* at most once and its lock names who serves it, however mounts, shutdowns
\* and kills of this and other stores come between (cmd_gui, cli/src/main.rs).
THEOREM StoresServedOnce ==
  ASSUME GuiOverlaps \cap {"mounts", "no_reuse"} = {}
  PROVE  Host!Spec => []OneHostFound
<1>1. HostInv /\ [Host!Next]_(Host!vars) => HostInv'
  BY HostStep
<1>2. HostInv => OneHostFound
  BY ZenonT(60) DEF HostInv, MountingAlone, OneServes, OneHostFound, Host!OneHostFound,
         Host!Hosts, Host!Mounting
<1> QED BY <1>1, <1>2, InitHost, PTL DEF Host!Spec

\* The types are kept whatever overlaps.
LEMMA HostType == Host!Spec => []Host!TypeOK
<1>1. Host!Init => Host!TypeOK
  BY KernelAssumption DEF Host!Init, Host!TypeOK, Host!Store, Host!NoLock
<1>2. ASSUME Host!TypeOK, [Host!Next]_(Host!vars) PROVE Host!TypeOK'
  <2> USE <1>2, KernelAssumption
      DEF Host!TypeOK, Host!Store, Host!Up, Host!NoLock
  <2>1. ASSUME NEW m \in Mount, Host!ReadLock(m) PROVE Host!TypeOK'
    <3>1. gui[StoreOf[m]].port \in 0..Ports
      OBVIOUS
    <3> QED BY <2>1, <3>1 DEF Host!ReadLock
  <2>2. ASSUME NEW m \in Mount, Host!Pick(m) PROVE Host!TypeOK'
    <3> DEFINE free == {p \in 1..Ports : Host!Listeners(p) = {}}
    <3>1. ASSUME free # {} PROVE Host!Min(free) \in free
      <4>1. free \in SUBSET Nat
        OBVIOUS
      <4> HIDE DEF free
      <4>2. \E p \in free : \A q \in free : p <= q
        BY <3>1, <4>1, LeastNumber
      <4> QED BY <4>2 DEF Host!Min
    <3>2. port' = [port EXCEPT ![m] = IF free = {} THEN 1 ELSE Host!Min(free)]
      BY <2>2 DEF Host!Pick
    <3>3. (IF free = {} THEN 1 ELSE Host!Min(free)) \in 0..Ports
      BY <3>1
    <3> QED BY <2>2, <3>2, <3>3 DEF Host!Pick
  <2>3. ASSUME NEW m \in Mount, Host!WriteLock(m) PROVE Host!TypeOK'
    <3>1. [pid |-> m, port |-> port[m]]
            \in [pid : Mount \cup {Nobody}, port : 0..Ports]
      OBVIOUS
    <3> QED BY <2>3, <3>1 DEF Host!WriteLock
  <2>4. ASSUME NEW m \in Mount,
               \/ Host!Anyway(m) \/ Host!Reuse(m) \/ Host!NoAnswer(m)
               \/ Host!Bind(m) \/ Host!Stop(m) \/ Host!Exit(m) \/ Host!Kill(m)
        PROVE  Host!TypeOK'
    BY <2>4 DEF Host!Anyway, Host!Reuse, Host!NoAnswer, Host!Bind, Host!Stop,
                Host!Exit, Host!Kill
  <2>5. CASE UNCHANGED Host!vars
    BY <2>5 DEF Host!vars
  <2> QED
    BY <2>1, <2>2, <2>3, <2>4, <2>5 DEF Host!Next
<1> QED BY <1>1, <1>2, PTL DEF Host!Spec

----------------------------------------------------------------------------
(* Capture. A pass runs from the position to the end it found, one line    *)
(* after the other, and the position follows; the day's map that a pass    *)
(* has read is the one it binds again.                                     *)

Recorded(t, i) == <<t, i>> \in day \cup failed

\* A thread that runs knows where its transcript was taken from; a pass is
\* alone, and every line before the one it is at is recorded.
PassingAlone ==
  \A t \in Thread :
    /\ capturePc[t] # "down" \/ saved[t] # -1 => from[t] # -1
    /\ capturePc[t] \in {"next", "bind", "save"} =>
         \A u \in Thread : capturePc[u] \in {"next", "bind", "save"} => u = t
    /\ capturePc[t] \in {"next", "bind"} =>
         /\ event[t] >= 1 /\ event[t] <= upto[t] + 1
         /\ \A i \in 1..MaxLine :
              from[t] < i /\ i < event[t] => Recorded(t, i)
    /\ capturePc[t] = "bind" => event[t] <= upto[t] /\ dayRead[t] = day

CaptureInv == Harness!TypeOK /\ PassingAlone /\ Harness!NothingSkipped

LEMMA InitCapture == Harness!Init => CaptureInv
BY KernelAssumption
DEF Harness!Init, CaptureInv, Harness!TypeOK, Harness!Position, PassingAlone,
    Harness!NothingSkipped

LEMMA CaptureStep ==
  ASSUME "together" \notin CaptureOverlaps,
         CaptureInv, [Harness!Next]_(Harness!vars)
  PROVE  CaptureInv'
<1> USE KernelAssumption
    DEF CaptureInv, Harness!TypeOK, Harness!Position, Harness!Event,
        PassingAlone, Recorded, Harness!NothingSkipped, Harness!Goes,
        Harness!pass, Harness!history
<1>1. ASSUME NEW t \in Thread, Harness!Write(t) PROVE CaptureInv'
  <2>1. lines' \in [Thread -> Harness!Position]
    BY <1>1 DEF Harness!Write
  <2> QED BY <1>1, <2>1 DEF Harness!Write
<1>2. ASSUME NEW t \in Thread, Harness!Start(t) PROVE CaptureInv'
  BY <1>2 DEF Harness!Start, Harness!Seed
<1>3. ASSUME NEW t \in Thread, Harness!Pass(t) PROVE CaptureInv'
  BY <1>3 DEF Harness!Pass
<1>4. ASSUME NEW t \in Thread, Harness!Record(t) PROVE CaptureInv'
  BY <1>4 DEF Harness!Record, Harness!Current
<1>5. ASSUME NEW t \in Thread, Harness!Bind(t) PROVE CaptureInv'
  <2>1. /\ capturePc[t] = "bind" /\ event[t] \in 1..MaxLine
        /\ event[t] <= upto[t] /\ dayRead[t] = day
    BY <1>5 DEF Harness!Bind
  <2>2. /\ capturePc' = [capturePc EXCEPT ![t] = "next"]
        /\ event' = [event EXCEPT ![t] = @ + 1]
        /\ dayRead' = [dayRead EXCEPT ![t] = {}]
        /\ grew' = [grew EXCEPT ![t] = TRUE]
        /\ day' = day \cup {<<t, event[t]>>}
        /\ UNCHANGED <<lines, saved, offset, upto, from, failed>>
    BY <1>5, <2>1 DEF Harness!Bind, Harness!Current
  <2>3. Harness!TypeOK'
    <3>1. event[t] + 1 \in 0..(MaxLine + 1) /\ <<t, event[t]>> \in Harness!Event
      BY <2>1
    <3> QED BY <2>2, <3>1
  <2>4. \A i \in 1..MaxLine :
          from[t] < i /\ i < event[t] + 1 => <<t, i>> \in day' \cup failed'
    <3> SUFFICES ASSUME NEW i \in 1..MaxLine, from[t] < i, i < event[t] + 1
                 PROVE  <<t, i>> \in day' \cup failed'
      OBVIOUS
    <3>1. CASE i = event[t]
      BY <2>2, <3>1
    <3>2. CASE i < event[t]
      BY <2>1, <2>2, <3>2
    <3>3. i \in Int /\ event[t] \in Int
      BY <2>1
    <3>4. \A n, k \in Int : n < k + 1 => n = k \/ n < k
      OBVIOUS
    <3> QED BY <3>1, <3>2, <3>3, <3>4
  <2>5. PassingAlone'
    BY <2>1, <2>2, <2>4
  <2>6. Harness!NothingSkipped'
    BY <2>1, <2>2
  <2> QED BY <2>3, <2>5, <2>6
<1>6. ASSUME NEW t \in Thread, Harness!Skip(t) PROVE CaptureInv'
  <2>1. capturePc[t] = "next" /\ event[t] \in 1..MaxLine /\ event[t] <= upto[t]
    BY <1>6 DEF Harness!Skip
  <2>2. /\ event' = [event EXCEPT ![t] = @ + 1]
        /\ day \cup failed \cup {<<t, event[t]>>} \subseteq day' \cup failed'
        /\ failed' \subseteq failed \cup {<<t, event[t]>>}
        /\ UNCHANGED <<lines, saved, offset, capturePc, upto, dayRead, grew, day,
                       from>>
    BY <1>6, <2>1 DEF Harness!Skip, Harness!Current
  <2>3. Harness!TypeOK'
    <3>1. event[t] + 1 \in 0..(MaxLine + 1) /\ <<t, event[t]>> \in Harness!Event
      BY <2>1
    <3> QED BY <2>2, <3>1
  <2>4. \A i \in 1..MaxLine :
          from[t] < i /\ i < event[t] + 1 => <<t, i>> \in day' \cup failed'
    <3> SUFFICES ASSUME NEW i \in 1..MaxLine, from[t] < i, i < event[t] + 1
                 PROVE  <<t, i>> \in day' \cup failed'
      OBVIOUS
    <3>1. CASE i = event[t]
      BY <2>2, <3>1
    <3>2. CASE i < event[t]
      BY <2>1, <2>2, <3>2
    <3>3. i \in Int /\ event[t] \in Int
      BY <2>1
    <3>4. \A n, k \in Int : n < k + 1 => n = k \/ n < k
      OBVIOUS
    <3> QED BY <3>1, <3>2, <3>3, <3>4
  <2>5. PassingAlone'
    BY <2>1, <2>2, <2>4
  <2>6. Harness!NothingSkipped'
    BY <2>1, <2>2
  <2> QED BY <2>3, <2>5, <2>6
<1>7. ASSUME NEW t \in Thread, Harness!Finish(t) PROVE CaptureInv'
  BY <1>7 DEF Harness!Finish
<1>8. ASSUME NEW t \in Thread, Harness!Save(t) PROVE CaptureInv'
  BY <1>8 DEF Harness!Save
<1>9. CASE Harness!Kill
  BY <1>9 DEF Harness!Kill
<1>10. CASE UNCHANGED Harness!vars
  BY <1>10 DEF Harness!vars
<1> QED
  BY <1>1, <1>2, <1>3, <1>4, <1>5, <1>6, <1>7, <1>8, <1>9, <1>10
  DEF Harness!Next

\* When passes take turns, no line of a transcript is passed over: each that
\* lies between where the transcript was taken from and the position, the one
\* in memory or the one on disk, is in the day's map or was found not to be
\* recordable, wherever the daemon is killed and starts again
\* (capture_once, adapter-claude-code/src/lib.rs).
THEOREM LinesAreRecorded ==
  ASSUME "together" \notin CaptureOverlaps
  PROVE  Harness!Spec => []NothingSkipped
<1>1. CaptureInv /\ [Harness!Next]_(Harness!vars) => CaptureInv'
  BY CaptureStep
<1>2. CaptureInv => NothingSkipped
  BY DEF CaptureInv, NothingSkipped
<1> QED BY <1>1, <1>2, InitCapture, PTL DEF Harness!Spec

\* Without the assumption: what a transcript has, a thread that passes over it,
\* and what is taken as recorded, stay within it.
Written == {e \in Harness!Event : e[2] <= lines[e[1]]}
WithinTranscript ==
  /\ Harness!TypeOK
  /\ \A t \in Thread :
       /\ saved[t] <= lines[t] /\ offset[t] <= lines[t]
       /\ capturePc[t] \in {"next", "bind"} =>
            /\ upto[t] <= lines[t]
            /\ event[t] >= 1 /\ event[t] <= upto[t] + 1
       /\ capturePc[t] = "bind" => event[t] <= upto[t]
       /\ dayRead[t] \subseteq Written
  /\ day \cup failed \subseteq Written

LEMMA WithinStep ==
  ASSUME WithinTranscript, [Harness!Next]_(Harness!vars)
  PROVE  WithinTranscript'
<1> USE KernelAssumption
    DEF WithinTranscript, Written, Harness!TypeOK, Harness!Position,
        Harness!Event, Harness!Goes, Harness!pass, Harness!history
<1>1. ASSUME NEW t \in Thread, Harness!Write(t) PROVE WithinTranscript'
  <2>1. /\ lines' \in [Thread -> Harness!Position]
        /\ \A u \in Thread : lines[u] <= lines'[u]
    BY <1>1 DEF Harness!Write
  <2>2. Written \subseteq Written'
    BY <2>1
  <2> QED BY <1>1, <2>1, <2>2 DEF Harness!Write
<1>2. ASSUME NEW t \in Thread, Harness!Start(t) PROVE WithinTranscript'
  BY <1>2 DEF Harness!Start, Harness!Seed
<1>3. ASSUME NEW t \in Thread, Harness!Pass(t) PROVE WithinTranscript'
  BY <1>3 DEF Harness!Pass
<1>4. ASSUME NEW t \in Thread, Harness!Record(t) PROVE WithinTranscript'
  BY <1>4 DEF Harness!Record, Harness!Current
<1>5. ASSUME NEW t \in Thread, Harness!Bind(t) PROVE WithinTranscript'
  <2>1. <<t, event[t]>> \in Written /\ event[t] + 1 \in 0..(MaxLine + 1)
    BY <1>5 DEF Harness!Bind
  <2> QED BY <1>5, <2>1 DEF Harness!Bind, Harness!Current
<1>6. ASSUME NEW t \in Thread, Harness!Skip(t) PROVE WithinTranscript'
  <2>1. <<t, event[t]>> \in Written /\ event[t] + 1 \in 0..(MaxLine + 1)
    BY <1>6 DEF Harness!Skip
  <2>2. failed' \subseteq failed \cup {<<t, event[t]>>}
    BY <1>6 DEF Harness!Skip, Harness!Current
  <2> QED BY <1>6, <2>1, <2>2 DEF Harness!Skip
<1>7. ASSUME NEW t \in Thread, Harness!Finish(t) PROVE WithinTranscript'
  BY <1>7 DEF Harness!Finish
<1>8. ASSUME NEW t \in Thread, Harness!Save(t) PROVE WithinTranscript'
  BY <1>8 DEF Harness!Save
<1>9. CASE Harness!Kill
  BY <1>9 DEF Harness!Kill
<1>10. CASE UNCHANGED Harness!vars
  BY <1>10 DEF Harness!vars
<1> QED
  BY <1>1, <1>2, <1>3, <1>4, <1>5, <1>6, <1>7, <1>8, <1>9, <1>10
  DEF Harness!Next

LEMMA InitWithin == Harness!Init => WithinTranscript
BY KernelAssumption
DEF Harness!Init, WithinTranscript, Written, Harness!TypeOK, Harness!Position

\* Even when passes overlap and lose each other's events, what the day's map
\* has, and what was found not to be recordable, are lines a transcript has,
\* and no position, in memory or on disk, is past its transcript's end
\* (capture_once, adapter-claude-code/src/lib.rs).
THEOREM RecordedWasWritten ==
  Harness!Spec =>
    [](/\ day \cup failed \subseteq Written
       /\ \A t \in Thread : saved[t] <= lines[t] /\ offset[t] <= lines[t])
<1>1. WithinTranscript =>
        /\ day \cup failed \subseteq Written
        /\ \A t \in Thread : saved[t] <= lines[t] /\ offset[t] <= lines[t]
  BY DEF WithinTranscript
<1>2. WithinTranscript /\ [Harness!Next]_(Harness!vars) => WithinTranscript'
  BY WithinStep
<1> QED BY <1>1, <1>2, InitWithin, PTL DEF Harness!Spec

\* The types are kept whatever overlaps.
LEMMA CaptureType == Harness!Spec => []Harness!TypeOK
<1>1. WithinTranscript => Harness!TypeOK
  BY DEF WithinTranscript
<1>2. WithinTranscript /\ [Harness!Next]_(Harness!vars) => WithinTranscript'
  BY WithinStep
<1> QED BY <1>1, <1>2, InitWithin, PTL DEF Harness!Spec

\* When passes take turns, a day only grows: no thread writes back a map that
\* lacks what another put there (record_event_in_day,
\* core/src/binding.rs).
THEOREM DayGrows ==
  ASSUME "together" \notin CaptureOverlaps
  PROVE  Harness!Spec => [][day \subseteq day']_(Harness!vars)
<1>1. CaptureInv /\ [Harness!Next]_(Harness!vars) => CaptureInv'
  BY CaptureStep
<1>2. CaptureInv /\ [Harness!Next]_(Harness!vars)
        => [day \subseteq day']_(Harness!vars)
  <2> SUFFICES ASSUME CaptureInv, Harness!Next PROVE day \subseteq day'
    OBVIOUS
  <2>1. ASSUME NEW t \in Thread, Harness!Bind(t) PROVE day \subseteq day'
    BY <2>1 DEF CaptureInv, PassingAlone, Harness!Bind, Harness!Goes
  <2>2. ASSUME NEW t \in Thread,
               \/ Harness!Write(t) \/ Harness!Start(t) \/ Harness!Pass(t)
               \/ Harness!Record(t) \/ Harness!Skip(t) \/ Harness!Finish(t)
               \/ Harness!Save(t)
        PROVE  day' = day
    BY <2>2 DEF Harness!Write, Harness!Start, Harness!Pass, Harness!Record,
                Harness!Skip, Harness!Finish, Harness!Save, Harness!history
  <2>3. CASE Harness!Kill
    BY <2>3 DEF Harness!Kill
  <2> QED BY <2>1, <2>2, <2>3 DEF Harness!Next
<1> QED BY <1>1, <1>2, InitCapture, PTL DEF Harness!Spec

----------------------------------------------------------------------------
(* The node loop. Ids tie what is queued, on its way or in a table to what *)
(* was asked: whatever still names the request of an open delivery or      *)
(* question is about that one, and an acceptance means it is stored.       *)

ToTake == Loop!ToSet(commands["near"])
Acks == Loop!ToSet(commands["far"])
Arrived == Loop!ToSet(events["near"])
Directs == Loop!ToSet(events["far"])

AskRecord == [what : Message \cup Question, open : BOOLEAN]
AckRecord == [delivery : Nat, accepted : BOOLEAN]
DirectRecord == [what : Message, delivery : Nat]

QueuesTyped ==
  /\ DOMAIN commands = {"near", "far"} /\ DOMAIN events = {"near", "far"}
  /\ commands["near"] \in Seq(AskRecord) /\ commands["far"] \in Seq(AckRecord)
  /\ events["near"] \in Seq(Message) /\ events["far"] \in Seq(DirectRecord)

\* The types of the variables, with no bound on the requests sent.
LoopTyped ==
  /\ outbox \subseteq Message /\ stored \subseteq Message
  /\ caller \in [Question -> {"idle", "waiting", "got"}]
  /\ next \in Nat /\ delivery \in Nat
  /\ wire \subseteq [id : Nat, what : Message \cup Question]
  /\ answers \subseteq [id : Nat, yes : BOOLEAN]
  /\ outbound \subseteq [id : Nat, what : Message]
  /\ pending \subseteq [id : Nat, what : Question, open : BOOLEAN]
  /\ inbound \subseteq [id : Nat, delivery : Nat]

\* No id is ahead of the counter it is drawn from.
IdsBehind ==
  /\ \A r \in wire \cup answers \cup outbound \cup pending \cup inbound :
       r.id < next
  /\ \A r \in inbound \cup Acks \cup Directs : r.delivery < delivery

\* What has the id of an open delivery or question is about it.
IdsTellTruth ==
  /\ \A o \in outbound \cup pending, r \in wire : r.id = o.id => r.what = o.what
  /\ \A o \in outbound, a \in answers : a.id = o.id /\ a.yes => o.what \in stored
  /\ \A q \in pending, a \in answers : a.id = q.id /\ a.yes => q.what \in Held
  /\ \A q \in pending, r \in inbound : r.id # q.id
  /\ \A o \in outbound, r \in inbound : r.id = o.id =>
       /\ \A d \in Directs : d.delivery = r.delivery => d.what = o.what
       /\ \A c \in Acks :
            c.delivery = r.delivery /\ c.accepted => o.what \in stored

LoopInv ==
  /\ LoopTyped /\ QueuesTyped /\ IdsBehind /\ IdsTellTruth
  /\ Loop!DeliveriesAccounted

LEMMA ToSetAppend ==
  ASSUME NEW S, NEW s \in Seq(S), NEW e \in S
  PROVE  /\ Append(s, e) \in Seq(S)
         /\ Loop!ToSet(Append(s, e)) = Loop!ToSet(s) \cup {e}
<1>1. /\ Append(s, e) \in Seq(S) /\ Len(Append(s, e)) = Len(s) + 1
      /\ Append(s, e)[Len(s) + 1] = e
      /\ \A i \in 1..Len(s) : Append(s, e)[i] = s[i]
  OBVIOUS
<1>2. ASSUME NEW x \in Loop!ToSet(Append(s, e))
      PROVE  x \in Loop!ToSet(s) \cup {e}
  BY <1>1 DEF Loop!ToSet
<1>3. ASSUME NEW x \in Loop!ToSet(s) PROVE x \in Loop!ToSet(Append(s, e))
  <2>1. PICK i \in 1..Len(s) : x = s[i]
    BY DEF Loop!ToSet
  <2>2. i \in 1..Len(Append(s, e)) /\ Append(s, e)[i] = x
    BY <1>1, <2>1
  <2> QED BY <1>1, <2>2 DEF Loop!ToSet
<1>4. e \in Loop!ToSet(Append(s, e))
  BY <1>1 DEF Loop!ToSet
<1> QED BY <1>1, <1>2, <1>3, <1>4

LEMMA ToSetTail ==
  ASSUME NEW S, NEW s \in Seq(S), s # <<>>
  PROVE  /\ Tail(s) \in Seq(S) /\ Head(s) \in S
         /\ Loop!ToSet(s) = Loop!ToSet(Tail(s)) \cup {Head(s)}
<1>1. /\ Len(s) \in Nat /\ Len(s) # 0 /\ Head(s) = s[1] /\ Head(s) \in S
      /\ Tail(s) \in Seq(S) /\ Len(Tail(s)) = Len(s) - 1
      /\ \A i \in 1..Len(Tail(s)) : Tail(s)[i] = s[i + 1]
  OBVIOUS
<1>2. ASSUME NEW x \in Loop!ToSet(s)
      PROVE  x \in Loop!ToSet(Tail(s)) \cup {Head(s)}
  <2>1. PICK i \in 1..Len(s) : x = s[i]
    BY DEF Loop!ToSet
  <2>2. CASE i = 1
    BY <1>1, <2>1, <2>2
  <2>3. CASE i # 1
    <3>1. i - 1 \in 1..Len(Tail(s)) /\ Tail(s)[i - 1] = x
      BY <1>1, <2>1, <2>3
    <3>2. i - 1 \in DOMAIN Tail(s)
      BY <1>1, <3>1
    <3> QED BY <3>1, <3>2 DEF Loop!ToSet
  <2> QED BY <2>2, <2>3
<1>3. ASSUME NEW x \in Loop!ToSet(Tail(s)) PROVE x \in Loop!ToSet(s)
  <2>1. PICK i \in 1..Len(Tail(s)) : x = Tail(s)[i]
    BY <1>1 DEF Loop!ToSet
  <2>2. i + 1 \in 1..Len(s) /\ s[i + 1] = x
    BY <1>1, <2>1
  <2> QED BY <2>2 DEF Loop!ToSet
<1>4. Head(s) \in Loop!ToSet(s)
  BY <1>1 DEF Loop!ToSet
<1> QED BY <1>1, <1>2, <1>3, <1>4

LEMMA InitLoop == Loop!Init => LoopInv
<1> SUFFICES ASSUME Loop!Init PROVE LoopInv
  OBVIOUS
<1>1. /\ commands = [n \in {"near", "far"} |-> <<>>]
      /\ events = [n \in {"near", "far"} |-> <<>>]
  BY DEF Loop!Init, Loop!Node
<1>2. QueuesTyped
  BY <1>1 DEF QueuesTyped
<1>3. ToTake = {} /\ Acks = {} /\ Arrived = {} /\ Directs = {}
  BY <1>1 DEF ToTake, Acks, Arrived, Directs, Loop!ToSet
<1> QED
  BY <1>2, <1>3
  DEF Loop!Init, LoopInv, LoopTyped, IdsBehind, IdsTellTruth, Arrived,
      Loop!DeliveriesAccounted, Loop!AckMeansStored, Loop!NoSlotLeaks,
      Loop!NobodyForgotten

\* The program of near: it queues commands, gives up, and drops from the
\* outbox what has arrived.
LEMMA AskStep ==
  ASSUME LoopInv,
         \/ \E m \in Message : Loop!Retry(m)
         \/ \E q \in Question : Loop!Ask(q)
  PROVE  LoopInv'
<1>1. PICK c \in AskRecord :
        /\ commands' = [commands EXCEPT !["near"] = Append(@, c)]
        /\ UNCHANGED <<outbox, stored, events, next, wire, answers, outbound,
                       pending, inbound, delivery>>
        /\ \/ UNCHANGED caller
           \/ c.open /\ c.what \in Question
              /\ caller' = [caller EXCEPT ![c.what] = "waiting"]
  <2>1. CASE \E m \in Message : Loop!Retry(m)
    <3>1. PICK m \in Message : Loop!Retry(m)
      BY <2>1
    <3>2. [what |-> m, open |-> FALSE] \in AskRecord
      BY DEF AskRecord
    <3> QED
      BY <3>1, <3>2
      DEF Loop!Retry, Loop!Enqueue, Loop!program, Loop!network, Loop!tables
  <2>2. CASE \E q \in Question : Loop!Ask(q)
    <3>1. PICK q \in Question : Loop!Ask(q)
      BY <2>2
    <3>2. [what |-> q, open |-> TRUE] \in AskRecord
      BY DEF AskRecord
    <3> QED
      BY <3>1, <3>2 DEF Loop!Ask, Loop!Enqueue, Loop!network, Loop!tables
  <2> QED BY <2>1, <2>2
<1>2. ToTake' = ToTake \cup {c} /\ QueuesTyped'
  BY <1>1, ToSetAppend DEF LoopInv, QueuesTyped, ToTake
<1>3. Acks' = Acks /\ Arrived' = Arrived /\ Directs' = Directs
  BY <1>1 DEF LoopInv, QueuesTyped, Acks, Arrived, Directs
<1>4. Loop!NobodyForgotten'
  BY <1>1, <1>2
  DEF LoopInv, LoopTyped, Loop!DeliveriesAccounted, Loop!NobodyForgotten,
      ToTake
<1> QED
  BY <1>1, <1>2, <1>3, <1>4
  DEF LoopInv, LoopTyped, IdsBehind, IdsTellTruth, Loop!DeliveriesAccounted,
      Loop!AckMeansStored, Loop!NoSlotLeaks, Acks, Arrived, Directs

LEMMA GiveUpStep ==
  ASSUME LoopInv, NEW q \in Question, Loop!GiveUp(q) PROVE LoopInv'
<1> DEFINE closed(r) == IF r.what = q THEN [r EXCEPT !.open = FALSE] ELSE r
           near == commands["near"]
<1>1. /\ caller' = [caller EXCEPT ![q] = "idle"]
      /\ commands' = [commands EXCEPT !["near"] =
                        [k \in DOMAIN near |-> closed(near[k])]]
      /\ pending' = {closed(r) : r \in pending}
      /\ UNCHANGED <<outbox, stored, events, wire, answers, next, outbound,
                     inbound, delivery>>
  BY DEF Loop!GiveUp, Loop!network
<1>2. near \in Seq(AskRecord) /\ DOMAIN commands = {"near", "far"}
  BY DEF LoopInv, QueuesTyped
<1>3. \A r \in AskRecord :
        closed(r) \in AskRecord /\ closed(r).what = r.what
        /\ (r.what # q => closed(r) = r)
  BY DEF AskRecord
<1>4. /\ DOMAIN near = 1..Len(near) /\ Len(near) \in Nat
      /\ \A k \in DOMAIN near : near[k] \in AskRecord
  BY <1>2
<1>5. [k \in DOMAIN near |-> closed(near[k])] \in Seq(AskRecord)
  BY <1>3, <1>4
<1>6. QueuesTyped'
  BY <1>1, <1>5 DEF LoopInv, QueuesTyped
<1>7. \A r \in ToTake : r.what # q => r \in ToTake'
  BY <1>1, <1>2, <1>3, <1>4 DEF ToTake, Loop!ToSet
<1>8. Acks' = Acks /\ Arrived' = Arrived /\ Directs' = Directs
  BY <1>1, <1>2 DEF Acks, Arrived, Directs
<1>9. /\ \A r \in pending : r.what # q => r \in pending'
      /\ \A r \in pending' : \E p \in pending : r.id = p.id /\ r.what = p.what
      /\ pending' \subseteq [id : Nat, what : Question, open : BOOLEAN]
  BY <1>1 DEF LoopInv, LoopTyped
<1>10. Loop!NobodyForgotten'
  BY <1>1, <1>7, <1>9
  DEF LoopInv, LoopTyped, Loop!DeliveriesAccounted, Loop!NobodyForgotten,
      ToTake
<1>11. IdsBehind' /\ IdsTellTruth'
  BY <1>1, <1>8, <1>9 DEF LoopInv, IdsBehind, IdsTellTruth
<1> QED
  BY <1>1, <1>6, <1>8, <1>9, <1>10, <1>11
  DEF LoopInv, LoopTyped, Loop!DeliveriesAccounted, Loop!AckMeansStored,
      Loop!NoSlotLeaks, Acks, Arrived, Directs

LEMMA DeliveredStep == ASSUME LoopInv, Loop!HandleDelivered PROVE LoopInv'
<1>1. /\ events["near"] # <<>> /\ events["near"] \in Seq(Message)
      /\ outbox' = outbox \ {Head(events["near"])}
      /\ events' = [events EXCEPT !["near"] = Tail(@)]
      /\ UNCHANGED <<stored, caller, commands, wire, answers, next, outbound,
                     pending, inbound, delivery>>
  BY DEF LoopInv, QueuesTyped, Loop!HandleDelivered, Loop!network, Loop!tables
<1>2. Arrived = Arrived' \cup {Head(events["near"])} /\ QueuesTyped'
  BY <1>1, ToSetTail DEF LoopInv, QueuesTyped, Arrived
<1>3. Directs' = Directs /\ Acks' = Acks /\ ToTake' = ToTake
  BY <1>1 DEF LoopInv, QueuesTyped, Directs, Acks, ToTake
<1> QED
  BY <1>1, <1>2, <1>3
  DEF LoopInv, LoopTyped, IdsBehind, IdsTellTruth, Loop!DeliveriesAccounted,
      Loop!AckMeansStored, Loop!NoSlotLeaks, Loop!NobodyForgotten, ToTake,
      Acks, Arrived, Directs

\* The node near: a request goes out under a fresh id.
LEMMA TakeStep == ASSUME LoopInv, Loop!Take PROVE LoopInv'
<1> DEFINE c == Head(commands["near"])
           request == [id |-> next, what |-> c.what]
<1>1. /\ commands["near"] # <<>> /\ commands["near"] \in Seq(AskRecord)
      /\ commands' = [commands EXCEPT !["near"] = Tail(@)]
      /\ next' = next + 1 /\ wire' = wire \cup {request}
      /\ UNCHANGED <<outbox, stored, caller, events, answers, inbound, delivery>>
  BY DEF LoopInv, QueuesTyped, Loop!Take, Loop!program
<1>2. ToTake = ToTake' \cup {c} /\ QueuesTyped' /\ c \in AskRecord
  BY <1>1, ToSetTail DEF LoopInv, QueuesTyped, ToTake
<1>3. Acks' = Acks /\ Arrived' = Arrived /\ Directs' = Directs
  BY <1>1 DEF LoopInv, QueuesTyped, Acks, Arrived, Directs
<1>4. CASE /\ c.what \in Message /\ outbound' = outbound \cup {request}
           /\ pending' = pending
  <2>1. c.what \notin Question
    BY <1>4, KernelAssumption
  <2>2. LoopTyped'
    BY <1>1, <1>2, <1>4 DEF LoopInv, LoopTyped, AskRecord
  <2>3. IdsBehind' /\ IdsTellTruth'
    BY <1>1, <1>3, <1>4 DEF LoopInv, LoopTyped, IdsBehind, IdsTellTruth
  <2>4. Loop!DeliveriesAccounted'
    BY <1>1, <1>2, <1>3, <1>4, <2>1
    DEF LoopInv, Loop!DeliveriesAccounted, Loop!AckMeansStored,
        Loop!NoSlotLeaks, Loop!NobodyForgotten, ToTake, Acks, Arrived, Directs
  <2> QED BY <1>2, <2>2, <2>3, <2>4 DEF LoopInv
<1>5. CASE /\ c.what \notin Message /\ outbound' = outbound
           /\ pending' = pending \cup {[id |-> next, what |-> c.what,
                                        open |-> c.open]}
  <2>1. c.what \in Question /\ c.open \in BOOLEAN
    BY <1>2, <1>5 DEF AskRecord
  <2>2. LoopTyped'
    BY <1>1, <1>5, <2>1 DEF LoopInv, LoopTyped
  <2>3. IdsBehind' /\ IdsTellTruth'
    BY <1>1, <1>3, <1>5 DEF LoopInv, LoopTyped, IdsBehind, IdsTellTruth
  <2> DEFINE ask == [id |-> next, what |-> c.what, open |-> c.open]
  <2>6. ask.what = c.what /\ (ask.open <=> c.open) /\ ask \in pending'
    BY <1>5
  <2>7. ASSUME NEW q \in Question, caller'[q] = "waiting"
        PROVE  \E r \in ToTake' \cup pending' : r.what = q /\ r.open
    <3>1. PICK r \in ToTake \cup pending : r.what = q /\ r.open
      BY <1>1, <2>7
      DEF LoopInv, Loop!DeliveriesAccounted, Loop!NobodyForgotten, ToTake
    <3>2. CASE r = c
      BY <2>6, <3>1, <3>2
    <3>3. CASE r # c
      BY <1>2, <1>5, <3>1, <3>3
    <3> QED BY <3>2, <3>3
  <2>4. Loop!NobodyForgotten'
    BY <1>1, <2>7
    DEF LoopInv, Loop!DeliveriesAccounted, Loop!NobodyForgotten, ToTake
  <2>5. Loop!DeliveriesAccounted'
    BY <1>1, <1>3, <2>4
    DEF LoopInv, Loop!DeliveriesAccounted, Loop!AckMeansStored,
        Loop!NoSlotLeaks, Acks, Arrived, Directs
  <2> QED BY <1>2, <2>2, <2>3, <2>5 DEF LoopInv
<1> QED BY <1>4, <1>5 DEF Loop!Take

\* Whoever waits for a question that was answered sees what was given.
LEMMA ReplyKeeps ==
  ASSUME LoopInv, NEW slots \in SUBSET pending, NEW given \in {"idle", "got"},
         Loop!Reply(slots, given), pending' = pending \ slots,
         ToTake' = ToTake,
         given = "got" => \A r \in slots : r.what \in Held
  PROVE  /\ caller' \in [Question -> {"idle", "waiting", "got"}]
         /\ Loop!NobodyForgotten'
<1>1. /\ caller \in [Question -> {"idle", "waiting", "got"}]
      /\ \A q \in Question :
           caller[q] = "waiting" => \E r \in ToTake \cup pending : r.what = q /\ r.open
      /\ \A q \in Question : caller[q] = "got" => q \in Held
  BY DEF LoopInv, LoopTyped, Loop!DeliveriesAccounted, Loop!NobodyForgotten,
         ToTake
<1>2. caller' = [q \in Question |-> IF \E r \in slots : r.what = q /\ r.open
                                    THEN given ELSE caller[q]]
  BY DEF Loop!Reply
<1>3. ASSUME NEW q \in Question, caller'[q] = "waiting"
      PROVE  \E r \in ToTake' \cup pending' : r.what = q /\ r.open
  <2>1. caller[q] = "waiting" /\ ~\E r \in slots : r.what = q /\ r.open
    BY <1>2, <1>3
  <2> QED BY <1>1, <2>1
<1>4. \A q \in Question : caller'[q] = "got" => q \in Held
  BY <1>1, <1>2
<1> QED BY <1>1, <1>2, <1>3, <1>4 DEF Loop!NobodyForgotten, ToTake

LEMMA ResponseStep ==
  ASSUME LoopInv, NEW a \in answers, Loop!Response(a) PROVE LoopInv'
<1> DEFINE sent == Loop!Slot(outbound, a.id)
           asked == Loop!Slot(pending, a.id)
           given == IF a.yes THEN "got" ELSE "idle"
<1>1. /\ answers' = answers \ {a} /\ outbound' = outbound \ sent
      /\ pending' = pending \ asked /\ Loop!Reply(asked, given)
      /\ UNCHANGED <<outbox, stored, commands, wire, next, inbound, delivery>>
  BY DEF Loop!Response
<1>2. UNCHANGED events
      \/ \E o \in sent : a.yes /\ events' = [events EXCEPT !["near"] = Append(@, o.what)]
  <2>1. IF sent # {} /\ a.yes
        THEN events' = [events EXCEPT !["near"] =
                          Append(@, (CHOOSE r \in sent : TRUE).what)]
        ELSE events' = events
    BY Zenon DEF Loop!Response, Loop!Emit
  <2>2. sent # {} => (CHOOSE r \in sent : TRUE) \in sent
    BY Zenon
  <2> QED BY <2>1, <2>2, Zenon
<1>3. /\ \A o \in sent : o \in outbound /\ o.id = a.id
      /\ \A q \in asked : q \in pending /\ q.id = a.id
  BY DEF Loop!Slot
<1>4. Arrived' \subseteq Arrived \cup stored /\ QueuesTyped'
  <2>1. CASE UNCHANGED events
    BY <1>1, <2>1 DEF LoopInv, QueuesTyped, Arrived
  <2>2. CASE \E o \in sent :
               a.yes /\ events' = [events EXCEPT !["near"] = Append(@, o.what)]
    <3>1. PICK o \in sent :
            a.yes /\ events' = [events EXCEPT !["near"] = Append(@, o.what)]
      BY <2>2
    <3>2. o.what \in stored /\ o.what \in Message
      BY <1>3, <3>1 DEF LoopInv, LoopTyped, IdsTellTruth
    <3> QED
      BY <1>1, <3>1, <3>2, ToSetAppend DEF LoopInv, QueuesTyped, Arrived
  <2> QED BY <1>2, <2>1, <2>2
<1>5. Directs' = Directs /\ Acks' = Acks /\ ToTake' = ToTake
  BY <1>1, <1>2 DEF LoopInv, QueuesTyped, Directs, Acks, ToTake
<1>6. given = "got" => \A r \in asked : r.what \in Held
  BY <1>3 DEF LoopInv, IdsTellTruth
<1>7. /\ caller' \in [Question -> {"idle", "waiting", "got"}]
      /\ Loop!NobodyForgotten'
  BY <1>1, <1>3, <1>5, <1>6, ReplyKeeps
<1>8. IdsBehind' /\ IdsTellTruth'
  BY <1>1, <1>5 DEF LoopInv, IdsBehind, IdsTellTruth
<1> QED
  BY <1>1, <1>4, <1>5, <1>7, <1>8
  DEF LoopInv, LoopTyped, Loop!DeliveriesAccounted, Loop!AckMeansStored,
      Loop!NoSlotLeaks, Acks, Arrived, Directs

LEMMA FailureStep ==
  ASSUME LoopInv, NEW id, Loop!OutboundFailure(id) PROVE LoopInv'
<1>1. /\ wire' \subseteq wire /\ answers' \subseteq answers
      /\ outbound' \subseteq outbound
      /\ pending' = pending \ Loop!Slot(pending, id)
      /\ Loop!Reply(Loop!Slot(pending, id), "idle")
      /\ UNCHANGED <<outbox, stored, commands, events, next, inbound, delivery>>
  BY DEF Loop!OutboundFailure, Loop!queues, Loop!Slot
<1>2. /\ Directs' = Directs /\ Acks' = Acks /\ ToTake' = ToTake
      /\ Arrived' = Arrived
  BY <1>1 DEF Directs, Acks, ToTake, Arrived
<1>3. Loop!Slot(pending, id) \subseteq pending
  BY DEF Loop!Slot
<1>4. /\ caller' \in [Question -> {"idle", "waiting", "got"}]
      /\ Loop!NobodyForgotten'
  BY <1>1, <1>2, <1>3, ReplyKeeps
<1>5. IdsBehind' /\ IdsTellTruth'
  BY <1>1, <1>2 DEF LoopInv, IdsBehind, IdsTellTruth
<1> QED
  BY <1>1, <1>2, <1>4, <1>5
  DEF LoopInv, LoopTyped, QueuesTyped, Loop!DeliveriesAccounted,
      Loop!AckMeansStored, Loop!NoSlotLeaks, Acks, Arrived, Directs

\* The node far: a delivery gets a place and an event, or is refused.
LEMMA DeliverStep ==
  ASSUME LoopInv, NEW r \in wire, Loop!Deliver(r) PROVE LoopInv'
<1>1. /\ r.what \in Message /\ wire' = wire \ {r}
      /\ UNCHANGED <<outbox, stored, caller, commands, next, outbound, pending>>
  BY DEF Loop!Deliver, Loop!program
<1>2. r.what \notin Question /\ r.id \in Nat /\ r.id < next
  BY <1>1, KernelAssumption DEF LoopInv, LoopTyped, IdsBehind
<1>3. \A q \in pending : q.id # r.id
  BY <1>2 DEF LoopInv, LoopTyped, IdsTellTruth
<1>4. ToTake' = ToTake /\ Acks' = Acks
  BY <1>1 DEF ToTake, Acks
<1>5. CASE /\ answers' = answers \cup {[id |-> r.id, yes |-> FALSE]}
           /\ UNCHANGED <<events, inbound, delivery>>
  <2>1. Directs' = Directs /\ Arrived' = Arrived /\ QueuesTyped'
    BY <1>1, <1>5 DEF LoopInv, QueuesTyped, Directs, Arrived
  <2>5. [id |-> r.id, yes |-> FALSE] \in [id : Nat, yes : BOOLEAN]
    BY <1>2
  <2>2. LoopTyped'
    BY <1>1, <1>5, <2>5 DEF LoopInv, LoopTyped
  <2>3. \A a \in answers' : a.yes => a \in answers
    BY <1>5
  <2>4. IdsBehind' /\ IdsTellTruth'
    BY <1>1, <1>2, <1>4, <1>5, <2>1, <2>3 DEF LoopInv, IdsBehind, IdsTellTruth
  <2> QED
    BY <1>1, <1>4, <1>5, <2>1, <2>2, <2>4
    DEF LoopInv, Loop!DeliveriesAccounted, Loop!AckMeansStored,
        Loop!NoSlotLeaks, Loop!NobodyForgotten, ToTake, Acks, Arrived, Directs
<1>6. CASE /\ inbound' = inbound \cup {[id |-> r.id, delivery |-> delivery]}
           /\ events' = [events EXCEPT !["far"] =
                Append(@, [what |-> r.what, delivery |-> delivery])]
           /\ delivery' = delivery + 1 /\ answers' = answers
  <2> DEFINE direct == [what |-> r.what, delivery |-> delivery]
  <2>1. direct \in DirectRecord
    BY <1>1 DEF DirectRecord, LoopInv, LoopTyped
  <2>2. Directs' = Directs \cup {direct} /\ Arrived' = Arrived /\ QueuesTyped'
    BY <1>1, <1>6, <2>1, ToSetAppend
    DEF LoopInv, QueuesTyped, Directs, Arrived
  <2>3. LoopTyped'
    BY <1>1, <1>2, <1>6 DEF LoopInv, LoopTyped
  <2>4. Acks \subseteq AckRecord /\ Directs \subseteq DirectRecord
    BY DEF LoopInv, QueuesTyped, Acks, Directs, Loop!ToSet
  <2>5. IdsBehind'
    BY <1>1, <1>2, <1>4, <1>6, <2>2, <2>4
    DEF LoopInv, LoopTyped, IdsBehind, AckRecord, DirectRecord
  <2>6. IdsTellTruth'
    BY <1>1, <1>2, <1>3, <1>4, <1>6, <2>2, <2>4
    DEF LoopInv, LoopTyped, IdsBehind, IdsTellTruth, AckRecord, DirectRecord
  <2>7. Loop!NoSlotLeaks'
    BY <1>4, <1>6, <2>2
    DEF LoopInv, Loop!DeliveriesAccounted, Loop!NoSlotLeaks, Acks, Directs
  <2> QED
    BY <1>1, <1>4, <2>2, <2>3, <2>5, <2>6, <2>7
    DEF LoopInv, Loop!DeliveriesAccounted, Loop!AckMeansStored,
        Loop!NobodyForgotten, ToTake, Arrived
<1> QED BY <1>5, <1>6 DEF Loop!Deliver, Loop!Answer, Loop!Emit

LEMMA ServeStep ==
  ASSUME LoopInv, NEW r \in wire, Loop!Serve(r) PROVE LoopInv'
<1>0. PICK held \in BOOLEAN : held = (r.what \in Held)
  <2>1. CASE r.what \in Held
    <3>1. TRUE = (r.what \in Held)
      BY <2>1
    <3> QED BY <3>1, Zenon
  <2>2. CASE r.what \notin Held
    <3>1. FALSE = (r.what \in Held)
      BY <2>2
    <3> QED BY <3>1, Zenon
  <2> QED BY <2>1, <2>2
<1> DEFINE answer == [id |-> r.id, yes |-> held]
<1>1. /\ r.what \in Question /\ wire' = wire \ {r}
      /\ answers' = answers \cup {answer}
      /\ UNCHANGED <<outbox, stored, caller, commands, events, next, outbound,
                     pending, inbound, delivery>>
  BY <1>0
  DEF Loop!Serve, Loop!Answer, Loop!program, Loop!queues, Loop!tables
<1>2. r.what \notin Message /\ r.id \in Nat /\ r.id < next
  BY <1>1, KernelAssumption DEF LoopInv, LoopTyped, IdsBehind
<1>3. /\ answer \in [id : Nat, yes : BOOLEAN]
      /\ answer.id = r.id /\ (answer.yes <=> r.what \in Held)
  BY <1>0, <1>2
<1>4. \A o \in outbound : o.id # r.id
  BY <1>2 DEF LoopInv, LoopTyped, IdsTellTruth
<1>5. \A q \in pending : q.id = r.id => q.what = r.what
  BY DEF LoopInv, IdsTellTruth
<1>6. ToTake' = ToTake /\ Acks' = Acks /\ Directs' = Directs
      /\ Arrived' = Arrived
  BY <1>1 DEF ToTake, Acks, Directs, Arrived
<1>7. LoopTyped'
  BY <1>1, <1>3 DEF LoopInv, LoopTyped
<1>8. IdsBehind'
  BY <1>1, <1>2, <1>3, <1>6 DEF LoopInv, IdsBehind
<1>9. \A o \in outbound', a \in answers' : a.id = o.id /\ a.yes => o.what \in stored'
  BY <1>1, <1>3, <1>4 DEF LoopInv, IdsTellTruth
<1>10. \A q \in pending', a \in answers' : a.id = q.id /\ a.yes => q.what \in Held
  BY <1>1, <1>3, <1>5 DEF LoopInv, IdsTellTruth
<1>11. IdsTellTruth'
  BY <1>1, <1>6, <1>9, <1>10 DEF LoopInv, IdsTellTruth
<1> QED
  BY <1>1, <1>6, <1>7, <1>8, <1>11
  DEF LoopInv, QueuesTyped, Loop!DeliveriesAccounted, Loop!AckMeansStored,
      Loop!NoSlotLeaks, Loop!NobodyForgotten, ToTake, Acks, Arrived, Directs

LEMMA HandleStep == ASSUME LoopInv, Loop!HandleDirect PROVE LoopInv'
<1> DEFINE e == Head(events["far"])
<1>1. PICK accepted \in BOOLEAN :
        /\ stored' = IF accepted THEN stored \cup {e.what} ELSE stored
        /\ commands' = [commands EXCEPT !["far"] =
             Append(@, [delivery |-> e.delivery, accepted |-> accepted])]
  BY DEF Loop!HandleDirect, Loop!Enqueue
<1> DEFINE ack == [delivery |-> e.delivery, accepted |-> accepted]
<1>2. /\ events["far"] # <<>> /\ events["far"] \in Seq(DirectRecord)
      /\ events' = [events EXCEPT !["far"] = Tail(@)]
      /\ UNCHANGED <<outbox, caller, wire, answers, next, outbound, pending,
                     inbound, delivery>>
  BY DEF LoopInv, QueuesTyped, Loop!HandleDirect, Loop!network, Loop!tables
<1>3. Directs = Directs' \cup {e} /\ e \in DirectRecord
  BY <1>2, ToSetTail DEF LoopInv, QueuesTyped, Directs
<1>4. /\ ack \in AckRecord /\ ack.delivery = e.delivery
      /\ (ack.accepted <=> accepted)
  BY <1>3 DEF AckRecord, DirectRecord
<1>5. Acks' = Acks \cup {ack} /\ QueuesTyped'
  BY <1>1, <1>2, <1>4, ToSetAppend, ToSetTail DEF LoopInv, QueuesTyped, Acks
<1>6. Arrived' = Arrived /\ ToTake' = ToTake
  BY <1>1, <1>2 DEF LoopInv, QueuesTyped, Arrived, ToTake
<1>7. stored \subseteq stored' /\ LoopTyped'
  BY <1>1, <1>2, <1>3 DEF LoopInv, LoopTyped, DirectRecord
<1>8. IdsBehind'
  BY <1>2, <1>3, <1>4, <1>5 DEF LoopInv, IdsBehind
<1>9. ASSUME NEW o \in outbound, NEW r \in inbound, r.id = o.id
      PROVE  /\ \A d \in Directs' : d.delivery = r.delivery => d.what = o.what
             /\ \A c \in Acks' :
                  c.delivery = r.delivery /\ c.accepted => o.what \in stored'
  <2>1. e.delivery = r.delivery => e.what = o.what
    BY <1>3, <1>9 DEF LoopInv, IdsTellTruth
  <2>2. e.delivery = r.delivery /\ accepted => o.what \in stored'
    BY <1>1, <2>1
  <2> QED BY <1>3, <1>4, <1>5, <1>7, <1>9, <2>2 DEF LoopInv, IdsTellTruth
<1>10. IdsTellTruth'
  BY <1>2, <1>7, <1>9 DEF LoopInv, IdsTellTruth
<1>11. Loop!NoSlotLeaks'
  BY <1>2, <1>3, <1>4, <1>5
  DEF LoopInv, Loop!DeliveriesAccounted, Loop!NoSlotLeaks, Acks, Directs
<1> QED
  BY <1>2, <1>5, <1>6, <1>7, <1>8, <1>10, <1>11
  DEF LoopInv, Loop!DeliveriesAccounted, Loop!AckMeansStored,
      Loop!NobodyForgotten, ToTake, Arrived

LEMMA AcknowledgeStep == ASSUME LoopInv, Loop!AcknowledgeDirect PROVE LoopInv'
<1> DEFINE c == Head(commands["far"])
           waiting == {r \in inbound : r.delivery = c.delivery}
<1>1. /\ commands["far"] # <<>> /\ commands["far"] \in Seq(AckRecord)
      /\ commands' = [commands EXCEPT !["far"] = Tail(@)]
      /\ inbound' = inbound \ waiting
      /\ answers' = answers \cup {[id |-> r.id, yes |-> c.accepted] : r \in waiting}
      /\ UNCHANGED <<outbox, stored, caller, events, wire, next, outbound,
                     pending, delivery>>
  BY DEF LoopInv, QueuesTyped, Loop!AcknowledgeDirect, Loop!program
<1>2. Acks = Acks' \cup {c} /\ c \in AckRecord /\ QueuesTyped'
  BY <1>1, ToSetTail DEF LoopInv, QueuesTyped, Acks
<1>3. Arrived' = Arrived /\ ToTake' = ToTake /\ Directs' = Directs
  BY <1>1 DEF LoopInv, QueuesTyped, Arrived, ToTake, Directs
<1>4. \A a \in answers' : a \in answers \/
        \E r \in waiting : a = [id |-> r.id, yes |-> c.accepted]
  BY <1>1
<1>5. LoopTyped'
  BY <1>1, <1>2 DEF LoopInv, LoopTyped, AckRecord
<1>6. IdsBehind'
  BY <1>1, <1>2, <1>3, <1>4 DEF LoopInv, IdsBehind
<1>7. ASSUME NEW a \in answers', a.yes, NEW o \in outbound, a.id = o.id
      PROVE  o.what \in stored
  <2>1. CASE a \in answers
    BY <1>7, <2>1 DEF LoopInv, IdsTellTruth
  <2>2. CASE \E r \in waiting : a = [id |-> r.id, yes |-> c.accepted]
    <3>1. PICK r \in waiting : a = [id |-> r.id, yes |-> c.accepted]
      BY <2>2
    <3>2. c.accepted /\ r.id = o.id /\ r \in inbound /\ c.delivery = r.delivery
      BY <1>7, <3>1
    <3>3. c \in Acks
      BY <1>2
    <3> QED BY <3>2, <3>3 DEF LoopInv, IdsTellTruth
  <2> QED BY <1>4, <2>1, <2>2
<1>8. ASSUME NEW a \in answers', a.yes, NEW q \in pending, a.id = q.id
      PROVE  q.what \in Held
  <2>1. CASE a \in answers
    BY <1>8, <2>1 DEF LoopInv, IdsTellTruth
  <2>2. CASE \E r \in waiting : a = [id |-> r.id, yes |-> c.accepted]
    BY <1>8, <2>2 DEF LoopInv, IdsTellTruth
  <2> QED BY <1>4, <2>1, <2>2
<1>9. IdsTellTruth'
  BY <1>1, <1>2, <1>3, <1>7, <1>8 DEF LoopInv, IdsTellTruth
<1>10. Loop!NoSlotLeaks'
  BY <1>1, <1>2, <1>3
  DEF LoopInv, Loop!DeliveriesAccounted, Loop!NoSlotLeaks, Acks, Directs
<1> QED
  BY <1>1, <1>2, <1>3, <1>5, <1>6, <1>9, <1>10
  DEF LoopInv, Loop!DeliveriesAccounted, Loop!AckMeansStored,
      Loop!NobodyForgotten, ToTake, Arrived

\* A node and its program stop: their queues and tables are empty.
LEMMA StopStep ==
  ASSUME LoopInv, Loop!StopNear \/ Loop!StopFar PROVE LoopInv'
<1>1. CASE Loop!StopNear
  <2>1. /\ commands' = [commands EXCEPT !["near"] = <<>>]
        /\ events' = [events EXCEPT !["near"] = <<>>]
        /\ outbound' = {} /\ pending' = {}
        /\ caller' = [q \in Question |-> "idle"]
        /\ UNCHANGED <<outbox, stored, wire, answers, next, inbound, delivery>>
    BY <1>1 DEF Loop!StopNear, Loop!network
  <2>2. QueuesTyped' /\ Acks' = Acks /\ Directs' = Directs /\ Arrived' = {}
    BY <2>1
    DEF LoopInv, QueuesTyped, Acks, Directs, Arrived, Loop!ToSet
  <2> QED
    BY <2>1, <2>2
    DEF LoopInv, LoopTyped, IdsBehind, IdsTellTruth,
        Loop!DeliveriesAccounted, Loop!AckMeansStored, Loop!NoSlotLeaks,
        Loop!NobodyForgotten, Acks, Directs, Arrived
<1>2. CASE Loop!StopFar
  <2>1. /\ commands' = [commands EXCEPT !["far"] = <<>>]
        /\ events' = [events EXCEPT !["far"] = <<>>]
        /\ inbound' = {}
        /\ UNCHANGED <<outbox, stored, caller, wire, answers, next, outbound,
                       pending, delivery>>
    BY <1>2 DEF Loop!StopFar, Loop!network, Loop!program
  <2>2. /\ QueuesTyped' /\ Acks' = {} /\ Directs' = {} /\ Arrived' = Arrived
        /\ ToTake' = ToTake
    BY <2>1
    DEF LoopInv, QueuesTyped, Acks, Directs, Arrived, ToTake, Loop!ToSet
  <2> QED
    BY <2>1, <2>2
    DEF LoopInv, LoopTyped, IdsBehind, IdsTellTruth,
        Loop!DeliveriesAccounted, Loop!AckMeansStored, Loop!NoSlotLeaks,
        Loop!NobodyForgotten, Arrived, ToTake
<1> QED BY <1>1, <1>2

LEMMA LoopStep == ASSUME LoopInv, [Loop!Next]_(Loop!vars) PROVE LoopInv'
<1>1. CASE UNCHANGED Loop!vars
  BY <1>1
  DEF Loop!vars, Loop!program, Loop!queues, Loop!network, Loop!tables, LoopInv,
      LoopTyped, QueuesTyped, IdsBehind, IdsTellTruth,
      Loop!DeliveriesAccounted, Loop!AckMeansStored, Loop!NoSlotLeaks,
      Loop!NobodyForgotten, Acks, Directs, Arrived, ToTake
<1>2. CASE Loop!Next
  BY <1>2, AskStep, GiveUpStep, DeliveredStep, TakeStep, ResponseStep,
     FailureStep, DeliverStep, ServeStep, HandleStep, AcknowledgeStep, StopStep
  DEF Loop!Next
<1> QED BY <1>1, <1>2

\* However many messages and questions there are, and in whatever order
\* requests, answers, failures, acknowledgements, retries and restarts come: a
\* message leaves the outbox only when it is stored at the other end, no place
\* in the table of deliveries is taken for ever, nobody who asks is forgotten,
\* and who is answered gets what is there (the event loop of
\* net/src/transport.rs and the loops around it).
THEOREM LoopAccounts == Loop!Spec => []DeliveriesAccounted
<1>1. LoopInv => DeliveriesAccounted
  BY DEF LoopInv, DeliveriesAccounted
<1> QED BY <1>1, InitLoop, LoopStep, PTL DEF Loop!Spec

\* A request has a number of its own and reaches far at most once, so that no
\* number of a delivery is ahead of those of the requests.
Numbered ==
  /\ next >= 1 /\ delivery >= 1
  /\ next + Len(commands["near"]) <= MaxRequests + 1
  /\ IsFiniteSet(wire) /\ delivery + Cardinality(wire) <= next
  /\ \A r \in wire \cup answers \cup outbound \cup pending \cup inbound :
       r.id >= 1
  /\ \A r \in inbound : r.delivery >= 1

\* A set is larger by at most the one put in.
LEMMA OneMore ==
  ASSUME NEW S, IsFiniteSet(S), NEW x
  PROVE  /\ IsFiniteSet(S \cup {x})
         /\ Cardinality(S \cup {x}) \in Nat /\ Cardinality(S) \in Nat
         /\ Cardinality(S \cup {x}) <= Cardinality(S) + 1
<1>1. IsFiniteSet(S \cup {x}) /\ Cardinality(S) \in Nat
  BY FS_AddElement, FS_CardinalityType
<1>2. Cardinality(S \cup {x}) = IF x \in S THEN Cardinality(S) ELSE Cardinality(S) + 1
  BY FS_AddElement
<1> QED BY <1>1, <1>2

LEMMA NumberedStep ==
  ASSUME LoopInv, Numbered, [Loop!Next]_(Loop!vars)
  PROVE  Numbered'
<1> USE KernelAssumption DEF Numbered, LoopInv
<1> USE DEF Loop!program, Loop!queues, Loop!network, Loop!tables
<1>0. /\ Len(commands["near"]) \in Nat /\ Cardinality(wire) \in Nat
      /\ next \in Nat /\ delivery \in Nat
  BY FS_CardinalityType DEF LoopTyped, QueuesTyped
<1>1. ASSUME NEW w \in SUBSET wire
      PROVE  IsFiniteSet(w) /\ delivery + Cardinality(w) <= next
  <2>1. IsFiniteSet(w) /\ Cardinality(w) \in Nat /\ Cardinality(w) <= Cardinality(wire)
    BY FS_Subset, FS_CardinalityType
  <2> QED BY <1>0, <2>1
<1>2. ASSUME NEW m \in Message \cup Question, NEW open \in BOOLEAN,
             Loop!MaySend, Loop!Enqueue("near", [what |-> m, open |-> open])
      PROVE  next + Len(commands'["near"]) <= MaxRequests + 1
  <2>1. commands'["near"] = Append(commands["near"], [what |-> m, open |-> open])
    BY <1>2 DEF Loop!Enqueue, QueuesTyped
  <2>2. Len(commands'["near"]) = Len(commands["near"]) + 1
    BY <2>1 DEF QueuesTyped
  <2> QED BY <1>0, <1>2, <2>2 DEF Loop!MaySend
<1>3. ASSUME NEW m \in Message, Loop!Retry(m) PROVE Numbered'
  BY <1>2, <1>3 DEF Loop!Retry
<1>4. ASSUME NEW q \in Question, Loop!Ask(q) PROVE Numbered'
  BY <1>2, <1>4 DEF Loop!Ask
<1>5. ASSUME NEW q \in Question, Loop!GiveUp(q) PROVE Numbered'
  <2> DEFINE closed(r) == IF r.what = q THEN [r EXCEPT !.open = FALSE] ELSE r
  <2>1. /\ pending' = {closed(r) : r \in pending}
        /\ commands' = [commands EXCEPT !["near"] =
                          [k \in DOMAIN @ |-> closed(@[k])]]
        /\ UNCHANGED <<events, next, outbound, inbound, delivery, wire, answers>>
    BY <1>5 DEF Loop!GiveUp
  <2>2. Len(commands'["near"]) = Len(commands["near"])
    BY <2>1 DEF QueuesTyped
  <2>3. \A r \in pending : closed(r).id = r.id
    BY DEF LoopTyped
  <2> QED BY <2>1, <2>2, <2>3
<1>6. CASE Loop!HandleDelivered
  BY <1>6 DEF Loop!HandleDelivered
<1>7. CASE Loop!Take
  <2> DEFINE c == Head(commands["near"])
             r == [id |-> next, what |-> c.what]
  <2>1. /\ commands["near"] # <<>> /\ commands'["near"] = Tail(commands["near"])
        /\ next' = next + 1
        /\ UNCHANGED <<answers, inbound, delivery>>
    BY <1>7 DEF Loop!Take, QueuesTyped
  <2>2. wire' = wire \cup {r}
    BY <1>7 DEF Loop!Take
  <2>3. /\ \A o \in outbound' : o \in outbound \/ o.id = next
        /\ \A o \in pending' : o \in pending \/ o.id = next
    BY <1>7 DEF Loop!Take
  <2>4. Len(commands'["near"]) = Len(commands["near"]) - 1
    BY <2>1 DEF QueuesTyped
  <2> HIDE DEF c, r
  <2>5. IsFiniteSet(wire') /\ Cardinality(wire') \in Nat
        /\ Cardinality(wire') <= Cardinality(wire) + 1
    <3>1. IsFiniteSet(wire)
      OBVIOUS
    <3> QED BY <2>2, <3>1, OneMore
  <2>6. r.id = next
    BY DEF r
  <2>7. \A x \in wire' \cup answers' \cup outbound' \cup pending' \cup inbound' :
          x.id >= 1
    BY <1>0, <2>1, <2>2, <2>3, <2>6
  <2>8. next' + Len(commands'["near"]) <= MaxRequests + 1
    <3> HIDE KernelAssumption DEF Numbered, LoopInv
    <3>1. next' + Len(commands'["near"]) = next + Len(commands["near"])
      BY <1>0, <2>1, <2>4
    <3>2. next + Len(commands["near"]) <= MaxRequests + 1
      BY DEF Numbered
    <3> QED BY <3>1, <3>2
  <2>9. delivery' + Cardinality(wire') <= next'
    BY <1>0, <2>1, <2>5
  <2>10. next' >= 1 /\ delivery' >= 1 /\ \A x \in inbound' : x.delivery >= 1
    BY <1>0, <2>1
  <2> QED BY <2>5, <2>7, <2>8, <2>9, <2>10, Zenon
<1>8. ASSUME NEW a \in answers, Loop!Response(a) PROVE Numbered'
  <2>1. /\ answers' \subseteq answers /\ outbound' \subseteq outbound
        /\ pending' \subseteq pending
        /\ UNCHANGED <<commands, wire, next, inbound, delivery>>
    BY <1>8 DEF Loop!Response
  <2> QED BY <2>1
<1>9. ASSUME NEW id \in 1..MaxRequests, Loop!OutboundFailure(id) PROVE Numbered'
  <2>1. /\ wire' \subseteq wire /\ answers' \subseteq answers
        /\ outbound' \subseteq outbound /\ pending' \subseteq pending
        /\ UNCHANGED <<commands, next, inbound, delivery>>
    BY <1>9 DEF Loop!OutboundFailure
  <2> QED BY <1>1, <2>1
<1>10. ASSUME NEW r \in wire, Loop!Deliver(r) PROVE Numbered'
  <2>1. wire' = wire \ {r} /\ UNCHANGED <<commands, next, outbound, pending>>
    BY <1>10 DEF Loop!Deliver
  <2>2. IsFiniteSet(wire') /\ Cardinality(wire') \in Nat
        /\ Cardinality(wire') = Cardinality(wire) - 1
    BY <2>1, FS_RemoveElement, FS_CardinalityType
  <2>3. CASE /\ answers' = answers \cup {[id |-> r.id, yes |-> FALSE]}
             /\ UNCHANGED <<inbound, delivery>>
    BY <1>0, <2>1, <2>2, <2>3
  <2>4. CASE /\ inbound' = inbound \cup {[id |-> r.id, delivery |-> delivery]}
             /\ delivery' = delivery + 1 /\ answers' = answers
    <3>1. r.id >= 1
      OBVIOUS
    <3>2. \A x \in inbound' : x.id >= 1 /\ x.delivery >= 1
      BY <2>4, <3>1
    <3>3. delivery' + Cardinality(wire') <= next'
      BY <1>0, <2>1, <2>2, <2>4
    <3> QED BY <1>0, <2>1, <2>2, <2>4, <3>2, <3>3
  <2> QED BY <1>10, <2>3, <2>4 DEF Loop!Deliver, Loop!Answer
<1>11. ASSUME NEW r \in wire, Loop!Serve(r) PROVE Numbered'
  BY <1>1, <1>11 DEF Loop!Serve, Loop!Answer
<1>12. CASE Loop!HandleDirect
  <2>1. commands'["near"] = commands["near"]
    BY <1>12 DEF Loop!HandleDirect, Loop!Enqueue, QueuesTyped
  <2> QED BY <1>12, <2>1 DEF Loop!HandleDirect
<1>13. CASE Loop!AcknowledgeDirect
  <2>1. commands'["near"] = commands["near"]
    BY <1>13 DEF Loop!AcknowledgeDirect, QueuesTyped
  <2>2. /\ inbound' \subseteq inbound
        /\ \A x \in answers' : x \in answers \/ \E r \in inbound : x.id = r.id
        /\ UNCHANGED <<wire, next, outbound, pending, delivery>>
    BY <1>13 DEF Loop!AcknowledgeDirect
  <2> QED BY <2>1, <2>2
<1>14. CASE Loop!StopNear
  <2>1. commands'["near"] = <<>>
    BY <1>14 DEF Loop!StopNear, QueuesTyped
  <2>2. Len(commands'["near"]) = 0
    BY <2>1
  <2> QED BY <1>0, <1>14, <2>2 DEF Loop!StopNear
<1>15. CASE Loop!StopFar
  <2>1. commands'["near"] = commands["near"]
    BY <1>15 DEF Loop!StopFar, QueuesTyped
  <2> QED BY <1>15, <2>1 DEF Loop!StopFar
<1>16. CASE UNCHANGED Loop!vars
  BY <1>16 DEF Loop!vars
<1> QED
  BY <1>3, <1>4, <1>5, <1>6, <1>7, <1>8, <1>9, <1>10, <1>11, <1>12, <1>13,
     <1>14, <1>15, <1>16
  DEF Loop!Next

\* The types are kept: with so many requests there are no more numbers.
LEMMA LoopType == Loop!Spec => []Loop!TypeOK
<1>1. Loop!Init => Numbered
  BY KernelAssumption, FS_EmptySet DEF Loop!Init, Loop!Node, Numbered
<1>2. LoopInv /\ Numbered => Loop!TypeOK
  <2> SUFFICES ASSUME LoopInv, Numbered PROVE Loop!TypeOK
    OBVIOUS
  <2>1. /\ Len(commands["near"]) \in Nat /\ Cardinality(wire) \in Nat
        /\ next \in 1..(MaxRequests + 1) /\ delivery \in 1..(MaxRequests + 1)
    <3>1. /\ Len(commands["near"]) \in Nat /\ Cardinality(wire) \in Nat
          /\ next \in Nat /\ delivery \in Nat
      BY FS_CardinalityType DEF LoopInv, LoopTyped, QueuesTyped, Numbered
    <3> QED BY <3>1, KernelAssumption DEF Numbered
  <2>2. \A r \in wire \cup answers \cup outbound \cup pending \cup inbound :
          r.id \in Nat => r.id \in 1..MaxRequests
    BY <2>1, KernelAssumption DEF LoopInv, IdsBehind, Numbered
  <2>3. \A r \in inbound : r.delivery \in Nat => r.delivery \in 1..MaxRequests
    BY <2>1, KernelAssumption DEF LoopInv, IdsBehind, Numbered
  <2> QED
    BY <2>1, <2>2, <2>3 DEF LoopInv, LoopTyped, Loop!TypeOK, Loop!RequestType
<1> QED BY <1>1, <1>2, InitLoop, LoopStep, NumberedStep, PTL DEF Loop!Spec

----------------------------------------------------------------------------
(* The map of a day. A slot holds a sorted bucket of the keys that share   *)
(* its path, or is crowded: more keys than fit in a bucket share it. A set *)
(* that is under way has taken keys out of the tree that are still to be   *)
(* set; when none is left, buckets and crowded slots are those that follow *)
(* from the entries.                                                       *)

\* Keys have an order.
LEMMA KeyOrder ==
  ASSUME NEW kv \in Days!KV
  PROVE  kv.key \in DayKey /\ kv.key \in Int
<1>1. kv.key \in DayKey
  BY DEF Days!KV
<1> QED
  BY <1>1, DayAssumption

LEMMA EntryOrder ==
  ASSUME NEW kvs \in Seq(Days!KV), NEW i \in 1..Len(kvs)
  PROVE  kvs[i] \in Days!KV /\ kvs[i].key \in DayKey /\ kvs[i].key \in Int
<1>1. kvs[i] \in Days!KV
  OBVIOUS
<1> QED
  BY <1>1, KeyOrder

\* The paths of a key.
LEMMA PrefixType ==
  ASSUME NEW k \in DayKey, NEW n \in 1..Depth
  PROVE  Days!Prefix(k, n) \in Days!SlotPath /\ Len(Days!Prefix(k, n)) = n
BY DayAssumption DEF Days!Prefix, Days!SlotPath

LEMMA SamePrefix ==
  ASSUME NEW k \in DayKey, NEW l \in DayKey, NEW n \in 1..Depth, NEW m \in 1..Depth,
         Days!Prefix(k, n) = Days!Prefix(l, m)
  PROVE  /\ n = m
         /\ \A j \in 1..n : Days!Prefix(k, j) = Days!Prefix(l, j)
<1>1. n = m
  BY PrefixType
<1>2. \A i \in 1..n : Digest[k][i] = Digest[l][i]
  <2> TAKE i \in 1..n
  <2>1. Days!Prefix(k, n)[i] = Digest[k][i] /\ Days!Prefix(l, n)[i] = Digest[l][i]
    BY DEF Days!Prefix
  <2> QED
    BY <1>1, <2>1
<1> QED
  BY <1>1, <1>2 DEF Days!Prefix

LEMMA WholeDigest ==
  ASSUME NEW k \in DayKey, NEW l \in DayKey, Days!Prefix(k, Depth) = Days!Prefix(l, Depth)
  PROVE  k = l
<1>1. \A i \in 1..Depth : Digest[k][i] = Digest[l][i]
  <2> TAKE i \in 1..Depth
  <2>1. /\ Days!Prefix(k, Depth)[i] = Digest[k][i]
        /\ Days!Prefix(l, Depth)[i] = Digest[l][i]
    BY DEF Days!Prefix
  <2> QED
    BY <2>1
<1>2. Digest[k] = Digest[l]
  BY <1>1, DayAssumption
<1> QED
  BY <1>2, DayAssumption

LEMMA UnderPrefix ==
  ASSUME NEW es, Days!IsMap(es), NEW k \in DayKey, NEW n \in 1..Depth
  PROVE  Days!Under(es, Days!Prefix(k, n)) =
              {l \in DOMAIN es : Days!Prefix(l, n) = Days!Prefix(k, n)}
BY PrefixType DEF Days!Under

LEMMA CrowdCount ==
  \A es, p : Days!Crowded(es, p) <=> Cardinality(Days!Under(es, p)) > BucketSize
<1>1. \A S : Days!Cardinality(S) = Cardinality(S)
  BY Zenon DEF Cardinality, Days!Cardinality
<1> QED
  BY <1>1 DEF Days!Crowded

\* A crowded slot is not the last one of a digest.
LEMMA CrowdedAbove ==
  ASSUME NEW es, Days!IsMap(es), NEW k \in DayKey, NEW n \in 1..Depth,
         Days!Crowded(es, Days!Prefix(k, n))
  PROVE  n < Depth
<1> SUFFICES ASSUME n = Depth PROVE FALSE
  BY DayAssumption
<1>1. \A l \in Days!Under(es, Days!Prefix(k, n)) : l = k
  BY UnderPrefix, WholeDigest DEF Days!IsMap
<1>2. Days!Under(es, Days!Prefix(k, n)) \in SUBSET {k}
  BY <1>1
<1>3. /\ Cardinality(Days!Under(es, Days!Prefix(k, n))) <= 1
      /\ Cardinality(Days!Under(es, Days!Prefix(k, n))) \in Nat
  <2>1. IsFiniteSet({k}) /\ Cardinality({k}) = 1
    BY FS_Singleton
  <2>2. IsFiniteSet(Days!Under(es, Days!Prefix(k, n)))
          /\ Cardinality(Days!Under(es, Days!Prefix(k, n))) <= Cardinality({k})
    BY <1>2, <2>1, FS_Subset
  <2>3. Cardinality(Days!Under(es, Days!Prefix(k, n))) \in Nat
    BY <2>2, FS_CardinalityType
  <2> QED
    BY <2>1, <2>2, <2>3
<1> QED
  BY <1>3, DayAssumption, CrowdCount

\* What has a slot under one that is crowded is crowded itself, and more keys
\* crowd no less.
LEMMA CrowdGrows ==
  ASSUME NEW es, NEW fs, IsFiniteSet(DOMAIN fs), NEW p, NEW q,
         Days!Under(es, p) \subseteq Days!Under(fs, q), Days!Crowded(es, p)
  PROVE  Days!Crowded(fs, q)
<1>1. IsFiniteSet(Days!Under(fs, q))
  BY FS_Subset DEF Days!Under
<1>2. /\ IsFiniteSet(Days!Under(es, p))
      /\ Cardinality(Days!Under(es, p)) <= Cardinality(Days!Under(fs, q))
  BY <1>1, FS_Subset
<1>3. Cardinality(Days!Under(es, p)) \in Nat /\ Cardinality(Days!Under(fs, q)) \in Nat
  BY <1>1, <1>2, FS_CardinalityType
<1> QED
  BY <1>2, <1>3, DayAssumption, CrowdCount

\* A sorted bucket has as many keys as entries.
LEMMA SortedCount ==
  ASSUME NEW kvs \in Seq(Days!KV), Days!Sorted(kvs)
  PROVE  IsFiniteSet(Days!Holds(kvs)) /\ Cardinality(Days!Holds(kvs)) = Len(kvs)
<1> DEFINE f == [i \in 1..Len(kvs) |-> kvs[i].key]
<1>1. \A i \in 1..Len(kvs) : kvs[i] \in Days!KV /\ kvs[i].key \in Int
  BY EntryOrder
<1>2. f \in Bijection(1..Len(kvs), Days!Holds(kvs))
  BY <1>1 DEF Bijection, Injection, Surjection, IsInjective, Days!Holds, Days!Sorted
<1>3. IsFiniteSet(1..Len(kvs)) /\ Cardinality(1..Len(kvs)) = Len(kvs)
  <2>1. 1 \in Int /\ Len(kvs) \in Nat
    OBVIOUS
  <2>2. IsFiniteSet(1..Len(kvs))
          /\ Cardinality(1..Len(kvs)) = IF 1 > Len(kvs) THEN 0 ELSE Len(kvs) - 1 + 1
    BY <2>1, FS_Interval
  <2> QED
    BY <2>1, <2>2
<1> QED
  BY <1>2, <1>3, FS_Bijection DEF ExistsBijection

LEMMA PlaceExists ==
  ASSUME NEW kvs \in Seq(Days!KV), NEW k \in DayKey
  PROVE  /\ Days!Place(kvs, k) \in 1..(Len(kvs) + 1)
         /\ \A j \in 1..(Days!Place(kvs, k) - 1) : kvs[j].key <= k
         /\ Days!Place(kvs, k) <= Len(kvs) => kvs[Days!Place(kvs, k)].key > k
<1> DEFINE T == {i \in 1..(Len(kvs) + 1) : i <= Len(kvs) => kvs[i].key > k}
<1>1. \A i \in 1..Len(kvs) : kvs[i].key \in Int
  BY EntryOrder
<1>2. T \in SUBSET Nat /\ Len(kvs) + 1 \in T
  OBVIOUS
<1>3. PICK i \in T : \A j \in T : i <= j
  BY <1>2, LeastNumber
<1>4. \A j \in 1..(i - 1) : kvs[j].key <= k
  BY <1>1, <1>3, DayAssumption
<1>5. i \in 1..(Len(kvs) + 1) /\ (i <= Len(kvs) => kvs[i].key > k)
  BY <1>3
<1> QED
  BY <1>4, <1>5, Zenon DEF Days!Place

LEMMA Inserted ==
  ASSUME NEW kvs \in Seq(Days!KV), NEW kv \in Days!KV
  PROVE  LET i == Days!Place(kvs, kv.key) new == Days!Insert(kvs, kv) IN
         /\ new \in Seq(Days!KV) /\ Len(new) = Len(kvs) + 1
         /\ \A j \in 1..(i - 1) : new[j] = kvs[j]
         /\ new[i] = kv
         /\ \A j \in (i + 1)..(Len(kvs) + 1) : new[j] = kvs[j - 1]
<1> DEFINE i == Days!Place(kvs, kv.key)
<1>1. i \in 1..(Len(kvs) + 1)
  BY PlaceExists DEF Days!KV
<1>2. Days!Insert(kvs, kv) = SubSeq(kvs, 1, i - 1) \o <<kv>> \o SubSeq(kvs, i, Len(kvs))
  BY DEF Days!Insert
<1> HIDE DEF i
<1> DEFINE s == SubSeq(kvs, 1, i - 1) u == SubSeq(kvs, i, Len(kvs))
<1>3. s \in Seq(Days!KV) /\ Len(s) = i - 1 /\ \A j \in 1..(i - 1) : s[j] = kvs[j]
  BY <1>1
<1>4. u \in Seq(Days!KV) /\ Len(u) = Len(kvs) - i + 1
        /\ \A j \in 1..(Len(kvs) - i + 1) : u[j] = kvs[i + j - 1]
  BY <1>1
<1> HIDE DEF s, u
<1>5. /\ s \o <<kv>> \in Seq(Days!KV) /\ Len(s \o <<kv>>) = i
      /\ \A j \in 1..(i - 1) : (s \o <<kv>>)[j] = kvs[j]
      /\ (s \o <<kv>>)[i] = kv
  BY <1>1, <1>3
<1> DEFINE w == s \o <<kv>>
<1> HIDE DEF w
<1>6. /\ w \o u \in Seq(Days!KV) /\ Len(w \o u) = Len(kvs) + 1
      /\ \A j \in 1..i : (w \o u)[j] = w[j]
      /\ \A j \in (i + 1)..(Len(kvs) + 1) : (w \o u)[j] = u[j - i]
  BY <1>1, <1>4, <1>5 DEF w
<1>7. \A j \in (i + 1)..(Len(kvs) + 1) : (w \o u)[j] = kvs[j - 1]
  BY <1>1, <1>4, <1>6
<1>8. Days!Insert(kvs, kv) = w \o u
  BY <1>2 DEF w, s, u
<1> QED
  BY <1>1, <1>5, <1>6, <1>7, <1>8 DEF i, w

\* A bucket stays sorted and gets the entry.
LEMMA InsertSorts ==
  ASSUME NEW kvs \in Seq(Days!KV), Days!Sorted(kvs),
         NEW kv \in Days!KV, kv.key \notin Days!Holds(kvs)
  PROVE  /\ Days!Insert(kvs, kv) \in Seq(Days!KV)
         /\ Len(Days!Insert(kvs, kv)) = Len(kvs) + 1
         /\ Days!Sorted(Days!Insert(kvs, kv))
         /\ {Days!Insert(kvs, kv)[i] : i \in DOMAIN Days!Insert(kvs, kv)} =
              {kvs[i] : i \in DOMAIN kvs} \cup {kv}
<1> DEFINE i == Days!Place(kvs, kv.key) new == Days!Insert(kvs, kv)
<1>1. /\ i \in 1..(Len(kvs) + 1)
      /\ \A j \in 1..(i - 1) : kvs[j].key <= kv.key
      /\ i <= Len(kvs) => kvs[i].key > kv.key
  BY PlaceExists DEF Days!KV
<1>2. /\ new \in Seq(Days!KV) /\ Len(new) = Len(kvs) + 1
      /\ \A j \in 1..(i - 1) : new[j] = kvs[j]
      /\ new[i] = kv
      /\ \A j \in (i + 1)..(Len(kvs) + 1) : new[j] = kvs[j - 1]
  BY Inserted
<1> HIDE DEF i, new
<1>3. kv.key \in Int /\ \A j \in 1..Len(kvs) : kvs[j].key \in Int /\ kvs[j].key # kv.key
  BY KeyOrder, EntryOrder DEF Days!Holds
<1>4. \A j \in 1..(i - 1) : new[j].key < kv.key
  BY <1>1, <1>2, <1>3
<1>5. \A j \in i..Len(kvs) : kvs[j].key > kv.key
  BY <1>1, <1>3 DEF Days!Sorted
<1>6. \A j \in (i + 1)..(Len(kvs) + 1) : new[j].key > kv.key
  BY <1>1, <1>2, <1>5
<1>7. \A j, l \in 1..(Len(kvs) + 1) : j < l => new[j].key < new[l].key
  <2> SUFFICES ASSUME NEW j \in 1..(Len(kvs) + 1), NEW l \in 1..(Len(kvs) + 1), j < l
               PROVE  new[j].key < new[l].key
    OBVIOUS
  <2>1. CASE l < i
    BY <1>1, <1>2, <2>1 DEF Days!Sorted
  <2>2. CASE l = i
    BY <1>1, <1>2, <1>4, <2>2
  <2>3. CASE j = i
    BY <1>1, <1>2, <1>6, <2>3
  <2>4. CASE j > i
    <3>1. j - 1 \in DOMAIN kvs /\ l - 1 \in DOMAIN kvs /\ j - 1 < l - 1
      BY <1>1, <2>4
    <3>2. new[j] = kvs[j - 1] /\ new[l] = kvs[l - 1]
      <4>1. l \in (i + 1)..(Len(kvs) + 1) /\ j \in (i + 1)..(Len(kvs) + 1)
        BY <1>1, <2>4
      <4> QED
        BY <1>2, <4>1
    <3> QED
      BY <3>1, <3>2 DEF Days!Sorted
  <2>5. CASE j < i /\ i < l
    <3>1. new[j].key < kv.key /\ new[l].key > kv.key
      BY <1>1, <1>4, <1>6, <2>5
    <3>2. new[j] \in Days!KV /\ new[l] \in Days!KV
      BY <1>2
    <3> QED
      <4>1. new[j].key \in Int /\ new[l].key \in Int
        BY <3>2, KeyOrder
      <4> QED
        BY <1>3, <3>1, <4>1
  <2> QED
    BY <1>1, <2>1, <2>2, <2>3, <2>4, <2>5
<1>8. {new[j] : j \in DOMAIN new} = {kvs[j] : j \in DOMAIN kvs} \cup {kv}
  <2>1. ASSUME NEW j \in DOMAIN new PROVE new[j] \in {kvs[l] : l \in DOMAIN kvs} \cup {kv}
    <3>1. CASE j < i
      BY <1>1, <1>2, <3>1
    <3>2. CASE j = i
      BY <1>2, <3>2
    <3>3. CASE j > i
      <4>1. j - 1 \in DOMAIN kvs /\ new[j] = kvs[j - 1]
        BY <1>1, <1>2, <3>3
      <4> QED
        BY <4>1
    <3> QED
      BY <1>1, <1>2, <3>1, <3>2, <3>3
  <2>2. ASSUME NEW j \in DOMAIN kvs PROVE kvs[j] \in {new[l] : l \in DOMAIN new}
    <3>1. CASE j < i
      BY <1>1, <1>2, <3>1
    <3>2. CASE j >= i
      <4>1. j + 1 \in DOMAIN new /\ new[j + 1] = kvs[j]
        BY <1>1, <1>2, <3>2
      <4> QED
        BY <4>1
    <3> QED
      BY <1>1, <3>1, <3>2
  <2>3. kv \in {new[l] : l \in DOMAIN new}
    BY <1>1, <1>2
  <2> QED
    BY <2>1, <2>2, <2>3
<1>9. Days!Sorted(new)
  <2>1. DOMAIN new = 1..(Len(kvs) + 1)
    BY <1>2
  <2> QED
    BY <1>7, <2>1 DEF Days!Sorted
<1> QED
  BY <1>2, <1>8, <1>9 DEF new

----------------------------------------------------------------------------
\* A bucket has its keys in order, all of them on its path, and the value of
\* each but those that are still to be set.
BucketOK(kvs, es, pend, p) ==
  /\ Len(kvs) \in 1..BucketSize /\ Days!Sorted(kvs)
  /\ \A i \in DOMAIN kvs :
       /\ kvs[i].key \in Days!Under(es, p)
       /\ kvs[i].key \notin pend => kvs[i].value = es[kvs[i].key]
SlotsRight(t, es, pend) ==
  \A p \in DOMAIN t :
    IF t[p].kind = "bucket" THEN BucketOK(t[p].kvs, es, pend, p)
    ELSE t[p].kvs = <<>> /\ Days!Crowded(es, p)
\* Above a slot there are nodes, and above a dirty one dirty ones.
BelowNodes(t) ==
  \A k \in DayKey, n, m \in 1..Depth :
    m < n /\ Days!Prefix(k, n) \in DOMAIN t =>
      /\ Days!IsNode(t, Days!Prefix(k, m))
      /\ t[Days!Prefix(k, n)].kind = "dirty" => t[Days!Prefix(k, m)].kind = "dirty"
HeldAt(t, k, n) ==
  Days!Prefix(k, n) \in DOMAIN t /\ k \in Days!Holds(t[Days!Prefix(k, n)].kvs)
AllHeld(t, es, pend) ==
  \A k \in DOMAIN es : k \in pend \/ \E n \in 1..Depth : HeldAt(t, k, n)

\* A tree for the entries es, but for the keys that are still to be set.
Shape(t, es, pend) ==
  /\ Days!IsMap(es) /\ IsFiniteSet(DOMAIN es) /\ Days!IsTree(t)
  /\ SlotsRight(t, es, pend) /\ BelowNodes(t) /\ AllHeld(t, es, pend)

\* What a call finds above it.
Reached(t, k, n) ==
  n > 0 => Days!Prefix(k, n) \in DOMAIN t /\ t[Days!Prefix(k, n)].kind = "dirty"

\* Only buckets hold keys, and a key is on its own path.
LEMMA HeldInBucket ==
  ASSUME NEW t, NEW es, NEW pend, Shape(t, es, pend), NEW p \in DOMAIN t,
         NEW k \in Days!Holds(t[p].kvs)
  PROVE  /\ t[p].kind = "bucket" /\ k \in DOMAIN es /\ k \in DayKey
         /\ \E m \in 1..Depth : p = Days!Prefix(k, m) /\ HeldAt(t, k, m)
<1>1. PICK i \in DOMAIN t[p].kvs : t[p].kvs[i].key = k
  BY DEF Days!Holds
<1>2. t[p].kind = "bucket"
  BY <1>1 DEF Shape, SlotsRight
<1>3. k \in DOMAIN es /\ Days!Prefix(k, Len(p)) = p
  BY <1>1, <1>2 DEF Shape, SlotsRight, BucketOK, Days!Under
<1>4. Len(p) \in 1..Depth
  BY DayAssumption DEF Shape, Days!IsTree, Days!SlotPath
<1>5. k \in DayKey
  BY <1>3 DEF Shape, Days!IsMap
<1> QED
  BY <1>2, <1>3, <1>4, <1>5 DEF HeldAt

\* The key of a call is in no bucket but the one the call comes to.
LEMMA OneBucket ==
  ASSUME NEW t, NEW es, NEW pend, Shape(t, es, pend), NEW k \in DayKey,
         NEW n \in 0..(Depth - 1), Reached(t, k, n),
         NEW m \in 1..Depth, HeldAt(t, k, m), ~ Days!IsNode(t, Days!Prefix(k, n + 1))
  PROVE  m = n + 1
<1>1. t[Days!Prefix(k, m)].kind = "bucket" /\ ~ Days!IsNode(t, Days!Prefix(k, m))
  BY HeldInBucket DEF HeldAt, Days!IsNode
<1>2. n + 1 \in 1..Depth
  BY DayAssumption
<1>3. CASE m > n + 1
  BY <1>2, <1>3 DEF Shape, BelowNodes, HeldAt
<1>4. CASE m <= n
  <2>1. /\ n \in 1..Depth /\ Days!Prefix(k, n) \in DOMAIN t
        /\ t[Days!Prefix(k, n)].kind = "dirty"
    BY <1>4, DayAssumption DEF Reached
  <2>2. CASE m = n
    BY <1>1, <2>1, <2>2
  <2>3. CASE m < n
    BY <1>1, <2>1, <2>3 DEF Shape, BelowNodes
  <2> QED
    BY <1>4, <2>2, <2>3
<1> QED
  BY <1>3, <1>4

Filled(t, p, pointer) ==
  [q \in DOMAIN t \cup {p} |-> IF q = p THEN pointer ELSE t[q]]

\* A slot that is filled keeps the tree above and below it.
LEMMA FillBelow ==
  ASSUME NEW t, BelowNodes(t), NEW k \in DayKey, NEW n \in 0..(Depth - 1),
         Reached(t, k, n), NEW pointer,
         Days!IsNode(t, Days!Prefix(k, n + 1)) => pointer = Days!Dirty
  PROVE  BelowNodes(Filled(t, Days!Prefix(k, n + 1), pointer))
<1> DEFINE p == Days!Prefix(k, n + 1) u == Filled(t, p, pointer)
<1>0. n + 1 \in 1..Depth
  BY DayAssumption
<1>1. DOMAIN u = DOMAIN t \cup {p} /\ u[p] = pointer
      /\ \A q \in DOMAIN t : q # p => u[q] = t[q]
  BY DEF Filled
<1> HIDE DEF u
<1> SUFFICES ASSUME NEW l \in DayKey, NEW j \in 1..Depth, NEW m \in 1..Depth, m < j,
                    Days!Prefix(l, j) \in DOMAIN u
             PROVE  /\ Days!IsNode(u, Days!Prefix(l, m))
                    /\ u[Days!Prefix(l, j)].kind = "dirty" => u[Days!Prefix(l, m)].kind = "dirty"
  BY DEF BelowNodes, u
<1>2. CASE Days!Prefix(l, j) = p
  <2>1. j = n + 1 /\ Days!Prefix(l, m) = Days!Prefix(k, m)
    BY <1>0, <1>2, SamePrefix
  <2>2. n \in 1..Depth /\ m <= n /\ Days!Prefix(k, n) \in DOMAIN t
          /\ t[Days!Prefix(k, n)].kind = "dirty"
    BY <2>1, DayAssumption DEF Reached
  <2>3. Days!IsNode(t, Days!Prefix(k, m)) /\ t[Days!Prefix(k, m)].kind = "dirty"
    <3>1. CASE m = n
      BY <2>2, <3>1 DEF Days!IsNode
    <3>2. CASE m < n
      BY <2>2, <3>2 DEF BelowNodes
    <3> QED
      BY <2>2, <3>1, <3>2
  <2>4. Days!Prefix(k, m) # p
    BY <1>0, <2>2, SamePrefix
  <2> QED
    BY <1>1, <2>1, <2>3, <2>4 DEF Days!IsNode
<1>3. CASE Days!Prefix(l, j) # p
  <2>1. /\ Days!Prefix(l, j) \in DOMAIN t /\ u[Days!Prefix(l, j)] = t[Days!Prefix(l, j)]
        /\ Days!IsNode(t, Days!Prefix(l, m))
        /\ t[Days!Prefix(l, j)].kind = "dirty" => t[Days!Prefix(l, m)].kind = "dirty"
    BY <1>1, <1>3 DEF BelowNodes
  <2>2. CASE Days!Prefix(l, m) = p
    BY <1>1, <2>1, <2>2 DEF Days!IsNode, Days!Dirty
  <2>3. CASE Days!Prefix(l, m) # p
    BY <1>1, <2>1, <2>3 DEF Days!IsNode
  <2> QED
    BY <2>2, <2>3
<1> QED
  BY <1>2, <1>3

LEMMA FillShape ==
  ASSUME NEW t, NEW es, NEW pend, Shape(t, es, pend), NEW k \in DOMAIN es,
         NEW n \in 0..(Depth - 1), Reached(t, k, n),
         NEW pointer \in Days!Pointer, NEW new,
         Days!IsNode(t, Days!Prefix(k, n + 1)) => pointer = Days!Dirty,
         \/ pointer = Days!Dirty /\ Days!Crowded(es, Days!Prefix(k, n + 1))
         \/ /\ pointer.kind = "bucket"
            /\ BucketOK(pointer.kvs, es, new, Days!Prefix(k, n + 1)),
         pend \subseteq new \cup {k},
         k \in new \cup Days!Holds(pointer.kvs),
         Days!Prefix(k, n + 1) \in DOMAIN t =>
           Days!Holds(t[Days!Prefix(k, n + 1)].kvs) \subseteq new \cup Days!Holds(pointer.kvs)
  PROVE  Shape(Filled(t, Days!Prefix(k, n + 1), pointer), es, new)
<1> DEFINE p == Days!Prefix(k, n + 1) u == Filled(t, p, pointer)
<1>0. n + 1 \in 1..Depth /\ k \in DayKey /\ p \in Days!SlotPath
  <2>1. n + 1 \in 1..Depth
    BY DayAssumption
  <2>2. k \in DayKey
    BY DEF Shape, Days!IsMap
  <2> QED
    BY <2>1, <2>2, PrefixType
<1>1. DOMAIN u = DOMAIN t \cup {p} /\ u[p] = pointer
      /\ \A q \in DOMAIN t : q # p => u[q] = t[q]
  BY DEF Filled
<1>2. Days!IsTree(u)
  BY <1>0, <1>1 DEF Filled, Shape, Days!IsTree
<1>3. BelowNodes(u)
  BY <1>0, FillBelow DEF Shape
<1> HIDE DEF u
<1>4. SlotsRight(u, es, new)
  <2> SUFFICES ASSUME NEW q \in DOMAIN u
               PROVE  IF u[q].kind = "bucket" THEN BucketOK(u[q].kvs, es, new, q)
                      ELSE u[q].kvs = <<>> /\ Days!Crowded(es, q)
    BY DEF SlotsRight
  <2>1. CASE q = p
    BY <1>1, <2>1 DEF Days!Dirty
  <2>2. CASE q # p
    <3>1. /\ q \in DOMAIN t /\ u[q] = t[q]
          /\ IF t[q].kind = "bucket" THEN BucketOK(t[q].kvs, es, pend, q)
             ELSE t[q].kvs = <<>> /\ Days!Crowded(es, q)
      BY <1>1, <2>2 DEF Shape, SlotsRight
    <3>2. ASSUME t[q].kind = "bucket", NEW i \in DOMAIN t[q].kvs,
                 t[q].kvs[i].key \notin new
          PROVE  t[q].kvs[i].key \notin pend
      <4> SUFFICES ASSUME t[q].kvs[i].key = k PROVE FALSE
        BY <3>2
      <4>1. k \in Days!Holds(pointer.kvs) /\ ~ Days!IsNode(t, p)
        BY <3>2 DEF Days!Dirty, Days!Holds
      <4>2. k \in Days!Holds(t[q].kvs)
        BY <3>2 DEF Days!Holds
      <4>3. PICK m \in 1..Depth : q = Days!Prefix(k, m) /\ HeldAt(t, k, m)
        BY <3>1, <4>2, HeldInBucket
      <4>4. m = n + 1
        BY <1>0, <4>1, <4>3, OneBucket
      <4> QED
        BY <2>2, <4>3, <4>4
    <3>3. t[q].kind = "bucket" => BucketOK(t[q].kvs, es, new, q)
      BY <3>1, <3>2 DEF BucketOK
    <3> QED
      BY <3>1, <3>3
  <2> QED
    BY <2>1, <2>2
<1>5. AllHeld(u, es, new)
  <2> SUFFICES ASSUME NEW l \in DOMAIN es, l \notin new
               PROVE  \E m \in 1..Depth : HeldAt(u, l, m)
    BY DEF AllHeld
  <2>1. CASE l = k
    BY <1>0, <1>1, <2>1 DEF HeldAt
  <2>2. CASE l # k
    <3>1. PICK m \in 1..Depth : HeldAt(t, l, m)
      BY <2>2 DEF Shape, AllHeld
    <3>2. CASE Days!Prefix(l, m) = p
      BY <1>1, <3>1, <3>2 DEF HeldAt
    <3>3. CASE Days!Prefix(l, m) # p
      BY <1>1, <3>1, <3>3 DEF HeldAt
    <3> QED
      BY <3>2, <3>3
  <2> QED
    BY <2>1, <2>2
<1> QED
  BY <1>2, <1>3, <1>4, <1>5 DEF Shape, u

----------------------------------------------------------------------------
\* The calls that are left: each is about an entry of the map, in a node that
\* is there and dirty, no key is set twice, and of several none is in a bucket.
SetCall == [kv : Days!KV, level : 0..(Depth - 1)]
ToSet(cs) == {cs[i].kv.key : i \in DOMAIN cs}
SetCallOK(t, es, c) ==
  /\ c.kv.key \in DOMAIN es /\ es[c.kv.key] = c.kv.value
  /\ Reached(t, c.kv.key, c.level)
SetCallsOK(t, es, cs) ==
  /\ cs \in Seq(SetCall)
  /\ \A i \in DOMAIN cs : SetCallOK(t, es, cs[i])
  /\ \A i, j \in DOMAIN cs : cs[i].kv.key = cs[j].kv.key => i = j
  /\ Len(cs) > 1 => \A p \in DOMAIN t : Days!Holds(t[p].kvs) \cap ToSet(cs) = {}

LEMMA TailOfCalls ==
  ASSUME NEW cs \in Seq(SetCall), cs # <<>>
  PROVE  /\ Head(cs) = cs[1] /\ cs[1] \in SetCall /\ Len(cs) \in Nat \ {0}
         /\ Tail(cs) \in Seq(SetCall) /\ Len(Tail(cs)) = Len(cs) - 1
         /\ \A i \in 1..(Len(cs) - 1) : Tail(cs)[i] = cs[i + 1]
OBVIOUS

LEMMA PendingTail ==
  ASSUME NEW cs \in Seq(SetCall), cs # <<>>
  PROVE  ToSet(cs) = ToSet(Tail(cs)) \cup {Head(cs).kv.key}
<1>1. ASSUME NEW i \in DOMAIN cs
      PROVE  cs[i].kv.key \in ToSet(Tail(cs)) \cup {Head(cs).kv.key}
  <2>1. CASE i = 1
    BY <2>1, TailOfCalls
  <2>2. CASE i # 1
    <3>1. i - 1 \in DOMAIN Tail(cs) /\ Tail(cs)[i - 1] = cs[i]
      BY <2>2, TailOfCalls
    <3> QED
      BY <3>1 DEF ToSet
  <2> QED
    BY <2>1, <2>2
<1>2. ASSUME NEW i \in DOMAIN Tail(cs) PROVE Tail(cs)[i].kv.key \in ToSet(cs)
  <2>1. i + 1 \in DOMAIN cs /\ Tail(cs)[i] = cs[i + 1]
    BY TailOfCalls
  <2> QED
    BY <2>1 DEF ToSet
<1>3. Head(cs).kv.key \in ToSet(cs)
  BY TailOfCalls DEF ToSet
<1> QED
  BY <1>1, <1>2, <1>3 DEF ToSet

\* The slot of the call is filled: the calls after it are as good as before if
\* what is in the slot is none of theirs.
LEMMA FillCalls ==
  ASSUME NEW t, NEW es, NEW cs, SetCallsOK(t, es, cs), cs # <<>>, NEW pointer, NEW p,
         Days!IsNode(t, p) => pointer = Days!Dirty,
         Days!Holds(pointer.kvs) \cap ToSet(Tail(cs)) = {}
  PROVE  SetCallsOK(Filled(t, p, pointer), es, Tail(cs))
<1> DEFINE u == Filled(t, p, pointer) ds == Tail(cs)
<1>1. DOMAIN u = DOMAIN t \cup {p} /\ u[p] = pointer
      /\ \A q \in DOMAIN t : q # p => u[q] = t[q]
  BY DEF Filled
<1> HIDE DEF u
<1>2. /\ cs \in Seq(SetCall) /\ ds \in Seq(SetCall) /\ Len(ds) = Len(cs) - 1
      /\ \A i \in 1..(Len(cs) - 1) : ds[i] = cs[i + 1]
  BY TailOfCalls DEF SetCallsOK
<1>3. DOMAIN ds = 1..(Len(cs) - 1) /\ DOMAIN cs = 1..Len(cs) /\ Len(cs) \in Nat
  BY <1>2
<1>4. ASSUME NEW i \in DOMAIN ds PROVE SetCallOK(u, es, ds[i])
  <2>1. i + 1 \in DOMAIN cs /\ ds[i] = cs[i + 1]
    BY <1>2, <1>3
  <2>2. SetCallOK(t, es, ds[i])
    BY <2>1 DEF SetCallsOK
  <2> QED
    BY <1>1, <2>2 DEF SetCallOK, Reached, Days!IsNode, Days!Dirty
<1>5. ASSUME NEW i \in DOMAIN ds, NEW j \in DOMAIN ds, ds[i].kv.key = ds[j].kv.key
      PROVE  i = j
  <2>1. /\ i + 1 \in DOMAIN cs /\ ds[i] = cs[i + 1] /\ j + 1 \in DOMAIN cs
        /\ ds[j] = cs[j + 1]
    BY <1>2, <1>3
  <2>2. i + 1 = j + 1
    BY <1>5, <2>1 DEF SetCallsOK
  <2> QED
    BY <1>3, <2>2
<1>6. ASSUME Len(ds) > 1, NEW q \in DOMAIN u PROVE Days!Holds(u[q].kvs) \cap ToSet(ds) = {}
  <2>1. CASE q = p
    BY <1>1, <2>1
  <2>2. CASE q # p
    <3>1. Len(cs) > 1
      BY <1>2, <1>3, <1>6
    <3>2. q \in DOMAIN t /\ u[q] = t[q]
      BY <1>1, <2>2
    <3>3. Days!Holds(t[q].kvs) \cap ToSet(cs) = {}
      BY <3>1, <3>2 DEF SetCallsOK
    <3> QED
      BY <1>2, <3>2, <3>3, PendingTail
  <2> QED
    BY <2>1, <2>2
<1> QED
  BY <1>2, <1>4, <1>5, <1>6 DEF SetCallsOK, u

DaysInv ==
  /\ Shape(tree, set, ToSet(setCalls)) /\ SetCallsOK(tree, set, setCalls)
  /\ Shape(root, flushed, {})

\* What the next call is about.
LEMMA NextSet ==
  ASSUME DaysInv, setCalls # <<>>
  PROVE  /\ Days!Entry \in Days!KV /\ Days!Entry.key \in DOMAIN set
         /\ Days!Entry.key \in DayKey
         /\ set[Days!Entry.key] = Days!Entry.value
         /\ Head(setCalls).level \in 0..(Depth - 1)
         /\ Head(setCalls).level + 1 \in 1..Depth
         /\ Days!Here = Days!Prefix(Days!Entry.key, Head(setCalls).level + 1)
         /\ Reached(tree, Days!Entry.key, Head(setCalls).level)
         /\ Days!Entry.key \in Days!Under(set, Days!Here)
<1>1. /\ Head(setCalls) = setCalls[1] /\ setCalls[1] \in SetCall
      /\ 1 \in DOMAIN setCalls
      /\ setCalls \in Seq(SetCall)
  BY TailOfCalls DEF DaysInv, SetCallsOK
<1>2. SetCallOK(tree, set, Head(setCalls))
  BY <1>1 DEF DaysInv, SetCallsOK
<1>3. Days!Entry \in Days!KV /\ Head(setCalls).level \in 0..(Depth - 1)
  BY <1>1 DEF Days!Entry, SetCall
<1>4. Days!Entry.key \in DOMAIN set /\ set[Days!Entry.key] = Days!Entry.value
        /\ Reached(tree, Days!Entry.key, Head(setCalls).level)
  BY <1>2 DEF SetCallOK, Days!Entry
<1>5. Days!Entry.key \in DayKey
  BY <1>3 DEF Days!KV
<1>6. Head(setCalls).level + 1 \in 1..Depth
  BY <1>3, DayAssumption
<1>7. Days!Here = Days!Prefix(Days!Entry.key, Head(setCalls).level + 1)
  BY DEF Days!Here, Days!Entry
<1>8. Len(Days!Here) = Head(setCalls).level + 1
  BY <1>5, <1>6, <1>7, PrefixType
<1>9. Days!Entry.key \in Days!Under(set, Days!Here)
  BY <1>4, <1>7, <1>8 DEF Days!Under
<1> QED
  BY <1>3, <1>4, <1>5, <1>6, <1>7, <1>9

\* The key of the next call is in no other bucket, and those of the later calls
\* are in none when its own is not or there are later calls.
LEMMA LaterSets ==
  ASSUME DaysInv, setCalls # <<>>
  PROVE  /\ Days!Entry.key \notin ToSet(Tail(setCalls))
         /\ \A p \in DOMAIN tree : Days!Holds(tree[p].kvs) \cap ToSet(Tail(setCalls)) = {}
<1>1. /\ setCalls \in Seq(SetCall) /\ Head(setCalls) = setCalls[1]
      /\ Len(setCalls) \in Nat \ {0}
      /\ Tail(setCalls) \in Seq(SetCall) /\ Len(Tail(setCalls)) = Len(setCalls) - 1
      /\ \A i \in 1..(Len(setCalls) - 1) : Tail(setCalls)[i] = setCalls[i + 1]
  BY TailOfCalls DEF DaysInv, SetCallsOK
<1>2. ASSUME NEW i \in DOMAIN Tail(setCalls) PROVE Tail(setCalls)[i].kv.key # Days!Entry.key
  <2>1. /\ i + 1 \in DOMAIN setCalls /\ 1 \in DOMAIN setCalls
        /\ Tail(setCalls)[i] = setCalls[i + 1]
          /\ i + 1 # 1
    BY <1>1
  <2> QED
    BY <1>1, <2>1 DEF DaysInv, SetCallsOK, Days!Entry
<1>3. CASE Len(setCalls) > 1
  BY <1>2, <1>3, PendingTail DEF DaysInv, SetCallsOK, ToSet
<1>4. CASE Len(setCalls) = 1
  <2>1. DOMAIN Tail(setCalls) = 1..Len(Tail(setCalls)) /\ Len(Tail(setCalls)) = 0
    BY <1>1, <1>4
  <2>2. DOMAIN Tail(setCalls) = {}
    <3>1. DOMAIN Tail(setCalls) = 1..0
      BY <2>1
    <3>2. 1..0 = {}
      OBVIOUS
    <3> QED
      BY <3>1, <3>2
  <2>3. ToSet(Tail(setCalls)) = {}
    BY <2>2 DEF ToSet
  <2> QED
    BY <2>3
<1>5. Days!Entry.key \notin ToSet(Tail(setCalls))
  BY <1>2 DEF ToSet
<1> QED
  BY <1>1, <1>3, <1>4, <1>5

\* Filling the slot of the call, with its entry in it.
LEMMA FillStep ==
  ASSUME DaysInv, setCalls # <<>>, NEW pointer \in Days!Pointer,
         Days!Fill(Days!Here, pointer), setCalls' = Tail(setCalls),
         UNCHANGED <<set, flushed, root>>,
         ~ Days!IsNode(tree, Days!Here), pointer.kind = "bucket",
         BucketOK(pointer.kvs, set, ToSet(Tail(setCalls)), Days!Here),
         Days!Holds(pointer.kvs) =
           (IF Days!Here \in DOMAIN tree THEN Days!Holds(tree[Days!Here].kvs) ELSE {}) \cup {Days!Entry.key}
  PROVE  DaysInv'
<1> DEFINE k == Days!Entry.key n == Head(setCalls).level
<1>1. tree' = Filled(tree, Days!Here, pointer)
  BY DEF Days!Fill, Filled
<1>2. /\ k \in DOMAIN set /\ n \in 0..(Depth - 1) /\ Days!Here = Days!Prefix(k, n + 1)
      /\ Reached(tree, k, n)
  BY NextSet
<1>3. setCalls \in Seq(SetCall)
  BY DEF DaysInv, SetCallsOK
<1>4. ToSet(setCalls) \subseteq ToSet(Tail(setCalls)) \cup {k}
  BY <1>3, PendingTail DEF Days!Entry
<1>5. Shape(tree, set, ToSet(setCalls))
  BY DEF DaysInv
<1> HIDE DEF k, n
<1>6. Shape(Filled(tree, Days!Prefix(k, n + 1), pointer), set, ToSet(Tail(setCalls)))
  <2>1. k \in Days!Holds(pointer.kvs)
    BY DEF k
  <2>2. Days!Prefix(k, n + 1) \in DOMAIN tree =>
          Days!Holds(tree[Days!Prefix(k, n + 1)].kvs) \subseteq Days!Holds(pointer.kvs)
    BY <1>2
  <2> QED
    BY <1>2, <1>4, <1>5, <2>1, <2>2, FillShape
<1>7. Days!Holds(pointer.kvs) \cap ToSet(Tail(setCalls)) = {}
  BY LaterSets
<1>8. SetCallsOK(Filled(tree, Days!Here, pointer), set, Tail(setCalls))
  BY <1>7, FillCalls DEF DaysInv
<1> QED
  BY <1>1, <1>2, <1>6, <1>8 DEF DaysInv

LEMMA SetFreeStep ==
  ASSUME DaysInv, Days!SetFree
  PROVE  DaysInv'
<1> DEFINE kvs == <<Days!Entry>>
<1>1. /\ Days!Entry \in Days!KV /\ set[Days!Entry.key] = Days!Entry.value
      /\ Days!Entry.key \in Days!Under(set, Days!Here)
  BY NextSet DEF Days!SetFree
<1>2. kvs \in Seq(Days!KV) /\ Len(kvs) = 1 /\ kvs[1] = Days!Entry /\ DOMAIN kvs = {1}
  BY <1>1
<1> HIDE DEF kvs
<1>3. /\ Days!Bucket(kvs) \in Days!Pointer /\ Days!Bucket(kvs).kind = "bucket"
      /\ Days!Bucket(kvs).kvs = kvs
  BY <1>2 DEF Days!Bucket, Days!Pointer
<1>4. BucketOK(kvs, set, ToSet(Tail(setCalls)), Days!Here)
  BY <1>1, <1>2, DayAssumption DEF BucketOK, Days!Sorted
<1>5. Days!Holds(kvs) = {Days!Entry.key}
  BY <1>2 DEF Days!Holds
<1> QED
  BY <1>3, <1>4, <1>5, FillStep DEF Days!SetFree, Days!IsNode, kvs

\* The bucket the call comes to.
LEMMA AtBucket ==
  ASSUME DaysInv, Days!HasBucket
  PROVE  /\ tree[Days!Here] \in Days!Pointer
         /\ tree[Days!Here].kvs \in Seq(Days!KV)
         /\ tree[Days!Here].kind = "bucket"
         /\ BucketOK(tree[Days!Here].kvs, set, ToSet(setCalls), Days!Here)
<1>1. tree[Days!Here] \in Days!Pointer /\ tree[Days!Here].kind = "bucket"
  BY DEF Days!HasBucket, Days!IsNode, DaysInv, Shape, Days!IsTree
<1> QED
  BY <1>1 DEF Days!HasBucket, DaysInv, Shape, SlotsRight, Days!Pointer

LEMMA OverwriteStep ==
  ASSUME DaysInv, Days!Overwrite
  PROVE  DaysInv'
<1> DEFINE kvs == tree[Days!Here].kvs
<1>1. /\ kvs \in Seq(Days!KV) /\ BucketOK(kvs, set, ToSet(setCalls), Days!Here)
      /\ ToSet(setCalls) = ToSet(Tail(setCalls)) \cup {Days!Entry.key}
  BY AtBucket, PendingTail DEF Days!Overwrite, Days!HasBucket, DaysInv,
     SetCallsOK, Days!Entry
<1>2. PICK i \in DOMAIN kvs :
        kvs[i].key = Days!Entry.key /\ Days!Fill(Days!Here, Days!Bucket([kvs EXCEPT ![i] = Days!Entry]))
  BY DEF Days!Overwrite
<1> DEFINE new == [kvs EXCEPT ![i] = Days!Entry]
<1>3. Days!Entry \in Days!KV /\ set[Days!Entry.key] = Days!Entry.value
  BY NextSet DEF Days!Overwrite, Days!HasBucket
<1> HIDE DEF kvs
<1>4. /\ new \in Seq(Days!KV) /\ Len(new) = Len(kvs) /\ DOMAIN new = DOMAIN kvs
      /\ new[i] = Days!Entry /\ \A j \in DOMAIN kvs : j # i => new[j] = kvs[j]
  BY <1>1, <1>2, <1>3
<1> HIDE DEF new
<1>5. \A j \in DOMAIN kvs : new[j].key = kvs[j].key
  BY <1>2, <1>4
<1>6. ASSUME NEW j \in DOMAIN kvs, j # i PROVE kvs[j].key # Days!Entry.key
  <2>1. j < i \/ i < j
    BY <1>1, <1>6
  <2>2. kvs[j].key \in Int /\ kvs[i].key \in Int
    BY <1>1, EntryOrder
  <2>3. kvs[j].key < kvs[i].key \/ kvs[i].key < kvs[j].key
    BY <1>1, <2>1 DEF BucketOK, Days!Sorted
  <2> QED
    BY <1>2, <2>2, <2>3
<1>7. BucketOK(new, set, ToSet(Tail(setCalls)), Days!Here)
  <2>1. Len(new) \in 1..BucketSize /\ Days!Sorted(new)
    BY <1>1, <1>4, <1>5 DEF BucketOK, Days!Sorted
  <2>2. ASSUME NEW j \in DOMAIN new
        PROVE  /\ new[j].key \in Days!Under(set, Days!Here)
               /\ new[j].key \notin ToSet(Tail(setCalls)) => new[j].value = set[new[j].key]
    <3>1. CASE j = i
      BY <1>1, <1>2, <1>3, <1>4, <3>1 DEF BucketOK
    <3>2. CASE j # i
      BY <1>1, <1>4, <1>6, <3>2 DEF BucketOK
    <3> QED
      BY <3>1, <3>2
  <2> QED
    BY <2>1, <2>2 DEF BucketOK
<1>8. Days!Holds(new) = Days!Holds(kvs) \cup {Days!Entry.key}
  BY <1>2, <1>4, <1>5 DEF Days!Holds
<1>9. /\ Days!Bucket(new) \in Days!Pointer /\ Days!Bucket(new).kind = "bucket"
      /\ Days!Bucket(new).kvs = new
  BY <1>4 DEF Days!Bucket, Days!Pointer
<1>10. Days!Fill(Days!Here, Days!Bucket(new))
  BY <1>2 DEF new
<1> QED
  BY <1>7, <1>8, <1>9, <1>10, FillStep DEF Days!Overwrite, Days!HasBucket, kvs

LEMMA SetInBucketStep ==
  ASSUME DaysInv, Days!SetInBucket
  PROVE  DaysInv'
<1> DEFINE kvs == tree[Days!Here].kvs new == Days!Insert(kvs, Days!Entry)
<1>1. /\ kvs \in Seq(Days!KV) /\ BucketOK(kvs, set, ToSet(setCalls), Days!Here)
      /\ ToSet(setCalls) = ToSet(Tail(setCalls)) \cup {Days!Entry.key}
  BY AtBucket, PendingTail DEF Days!SetInBucket, Days!HasBucket, DaysInv,
     SetCallsOK, Days!Entry
<1>2. /\ Days!Entry \in Days!KV /\ set[Days!Entry.key] = Days!Entry.value
      /\ Days!Entry.key \in Days!Under(set, Days!Here)
  BY NextSet DEF Days!SetInBucket, Days!HasBucket
<1>3. /\ Days!Entry.key \notin Days!Holds(kvs) /\ Len(kvs) < BucketSize
      /\ Days!Fill(Days!Here, Days!Bucket(new))
  BY DEF Days!SetInBucket
<1> HIDE DEF kvs
<1>4. /\ new \in Seq(Days!KV) /\ Len(new) = Len(kvs) + 1 /\ Days!Sorted(new)
      /\ {new[i] : i \in DOMAIN new} = {kvs[i] : i \in DOMAIN kvs} \cup {Days!Entry}
  BY <1>1, <1>2, <1>3, InsertSorts DEF BucketOK
<1> HIDE DEF new
<1>5. \A j \in DOMAIN new : new[j] = Days!Entry \/ \E i \in DOMAIN kvs : new[j] = kvs[i]
  BY <1>4
<1>6. BucketOK(new, set, ToSet(Tail(setCalls)), Days!Here)
  <2>1. Len(new) \in 1..BucketSize
    BY <1>1, <1>3, <1>4, DayAssumption DEF BucketOK
  <2>2. ASSUME NEW j \in DOMAIN new
        PROVE  /\ new[j].key \in Days!Under(set, Days!Here)
               /\ new[j].key \notin ToSet(Tail(setCalls)) => new[j].value = set[new[j].key]
    <3>1. CASE new[j] = Days!Entry
      BY <1>2, <3>1
    <3>2. ASSUME NEW i \in DOMAIN kvs, new[j] = kvs[i]
          PROVE  /\ new[j].key \in Days!Under(set, Days!Here)
                 /\ new[j].key \notin ToSet(Tail(setCalls)) => new[j].value = set[new[j].key]
      BY <1>1, <1>3, <3>2 DEF BucketOK, Days!Holds
    <3> QED
      BY <1>5, <3>1, <3>2
  <2> QED
    BY <1>4, <2>1, <2>2 DEF BucketOK
<1>7. Days!Holds(new) = Days!Holds(kvs) \cup {Days!Entry.key}
  <2>1. Days!Holds(new) = {e.key : e \in {new[i] : i \in DOMAIN new}}
    BY DEF Days!Holds
  <2>2. Days!Holds(kvs) = {e.key : e \in {kvs[i] : i \in DOMAIN kvs}}
    BY DEF Days!Holds
  <2> QED
    BY <1>4, <2>1, <2>2
<1>8. /\ Days!Bucket(new) \in Days!Pointer /\ Days!Bucket(new).kind = "bucket"
      /\ Days!Bucket(new).kvs = new
  BY <1>4 DEF Days!Bucket, Days!Pointer
<1> QED
  BY <1>3, <1>6, <1>7, <1>8, FillStep DEF Days!SetInBucket, Days!HasBucket, kvs

LEMMA SetBelowStep ==
  ASSUME DaysInv, Days!SetBelow
  PROVE  DaysInv'
<1> DEFINE k == Days!Entry.key
           n == Head(setCalls).level u == Filled(tree, Days!Here, Days!Dirty)
           c == Days!Call(Days!Entry, n + 1) cs == <<c>> \o Tail(setCalls)
<1>1. tree' = u /\ setCalls' = cs /\ set' = set /\ flushed' = flushed /\ root' = root
  BY DEF Days!SetBelow, Days!Fill, Filled
<1>2. /\ Days!Entry \in Days!KV /\ k \in DOMAIN set /\ k \in DayKey
      /\ set[k] = Days!Entry.value
      /\ n \in 0..(Depth - 1) /\ n + 1 \in 1..Depth /\ Days!Here = Days!Prefix(k, n + 1)
      /\ Reached(tree, k, n)
  BY NextSet DEF Days!SetBelow
<1>3. /\ Days!IsNode(tree, Days!Here) /\ tree[Days!Here].kvs = <<>>
      /\ Days!Crowded(set, Days!Here)
  BY DEF Days!SetBelow, Days!IsNode, DaysInv, Shape, SlotsRight
<1>4. n + 1 \in 0..(Depth - 1)
  <2>1. n + 1 < Depth
    BY <1>2, <1>3, CrowdedAbove DEF DaysInv, Shape
  <2> QED
    BY <1>2, <2>1, DayAssumption
<1>5. /\ setCalls \in Seq(SetCall) /\ Head(setCalls) = setCalls[1]
      /\ Len(setCalls) \in Nat \ {0}
      /\ Tail(setCalls) \in Seq(SetCall) /\ Len(Tail(setCalls)) = Len(setCalls) - 1
      /\ \A i \in 1..(Len(setCalls) - 1) : Tail(setCalls)[i] = setCalls[i + 1]
  BY TailOfCalls DEF Days!SetBelow, DaysInv, SetCallsOK
<1>6. c \in SetCall /\ c.kv = Days!Entry /\ c.level = n + 1
  BY <1>2, <1>4 DEF SetCall, Days!Call
<1> HIDE DEF c
<1>7. /\ cs \in Seq(SetCall) /\ Len(cs) = Len(setCalls) /\ cs[1] = c
      /\ \A i \in 2..Len(setCalls) : cs[i] = setCalls[i]
  BY <1>5, <1>6
<1> HIDE DEF cs
<1>8. DOMAIN cs = DOMAIN setCalls /\ \A i \in DOMAIN setCalls : cs[i].kv = setCalls[i].kv
  BY <1>5, <1>6, <1>7 DEF Days!Entry
<1>9. ToSet(cs) = ToSet(setCalls)
  BY <1>8 DEF ToSet
<1>10. /\ DOMAIN u = DOMAIN tree \cup {Days!Here} /\ Days!Here \in DOMAIN tree
       /\ u[Days!Here] = Days!Dirty /\ \A q \in DOMAIN tree : q # Days!Here => u[q] = tree[q]
  BY <1>3 DEF Filled, Days!IsNode
<1>11. Shape(u, set, ToSet(setCalls))
  <2> HIDE DEF k, n
  <2>1. Days!Dirty \in Days!Pointer /\ Days!Dirty.kvs = <<>>
    BY DEF Days!Dirty, Days!Pointer
  <2>2. Shape(tree, set, ToSet(setCalls)) /\ k \in ToSet(setCalls)
    BY <1>5, PendingTail DEF DaysInv, Days!SetBelow, Days!Entry, k
  <2>3. Days!Holds(tree[Days!Here].kvs) = {}
    BY <1>3 DEF Days!Holds
  <2>4. /\ Days!Crowded(set, Days!Prefix(k, n + 1))
        /\ Days!Holds(tree[Days!Prefix(k, n + 1)].kvs) = {}
    BY <1>2, <1>3, <2>3
  <2>5. Shape(Filled(tree, Days!Prefix(k, n + 1), Days!Dirty), set, ToSet(setCalls))
    BY <1>2, <2>1, <2>2, <2>4, FillShape
  <2> QED
    BY <1>2, <2>5
<1> HIDE DEF u
<1>12. ASSUME NEW i \in DOMAIN cs PROVE SetCallOK(u, set, cs[i])
  <2>1. CASE i = 1
    BY <1>2, <1>6, <1>7, <1>10, <2>1 DEF SetCallOK, Reached, Days!Dirty
  <2>2. CASE i # 1
    <3>1. i \in DOMAIN setCalls /\ cs[i] = setCalls[i]
      BY <1>7, <1>8, <2>2
    <3>2. SetCallOK(tree, set, setCalls[i])
      BY <3>1 DEF DaysInv, SetCallsOK
    <3> QED
      BY <1>10, <3>1, <3>2 DEF SetCallOK, Reached, Days!Dirty
  <2> QED
    BY <2>1, <2>2
<1>13. ASSUME Len(cs) > 1, NEW q \in DOMAIN u PROVE Days!Holds(u[q].kvs) \cap ToSet(cs) = {}
  <2>1. CASE q = Days!Here
    BY <1>10, <2>1 DEF Days!Dirty, Days!Holds
  <2>2. CASE q # Days!Here
    BY <1>7, <1>9, <1>10, <1>13, <2>2 DEF DaysInv, SetCallsOK
  <2> QED
    BY <2>1, <2>2
<1>14. SetCallsOK(u, set, cs)
  BY <1>7, <1>8, <1>12, <1>13 DEF SetCallsOK, DaysInv
<1> QED
  BY <1>1, <1>9, <1>11, <1>14 DEF DaysInv

\* A key is in one place.
LEMMA OnePlace ==
  ASSUME NEW t, NEW es, NEW pend, Shape(t, es, pend), NEW k \in DayKey,
         NEW m \in 1..Depth, HeldAt(t, k, m), NEW j \in 1..Depth, HeldAt(t, k, j)
  PROVE  m = j
<1>1. ~ Days!IsNode(t, Days!Prefix(k, m)) /\ ~ Days!IsNode(t, Days!Prefix(k, j))
  BY HeldInBucket DEF HeldAt, Days!IsNode
<1>2. ~ (m < j) /\ ~ (j < m)
  BY <1>1 DEF Shape, BelowNodes, HeldAt
<1> QED
  BY <1>2

\* A full bucket and one more key crowd a slot.
LEMMA OneTooMany ==
  ASSUME DaysInv, Days!HasBucket, Days!Entry.key \notin Days!Holds(tree[Days!Here].kvs),
         Len(tree[Days!Here].kvs) >= BucketSize
  PROVE  Days!Crowded(set, Days!Here)
<1> DEFINE kvs == tree[Days!Here].kvs
<1>1. kvs \in Seq(Days!KV) /\ BucketOK(kvs, set, ToSet(setCalls), Days!Here)
  BY AtBucket
<1>2. Days!Holds(kvs) \cup {Days!Entry.key} \in SUBSET Days!Under(set, Days!Here)
  BY <1>1, NextSet DEF Days!HasBucket, BucketOK, Days!Holds
<1> HIDE DEF kvs
<1>3. IsFiniteSet(Days!Holds(kvs)) /\ Cardinality(Days!Holds(kvs)) = Len(kvs)
  BY <1>1, SortedCount DEF BucketOK
<1>4. Cardinality(Days!Holds(kvs) \cup {Days!Entry.key}) = Len(kvs) + 1
  BY <1>3, FS_AddElement DEF kvs
<1>5. Days!Under(set, Days!Here) \in SUBSET (DOMAIN set) /\ IsFiniteSet(DOMAIN set)
  BY DEF Days!Under, DaysInv, Shape
<1>6. IsFiniteSet(Days!Under(set, Days!Here))
  BY <1>5, FS_Subset
<1>7. /\ Len(kvs) + 1 <= Cardinality(Days!Under(set, Days!Here))
      /\ Cardinality(Days!Under(set, Days!Here)) \in Nat /\ Len(kvs) \in Nat
  BY <1>1, <1>2, <1>4, <1>6, FS_Subset, FS_CardinalityType
<1> QED
  BY <1>7, DayAssumption, CrowdCount DEF kvs

LEMMA OverflowStep ==
  ASSUME DaysInv, Days!Overflow
  PROVE  DaysInv'
<1> DEFINE k == Days!Entry.key
           n == Head(setCalls).level u == Filled(tree, Days!Here, Days!Dirty)
           kvs == tree[Days!Here].kvs all == <<Days!Entry>> \o kvs
           split == Days!Split(all, n + 1) ds == Tail(setCalls) cs == split \o ds
<1>1. tree' = u /\ setCalls' = cs /\ set' = set /\ flushed' = flushed /\ root' = root
  BY DEF Days!Overflow, Days!Fill, Filled
<1>2. /\ Days!Entry \in Days!KV /\ k \in DOMAIN set /\ k \in DayKey
      /\ set[k] = Days!Entry.value
      /\ n \in 0..(Depth - 1) /\ n + 1 \in 1..Depth /\ Days!Here = Days!Prefix(k, n + 1)
      /\ Reached(tree, k, n) /\ k \in Days!Under(set, Days!Here)
  BY NextSet DEF Days!Overflow, Days!HasBucket
<1>3. /\ Days!Here \in DOMAIN tree /\ ~ Days!IsNode(tree, Days!Here)
      /\ k \notin Days!Holds(kvs)
      /\ kvs \in Seq(Days!KV) /\ BucketOK(kvs, set, ToSet(setCalls), Days!Here)
      /\ Days!Crowded(set, Days!Here)
  BY AtBucket, OneTooMany DEF Days!Overflow, Days!HasBucket
<1>4. n + 1 \in 0..(Depth - 1)
  <2>1. n + 1 < Depth
    BY <1>2, <1>3, CrowdedAbove DEF DaysInv, Shape
  <2> QED
    BY <1>2, <2>1, DayAssumption
<1>5. /\ setCalls \in Seq(SetCall) /\ ds \in Seq(SetCall) /\ Len(ds) = Len(setCalls) - 1
      /\ Len(setCalls) \in Nat \ {0}
      /\ \A i \in 1..(Len(setCalls) - 1) : ds[i] = setCalls[i + 1]
  BY TailOfCalls DEF Days!Overflow, Days!HasBucket, DaysInv, SetCallsOK
<1>6. ToSet(setCalls) = ToSet(ds) \cup {k}
  BY <1>5, PendingTail DEF Days!Overflow, Days!HasBucket, Days!Entry
<1>7. k \notin ToSet(ds) /\ Days!Holds(kvs) \cap ToSet(ds) = {}
  BY <1>3, LaterSets DEF Days!Overflow, Days!HasBucket
<1>8. Shape(tree, set, ToSet(setCalls))
  BY DEF DaysInv
<1>9. /\ DOMAIN u = DOMAIN tree /\ u[Days!Here] = Days!Dirty
      /\ \A q \in DOMAIN tree : q # Days!Here => u[q] = tree[q]
  BY <1>3 DEF Filled
<1> HIDE DEF kvs, k, n, ds
<1>10. /\ all \in Seq(Days!KV) /\ Len(all) = Len(kvs) + 1 /\ all[1] = Days!Entry
       /\ \A i \in 2..(Len(kvs) + 1) : all[i] = kvs[i - 1]
  BY <1>2, <1>3
<1> HIDE DEF all
<1>11. /\ split \in Seq(SetCall) /\ Len(split) = Len(all)
       /\ \A i \in 1..Len(all) : split[i].kv = all[i] /\ split[i].level = n + 1
  <2>1. \A i \in 1..Len(all) : all[i] \in Days!KV
    BY <1>10
  <2>2. DOMAIN all = 1..Len(all) /\ Len(all) \in Nat
    BY <1>10
  <2> QED
    BY <1>4, <2>1, <2>2 DEF Days!Split, Days!Call, SetCall
<1> HIDE DEF split
<1>12. /\ cs \in Seq(SetCall) /\ Len(cs) = Len(all) + Len(ds)
       /\ \A i \in 1..Len(all) : cs[i] = split[i]
       /\ \A i \in (Len(all) + 1)..Len(cs) : cs[i] = ds[i - Len(all)]
  <2>1. split \in Seq(SetCall) /\ ds \in Seq(SetCall) /\ Len(split) = Len(all)
    BY <1>5, <1>11
  <2>2. /\ cs \in Seq(SetCall) /\ Len(cs) = Len(split) + Len(ds)
        /\ \A i \in 1..Len(split) : cs[i] = split[i]
    BY <2>1
  <2>3. \A i \in (Len(split) + 1)..Len(cs) : cs[i] = ds[i - Len(split)]
    BY <2>1
  <2> QED
    BY <2>1, <2>2, <2>3
<1> HIDE DEF cs
<1>13. Len(all) \in Nat /\ Len(ds) \in Nat /\ Len(kvs) \in Nat
         /\ DOMAIN cs = 1..Len(cs) /\ DOMAIN ds = 1..Len(ds)
  BY <1>3, <1>5, <1>10, <1>12
\* A call is about the new entry, one of the bucket, or it was there before.
<1>14. ASSUME NEW i \in DOMAIN cs
       PROVE  \/ i = 1 /\ cs[i].kv = Days!Entry /\ cs[i].level = n + 1
              \/ /\ i - 1 \in DOMAIN kvs
                 /\ cs[i].kv = kvs[i - 1] /\ cs[i].level = n + 1
              \/ /\ i > Len(all) /\ i - Len(all) \in DOMAIN ds
                 /\ cs[i] = ds[i - Len(all)]
  <2>1. CASE i = 1
    BY <1>10, <1>11, <1>12, <1>13, <2>1
  <2>2. CASE i # 1 /\ i <= Len(all)
    <3>1. i \in 1..Len(all) /\ i \in 2..(Len(kvs) + 1) /\ i - 1 \in 1..Len(kvs)
      BY <1>10, <1>13, <2>2
    <3> QED
      BY <1>3, <1>10, <1>11, <1>12, <3>1
  <2>3. CASE i > Len(all)
    BY <1>12, <1>13, <2>3
  <2> QED
    BY <1>13, <2>1, <2>2, <2>3
<1>15. /\ \A i \in DOMAIN kvs : kvs[i].key \in Days!Holds(kvs)
       /\ \A i \in DOMAIN ds : ds[i].kv.key \in ToSet(ds)
  BY DEF Days!Holds, ToSet
<1>16. ToSet(cs) = ToSet(ds) \cup Days!Holds(kvs) \cup {k}
  <2>1. ASSUME NEW i \in DOMAIN cs PROVE cs[i].kv.key \in ToSet(ds) \cup Days!Holds(kvs) \cup {k}
    BY <1>14, <1>15 DEF k
  <2>2. ASSUME NEW i \in DOMAIN ds PROVE ds[i].kv.key \in ToSet(cs)
    <3>1. i + Len(all) \in DOMAIN cs /\ cs[i + Len(all)] = ds[i]
      BY <1>12, <1>13
    <3> QED
      BY <3>1 DEF ToSet
  <2>3. ASSUME NEW i \in DOMAIN kvs PROVE kvs[i].key \in ToSet(cs)
    <3>1. i + 1 \in DOMAIN cs /\ i + 1 \in 1..Len(all) /\ all[i + 1] = kvs[i]
      BY <1>3, <1>10, <1>12, <1>13
    <3>2. cs[i + 1].kv = kvs[i]
      BY <1>11, <1>12, <3>1
    <3> QED
      BY <3>1, <3>2 DEF ToSet
  <2>4. k \in ToSet(cs)
    <3>1. 1 \in DOMAIN cs /\ cs[1].kv = Days!Entry
      BY <1>10, <1>11, <1>12, <1>13
    <3> QED
      BY <3>1 DEF ToSet, k
  <2> QED
    BY <2>1, <2>2, <2>3, <2>4 DEF ToSet, Days!Holds
<1>17. Shape(u, set, ToSet(cs))
  <2>1. Days!Dirty \in Days!Pointer /\ Days!Dirty.kvs = <<>>
    BY DEF Days!Dirty, Days!Pointer
  <2>2. ToSet(setCalls) \subseteq ToSet(cs) \cup {k} /\ k \in ToSet(cs)
          /\ Days!Holds(kvs) \subseteq ToSet(cs)
    BY <1>6, <1>16
  <2>3. Days!Holds(tree[Days!Prefix(k, n + 1)].kvs) \subseteq ToSet(cs)
    BY <1>2, <2>2 DEF kvs
  <2>4. /\ Days!Crowded(set, Days!Prefix(k, n + 1))
        /\ ~ Days!IsNode(tree, Days!Prefix(k, n + 1))
    BY <1>2, <1>3
  <2>5. Shape(Filled(tree, Days!Prefix(k, n + 1), Days!Dirty), set, ToSet(cs))
    BY <1>2, <1>8, <2>1, <2>2, <2>3, <2>4, FillShape
  <2> QED
    BY <1>2, <2>5
<1> HIDE DEF u
<1>18. ASSUME NEW i \in DOMAIN kvs
       PROVE  /\ kvs[i].key \in Days!Under(set, Days!Here) /\ kvs[i].key \in DOMAIN set
              /\ set[kvs[i].key] = kvs[i].value
  BY <1>3, <1>6, <1>7, <1>15 DEF BucketOK, Days!Under
<1>19. ASSUME NEW l \in Days!Under(set, Days!Here)
       PROVE  Reached(u, l, n + 1)
  <2>1. l \in DOMAIN set /\ l \in DayKey
    BY <1>8 DEF Days!Under, Shape, Days!IsMap
  <2>2. Days!Prefix(l, n + 1) = Days!Here
    BY <1>2, <1>8, UnderPrefix DEF Shape
  <2> QED
    BY <1>3, <1>9, <2>2 DEF Reached, Days!Dirty
<1>20. ASSUME NEW i \in DOMAIN cs PROVE SetCallOK(u, set, cs[i])
  <2>1. CASE i = 1 /\ cs[i].kv = Days!Entry /\ cs[i].level = n + 1
    <3>1. Days!Entry.key \in DOMAIN set /\ set[Days!Entry.key] = Days!Entry.value
            /\ Days!Entry.key \in Days!Under(set, Days!Here)
      BY <1>2 DEF k
    <3> QED
      BY <1>19, <2>1, <3>1 DEF SetCallOK
  <2>2. CASE i - 1 \in DOMAIN kvs /\ cs[i].kv = kvs[i - 1] /\ cs[i].level = n + 1
    BY <1>18, <1>19, <2>2 DEF SetCallOK
  <2>3. CASE i > Len(all) /\ i - Len(all) \in DOMAIN ds /\ cs[i] = ds[i - Len(all)]
    <3>1. i - Len(all) + 1 \in DOMAIN setCalls /\ cs[i] = setCalls[i - Len(all) + 1]
      BY <1>5, <1>13, <2>3
    <3>2. SetCallOK(tree, set, cs[i])
      BY <3>1 DEF DaysInv, SetCallsOK
    <3> QED
      BY <1>9, <3>2 DEF SetCallOK, Reached, Days!Dirty
  <2> QED
    BY <1>14, <2>1, <2>2, <2>3
<1>21. ASSUME NEW q \in DOMAIN u PROVE Days!Holds(u[q].kvs) \cap ToSet(cs) = {}
  <2>1. CASE q = Days!Here
    BY <1>9, <2>1 DEF Days!Dirty, Days!Holds
  <2>2. CASE q # Days!Here
    <3>1. q \in DOMAIN tree /\ u[q] = tree[q]
      BY <1>9, <2>2
    <3> SUFFICES ASSUME NEW l \in Days!Holds(tree[q].kvs),
                      l \in Days!Holds(kvs) \/ l = k PROVE FALSE
      BY <1>16, <3>1, LaterSets DEF Days!Overflow, Days!HasBucket, ds
    <3>2. PICK m \in 1..Depth : q = Days!Prefix(l, m) /\ HeldAt(tree, l, m) /\ l \in DayKey
      BY <1>8, <3>1, HeldInBucket
    <3>3. CASE l = k
      BY <1>2, <1>3, <1>8, <2>2, <3>2, <3>3, OneBucket
    <3>4. CASE l \in Days!Holds(kvs)
      <4>1. PICK j \in 1..Depth : Days!Here = Days!Prefix(l, j) /\ HeldAt(tree, l, j)
        BY <1>3, <1>8, <3>4, HeldInBucket DEF kvs
      <4> QED
        BY <1>8, <2>2, <3>2, <4>1, OnePlace
    <3> QED
      BY <3>3, <3>4
  <2> QED
    BY <2>1, <2>2
<1>22. ASSUME NEW i \in DOMAIN kvs, NEW j \in DOMAIN kvs, kvs[i].key = kvs[j].key
       PROVE  i = j
  <2>1. kvs[i].key \in Int /\ kvs[j].key \in Int /\ i \in Int /\ j \in Int
    BY <1>3, EntryOrder
  <2>2. ~ (i < j) /\ ~ (j < i)
    BY <1>3, <1>22, <2>1 DEF BucketOK, Days!Sorted
  <2> QED
    BY <2>1, <2>2
<1>23. ASSUME NEW i \in DOMAIN ds, NEW j \in DOMAIN ds, ds[i].kv.key = ds[j].kv.key
       PROVE  i = j
  <2>1. i + 1 \in DOMAIN setCalls /\ ds[i] = setCalls[i + 1]
          /\ j + 1 \in DOMAIN setCalls /\ ds[j] = setCalls[j + 1]
    BY <1>5, <1>13
  <2>2. i + 1 = j + 1
    BY <1>23, <2>1 DEF DaysInv, SetCallsOK
  <2> QED
    BY <1>13, <2>2
<1>24. ASSUME NEW i \in DOMAIN cs, NEW j \in DOMAIN cs, cs[i].kv.key = cs[j].kv.key
       PROVE  i = j
  <2> DEFINE New(x) == x = 1 /\ cs[x].kv = Days!Entry
             Old(x) == x - 1 \in DOMAIN kvs /\ cs[x].kv = kvs[x - 1]
             Later(x) == /\ x > Len(all) /\ x - Len(all) \in DOMAIN ds
                         /\ cs[x] = ds[x - Len(all)]
  <2>1. (New(i) \/ Old(i) \/ Later(i)) /\ (New(j) \/ Old(j) \/ Later(j))
    BY <1>14
  <2>2. \A x \in DOMAIN cs : /\ New(x) => cs[x].kv.key = k
                             /\ Old(x) => cs[x].kv.key \in Days!Holds(kvs)
                             /\ Later(x) => cs[x].kv.key \in ToSet(ds)
    BY <1>15 DEF k
  <2>3. CASE New(i) /\ New(j)
    BY <2>3
  <2>4. CASE Old(i) /\ Old(j)
    <3>1. i - 1 = j - 1
      BY <1>22, <1>24, <2>4
    <3> QED
      BY <1>13, <3>1
  <2>5. CASE Later(i) /\ Later(j)
    <3>1. i - Len(all) = j - Len(all)
      BY <1>23, <1>24, <2>5
    <3> QED
      BY <1>13, <3>1
  <2> QED
    BY <1>3, <1>7, <1>24, <2>1, <2>2, <2>3, <2>4, <2>5
<1>25. SetCallsOK(u, set, cs)
  BY <1>12, <1>20, <1>21, <1>24 DEF SetCallsOK
<1> QED
  BY <1>1, <1>17, <1>25 DEF DaysInv

LEMMA SetBegins ==
  ASSUME DaysInv, NEW k \in DayKey, NEW v \in DayValue, Days!Set(k, v)
  PROVE  DaysInv'
<1> DEFINE es == [l \in DOMAIN set \cup {k} |-> IF l = k THEN v ELSE set[l]]
           c == Days!Call([key |-> k, value |-> v], 0)
<1>1. /\ set' = es /\ setCalls = <<>> /\ setCalls' = <<c>>
      /\ tree' = tree /\ flushed' = flushed /\ root' = root
  BY DEF Days!Set
<1>2. /\ Days!IsMap(set) /\ IsFiniteSet(DOMAIN set) /\ Days!IsTree(tree)
      /\ SlotsRight(tree, set, {}) /\ BelowNodes(tree) /\ AllHeld(tree, set, {})
  <2>1. ToSet(setCalls) = {}
    BY <1>1 DEF ToSet
  <2> QED
    BY <2>1 DEF DaysInv, Shape
<1>3. /\ DOMAIN es = DOMAIN set \cup {k} /\ es[k] = v
      /\ \A l \in DOMAIN set : l # k => es[l] = set[l]
  OBVIOUS
<1>4. Days!IsMap(es)
  <2>1. DOMAIN set \subseteq DayKey /\ \A l \in DOMAIN set : set[l] \in DayValue
    BY <1>2 DEF Days!IsMap
  <2>2. /\ es \in [DOMAIN set \cup {k} -> DayValue]
        /\ DOMAIN set \cup {k} \in SUBSET DayKey
    BY <2>1
  <2> QED
    BY <2>2 DEF Days!IsMap
<1>5. IsFiniteSet(DOMAIN es)
  BY <1>2, <1>3, FS_AddElement
<1> HIDE DEF es
<1>6. \A p : Days!Under(set, p) \subseteq Days!Under(es, p)
  BY <1>3 DEF Days!Under
<1>7. \A p : Days!Crowded(set, p) => Days!Crowded(es, p)
  BY <1>5, <1>6, CrowdGrows
<1>8. SlotsRight(tree, es, {k})
  BY <1>2, <1>3, <1>6, <1>7 DEF SlotsRight, BucketOK, Days!Under
<1>9. AllHeld(tree, es, {k})
  BY <1>2, <1>3 DEF AllHeld
<1>10. c \in SetCall /\ c.kv.key = k /\ c.kv.value = v /\ c.level = 0
  BY DayAssumption DEF Days!Call, SetCall, Days!KV
<1>11. SetCallsOK(tree, es, <<c>>)
  BY <1>3, <1>10 DEF SetCallsOK, SetCallOK, Reached
<1>12. ToSet(<<c>>) = {k}
  BY <1>10 DEF ToSet
<1> QED
  BY <1>1, <1>2, <1>4, <1>5, <1>8, <1>9, <1>11, <1>12 DEF DaysInv, Shape

\* Flushing changes no bucket and makes links of the children that are dirty.
LEMMA FlushedTree ==
  ASSUME NEW t, NEW es, Shape(t, es, {})
  PROVE  Shape(Days!Flushed(t), es, {})
<1> DEFINE u == Days!Flushed(t)
<1>1. /\ DOMAIN u = DOMAIN t
      /\ \A p \in DOMAIN t : u[p] = IF t[p] = Days!Dirty THEN Days!Link ELSE t[p]
  BY DEF Days!Flushed
<1>2. Days!IsTree(u)
  BY DEF Days!Flushed, Shape, Days!IsTree, Days!Link, Days!Pointer
<1> HIDE DEF u
<1>3. \A p \in DOMAIN t : /\ u[p].kvs = t[p].kvs
                          /\ u[p].kind = "bucket" <=> t[p].kind = "bucket"
  BY <1>1 DEF Days!Dirty, Days!Link
<1>4. ASSUME NEW p \in DOMAIN t PROVE u[p].kind # "dirty"
  <2> SUFFICES ASSUME t[p].kind = "dirty" PROVE t[p] = Days!Dirty
    BY <1>1 DEF Days!Link
  <2>1. t[p] \in Days!Pointer /\ t[p].kvs = <<>>
    BY DEF Shape, Days!IsTree, SlotsRight
  <2> QED
    BY <2>1 DEF Days!Pointer, Days!Dirty
<1>5. SlotsRight(u, es, {})
  BY <1>1, <1>3 DEF Shape, SlotsRight
<1>6. BelowNodes(u)
  BY <1>1, <1>3, <1>4 DEF Shape, BelowNodes, Days!IsNode
<1>7. AllHeld(u, es, {})
  BY <1>1, <1>3 DEF Shape, AllHeld, HeldAt
<1> QED
  BY <1>2, <1>5, <1>6, <1>7 DEF Shape, u

LEMMA InitDays == Days!Init => DaysInv
<1> SUFFICES ASSUME Days!Init PROVE DaysInv
  OBVIOUS
<1>1. /\ setCalls = <<>> /\ tree = Days!Empty /\ root = Days!Empty
      /\ set = Days!Empty /\ flushed = Days!Empty
  BY DEF Days!Init
<1>2. /\ Days!Empty \in [{} -> DayValue] /\ DOMAIN Days!Empty = {}
      /\ Days!Empty = [p \in DOMAIN Days!Empty |-> Days!Empty[p]]
  BY DEF Days!Empty
<1> HIDE DEF Days!Empty
<1>3. Days!IsMap(Days!Empty) /\ Days!IsTree(Days!Empty)
  BY <1>2 DEF Days!IsMap, Days!IsTree
<1>4. IsFiniteSet(DOMAIN Days!Empty)
  BY <1>2, FS_EmptySet
<1>5. Shape(Days!Empty, Days!Empty, {})
  BY <1>2, <1>3, <1>4 DEF Shape, SlotsRight, BelowNodes, AllHeld
<1>6. ToSet(<<>>) = {} /\ SetCallsOK(Days!Empty, Days!Empty, <<>>)
  BY DEF ToSet, SetCallsOK
<1> QED
  BY <1>1, <1>5, <1>6 DEF DaysInv

LEMMA DaysStep == DaysInv /\ [Days!Next]_(Days!vars) => DaysInv'
<1> SUFFICES ASSUME DaysInv, [Days!Next]_(Days!vars) PROVE DaysInv'
  OBVIOUS
<1>0. ASSUME setCalls = <<>>
      PROVE  ToSet(setCalls) = {} /\ \A t, es : SetCallsOK(t, es, setCalls)
  BY <1>0 DEF ToSet, SetCallsOK
<1>1. ASSUME NEW k \in DayKey, NEW v \in DayValue, Days!Set(k, v) PROVE DaysInv'
  BY <1>1, SetBegins
<1>2. CASE Days!Flush
  <2>1. /\ setCalls = <<>> /\ setCalls' = setCalls
        /\ tree' = Days!Flushed(tree) /\ root' = Days!Flushed(tree)
        /\ set' = set /\ flushed' = set
    BY <1>2 DEF Days!Flush
  <2>2. Shape(Days!Flushed(tree), set, {})
    BY <1>0, <2>1, FlushedTree DEF DaysInv
  <2> QED
    BY <1>0, <2>1, <2>2 DEF DaysInv
<1>3. CASE Days!Load
  <2>1. /\ setCalls = <<>> /\ setCalls' = setCalls /\ tree' = root /\ root' = root
        /\ set' = flushed /\ flushed' = flushed
    BY <1>3 DEF Days!Load
  <2> QED
    BY <1>0, <2>1 DEF DaysInv
<1>4. CASE UNCHANGED Days!vars
  BY <1>4 DEF Days!vars, DaysInv
<1> QED
  BY <1>1, <1>2, <1>3, <1>4, SetFreeStep, SetBelowStep, OverwriteStep, SetInBucketStep,
     OverflowStep DEF Days!Next

----------------------------------------------------------------------------
\* With nothing left to set a slot holds a bucket or is crowded, as the entries
\* have it.
LEMMA CanonicalShape ==
  ASSUME NEW t, NEW es, Shape(t, es, {})
  PROVE  Days!IsCanonical(t, es)
<1>1. ASSUME NEW p \in DOMAIN t
      PROVE  /\ Len(p) \in 1..Depth /\ t[p] \in Days!Pointer
             /\ \E k \in DOMAIN es : k \in DayKey /\ Days!Prefix(k, Len(p)) = p
  <2>1. Len(p) \in 1..Depth /\ t[p] \in Days!Pointer
    BY DayAssumption DEF Shape, Days!IsTree, Days!SlotPath
  <2>2. Days!Under(es, p) # {}
    <3>1. CASE t[p].kind = "bucket"
      <4>1. Len(t[p].kvs) \in 1..BucketSize /\ 1 \in DOMAIN t[p].kvs
              /\ t[p].kvs[1].key \in Days!Under(es, p)
        BY <2>1, <3>1, DayAssumption DEF Shape, SlotsRight, BucketOK, Days!Pointer
      <4> QED
        BY <4>1
    <3>2. CASE t[p].kind # "bucket"
      <4>1. Days!Crowded(es, p)
        BY <3>2 DEF Shape, SlotsRight
      <4> QED
        <5>1. Cardinality(Days!Under(es, p)) > BucketSize
          BY <4>1, CrowdCount
        <5>2. Cardinality({}) = 0
          BY FS_EmptySet
        <5>3. BucketSize \in Nat
          BY DayAssumption
        <5>4. ~ (0 > BucketSize)
          BY <5>3
        <5> QED
          BY <5>1, <5>2, <5>4
    <3> QED
      BY <3>1, <3>2
  <2> QED
    BY <2>1, <2>2 DEF Days!Under, Shape, Days!IsMap
\* The keys under a slot that is no node are in its bucket.
<1>2. ASSUME NEW p \in DOMAIN t, t[p].kind = "bucket", NEW k \in Days!Under(es, p)
      PROVE  k \in Days!Holds(t[p].kvs)
  <2>1. /\ k \in DOMAIN es /\ k \in DayKey /\ Days!Prefix(k, Len(p)) = p
        /\ Len(p) \in 1..Depth
    BY <1>1 DEF Days!Under, Shape, Days!IsMap
  <2>2. PICK m \in 1..Depth : HeldAt(t, k, m)
    BY <2>1 DEF Shape, AllHeld
  <2>3. ~ Days!IsNode(t, Days!Prefix(k, m)) /\ ~ Days!IsNode(t, Days!Prefix(k, Len(p)))
    BY <1>2, <2>1, <2>2, HeldInBucket DEF HeldAt, Days!IsNode
  <2>4. ~ (m < Len(p)) /\ ~ (Len(p) < m)
    BY <2>1, <2>2, <2>3 DEF Shape, BelowNodes, HeldAt
  <2>5. m = Len(p)
    BY <2>1, <2>4
  <2> QED
    BY <2>1, <2>2, <2>5 DEF HeldAt
<1>3. ASSUME NEW p \in DOMAIN t, t[p].kind = "bucket"
      PROVE  /\ ~ Days!Crowded(es, p) /\ Days!Sorted(t[p].kvs)
             /\ {t[p].kvs[i] : i \in DOMAIN t[p].kvs} =
                  {[key |-> k, value |-> es[k]] : k \in Days!Under(es, p)}
  <2> DEFINE kvs == t[p].kvs
  <2>1. kvs \in Seq(Days!KV) /\ BucketOK(kvs, es, {}, p)
    BY <1>1, <1>3 DEF Shape, SlotsRight, Days!Pointer
  <2>2. \A k \in Days!Under(es, p) : k \in Days!Holds(kvs)
    BY <1>2, <1>3
  <2> HIDE DEF kvs
  <2>3. \A i \in DOMAIN kvs : /\ kvs[i].key \in Days!Under(es, p)
                             /\ kvs[i] = [key |-> kvs[i].key, value |-> es[kvs[i].key]]
    <3> TAKE i \in DOMAIN kvs
    <3>1. /\ kvs[i] \in Days!KV /\ kvs[i].key \in Days!Under(es, p)
          /\ kvs[i].value = es[kvs[i].key]
      BY <2>1 DEF BucketOK
    <3> QED
      BY <3>1 DEF Days!KV
  <2>4. Days!Holds(kvs) = Days!Under(es, p)
    BY <2>2, <2>3 DEF Days!Holds
  <2>5. ~ Days!Crowded(es, p)
    <3>1. Cardinality(Days!Under(es, p)) = Len(kvs) /\ Len(kvs) \in 1..BucketSize
      BY <2>1, <2>4, SortedCount DEF BucketOK
    <3> QED
      BY <3>1, DayAssumption, CrowdCount
  <2>6. {kvs[i] : i \in DOMAIN kvs} = {[key |-> k, value |-> es[k]] : k \in Days!Under(es, p)}
    BY <2>3, <2>4 DEF Days!Holds
  <2> QED
    BY <2>1, <2>5, <2>6 DEF BucketOK, kvs
<1>4. ASSUME NEW p \in DOMAIN t, t[p].kind # "bucket"
      PROVE  Days!Crowded(es, p) /\ t[p] \in {Days!Link, Days!Dirty}
  BY <1>1, <1>4 DEF Shape, SlotsRight, Days!Pointer, Days!Link, Days!Dirty
<1>5. ASSUME NEW p \in DOMAIN t PROVE p \in Days!Slots(es)
  <2>1. PICK k \in DOMAIN es : k \in DayKey /\ Days!Prefix(k, Len(p)) = p
    BY <1>1
  <2>2. Len(p) \in 1..Depth
    BY <1>1
  <2>3. Len(p) = 1 \/ Days!Crowded(es, Days!Prefix(k, Len(p) - 1))
    <3> SUFFICES ASSUME Len(p) # 1 PROVE Days!Crowded(es, Days!Prefix(k, Len(p) - 1))
      OBVIOUS
    <3>1. Len(p) - 1 \in 1..Depth /\ Len(p) - 1 < Len(p)
      <4> DEFINE n == Len(p)
      <4>1. n \in 1..Depth /\ n # 1
        BY <2>2
      <4> HIDE DEF n
      <4>2. n - 1 \in 1..Depth /\ n - 1 < n
        BY <4>1, DayAssumption
      <4> QED
        BY <4>2 DEF n
    <3>2. Days!IsNode(t, Days!Prefix(k, Len(p) - 1))
      BY <2>1, <2>2, <3>1 DEF Shape, BelowNodes
    <3> QED
      BY <1>4, <3>2 DEF Days!IsNode
  <2> DEFINE mine == {Days!Prefix(k, n) : n \in {m \in 1..Depth :
                                      m = 1 \/ Days!Crowded(es, Days!Prefix(k, m - 1))}}
  <2>4. p \in mine
    BY <2>1, <2>2, <2>3
  <2> QED
    BY <2>4 DEF Days!Slots
<1>6. ASSUME NEW k \in DOMAIN es, NEW n \in 1..Depth,
             n = 1 \/ Days!Crowded(es, Days!Prefix(k, n - 1))
      PROVE  Days!Prefix(k, n) \in DOMAIN t
  <2>0. k \in DayKey
    BY DEF Shape, Days!IsMap
  <2>1. PICK m \in 1..Depth : HeldAt(t, k, m)
    BY DEF Shape, AllHeld
  <2>2. CASE n <= m
    BY <2>0, <2>1, <2>2 DEF Shape, BelowNodes, HeldAt, Days!IsNode
  <2>3. CASE n > m
    <3>1. n - 1 \in 1..Depth /\ m <= n - 1 /\ n # 1
      BY <2>3, DayAssumption
    <3>2. Days!Crowded(es, Days!Prefix(k, n - 1))
      BY <1>6, <3>1
    <3>3. Days!Under(es, Days!Prefix(k, n - 1)) \subseteq Days!Under(es, Days!Prefix(k, m))
      <4> SUFFICES ASSUME NEW l \in Days!Under(es, Days!Prefix(k, n - 1))
             PROVE l \in Days!Under(es, Days!Prefix(k, m))
        OBVIOUS
      <4>1. /\ l \in DOMAIN es /\ l \in DayKey
            /\ Days!Prefix(l, n - 1) = Days!Prefix(k, n - 1)
        BY <2>0, <3>1, UnderPrefix DEF Shape, Days!IsMap
      <4>2. Days!Prefix(l, m) = Days!Prefix(k, m)
        BY <2>0, <3>1, <4>1, SamePrefix
      <4> QED
        BY <2>0, <4>1, <4>2, UnderPrefix DEF Shape
    <3>4. Days!Crowded(es, Days!Prefix(k, m))
      BY <3>2, <3>3, CrowdGrows DEF Shape
    <3>5. t[Days!Prefix(k, m)].kind = "bucket" /\ Days!Prefix(k, m) \in DOMAIN t
      BY <2>1, HeldInBucket DEF HeldAt
    <3> QED
      BY <1>3, <3>4, <3>5
  <2> QED
    BY <2>2, <2>3
<1>7. DOMAIN t = Days!Slots(es)
  BY <1>5, <1>6 DEF Days!Slots
<1> QED
  BY <1>3, <1>4, <1>7 DEF Days!IsCanonical

\* A search finds what a key was set to.
LEMMA ShapeFound ==
  ASSUME NEW t, NEW es, Shape(t, es, {}), NEW k \in DayKey, NEW v \in DayValue
  PROVE  Days!Found(t, k, v) <=> k \in DOMAIN es /\ es[k] = v
<1>1. ASSUME Days!Found(t, k, v) PROVE k \in DOMAIN es /\ es[k] = v
  <2>0. PICK n \in 1..Depth :
          /\ Days!Prefix(k, n) \in DOMAIN t
          /\ \E i \in DOMAIN t[Days!Prefix(k, n)].kvs :
               t[Days!Prefix(k, n)].kvs[i] = [key |-> k, value |-> v]
    BY <1>1 DEF Days!Found
  <2>1. PICK i \in DOMAIN t[Days!Prefix(k, n)].kvs :
          t[Days!Prefix(k, n)].kvs[i] = [key |-> k, value |-> v]
    BY <2>0
  <2>2. t[Days!Prefix(k, n)].kind = "bucket"
    BY <2>0, <2>1 DEF Shape, SlotsRight
  <2>3. BucketOK(t[Days!Prefix(k, n)].kvs, es, {}, Days!Prefix(k, n))
    BY <2>0, <2>2 DEF Shape, SlotsRight
  <2> QED
    BY <2>1, <2>3 DEF BucketOK, Days!Under
<1>2. ASSUME k \in DOMAIN es, es[k] = v PROVE Days!Found(t, k, v)
  <2>1. PICK m \in 1..Depth : HeldAt(t, k, m)
    BY <1>2 DEF Shape, AllHeld
  <2> DEFINE p == Days!Prefix(k, m)
  <2>2. p \in DOMAIN t /\ t[p].kind = "bucket" /\ t[p] \in Days!Pointer
    BY <2>1, HeldInBucket DEF HeldAt, Shape, Days!IsTree
  <2>3. PICK i \in DOMAIN t[p].kvs : t[p].kvs[i].key = k
    BY <2>1 DEF HeldAt, Days!Holds
  <2>4. t[p].kvs[i] \in Days!KV /\ t[p].kvs[i].value = v
    <3>1. BucketOK(t[p].kvs, es, {}, p) /\ t[p].kvs \in Seq(Days!KV)
      BY <2>2 DEF Shape, SlotsRight, Days!Pointer
    <3> QED
      BY <1>2, <2>3, <3>1 DEF BucketOK
  <2>5. t[p].kvs[i] = [key |-> k, value |-> v]
    BY <2>3, <2>4 DEF Days!KV
  <2>6. Days!Ends(t, k, m)
    <3>1. ~ Days!IsNode(t, p)
      BY <2>2 DEF Days!IsNode
    <3>2. ASSUME NEW j \in 1..(m - 1) PROVE Days!IsNode(t, Days!Prefix(k, j))
      <4>1. j \in 1..Depth /\ j < m
        BY DayAssumption
      <4> QED
        BY <2>2, <4>1 DEF Shape, BelowNodes
    <3> QED
      BY <3>1, <3>2 DEF Days!Ends
  <2> QED
    BY <2>2, <2>5, <2>6 DEF Days!Found
<1> QED
  BY <1>1, <1>2

\* Of the same entries there is one sorted bucket.
LEMMA OneOrder ==
  ASSUME NEW kvs \in Seq(Days!KV), NEW lvs \in Seq(Days!KV),
         Days!Sorted(kvs), Days!Sorted(lvs),
         {kvs[i] : i \in DOMAIN kvs} = {lvs[i] : i \in DOMAIN lvs}
  PROVE  kvs = lvs
<1>1. Len(kvs) = Len(lvs)
  <2>1. /\ Days!Holds(kvs) = {e.key : e \in {kvs[i] : i \in DOMAIN kvs}}
        /\ Days!Holds(lvs) = {e.key : e \in {lvs[i] : i \in DOMAIN lvs}}
    BY DEF Days!Holds
  <2>2. Days!Holds(kvs) = Days!Holds(lvs)
    BY <2>1
  <2> QED
    BY <2>2, SortedCount
<1>2. \A i \in DOMAIN kvs : kvs[i] = lvs[i]
  <2> SUFFICES ASSUME \E i \in DOMAIN kvs : kvs[i] # lvs[i] PROVE FALSE
    OBVIOUS
  <2> DEFINE T == {i \in DOMAIN kvs : kvs[i] # lvs[i]}
  <2>1. T \in SUBSET Nat /\ T # {}
    OBVIOUS
  <2>2. PICK i \in T : \A j \in T : i <= j
    BY <2>1, LeastNumber
  <2>3. i \in DOMAIN kvs /\ i \in DOMAIN lvs /\ kvs[i] # lvs[i]
          /\ \A j \in DOMAIN kvs : j < i => kvs[j] = lvs[j]
    BY <1>1, <2>2
  <2>4. PICK j \in DOMAIN lvs : kvs[i] = lvs[j]
    BY <2>3
  <2>5. PICK l \in DOMAIN kvs : lvs[i] = kvs[l]
    BY <2>3
  <2>6. \A x \in DOMAIN kvs : kvs[x].key \in Int /\ lvs[x].key \in Int
    BY <1>1, EntryOrder
  <2>7. i < j
    <3>1. CASE j < i
      BY <1>1, <2>3, <2>4, <2>6, <3>1 DEF Days!Sorted
    <3> QED
      BY <2>3, <2>4, <3>1
  <2>8. i < l
    <3>1. CASE l < i
      BY <1>1, <2>3, <2>5, <2>6, <3>1 DEF Days!Sorted
    <3> QED
      BY <2>3, <2>5, <3>1
  <2>9. lvs[i].key < kvs[i].key /\ kvs[i].key < lvs[i].key
    BY <2>3, <2>4, <2>5, <2>7, <2>8 DEF Days!Sorted
  <2> QED
    BY <2>3, <2>6, <2>9
<1> QED
  BY <1>1, <1>2

\* Two trees as they follow from the same entries are the same once flushed.
THEOREM OneRoot ==
  ASSUME NEW t, NEW u, NEW es, Days!IsTree(t), Days!IsTree(u),
         Days!IsCanonical(t, es), Days!IsCanonical(u, es)
  PROVE  Days!Flushed(t) = Days!Flushed(u)
<1>1. DOMAIN t = DOMAIN u
  BY DEF Days!IsCanonical
<1>2. ASSUME NEW p \in DOMAIN t
      PROVE  (IF t[p] = Days!Dirty THEN Days!Link ELSE t[p])
              = (IF u[p] = Days!Dirty THEN Days!Link ELSE u[p])
  <2>1. t[p] \in Days!Pointer /\ u[p] \in Days!Pointer
    BY <1>1 DEF Days!IsTree
  <2>2. CASE Days!Crowded(es, p)
    BY <1>1, <2>2 DEF Days!IsCanonical
  <2>3. CASE ~ Days!Crowded(es, p)
    <3>1. /\ t[p].kind = "bucket" /\ Days!Sorted(t[p].kvs)
          /\ u[p].kind = "bucket" /\ Days!Sorted(u[p].kvs)
          /\ {t[p].kvs[i] : i \in DOMAIN t[p].kvs} = {u[p].kvs[i] : i \in DOMAIN u[p].kvs}
      BY <1>1, <2>3 DEF Days!IsCanonical
    <3>2. t[p].kvs \in Seq(Days!KV) /\ u[p].kvs \in Seq(Days!KV)
      BY <2>1 DEF Days!Pointer
    <3>3. t[p].kvs = u[p].kvs
      BY <3>1, <3>2, OneOrder
    <3>4. t[p] = u[p]
      BY <2>1, <3>1, <3>3 DEF Days!Pointer
    <3> QED
      BY <3>4
  <2> QED
    BY <2>2, <2>3
<1> QED
  BY <1>1, <1>2 DEF Days!Flushed

\* However keys, values and digests are, and in whatever order entries are set,
\* overwritten, flushed and loaded: the tree is the one that follows from the
\* entries, so that the same entries have the same root (OneRoot), and every
\* search finds what its key was set to (mem/src/hamt.rs).
THEOREM SameEntries == Days!Spec => []SameEntriesSameRoot
<1>1. DaysInv => SameEntriesSameRoot
  <2> SUFFICES ASSUME DaysInv, setCalls = <<>>
               PROVE  /\ Days!IsCanonical(tree, set)
                      /\ \A k \in DayKey, v \in DayValue :
                           Days!Found(tree, k, v) <=> k \in DOMAIN set /\ set[k] = v
    BY DEF SameEntriesSameRoot, Days!SameEntriesSameRoot
  <2>1. Shape(tree, set, {})
    BY DEF DaysInv, ToSet
  <2> QED
    BY <2>1, CanonicalShape, ShapeFound
<1> QED
  BY <1>1, InitDays, DaysStep, PTL DEF Days!Spec

\* The types are kept: every call of a set under way is for a node that the
\* digest of its key reaches.
LEMMA DaysType == Days!Spec => []Days!TypeOK
<1>1. DaysInv => Days!TypeOK
  BY DEF DaysInv, Shape, SetCallsOK, SetCall, Days!TypeOK
<1> QED
  BY <1>1, InitDays, DaysStep, PTL DEF Days!Spec
=============================================================================
