---------------------------- MODULE RulesChannel ----------------------------
(***************************************************************************)
(* The rules channel of the self-update (core/src/update/rules.rs): the    *)
(* scanner's rules are replaced by those of a signed manifest, and the     *)
(* files active.yar, last_known_good.yar and rules_state.json say which    *)
(* rules run, which ran before, and which epoch is the newest accepted.    *)
(*                                                                         *)
(* A refresh reads the state file once, waits for the network, and writes  *)
(* the copy it read back at the end. The GUI's poll, its buttons and the   *)
(* CLI all refresh, without a lock; Overlaps says what may happen during a *)
(* refresh. The files are each replaced by a rename.                       *)
(***************************************************************************)
EXTENDS Integers

CONSTANTS
  Caller,       \* the threads and processes that refresh
  MaxEpoch,     \* bound: the newest epoch published
  Overlaps      \* refresh: another refresh; settings: a pause or a pin;
                \* crash: the process of the refresh ends

VARIABLES
  active,       \* active.yar: the bundle the scanner loads
  lkg,          \* last_known_good.yar
  state,        \* rules_state.json: epoch, paused, pinned
  pc,           \* where each refresh stands
  mine,         \* each refresh's copy of the state
  got           \* the bundle each refresh has accepted

files == <<active, lkg, state>>
vars == <<files, pc, mine, got>>

\* What a publisher may serve: rules of an epoch, signed by a baked key, by a
\* key the user may pin, or by neither; whether they hash to what was signed
\* and whether they compile.
Bundle == [epoch : 1..MaxEpoch, signer : {"baked", "extra", "neither"},
           intact : BOOLEAN, compiles : BOOLEAN]
Baseline ==
  [epoch |-> 1, signer |-> "baked", intact |-> TRUE, compiles |-> TRUE]
State == [epoch : 1..MaxEpoch, paused : BOOLEAN, pinned : BOOLEAN]

Init ==
  /\ active = Baseline /\ lkg = Baseline
  /\ state = [epoch |-> 1, paused |-> FALSE, pinned |-> FALSE]
  /\ pc = [c \in Caller |-> "idle"]
  /\ mine = [c \in Caller |-> state]
  /\ got = [c \in Caller |-> Baseline]

TypeOK ==
  /\ active \in Bundle /\ lkg \in Bundle /\ state \in State
  /\ pc \in [Caller -> {"idle", "fetch", "snapshot", "swap", "save"}]
  /\ mine \in [Caller -> State] /\ got \in [Caller -> Bundle]

Quiet == \A c \in Caller : pc[c] = "idle"
Goes(c, from, to) == pc[c] = from /\ pc' = [pc EXCEPT ![c] = to]

----------------------------------------------------------------------------
\* The state is read; a paused channel refuses.
Begin(c) ==
  /\ "refresh" \in Overlaps \/ Quiet
  /\ ~state.paused
  /\ Goes(c, "idle", "fetch")
  /\ mine' = [mine EXCEPT ![c] = state]
  /\ UNCHANGED <<files, got>>

Trusted(s) == {"baked"} \cup IF s.pinned THEN {"extra"} ELSE {}

\* A slip: a bundle that does not compile is accepted.
AcceptsUncompiled(s, b) ==
  b.signer \in Trusted(s) /\ b.epoch > s.epoch /\ b.intact

\* verify_bundle and compile_gate: signature, epoch, content, compilation.
Accepts(s, b) ==
  /\ b.signer \in Trusted(s)
  /\ b.epoch > s.epoch
  /\ b.intact
  /\ b.compiles

\* Manifest and bundle are fetched and checked against the copy of the state.
Fetch(c) ==
  \E b \in Bundle :
    /\ Accepts(mine[c], b)
    /\ Goes(c, "fetch", "snapshot")
    /\ got' = [got EXCEPT ![c] = b]
    /\ UNCHANGED <<files, mine>>

\* The network fails, the epoch is the current one, or a check refuses.
FetchEnds(c) ==
  /\ Goes(c, "fetch", "idle")
  /\ UNCHANGED <<files, mine, got>>

\* activate: the rules that run are kept as the last known good.
Snapshot(c) ==
  /\ Goes(c, "snapshot", "swap")
  /\ lkg' = active
  /\ UNCHANGED <<active, state, mine, got>>

\* activate: the new rules are renamed into place.
Swap(c) ==
  /\ Goes(c, "swap", "save")
  /\ active' = got[c]
  /\ UNCHANGED <<lkg, state, mine, got>>

\* The copy of the state is written back, with the new epoch.
Save(c) ==
  /\ Goes(c, "save", "idle")
  /\ state' = [mine[c] EXCEPT !.epoch = got[c].epoch]
  /\ UNCHANGED <<active, lkg, mine, got>>

Crash(c) ==
  /\ "crash" \in Overlaps
  /\ pc[c] # "idle"
  /\ pc' = [pc EXCEPT ![c] = "idle"]
  /\ UNCHANGED <<files, mine, got>>

\* The user's settings: the state is read, changed and written.
Set(s) ==
  /\ "settings" \in Overlaps \/ Quiet
  /\ state' = s
  /\ UNCHANGED <<active, lkg, pc, mine, got>>

SetPaused == Set([state EXCEPT !.paused = ~@])
PinPublisherKey == ~state.pinned /\ Set([state EXCEPT !.pinned = TRUE])

Next ==
  \/ \E c \in Caller : \/ Begin(c) \/ Fetch(c) \/ FetchEnds(c) \/ Snapshot(c)
                       \/ Swap(c) \/ Save(c) \/ Crash(c)
  \/ SetPaused
  \/ PinPublisherKey

Spec == Init /\ [][Next]_vars

----------------------------------------------------------------------------
\* The recorded epoch is not ahead of the rules that run: if it were, the
\* manifest of the newer rules would be "already current" and never applied.
EpochNotAhead == state.epoch <= active.epoch

\* Whatever is served and wherever a refresh stops, the scanner has rules that
\* compile, are what was signed, and were signed by a key that is trusted
\* still: so are those it would be rolled back to. And what is recorded of
\* them keeps no newer rules out.
LiveRulesVerified ==
  /\ \A b \in {active, lkg} :
       b.compiles /\ b.intact /\ b.signer \in Trusted(state)
  /\ EpochNotAhead

\* Rules that run are only ever replaced by rules of a later epoch ...
RulesMoveForward == [][active'.epoch >= active.epoch]_vars

\* ... and the rules kept as the last known good are not later than those.
LastKnownGoodIsOlder == lkg.epoch <= active.epoch

\* The kill switch stays on until the user turns it off: no step of a refresh
\* does.
PauseHolds == [][state.paused /\ ~state'.paused => pc' = pc]_vars
============================================================================
