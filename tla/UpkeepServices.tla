-------------------------- MODULE UpkeepServices ---------------------------
(***************************************************************************)
(* What a node does for itself and its user: the updates of its rules and  *)
(* of its program, its suggestions to a harness, the jobs of a session.    *)
(* The components share no state; where two of them name a variable or a   *)
(* constant alike, a name is changed here. What the constants are is said  *)
(* in the module of the component, and so is what the properties are for.  *)
(***************************************************************************)
EXTENDS Integers, FiniteSets

CONSTANTS
  RulesCaller, MaxRulesEpoch, RulesOverlaps, \* RulesChannel
  Launch, MaxVersion, Races, \* AppUpdate
  Drain, MaxEntries, \* Outbox
  Path, At, Lib, MaxLaps, MaxFindings, WorkFaults, NoContent  \* WorkRepair

ASSUME UpkeepAssumption ==
  /\ MaxRulesEpoch \in Nat \ {0}
  /\ MaxVersion \in Nat \ {0}
  /\ MaxEntries \in Nat
  /\ Lib \in Path /\ MaxLaps \in Nat \ {0} /\ MaxFindings \in Nat
  /\ NoContent \notin {"sound", "faulty", "astray", "needy"}

VARIABLES
  active, lkg, state, rulesPc, rulesMine, got,
  target, new, old, archive, staging, toApply, step, release, stranded,
  length, drained, drainPc, end, read, handed, lost, again,
  workPhase, todo, writes, workspace, report, lap, produced

RulesVars == <<active, lkg, state, rulesPc, rulesMine, got>>
AppVars ==
  <<target, new, old, archive, staging, toApply, step, release, stranded>>
SuggestionsVars ==
  <<length, drained, drainPc, end, read, handed, lost, again>>
JobsVars == <<workPhase, todo, writes, workspace, report, lap, produced>>

Rules == INSTANCE RulesChannel WITH
  Caller <- RulesCaller, MaxEpoch <- MaxRulesEpoch,
  Overlaps <- RulesOverlaps, pc <- rulesPc, mine <- rulesMine

App == INSTANCE AppUpdate WITH
  fresh <- new, pending <- toApply

Suggestions == INSTANCE Outbox WITH
  offset <- drained, pc <- drainPc, given <- handed

Jobs == INSTANCE WorkRepair WITH
  Faults <- WorkFaults, None <- NoContent, phase <- workPhase,
  disk <- workspace

----------------------------------------------------------------------------
\* Whatever is served and wherever a refresh stops, the scanner has rules that
\* compile and were signed by a key still trusted, and no recorded epoch keeps
\* newer ones out (RulesChannel).
LiveRulesVerified == Rules!LiveRulesVerified

\* A failed or interrupted update leaves a whole program, in its place unless
\* a launch ended between its two renames (AppUpdate).
ProgramIsThere == App!ProgramIsThere

\* Drained suggestions are given out once, but for what deaths and overlaps are
\* named to cost (Outbox).
GivenExactlyOnce == Suggestions!GivenExactlyOnce

\* What a job recorded is in the workspace and was found clean (WorkRepair).
ProducedIsThere == Jobs!ProducedIsThere
============================================================================
