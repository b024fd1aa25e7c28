-------------------------- MODULE AccessServices ---------------------------
(***************************************************************************)
(* Who may see and do what: the user's identity, the members of a network, *)
(* what may leave the device and the encrypted copies of what may not.     *)
(* The components share no state; where two of them name a variable or a   *)
(* constant alike, a name is changed here. What the constants are is said  *)
(* in the module of the component, and so is what the properties are for.  *)
(***************************************************************************)
EXTENDS Integers, FiniteSets

CONSTANTS
  Command, MaxKey, IdentityOverlaps, \* UserIdentity
  Admin, Subject, Offer, MaxMemberEpoch, MemberOverlaps, None, \* Membership
  EgressSession, Root, EgressPublic, Reach, MaxReceipts, MaxGrants, \* Egress
  Proc, Source, MaxTree  \* PrivateGraphs

ASSUME AccessAssumption ==
  /\ MaxKey \in Nat
  /\ Subject # {} /\ Offer # {} /\ MaxMemberEpoch \in Nat \ {0}
  /\ MaxReceipts \in Nat
  /\ Source # {} /\ MaxTree \in Nat
  /\ None \notin Admin \cup EgressSession \cup Proc

VARIABLES
  userKey, recoveryKey, keyLog, keys, keyPc, draft, newKey,
  epoch, ledger, offers, consumed, lock, adminPc, adminHas, certs, given,
  revoked,
  registry, quarantine, receipts, review, grants, guard, sending,
  made, blocks, vault, index, locks, vaultGuard, procPc, job

IdentityVars == <<userKey, recoveryKey, keyLog, keys, keyPc, draft, newKey>>
MembersVars ==
  <<epoch, ledger, offers, consumed, lock, adminPc, adminHas, certs, given,
  revoked>>
OutwardVars ==
  <<registry, quarantine, receipts, review, grants, guard, sending>>
PrivateVars ==
  <<made, blocks, vault, index, locks, vaultGuard, procPc, job>>

Identity == INSTANCE UserIdentity WITH
  Overlaps <- IdentityOverlaps, log <- keyLog, fresh <- keys, pc <- keyPc

Members == INSTANCE Membership WITH
  MaxEpoch <- MaxMemberEpoch, Overlaps <- MemberOverlaps, pending <- offers,
  pc <- adminPc, mine <- adminHas

Outward == INSTANCE Egress WITH
  Session <- EgressSession, Public <- EgressPublic

Private == INSTANCE PrivateGraphs WITH
  guard <- vaultGuard, pc <- procPc

----------------------------------------------------------------------------
\* An identity that was established can be recovered, wherever a command
\* stopped (UserIdentity).
IdentityRecoverable == Identity!IdentityRecoverable

\* A pairing offer lets one device in (Membership).
OfferGivesOnce == Members!OfferGivesOnce

\* No certificate of a subject whose revocation returned verifies
\* (Membership).
RevokedStaysOut == Members!RevokedStaysOut

\* What is carried out meets no lock and no fence, or was granted for exactly
\* those (Egress).
FencedLeavesByGrant == Outward!FencedLeavesByGrant

\* An encrypted copy can be opened (PrivateGraphs).
CopiesOpen == Private!CopiesOpen
============================================================================
