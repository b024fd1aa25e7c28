------------------------- MODULE AccessUpkeepProofs -------------------------
(***************************************************************************)
(* Theorems of the components of AccessServices and of UpkeepServices, for *)
(* any number of processes, devices, offers, roots, blocks, versions,      *)
(* suggestions and files.                                                  *)
(***************************************************************************)
EXTENDS AccessServices, UpkeepServices, Sequences, TLAPS

----------------------------------------------------------------------------
(* Membership. A pairing runs under the policy lock, so that the offer it  *)
(* has looked up is still unused when it is consumed; revocations that     *)
(* take turns each write a ledger that contains the one before.            *)

\* Who pairs holds the policy lock, and what it lets in was not let in yet.
PairingAlone ==
  \A x \in Admin : adminPc[x] \in {"consume", "drop"} =>
    /\ lock = x /\ given[adminHas[x].offer] = 0
    /\ adminPc[x] = "drop" => adminHas[x].offer \in consumed

\* An offer that has given a grant is used, and gives no other.
UsedWhenGiven ==
  \A o \in Offer : /\ given[o] <= 1
                   /\ given[o] > 0 => o \in consumed

OfferInv == Members!TypeOK /\ PairingAlone /\ UsedWhenGiven

\* (The CHOOSE of the initial state is kept from the SMT solver.)
LEMMA InitMembers ==
  ASSUME Members!Init
  PROVE  /\ Members!TypeOK
         /\ consumed = {} /\ given = [o \in Offer |-> 0] /\ revoked = {}
         /\ adminPc = [x \in Admin |-> "idle"]
<1>1. PICK s \in Subject, o \in Offer : TRUE
  BY AccessAssumption
<1>2. [offer |-> o, subject |-> s, epoch |-> 1, ledger |-> {}] \in Members!Work
  BY AccessAssumption DEF Members!Work
<1>3. \E w \in Members!Work : w.epoch = 1 /\ w.ledger = {}
  BY <1>2
<1>4. (CHOOSE w \in Members!Work : w.epoch = 1 /\ w.ledger = {}) \in Members!Work
  BY <1>3, Zenon
<1>5. adminHas \in [Admin -> Members!Work]
  BY <1>4, Zenon DEF Members!Init
<1>6. /\ epoch = 1 /\ ledger = {} /\ offers = {} /\ consumed = {}
      /\ lock = None /\ adminPc = [x \in Admin |-> "idle"]
      /\ certs = {} /\ given = [x \in Offer |-> 0] /\ revoked = {}
  BY Zenon DEF Members!Init
<1> QED
  BY <1>5, <1>6, AccessAssumption DEF Members!TypeOK

\* An admin reads the offer and the descriptor, or descriptor and ledger.
LEMMA ReadsType ==
  ASSUME Members!TypeOK, NEW x \in Admin, NEW o \in Offer, NEW s \in Subject,
         Members!PairBegin(x, o, s) \/ Members!RevokeBegin(x, s)
  PROVE  Members!TypeOK'
<1> USE DEF Members!TypeOK, Members!Goes, Members!disk, Members!history
<1>1. CASE Members!PairBegin(x, o, s)
  BY <1>1, ZenonT(60) DEF Members!PairBegin, Members!Work
<1>2. CASE Members!RevokeBegin(x, s)
  <2>1. epoch + 1 \in 1..MaxMemberEpoch /\ ledger \cup {s} \in SUBSET Subject
    BY <1>2, AccessAssumption DEF Members!RevokeBegin
  <2>2. adminHas' = [adminHas EXCEPT ![x] =
          [@ EXCEPT !.subject = s, !.epoch = epoch + 1,
                    !.ledger = ledger \cup {s}]]
    BY <1>2 DEF Members!RevokeBegin
  <2>3. adminHas' \in [Admin -> Members!Work]
    BY <2>1, <2>2, ZenonT(60) DEF Members!Work
  <2> QED BY <1>2, <2>3 DEF Members!RevokeBegin
<1> QED BY <1>1, <1>2

LEMMA MembersType ==
  ASSUME Members!TypeOK, [Members!Next]_(Members!vars) PROVE Members!TypeOK'
<1> USE DEF Members!TypeOK, Members!Goes, Members!disk, Members!history
<1>1. ASSUME NEW o \in Offer, Members!CreatePairingOffer(o) PROVE Members!TypeOK'
  BY <1>1 DEF Members!CreatePairingOffer
<1>2. ASSUME NEW s \in Subject, Members!GrantCapability(s) PROVE Members!TypeOK'
  BY <1>2 DEF Members!GrantCapability, Members!Cert
<1>3. ASSUME NEW x \in Admin, NEW o \in Offer, NEW s \in Subject,
             Members!PairBegin(x, o, s)
      PROVE  Members!TypeOK'
  BY <1>3, ReadsType
<1>4. ASSUME NEW x \in Admin, NEW s \in Subject, Members!RevokeBegin(x, s)
      PROVE  Members!TypeOK'
  BY <1>4, ReadsType, AccessAssumption
<1>5. ASSUME NEW x \in Admin, Members!PairConsume(x) PROVE Members!TypeOK'
  BY <1>5 DEF Members!PairConsume, Members!Work
<1>6. ASSUME NEW x \in Admin, Members!PairGive(x) PROVE Members!TypeOK'
  BY <1>6 DEF Members!PairGive, Members!Issue, Members!Work, Members!Cert
<1>7. ASSUME NEW x \in Admin, Members!RevokeRecord(x) PROVE Members!TypeOK'
  BY <1>7 DEF Members!RevokeRecord, Members!Work
<1>8. ASSUME NEW x \in Admin, Members!RevokeAdvance(x) PROVE Members!TypeOK'
  BY <1>8 DEF Members!RevokeAdvance, Members!Work
<1>9. ASSUME NEW x \in Admin, Members!Crash(x) PROVE Members!TypeOK'
  BY <1>9 DEF Members!Crash
<1>10. CASE UNCHANGED Members!vars
  BY <1>10 DEF Members!vars
<1> QED
  BY <1>1, <1>2, <1>3, <1>4, <1>5, <1>6, <1>7, <1>8, <1>9, <1>10
  DEF Members!Next

\* Every variable of the membership keeps its type.
THEOREM MembershipTypeCorrect == Members!Spec => []Members!TypeOK
BY InitMembers, MembersType, PTL DEF Members!Spec

----------------------------------------------------------------------------
LEMMA OffersStep ==
  ASSUME OfferInv, [Members!Next]_(Members!vars)
  PROVE  PairingAlone' /\ UsedWhenGiven'
<1> USE AccessAssumption DEF OfferInv, PairingAlone, UsedWhenGiven,
        Members!TypeOK, Members!Goes, Members!disk, Members!history
<1> DEFINE Kept == PairingAlone' /\ UsedWhenGiven'
<1>1. ASSUME NEW o \in Offer, Members!CreatePairingOffer(o) PROVE Kept
  BY <1>1 DEF Members!CreatePairingOffer
<1>2. ASSUME NEW s \in Subject, Members!GrantCapability(s) PROVE Kept
  BY <1>2 DEF Members!GrantCapability
<1>3. ASSUME NEW x \in Admin, NEW o \in Offer, NEW s \in Subject,
             Members!PairBegin(x, o, s)
      PROVE  Kept
  BY <1>3 DEF Members!PairBegin, Members!Work
<1>4. ASSUME NEW x \in Admin, NEW s \in Subject, Members!RevokeBegin(x, s)
      PROVE  Kept
  BY <1>4 DEF Members!RevokeBegin, Members!Work
<1>5. ASSUME NEW x \in Admin, Members!PairConsume(x) PROVE Kept
  BY <1>5 DEF Members!PairConsume, Members!Work
<1>6. ASSUME NEW x \in Admin, Members!PairGive(x) PROVE Kept
  BY <1>6 DEF Members!PairGive, Members!Work
<1>7. ASSUME NEW x \in Admin,
             Members!RevokeRecord(x) \/ Members!RevokeAdvance(x)
      PROVE  Kept
  BY <1>7 DEF Members!RevokeRecord, Members!RevokeAdvance
<1>8. ASSUME NEW x \in Admin, Members!Crash(x) PROVE Kept
  BY <1>8 DEF Members!Crash
<1>9. CASE UNCHANGED Members!vars
  BY <1>9 DEF Members!vars
<1> QED
  BY <1>1, <1>2, <1>3, <1>4, <1>5, <1>6, <1>7, <1>8, <1>9 DEF Members!Next

\* However many pairings run at once, whichever devices answer an offer, and
\* wherever an admin dies between consuming it and giving its grant, an offer
\* lets one device in (complete_pairing, core/src/pairing.rs).
THEOREM OneGrantPerOffer == Members!Spec => []OfferGivesOnce
<1>1. Members!Init => OfferInv
  BY InitMembers DEF OfferInv, PairingAlone, UsedWhenGiven
<1>2. OfferInv /\ [Members!Next]_(Members!vars) => OfferInv'
  BY MembersType, OffersStep DEF OfferInv
<1>3. OfferInv => OfferGivesOnce
  BY DEF OfferInv, UsedWhenGiven, OfferGivesOnce, Members!OfferGivesOnce
<1> QED BY <1>1, <1>2, <1>3, PTL DEF Members!Spec

----------------------------------------------------------------------------
\* One revocation at a time writes, and what it writes contains the ledger.
OneRevokes ==
  \A x \in Admin : adminPc[x] \in {"ledger", "descriptor"} =>
    /\ \A y \in Admin : adminPc[y] \in {"ledger", "descriptor"} => y = x
    /\ adminPc[x] = "ledger" =>
         ledger \cup {adminHas[x].subject} \subseteq adminHas[x].ledger
    /\ adminPc[x] = "descriptor" => adminHas[x].subject \in ledger

RevokeInv == Members!TypeOK /\ OneRevokes /\ revoked \subseteq ledger

LEMMA RevokesStep ==
  ASSUME "revokes" \notin MemberOverlaps,
         RevokeInv, [Members!Next]_(Members!vars)
  PROVE  OneRevokes' /\ (revoked \subseteq ledger)'
<1> USE DEF RevokeInv, OneRevokes,
        Members!TypeOK, Members!Goes, Members!disk, Members!history
<1> DEFINE Kept == OneRevokes' /\ (revoked \subseteq ledger)'
<1>1. ASSUME NEW o \in Offer, Members!CreatePairingOffer(o) PROVE Kept
  BY <1>1 DEF Members!CreatePairingOffer
<1>2. ASSUME NEW s \in Subject, Members!GrantCapability(s) PROVE Kept
  BY <1>2 DEF Members!GrantCapability
<1>3. ASSUME NEW x \in Admin, NEW o \in Offer, NEW s \in Subject,
             Members!PairBegin(x, o, s)
      PROVE  Kept
  BY <1>3 DEF Members!PairBegin, Members!Work
<1>4. ASSUME NEW x \in Admin, NEW s \in Subject, Members!RevokeBegin(x, s)
      PROVE  Kept
  BY <1>4 DEF Members!RevokeBegin, Members!Work
<1>5. ASSUME NEW x \in Admin, Members!PairConsume(x) \/ Members!PairGive(x)
      PROVE  Kept
  BY <1>5 DEF Members!PairConsume, Members!PairGive
<1>6. ASSUME NEW x \in Admin, Members!RevokeRecord(x) PROVE Kept
  BY <1>6 DEF Members!RevokeRecord, Members!Work
<1>7. ASSUME NEW x \in Admin, Members!RevokeAdvance(x) PROVE Kept
  BY <1>7 DEF Members!RevokeAdvance, Members!Work
<1>8. ASSUME NEW x \in Admin, Members!Crash(x) PROVE Kept
  BY <1>8 DEF Members!Crash
<1>9. CASE UNCHANGED Members!vars
  BY <1>9 DEF Members!vars
<1> QED
  BY <1>1, <1>2, <1>3, <1>4, <1>5, <1>6, <1>7, <1>8, <1>9 DEF Members!Next

\* When revocations take turns, no certificate of a subject whose revocation
\* returned verifies, not one that a pairing under way still issues: its
\* subject stays in the ledger, whatever is paired, granted, revoked or cut
\* short afterwards (verify_membership, core/src/membership.rs).
THEOREM RevocationHolds ==
  ASSUME "revokes" \notin MemberOverlaps
  PROVE  Members!Spec => []RevokedStaysOut
<1>1. Members!Init => RevokeInv
  BY InitMembers DEF RevokeInv, OneRevokes
<1>2. RevokeInv /\ [Members!Next]_(Members!vars) => RevokeInv'
  BY MembersType, RevokesStep DEF RevokeInv
<1>3. RevokeInv => RevokedStaysOut
  BY DEF RevokeInv, RevokedStaysOut, Members!RevokedStaysOut, Members!Verifies
<1> QED BY <1>1, <1>2, <1>3, PTL DEF Members!Spec

\* The descriptor a revocation will write follows the one on disk.
EpochsFollow ==
  \A x \in Admin :
    adminPc[x] \in {"ledger", "descriptor"} => adminHas[x].epoch = epoch + 1

\* The epoch stands or moves on by one, and no record leaves the ledger.
Advances == epoch' \in {epoch, epoch + 1} /\ ledger \subseteq ledger'

LEMMA AdvanceStep ==
  ASSUME "revokes" \notin MemberOverlaps,
         RevokeInv, EpochsFollow, [Members!Next]_(Members!vars)
  PROVE  EpochsFollow' /\ Advances
<1> USE DEF RevokeInv, OneRevokes, EpochsFollow, Advances,
        Members!TypeOK, Members!Goes, Members!disk, Members!history
<1> DEFINE Kept == EpochsFollow' /\ Advances
<1>1. ASSUME NEW o \in Offer, Members!CreatePairingOffer(o) PROVE Kept
  BY <1>1 DEF Members!CreatePairingOffer
<1>2. ASSUME NEW s \in Subject, Members!GrantCapability(s) PROVE Kept
  BY <1>2 DEF Members!GrantCapability
<1>3. ASSUME NEW x \in Admin, NEW o \in Offer, NEW s \in Subject,
             Members!PairBegin(x, o, s)
      PROVE  Kept
  BY <1>3 DEF Members!PairBegin, Members!Work
<1>4. ASSUME NEW x \in Admin, NEW s \in Subject, Members!RevokeBegin(x, s)
      PROVE  Kept
  BY <1>4 DEF Members!RevokeBegin, Members!Work
<1>5. ASSUME NEW x \in Admin, Members!PairConsume(x) \/ Members!PairGive(x)
      PROVE  Kept
  BY <1>5 DEF Members!PairConsume, Members!PairGive
<1>6. ASSUME NEW x \in Admin, Members!RevokeRecord(x) PROVE Kept
  BY <1>6 DEF Members!RevokeRecord, Members!Work
<1>7. ASSUME NEW x \in Admin, Members!RevokeAdvance(x) PROVE Kept
  BY <1>7 DEF Members!RevokeAdvance, Members!Work
<1>8. ASSUME NEW x \in Admin, Members!Crash(x) PROVE Kept
  BY <1>8 DEF Members!Crash
<1>9. CASE UNCHANGED Members!vars
  BY <1>9 DEF Members!vars
<1> QED
  BY <1>1, <1>2, <1>3, <1>4, <1>5, <1>6, <1>7, <1>8, <1>9 DEF Members!Next

\* When revocations take turns, a revocation is never taken back: no record
\* leaves the ledger and the epoch never falls or skips, though a revocation
\* writes back the ledger it read and may die between its two files (revoke,
\* core/src/membership.rs).
THEOREM RevocationsAdd ==
  ASSUME "revokes" \notin MemberOverlaps
  PROVE  Members!Spec => [][Advances]_(Members!vars)
<1>1. Members!Init => RevokeInv /\ EpochsFollow
  BY InitMembers DEF RevokeInv, OneRevokes, EpochsFollow
<1>2. RevokeInv /\ EpochsFollow /\ [Members!Next]_(Members!vars)
      => (RevokeInv /\ EpochsFollow)'
  BY MembersType, RevokesStep, AdvanceStep DEF RevokeInv
<1>3. RevokeInv /\ EpochsFollow /\ [Members!Next]_(Members!vars)
      => [Advances]_(Members!vars)
  BY AdvanceStep
<1> QED BY <1>1, <1>2, <1>3, PTL DEF Members!Spec

----------------------------------------------------------------------------
(* The identity. recovery.key is written before the log that names it, and *)
(* never again once there is a log; what a command is about to write was   *)
(* verified when it was drafted.                                           *)

\* What a command still has to write verifies; recovery.key is written only
\* while there is no log.
DraftsResolve ==
  \A c \in Command : keyPc[c] # "idle" =>
    /\ \A d \in Command : keyPc[d] # "idle" => d = c
    /\ draft[c] # <<>> /\ Identity!Resolves(draft[c])
    /\ keyPc[c] = "recovery.key" =>
         keyLog = <<>> /\ draft[c][1].recovery = newKey[c]
    /\ keyPc[c] # "recovery.key" => draft[c][1].recovery = recoveryKey

IdentityInv == Identity!TypeOK /\ DraftsResolve /\ Identity!IdentityRecoverable

LEMMA InitIdentity == Identity!Init => IdentityInv
BY AccessAssumption
DEF Identity!Init, IdentityInv, Identity!TypeOK, Identity!Op, Identity!Key,
    DraftsResolve, Identity!IdentityRecoverable

\* A new active key is appended to the log in a draft, its first operation kept.
LEMMA ExtendDrafts ==
  ASSUME Identity!TypeOK, NEW c \in Command, NEW k \in 0..MaxKey,
         Identity!Extend(c, k)
  PROVE  /\ Identity!TypeOK'
         /\ draft'[c] # <<>> /\ draft'[c][1] = keyLog[1]
         /\ Identity!Resolves(draft'[c])
<1> DEFINE op == [signer |-> k, active |-> keys', recovery |-> keyLog[1].recovery]
<1>1. k \in 1..MaxKey /\ keys' \in 1..MaxKey /\ keyLog \in Seq(Identity!Op)
      /\ keyLog # <<>>
  BY AccessAssumption DEF Identity!Extend, Identity!TypeOK
<1>2. keyLog[1] \in Identity!Op
  BY <1>1
<1>3. op \in Identity!Op
  BY <1>1, <1>2 DEF Identity!Op, Identity!Key
<1>4. draft' = [draft EXCEPT ![c] = Append(keyLog, op)]
  BY DEF Identity!Extend
<1>5. draft'[c] = Append(keyLog, op)
  BY <1>4 DEF Identity!TypeOK
<1>6. /\ Append(keyLog, op) \in Seq(Identity!Op)
      /\ Append(keyLog, op) # <<>> /\ Append(keyLog, op)[1] = keyLog[1]
  BY <1>1, <1>3
<1>7. draft' \in [Command -> Seq(Identity!Op)]
  BY <1>4, <1>6 DEF Identity!TypeOK
<1>8. Identity!TypeOK'
  BY <1>1, <1>7 DEF Identity!Extend, Identity!TypeOK, Identity!files
<1>9. Identity!Resolves(draft'[c])
  BY Zenon DEF Identity!Extend
<1> QED BY <1>5, <1>6, <1>8, <1>9

LEMMA EstablishDrafts ==
  ASSUME Identity!TypeOK, NEW c \in Command, Identity!Establish(c)
  PROVE  /\ Identity!TypeOK'
         /\ draft'[c] # <<>> /\ draft'[c][1].recovery = newKey'[c]
         /\ Identity!Resolves(draft'[c])
<1> DEFINE op == [signer |-> userKey, active |-> userKey, recovery |-> keys']
<1>1. keys' \in 1..MaxKey /\ op \in Identity!Op
  BY AccessAssumption
  DEF Identity!Establish, Identity!TypeOK, Identity!Op, Identity!Key
<1>2. <<op>> \in Seq(Identity!Op) /\ <<op>> # <<>> /\ Len(<<op>>) = 1
      /\ <<op>>[1] = op
  BY <1>1
<1>3. draft' = [draft EXCEPT ![c] = <<op>>] /\ newKey' = [newKey EXCEPT ![c] = keys']
  BY DEF Identity!Establish
<1>4. draft'[c] = <<op>> /\ newKey'[c] = keys'
  BY <1>3 DEF Identity!TypeOK
<1>5. Identity!Resolves(<<op>>)
  BY <1>2 DEF Identity!Resolves
<1>6. draft' \in [Command -> Seq(Identity!Op)]
  BY <1>2, <1>3 DEF Identity!TypeOK
<1>7. Identity!TypeOK'
  BY <1>1, <1>3, <1>6 DEF Identity!Establish, Identity!TypeOK, Identity!files
<1> QED BY <1>2, <1>4, <1>5, <1>7

LEMMA IdentityStep ==
  ASSUME "together" \notin IdentityOverlaps,
         IdentityInv, [Identity!Next]_(Identity!vars)
  PROVE  IdentityInv'
<1> USE DEF IdentityInv, DraftsResolve, Identity!IdentityRecoverable
<1>1. CASE Identity!Touch \/ Identity!LoseActive
  <2>1. Identity!TypeOK'
    BY <1>1, AccessAssumption
    DEF Identity!Touch, Identity!LoseActive, Identity!TypeOK
  <2>2. UNCHANGED <<recoveryKey, keyLog, keyPc, draft, newKey>>
    BY <1>1 DEF Identity!Touch, Identity!LoseActive
  <2> QED BY <2>1, <2>2 DEF Identity!Resolves
<1>2. ASSUME NEW c \in Command, Identity!Establish(c) PROVE IdentityInv'
  <2>1. /\ keyLog = <<>> /\ \A d \in Command : keyPc[d] = "idle"
        /\ keyPc' = [keyPc EXCEPT ![c] = "recovery.key"]
        /\ keyLog' = keyLog /\ recoveryKey' = recoveryKey
    BY <1>2 DEF Identity!Establish, Identity!May, Identity!files
  <2>2. /\ Identity!TypeOK'
        /\ draft'[c] # <<>> /\ draft'[c][1].recovery = newKey'[c]
        /\ Identity!Resolves(draft'[c])
    BY <1>2, EstablishDrafts
  <2>3. \A d \in Command : keyPc'[d] # "idle" => d = c /\ keyPc'[d] = "recovery.key"
    BY <2>1 DEF Identity!TypeOK
  <2>4. DraftsResolve'
    BY <2>1, <2>2, <2>3 DEF Identity!Resolves
  <2> QED BY <2>1, <2>2, <2>3, <2>4
<1>3. ASSUME NEW c \in Command, Identity!Rotate(c) \/ Identity!Recover(c)
      PROVE  IdentityInv'
  <2>1. PICK k \in 0..MaxKey : Identity!Extend(c, k)
    BY <1>3 DEF Identity!Rotate, Identity!Recover, Identity!TypeOK
  <2>2. /\ keyLog # <<>> /\ \A d \in Command : keyPc[d] = "idle"
        /\ keyPc' = [keyPc EXCEPT ![c] = "user.key"]
        /\ keyLog' = keyLog /\ recoveryKey' = recoveryKey
    BY <2>1, Zenon DEF Identity!Extend, Identity!May, Identity!files
  <2>3. /\ Identity!TypeOK'
        /\ draft'[c] # <<>> /\ draft'[c][1] = keyLog[1]
        /\ Identity!Resolves(draft'[c])
    BY <2>1, ExtendDrafts
  <2>4. \A d \in Command : keyPc'[d] # "idle" => d = c /\ keyPc'[d] = "user.key"
    BY <2>2 DEF Identity!TypeOK
  <2>5. DraftsResolve'
    BY <2>2, <2>3, <2>4 DEF Identity!Resolves
  <2> QED BY <2>2, <2>3, <2>5 DEF Identity!Resolves
<1>4. ASSUME NEW c \in Command, Identity!SaveRecovery(c) PROVE IdentityInv'
  <2>1. /\ keyLog = <<>> /\ draft[c][1].recovery = newKey[c]
        /\ recoveryKey' = newKey[c] /\ keyLog' = keyLog
        /\ UNCHANGED <<draft, newKey>>
        /\ keyPc' = [keyPc EXCEPT ![c] = "log.json"]
    BY <1>4 DEF Identity!SaveRecovery
  <2>2. DraftsResolve'
    BY <1>4, <2>1
    DEF Identity!SaveRecovery, Identity!TypeOK, Identity!Resolves
  <2>3. Identity!TypeOK'
    BY <1>4 DEF Identity!SaveRecovery, Identity!TypeOK
  <2> QED BY <2>1, <2>2, <2>3
<1>5. ASSUME NEW c \in Command, Identity!SaveActive(c) PROVE IdentityInv'
  <2>1. /\ UNCHANGED <<recoveryKey, keyLog, draft, newKey>>
        /\ keyPc[c] = "user.key" /\ keyPc' = [keyPc EXCEPT ![c] = "log.json"]
    BY <1>5 DEF Identity!SaveActive
  <2>2. DraftsResolve'
    BY <1>5, <2>1 DEF Identity!TypeOK, Identity!Resolves
  <2>3. Identity!TypeOK'
    BY <1>5 DEF Identity!SaveActive, Identity!TypeOK
  <2> QED BY <2>1, <2>2, <2>3 DEF Identity!Resolves
<1>6. ASSUME NEW c \in Command, Identity!WriteLog(c) PROVE IdentityInv'
  BY <1>6 DEF Identity!WriteLog, Identity!TypeOK, Identity!Resolves
<1>7. ASSUME NEW c \in Command, Identity!Crash(c) PROVE IdentityInv'
  BY <1>7 DEF Identity!Crash, Identity!files, Identity!TypeOK,
              Identity!Resolves
<1>8. CASE UNCHANGED Identity!vars
  BY <1>8 DEF Identity!vars, Identity!files, Identity!TypeOK, Identity!Resolves
<1> QED
  BY <1>1, <1>2, <1>3, <1>4, <1>5, <1>6, <1>7, <1>8 DEF Identity!Next

\* When commands take turns, an established identity can be recovered wherever
\* one of them stopped and whichever active key was lost: recovery.key is the
\* key the log names, and the log verifies (establish_user_recovery,
\* rotate_user_key and recover_user_key, core/src/recovery.rs).
THEOREM IdentityHolds ==
  ASSUME "together" \notin IdentityOverlaps
  PROVE  Identity!Spec => []IdentityRecoverable
<1>1. IdentityInv /\ [Identity!Next]_(Identity!vars) => IdentityInv'
  BY IdentityStep
<1>2. IdentityInv => IdentityRecoverable
  BY DEF IdentityInv, IdentityRecoverable
<1> QED BY <1>1, <1>2, InitIdentity, PTL DEF Identity!Spec

----------------------------------------------------------------------------
(* Commands at once. Each verifies what it is about to write against the   *)
(* log it read, so the log on disk verifies whichever is written last.     *)

LogInv ==
  /\ Identity!TypeOK /\ Identity!Resolves(keyLog)
  /\ \A c \in Command : keyPc[c] # "idle" => Identity!Resolves(draft[c])

LEMMA LogStep ==
  ASSUME LogInv, [Identity!Next]_(Identity!vars) PROVE LogInv'
<1> USE DEF LogInv
<1>1. CASE Identity!Touch \/ Identity!LoseActive
  <2>1. UNCHANGED <<keyLog, keyPc, draft>>
    BY <1>1 DEF Identity!Touch, Identity!LoseActive
  <2>2. Identity!TypeOK'
    BY <1>1, AccessAssumption
    DEF Identity!Touch, Identity!LoseActive, Identity!TypeOK
  <2> QED BY <2>1, <2>2 DEF Identity!Resolves
<1>2. ASSUME NEW c \in Command,
             \/ Identity!Establish(c)
             \/ \E k \in 0..MaxKey : Identity!Extend(c, k)
      PROVE  LogInv'
  <2>1. Identity!TypeOK' /\ Identity!Resolves(draft'[c])
    BY <1>2, EstablishDrafts, ExtendDrafts
  <2>2. /\ keyLog' = keyLog /\ DOMAIN keyPc = Command
        /\ \A d \in Command : d # c => keyPc'[d] = keyPc[d] /\ draft'[d] = draft[d]
    BY <1>2
    DEF Identity!Establish, Identity!Extend, Identity!files, Identity!TypeOK
  <2> QED BY <2>1, <2>2 DEF Identity!Resolves
<1>3. ASSUME NEW c \in Command, Identity!Rotate(c) \/ Identity!Recover(c)
      PROVE  LogInv'
  BY <1>2, <1>3 DEF Identity!Rotate, Identity!Recover, Identity!TypeOK
<1>4. ASSUME NEW c \in Command,
             Identity!SaveRecovery(c) \/ Identity!SaveActive(c)
      PROVE  LogInv'
  <2>1. /\ UNCHANGED <<keyLog, draft>> /\ keyPc[c] # "idle"
        /\ \A d \in Command : d # c => keyPc'[d] = keyPc[d]
    BY <1>4
    DEF Identity!SaveRecovery, Identity!SaveActive, Identity!TypeOK
  <2>2. Identity!TypeOK'
    BY <1>4
    DEF Identity!SaveRecovery, Identity!SaveActive, Identity!TypeOK
  <2> QED BY <2>1, <2>2 DEF Identity!Resolves
<1>5. ASSUME NEW c \in Command, Identity!WriteLog(c) PROVE LogInv'
  BY <1>5 DEF Identity!WriteLog, Identity!TypeOK, Identity!Resolves
<1>6. ASSUME NEW c \in Command, Identity!Crash(c) PROVE LogInv'
  BY <1>6 DEF Identity!Crash, Identity!files, Identity!TypeOK,
              Identity!Resolves
<1>7. CASE UNCHANGED Identity!vars
  BY <1>7 DEF Identity!vars, Identity!files, Identity!TypeOK, Identity!Resolves
<1> QED
  BY <1>1, <1>2, <1>3, <1>4, <1>5, <1>6, <1>7 DEF Identity!Next

\* However many commands run at once and wherever they end, the log on disk
\* verifies (verify_and_resolve, core/src/recovery.rs); only that recovery.key
\* is the key it names needs the commands to take turns.
THEOREM LogAlwaysVerifies == Identity!Spec => [](Identity!Resolves(keyLog))
<1>1. Identity!Init => LogInv
  BY InitIdentity
  DEF Identity!Init, IdentityInv, LogInv, Identity!Resolves
<1>2. LogInv => Identity!Resolves(keyLog)
  BY DEF LogInv
<1> QED BY <1>1, <1>2, LogStep, PTL DEF Identity!Spec

LEMMA IdentityType == Identity!Spec => []Identity!TypeOK
<1>1. Identity!Init => LogInv
  BY InitIdentity
  DEF Identity!Init, IdentityInv, LogInv, Identity!Resolves
<1>2. LogInv => Identity!TypeOK
  BY DEF LogInv
<1> QED BY <1>1, <1>2, LogStep, PTL DEF Identity!Spec

----------------------------------------------------------------------------
\* A sequence that m begins with.
Begins(l, m) == Len(l) <= Len(m) /\ \A i \in 1..Len(l) : m[i] = l[i]

\* What a command is about to write begins with what is on disk.
DraftsFollow ==
  \A c \in Command : keyPc[c] # "idle" => Begins(keyLog, draft[c])

LEMMA FollowStep ==
  ASSUME "together" \notin IdentityOverlaps,
         IdentityInv, DraftsFollow, [Identity!Next]_(Identity!vars)
  PROVE  DraftsFollow' /\ Begins(keyLog, keyLog')
<1> USE DEF DraftsFollow
<1> DEFINE Kept == DraftsFollow' /\ Begins(keyLog, keyLog')
<1>1. keyLog \in Seq(Identity!Op) /\ Begins(keyLog, keyLog)
  BY DEF IdentityInv, Identity!TypeOK, Begins
<1>2. CASE Identity!Touch \/ Identity!LoseActive \/ UNCHANGED Identity!vars
  BY <1>1, <1>2
  DEF Identity!Touch, Identity!LoseActive, Identity!vars, Identity!files, Begins
<1>3. ASSUME NEW c \in Command, NEW l \in Seq(Identity!Op), Begins(keyLog, l),
             Identity!May(c), keyLog' = keyLog,
             draft' = [draft EXCEPT ![c] = l],
             \A d \in Command : d # c => keyPc'[d] = keyPc[d]
      PROVE  Kept
  BY <1>1, <1>3 DEF Identity!May, IdentityInv, Identity!TypeOK, Begins
<1>4. ASSUME NEW c \in Command, Identity!Establish(c) PROVE Kept
  <2>1. keyLog = <<>> /\ Identity!May(c) /\ keyLog' = keyLog /\ Identity!TypeOK'
    BY <1>4, EstablishDrafts DEF Identity!Establish, Identity!files, IdentityInv
  <2>2. PICK l : draft' = [draft EXCEPT ![c] = l]
    BY <1>4 DEF Identity!Establish
  <2>3. l \in Seq(Identity!Op) /\ Begins(keyLog, l)
    BY <2>1, <2>2 DEF IdentityInv, Identity!TypeOK, Begins
  <2>4. \A d \in Command : d # c => keyPc'[d] = keyPc[d]
    BY <1>4 DEF Identity!Establish, IdentityInv, Identity!TypeOK
  <2> QED BY <1>3, <2>1, <2>2, <2>3, <2>4
<1>5. ASSUME NEW c \in Command, NEW k \in 0..MaxKey, Identity!Extend(c, k)
      PROVE  Kept
  <2> DEFINE op == [signer |-> k, active |-> keys', recovery |-> keyLog[1].recovery]
  <2>1. Identity!May(c) /\ keyLog' = keyLog /\ Identity!TypeOK'
    BY <1>5, ExtendDrafts DEF Identity!Extend, Identity!files, IdentityInv
  <2>2. draft' = [draft EXCEPT ![c] = Append(keyLog, op)]
    BY <1>5 DEF Identity!Extend
  <2>3. Append(keyLog, op) \in Seq(Identity!Op)
    BY <2>1, <2>2 DEF IdentityInv, Identity!TypeOK
  <2>4. Begins(keyLog, Append(keyLog, op))
    BY <1>1 DEF Begins
  <2>5. \A d \in Command : d # c => keyPc'[d] = keyPc[d]
    BY <1>5 DEF Identity!Extend, IdentityInv, Identity!TypeOK
  <2> QED BY <1>3, <2>1, <2>2, <2>3, <2>4, <2>5
<1>6. ASSUME NEW c \in Command, Identity!Rotate(c) \/ Identity!Recover(c)
      PROVE  Kept
  BY <1>5, <1>6
  DEF Identity!Rotate, Identity!Recover, IdentityInv, Identity!TypeOK
<1>7. ASSUME NEW c \in Command,
             Identity!SaveRecovery(c) \/ Identity!SaveActive(c)
      PROVE  Kept
  BY <1>1, <1>7
  DEF Identity!SaveRecovery, Identity!SaveActive, IdentityInv,
      Identity!TypeOK, Begins
<1>8. ASSUME NEW c \in Command, Identity!WriteLog(c) PROVE Kept
  <2>1. /\ keyLog' = draft[c] /\ Begins(keyLog, draft[c])
        /\ \A d \in Command : keyPc'[d] = "idle"
    BY <1>8 DEF Identity!WriteLog, IdentityInv, DraftsResolve, Identity!TypeOK
  <2> QED BY <2>1
<1>9. ASSUME NEW c \in Command, Identity!Crash(c) PROVE Kept
  BY <1>1, <1>9
  DEF Identity!Crash, Identity!files, IdentityInv, Identity!TypeOK, Begins
<1> QED
  BY <1>2, <1>4, <1>6, <1>7, <1>8, <1>9 DEF Identity!Next

\* When commands take turns, no rotation or recovery is lost: what is written
\* to log.json begins with what was there (write_user_log,
\* core/src/recovery.rs).
THEOREM LogOnlyGrows ==
  ASSUME "together" \notin IdentityOverlaps
  PROVE  Identity!Spec => [][Begins(keyLog, keyLog')]_(Identity!vars)
<1>1. Identity!Init => IdentityInv /\ DraftsFollow
  BY InitIdentity DEF Identity!Init, DraftsFollow
<1>2. /\ IdentityInv /\ DraftsFollow /\ [Identity!Next]_(Identity!vars)
      => (IdentityInv /\ DraftsFollow)'
  BY IdentityStep, FollowStep
<1>3. /\ IdentityInv /\ DraftsFollow /\ [Identity!Next]_(Identity!vars)
      => [Begins(keyLog, keyLog')]_(Identity!vars)
  BY FollowStep
<1> QED BY <1>1, <1>2, <1>3, PTL DEF Identity!Spec

----------------------------------------------------------------------------
(* Egress. A plan is carried out by who holds the policy lock, under which *)
(* locks, clearances and receipts change: what it was checked against when *)
(* it started stands until it ends.                                        *)

\* Who carries out a plan holds the policy lock, and may still publish.
SendingAlone ==
  \A s \in EgressSession : sending[s] # None =>
    guard = s /\ receipts[sending[s].plan.root] < MaxReceipts

EgressInv == Outward!TypeOK /\ SendingAlone /\ Outward!FencedLeavesByGrant

LEMMA InitEgress == Outward!Init => EgressInv
BY AccessAssumption
DEF Outward!Init, EgressInv, Outward!TypeOK, Outward!Registry, SendingAlone,
    Outward!FencedLeavesByGrant

LEMMA PlanForType ==
  ASSUME Outward!TypeOK, NEW r \in EgressPublic
  PROVE  Outward!PlanFor(r) \in Outward!Plan
<1>1. Reach[r] \cap quarantine \subseteq Outward!Block
  BY DEF Outward!TypeOK
<1>2. Outward!Hits(r) \subseteq Root
  BY DEF Outward!Hits, Outward!TypeOK, Outward!Registry
<1>3. Outward!Fenced(r) \in BOOLEAN
  BY DEF Outward!Fenced
<1> QED
  BY <1>1, <1>2, <1>3 DEF Outward!PlanFor, Outward!Plan, Outward!TypeOK

\* The registry changes under the policy lock, when no plan is carried out.
LEMMA RegistryStep ==
  ASSUME EgressInv, NEW reg \in Outward!Registry, Outward!Write(reg)
  PROVE  EgressInv'
<1>1. Outward!TypeOK'
  BY DEF EgressInv, Outward!TypeOK, Outward!Write
<1>2. \A s \in EgressSession : sending'[s] = None
  BY AccessAssumption DEF EgressInv, SendingAlone, Outward!Write
<1> QED
  BY <1>1, <1>2 DEF EgressInv, SendingAlone, Outward!FencedLeavesByGrant

\* A plan that starts is what would be built now, and nothing else is sent.
LEMMA StartStep ==
  ASSUME EgressInv, NEW s \in EgressSession, NEW granted \in BOOLEAN,
         Outward!Starts(s, granted), granted \/ ~Outward!Blocked(review[s]),
         grants' \subseteq grants
  PROVE  EgressInv'
<1> DEFINE p == review[s]
<1>1. /\ guard = None /\ guard' = s /\ p # None
      /\ p = Outward!PlanFor(p.root) /\ receipts[p.root] < MaxReceipts
      /\ sending' = [sending EXCEPT ![s] = [plan |-> p, granted |-> granted]]
      /\ UNCHANGED <<registry, quarantine, receipts, review>>
  BY DEF Outward!Starts
<1>2. p \in Outward!Plan
  BY <1>1 DEF EgressInv, Outward!TypeOK
<1>3. Outward!TypeOK'
  BY <1>1, <1>2 DEF EgressInv, Outward!TypeOK
<1>4. \A t \in EgressSession : sending[t] = None
  BY <1>1, AccessAssumption DEF EgressInv, SendingAlone
<1>5. /\ sending'[s] = [plan |-> p, granted |-> granted]
      /\ \A t \in EgressSession : sending'[t] # None => t = s
  BY <1>1, <1>4 DEF EgressInv, Outward!TypeOK
<1>6. p.hits = Outward!Hits(p.root) /\ p.fenced = Outward!Fenced(p.root)
  BY <1>1 DEF Outward!PlanFor
<1>7. granted \/ (Outward!Hits(p.root) = {} /\ ~Outward!Fenced(p.root))
  BY <1>6, Zenon DEF Outward!Blocked
<1>8. /\ Outward!Hits(p.root)' = Outward!Hits(p.root)
      /\ Outward!Fenced(p.root)' <=> Outward!Fenced(p.root)
  BY <1>1 DEF Outward!Hits, Outward!Fenced
<1>9. Outward!FencedLeavesByGrant'
  <2> SUFFICES ASSUME NEW t \in EgressSession, sending'[t] # None
               PROVE  \/ /\ Outward!Hits(p.root)' = {}
                         /\ ~Outward!Fenced(p.root)'
                      \/ granted /\ p.hits = Outward!Hits(p.root)'
    BY <1>1, <1>5 DEF Outward!FencedLeavesByGrant, Outward!Hits, Outward!Fenced
  <2> QED BY <1>6, <1>7, <1>8
<1> QED BY <1>1, <1>3, <1>5, <1>9 DEF EgressInv, SendingAlone

\* The policy lock is given up: nothing is sent.
LEMMA EndStep ==
  ASSUME EgressInv, NEW s \in EgressSession, guard = s, Outward!Ends(s)
  PROVE  /\ \A t \in EgressSession : sending'[t] = None
         /\ sending' \in [EgressSession -> {None}] /\ guard' = None
BY AccessAssumption
DEF EgressInv, Outward!TypeOK, SendingAlone, Outward!Ends

LEMMA EgressStep ==
  ASSUME EgressInv, [Outward!Next]_(Outward!vars) PROVE EgressInv'
<1> USE DEF EgressInv
<1>1. ASSUME NEW r \in Root, Outward!LockSubgraph(r) \/ Outward!UnlockSubgraph(r)
      PROVE  EgressInv'
  <2>1. PICK reg \in Outward!Registry : Outward!Write(reg)
    BY <1>1
    DEF Outward!LockSubgraph, Outward!UnlockSubgraph, Outward!TypeOK,
        Outward!Registry
  <2> QED BY <2>1, RegistryStep
<1>2. ASSUME NEW r \in EgressPublic, Outward!ClearForEgress(r) \/ Outward!Refence(r)
      PROVE  EgressInv'
  <2>1. PICK reg \in Outward!Registry : Outward!Write(reg)
    BY <1>2
    DEF Outward!ClearForEgress, Outward!Refence, Outward!TypeOK,
        Outward!Registry
  <2> QED BY <2>1, RegistryStep
<1>3. ASSUME NEW b \in Outward!Block, Outward!Quarantine(b) PROVE EgressInv'
  BY <1>3
  DEF Outward!Quarantine, Outward!TypeOK, SendingAlone,
      Outward!FencedLeavesByGrant, Outward!Hits, Outward!Fenced
<1>4. ASSUME NEW s \in EgressSession, NEW r \in EgressPublic,
             Outward!Review(s, r)
      PROVE  EgressInv'
  BY <1>4, PlanForType
  DEF Outward!Review, Outward!disk, Outward!TypeOK, SendingAlone,
      Outward!FencedLeavesByGrant, Outward!Hits, Outward!Fenced
<1>5. ASSUME NEW s \in EgressSession,
             Outward!CreatePublishGrant(s) \/ Outward!ExecuteRefused(s)
      PROVE  EgressInv'
  <2>1. UNCHANGED <<registry, quarantine, receipts, review, guard, sending>>
    BY <1>5 DEF Outward!CreatePublishGrant, Outward!ExecuteRefused
  <2>2. grants' \subseteq [by : EgressSession, plan : Outward!Plan]
    BY <1>5
    DEF Outward!CreatePublishGrant, Outward!ExecuteRefused, Outward!TypeOK
  <2> QED
    BY <2>1, <2>2
    DEF Outward!TypeOK, SendingAlone, Outward!FencedLeavesByGrant,
        Outward!Hits, Outward!Fenced
<1>6. ASSUME NEW s \in EgressSession, Outward!ExecuteClear(s) PROVE EgressInv'
  BY <1>6, StartStep DEF Outward!ExecuteClear
<1>7. ASSUME NEW s \in EgressSession, Outward!ExecuteGranted(s)
      PROVE  EgressInv'
  BY <1>7, StartStep DEF Outward!ExecuteGranted
<1>8. ASSUME NEW s \in EgressSession, Outward!Publish(s) PROVE EgressInv'
  <2>1. guard = s /\ receipts[sending[s].plan.root] < MaxReceipts
    BY <1>8 DEF Outward!Publish, SendingAlone
  <2>2. sending[s].plan.root \in EgressPublic
    BY <1>8 DEF Outward!Publish, Outward!TypeOK, Outward!Plan
  <2>3. receipts[sending[s].plan.root] + 1 \in 0..MaxReceipts
    BY <2>1, <2>2, AccessAssumption DEF Outward!TypeOK
  <2>4. receipts' \in [EgressPublic -> 0..MaxReceipts]
    BY <1>8, <2>2, <2>3 DEF Outward!Publish, Outward!TypeOK
  <2>5. \A t \in EgressSession : sending'[t] = None
    BY <1>8, <2>1, EndStep DEF Outward!Publish
  <2>6. sending' \in [EgressSession -> {None}] /\ guard' = None
    BY <1>8, <2>1, EndStep DEF Outward!Publish
  <2> QED
    BY <1>8, <2>4, <2>5, <2>6
    DEF Outward!Publish, Outward!TypeOK, SendingAlone,
        Outward!FencedLeavesByGrant
<1>9. ASSUME NEW s \in EgressSession, Outward!PublishFails(s)
      PROVE  EgressInv'
  <2>1. guard = s
    BY <1>9 DEF Outward!PublishFails, SendingAlone
  <2>2. /\ \A t \in EgressSession : sending'[t] = None
        /\ sending' \in [EgressSession -> {None}] /\ guard' = None
    BY <1>9, <2>1, EndStep DEF Outward!PublishFails
  <2> QED
    BY <1>9, <2>2
    DEF Outward!PublishFails, Outward!disk, Outward!TypeOK, SendingAlone,
        Outward!FencedLeavesByGrant
<1>10. ASSUME NEW s \in EgressSession, Outward!Restart(s) PROVE EgressInv'
  <2>1. /\ UNCHANGED <<registry, quarantine, receipts>>
        /\ review' \in [EgressSession -> Outward!Plan \cup {None}]
        /\ grants' \subseteq grants
    BY <1>10 DEF Outward!Restart, Outward!TypeOK
  <2>2. CASE guard = s
    <3>1. /\ \A t \in EgressSession : sending'[t] = None
          /\ sending' \in [EgressSession -> {None}] /\ guard' = None
      BY <1>10, <2>2, EndStep DEF Outward!Restart
    <3> QED
      BY <2>1, <3>1
      DEF Outward!TypeOK, SendingAlone, Outward!FencedLeavesByGrant
  <2>3. CASE guard # s
    BY <1>10, <2>1, <2>3
    DEF Outward!Restart, Outward!TypeOK, SendingAlone,
        Outward!FencedLeavesByGrant, Outward!Hits, Outward!Fenced
  <2> QED BY <2>2, <2>3
<1>11. CASE UNCHANGED Outward!vars
  BY <1>11
  DEF Outward!vars, Outward!disk, Outward!TypeOK, SendingAlone,
      Outward!FencedLeavesByGrant, Outward!Hits, Outward!Fenced
<1> QED
  BY <1>1, <1>2, <1>3, <1>4, <1>5, <1>6, <1>7, <1>8, <1>9, <1>10, <1>11
  DEF Outward!Next

\* Whatever locks, clearances, quarantines and reviews come between a review
\* and the publication, a plan that is carried out is not fenced and meets no
\* lock, or was granted for the locks it meets (execute_approved_egress,
\* core/src/egress.rs).
THEOREM FenceHolds == Outward!Spec => []FencedLeavesByGrant
<1>1. EgressInv => FencedLeavesByGrant
  BY DEF EgressInv, FencedLeavesByGrant
<1> QED BY <1>1, InitEgress, EgressStep, PTL DEF Outward!Spec

LEMMA EgressType == Outward!Spec => []Outward!TypeOK
<1>1. EgressInv => Outward!TypeOK
  BY DEF EgressInv
<1> QED BY <1>1, InitEgress, EgressStep, PTL DEF Outward!Spec

----------------------------------------------------------------------------
(* Encrypted copies. The policy lock makes a conversion alone: the vault   *)
(* it seals is the one it opened, and blocks, key and index entry follow   *)
(* one another in the order in which they need each other.                 *)

\* How far a conversion is, and that it is alone.
ConvertingAlone ==
  \A p \in Proc : procPc[p] # "idle" =>
    /\ vaultGuard = p /\ job[p].tree # 0
    /\ procPc[p] # "store" => job[p].tree \in blocks
    /\ procPc[p] = "seal" => job[p].vault = vault
    /\ procPc[p] \in {"lock", "record"} => job[p].tree \in vault

PrivateInv == Private!TypeOK /\ ConvertingAlone /\ Private!CopiesOpen

LEMMA InitPrivate == Private!Init => PrivateInv
<1> SUFFICES ASSUME Private!Init PROVE PrivateInv
  OBVIOUS
<1>1. PICK x \in Source : TRUE
  BY AccessAssumption
<1>2. [source |-> x, tree |-> 0, vault |-> {}, kind |-> "pin"] \in Private!Job
  BY AccessAssumption DEF Private!Job
<1>3. \E j \in Private!Job : j.tree = 0 /\ j.vault = {}
  BY <1>2
<1>4. (CHOOSE j \in Private!Job : j.tree = 0 /\ j.vault = {}) \in Private!Job
  BY <1>3, Zenon
<1>5. job \in [Proc -> Private!Job]
  BY <1>4, Zenon DEF Private!Init
<1>6. /\ made = 0 /\ blocks = {} /\ vault = {} /\ locks = {}
      /\ index = [y \in Source |-> None] /\ vaultGuard = None
      /\ procPc = [p \in Proc |-> "idle"]
  BY Zenon DEF Private!Init
<1> QED
  BY <1>5, <1>6, AccessAssumption
  DEF PrivateInv, Private!TypeOK, ConvertingAlone, Private!CopiesOpen

LEMMA PrivateStep ==
  ASSUME PrivateInv, [Private!Next]_(Private!vars) PROVE PrivateInv'
<1> USE AccessAssumption
    DEF PrivateInv, Private!TypeOK, ConvertingAlone, Private!CopiesOpen,
        Private!Goes, Private!Leaves, Private!files, Private!Tree
<1>1. ASSUME NEW p \in Proc, NEW x \in Source,
             NEW kind \in {"convert", "rotate", "pin"},
             Private!Begin(p, x, kind)
      PROVE  PrivateInv'
  BY <1>1 DEF Private!Begin, Private!Job
<1>2. ASSUME NEW p \in Proc, Private!Store(p) PROVE PrivateInv'
  <2>1. job[p].tree \in 1..MaxTree
    BY <1>2 DEF Private!Store, Private!Job
  <2>2. blocks' = blocks \cup {job[p].tree} /\ job' = job
    BY <1>2 DEF Private!Store
  <2> QED BY <1>2, <2>1, <2>2 DEF Private!Store
<1>3. ASSUME NEW p \in Proc, Private!OpenVault(p) PROVE PrivateInv'
  BY <1>3 DEF Private!OpenVault, Private!Job
<1>4. ASSUME NEW p \in Proc, Private!SealVault(p) PROVE PrivateInv'
  <2>1. vault' = vault \cup {job[p].tree} /\ job[p].tree \in blocks
    BY <1>4 DEF Private!SealVault
  <2>2. CASE job[p].kind = "pin"
    BY <1>4, <2>1, <2>2 DEF Private!SealVault, Private!Job
  <2>3. CASE job[p].kind # "pin"
    BY <1>4, <2>1, <2>3 DEF Private!SealVault, Private!Job
  <2> QED BY <2>2, <2>3
<1>5. ASSUME NEW p \in Proc, Private!LockSource(p) PROVE PrivateInv'
  BY <1>5 DEF Private!LockSource, Private!Job
<1>6. ASSUME NEW p \in Proc, Private!Record(p) PROVE PrivateInv'
  BY <1>6 DEF Private!Record, Private!Job
<1>7. ASSUME NEW p \in Proc, Private!Crash(p) PROVE PrivateInv'
  BY <1>7 DEF Private!Crash
<1>8. ASSUME NEW x \in Source, Private!UnlockSource(x) PROVE PrivateInv'
  BY <1>8 DEF Private!UnlockSource
<1>9. CASE UNCHANGED Private!vars
  BY <1>9 DEF Private!vars
<1> QED
  BY <1>1, <1>2, <1>3, <1>4, <1>5, <1>6, <1>7, <1>8, <1>9 DEF Private!Next

\* As long as the store is not collected, every encrypted copy can be opened,
\* however many processes convert, rotate and pin at once and wherever one of
\* them dies: its key is in the vault and its blocks are in the store
\* (convert_and_share_private, rotate_private_capability, core/src/private.rs).
THEOREM PrivateCopiesOpen == Private!Spec => []CopiesOpen
<1>1. PrivateInv => CopiesOpen
  BY DEF PrivateInv, CopiesOpen
<1> QED BY <1>1, InitPrivate, PrivateStep, PTL DEF Private!Spec

LEMMA PrivateType == Private!Spec => []Private!TypeOK
<1>1. PrivateInv => Private!TypeOK
  BY DEF PrivateInv
<1> QED BY <1>1, InitPrivate, PrivateStep, PTL DEF Private!Spec

----------------------------------------------------------------------------
(* The same with collections of the store, which no lock keeps out. They   *)
(* take the blocks of a copy; its key stays.                               *)

\* A conversion is alone, and the vault it seals is the one it opened.
SealingAlone ==
  \A p \in Proc : procPc[p] # "idle" =>
    /\ vaultGuard = p /\ job[p].tree # 0
    /\ procPc[p] = "seal" => job[p].vault = vault
    /\ procPc[p] \in {"lock", "record"} => job[p].tree \in vault

\* The key of a copy that the index lists is in the vault.
KeysHeld == \A x \in Source : index[x] # None => index[x] \in vault

VaultInv == Private!TypeOK /\ SealingAlone /\ KeysHeld

LEMMA VaultStep ==
  ASSUME VaultInv, [Private!Next \/ Private!Collect]_(Private!vars)
  PROVE  VaultInv' /\ vault \subseteq vault'
<1> USE AccessAssumption
    DEF VaultInv, Private!TypeOK, SealingAlone, KeysHeld, Private!Goes,
        Private!Leaves, Private!files, Private!Tree
<1> DEFINE Kept == VaultInv' /\ vault \subseteq vault'
<1>1. ASSUME NEW p \in Proc, NEW x \in Source,
             NEW kind \in {"convert", "rotate", "pin"},
             Private!Begin(p, x, kind)
      PROVE  Kept
  BY <1>1 DEF Private!Begin, Private!Job
<1>2. ASSUME NEW p \in Proc, Private!Store(p) PROVE Kept
  <2>1. job[p].tree \in 1..MaxTree
    BY <1>2 DEF Private!Store, Private!Job
  <2>2. blocks' = blocks \cup {job[p].tree} /\ job' = job
    BY <1>2 DEF Private!Store
  <2> QED BY <1>2, <2>1, <2>2 DEF Private!Store
<1>3. ASSUME NEW p \in Proc, Private!OpenVault(p) PROVE Kept
  BY <1>3 DEF Private!OpenVault, Private!Job
<1>4. ASSUME NEW p \in Proc, Private!SealVault(p) PROVE Kept
  <2>1. vault' = vault \cup {job[p].tree} /\ job[p].tree \in 1..MaxTree
    BY <1>4 DEF Private!SealVault, Private!Job
  <2>2. CASE job[p].kind = "pin"
    BY <1>4, <2>1, <2>2 DEF Private!SealVault, Private!Job
  <2>3. CASE job[p].kind # "pin"
    BY <1>4, <2>1, <2>3 DEF Private!SealVault, Private!Job
  <2> QED BY <2>2, <2>3
<1>5. ASSUME NEW p \in Proc, Private!LockSource(p) PROVE Kept
  BY <1>5 DEF Private!LockSource, Private!Job
<1>6. ASSUME NEW p \in Proc, Private!Record(p) PROVE Kept
  BY <1>6 DEF Private!Record, Private!Job
<1>7. ASSUME NEW p \in Proc, Private!Crash(p) PROVE Kept
  BY <1>7 DEF Private!Crash
<1>8. ASSUME NEW x \in Source, Private!UnlockSource(x) PROVE Kept
  BY <1>8 DEF Private!UnlockSource
<1>9. CASE Private!Collect
  BY <1>9 DEF Private!Collect
<1>10. CASE UNCHANGED Private!vars
  BY <1>10 DEF Private!vars
<1> QED
  BY <1>1, <1>2, <1>3, <1>4, <1>5, <1>6, <1>7, <1>8, <1>9, <1>10
  DEF Private!Next

\* Whatever is collected, converted, rotated and pinned at once and wherever a
\* process dies, the key of every copy the index lists is in the vault, and no
\* sealing loses a key: a copy whose blocks are had from elsewhere can be
\* opened (add_capability_to_vault, core/src/private.rs).
THEOREM KeysAreKept ==
  Private!SpecCollected => []KeysHeld /\ [][vault \subseteq vault']_(Private!vars)
<1>1. Private!Init => VaultInv
  BY InitPrivate
  DEF Private!Init, PrivateInv, ConvertingAlone, Private!CopiesOpen, VaultInv,
      SealingAlone, KeysHeld
<1>2. VaultInv /\ [Private!Next \/ Private!Collect]_(Private!vars)
      => VaultInv' /\ [vault \subseteq vault']_(Private!vars)
  BY VaultStep
<1>3. VaultInv => KeysHeld
  BY DEF VaultInv
<1> QED BY <1>1, <1>2, <1>3, PTL DEF Private!SpecCollected

----------------------------------------------------------------------------
(* The rules channel. What a refresh has accepted is newer than the state  *)
(* it read, and is in place before the state says so: a refresh that is    *)
(* cut short leaves a state behind the rules, never ahead of them.         *)

\* A refresh is alone and its copy of the state is the file; what it accepted
\* may run, and runs when the state is written.
RefreshingAlone ==
  \A c \in RulesCaller : rulesPc[c] # "idle" =>
    /\ \A d \in RulesCaller : rulesPc[d] # "idle" => d = c
    /\ rulesMine[c] = state
    /\ rulesPc[c] \in {"snapshot", "swap", "save"} => Rules!Accepts(state, got[c])
    /\ rulesPc[c] = "save" => active = got[c]

RulesInv == Rules!TypeOK /\ RefreshingAlone /\ Rules!LiveRulesVerified

LEMMA InitRules == Rules!Init => RulesInv
BY UpkeepAssumption
DEF Rules!Init, RulesInv, Rules!TypeOK, Rules!Bundle, Rules!State,
    Rules!Baseline, RefreshingAlone, Rules!LiveRulesVerified, Rules!Trusted,
    Rules!EpochNotAhead

LEMMA RulesStep ==
  ASSUME RulesOverlaps \cap {"refresh", "settings"} = {},
         RulesInv, [Rules!Next]_(Rules!vars)
  PROVE  RulesInv'
<1> USE UpkeepAssumption
    DEF RulesInv, Rules!TypeOK, RefreshingAlone, Rules!LiveRulesVerified,
        Rules!EpochNotAhead, Rules!Goes, Rules!Quiet, Rules!files
<1>1. ASSUME NEW c \in RulesCaller, Rules!Begin(c) PROVE RulesInv'
  BY <1>1 DEF Rules!Begin, Rules!Trusted
<1>2. ASSUME NEW c \in RulesCaller, Rules!Fetch(c) PROVE RulesInv'
  BY <1>2 DEF Rules!Fetch, Rules!Accepts, Rules!Trusted
<1>3. ASSUME NEW c \in RulesCaller, Rules!FetchEnds(c) PROVE RulesInv'
  BY <1>3 DEF Rules!FetchEnds, Rules!Trusted
<1>4. ASSUME NEW c \in RulesCaller, Rules!Snapshot(c) PROVE RulesInv'
  BY <1>4 DEF Rules!Snapshot, Rules!Accepts, Rules!Trusted
<1>5. ASSUME NEW c \in RulesCaller, Rules!Swap(c) PROVE RulesInv'
  BY <1>5 DEF Rules!Swap, Rules!Accepts, Rules!Trusted, Rules!Bundle, Rules!State
<1>6. ASSUME NEW c \in RulesCaller, Rules!Save(c) PROVE RulesInv'
  BY <1>6 DEF Rules!Save, Rules!Accepts, Rules!Trusted, Rules!Bundle, Rules!State
<1>7. ASSUME NEW c \in RulesCaller, Rules!Crash(c) PROVE RulesInv'
  BY <1>7 DEF Rules!Crash, Rules!Accepts, Rules!Trusted
<1>8. CASE Rules!SetPaused
  BY <1>8, ZenonT(60) DEF Rules!SetPaused, Rules!Set, Rules!Trusted, Rules!State
<1>9. CASE Rules!PinPublisherKey
  BY <1>9, ZenonT(60) DEF Rules!PinPublisherKey, Rules!Set, Rules!Trusted, Rules!State
<1>10. CASE UNCHANGED Rules!vars
  BY <1>10 DEF Rules!vars, Rules!Accepts, Rules!Trusted
<1> QED
  BY <1>1, <1>2, <1>3, <1>4, <1>5, <1>6, <1>7, <1>8, <1>9, <1>10 DEF Rules!Next

\* When refreshes take turns and settings are changed between them, whatever is
\* served and wherever a refresh dies, the rules that run and those they would
\* be rolled back to compile, are what a trusted key signed, and are not behind
\* the recorded epoch (refresh and activate, core/src/update/rules.rs).
THEOREM RulesStayVerified ==
  ASSUME RulesOverlaps \cap {"refresh", "settings"} = {}
  PROVE  Rules!Spec => []LiveRulesVerified
<1>1. RulesInv /\ [Rules!Next]_(Rules!vars) => RulesInv'
  BY RulesStep
<1>2. RulesInv => LiveRulesVerified
  BY DEF RulesInv, LiveRulesVerified
<1> QED BY <1>1, <1>2, InitRules, PTL DEF Rules!Spec

\* When refreshes take turns and settings are changed between them, no refresh
\* turns the channel on again that the user has paused: the copy of the state
\* it writes back is the state still (kill switch, core/src/update/rules.rs).
THEOREM PauseIsKept ==
  ASSUME RulesOverlaps \cap {"refresh", "settings"} = {}
  PROVE  Rules!Spec => Rules!PauseHolds
<1>1. RulesInv /\ [Rules!Next]_(Rules!vars) => RulesInv'
  BY RulesStep
<1>2. ASSUME RulesInv, Rules!Next, state.paused, ~state'.paused
      PROVE  rulesPc' = rulesPc
  <2>1. ASSUME NEW c \in RulesCaller, Rules!Save(c) PROVE FALSE
    <3>1. rulesMine[c] = state /\ state \in Rules!State
      BY <1>2, <2>1
      DEF Rules!Save, Rules!Goes, RulesInv, RefreshingAlone, Rules!TypeOK
    <3>2. state' = [rulesMine[c] EXCEPT !.epoch = got[c].epoch]
      BY <2>1 DEF Rules!Save
    <3>3. state'.paused = state.paused
      BY <3>1, <3>2 DEF Rules!State
    <3> QED BY <1>2, <3>3
  <2> QED
    BY <1>2, <2>1
    DEF Rules!Next, Rules!Begin, Rules!Fetch, Rules!FetchEnds,
        Rules!Snapshot, Rules!Swap, Rules!Crash, Rules!files,
        Rules!SetPaused, Rules!PinPublisherKey, Rules!Set
<1>3. RulesInv /\ [Rules!Next]_(Rules!vars)
      => [state.paused /\ ~state'.paused => rulesPc' = rulesPc]_(Rules!vars)
  BY <1>2
<1> QED BY <1>1, <1>3, InitRules, PTL DEF Rules!Spec, Rules!PauseHolds

----------------------------------------------------------------------------
(* Refreshes at once, settings changed under them, crashes: the state and  *)
(* the rules may then disagree, but a bundle was checked before it is got. *)

\* Rules the scanner can run, that a publisher's key signed.
Sound(r) == r.compiles /\ r.intact /\ r.signer # "neither"

SoundInv ==
  /\ Rules!TypeOK /\ Sound(active) /\ Sound(lkg)
  /\ \A c \in RulesCaller :
       rulesPc[c] \in {"snapshot", "swap", "save"} => Sound(got[c])

LEMMA SoundStep ==
  ASSUME SoundInv, [Rules!Next]_(Rules!vars) PROVE SoundInv'
<1> USE DEF SoundInv, Sound, Rules!TypeOK, Rules!Goes, Rules!files
<1>1. ASSUME NEW c \in RulesCaller, Rules!Begin(c) PROVE SoundInv'
  BY <1>1 DEF Rules!Begin
<1>2. ASSUME NEW c \in RulesCaller, Rules!Fetch(c) PROVE SoundInv'
  BY <1>2 DEF Rules!Fetch, Rules!Accepts, Rules!Trusted
<1>3. ASSUME NEW c \in RulesCaller, Rules!FetchEnds(c) PROVE SoundInv'
  BY <1>3 DEF Rules!FetchEnds
<1>4. ASSUME NEW c \in RulesCaller, Rules!Snapshot(c) PROVE SoundInv'
  BY <1>4 DEF Rules!Snapshot
<1>5. ASSUME NEW c \in RulesCaller, Rules!Swap(c) PROVE SoundInv'
  BY <1>5 DEF Rules!Swap
<1>6. ASSUME NEW c \in RulesCaller, Rules!Save(c) PROVE SoundInv'
  BY <1>6 DEF Rules!Save, Rules!Bundle, Rules!State
<1>7. ASSUME NEW c \in RulesCaller, Rules!Crash(c) PROVE SoundInv'
  BY <1>7 DEF Rules!Crash
<1>8. CASE Rules!SetPaused
  BY <1>8, ZenonT(60) DEF Rules!SetPaused, Rules!Set, Rules!State
<1>9. CASE Rules!PinPublisherKey
  BY <1>9, ZenonT(60) DEF Rules!PinPublisherKey, Rules!Set, Rules!State
<1>10. CASE UNCHANGED Rules!vars
  BY <1>10 DEF Rules!vars
<1> QED
  BY <1>1, <1>2, <1>3, <1>4, <1>5, <1>6, <1>7, <1>8, <1>9, <1>10 DEF Rules!Next

LEMMA InitSound == Rules!Init => SoundInv
BY InitRules
DEF Rules!Init, Rules!Baseline, RulesInv, SoundInv, Sound

\* Whatever is served and however refreshes, pauses, pins and crashes overlap,
\* the rules that run and those they would be rolled back to compile, hash to
\* what was signed and were signed by a key a user trusted (verify_bundle and
\* compile_gate, core/src/update/rules.rs).
THEOREM RulesAlwaysSound == Rules!Spec => [](Sound(active) /\ Sound(lkg))
<1>1. SoundInv => Sound(active) /\ Sound(lkg)
  BY DEF SoundInv
<1> QED BY <1>1, InitSound, SoundStep, PTL DEF Rules!Spec

LEMMA RulesType == Rules!Spec => []Rules!TypeOK
<1>1. SoundInv => Rules!TypeOK
  BY DEF SoundInv
<1> QED BY <1>1, InitSound, SoundStep, PTL DEF Rules!Spec

----------------------------------------------------------------------------
(* Refreshes that take turns and finish. The recorded epoch is then that   *)
(* of the rules that run, but for the refresh that has just swapped them.  *)

LevelInv ==
  /\ Rules!TypeOK /\ Rules!LastKnownGoodIsOlder
  /\ (\A c \in RulesCaller : rulesPc[c] # "save") => state.epoch = active.epoch
  /\ \A c \in RulesCaller : rulesPc[c] # "idle" =>
       /\ \A d \in RulesCaller : rulesPc[d] # "idle" => d = c
       /\ rulesMine[c].epoch = state.epoch
       /\ rulesPc[c] \in {"snapshot", "swap"} => got[c].epoch > active.epoch
       /\ rulesPc[c] = "save" => active = got[c] /\ got[c].epoch > state.epoch

LEMMA LevelStep ==
  ASSUME RulesOverlaps \cap {"refresh", "crash"} = {},
         LevelInv, [Rules!Next]_(Rules!vars)
  PROVE  LevelInv' /\ active'.epoch >= active.epoch
<1> USE DEF LevelInv, Rules!LastKnownGoodIsOlder, Rules!TypeOK, Rules!Goes,
            Rules!files
<1> DEFINE Kept == LevelInv' /\ active'.epoch >= active.epoch
<1>1. active \in Rules!Bundle /\ active.epoch \in Int
  BY DEF Rules!Bundle
<1>2. ASSUME NEW c \in RulesCaller, Rules!Begin(c) PROVE Kept
  BY <1>1, <1>2 DEF Rules!Begin, Rules!Quiet
<1>3. ASSUME NEW c \in RulesCaller, Rules!Fetch(c) PROVE Kept
  BY <1>1, <1>3 DEF Rules!Fetch, Rules!Accepts
<1>4. ASSUME NEW c \in RulesCaller, Rules!FetchEnds(c) PROVE Kept
  BY <1>1, <1>4 DEF Rules!FetchEnds
<1>5. ASSUME NEW c \in RulesCaller, Rules!Snapshot(c) PROVE Kept
  BY <1>1, <1>5 DEF Rules!Snapshot
<1>6. ASSUME NEW c \in RulesCaller, Rules!Swap(c) PROVE Kept
  BY <1>1, <1>6 DEF Rules!Swap, Rules!Bundle
<1>7. ASSUME NEW c \in RulesCaller, Rules!Save(c) PROVE Kept
  BY <1>1, <1>7 DEF Rules!Save, Rules!Bundle, Rules!State
<1>8. ASSUME NEW c \in RulesCaller, Rules!Crash(c) PROVE Kept
  BY <1>8 DEF Rules!Crash
<1>9. CASE Rules!SetPaused \/ Rules!PinPublisherKey
  <2>1. state' \in Rules!State /\ state'.epoch = state.epoch
    BY <1>9, ZenonT(60)
    DEF Rules!SetPaused, Rules!PinPublisherKey, Rules!Set, Rules!State
  <2>2. UNCHANGED <<active, lkg, rulesPc, rulesMine, got>>
    BY <1>9 DEF Rules!SetPaused, Rules!PinPublisherKey, Rules!Set
  <2> QED BY <1>1, <2>1, <2>2
<1>10. CASE UNCHANGED Rules!vars
  BY <1>1, <1>10 DEF Rules!vars
<1> QED
  BY <1>2, <1>3, <1>4, <1>5, <1>6, <1>7, <1>8, <1>9, <1>10 DEF Rules!Next

\* When refreshes take turns and are not cut short, the rules that run are
\* never replaced by older ones, and those kept to roll back to are never
\* newer: whatever a publisher serves, in whichever order, and whatever the
\* user pauses or pins meanwhile (activate, core/src/update/rules.rs).
THEOREM RulesGoForward ==
  ASSUME RulesOverlaps \cap {"refresh", "crash"} = {}
  PROVE  Rules!Spec => Rules!RulesMoveForward /\ []Rules!LastKnownGoodIsOlder
<1>1. Rules!Init => LevelInv
  BY InitRules
  DEF Rules!Init, Rules!Baseline, RulesInv, LevelInv, Rules!LastKnownGoodIsOlder
<1>2. LevelInv /\ [Rules!Next]_(Rules!vars)
      => LevelInv' /\ [active'.epoch >= active.epoch]_(Rules!vars)
  BY LevelStep
<1>3. LevelInv => Rules!LastKnownGoodIsOlder
  BY DEF LevelInv
<1> QED BY <1>1, <1>2, <1>3, PTL DEF Rules!Spec, Rules!RulesMoveForward

----------------------------------------------------------------------------
(* The program's update. The new program is whole before the old one is    *)
(* moved aside, and while none is in place the old one is kept.            *)

\* A launch that applies an update is alone; the program is in place, or the
\* old one is aside.
ApplyingAlone ==
  \A l \in Launch : step[l] # "idle" =>
    /\ \A m \in Launch : step[m] # "idle" => m = l
    /\ step[l] = "write" => archive \in App!Version
    /\ step[l] \in {"unlink", "aside", "swap"} => new \in App!Version
    /\ step[l] \in {"swap", "restore"} => old \in App!Version
    /\ step[l] \notin {"swap", "restore"} => target \in App!Version

\* What is about to be recorded as pending is whole.
StagedWhole == staging => archive \in App!Version

AppInv ==
  App!TypeOK /\ ApplyingAlone /\ StagedWhole /\ App!ProgramIsThere

LEMMA InitApp == App!Init => AppInv
<1> SUFFICES ASSUME App!Init PROVE AppInv
  OBVIOUS
<1>1. 1 \in App!Version
  BY UpkeepAssumption DEF App!Version
<1>2. App!TypeOK
  BY <1>1 DEF App!Init, App!TypeOK
<1>3. StagedWhole
  BY Zenon DEF App!Init, StagedWhole
<1> QED
  BY <1>1, <1>2, <1>3
  DEF App!Init, AppInv, ApplyingAlone, App!ProgramIsThere

LEMMA AppStep ==
  ASSUME "together" \notin Races, AppInv, [App!Next]_(App!vars)
  PROVE  AppInv'
<1> USE UpkeepAssumption
    DEF AppInv, App!TypeOK, ApplyingAlone, StagedWhole, App!ProgramIsThere,
        App!Quiet, App!Goes, App!Absent, App!Partial, App!Version, App!disk,
        App!stage, App!rest
<1>1. CASE App!Publish
  BY <1>1 DEF App!Publish
<1>2. CASE App!StageArchive
  BY <1>2, ZenonT(60) DEF App!StageArchive
<1>3. CASE App!StageRecord
  BY <1>3 DEF App!StageRecord
<1>4. ASSUME NEW l \in Launch, App!Open(l) PROVE AppInv'
  BY <1>4 DEF App!Open
<1>5. ASSUME NEW l \in Launch, App!Write(l) PROVE AppInv'
  BY <1>5 DEF App!Write
<1>6. ASSUME NEW l \in Launch, App!Unlink(l) PROVE AppInv'
  BY <1>6 DEF App!Unlink
<1>7. ASSUME NEW l \in Launch, App!Aside(l) PROVE AppInv'
  BY <1>7 DEF App!Aside
<1>8. ASSUME NEW l \in Launch, App!Swap(l) PROVE AppInv'
  BY <1>8 DEF App!Swap
<1>9. ASSUME NEW l \in Launch, App!SwapFails(l) PROVE AppInv'
  BY <1>9 DEF App!SwapFails
<1>10. ASSUME NEW l \in Launch, App!Restore(l) PROVE AppInv'
  BY <1>10 DEF App!Restore
<1>11. ASSUME NEW l \in Launch, App!Clean(l) \/ App!Clear(l) PROVE AppInv'
  BY <1>11 DEF App!Clean, App!Clear
<1>12. ASSUME NEW l \in Launch, App!RestoreFails(l) \/ App!Kill(l)
       PROVE  AppInv'
  <2>1. step' = [step EXCEPT ![l] = "idle"]
    BY <1>12 DEF App!RestoreFails, App!Kill
  <2>2. /\ stranded' \in BOOLEAN
        /\ step[l] \in {"swap", "restore"} => stranded'
    BY <1>12 DEF App!RestoreFails, App!Kill
  <2>3. App!TypeOK'
    BY <1>12, <2>2 DEF App!RestoreFails, App!Kill
  <2>4. UNCHANGED <<App!disk, App!stage>>
    BY <1>12 DEF App!RestoreFails, App!Kill
  <2>5. \A m \in Launch : step'[m] = "idle"
    BY <1>12, <2>1 DEF App!RestoreFails, App!Kill
  <2> QED BY <1>12, <2>2, <2>3, <2>4, <2>5 DEF App!RestoreFails, App!Kill
<1>13. CASE UNCHANGED App!vars
  BY <1>13 DEF App!vars
<1> QED
  BY <1>1, <1>2, <1>3, <1>4, <1>5, <1>6, <1>7, <1>8, <1>9, <1>10, <1>11,
     <1>12, <1>13
  DEF App!Next

\* When one launch at a time applies an update, a whole program is on the disk
\* whatever fails or is killed or cut short meanwhile, and it is in its place
\* when no launch is busy, unless one ended between its two renames, killed or
\* with its undoing failed as well (apply_on_launch, core/src/update/app.rs).
THEOREM ProgramStays ==
  ASSUME "together" \notin Races
  PROVE  App!Spec => []ProgramIsThere
<1>1. AppInv /\ [App!Next]_(App!vars) => AppInv'
  BY AppStep
<1>2. AppInv => ProgramIsThere
  BY DEF AppInv, ProgramIsThere
<1> QED BY <1>1, <1>2, InitApp, PTL DEF App!Spec

\* Launches that overlap and are killed anywhere: the variables keep their
\* types, and what is about to be recorded as pending is a whole archive.
LEMMA StagedStep ==
  ASSUME App!TypeOK, StagedWhole, [App!Next]_(App!vars)
  PROVE  App!TypeOK' /\ StagedWhole'
<1> USE DEF App!TypeOK, StagedWhole, App!Goes, App!Absent, App!Partial,
            App!Version, App!disk, App!stage, App!rest
<1> DEFINE Kept == App!TypeOK' /\ StagedWhole'
<1>1. CASE App!Publish
  BY <1>1 DEF App!Publish
<1>2. CASE App!StageArchive
  BY <1>2, ZenonT(60) DEF App!StageArchive
<1>3. CASE App!StageRecord
  BY <1>3 DEF App!StageRecord
<1>4. ASSUME NEW l \in Launch, App!Open(l) \/ App!Write(l) \/ App!Unlink(l)
      PROVE  Kept
  BY <1>4 DEF App!Open, App!Write, App!Unlink
<1>5. ASSUME NEW l \in Launch, App!Aside(l) PROVE Kept
  BY <1>5 DEF App!Aside
<1>6. ASSUME NEW l \in Launch, App!Swap(l) \/ App!SwapFails(l) PROVE Kept
  BY <1>6 DEF App!Swap, App!SwapFails
<1>7. ASSUME NEW l \in Launch, App!Restore(l) PROVE Kept
  BY <1>7 DEF App!Restore
<1>8. ASSUME NEW l \in Launch, App!RestoreFails(l) \/ App!Kill(l) PROVE Kept
  <2>1. stranded' \in BOOLEAN
    BY <1>8 DEF App!RestoreFails, App!Kill
  <2> QED BY <1>8, <2>1 DEF App!RestoreFails, App!Kill
<1>9. ASSUME NEW l \in Launch, App!Clean(l) \/ App!Clear(l) PROVE Kept
  BY <1>9 DEF App!Clean, App!Clear
<1>10. CASE UNCHANGED App!vars
  BY <1>10 DEF App!vars
<1> QED
  BY <1>1, <1>2, <1>3, <1>4, <1>5, <1>6, <1>7, <1>8, <1>9, <1>10 DEF App!Next

LEMMA AppType == App!Spec => []App!TypeOK
<1>1. App!Init => App!TypeOK /\ StagedWhole
  BY InitApp DEF AppInv
<1>2. /\ App!TypeOK /\ StagedWhole /\ [App!Next]_(App!vars)
      => (App!TypeOK /\ StagedWhole)'
  BY StagedStep
<1> QED BY <1>1, <1>2, PTL DEF App!Spec

----------------------------------------------------------------------------
(* The outbox. What begins before the offset is settled: it was given out, *)
(* is held by a drain that gives it, or is counted as lost. Every drain    *)
(* carries an offset of which that was true when it read it.               *)

Holding(e) == \E d \in Drain : drainPc[d] = "give" /\ e \in read[d]

Settled(e) == handed[e] > 0 \/ e \in lost \/ Holding(e)

\* What begins before this place is settled, if it is not among these.
SettledBefore(place, those) ==
  \A e \in Suggestions!Entry :
    Suggestions!Begun(e, place) => Settled(e) \/ e \in those

\* What a drain has read, or begins and is torn where it stopped reading.
Taken(d) == read[d] \cup Suggestions!Torn(end[d])

NothingDropped ==
  /\ SettledBefore(drained, {})
  /\ \A d \in Drain :
       /\ drainPc[d] = "open" => SettledBefore(end[d], {})
       /\ drainPc[d] \in {"save", "write"} => SettledBefore(end[d], Taken(d))

\* What begins before this place was given once, but for what is lost and for
\* these; the rest was not given, and neither lies nor is lost behind it.
GivenBefore(place, those) ==
  /\ \A e \in Suggestions!Entry :
       handed[e] = IF /\ Suggestions!Begun(e, place)
                      /\ e \notin lost /\ e \notin those
                   THEN 1 ELSE 0
  /\ \A e \in lost \cup those : Suggestions!Begun(e, place)

\* A drain is alone, and has what it has read still to give.
DrainingAlone ==
  \A d \in Drain : drainPc[d] # "idle" =>
    /\ \A f \in Drain : drainPc[f] # "idle" => f = d
    /\ drainPc[d] = "open" => end[d] = drained
    /\ drainPc[d] \in {"open", "save"} => GivenBefore(drained, {})
    /\ drainPc[d] \in {"save", "write"} =>
         /\ GivenBefore(end[d], Taken(d))
         /\ read[d] \cap (lost \cup Suggestions!Torn(end[d])) = {}
    /\ drainPc[d] = "give" =>
         GivenBefore(drained, read[d]) /\ read[d] \cap lost = {}

TakingTurns ==
  ~again => DrainingAlone /\ (Suggestions!Quiet => GivenBefore(drained, {}))

\* Offsets lie in the file.
InTheFile ==
  drained <= length /\ \A d \in Drain : end[d] <= length

OutboxInv ==
  Suggestions!TypeOK /\ InTheFile /\ NothingDropped /\ TakingTurns
LEMMA InitOutbox == Suggestions!Init => OutboxInv
<1> SUFFICES ASSUME Suggestions!Init PROVE OutboxInv
  OBVIOUS
<1>1. \A e \in Suggestions!Entry : ~Suggestions!Begun(e, 0)
  BY UpkeepAssumption DEF Suggestions!Entry, Suggestions!Begun
<1>2. 0 \in Suggestions!Size
  BY UpkeepAssumption DEF Suggestions!Size
<1>3. InTheFile
  BY DEF Suggestions!Init, InTheFile
<1>4. Suggestions!TypeOK
  <2>1. /\ length \in Suggestions!Size /\ drained \in Suggestions!Size
        /\ end \in [Drain -> Suggestions!Size]
    BY <1>2 DEF Suggestions!Init
  <2>2. /\ drainPc \in [Drain -> {"idle", "open", "save", "write", "give"}]
        /\ read \in [Drain -> SUBSET Suggestions!Entry]
    BY DEF Suggestions!Init
  <2>3. handed \in [Suggestions!Entry -> 0..2]
    BY DEF Suggestions!Init
  <2>4. lost \in SUBSET Suggestions!Entry /\ again \in BOOLEAN
    BY Zenon DEF Suggestions!Init
  <2> QED BY <2>1, <2>2, <2>3, <2>4 DEF Suggestions!TypeOK
<1> QED
  BY <1>1, <1>3, <1>4
  DEF Suggestions!Init, OutboxInv, NothingDropped, SettledBefore, TakingTurns,
      DrainingAlone, GivenBefore

\* A line that ends past an offset and begins before another is whole there,
\* or torn.
LEMMA WholeOrTorn ==
  ASSUME NEW from \in Nat, NEW to \in Nat, NEW e \in Suggestions!Entry,
         from <= to
  PROVE  /\ Suggestions!Begun(e, to) <=>
              \/ Suggestions!Begun(e, from)
              \/ e \in Suggestions!Whole(from, to)
              \/ from # to /\ e \in Suggestions!Torn(to)
         /\ e \in Suggestions!Whole(from, to) => ~Suggestions!Begun(e, from)
         /\ from # to /\ e \in Suggestions!Torn(to)
            => ~Suggestions!Begun(e, from)
<1>1. e \in Int
  BY DEF Suggestions!Entry
<1>2. e \in Suggestions!Whole(from, to) <=>
        from <= 3 * e - 3 /\ 3 * e - 1 <= to
  BY DEF Suggestions!Whole
<1>3. e \in Suggestions!Torn(to) <=> to = 3 * e - 2
  BY DEF Suggestions!Torn
<1> QED BY <1>1, <1>2, <1>3 DEF Suggestions!Begun

LEMMA OutboxTypeStep ==
  ASSUME Suggestions!TypeOK, [Suggestions!Next]_(Suggestions!vars)
  PROVE  Suggestions!TypeOK'
<1> USE UpkeepAssumption
    DEF Suggestions!TypeOK, Suggestions!Size, Suggestions!files,
        Suggestions!history
<1>1. CASE Suggestions!Emit
  BY <1>1 DEF Suggestions!Emit
<1>2. ASSUME NEW d \in Drain, Suggestions!Open(d) PROVE Suggestions!TypeOK'
  <2>1. again' \in BOOLEAN
    BY <1>2 DEF Suggestions!Open
  <2> QED BY <1>2, <2>1 DEF Suggestions!Open
<1>3. ASSUME NEW d \in Drain, Suggestions!Read(d) PROVE Suggestions!TypeOK'
  <2>1. Suggestions!Whole(end[d], length) \subseteq Suggestions!Entry
    BY DEF Suggestions!Whole
  <2> QED BY <1>3, <2>1 DEF Suggestions!Read
<1>4. ASSUME NEW d \in Drain, Suggestions!Truncate(d) PROVE Suggestions!TypeOK'
  BY <1>4 DEF Suggestions!Truncate
<1>5. ASSUME NEW d \in Drain, Suggestions!SaveOffset(d) PROVE Suggestions!TypeOK'
  <2>1. Suggestions!Torn(end[d]) \subseteq Suggestions!Entry
    BY DEF Suggestions!Torn
  <2> QED BY <1>5, <2>1 DEF Suggestions!SaveOffset
<1>6. ASSUME NEW d \in Drain, Suggestions!Give(d) \/ Suggestions!Finish(d)
      PROVE  Suggestions!TypeOK'
  BY <1>6 DEF Suggestions!Give, Suggestions!Finish
<1>7. ASSUME NEW d \in Drain, Suggestions!Crash(d) PROVE Suggestions!TypeOK'
  <2>1. again' \in BOOLEAN /\ lost' \in SUBSET Suggestions!Entry
    BY <1>7 DEF Suggestions!Crash
  <2> QED BY <1>7, <2>1 DEF Suggestions!Crash
<1>8. CASE UNCHANGED Suggestions!vars
  BY <1>8 DEF Suggestions!vars
<1> QED
  BY <1>1, <1>2, <1>3, <1>4, <1>5, <1>6, <1>7, <1>8 DEF Suggestions!Next

\* What is settled stays so: a drain that dies leaves what it held as lost.
LEMMA SettledStays ==
  ASSUME Suggestions!TypeOK, [Suggestions!Next]_(Suggestions!vars),
         NEW e \in Suggestions!Entry, Settled(e)
  PROVE  Settled(e)'
<1> USE DEF Suggestions!TypeOK, Settled, Holding, Suggestions!files,
            Suggestions!history
<1>1. CASE Suggestions!Emit
  BY <1>1 DEF Suggestions!Emit
<1>2. ASSUME NEW d \in Drain,
             \/ Suggestions!Open(d) \/ Suggestions!Read(d)
             \/ Suggestions!Truncate(d) \/ Suggestions!SaveOffset(d)
      PROVE  Settled(e)'
  BY <1>2
  DEF Suggestions!Open, Suggestions!Read, Suggestions!Truncate,
      Suggestions!SaveOffset
<1>3. ASSUME NEW d \in Drain, Suggestions!Give(d) PROVE Settled(e)'
  BY <1>3 DEF Suggestions!Give
<1>4. ASSUME NEW d \in Drain, Suggestions!Finish(d) PROVE Settled(e)'
  BY <1>4 DEF Suggestions!Finish
<1>5. ASSUME NEW d \in Drain, Suggestions!Crash(d) PROVE Settled(e)'
  BY <1>5 DEF Suggestions!Crash
<1>6. CASE UNCHANGED Suggestions!vars
  BY <1>6 DEF Suggestions!vars
<1> QED BY <1>1, <1>2, <1>3, <1>4, <1>5, <1>6 DEF Suggestions!Next

LEMMA NothingDroppedStep ==
  ASSUME Suggestions!TypeOK, InTheFile, NothingDropped,
         [Suggestions!Next]_(Suggestions!vars)
  PROVE  InTheFile' /\ NothingDropped'
<1> USE UpkeepAssumption
    DEF Suggestions!TypeOK, Suggestions!Size, InTheFile, NothingDropped,
        SettledBefore, Taken, Suggestions!files, Suggestions!history
<1> DEFINE Kept == InTheFile' /\ NothingDropped'
<1>0. \A e \in Suggestions!Entry : Settled(e) => Settled(e)'
  BY SettledStays
<1>1. CASE Suggestions!Emit
  BY <1>0, <1>1 DEF Suggestions!Emit
<1>2. ASSUME NEW d \in Drain, Suggestions!Open(d) PROVE Kept
  BY <1>0, <1>2 DEF Suggestions!Open
<1>3. ASSUME NEW d \in Drain, Suggestions!Read(d) PROVE Kept
  <2>1. \A e \in Suggestions!Entry :
          Suggestions!Begun(e, length) =>
            \/ Suggestions!Begun(e, end[d])
            \/ e \in Suggestions!Whole(end[d], length)
            \/ e \in Suggestions!Torn(length)
    BY <1>3, WholeOrTorn
  <2>2. SettledBefore(end[d], {})
    BY <1>3 DEF Suggestions!Read
  <2>3. InTheFile'
    BY <1>3 DEF Suggestions!Read
  <2>4. SettledBefore(end[d], Taken(d))'
    BY <1>0, <1>3, <2>1, <2>2 DEF Suggestions!Read
  <2> QED BY <1>0, <1>3, <2>3, <2>4 DEF Suggestions!Read
<1>4. ASSUME NEW d \in Drain, Suggestions!Truncate(d) PROVE Kept
  <2>1. \A e \in Suggestions!Entry : ~Suggestions!Begun(e, 0)
    BY DEF Suggestions!Entry, Suggestions!Begun
  <2> QED BY <1>0, <1>4, <2>1 DEF Suggestions!Truncate
<1>5. ASSUME NEW d \in Drain, Suggestions!SaveOffset(d) PROVE Kept
  <2>1. SettledBefore(end[d], Taken(d))
    BY <1>5 DEF Suggestions!SaveOffset
  <2>2. \A e \in Suggestions!Entry : e \in Taken(d) => Settled(e)'
    BY <1>5 DEF Suggestions!SaveOffset, Settled, Holding
  <2>3. SettledBefore(drained, {})'
    BY <1>0, <1>5, <2>1, <2>2 DEF Suggestions!SaveOffset
  <2> QED BY <1>0, <1>5, <2>3 DEF Suggestions!SaveOffset
<1>6. ASSUME NEW d \in Drain, Suggestions!Give(d) \/ Suggestions!Finish(d)
      PROVE  Kept
  BY <1>0, <1>6 DEF Suggestions!Give, Suggestions!Finish
<1>7. ASSUME NEW d \in Drain, Suggestions!Crash(d) PROVE Kept
  BY <1>0, <1>7 DEF Suggestions!Crash
<1>8. CASE UNCHANGED Suggestions!vars
  BY <1>0, <1>8 DEF Suggestions!vars
<1> QED
  BY <1>1, <1>2, <1>3, <1>4, <1>5, <1>6, <1>7, <1>8 DEF Suggestions!Next

LEMMA TakingTurnsStep ==
  ASSUME Suggestions!TypeOK, InTheFile, TakingTurns,
         [Suggestions!Next]_(Suggestions!vars), ~again'
  PROVE  DrainingAlone' /\ (Suggestions!Quiet => GivenBefore(drained, {}))'
<1> USE UpkeepAssumption
    DEF Suggestions!TypeOK, Suggestions!Size, InTheFile, Suggestions!files,
        Suggestions!history, Suggestions!Quiet, DrainingAlone, GivenBefore,
        Taken
<1> DEFINE Kept ==
      DrainingAlone' /\ (Suggestions!Quiet => GivenBefore(drained, {}))'
<1>0. ~again /\ DrainingAlone /\ (Suggestions!Quiet => GivenBefore(drained, {}))
  BY DEF TakingTurns, Suggestions!Next, Suggestions!vars, Suggestions!Emit,
         Suggestions!Open, Suggestions!Read, Suggestions!Truncate,
         Suggestions!SaveOffset, Suggestions!Give, Suggestions!Finish,
         Suggestions!Crash
<1>1. CASE Suggestions!Emit
  BY <1>0, <1>1 DEF Suggestions!Emit
<1>2. ASSUME NEW d \in Drain, Suggestions!Open(d) PROVE Kept
  <2>1. Suggestions!Quiet
    BY <1>2 DEF Suggestions!Open
  <2>2. GivenBefore(drained, {})
    BY <1>0, <2>1
  <2> QED BY <1>2, <2>1, <2>2 DEF Suggestions!Open
<1>3. ASSUME NEW d \in Drain, Suggestions!Read(d) PROVE Kept
  <2>1. /\ end[d] = drained /\ GivenBefore(drained, {})
        /\ \A f \in Drain : drainPc[f] # "idle" => f = d
    BY <1>0, <1>3 DEF Suggestions!Read
  <2>2. \A e \in Suggestions!Entry :
          /\ Suggestions!Begun(e, length) <=>
               \/ Suggestions!Begun(e, drained)
               \/ e \in Suggestions!Whole(drained, length)
               \/ drained # length /\ e \in Suggestions!Torn(length)
          /\ e \in Suggestions!Whole(drained, length)
             => ~Suggestions!Begun(e, drained)
          /\ drained # length /\ e \in Suggestions!Torn(length)
             => ~Suggestions!Begun(e, drained)
    BY WholeOrTorn
  <2>3. /\ Suggestions!Whole(drained, length) \subseteq Suggestions!Entry
        /\ Suggestions!Torn(length) \subseteq Suggestions!Entry
    BY DEF Suggestions!Whole, Suggestions!Torn
  <2>4. /\ Suggestions!Whole(drained, length) \cap lost = {}
        /\ Suggestions!Whole(drained, length)
             \cap Suggestions!Torn(length) = {}
    <3>1. \A e \in Suggestions!Whole(drained, length) : length # 3 * e - 2
      BY DEF Suggestions!Whole, Suggestions!Entry
    <3> QED BY <2>1, <2>2, <2>3, <3>1 DEF Suggestions!Torn
  <2>5. CASE drained = length
    <3>1. Suggestions!Whole(drained, length) = {}
      BY <2>2, <2>3, <2>5
    <3> QED BY <1>3, <2>1, <2>5, <3>1 DEF Suggestions!Read
  <2>6. CASE drained # length
    <3>1. GivenBefore(length, Suggestions!Whole(drained, length)
                                \cup Suggestions!Torn(length))
      BY <2>1, <2>2, <2>3, <2>6
    <3> QED BY <1>3, <2>1, <2>4, <2>6, <3>1 DEF Suggestions!Read
  <2> QED BY <2>5, <2>6
<1>4. ASSUME NEW d \in Drain, Suggestions!Truncate(d) PROVE Kept
  BY <1>0, <1>4 DEF Suggestions!Truncate
<1>5. ASSUME NEW d \in Drain, Suggestions!SaveOffset(d) PROVE Kept
  <2>1. /\ GivenBefore(end[d], Taken(d)) /\ read[d] \cap lost = {}
        /\ \A f \in Drain : drainPc[f] # "idle" => f = d
    BY <1>0, <1>5 DEF Suggestions!SaveOffset
  <2>2. /\ drained' = end[d] /\ lost' = lost \cup Suggestions!Torn(end[d])
        /\ UNCHANGED <<handed, read>>
    BY <1>5 DEF Suggestions!SaveOffset
  <2>3. read[d] \cap Suggestions!Torn(end[d]) = {}
    BY <1>0, <1>5 DEF Suggestions!SaveOffset
  <2>4. GivenBefore(drained, read[d])'
    BY <2>1, <2>2
  <2> QED BY <1>5, <2>1, <2>2, <2>3, <2>4 DEF Suggestions!SaveOffset
<1>6. ASSUME NEW d \in Drain, Suggestions!Give(d) PROVE Kept
  BY <1>0, <1>6 DEF Suggestions!Give
<1>7. ASSUME NEW d \in Drain, Suggestions!Finish(d) PROVE Kept
  BY <1>0, <1>7 DEF Suggestions!Finish
<1>8. ASSUME NEW d \in Drain, Suggestions!Crash(d) PROVE Kept
  <2>1. \A f \in Drain : drainPc[f] # "idle" => f = d
    BY <1>0, <1>8 DEF Suggestions!Crash
  <2>2. \A f \in Drain : drainPc'[f] = "idle"
    BY <1>8, <2>1 DEF Suggestions!Crash
  <2>3. drainPc[d] # "write" /\ UNCHANGED <<drained, handed>>
    BY <1>8 DEF Suggestions!Crash
  <2>4. CASE drainPc[d] = "give"
    <3>1. GivenBefore(drained, read[d]) /\ lost' = lost \cup read[d]
      BY <1>0, <1>8, <2>4 DEF Suggestions!Crash
    <3> QED BY <2>2, <2>3, <3>1
  <2>5. CASE drainPc[d] # "give"
    <3>1. GivenBefore(drained, {}) /\ lost' = lost
      BY <1>0, <1>8, <2>3, <2>5 DEF Suggestions!Crash
    <3> QED BY <2>2, <2>3, <3>1
  <2> QED BY <2>4, <2>5
<1>9. CASE UNCHANGED Suggestions!vars
  BY <1>0, <1>9 DEF Suggestions!vars
<1> QED
  BY <1>1, <1>2, <1>3, <1>4, <1>5, <1>6, <1>7, <1>8, <1>9
  DEF Suggestions!Next

\* However drains overlap, read half a line or die, what begins before the
\* offset was given to a harness, but for what a drain died with or read
\* half-written; and it was given exactly once, and the rest not at all, as long
\* as drains take turns and none dies while it writes the offset (outbox_drain,
\* core/src/outbox.rs).
THEOREM DrainGivesOnce == Suggestions!Spec => []GivenExactlyOnce
<1>1. OutboxInv /\ [Suggestions!Next]_(Suggestions!vars) => OutboxInv'
  BY OutboxTypeStep, NothingDroppedStep, TakingTurnsStep
  DEF OutboxInv, TakingTurns
<1>2. OutboxInv => GivenExactlyOnce
  BY DEF OutboxInv, NothingDropped, SettledBefore, Settled, Holding,
         TakingTurns, GivenBefore, Suggestions!TypeOK, Suggestions!Quiet,
         GivenExactlyOnce, Suggestions!GivenExactlyOnce
<1> QED BY <1>1, <1>2, InitOutbox, PTL DEF Suggestions!Spec

LEMMA OutboxType == Suggestions!Spec => []Suggestions!TypeOK
<1>1. Suggestions!Init => Suggestions!TypeOK
  BY InitOutbox DEF OutboxInv
<1>2. Suggestions!TypeOK /\ [Suggestions!Next]_(Suggestions!vars)
      => Suggestions!TypeOK'
  BY OutboxTypeStep
<1> QED BY <1>1, <1>2, PTL DEF Suggestions!Spec

----------------------------------------------------------------------------
(* The jobs of a session. What a job wrote is kept in memory and on disk,  *)
(* and the two are changed together: by the worker's files and tools and   *)
(* by the import fix. The audit looks at one, the user at the other.       *)

\* While a job runs, what it wrote is on disk, and nothing is recorded yet.
WritesOnDisk ==
  workPhase # "idle" =>
    /\ produced = Jobs!Nothing
    /\ \A p \in DOMAIN writes : workspace[At[p]] = writes[p]
    /\ workPhase = "persist" => Jobs!Wanting(writes) = {}

JobsInv == Jobs!TypeOK /\ WritesOnDisk /\ Jobs!ProducedIsThere

LEMMA NothingIsFiles ==
  /\ Jobs!Nothing \in Jobs!Files /\ DOMAIN Jobs!Nothing = {}
  /\ Jobs!Wanting(Jobs!Nothing) = {}
<1>1. DOMAIN Jobs!Nothing = {} /\ Jobs!Nothing \in [{} -> Jobs!Verdict]
  BY DEF Jobs!Nothing
<1> QED BY <1>1 DEF Jobs!Files, Jobs!Wanting

\* What is written is a function from some of the paths.
LEMMA FilesAreFunctions ==
  ASSUME NEW f
  PROVE  f \in Jobs!Files <=>
           DOMAIN f \subseteq Path /\ f \in [DOMAIN f -> Jobs!Verdict]
BY DEF Jobs!Files

LEMMA PutIsFiles ==
  ASSUME NEW f \in Jobs!Files, NEW p \in Path, NEW c \in Jobs!Verdict
  PROVE  /\ Jobs!Put(f, p, c) \in Jobs!Files
         /\ DOMAIN Jobs!Put(f, p, c) = DOMAIN f \cup {p}
         /\ Jobs!Put(f, p, c)[p] = c
         /\ \A q \in DOMAIN f : q # p => Jobs!Put(f, p, c)[q] = f[q]
BY FilesAreFunctions DEF Jobs!Put

LEMMA BentIsFiles ==
  ASSUME NEW f \in Jobs!Files
  PROVE  /\ Jobs!Bent(f) \in Jobs!Files /\ DOMAIN Jobs!Bent(f) = DOMAIN f
         /\ \A p \in DOMAIN f : Jobs!Bent(f)[p] \in {f[p], "sound"}
BY FilesAreFunctions DEF Jobs!Bent, Jobs!Verdict

LEMMA InitJobs == Jobs!Init => JobsInv
BY UpkeepAssumption, NothingIsFiles
DEF Jobs!Init, JobsInv, Jobs!TypeOK, WritesOnDisk, Jobs!ProducedIsThere

\* A file is written to its place on disk and to the list at once.
LEMMA WriteStep ==
  ASSUME Jobs!TypeOK, NEW p \in Path, NEW c \in Jobs!Verdict,
         Jobs!Write(p, c),
         \A q, r \in Path : At[q] = At[r] => q = r,
         \A q \in DOMAIN writes : workspace[At[q]] = writes[q]
  PROVE  /\ writes' \in Jobs!Files
         /\ workspace' \in [{At[q] : q \in Path} -> Jobs!Verdict \cup {NoContent}]
         /\ \A q \in DOMAIN writes' : workspace'[At[q]] = writes'[q]
<1>1. /\ writes \in Jobs!Files /\ writes' = Jobs!Put(writes, p, c)
      /\ workspace' = [workspace EXCEPT ![At[p]] = c]
  BY DEF Jobs!TypeOK, Jobs!Write
<1>2. /\ writes' \in Jobs!Files /\ DOMAIN writes' = DOMAIN writes \cup {p}
      /\ writes'[p] = c
      /\ \A q \in DOMAIN writes : q # p => writes'[q] = writes[q]
  BY <1>1, PutIsFiles
<1>3. DOMAIN writes \subseteq Path
  BY <1>1, FilesAreFunctions
<1> QED BY <1>1, <1>2, <1>3 DEF Jobs!TypeOK

\* The fix of imports changes in the list and on disk the same files.
LEMMA FixStep ==
  ASSUME JobsInv, Jobs!FixImports,
         \A q, r \in Path : At[q] = At[r] => q = r
  PROVE  JobsInv'
<1> DEFINE changed == {p \in DOMAIN writes : writes'[p] # writes[p]}
<1>1. /\ workPhase = "fix" /\ writes \in Jobs!Files
      /\ writes' = Jobs!Bent(writes)
      /\ UNCHANGED <<todo, report, lap>>
  BY DEF JobsInv, Jobs!TypeOK, Jobs!FixImports
<1>2. /\ writes' \in Jobs!Files /\ DOMAIN writes' = DOMAIN writes
      /\ \A p \in DOMAIN writes : writes'[p] \in {writes[p], "sound"}
      /\ DOMAIN writes \subseteq Path
  BY <1>1, BentIsFiles, FilesAreFunctions
<1>3. produced = Jobs!Nothing
      /\ \A p \in DOMAIN writes : workspace[At[p]] = writes[p]
  BY <1>1 DEF JobsInv, WritesOnDisk
<1>4. CASE /\ workPhase' = "audit" /\ UNCHANGED produced
           /\ workspace' = [l \in DOMAIN workspace |->
                IF \E p \in changed : At[p] = l THEN "sound" ELSE workspace[l]]
  <2>1. workspace' \in [{At[q] : q \in Path} -> Jobs!Verdict \cup {NoContent}]
    BY <1>4 DEF JobsInv, Jobs!TypeOK, Jobs!Verdict
  <2>2. ASSUME NEW p \in DOMAIN writes PROVE workspace'[At[p]] = writes'[p]
    <3>1. At[p] \in DOMAIN workspace
      BY <1>2 DEF JobsInv, Jobs!TypeOK
    <3>2. (\E q \in changed : At[q] = At[p]) <=> p \in changed
      BY <1>2
    <3> QED BY <1>2, <1>3, <1>4, <3>1, <3>2
  <2> QED
    BY <1>1, <1>2, <1>3, <1>4, <2>1, <2>2
    DEF JobsInv, Jobs!TypeOK, WritesOnDisk, Jobs!ProducedIsThere
<1>5. CASE Jobs!Fails /\ UNCHANGED workspace
  BY <1>1, <1>2, <1>5, NothingIsFiles
  DEF Jobs!Fails, JobsInv, Jobs!TypeOK, WritesOnDisk, Jobs!ProducedIsThere
<1> QED BY <1>4, <1>5 DEF Jobs!FixImports

LEMMA AuditStep == ASSUME JobsInv, Jobs!Audit PROVE JobsInv'
<1>1. /\ workPhase = "audit" /\ UNCHANGED <<writes, workspace>>
      /\ writes \in Jobs!Files
  BY DEF Jobs!Audit, JobsInv, Jobs!TypeOK
<1>2. DOMAIN writes \subseteq Path
  BY <1>1, FilesAreFunctions
<1>3. PICK found \in Jobs!Found, count \in 0..MaxFindings :
        \/ /\ found = {} /\ workPhase' = "persist" /\ todo' = {}
           /\ UNCHANGED <<report, lap, produced>>
        \/ Jobs!Fails /\ UNCHANGED <<todo, report, lap>>
        \/ /\ lap = 0 \/ lap < MaxLaps
           /\ workPhase' = "align" /\ todo' = Jobs!Scope(writes, found)
           /\ report' = count /\ lap' = lap + 1 /\ UNCHANGED produced
           /\ found # {}
  BY DEF Jobs!Audit
<1>4. found \subseteq Path /\ (found = {} => Jobs!Wanting(writes) = {})
  BY <1>2 DEF Jobs!Found, Jobs!Wanting
<1>5. CASE found = {} /\ workPhase' = "persist" /\ todo' = {}
           /\ UNCHANGED <<report, lap, produced>>
  BY <1>1, <1>4, <1>5
  DEF JobsInv, Jobs!TypeOK, WritesOnDisk, Jobs!ProducedIsThere
<1>6. CASE Jobs!Fails /\ UNCHANGED <<todo, report, lap>>
  BY <1>1, <1>6, NothingIsFiles
  DEF Jobs!Fails, JobsInv, Jobs!TypeOK, WritesOnDisk, Jobs!ProducedIsThere
<1>7. CASE /\ lap = 0 \/ lap < MaxLaps
           /\ workPhase' = "align" /\ todo' = Jobs!Scope(writes, found)
           /\ report' = count /\ lap' = lap + 1 /\ UNCHANGED produced
  BY <1>1, <1>4, <1>7, UpkeepAssumption
  DEF JobsInv, Jobs!TypeOK, WritesOnDisk, Jobs!ProducedIsThere, Jobs!Scope
<1> QED BY <1>3, <1>5, <1>6, <1>7

LEMMA JobsStep ==
  ASSUME "command" \notin WorkFaults,
         \A p, q \in Path : At[p] = At[q] => p = q,
         JobsInv, [Jobs!Next]_(Jobs!vars)
  PROVE  JobsInv'
<1> USE DEF JobsInv, Jobs!TypeOK, WritesOnDisk, Jobs!ProducedIsThere
<1>1. ASSUME NEW manifest \in (SUBSET Path) \ {{}}, Jobs!Start(manifest)
      PROVE  JobsInv'
  BY <1>1, NothingIsFiles, UpkeepAssumption DEF Jobs!Start
<1>2. ASSUME NEW p \in Path, NEW c \in Jobs!Verdict, Jobs!Build(p, c)
      PROVE  JobsInv'
  <2>1. CASE Jobs!Write(p, c)
    BY <1>2, <2>1, WriteStep DEF Jobs!Build
  <2>2. CASE UNCHANGED <<writes, workspace>>
    BY <1>2, <2>2 DEF Jobs!Build
  <2> QED BY <1>2, <2>1, <2>2 DEF Jobs!Build
<1>3. CASE Jobs!Written
  BY <1>3, NothingIsFiles DEF Jobs!Written, Jobs!Fails
<1>4. CASE Jobs!FixImports
  BY <1>4, FixStep
<1>5. CASE Jobs!Audit
  BY <1>5, AuditStep
<1>6. CASE Jobs!Persist
  BY <1>6 DEF Jobs!Persist
<1>7. ASSUME NEW p \in Path, NEW q \in Path, NEW c \in Jobs!Verdict,
             Jobs!Align(p, q, c)
      PROVE  JobsInv'
  <2>1. CASE Jobs!Write(q, c)
    BY <1>7, <2>1, WriteStep DEF Jobs!Align
  <2>2. CASE UNCHANGED <<writes, workspace>>
    BY <1>7, <2>2 DEF Jobs!Align
  <2> QED BY <1>7, <2>1, <2>2 DEF Jobs!Align
<1>8. CASE UNCHANGED Jobs!vars
  BY <1>8 DEF Jobs!vars
<1> QED
  BY <1>1, <1>2, <1>3, <1>4, <1>5, <1>6, <1>7, <1>8 DEF Jobs!Next

\* When no two paths name one file and no command of a job changes files, what
\* a job recorded is on disk as it was recorded and nothing in it was found
\* wanting, over any number of files, laps and tools and whatever the models
\* answer and the builds say (work_with_trace, mem/src/session.rs).
THEOREM JobsProduce ==
  ASSUME "command" \notin WorkFaults,
         \A p, q \in Path : At[p] = At[q] => p = q
  PROVE  Jobs!Spec => []ProducedIsThere
<1>1. JobsInv /\ [Jobs!Next]_(Jobs!vars) => JobsInv'
  BY JobsStep
<1>2. JobsInv => ProducedIsThere
  BY DEF JobsInv, ProducedIsThere
<1> QED BY <1>1, <1>2, InitJobs, PTL DEF Jobs!Spec

----------------------------------------------------------------------------
(* Jobs whose commands change files and whose paths meet on disk: the list *)
(* of what was written, which is what is audited and recorded, is theirs   *)
(* alone.                                                                  *)

AuditedInv ==
  /\ Jobs!TypeOK /\ Jobs!Wanting(produced) = {}
  /\ workPhase = "persist" => Jobs!Wanting(writes) = {}

LEMMA WriteTyped ==
  ASSUME Jobs!TypeOK, NEW p \in Path, NEW c \in Jobs!Verdict, Jobs!Write(p, c)
  PROVE  /\ writes' \in Jobs!Files
         /\ workspace' \in [{At[q] : q \in Path} -> Jobs!Verdict \cup {NoContent}]
<1>1. writes' \in Jobs!Files
  BY PutIsFiles DEF Jobs!TypeOK, Jobs!Write
<1> QED BY <1>1 DEF Jobs!TypeOK, Jobs!Write

\* How far a job is within a lap.
PhaseRank ==
  CASE workPhase \in {"build", "align"} -> 0
    [] workPhase = "fix" -> 1
    [] workPhase = "audit" -> 2
    [] workPhase = "persist" -> 3
    [] OTHER -> 4

\* A job under way begins another lap, or has one file fewer to write, or is
\* in a later phase of its lap, or is done.
JobAdvances ==
  workPhase # "idle" =>
    \/ lap' = lap + 1
    \/ /\ lap' = lap
       /\ \/ PhaseRank' > PhaseRank
          \/ /\ workPhase' = workPhase
             /\ \E p \in todo : todo' = todo \ {p}

LEMMA PhaseRanks ==
  ASSUME Jobs!TypeOK, Jobs!TypeOK'
  PROVE  /\ workPhase \in {"build", "align"} /\ workPhase' \in {"fix", "idle"}
              => PhaseRank' > PhaseRank
         /\ workPhase = "fix" /\ workPhase' \in {"audit", "idle"}
              => PhaseRank' > PhaseRank
         /\ workPhase = "audit" /\ workPhase' \in {"persist", "idle"}
              => PhaseRank' > PhaseRank
         /\ workPhase = "persist" /\ workPhase' = "idle"
              => PhaseRank' > PhaseRank
BY DEF PhaseRank, Jobs!TypeOK

LEMMA AuditedStep ==
  ASSUME AuditedInv, [Jobs!Next]_(Jobs!vars)
  PROVE  AuditedInv' /\ (JobAdvances \/ UNCHANGED Jobs!vars)
<1> USE DEF AuditedInv
<1> DEFINE Kept == AuditedInv' /\ (JobAdvances \/ UNCHANGED Jobs!vars)
<1>1. ASSUME NEW manifest \in (SUBSET Path) \ {{}}, Jobs!Start(manifest)
      PROVE  Kept
  BY <1>1, NothingIsFiles, UpkeepAssumption
  DEF Jobs!Start, Jobs!TypeOK, JobAdvances
<1>2. ASSUME NEW p \in todo,
             workPhase \in {"build", "align"}, workPhase' = workPhase,
             todo' = todo \ {p}, UNCHANGED <<report, lap, produced>>,
             writes' \in Jobs!Files,
             workspace' \in [{At[q] : q \in Path} -> Jobs!Verdict \cup {NoContent}]
      PROVE  Kept
  BY <1>2 DEF Jobs!TypeOK, JobAdvances
<1>3. ASSUME NEW p \in Path, NEW c \in Jobs!Verdict, Jobs!Build(p, c)
      PROVE  Kept
  <2>1. /\ writes' \in Jobs!Files
        /\ workspace' \in [{At[q] : q \in Path} -> Jobs!Verdict \cup {NoContent}]
    BY <1>3, WriteTyped DEF Jobs!Build, Jobs!TypeOK
  <2> QED BY <1>2, <1>3, <2>1 DEF Jobs!Build
<1>4. ASSUME NEW p \in Path, NEW q \in Path, NEW c \in Jobs!Verdict,
             Jobs!Align(p, q, c)
      PROVE  Kept
  <2>1. /\ writes' \in Jobs!Files
        /\ workspace' \in [{At[x] : x \in Path} -> Jobs!Verdict \cup {NoContent}]
    BY <1>4, WriteTyped DEF Jobs!Align, Jobs!TypeOK
  <2> QED BY <1>2, <1>4, <2>1 DEF Jobs!Align
<1>5. CASE Jobs!Written
  <2>1. AuditedInv'
    BY <1>5, NothingIsFiles DEF Jobs!Written, Jobs!Fails, Jobs!TypeOK
  <2>2. workPhase \in {"build", "align"} /\ workPhase' \in {"fix", "idle"}
        /\ lap' = lap
    BY <1>5 DEF Jobs!Written, Jobs!Fails
  <2> QED BY <2>1, <2>2, PhaseRanks DEF JobAdvances
<1>6. CASE Jobs!FixImports
  <2>1. /\ workPhase = "fix" /\ workPhase' \in {"audit", "idle"}
        /\ writes' = Jobs!Bent(writes) /\ UNCHANGED <<todo, report, lap>>
        /\ produced' \in {produced, Jobs!Nothing}
    BY <1>6 DEF Jobs!FixImports, Jobs!Fails
  <2>2. workspace' \in [{At[q] : q \in Path} -> Jobs!Verdict \cup {NoContent}]
    <3>1. CASE UNCHANGED workspace
      BY <3>1 DEF Jobs!TypeOK
    <3>2. CASE ~UNCHANGED workspace
      BY <1>6, <3>2 DEF Jobs!FixImports, Jobs!TypeOK, Jobs!Verdict
    <3> QED BY <3>1, <3>2
  <2>3. AuditedInv'
    BY <2>1, <2>2, BentIsFiles, NothingIsFiles DEF Jobs!TypeOK
  <2> QED BY <2>1, <2>3, PhaseRanks DEF JobAdvances
<1>7. CASE Jobs!Audit
  <2>1. /\ workPhase = "audit" /\ UNCHANGED <<writes, workspace>>
        /\ writes \in Jobs!Files
    BY <1>7 DEF Jobs!Audit, Jobs!TypeOK
  <2>2. DOMAIN writes \subseteq Path
    BY <2>1, FilesAreFunctions
  <2>3. PICK found \in Jobs!Found, count \in 0..MaxFindings :
          \/ /\ found = {} /\ workPhase' = "persist" /\ todo' = {}
             /\ UNCHANGED <<report, lap, produced>>
          \/ Jobs!Fails /\ UNCHANGED <<todo, report, lap>>
          \/ /\ lap = 0 \/ lap < MaxLaps
             /\ workPhase' = "align" /\ todo' = Jobs!Scope(writes, found)
             /\ report' = count /\ lap' = lap + 1 /\ UNCHANGED produced
    BY <1>7 DEF Jobs!Audit
  <2>4. found \subseteq Path /\ (found = {} => Jobs!Wanting(writes) = {})
    BY <2>2 DEF Jobs!Found, Jobs!Wanting
  <2>5. CASE found = {} /\ workPhase' = "persist" /\ todo' = {}
             /\ UNCHANGED <<report, lap, produced>>
    <3>1. AuditedInv'
      BY <2>1, <2>4, <2>5 DEF Jobs!TypeOK
    <3> QED BY <2>1, <2>5, <3>1, PhaseRanks DEF JobAdvances
  <2>6. CASE Jobs!Fails /\ UNCHANGED <<todo, report, lap>>
    <3>1. AuditedInv'
      BY <2>1, <2>6, NothingIsFiles DEF Jobs!Fails, Jobs!TypeOK
    <3> QED BY <2>1, <2>6, <3>1, PhaseRanks DEF JobAdvances, Jobs!Fails
  <2>7. CASE /\ lap = 0 \/ lap < MaxLaps
             /\ workPhase' = "align" /\ todo' = Jobs!Scope(writes, found)
             /\ report' = count /\ lap' = lap + 1 /\ UNCHANGED produced
    BY <2>1, <2>4, <2>7, UpkeepAssumption
    DEF Jobs!TypeOK, Jobs!Scope, JobAdvances
  <2> QED BY <2>3, <2>5, <2>6, <2>7
<1>8. CASE Jobs!Persist
  <2>1. AuditedInv'
    BY <1>8 DEF Jobs!Persist, Jobs!TypeOK
  <2>2. workPhase = "persist" /\ workPhase' = "idle" /\ lap' = lap
    BY <1>8 DEF Jobs!Persist
  <2> QED BY <2>1, <2>2, PhaseRanks DEF JobAdvances
<1>9. CASE UNCHANGED Jobs!vars
  BY <1>9 DEF Jobs!vars, Jobs!TypeOK
<1> QED
  BY <1>1, <1>3, <1>4, <1>5, <1>6, <1>7, <1>8, <1>9 DEF Jobs!Next

LEMMA InitAudited == Jobs!Init => AuditedInv
BY InitJobs DEF Jobs!Init, JobsInv, Jobs!ProducedIsThere, AuditedInv

\* Whatever the commands of a job do to the files and wherever paths meet, the
\* list of files that a job records was found in want of nothing as it was
\* recorded; that the files are so on disk needs the other assumptions
\* (work_with_trace, mem/src/session.rs).
THEOREM RecordedWasAudited == Jobs!Spec => [](Jobs!Wanting(produced) = {})
<1>1. AuditedInv /\ [Jobs!Next]_(Jobs!vars) => AuditedInv'
  BY AuditedStep
<1>2. AuditedInv => Jobs!Wanting(produced) = {}
  BY DEF AuditedInv
<1> QED BY <1>1, <1>2, InitAudited, PTL DEF Jobs!Spec

\* A job ends: with at most MaxLaps laps, every step of it begins the next lap
\* or brings the lap nearer to its end, whatever the models answer and the
\* audits find (the repair laps of work_with_trace, mem/src/session.rs).
THEOREM JobsEnd ==
  Jobs!Spec => [](lap <= MaxLaps) /\ [][JobAdvances]_(Jobs!vars)
<1>1. AuditedInv /\ [Jobs!Next]_(Jobs!vars)
      => AuditedInv' /\ [JobAdvances]_(Jobs!vars)
  BY AuditedStep
<1>2. AuditedInv => lap <= MaxLaps
  BY UpkeepAssumption DEF AuditedInv, Jobs!TypeOK
<1> QED BY <1>1, <1>2, InitAudited, PTL DEF Jobs!Spec

LEMMA JobsType == Jobs!Spec => []Jobs!TypeOK
<1>1. AuditedInv /\ [Jobs!Next]_(Jobs!vars) => AuditedInv'
  BY AuditedStep
<1>2. AuditedInv => Jobs!TypeOK
  BY DEF AuditedInv
<1> QED BY <1>1, <1>2, InitAudited, PTL DEF Jobs!Spec
=============================================================================
