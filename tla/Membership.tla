----------------------------- MODULE Membership -----------------------------
(***************************************************************************)
(* Who is a member of a network, on the install that holds its root key:   *)
(* devices join by pairing (core/src/pairing.rs) or by a grant and are cut *)
(* off by a revocation (core/src/revocation.rs). A certificate verifies if *)
(* it is of the descriptor's epoch and its subject is not in the ledger    *)
(* (core/src/membership.rs); signatures, expiry and scopes are left out.   *)
(*                                                                         *)
(* Pairings run under the policy lock, a file lock that a dead process     *)
(* gives up; revocations read and write the same files without it.         *)
(***************************************************************************)
EXTENDS Integers

CONSTANTS
  Admin,        \* the threads and processes of the install
  Subject,      \* the devices that may become members
  Offer,        \* the pairing offers ever minted
  MaxEpoch,     \* bound: the membership epochs
  None,         \* no admin
  Overlaps      \* revokes: two revocations at once; crash: an admin ends

VARIABLES
  epoch,        \* the epoch of the network's descriptor
  ledger,       \* the subjects of the revocation records
  pending,      \* the offers on disk
  consumed,     \* consumed.json
  lock,         \* who holds the policy lock
  pc, mine,     \* where each admin stands and what it has read
  certs,        \* history: the certificates issued
  given,        \* history: how many grants each offer gave
  revoked       \* history: the subjects whose revocation returned

history == <<certs, given, revoked>>
disk == <<epoch, ledger, pending, consumed>>
vars == <<disk, lock, pc, mine, history>>

Cert == [subject : Subject, epoch : 1..MaxEpoch]
Work == [offer : Offer, subject : Subject, epoch : 1..MaxEpoch,
         ledger : SUBSET Subject]

Init ==
  /\ epoch = 1 /\ ledger = {} /\ pending = {} /\ consumed = {} /\ lock = None
  /\ pc = [a \in Admin |-> "idle"]
  /\ mine = [a \in Admin |-> CHOOSE w \in Work : w.epoch = 1 /\ w.ledger = {}]
  /\ certs = {} /\ given = [o \in Offer |-> 0] /\ revoked = {}

TypeOK ==
  /\ epoch \in 1..MaxEpoch /\ ledger \subseteq Subject
  /\ pending \subseteq Offer /\ consumed \subseteq Offer
  /\ lock \in Admin \cup {None}
  /\ pc \in [Admin -> {"idle", "consume", "drop", "ledger", "descriptor"}]
  /\ mine \in [Admin -> Work]
  /\ certs \subseteq Cert /\ given \in [Offer -> Nat]
  /\ revoked \subseteq Subject

Goes(a, from, to) == pc[a] = from /\ pc' = [pc EXCEPT ![a] = to]

----------------------------------------------------------------------------
\* An offer has a fresh random id.
CreatePairingOffer(o) ==
  /\ o \notin pending \cup consumed
  /\ pending' = pending \cup {o}
  /\ UNCHANGED <<epoch, ledger, consumed, lock, pc, mine, history>>

\* A slip: the offer is looked up before the lock is taken.
PairUnlocked(a, o, s) ==
  /\ o \in pending \ consumed
  /\ Goes(a, "idle", "consume")
  /\ mine' = [mine EXCEPT ![a].offer = o, ![a].subject = s, ![a].epoch = epoch]
  /\ UNCHANGED <<disk, lock, history>>

\* complete_pairing: under the lock, the offer is pending and not used, the
\* response of device s matches it and the descriptor is read.
PairBegin(a, o, s) ==
  /\ lock = None /\ lock' = a
  /\ o \in pending \ consumed
  /\ Goes(a, "idle", "consume")
  /\ mine' = [mine EXCEPT ![a].offer = o, ![a].subject = s, ![a].epoch = epoch]
  /\ UNCHANGED <<disk, history>>

PairConsume(a) ==
  /\ Goes(a, "consume", "drop")
  /\ consumed' = consumed \cup {mine[a].offer}
  /\ UNCHANGED <<epoch, ledger, pending, lock, mine, history>>

Issue(a) == [subject |-> mine[a].subject, epoch |-> mine[a].epoch]

\* The offer is deleted, the lock given up and the grant handed out.
PairGive(a) ==
  /\ Goes(a, "drop", "idle")
  /\ pending' = pending \ {mine[a].offer}
  /\ lock' = None
  /\ certs' = certs \cup {Issue(a)}
  /\ given' = [given EXCEPT ![mine[a].offer] = @ + 1]
  /\ UNCHANGED <<epoch, ledger, consumed, mine, revoked>>

\* grant_capability: a certificate of the current epoch for a subject that no
\* record revokes.
GrantCapability(s) ==
  /\ s \notin ledger
  /\ certs' = certs \cup {[subject |-> s, epoch |-> epoch]}
  /\ UNCHANGED <<disk, lock, pc, mine, given, revoked>>

\* revoke: descriptor and ledger are read, one after the other.
RevokeBegin(a, s) ==
  /\ \/ "revokes" \in Overlaps
     \/ \A b \in Admin : pc[b] \notin {"ledger", "descriptor"}
  /\ epoch < MaxEpoch
  /\ Goes(a, "idle", "ledger")
  /\ mine' = [mine EXCEPT ![a].subject = s, ![a].epoch = epoch + 1,
                          ![a].ledger = ledger \cup {s}]
  /\ UNCHANGED <<disk, lock, history>>

RevokeRecord(a) ==
  /\ Goes(a, "ledger", "descriptor")
  /\ ledger' = mine[a].ledger
  /\ UNCHANGED <<epoch, pending, consumed, lock, mine, history>>

RevokeAdvance(a) ==
  /\ Goes(a, "descriptor", "idle")
  /\ epoch' = mine[a].epoch
  /\ revoked' = revoked \cup {mine[a].subject}
  /\ UNCHANGED <<ledger, pending, consumed, lock, mine, certs, given>>

Crash(a) ==
  /\ "crash" \in Overlaps /\ pc[a] # "idle"
  /\ pc' = [pc EXCEPT ![a] = "idle"]
  /\ lock' = IF lock = a THEN None ELSE lock
  /\ UNCHANGED <<disk, mine, history>>

Next ==
  \/ \E o \in Offer : CreatePairingOffer(o)
  \/ \E s \in Subject : GrantCapability(s)
  \/ \E a \in Admin :
       \/ \E o \in Offer, s \in Subject : PairBegin(a, o, s)
       \/ PairConsume(a) \/ PairGive(a)
       \/ \E s \in Subject : RevokeBegin(a, s)
       \/ RevokeRecord(a) \/ RevokeAdvance(a) \/ Crash(a)

Spec == Init /\ [][Next]_vars

\* A slip: the certificate's epoch alone decides.
VerifiesByEpoch(cert) == cert.epoch = epoch

\* verify_membership with the set that revocation_set builds.
Verifies(cert) == cert.epoch = epoch /\ cert.subject \notin ledger

----------------------------------------------------------------------------
\* An offer lets one device in, whoever answers it, however often its response
\* is replayed, with a pairing in another process or a crash in between.
OfferGivesOnce == \A o \in Offer : given[o] <= 1

\* A revocation that returned holds: no certificate of the subject verifies,
\* not one issued by a pairing that was under way, nor by a later one.
RevokedStaysOut ==
  \A cert \in certs : cert.subject \in revoked => ~Verifies(cert)

\* A revocation that returned is in the ledger.
RevocationRecorded == revoked \subseteq ledger
=============================================================================
