------------------------------- MODULE Egress -------------------------------
(***************************************************************************)
(* What may leave the device (core/src/egress.rs, core/src/security.rs).   *)
(* A plan of a publication is built for review; when the user confirms it  *)
(* the plan is built again under the policy lock, must be the same, and    *)
(* leaves if nothing blocks it or if a grant, minted with the password for *)
(* exactly this plan, is consumed. Locks and clearances are written under  *)
(* the same lock; the quarantine and the receipts are read without it.     *)
(*                                                                         *)
(* Signatures, passwords, expiry times, names and sensitivity warnings are *)
(* left out; two records of one root in the registry may carry the same    *)
(* time, so that its digest is its content.                                *)
(***************************************************************************)
EXTENDS Integers, FiniteSets

CONSTANTS
  Session,      \* the processes that publish, each a session
  Root,         \* the roots that are locked
  Public,       \* those that are cleared and published
  Reach,        \* the blocks reached from a root
  MaxReceipts,  \* bound: the publications of a root
  MaxGrants,    \* bound: the grants that wait
  None

VARIABLES
  registry,     \* locks.json
  quarantine,   \* quarantine.json
  receipts,     \* how often each root was published
  review,       \* the plan each session has shown its user
  grants,       \* unlock-grants/: who minted it, for which plan
  guard,        \* who holds the policy lock
  sending       \* the plan each session is carrying out

disk == <<registry, quarantine, receipts, grants>>
vars == <<disk, review, guard, sending>>

Block == UNION {Reach[r] : r \in Root \cup Public}
Registry == [locks : SUBSET Root, cleared : SUBSET Public]
Plan == [root : Public, registry : Registry, receipts : 0..MaxReceipts,
         hits : SUBSET Root, fenced : BOOLEAN, flagged : SUBSET Block]

Init ==
  /\ registry = [locks |-> {}, cleared |-> {}]
  /\ quarantine = {} /\ receipts = [r \in Public |-> 0]
  /\ review = [s \in Session |-> None]
  /\ grants = {} /\ guard = None
  /\ sending = [s \in Session |-> None]

TypeOK ==
  /\ registry \in Registry /\ quarantine \subseteq Block
  /\ receipts \in [Public -> 0..MaxReceipts]
  /\ review \in [Session -> Plan \cup {None}]
  /\ grants \subseteq [by : Session, plan : Plan]
  /\ guard \in Session \cup {None}
  /\ sending \in [Session -> [plan : Plan, granted : BOOLEAN] \cup {None}]

----------------------------------------------------------------------------
\* The locked roots whose subgraph meets the one to leave.
Hits(r) == {l \in registry.locks : Reach[l] \cap Reach[r] # {}}
\* Private by default: neither cleared nor public already.
Fenced(r) == r \notin registry.cleared /\ receipts[r] = 0

\* build_egress_plan_internal
PlanFor(r) ==
  [root |-> r, registry |-> registry, receipts |-> receipts[r],
   hits |-> Hits(r), fenced |-> Fenced(r), flagged |-> Reach[r] \cap quarantine]

Blocked(p) == p.hits # {} \/ p.fenced \/ p.flagged # {}

Review(s, r) ==
  /\ sending[s] = None
  /\ review' = [review EXCEPT ![s] = PlanFor(r)]
  /\ UNCHANGED <<disk, guard, sending>>

\* The registry is written under the policy lock.
Write(reg) ==
  /\ guard = None
  /\ registry' = reg
  /\ UNCHANGED <<quarantine, receipts, review, grants, guard, sending>>

\* A slip: a lock is written without the policy lock.
LockUnguarded(r) ==
  /\ registry' = [registry EXCEPT !.locks = @ \cup {r}]
  /\ UNCHANGED <<quarantine, receipts, review, grants, guard, sending>>

LockSubgraph(r) == Write([registry EXCEPT !.locks = @ \cup {r}])
UnlockSubgraph(r) == r \in registry.locks /\
  Write([registry EXCEPT !.locks = @ \ {r}])
ClearForEgress(r) == Write([registry EXCEPT !.cleared = @ \cup {r}])
Refence(r) == r \in registry.cleared /\
  Write([registry EXCEPT !.cleared = @ \ {r}])

\* quarantine_cid, release_cid: no lock.
Quarantine(b) ==
  /\ quarantine' = IF b \in quarantine THEN quarantine \ {b}
                                       ELSE quarantine \cup {b}
  /\ UNCHANGED <<registry, receipts, review, grants, guard, sending>>

\* create_publish_grant: the reviewed plan is still what would be built.
CreatePublishGrant(s) ==
  /\ guard = None
  /\ review[s] # None /\ review[s] = PlanFor(review[s].root)
  /\ Blocked(review[s]) /\ Cardinality(grants) < MaxGrants
  /\ grants' = grants \cup {[by |-> s, plan |-> review[s]]}
  /\ UNCHANGED <<registry, quarantine, receipts, review, guard, sending>>

Starts(s, granted) ==
  /\ guard = None /\ guard' = s
  /\ review[s] # None /\ review[s] = PlanFor(review[s].root)
  /\ receipts[review[s].root] < MaxReceipts
  /\ sending' = [sending EXCEPT ![s] = [plan |-> review[s], granted |-> granted]]
  /\ UNCHANGED <<registry, quarantine, receipts, review>>

\* execute_approved_egress: nothing blocks the plan.
ExecuteClear(s) ==
  Starts(s, FALSE) /\ ~Blocked(review[s]) /\ UNCHANGED grants

\* Or a grant for this very plan is consumed; reading the grants deletes those
\* of other sessions.
ExecuteGranted(s) ==
  /\ Starts(s, TRUE)
  /\ [by |-> s, plan |-> review[s]] \in grants
  /\ grants' = {g \in grants : g.by = s /\ g.plan # review[s]}

\* The plan is blocked and no grant matches.
ExecuteRefused(s) ==
  /\ guard = None
  /\ review[s] # None /\ review[s] = PlanFor(review[s].root)
  /\ Blocked(review[s])
  /\ [by |-> s, plan |-> review[s]] \notin grants
  /\ grants' = {g \in grants : g.by = s}
  /\ UNCHANGED <<registry, quarantine, receipts, review, guard, sending>>

\* The publication ends, and is recorded if it succeeded.
Ends(s) == guard' = None /\ sending' = [sending EXCEPT ![s] = None]

Publish(s) ==
  /\ sending[s] # None /\ Ends(s)
  /\ receipts' = [receipts EXCEPT ![sending[s].plan.root] = @ + 1]
  /\ review' = [review EXCEPT ![s] = None]
  /\ UNCHANGED <<registry, quarantine, grants>>

PublishFails(s) ==
  sending[s] # None /\ Ends(s) /\ UNCHANGED <<disk, review>>

\* A session ends and another starts. Nobody can use what the first was granted;
\* the server of the GUI deletes all grants as it starts, under the policy lock.
Restart(s) ==
  /\ IF guard = s THEN Ends(s) ELSE UNCHANGED <<guard, sending>>
  /\ review' = [review EXCEPT ![s] = None]
  /\ \/ grants' = {g \in grants : g.by # s}
     \/ guard \in {None, s} /\ grants' = {}
  /\ UNCHANGED <<registry, quarantine, receipts>>

Next ==
  \/ \E r \in Root : LockSubgraph(r) \/ UnlockSubgraph(r)
  \/ \E r \in Public : ClearForEgress(r) \/ Refence(r)
  \/ \E b \in Block : Quarantine(b)
  \/ \E s \in Session :
       \/ \E r \in Public : Review(s, r)
       \/ CreatePublishGrant(s) \/ ExecuteClear(s) \/ ExecuteGranted(s)
       \/ ExecuteRefused(s) \/ Publish(s) \/ PublishFails(s) \/ Restart(s)

Spec == Init /\ [][Next]_vars

----------------------------------------------------------------------------
\* Whatever locks, clearances and reviews come and go meanwhile, a plan that is
\* carried out meets no lock and is not fenced as long as it is carried out, or
\* it was granted for exactly these locks.
FencedLeavesByGrant ==
  \A s \in Session : sending[s] # None =>
    LET p == sending[s].plan
    IN  \/ Hits(p.root) = {} /\ ~Fenced(p.root)
        \/ sending[s].granted /\ p.hits = Hits(p.root)
=============================================================================
