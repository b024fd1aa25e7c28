----------------------------- MODULE WarmIndex -----------------------------
(***************************************************************************)
(* The search index the kernel keeps in memory (kernel/src/state.rs, over  *)
(* core/src/retrieval.rs): loaded from a snapshot or built by the first    *)
(* search, extended by what the capture threads record, reconciled with    *)
(* the store by a search that finds it incomplete or older than its time   *)
(* to live, and written to its snapshot when the kernel is shut down.      *)
(*                                                                         *)
(* A record is content a search can find. The store is written, collected  *)
(* and quarantined by other processes too. Each operation on the index     *)
(* holds its mutex, and is one step.                                       *)
(***************************************************************************)
EXTENDS FiniteSets

CONSTANTS
  Record,       \* the records there may be
  NoIndex,      \* no index in memory, no snapshot on disk
  Errors        \* start: the first reconciliation may fail; append: a
                \* captured record may not be added

VARIABLES
  store,        \* the records in the scope of a search (scope_all)
  quarantine,   \* the quarantined ones
  snapshot,     \* index-snapshot.json: the entries, or NoIndex
  up,           \* the kernel runs
  index,        \* the entries in memory, or NoIndex
  complete,     \* Index.complete
  expired,      \* the time to live has passed since Index.built_at
  captured,     \* recorded by a capture thread, not yet handed to the index
  unseen,       \* history: what a complete index has not been given since it
                \* was last reconciled
  found         \* what the last search ranked, or NoIndex

world == <<store, quarantine>>
memory == <<index, complete, expired, captured>>
vars == <<world, snapshot, up, memory, unseen, found>>

Init ==
  /\ store = {} /\ quarantine = {} /\ snapshot = NoIndex
  /\ up = FALSE
  /\ index = NoIndex /\ complete = FALSE /\ expired = FALSE /\ captured = {}
  /\ unseen = {} /\ found = NoIndex

Entries == {NoIndex} \cup SUBSET Record

TypeOK ==
  /\ store \subseteq Record /\ quarantine \subseteq Record
  /\ snapshot \in Entries /\ index \in Entries /\ found \in Entries
  /\ up \in BOOLEAN /\ complete \in BOOLEAN /\ expired \in BOOLEAN
  /\ captured \subseteq Record /\ unseen \subseteq Record

----------------------------------------------------------------------------
(* The store, as other processes and the capture threads change it.        *)

\* A complete index is not told of these records.
NotTold(rs) == unseen' = IF complete THEN unseen \cup rs ELSE unseen

\* A record is written by the GUI, the CLI, an agent or a chat.
Put(r) ==
  /\ r \notin store
  /\ store' = store \cup {r}
  /\ NotTold({r})
  /\ found' = NoIndex
  /\ UNCHANGED <<quarantine, snapshot, up, memory>>

\* A record is written by a capture thread of the kernel.
Capture(r) ==
  /\ up /\ r \notin store
  /\ store' = store \cup {r}
  /\ captured' = captured \cup {r}
  /\ found' = NoIndex
  /\ UNCHANGED <<quarantine, snapshot, up, index, complete, expired, unseen>>

\* A record is collected, or leaves the scope with the name it had.
Prune(r) ==
  /\ r \in store
  /\ store' = store \ {r}
  /\ found' = NoIndex
  /\ UNCHANGED <<quarantine, snapshot, up, memory, unseen>>

Quarantine(r) ==
  /\ r \notin quarantine
  /\ quarantine' = quarantine \cup {r}
  /\ found' = NoIndex
  /\ UNCHANGED <<store, snapshot, up, memory, unseen>>

Release(r) ==
  /\ r \in quarantine
  /\ quarantine' = quarantine \ {r}
  /\ NotTold({r})
  /\ found' = NoIndex
  /\ UNCHANGED <<store, snapshot, up, memory>>

----------------------------------------------------------------------------
(* The index.                                                              *)

Indexable(rs) == (rs \cap store) \ quarantine

\* What an index becomes that is reconciled with the store.
Reconciled(entries) == entries \cup Indexable(store)

\* warm_index_from_snapshot: an error of the reconciliation is dropped.
Start ==
  /\ ~up /\ up' = TRUE
  /\ \E fails \in {FALSE} \cup ({TRUE} \cap {"start" \in Errors}) :
       /\ index' = IF snapshot = NoIndex THEN NoIndex
                   ELSE IF fails THEN snapshot ELSE Reconciled(snapshot)
  /\ complete' = (snapshot # NoIndex)
  /\ expired' = FALSE /\ unseen' = {} /\ found' = NoIndex
  /\ UNCHANGED <<world, snapshot, captured>>

\* A slip: an index that only appends have filled is taken for complete.
AppendCompletes ==
  /\ up /\ captured # {}
  /\ LET entries == IF index # NoIndex THEN index
                    ELSE IF snapshot # NoIndex THEN snapshot ELSE {}
         added == Indexable(captured) \ entries
     IN  /\ index' = entries \cup added
         /\ expired' = (expired /\ added = {})
  /\ complete' = TRUE
  /\ captured' = {} /\ found' = NoIndex
  /\ UNCHANGED <<world, snapshot, up, unseen>>

\* append_index_records: the first append to a missing index loads the
\* snapshot or starts an empty one, which a search will still complete; one
\* that adds an entry renews the index's age.
Append ==
  /\ up /\ captured # {}
  /\ LET entries == IF index # NoIndex THEN index
                    ELSE IF snapshot # NoIndex THEN snapshot ELSE {}
         added == Indexable(captured) \ entries
     IN  /\ index' = entries \cup added
         /\ expired' = (expired /\ added = {})
  /\ complete' = (complete /\ index # NoIndex)
  /\ captured' = {} /\ found' = NoIndex
  /\ UNCHANGED <<world, snapshot, up, unseen>>

\* The records cannot be read: nothing is added, and nobody tries again.
AppendFails ==
  /\ "append" \in Errors
  /\ up /\ captured # {}
  /\ index' = IF index # NoIndex THEN index
              ELSE IF snapshot # NoIndex THEN snapshot ELSE {}
  /\ complete' = (complete /\ index # NoIndex)
  /\ NotTold(captured)
  /\ captured' = {} /\ found' = NoIndex
  /\ UNCHANGED <<world, snapshot, up, expired>>

\* The time to live passes.
Expire ==
  /\ up /\ index # NoIndex /\ ~expired
  /\ expired' = TRUE
  /\ UNCHANGED <<world, snapshot, up, index, complete, captured, unseen, found>>

\* prepare_index_for_search, and what the search then ranks. A store without
\* names is not searched.
Search ==
  /\ up /\ store # {}
  /\ index' = IF index # NoIndex
              THEN IF expired \/ ~complete THEN Reconciled(index) ELSE index
              ELSE Reconciled(IF snapshot = NoIndex THEN {} ELSE snapshot)
  /\ found' = index'
  /\ IF index # NoIndex /\ ~expired /\ complete
     THEN UNCHANGED <<complete, expired, unseen>>
     ELSE complete' = TRUE /\ expired' = FALSE /\ unseen' = {}
  /\ UNCHANGED <<world, snapshot, up, captured>>

\* save_index_snapshot, on a shutdown by a signal.
Shutdown ==
  /\ up /\ up' = FALSE
  /\ snapshot' = IF index = NoIndex THEN snapshot ELSE index
  /\ index' = NoIndex /\ complete' = FALSE /\ expired' = FALSE
  /\ captured' = {} /\ unseen' = {} /\ found' = NoIndex
  /\ UNCHANGED world

Crash ==
  /\ up /\ up' = FALSE
  /\ index' = NoIndex /\ complete' = FALSE /\ expired' = FALSE
  /\ captured' = {} /\ unseen' = {} /\ found' = NoIndex
  /\ UNCHANGED <<world, snapshot>>

Next ==
  \/ \E r \in Record : \/ Put(r) \/ Capture(r) \/ Prune(r)
                       \/ Quarantine(r) \/ Release(r)
  \/ Start \/ Append \/ AppendFails \/ Expire \/ Search \/ Shutdown \/ Crash

Spec == Init /\ [][Next]_vars
----------------------------------------------------------------------------
\* A search ranks every record of the store that is not quarantined, whatever
\* order snapshot, captures, restarts and searches come in; only what was put
\* in the store behind a complete index's back, or is about to be handed to
\* it, may be missing until the index is next reconciled.
SearchFindsTheStore ==
  found # NoIndex => Indexable(store) \subseteq found \cup unseen \cup captured

\* A quarantined record is withheld from searches.
WithheldFromSearch == found # NoIndex => found \cap quarantine = {}
============================================================================
