------------------------------- MODULE HotPins -------------------------------
(***************************************************************************)
(* Records kept hot on the user's own private IPFS node: pin_record with   *)
(* the service "node", unpin_hot, the list hot-pins.json, and the Sidekick *)
(* that starts and stops the node (src/crates/core/src/binding/pinning.rs, *)
(* src/crates/core/src/node.rs, encrypt_subgraph_for_pin of                *)
(* src/crates/core/src/private.rs). A private record is encrypted under    *)
(* fresh keys each time it is pinned, so its ciphertext has a new CID. The *)
(* list is read, changed and written without a lock. The node is a process *)
(* of its own that may die at any time; a command may fail at each step.   *)
(***************************************************************************)
EXTENDS Naturals, FiniteSets

CONSTANTS
  Caller,    \* the requests of the GUI and the commands that run
  Record,
  MaxCopies, \* bound on the ciphertexts made
  Overlaps   \* "together": may callers overlap? "kill": may they be killed, or
             \* the write of the list fail?

VARIABLES
  enabled,   \* the flag sidekick-enabled
  running,   \* is the node up?
  pinned,    \* what the node has pinned
  listed,    \* hot-pins.json
  copies,    \* the ciphertexts made
  call       \* call[c]: what c does

node == <<enabled, running>>
vars == <<node, pinned, listed, copies, call>>

\* The plaintext of a record, and its ciphertexts.
Copy == Record \X (0..MaxCopies)
Entry == [source : Record, cid : Copy]

Idle == [at |-> "idle"]
Goes(c, to) == call' = [call EXCEPT ![c] = to]
Stands(c, step) == call[c].at = step

Init ==
  /\ enabled = FALSE /\ running = FALSE
  /\ pinned = {} /\ listed = {} /\ copies = 0
  /\ call = [c \in Caller |-> Idle]

MayBegin(c) ==
  /\ Stands(c, "idle")
  /\ "together" \in Overlaps \/ \A d \in Caller : Stands(d, "idle")

----------------------------------------------------------------------------
(* Pinning a record.                                                       *)

\* Under the policy lock, which is let go with the ciphertext in hand.
Begin(c, r) ==
  /\ MayBegin(c)
  /\ \/ /\ Goes(c, [at |-> "pin", source |-> r, cid |-> <<r, 0>>])
        /\ UNCHANGED copies
     \/ /\ copies < MaxCopies
        /\ copies' = copies + 1
        /\ Goes(c, [at |-> "pin", source |-> r, cid |-> <<r, copies + 1>>])
  /\ UNCHANGED <<node, pinned, listed>>

\* The node is started if it does not answer, and waited for.
LaunchNode(c) ==
  /\ Stands(c, "pin") /\ ~running
  /\ running' = TRUE
  /\ UNCHANGED <<enabled, pinned, listed, copies, call>>

\* A slip: the failure of the import is not looked at.
ImportUnchecked(c) ==
  /\ Stands(c, "pin") /\ running
  /\ pinned' \in {pinned, pinned \cup {call[c].cid}}
  /\ Goes(c, [call[c] EXCEPT !.at = "read"])
  /\ UNCHANGED <<node, listed, copies>>

\* dag_import_and_pin
Import(c) ==
  /\ Stands(c, "pin") /\ running
  /\ pinned' = pinned \cup {call[c].cid}
  /\ Goes(c, [call[c] EXCEPT !.at = "read"])
  /\ UNCHANGED <<node, listed, copies>>

ReadList(c) ==
  /\ Stands(c, "read")
  /\ Goes(c, [at |-> "write", new |->
       {e \in listed : e.source # call[c].source}
         \cup {[source |-> call[c].source, cid |-> call[c].cid]}])
  /\ UNCHANGED <<node, pinned, listed, copies>>

WriteList(c) ==
  /\ Stands(c, "write")
  /\ listed' = call[c].new
  /\ Goes(c, Idle)
  /\ UNCHANGED <<node, pinned, copies>>

----------------------------------------------------------------------------
(* Unpinning: the copy of the list read first is written back without the  *)
(* record, whether or not the node could be told.                          *)

Unpin(c, r) ==
  /\ MayBegin(c)
  /\ \E e \in listed :
       /\ e.source = r
       /\ Goes(c, [at |-> "unpin", cid |-> e.cid, new |-> listed \ {e}])
  /\ UNCHANGED <<node, pinned, listed, copies>>

\* The unpinning is tried when the node runs; its failure is ignored.
Remove(c) ==
  /\ Stands(c, "unpin")
  /\ \/ running /\ pinned' = pinned \ {call[c].cid}
     \/ UNCHANGED pinned
  /\ Goes(c, [at |-> "write", new |-> call[c].new])
  /\ UNCHANGED <<node, listed, copies>>

----------------------------------------------------------------------------
(* The Sidekick, and what goes wrong.                                      *)

\* The node is started, then the flag written.
Enable(c) ==
  /\ MayBegin(c)
  /\ running' = TRUE
  /\ Goes(c, [at |-> "flag", to |-> TRUE])
  /\ UNCHANGED <<enabled, pinned, listed, copies>>

\* The node is stopped, then the flag removed; an app that ends only stops it.
Disable(c) ==
  /\ MayBegin(c)
  /\ running' = FALSE
  /\ call' \in {call, [call EXCEPT ![c] = [at |-> "flag", to |-> FALSE]]}
  /\ UNCHANGED <<enabled, pinned, listed, copies>>

WriteFlag(c) ==
  /\ Stands(c, "flag")
  /\ enabled' = call[c].to
  /\ Goes(c, Idle)
  /\ UNCHANGED <<running, pinned, listed, copies>>

NodeDies ==
  /\ running
  /\ running' = FALSE
  /\ UNCHANGED <<enabled, pinned, listed, copies, call>>

\* A step fails and the call with it: nothing is undone.
Fail(c) ==
  /\ ~Stands(c, "idle") /\ ~Stands(c, "unpin") /\ call[c].at # "write"
  /\ Goes(c, Idle)
  /\ UNCHANGED <<node, pinned, listed, copies>>

\* Killed between the node and the list, or with the list unwritable: an
\* unpinning leaves its entry.
Kill(c) ==
  /\ "kill" \in Overlaps
  /\ ~Stands(c, "idle")
  /\ Goes(c, Idle)
  /\ UNCHANGED <<node, pinned, listed, copies>>

Next ==
  \/ \E c \in Caller, r \in Record : Begin(c, r) \/ Unpin(c, r)
  \/ \E c \in Caller :
       \/ LaunchNode(c) \/ Import(c) \/ ReadList(c) \/ WriteList(c)
       \/ Remove(c) \/ Enable(c) \/ Disable(c) \/ WriteFlag(c)
       \/ Fail(c) \/ Kill(c)
  \/ NodeDies

Spec == Init /\ [][Next]_vars

----------------------------------------------------------------------------
(* What must hold.                                                         *)

\* Every variable has its type.
TypeOK ==
  /\ enabled \in BOOLEAN /\ running \in BOOLEAN
  /\ pinned \subseteq Copy /\ listed \subseteq Entry
  /\ copies \in 0..MaxCopies

\* What a call that is not done will have written: a list without an entry.
Leaving == {e \in listed : \E c \in Caller :
              Stands(c, "write") /\ e \notin call[c].new}

(* What the list shows as kept hot is pinned on the node, once each, when  *)
(* the calls take turns and none is killed, however the node fails.        *)
ListedIsPinned ==
  /\ \A e \in listed \ Leaving : e.cid \in pinned
  /\ \A e, f \in listed : e.source = f.source => e = f

=============================================================================
