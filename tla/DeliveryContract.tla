-------------------------- MODULE DeliveryContract --------------------------
(***************************************************************************)
(* What the store-and-forward outbox promises of a direct message          *)
(* (src/crates/core/src/dm_outbox.rs:1-8): a message once queued is owed   *)
(* until its recipient has stored it, or until it has been retried for its *)
(* time to live; and a message is stored by its recipient only after its   *)
(* author wrote it, once, for good.                                        *)
(***************************************************************************)

CONSTANT Msg

VARIABLES
  written,    \* the messages their authors have written
  owed,       \* the messages queued and not settled yet
  stored,     \* the messages their recipient keeps
  expired     \* the messages given up at the end of their time to live

vars == <<written, owed, stored, expired>>

----------------------------------------------------------------------------
Init ==
  /\ written = {}
  /\ owed = {}
  /\ stored = {}
  /\ expired = {}

Write(m) ==
  /\ m \notin written
  /\ written' = written \cup {m}
  /\ UNCHANGED <<owed, stored, expired>>

\* Queueing drops what has expired in the same write of the file.
Queue(m, old) ==
  /\ m \in written \ (owed \cup stored \cup expired)
  /\ old \subseteq owed
  /\ owed' = (owed \ old) \cup {m}
  /\ expired' = expired \cup old
  /\ UNCHANGED <<written, stored>>

Store(m) ==
  /\ m \in written \ stored
  /\ stored' = stored \cup {m}
  /\ UNCHANGED <<written, owed, expired>>

Settle(m) ==
  /\ m \in stored
  /\ owed' = owed \ {m}
  /\ UNCHANGED <<written, stored, expired>>

Expire(old) ==
  /\ old \subseteq owed
  /\ owed' = owed \ old
  /\ expired' = expired \cup old
  /\ UNCHANGED <<written, stored>>

Next ==
  \/ \E m \in Msg : Write(m) \/ Store(m) \/ Settle(m)
  \/ \E m \in Msg, old \in SUBSET Msg : Queue(m, old)
  \/ \E old \in SUBSET Msg : Expire(old)

Spec == Init /\ [][Next]_vars
============================================================================
