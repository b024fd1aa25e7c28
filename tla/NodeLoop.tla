------------------------------ MODULE NodeLoop ------------------------------
(***************************************************************************)
(* The event loop of the network node (src/crates/net/src/transport.rs),   *)
(* and the loops of the program around it that drain its events and send   *)
(* again what waits in the outbox (src/crates/kernel/src/node.rs,          *)
(* src/crates/gui/src/lib.rs). One node, near, sends direct messages and   *)
(* asks for blocks or heads; another, far, answers. A node talks to its    *)
(* program over two unbounded queues, of commands and of events; the       *)
(* tables tie an answer to what was asked. A caller waits 700 ms for its   *)
(* answer, drops the channel it waits on and asks again                    *)
(* (src/crates/net/src/sync.rs). A request may fail at any time, on either *)
(* side of its delivery: it timed out, or the connection closed.           *)
(***************************************************************************)
EXTENDS Naturals, Sequences, SequencesExt, FiniteSets

CONSTANTS
  Message,      \* what near has to deliver
  Question,     \* the blocks and heads near asks for
  Held,         \* those of them that far has
  MaxPending,   \* deliveries a node keeps waiting for their acknowledgement
  MaxRequests,  \* bound on the requests sent
  Restarts      \* may a node stop and start again?

Node == {"near", "far"}

VARIABLES
  outbox,     \* the messages near's program has not seen delivered
  stored,     \* the messages far's program has stored
  caller,     \* caller[q]: what the one who asks for q sees
  commands,   \* commands[n]: from the program to its node
  events,     \* events[n]: from the node to its program
  next,       \* the id of the next request
  wire,       \* the requests on their way
  answers,    \* the answers on their way
  outbound,   \* outbound_dms: the deliveries that wait for an answer
  pending,    \* the questions that wait for an answer
  inbound,    \* inbound_dms: the deliveries far has not answered
  delivery    \* the id of the next delivery

program == <<outbox, stored, caller>>
queues == <<commands, events>>
network == <<wire, answers>>
tables == <<next, outbound, pending, inbound, delivery>>
vars == <<program, queues, network, tables>>

Init ==
  /\ outbox = Message /\ stored = {}
  /\ caller = [q \in Question |-> "idle"]
  /\ commands = [n \in Node |-> <<>>] /\ events = [n \in Node |-> <<>>]
  /\ next = 1 /\ delivery = 1
  /\ wire = {} /\ answers = {}
  /\ outbound = {} /\ pending = {} /\ inbound = {}

Enqueue(n, c) == commands' = [commands EXCEPT ![n] = Append(@, c)]
Emit(n, e) == events' = [events EXCEPT ![n] = Append(@, e)]

----------------------------------------------------------------------------
(* The program of near.                                                    *)

\* Bound: what is queued and what was sent.
MaySend == next + Len(commands["near"]) <= MaxRequests

\* The retry loop, every 30 seconds, for each message of the outbox.
Retry(m) ==
  /\ MaySend /\ m \in outbox
  /\ Enqueue("near", [what |-> m, open |-> FALSE])
  /\ UNCHANGED <<program, events, network, tables>>

Ask(q) ==
  /\ MaySend /\ caller[q] = "idle"
  /\ caller' = [caller EXCEPT ![q] = "waiting"]
  /\ Enqueue("near", [what |-> q, open |-> TRUE])
  /\ UNCHANGED <<outbox, stored, events, network, tables>>

\* The receiver of the answer is dropped: wherever the sender now is, what is
\* sent there goes nowhere.
GiveUp(q) ==
  LET closed(r) == IF r.what = q THEN [r EXCEPT !.open = FALSE] ELSE r
  IN  /\ caller[q] = "waiting"
      /\ caller' = [caller EXCEPT ![q] = "idle"]
      /\ commands' = [commands EXCEPT !["near"] =
                        [k \in DOMAIN @ |-> closed(@[k])]]
      /\ pending' = {closed(r) : r \in pending}
      /\ UNCHANGED <<outbox, stored, events, network,
                     next, outbound, inbound, delivery>>

\* DirectMessageDelivered: the message leaves the outbox.
HandleDelivered ==
  /\ events["near"] # <<>>
  /\ outbox' = outbox \ {Head(events["near"])}
  /\ events' = [events EXCEPT !["near"] = Tail(@)]
  /\ UNCHANGED <<stored, caller, commands, network, tables>>

----------------------------------------------------------------------------
(* The node near.                                                          *)

\* The next command: a request goes out under a new id.
Take ==
  /\ commands["near"] # <<>>
  /\ LET c == Head(commands["near"]) IN
       /\ wire' = wire \cup {[id |-> next, what |-> c.what]}
       /\ IF c.what \in Message
            THEN /\ outbound' = outbound \cup {[id |-> next, what |-> c.what]}
                 /\ UNCHANGED pending
            ELSE /\ pending' = pending \cup {[id |-> next, what |-> c.what,
                                              open |-> c.open]}
                 /\ UNCHANGED outbound
  /\ next' = next + 1
  /\ commands' = [commands EXCEPT !["near"] = Tail(@)]
  /\ UNCHANGED <<program, events, answers, inbound, delivery>>

Slot(table, id) == {r \in table : r.id = id}

\* Whoever waits for q, if anybody still does, sees the answer.
Reply(slots, given) ==
  caller' = [q \in Question |->
               IF \E r \in slots : r.what = q /\ r.open THEN given
                                                       ELSE caller[q]]

\* A slip: any answer to a delivery counts as its acceptance.
ResponseAnswered(a) ==
  /\ a \in answers
  /\ answers' = answers \ {a}
  /\ LET sent == Slot(outbound, a.id) IN
       /\ outbound' = outbound \ sent
       /\ IF sent # {} THEN Emit("near", (CHOOSE r \in sent : TRUE).what)
                       ELSE UNCHANGED events
  /\ LET asked == Slot(pending, a.id) IN
       /\ pending' = pending \ asked
       /\ Reply(asked, IF a.yes THEN "got" ELSE "idle")
  /\ UNCHANGED <<outbox, stored, commands, wire, next, inbound, delivery>>

(* An answer finds what was asked by its id: Delivered among the messages, *)
(* and only an acceptance is an event; the others among the questions. An  *)
(* answer nobody waits for, as after a restart, is dropped.                *)
Response(a) ==
  /\ a \in answers
  /\ answers' = answers \ {a}
  /\ LET sent == Slot(outbound, a.id) IN
       /\ outbound' = outbound \ sent
       /\ IF sent # {} /\ a.yes
            THEN Emit("near", (CHOOSE r \in sent : TRUE).what)
            ELSE UNCHANGED events
  /\ LET asked == Slot(pending, a.id) IN
       /\ pending' = pending \ asked
       /\ Reply(asked, IF a.yes THEN "got" ELSE "idle")
  /\ UNCHANGED <<outbox, stored, commands, wire, next, inbound, delivery>>

\* A request fails, before it reached far or after; its answer comes to nobody.
OutboundFailure(id) ==
  /\ Slot(outbound \cup pending, id) # {}
  /\ wire' \in {wire, wire \ Slot(wire, id)}
  /\ answers' = answers \ Slot(answers, id)
  /\ outbound' = outbound \ Slot(outbound, id)
  /\ pending' = pending \ Slot(pending, id)
  /\ Reply(Slot(pending, id), "idle")
  /\ UNCHANGED <<outbox, stored, queues, next, inbound, delivery>>

----------------------------------------------------------------------------
(* The node far and its program.                                           *)

Answer(id, yes) == answers' = answers \cup {[id |-> id, yes |-> yes]}

\* A delivery waits for the program's word, or is refused when too many do.
Deliver(r) ==
  /\ r \in wire /\ r.what \in Message
  /\ wire' = wire \ {r}
  /\ IF Cardinality(inbound) >= MaxPending
       THEN Answer(r.id, FALSE) /\ UNCHANGED <<events, inbound, delivery>>
       ELSE /\ inbound' = inbound \cup {[id |-> r.id, delivery |-> delivery]}
            /\ Emit("far", [what |-> r.what, delivery |-> delivery])
            /\ delivery' = delivery + 1
            /\ UNCHANGED answers
  /\ UNCHANGED <<program, commands, next, outbound, pending>>

\* Any other request is served at once from the store.
Serve(r) ==
  /\ r \in wire /\ r.what \in Question
  /\ wire' = wire \ {r}
  /\ Answer(r.id, r.what \in Held)
  /\ UNCHANGED <<program, queues, tables>>

\* The program stores what it accepts, if it can, and acknowledges either way.
HandleDirect ==
  /\ events["far"] # <<>>
  /\ LET e == Head(events["far"]) IN
       \E accepted \in BOOLEAN :
         /\ stored' = IF accepted THEN stored \cup {e.what} ELSE stored
         /\ Enqueue("far", [delivery |-> e.delivery, accepted |-> accepted])
  /\ events' = [events EXCEPT !["far"] = Tail(@)]
  /\ UNCHANGED <<outbox, caller, network, tables>>

AcknowledgeDirect ==
  /\ commands["far"] # <<>>
  /\ LET c == Head(commands["far"])
         waiting == {r \in inbound : r.delivery = c.delivery}
     IN  /\ inbound' = inbound \ waiting
         /\ answers' = answers \cup
                         {[id |-> r.id, yes |-> c.accepted] : r \in waiting}
  /\ commands' = [commands EXCEPT !["far"] = Tail(@)]
  /\ UNCHANGED <<program, events, wire, next, outbound, pending, delivery>>

----------------------------------------------------------------------------
(* A node and its program stop together; what they keep is on disk.        *)

StopNear ==
  /\ Restarts
  /\ commands' = [commands EXCEPT !["near"] = <<>>]
  /\ events' = [events EXCEPT !["near"] = <<>>]
  /\ outbound' = {} /\ pending' = {}
  /\ caller' = [q \in Question |-> "idle"]
  /\ UNCHANGED <<outbox, stored, network, next, inbound, delivery>>

StopFar ==
  /\ Restarts
  /\ commands' = [commands EXCEPT !["far"] = <<>>]
  /\ events' = [events EXCEPT !["far"] = <<>>]
  /\ inbound' = {}
  /\ UNCHANGED <<program, network, next, outbound, pending, delivery>>

Next ==
  \/ \E m \in Message : Retry(m)
  \/ \E q \in Question : Ask(q) \/ GiveUp(q)
  \/ HandleDelivered \/ Take
  \/ \E a \in answers : Response(a)
  \/ \E id \in 1..MaxRequests : OutboundFailure(id)
  \/ \E r \in wire : Deliver(r) \/ Serve(r)
  \/ HandleDirect \/ AcknowledgeDirect
  \/ StopNear \/ StopFar

Spec == Init /\ [][Next]_vars

----------------------------------------------------------------------------
(* What must hold.                                                         *)

RequestType ==
  /\ wire \subseteq [id : 1..MaxRequests, what : Message \cup Question]
  /\ answers \subseteq [id : 1..MaxRequests, yes : BOOLEAN]
  /\ outbound \subseteq [id : 1..MaxRequests, what : Message]
  /\ pending \subseteq
       [id : 1..MaxRequests, what : Question, open : BOOLEAN]
  /\ inbound \subseteq [id : 1..MaxRequests, delivery : 1..MaxRequests]

\* Every variable has its type.
TypeOK ==
  /\ outbox \subseteq Message /\ stored \subseteq Message
  /\ caller \in [Question -> {"idle", "waiting", "got"}]
  /\ next \in 1..(MaxRequests + 1) /\ delivery \in 1..(MaxRequests + 1)
  /\ RequestType

\* A message that left the outbox, or is about to, is stored at the other end.
AckMeansStored ==
  (Message \ outbox) \cup ToSet(events["near"]) \subseteq stored

(* Every place in the table of deliveries has its event or its             *)
(* acknowledgement queued: none is taken for ever, and the table, once     *)
(* full, does not refuse every later message.                              *)
NoSlotLeaks ==
  \A r \in inbound :
    \E m \in ToSet(events["far"]) \cup ToSet(commands["far"]) :
      m.delivery = r.delivery

\* Whoever waits has an open request queued or in the table, and what it gets
\* is there at the other end.
NobodyForgotten ==
  \A q \in Question :
    /\ caller[q] = "waiting" =>
         \E r \in ToSet(commands["near"]) \cup pending : r.what = q /\ r.open
    /\ caller[q] = "got" => q \in Held

(* Whatever fails, and in whatever order requests, answers, failures and   *)
(* restarts come: deliveries and questions stay accounted for on both      *)
(* sides of the loop.                                                      *)
DeliveriesAccounted == AckMeansStored /\ NoSlotLeaks /\ NobodyForgotten
=============================================================================
