--------------------------- MODULE DirectMessages ---------------------------
(***************************************************************************)
(* Direct messages between two installs of Concierge, A and B: posting     *)
(* into the thread they share, the outbox that sends a message again until *)
(* its recipient acknowledges it, and the acceptance of what arrives       *)
(* (src/crates/core/src/binding/messaging_binding.rs, with the event and   *)
(* retry loops of src/crates/kernel/src/node.rs and                        *)
(* src/crates/gui/src/lib.rs and the transport of src/crates/net).         *)
(*                                                                         *)
(* Of an envelope its author, its Lamport clock and its parent are kept;   *)
(* the signature, which names a message everywhere, is the message itself, *)
(* so two posts never have the same one. Signatures verify, nobody is      *)
(* muted and the room's policy lets its author speak.                      *)
(*                                                                         *)
(* A post runs on a thread of the GUI's server and an acceptance in the    *)
(* event loop of the node, one of each at a time on an install. With       *)
(* Overlap they, and a deletion, interleave; without it each runs alone.   *)
(***************************************************************************)
EXTENDS Naturals, FiniteSets

CONSTANTS
  A, B,       \* the two installs
  Msg,        \* the messages there are to write, a bound
  NoMsg,      \* an unbound head, a missing parent
  MaxCopies,  \* bound on the requests in flight that carry one message
  Events,     \* the things that may go wrong
  Overlap     \* may a post, an acceptance and a deletion interleave?

Event == {"crash", "loss", "expiry", "io_error", "delete"}

ASSUME MessagesAssumption ==
  /\ A # B
  /\ NoMsg \notin Msg
  /\ MaxCopies \in Nat \ {0}
  /\ Events \subseteq Event
  /\ Overlap \in BOOLEAN

Install == {A, B}
Peer(i) == IF i = A THEN B ELSE A

VARIABLES
  post,       \* post[m]: the envelope of m
  known,      \* known[i]: the messages whose id is bound on i
  head,       \* head[i]: what the name of the thread is bound to on i
  outbox,     \* the messages pending in their author's outbox
  net,        \* net[m]: the requests in flight that carry m
  acks,       \* the messages whose acceptance is being reported back
  poster,     \* poster[i]: how far a post on i has come
  reader,     \* reader[i]: how far an acceptance on i has come
  expired,    \* history: the messages dropped from an outbox by their age
  cut         \* history: the messages stored on i while an error, a crash
              \*   or a deletion kept the head from them, or took it back

wire == <<net, acks>>
thread == <<post, known, head, cut>>
queue == <<outbox, expired>>
vars == <<thread, queue, wire, poster, reader>>

NoPost == [at |-> "idle", msg |-> NoMsg]
NoRead == [at |-> "idle", msg |-> NoMsg]

Unwritten == [author |-> NoMsg, clock |-> 0, parent |-> NoMsg]
Written == {m \in Msg : post[m] # Unwritten}
Mine(i) == {m \in Written : post[m].author = i}

\* What the recipient of m keeps.
Stored == {m \in Written : m \in known[Peer(post[m].author)]}

\* The clock of a head; an empty thread is older than any message.
ClockOf(m) == IF m = NoMsg THEN 0 ELSE post[m].clock

\* S holds the head of i and, with a message, the one it answers, as far as
\* this install knows them.
Shown(i, S) ==
  \A m \in {head[i]} \cup {post[n].parent : n \in S} : m \in known[i] => m \in S

\* The messages a thread shows, from the head back along the parent links.
Thread(i) ==
  {m \in known[i] : \A S \in SUBSET known[i] : Shown(i, S) => m \in S}

Alone(i) == poster[i] = NoPost /\ reader[i] = NoRead
MayBegin(i) == Overlap \/ Alone(i)

----------------------------------------------------------------------------
Init ==
  /\ post = [m \in Msg |-> Unwritten]
  /\ known = [i \in Install |-> {}]
  /\ head = [i \in Install |-> NoMsg]
  /\ cut = [i \in Install |-> {}]
  /\ outbox = {}
  /\ expired = {}
  /\ net = [m \in Msg |-> 0]
  /\ acks = {}
  /\ poster = [i \in Install |-> NoPost]
  /\ reader = [i \in Install |-> NoRead]

Send(n, S) ==
  [m \in Msg |-> IF m \in S /\ n[m] < MaxCopies THEN n[m] + 1 ELSE n[m]]

\* What the outbox of i may be found to have kept for its whole time to live.
Aged(i) ==
  IF "expiry" \in Events THEN SUBSET (outbox \cap Mine(i)) ELSE {{}}

----------------------------------------------------------------------------
(* Posting: the head is read, the message stored under its id, the head    *)
(* moved to it, and the message queued and sent.                           *)

\* Bound: no more posts are begun than there are messages left to write.
Spare ==
  Cardinality({i \in Install : poster[i].at = "read"})
    < Cardinality(Msg \ Written)

\* poster[i].msg is, in "read", the head the post will answer.
BeginPost(i) ==
  /\ poster[i] = NoPost
  /\ MayBegin(i)
  /\ Spare
  /\ poster' = [poster EXCEPT ![i] = [at |-> "read", msg |-> head[i]]]
  /\ UNCHANGED <<thread, queue, wire, reader>>

\* A slip: the clock of the head is taken over.
EnvelopeOfSameClock(i, parent) ==
  [author |-> i, clock |-> ClockOf(parent), parent |-> parent]

Envelope(i, parent) ==
  [author |-> i, clock |-> ClockOf(parent) + 1, parent |-> parent]

StorePost(i, m) ==
  /\ poster[i].at = "read"
  /\ m \notin Written
  /\ post' = [post EXCEPT ![m] = Envelope(i, poster[i].msg)]
  /\ known' = [known EXCEPT ![i] = @ \cup {m}]
  /\ poster' = [poster EXCEPT ![i] = [at |-> "stored", msg |-> m]]
  /\ UNCHANGED <<head, cut, queue, wire, reader>>

ShowPost(i) ==
  /\ poster[i].at = "stored"
  /\ head' = [head EXCEPT ![i] = poster[i].msg]
  /\ poster' = [poster EXCEPT ![i].at = "shown"]
  /\ UNCHANGED <<post, known, cut, queue, wire, reader>>

QueuePost(i) ==
  /\ poster[i].at = "shown"
  /\ \E old \in Aged(i) :
       /\ outbox' = (outbox \ old) \cup {poster[i].msg}
       /\ expired' = expired \cup old
  /\ net' = Send(net, {poster[i].msg})
  /\ poster' = [poster EXCEPT ![i] = NoPost]
  /\ UNCHANGED <<thread, acks, reader>>

(* The chat node does not come up, and the post is neither queued nor sent,*)
(* or the outbox cannot be written, which is ignored, and it is sent once. *)
QueueFails(i) ==
  /\ "io_error" \in Events
  /\ poster[i].at = "shown"
  /\ net' \in {net, Send(net, {poster[i].msg})}
  /\ poster' = [poster EXCEPT ![i] = NoPost]
  /\ UNCHANGED <<thread, queue, acks, reader>>

\* The head cannot be bound and the post is abandoned under its id. (One
\* that fails before it has stored anything leaves no trace: not begun.)
PostFails(i) ==
  /\ "io_error" \in Events
  /\ poster[i].at = "stored"
  /\ cut' = [cut EXCEPT ![i] = @ \cup {poster[i].msg}]
  /\ poster' = [poster EXCEPT ![i] = NoPost]
  /\ UNCHANGED <<post, known, head, queue, wire, reader>>

PostStep(i) ==
  \/ BeginPost(i)
  \/ \E m \in Msg : StorePost(i, m)
  \/ ShowPost(i)
  \/ QueuePost(i)
  \/ QueueFails(i)
  \/ PostFails(i)

----------------------------------------------------------------------------
(* Accepting: a message already known is acknowledged at once; a new one   *)
(* is stored under its id, its clock compared with the head's, and the     *)
(* head moved to it if it is at least as new; then it is acknowledged. A   *)
(* head whose message cannot be read counts as older than any:             *)
(* unwrap_or(true).                                                        *)

Accepted(i, m) ==
  /\ acks' = acks \cup {m}
  /\ reader' = [reader EXCEPT ![i] = NoRead]

\* A slip: a message already known is dropped without a word.
RedeliveredUnanswered(i, m) ==
  /\ MayBegin(i)
  /\ reader[i] = NoRead
  /\ net[m] > 0
  /\ m \in Mine(Peer(i)) \cap known[i]
  /\ net' = [net EXCEPT ![m] = @ - 1]
  /\ UNCHANGED <<thread, queue, acks, poster, reader>>

Redelivered(i, m) ==
  /\ MayBegin(i)
  /\ reader[i] = NoRead
  /\ net[m] > 0
  /\ m \in Mine(Peer(i)) \cap known[i]
  /\ net' = [net EXCEPT ![m] = @ - 1]
  /\ Accepted(i, m)
  /\ UNCHANGED <<thread, queue, poster>>

StoreMessage(i, m) ==
  /\ MayBegin(i)
  /\ reader[i] = NoRead
  /\ net[m] > 0
  /\ m \in Mine(Peer(i)) \ known[i]
  /\ net' = [net EXCEPT ![m] = @ - 1]
  /\ known' = [known EXCEPT ![i] = @ \cup {m}]
  /\ reader' = [reader EXCEPT ![i] = [at |-> "stored", msg |-> m]]
  /\ UNCHANGED <<post, head, cut, queue, acks, poster>>

\* Two slips: whatever arrives becomes the head, as store_inbound_message does
\* it; or only what answers the head does.
Whatever(m, h) == TRUE
AnswersHead(m, h) == post[m].parent = h

AtLeastAsNew(m, h) == ClockOf(m) >= ClockOf(h)

Compare(i) ==
  /\ reader[i].at = "stored"
  /\ IF AtLeastAsNew(reader[i].msg, head[i])
       THEN reader' = [reader EXCEPT ![i].at = "newer"] /\ UNCHANGED acks
       ELSE Accepted(i, reader[i].msg)
  /\ UNCHANGED <<thread, queue, net, poster>>

Advance(i) ==
  /\ reader[i].at = "newer"
  /\ head' = [head EXCEPT ![i] = reader[i].msg]
  /\ Accepted(i, reader[i].msg)
  /\ UNCHANGED <<post, known, cut, queue, net, poster>>

\* The name of the thread is bound, but its message cannot be read.
HeadUnreadable(i) ==
  /\ "io_error" \in Events
  /\ reader[i].at = "stored"
  /\ head[i] # NoMsg
  /\ reader' = [reader EXCEPT ![i].at = "blind"]
  /\ UNCHANGED <<thread, queue, wire, poster>>

\* The head moves to what arrived, whatever the head was: what is newer than
\* that is cut off.
AdvanceBlind(i) ==
  LET m == reader[i].msg
  IN  /\ reader[i].at = "blind"
      /\ head' = [head EXCEPT ![i] = m]
      /\ cut' = [cut EXCEPT ![i] =
                   @ \cup {n \in known[i] : ClockOf(n) > ClockOf(m)}]
      /\ Accepted(i, m)
      /\ UNCHANGED <<post, known, queue, net, poster>>

\* The index cannot be read, or the head not bound: the id stays, and the
\* message is not acknowledged.
AcceptFails(i) ==
  /\ "io_error" \in Events
  /\ reader[i] # NoRead
  /\ cut' = [cut EXCEPT ![i] = @ \cup {reader[i].msg}]
  /\ reader' = [reader EXCEPT ![i] = NoRead]
  /\ UNCHANGED <<post, known, head, queue, wire, poster>>

AcceptStep(i) ==
  \/ \E m \in Msg : Redelivered(i, m) \/ StoreMessage(i, m)
  \/ Compare(i)
  \/ Advance(i)
  \/ HeadUnreadable(i)
  \/ AdvanceBlind(i)
  \/ AcceptFails(i)

----------------------------------------------------------------------------
(* The outbox, the wire, and what goes wrong.                              *)

\* Every 30 seconds what has not expired is sent again.
Retry(i) ==
  /\ outbox \cap Mine(i) # {}
  /\ \E old \in Aged(i) :
       /\ outbox' = outbox \ old
       /\ expired' = expired \cup old
       /\ net' = Send(net, (outbox \cap Mine(i)) \ old)
  /\ UNCHANGED <<thread, acks, poster, reader>>

AckArrives(m) ==
  /\ m \in acks
  /\ acks' = acks \ {m}
  /\ outbox' = outbox \ {m}
  /\ UNCHANGED <<thread, expired, net, poster, reader>>

\* A slip: a refusal is taken for an acknowledgement.
LoseAcknowledged(m) ==
  /\ "loss" \in Events
  /\ net[m] > 0
  /\ net' = [net EXCEPT ![m] = @ - 1]
  /\ acks' = acks \cup {m}
  /\ UNCHANGED <<thread, queue, poster, reader>>

(* A request is lost, or refused before anything is stored: too many are   *)
(* pending, or the message cannot be put.                                  *)
Lose(m) ==
  /\ "loss" \in Events
  /\ net[m] > 0
  /\ net' = [net EXCEPT ![m] = @ - 1]
  /\ UNCHANGED <<thread, queue, acks, poster, reader>>

LoseAck(m) ==
  /\ "loss" \in Events
  /\ m \in acks
  /\ acks' = acks \ {m}
  /\ UNCHANGED <<thread, queue, net, poster, reader>>

DeleteThread(i) ==
  /\ "delete" \in Events
  /\ MayBegin(i)
  /\ head[i] # NoMsg
  /\ head' = [head EXCEPT ![i] = NoMsg]
  /\ cut' = [cut EXCEPT ![i] = known[i]]
  /\ UNCHANGED <<post, known, queue, wire, poster, reader>>

\* The messages a process on i has stored and not moved the head to yet.
Halfway(i) ==
  (IF poster[i].at = "stored" THEN {poster[i].msg} ELSE {})
    \cup (IF reader[i] # NoRead THEN {reader[i].msg} ELSE {})

Crash(i) ==
  /\ "crash" \in Events
  /\ Halfway(i) # {} \/ poster[i].at = "shown"
  /\ poster' = [poster EXCEPT ![i] = NoPost]
  /\ reader' = [reader EXCEPT ![i] = NoRead]
  /\ cut' = [cut EXCEPT ![i] = @ \cup Halfway(i)]
  /\ UNCHANGED <<post, known, head, queue, wire>>

Next ==
  \/ \E i \in Install : PostStep(i) \/ AcceptStep(i) \/ Retry(i)
  \/ \E i \in Install : DeleteThread(i) \/ Crash(i)
  \/ \E m \in Msg : AckArrives(m) \/ Lose(m) \/ LoseAck(m)

Spec == Init /\ [][Next]_vars

(* A post and an acceptance that have begun go on, the retry timer ticks,  *)
(* and what is sent again and again arrives in the end.                    *)
Fairness ==
  /\ \A i \in Install :
       /\ WF_vars(QueuePost(i) \/ QueueFails(i) \/ ShowPost(i) \/ PostFails(i))
       /\ WF_vars(\E m \in Msg : StorePost(i, m))
       /\ WF_vars(Compare(i) \/ HeadUnreadable(i) \/ Advance(i)
                    \/ AdvanceBlind(i) \/ AcceptFails(i))
       /\ WF_vars(Retry(i))
       /\ \A m \in Msg : SF_vars(Redelivered(i, m) \/ StoreMessage(i, m))
  /\ \A m \in Msg : SF_vars(AckArrives(m))

FairSpec == Spec /\ Fairness

----------------------------------------------------------------------------
(* What must hold.                                                         *)

PostType ==
  /\ post \in [Msg -> [author : Install \cup {NoMsg}, clock : Nat,
                      parent : Msg \cup {NoMsg}]]
  /\ \A m \in Written :
       /\ post[m].author \in Install
       /\ post[m].parent \in (Written \ {m}) \cup {NoMsg}
       /\ post[m].clock = ClockOf(post[m].parent) + 1

ThreadType ==
  /\ known \in [Install -> SUBSET Written]
  /\ head \in [Install -> Msg \cup {NoMsg}]
  /\ cut \in [Install -> SUBSET Msg]
  /\ \A i \in Install :
       /\ Mine(i) \cup cut[i] \subseteq known[i]
       /\ head[i] \in known[i] \cup {NoMsg}

WireType ==
  /\ outbox \subseteq Written
  /\ expired \subseteq Written
  /\ net \in [Msg -> 0..MaxCopies]
  /\ \A m \in Msg : net[m] > 0 => m \in Written
  /\ acks \subseteq Stored

StepType ==
  /\ poster \in [Install -> [at : {"idle", "read", "stored", "shown"},
                            msg : Msg \cup {NoMsg}]]
  /\ reader \in [Install -> [at : {"idle", "stored", "newer", "blind"},
                            msg : Msg \cup {NoMsg}]]
  /\ \A i \in Install :
       /\ \/ poster[i] = NoPost
          \/ poster[i].at = "read" /\ poster[i].msg \in known[i] \cup {NoMsg}
          \/ poster[i].at \in {"stored", "shown"} /\ poster[i].msg \in Mine(i)
       /\ \/ reader[i] = NoRead
          \/ /\ reader[i].at # "idle"
             /\ reader[i].msg \in known[i] \cap Mine(Peer(i))

(* Every variable has its type; a message is written before anything else  *)
(* is known of it, its clock is one more than its parent's, the Lamport    *)
(* clock post_message computes, and only what is stored is acknowledged.   *)
TypeOK == PostType /\ ThreadType /\ WireType /\ StepType

Settled(i) == poster[i].at \notin {"stored"} /\ reader[i] = NoRead

(* The head of a thread is at least as new as every message this install   *)
(* has stored, whatever the order they arrived in and however often, but   *)
(* for those that an error, a crash or a deletion cut off: stored and      *)
(* never shown, or newer than a message that arrived while the head could  *)
(* not be read. What accept_message says of the room head.                 *)
HeadIsNewest ==
  \A i \in Install : Settled(i) =>
    \A m \in known[i] \ cut[i] :
      head[i] # NoMsg /\ ClockOf(m) <= ClockOf(head[i])

\* Both installs have stored every message and neither has cut one off.
AllDelivered ==
  \A i \in Install : Settled(i) /\ known[i] = Written /\ cut[i] = {}

\* No two messages answer the same one.
Linear ==
  \A m, n \in Written : post[m].parent = post[n].parent => m = n

(* When both installs have stored every message of a conversation in which *)
(* each message answers the one before, both threads show all of it,       *)
(* whatever order it arrived in: the thread post_message links by          *)
(* signature coheres across installs.                                      *)
LinearThreadsAgree ==
  AllDelivered /\ Linear => \A i \in Install : Thread(i) = Written

(* The same of any conversation, concurrent messages included: the total   *)
(* order of messaging.rs is "deterministic across every client".           *)
ThreadsAgree == AllDelivered => Thread(A) = Thread(B)

Contract == INSTANCE DeliveryContract
  WITH written <- Written, owed <- outbox, stored <- Stored

(* An outbox forgets a message only once its recipient has stored it, or   *)
(* when it has aged, and a recipient stores a message once, after it was   *)
(* written: what the outbox and the acknowledgements promise together.     *)
KeepsDeliveryContract == Contract!Spec

(* A queued message is retried until it is acknowledged or has aged: no    *)
(* loss, crash or error leaves it in the outbox for good.                  *)
OutboxDrains == \A m \in Msg : m \in outbox ~> m \notin outbox
============================================================================
