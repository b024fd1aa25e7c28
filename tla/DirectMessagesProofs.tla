------------------------ MODULE DirectMessagesProofs ------------------------
(***************************************************************************)
(* Theorems of DirectMessages, for any set of messages and any bound on    *)
(* the copies in flight. The outbox keeps its contract whatever interleaves*)
(* and whatever goes wrong; the head of a thread is its newest message     *)
(* when a post, an acceptance and a deletion do not interleave.            *)
(***************************************************************************)
EXTENDS DirectMessages, TLAPS, WellFoundedInduction

USE MessagesAssumption

LEMMA PeerFacts ==
  ASSUME NEW i \in Install
  PROVE  Peer(i) \in Install /\ Peer(i) # i /\ Peer(Peer(i)) = i
BY DEF Install, Peer

\* One request more for each message of S keeps the wire's type.
LEMMA SendType ==
  ASSUME net \in [Msg -> 0..MaxCopies], NEW S
  PROVE  /\ Send(net, S) \in [Msg -> 0..MaxCopies]
         /\ \A m \in Msg : Send(net, S)[m] > 0 => net[m] > 0 \/ m \in S
BY DEF Send

LEMMA InitType == Init => TypeOK
BY DEF Init, TypeOK, PostType, ThreadType, WireType, StepType, Written, Mine,
       Unwritten, Stored, NoPost, NoRead, Install

\* Only storing a post writes an envelope; it leaves the others as they are.
LEMMA StorePostType ==
  ASSUME TypeOK, NEW i \in Install, NEW m \in Msg, StorePost(i, m)
  PROVE  TypeOK'
<1> DEFINE p == poster[i].msg
<1>1. /\ p \in known[i] \cup {NoMsg}
      /\ p \in Written \cup {NoMsg}
      /\ m \notin Written
  BY DEF StorePost, TypeOK, StepType, ThreadType, NoPost
<1>2. /\ post' = [post EXCEPT ![m] = Envelope(i, p)]
      /\ post'[m] = Envelope(i, p)
      /\ \A n \in Msg \ {m} : post'[n] = post[n]
  BY DEF StorePost, TypeOK, PostType
<1>3. ClockOf(p) \in Nat
  BY <1>1 DEF ClockOf, TypeOK, PostType, Written
<1>4. Envelope(i, p) # Unwritten
  BY <1>3 DEF Envelope, Unwritten
<1>5. Written' = Written \cup {m}
  BY <1>2, <1>4 DEF Written
<1>6. \A j \in Install : Mine(j)' = IF j = i THEN Mine(j) \cup {m} ELSE Mine(j)
  BY <1>1, <1>2, <1>5 DEF Mine, Envelope, Written
<1>7. PostType'
  <2>1. post' \in [Msg -> [author : Install \cup {NoMsg}, clock : Nat,
                           parent : Msg \cup {NoMsg}]]
    BY <1>1, <1>2, <1>3 DEF Envelope, TypeOK, PostType, Written
  <2>2. ASSUME NEW n \in Written'
        PROVE  /\ post'[n].author \in Install
               /\ post'[n].parent \in (Written' \ {n}) \cup {NoMsg}
               /\ post'[n].clock =
                    (IF post'[n].parent = NoMsg
                       THEN 0 ELSE post'[post'[n].parent].clock) + 1
    <3>1. CASE n = m
      <4>1. /\ post'[n].author = i /\ post'[n].parent = p
            /\ post'[n].clock = ClockOf(p) + 1
        BY <3>1, <1>2 DEF Envelope
      <4>2. p # m /\ (p # NoMsg => p \in Written /\ post'[p] = post[p])
        BY <1>1, <1>2 DEF Written
      <4> QED BY <3>1, <4>1, <4>2, <1>1, <1>5 DEF ClockOf
    <3>2. CASE n # m
      BY <3>2, <1>1, <1>2, <1>5 DEF ClockOf, Written, TypeOK, PostType
    <3> QED BY <3>1, <3>2
  <2> QED BY <2>1, <2>2 DEF PostType, ClockOf
<1>8. ThreadType'
  BY <1>1, <1>5, <1>6 DEF StorePost, TypeOK, ThreadType
<1>9. Stored \subseteq Stored'
  BY <1>1, <1>2, <1>5, PeerFacts
  DEF Stored, StorePost, TypeOK, ThreadType, PostType, Written
<1>10. WireType'
  BY <1>5, <1>9 DEF StorePost, TypeOK, WireType, queue, wire
<1>11. StepType'
  BY <1>1, <1>6, PeerFacts DEF StorePost, TypeOK, StepType, ThreadType, NoPost, NoRead
<1> QED BY <1>7, <1>8, <1>10, <1>11 DEF TypeOK

\* The other steps of a post leave what is written and stored as it is.
LEMMA PostStepType ==
  ASSUME TypeOK, NEW i \in Install,
         \/ BeginPost(i) \/ ShowPost(i) \/ QueuePost(i)
         \/ QueueFails(i) \/ PostFails(i)
  PROVE  TypeOK'
<1>1. UNCHANGED <<post, known>>
  BY DEF BeginPost, ShowPost, QueuePost, QueueFails, PostFails, thread
<1>2. /\ Written' = Written /\ Stored' = Stored
      /\ \A j : Mine(j)' = Mine(j)
      /\ PostType'
  BY <1>1 DEF Written, Stored, Mine, TypeOK, PostType, ClockOf
<1>3. CASE BeginPost(i)
  BY <1>1, <1>2, <1>3
  DEF BeginPost, TypeOK, ThreadType, WireType, StepType, thread, queue, wire,
      NoPost
<1>4. CASE ShowPost(i)
  BY <1>1, <1>2, <1>4, SMTT(40)
  DEF ShowPost, TypeOK, ThreadType, WireType, StepType, queue, wire, NoPost
<1>5. CASE QueuePost(i) \/ QueueFails(i)
  <2>1. poster[i].msg \in Mine(i) /\ Mine(i) \subseteq Written
    BY <1>5 DEF QueuePost, QueueFails, TypeOK, StepType, NoPost, Mine
  <2>2. net' \in {net, Send(net, {poster[i].msg})}
    BY <1>5 DEF QueuePost, QueueFails
  <2>3. /\ net' \in [Msg -> 0..MaxCopies]
        /\ \A m \in Msg : net'[m] > 0 => m \in Written
    BY <2>1, <2>2, SendType DEF TypeOK, WireType
  <2>4. outbox' \subseteq Written /\ expired' \subseteq Written
    BY <1>5, <2>1 DEF QueuePost, QueueFails, Aged, TypeOK, WireType, queue
  <2>5. WireType'
    BY <1>5, <1>2, <2>3, <2>4
    DEF QueuePost, QueueFails, TypeOK, WireType
  <2>6. ThreadType'
    BY <1>5, <1>1, <1>2 DEF QueuePost, QueueFails, TypeOK, ThreadType, thread
  <2>7. poster' = [poster EXCEPT ![i] = NoPost] /\ reader' = reader
    BY <1>5 DEF QueuePost, QueueFails
  <2>8. StepType'
    BY <2>7, <1>1, <1>2 DEF TypeOK, StepType, NoPost
  <2> QED BY <1>2, <2>5, <2>6, <2>8 DEF TypeOK
<1>6. CASE PostFails(i)
  BY <1>1, <1>2, <1>6
  DEF PostFails, TypeOK, ThreadType, WireType, StepType, queue, wire, NoPost,
      Mine, Written
<1> QED BY <1>3, <1>4, <1>5, <1>6

LEMMA StoreMessageType ==
  ASSUME TypeOK, NEW i \in Install, NEW m \in Msg, StoreMessage(i, m)
  PROVE  TypeOK'
<1>1. /\ post' = post /\ Written' = Written
      /\ \A j : Mine(j)' = Mine(j)
      /\ PostType'
  BY DEF StoreMessage, Written, Mine, TypeOK, PostType, ClockOf
<1>2. m \in Mine(Peer(i)) /\ m \in Written
  BY DEF StoreMessage, Mine
<1>3. Stored \subseteq Stored'
  BY <1>1, PeerFacts DEF Stored, StoreMessage, TypeOK, ThreadType, PostType
<1>4. ThreadType'
  BY <1>1, <1>2 DEF StoreMessage, TypeOK, ThreadType
<1>5. WireType'
  BY <1>1, <1>2, <1>3 DEF StoreMessage, TypeOK, WireType, queue
<1>6. StepType'
  BY <1>1, <1>2
  DEF StoreMessage, TypeOK, StepType, ThreadType, NoRead, NoPost, Written
<1> QED BY <1>1, <1>4, <1>5, <1>6 DEF TypeOK

\* The other steps of an acceptance; what is acknowledged has been stored.
LEMMA AcceptStepType ==
  ASSUME TypeOK, NEW i \in Install,
         \/ \E m \in Msg : Redelivered(i, m)
         \/ Compare(i) \/ Advance(i) \/ AcceptFails(i)
         \/ HeadUnreadable(i) \/ AdvanceBlind(i)
  PROVE  TypeOK'
<1>1. UNCHANGED <<post, known>>
  BY DEF Redelivered, Compare, Advance, HeadUnreadable, AdvanceBlind,
         AcceptFails, thread
<1>2. /\ Written' = Written /\ Stored' = Stored
      /\ \A j : Mine(j)' = Mine(j)
      /\ PostType'
  BY <1>1 DEF Written, Stored, Mine, TypeOK, PostType, ClockOf
<1>3. Mine(Peer(i)) \cap known[i] \subseteq Stored
  BY PeerFacts DEF Mine, Stored
<1>4. CASE \E m \in Msg : Redelivered(i, m)
  BY <1>1, <1>2, <1>3, <1>4
  DEF Redelivered, Accepted, TypeOK, ThreadType, WireType, StepType, thread,
      queue, NoRead
<1>5. CASE Compare(i)
  <2>1. reader[i].msg \in Stored
    BY <1>3, <1>5 DEF Compare, TypeOK, StepType, NoRead
  <2>2. WireType' /\ ThreadType'
    BY <1>1, <1>2, <2>1, <1>5
    DEF Compare, Accepted, TypeOK, ThreadType, WireType, thread, queue
  <2>3. \/ reader' = [reader EXCEPT ![i] = NoRead]
        \/ reader' = [reader EXCEPT ![i] =
                         [at |-> "newer", msg |-> reader[i].msg]]
    BY <1>5 DEF Compare, Accepted, TypeOK, StepType
  <2>4. /\ reader[i].msg \in known[i] \cap Mine(Peer(i))
        /\ poster' = poster
    BY <1>5 DEF Compare, TypeOK, StepType, NoRead
  <2>5. StepType'
    <3>1. \A j \in Install : \/ reader'[j] = reader[j]
                             \/ reader'[j] = NoRead
                             \/ j = i /\ reader'[j].at = "newer"
                                      /\ reader'[j].msg = reader[j].msg
      BY <2>3 DEF TypeOK, StepType
    <3>2. reader' \in [Install -> [at : {"idle", "stored", "newer", "blind"},
                                  msg : Msg \cup {NoMsg}]]
      BY <2>3 DEF TypeOK, StepType, NoRead
    <3> QED BY <1>1, <1>2, <2>4, <3>1, <3>2 DEF TypeOK, StepType
  <2> QED BY <1>2, <2>2, <2>5 DEF TypeOK
<1>6. CASE Advance(i)
  <2>1. reader[i].msg \in Stored \cap known[i]
    BY <1>3, <1>6 DEF Advance, TypeOK, StepType, NoRead
  <2>2. WireType' /\ ThreadType'
    BY <1>1, <1>2, <2>1, <1>6
    DEF Advance, Accepted, TypeOK, ThreadType, WireType, queue, Stored, Written
  <2>3. StepType'
    BY <1>1, <1>2, <1>6
    DEF Advance, Accepted, TypeOK, StepType, NoRead, NoPost
  <2> QED BY <1>2, <2>2, <2>3 DEF TypeOK
<1>7. CASE AcceptFails(i)
  BY <1>1, <1>2, <1>7
  DEF AcceptFails, TypeOK, ThreadType, WireType, StepType, queue, wire, NoRead,
      Mine, Written
<1>8. CASE HeadUnreadable(i)
  <2>1. reader[i].msg \in known[i] \cap Mine(Peer(i)) /\ poster' = poster
    BY <1>8 DEF HeadUnreadable, TypeOK, StepType, NoRead
  <2>2. \A j \in Install : \/ reader'[j] = reader[j]
                           \/ /\ j = i /\ reader'[j].at = "blind"
                              /\ reader'[j].msg = reader[j].msg
    BY <1>8 DEF HeadUnreadable, TypeOK, StepType
  <2>3. reader' \in [Install -> [at : {"idle", "stored", "newer", "blind"},
                                msg : Msg \cup {NoMsg}]]
    BY <1>8 DEF HeadUnreadable, TypeOK, StepType
  <2>4. StepType'
    BY <1>1, <1>2, <2>1, <2>2, <2>3 DEF TypeOK, StepType
  <2>5. WireType' /\ ThreadType'
    BY <1>1, <1>2, <1>8
    DEF HeadUnreadable, TypeOK, ThreadType, WireType, thread, queue, wire
  <2> QED BY <1>2, <2>4, <2>5 DEF TypeOK
<1>9. CASE AdvanceBlind(i)
  <2>1. reader[i].msg \in Stored \cap known[i]
    BY <1>3, <1>9 DEF AdvanceBlind, TypeOK, StepType, NoRead
  <2>2. ThreadType'
    BY <1>1, <1>2, <2>1, <1>9
    DEF AdvanceBlind, TypeOK, ThreadType, Stored, Written
  <2>3. WireType'
    BY <1>2, <2>1, <1>9
    DEF AdvanceBlind, Accepted, TypeOK, WireType, queue
  <2>4. StepType'
    BY <1>1, <1>2, <1>9
    DEF AdvanceBlind, Accepted, TypeOK, StepType, NoRead, NoPost
  <2> QED BY <1>2, <2>2, <2>3, <2>4 DEF TypeOK
<1> QED BY <1>4, <1>5, <1>6, <1>7, <1>8, <1>9

LEMMA OtherStepType ==
  ASSUME TypeOK,
         \/ \E i \in Install : Retry(i) \/ DeleteThread(i) \/ Crash(i)
         \/ \E m \in Msg : AckArrives(m) \/ Lose(m) \/ LoseAck(m)
  PROVE  TypeOK'
<1>1. UNCHANGED <<post, known>>
  BY DEF Retry, DeleteThread, Crash, AckArrives, Lose, LoseAck, thread
<1>2. /\ Written' = Written /\ Stored' = Stored
      /\ \A j : Mine(j)' = Mine(j)
      /\ PostType'
  BY <1>1 DEF Written, Stored, Mine, TypeOK, PostType, ClockOf
<1>3. ASSUME NEW i \in Install, Retry(i) PROVE TypeOK'
  <2>1. PICK old \in Aged(i) :
          /\ outbox' = outbox \ old
          /\ expired' = expired \cup old
          /\ net' = Send(net, (outbox \cap Mine(i)) \ old)
    BY <1>3 DEF Retry
  <2>2. old \subseteq outbox
    BY DEF Aged
  <2>3. WireType'
    BY <1>2, <1>3, <2>1, <2>2, SendType DEF Retry, TypeOK, WireType
  <2>4. ThreadType' /\ StepType'
    BY <1>1, <1>2, <1>3 DEF Retry, TypeOK, ThreadType, StepType, thread
  <2> QED BY <1>2, <2>3, <2>4 DEF TypeOK
<1>4. ASSUME NEW i \in Install, DeleteThread(i) PROVE TypeOK'
  BY <1>1, <1>2, <1>4
  DEF DeleteThread, TypeOK, ThreadType, WireType, StepType, queue, wire, Mine,
      Written
<1>5. ASSUME NEW i \in Install, Crash(i) PROVE TypeOK'
  <2>1. Halfway(i) \subseteq known[i] /\ Halfway(i) \subseteq Msg
    BY DEF Halfway, TypeOK, StepType, ThreadType, NoPost, NoRead, Written
  <2>2. ThreadType'
    BY <1>1, <1>2, <1>5, <2>1 DEF Crash, TypeOK, ThreadType
  <2>3. WireType' /\ StepType'
    BY <1>1, <1>2, <1>5
    DEF Crash, TypeOK, WireType, StepType, queue, wire, NoPost, NoRead
  <2> QED BY <1>2, <2>2, <2>3 DEF TypeOK
<1>6. ASSUME NEW m \in Msg, AckArrives(m) \/ Lose(m) \/ LoseAck(m)
      PROVE  TypeOK'
  <2>1. ThreadType' /\ StepType'
    BY <1>1, <1>2, <1>6
    DEF AckArrives, Lose, LoseAck, TypeOK, ThreadType, StepType, thread
  <2>2. WireType'
    BY <1>2, <1>6 DEF AckArrives, Lose, LoseAck, TypeOK, WireType, queue
  <2> QED BY <1>2, <2>1, <2>2 DEF TypeOK
<1> QED BY <1>3, <1>4, <1>5, <1>6

LEMMA StutterType == TypeOK /\ UNCHANGED vars => TypeOK'
BY DEF vars, thread, queue, wire, TypeOK, PostType, ThreadType, WireType,
       StepType, Written, Mine, Stored, ClockOf

LEMMA NextType == TypeOK /\ [Next]_vars => TypeOK'
BY StorePostType, PostStepType, StoreMessageType, AcceptStepType,
   OtherStepType, StutterType
DEF Next, PostStep, AcceptStep

(* Every variable keeps its type, envelopes their Lamport clocks, and only *)
(* stored messages are acknowledged, however many messages there are.      *)
THEOREM MessagesTypeCorrect == Spec => []TypeOK
BY InitType, NextType, PTL DEF Spec

----------------------------------------------------------------------------
(* The delivery contract. A message between its storing and its queueing   *)
(* is nowhere else yet.                                                    *)
Unsent ==
  \A i \in Install : poster[i].at \in {"stored", "shown"} =>
    /\ poster[i].msg \notin outbox \cup expired \cup Stored
    /\ net[poster[i].msg] = 0

\* No message is being posted twice.
LEMMA PostersApart ==
  ASSUME TypeOK, NEW i \in Install, NEW j \in Install, i # j,
         poster[i].at \in {"stored", "shown"},
         poster[j].at \in {"stored", "shown"}
  PROVE  poster[i].msg # poster[j].msg
BY DEF TypeOK, StepType, NoPost, Mine

LEMMA StorePostContract ==
  ASSUME TypeOK, Unsent, NEW i \in Install, NEW m \in Msg, StorePost(i, m)
  PROVE  Unsent' /\ Contract!Write(m)
<1>1. /\ m \notin Written
      /\ post'[m] = Envelope(i, poster[i].msg)
      /\ \A n \in Msg \ {m} : post'[n] = post[n]
      /\ Envelope(i, poster[i].msg) # Unwritten
      /\ Envelope(i, poster[i].msg).author = i
  <2>1. poster[i].msg \in Written \cup {NoMsg}
    BY DEF StorePost, TypeOK, StepType, ThreadType, NoPost
  <2>2. ClockOf(poster[i].msg) \in Nat
    BY <2>1 DEF ClockOf, TypeOK, PostType, Written
  <2> QED BY <2>2 DEF StorePost, TypeOK, PostType, Envelope, Unwritten
<1>2. Written' = Written \cup {m}
  BY <1>1 DEF Written
<1>3. /\ m \notin known[Peer(i)]
      /\ \A j \in Install : known'[j] = known[j] \cup (IF j = i THEN {m} ELSE {})
  BY <1>1, PeerFacts DEF StorePost, TypeOK, ThreadType
<1>4. m \notin Stored'
  BY <1>1, <1>3, PeerFacts DEF Stored
<1>5. Stored' = Stored
  <2>1. ASSUME NEW n \in Msg, n # m PROVE n \in Stored' <=> n \in Stored
    <3>1. post'[n] = post[n] /\ (n \in Written' <=> n \in Written)
      BY <2>1, <1>1, <1>2
    <3>2. n \in Written => Peer(post[n].author) \in Install
      BY PeerFacts DEF TypeOK, PostType
    <3> QED BY <2>1, <3>1, <3>2, <1>3 DEF Stored
  <2> QED BY <2>1, <1>1, <1>4 DEF Stored, Written
<1>6. m \notin outbox \cup expired /\ net[m] = 0
  BY <1>1 DEF TypeOK, WireType
<1>7. Unsent'
  <2>1. \A j \in Install :
          \/ poster'[j].msg = m
          \/ poster'[j] = poster[j]
    BY DEF StorePost, TypeOK, StepType
  <2> QED BY <1>5, <1>4, <1>6, <2>1 DEF Unsent, StorePost, queue, wire
<1>8. Contract!Write(m)
  BY <1>1, <1>2, <1>5 DEF Contract!Write, StorePost, queue
<1> QED BY <1>7, <1>8

LEMMA StoreMessageContract ==
  ASSUME TypeOK, Unsent, NEW i \in Install, NEW m \in Msg, StoreMessage(i, m)
  PROVE  Unsent' /\ Contract!Store(m)
<1>1. /\ m \in Written /\ post[m].author = Peer(i) /\ m \notin known[i]
      /\ Peer(post[m].author) = i
  BY PeerFacts DEF StoreMessage, Mine
<1>2. /\ post' = post /\ Written' = Written
      /\ \A j \in Install :
           known'[j] = known[j] \cup (IF j = i THEN {m} ELSE {})
  BY DEF StoreMessage, Written, TypeOK, ThreadType
<1>3. m \notin Stored /\ Stored' = Stored \cup {m}
  <2>1. \A n \in Written : Peer(post[n].author) \in Install
    BY PeerFacts DEF TypeOK, PostType
  <2>2. \A n \in Written : n # m =>
          (n \in known'[Peer(post[n].author)]
             <=> n \in known[Peer(post[n].author)])
    BY <1>2, <2>1
  <2> QED BY <1>1, <1>2, <2>2 DEF Stored, StoreMessage, TypeOK, ThreadType
<1>4. \A j \in Install :
        poster[j].at \in {"stored", "shown"} => poster[j].msg # m
  BY DEF StoreMessage, Unsent
<1>5. net' = [net EXCEPT ![m] = @ - 1]
  BY DEF StoreMessage
<1>6. \A j \in Install : poster[j].at \in {"stored", "shown"} =>
        net'[poster[j].msg] = net[poster[j].msg]
  BY <1>4, <1>5 DEF TypeOK, WireType, StepType, NoPost, Mine, Written
<1>7. Unsent'
  BY <1>3, <1>4, <1>6 DEF Unsent, StoreMessage, queue
<1>8. Contract!Store(m)
  BY <1>1, <1>2, <1>3 DEF Contract!Store, StoreMessage, queue
<1> QED BY <1>7, <1>8

LEMMA QueuePostContract ==
  ASSUME TypeOK, Unsent, NEW i \in Install, QueuePost(i)
  PROVE  Unsent' /\ \E old \in SUBSET Msg : Contract!Queue(poster[i].msg, old)
<1> DEFINE m == poster[i].msg
<1>1. m \in Written /\ m \notin outbox \cup expired \cup Stored
  BY DEF QueuePost, Unsent, TypeOK, StepType, NoPost, Mine
<1>2. PICK old \in Aged(i) : /\ outbox' = (outbox \ old) \cup {m}
                             /\ expired' = expired \cup old
  BY DEF QueuePost
<1>3. old \subseteq outbox /\ old \in SUBSET Msg
  BY DEF Aged, TypeOK, WireType, Written
<1>4. Written' = Written /\ Stored' = Stored
  BY DEF QueuePost, thread, Written, Stored
<1>5. Contract!Queue(m, old)
  BY <1>1, <1>2, <1>3, <1>4 DEF Contract!Queue
<1>6. Unsent'
  <2>1. \A j \in Install :
          poster'[j].at \in {"stored", "shown"} =>
            /\ j # i /\ poster'[j] = poster[j] /\ poster[j].msg # m
            /\ poster[j].msg \in Msg
    BY PostersApart
    DEF QueuePost, NoPost, TypeOK, StepType, Mine, Written
  <2>2. \A n \in Msg : n # m => net'[n] = net[n]
    BY DEF QueuePost, Send
  <2> QED BY <1>2, <1>3, <1>4, <2>1, <2>2 DEF Unsent
<1> QED BY <1>3, <1>5, <1>6

\* Sending without queueing promises nothing.
LEMMA QueueFailsContract ==
  ASSUME TypeOK, Unsent, NEW i \in Install, QueueFails(i)
  PROVE  Unsent' /\ UNCHANGED Contract!vars
<1>1. Written' = Written /\ Stored' = Stored
  BY DEF QueueFails, thread, Written, Stored
<1>2. \A j \in Install :
        poster'[j].at \in {"stored", "shown"} =>
          /\ j # i /\ poster'[j] = poster[j] /\ poster[j].msg # poster[i].msg
          /\ poster[j].msg \in Msg
  BY PostersApart DEF QueueFails, NoPost, TypeOK, StepType, Mine, Written
<1>3. \A n \in Msg : n # poster[i].msg => net'[n] = net[n]
  BY DEF QueueFails, Send
<1> QED BY <1>1, <1>2, <1>3 DEF Unsent, QueueFails, queue, Contract!vars

LEMMA RetryContract ==
  ASSUME TypeOK, Unsent, NEW i \in Install, Retry(i)
  PROVE  Unsent' /\ \E old \in SUBSET Msg : Contract!Expire(old)
<1>1. PICK old \in Aged(i) :
        /\ outbox' = outbox \ old
        /\ expired' = expired \cup old
        /\ net' = Send(net, (outbox \cap Mine(i)) \ old)
  BY DEF Retry
<1>2. old \subseteq outbox /\ old \in SUBSET Msg
  BY DEF Aged, TypeOK, WireType, Written
<1>3. Written' = Written /\ Stored' = Stored
  BY DEF Retry, thread, Written, Stored
<1>4. Contract!Expire(old)
  BY <1>1, <1>2, <1>3 DEF Contract!Expire
<1>5. \A n \in Msg : n \notin outbox => net'[n] = net[n]
  BY <1>1 DEF Send
<1>6. \A j \in Install : poster[j].at \in {"stored", "shown"} =>
        poster[j].msg \in Msg
  BY DEF TypeOK, StepType, NoPost, Mine, Written
<1>7. Unsent'
  BY <1>1, <1>2, <1>3, <1>5, <1>6 DEF Unsent, Retry
<1> QED BY <1>2, <1>4, <1>7

LEMMA AckContract ==
  ASSUME TypeOK, Unsent, NEW m \in Msg, AckArrives(m)
  PROVE  Unsent' /\ Contract!Settle(m)
<1>1. Written' = Written /\ Stored' = Stored
  BY DEF AckArrives, thread, Written, Stored
<1> QED BY <1>1 DEF AckArrives, Contract!Settle, Unsent, TypeOK, WireType

\* What takes a request off the wire, or only moves a head or a step.
LEMMA QuietContract ==
  ASSUME TypeOK, Unsent,
         \/ \E i \in Install :
              \/ BeginPost(i) \/ ShowPost(i) \/ PostFails(i)
              \/ \E m \in Msg : Redelivered(i, m)
              \/ Compare(i) \/ Advance(i) \/ AcceptFails(i)
              \/ HeadUnreadable(i) \/ AdvanceBlind(i)
              \/ DeleteThread(i) \/ Crash(i)
         \/ \E m \in Msg : Lose(m) \/ LoseAck(m)
         \/ UNCHANGED vars
  PROVE  Unsent' /\ UNCHANGED Contract!vars
<1>1. UNCHANGED <<post, known, outbox, expired>>
  BY DEF BeginPost, ShowPost, PostFails, Redelivered, Compare, Advance,
         HeadUnreadable, AdvanceBlind, AcceptFails, DeleteThread, Crash, Lose, LoseAck, vars, thread, queue
<1>2. Written' = Written /\ Stored' = Stored
  BY <1>1 DEF Written, Stored
<1>3. \A n \in Msg : net[n] = 0 => net'[n] = 0
  <2>1. net' = net \/ \E m \in Msg : net[m] > 0 /\ net' = [net EXCEPT ![m] = @ - 1]
    BY DEF BeginPost, ShowPost, PostFails, Redelivered, Compare, Advance,
           HeadUnreadable, AdvanceBlind, AcceptFails, DeleteThread, Crash, Lose, LoseAck, vars, wire
  <2> QED BY <2>1 DEF TypeOK, WireType
<1> DEFINE Carried ==
      \A j \in Install : poster'[j].at \in {"stored", "shown"} =>
        /\ poster[j].at \in {"stored", "shown"}
        /\ poster'[j].msg = poster[j].msg
        /\ poster[j].msg \in Msg
<1>4. Carried
  <2>1. \A j \in Install : poster[j].at \in {"stored", "shown"} =>
          poster[j].msg \in Msg
    BY DEF TypeOK, StepType, NoPost, Mine, Written
  <2>2. \/ poster' = poster
        \/ \E i \in Install : \/ poster' = [poster EXCEPT ![i] = NoPost]
                              \/ BeginPost(i)
                              \/ ShowPost(i)
    BY DEF PostFails, Redelivered, Compare, Advance, AcceptFails,
           HeadUnreadable, AdvanceBlind, DeleteThread, Crash, Lose, LoseAck, vars
  <2>3. CASE poster' = poster
    BY <2>1, <2>3
  <2>4. ASSUME NEW i \in Install, poster' = [poster EXCEPT ![i] = NoPost]
        PROVE  Carried
    BY <2>1, <2>4 DEF TypeOK, StepType, NoPost
  <2>5. ASSUME NEW i \in Install, BeginPost(i) \/ ShowPost(i)
        PROVE  Carried
    BY <2>1, <2>5, SMTT(40) DEF BeginPost, ShowPost, TypeOK, StepType
  <2> QED BY <2>2, <2>3, <2>4, <2>5
<1> QED BY <1>1, <1>2, <1>3, <1>4 DEF Unsent, Contract!vars

LEMMA ContractStep ==
  ASSUME TypeOK, Unsent, [Next]_vars
  PROVE  Unsent' /\ [Contract!Next]_(Contract!vars)
<1>1. CASE \E i \in Install, m \in Msg : StorePost(i, m)
  BY <1>1, StorePostContract DEF Contract!Next
<1>2. CASE \E i \in Install, m \in Msg : StoreMessage(i, m)
  BY <1>2, StoreMessageContract DEF Contract!Next
<1>3. CASE \E i \in Install : QueuePost(i)
  <2>1. PICK i \in Install : QueuePost(i)
    BY <1>3
  <2>2. poster[i].msg \in Msg
    BY <2>1 DEF QueuePost, TypeOK, StepType, NoPost, Mine, Written
  <2> QED BY <2>1, <2>2, QueuePostContract DEF Contract!Next
<1>4. CASE \E i \in Install : QueueFails(i)
  BY <1>4, QueueFailsContract
<1>5. CASE \E i \in Install : Retry(i)
  BY <1>5, RetryContract DEF Contract!Next
<1>6. CASE \E m \in Msg : AckArrives(m)
  BY <1>6, AckContract DEF Contract!Next
<1> QED
  BY <1>1, <1>2, <1>3, <1>4, <1>5, <1>6, QuietContract
  DEF Next, PostStep, AcceptStep

(* The outbox forgets a message only once its recipient has stored it or   *)
(* when it has aged, and a message is stored once, after it was written,   *)
(* for any number of messages and copies, with every failure and overlap.  *)
THEOREM DeliveryKept == Spec => KeepsDeliveryContract
<1>1. Init => Unsent
  BY DEF Init, Unsent, NoPost
<1>2. Init => Contract!Init
  BY DEF Init, Contract!Init, Written, Stored
<1> QED
  BY <1>1, <1>2, InitType, NextType, ContractStep, PTL
  DEF Spec, KeepsDeliveryContract, Contract!Spec

----------------------------------------------------------------------------
(* The head of a thread, when nothing interleaves on an install: a post    *)
(* answers the head it read, so its clock passes it, and an acceptance has *)
(* compared its message with the head it moves.                            *)
Exclusive == \A i \in Install : poster[i] = NoPost \/ reader[i] = NoRead

StepsAhead ==
  \A i \in Install :
    /\ poster[i].at = "read" => poster[i].msg = head[i]
    /\ poster[i].at = "stored" => ClockOf(head[i]) <= ClockOf(poster[i].msg)
    /\ reader[i].at = "newer" => ClockOf(head[i]) <= ClockOf(reader[i].msg)

\* m is not newer than the head of i.
Behind(i, m) == head[i] # NoMsg /\ ClockOf(m) <= ClockOf(head[i])

HeadAhead ==
  \A i \in Install :
    \A m \in known[i] \ (cut[i] \cup Halfway(i)) : Behind(i, m)

HeadInv == Exclusive /\ StepsAhead /\ HeadAhead

LEMMA ClockFacts ==
  ASSUME TypeOK
  PROVE  /\ \A m \in Written : m # NoMsg /\ ClockOf(m) \in Nat \ {0}
         /\ ClockOf(NoMsg) = 0
         /\ \A i \in Install : head[i] \in Written \cup {NoMsg}
         /\ \A i \in Install : ClockOf(head[i]) \in Nat
         /\ \A i \in Install : known[i] \subseteq Written
<1>1. \A m \in Written : m # NoMsg /\ ClockOf(m) \in Nat
  BY DEF Written, TypeOK, PostType, ClockOf
<1>2. ClockOf(NoMsg) = 0
  BY DEF ClockOf
<1>3. \A m \in Written : ClockOf(m) # 0
  <2> SUFFICES ASSUME NEW m \in Written PROVE ClockOf(m) # 0
    OBVIOUS
  <2>1. ClockOf(m) = ClockOf(post[m].parent) + 1
    BY <1>1 DEF TypeOK, PostType, ClockOf
  <2>2. ClockOf(post[m].parent) \in Nat
    BY <1>1, <1>2 DEF TypeOK, PostType
  <2> QED BY <2>1, <2>2
<1>4. \A i \in Install : head[i] \in Written \cup {NoMsg}
  BY DEF TypeOK, ThreadType
<1> QED BY <1>1, <1>2, <1>3, <1>4 DEF TypeOK, ThreadType

\* The other install is where it was.
LEMMA OthersHeads ==
  ASSUME TypeOK, HeadInv, UNCHANGED post, NEW i \in Install,
         \A j \in Install \ {i} :
           /\ known'[j] = known[j] /\ head'[j] = head[j] /\ cut'[j] = cut[j]
           /\ poster'[j] = poster[j] /\ reader'[j] = reader[j],
         poster'[i] = NoPost \/ reader'[i] = NoRead,
         poster'[i].at = "read" => poster'[i].msg = head'[i],
         poster'[i].at = "stored" =>
           ClockOf(head'[i]) <= ClockOf(poster'[i].msg),
         reader'[i].at = "newer" =>
           ClockOf(head'[i]) <= ClockOf(reader'[i].msg),
         \A m \in known'[i] \ (cut'[i] \cup Halfway(i)') :
           head'[i] # NoMsg /\ ClockOf(m) <= ClockOf(head'[i])
  PROVE  HeadInv'
<1>1. \A m : ClockOf(m)' = ClockOf(m)
  BY DEF ClockOf
<1>2. \A j \in Install \ {i} : Halfway(j)' = Halfway(j)
  BY DEF Halfway
<1>3. Exclusive'
  BY DEF HeadInv, Exclusive, NoPost, NoRead
<1>4. StepsAhead'
  BY <1>1 DEF HeadInv, StepsAhead
<1>5. HeadAhead'
  BY <1>1, <1>2 DEF HeadInv, HeadAhead, Behind
<1> QED BY <1>3, <1>4, <1>5 DEF HeadInv

LEMMA StorePostHead ==
  ASSUME TypeOK, HeadInv, NEW i \in Install, NEW m \in Msg, StorePost(i, m)
  PROVE  HeadInv'
<1>1. /\ m \notin Written /\ poster[i].at = "read" /\ reader[i] = NoRead
      /\ poster[i].msg = head[i]
  BY DEF StorePost, HeadInv, Exclusive, StepsAhead, NoPost
<1>2. /\ post'[m].clock = ClockOf(head[i]) + 1
      /\ \A n \in Msg \ {m} : post'[n] = post[n]
  BY <1>1 DEF StorePost, TypeOK, PostType, Envelope
<1>3. \A n \in Written \cup {NoMsg} : ClockOf(n)' = ClockOf(n)
  BY <1>1, <1>2 DEF ClockOf, Written
<1>4. ClockOf(m)' = ClockOf(head[i]) + 1
  BY <1>2 DEF ClockOf
<1>5. /\ head' = head /\ cut' = cut /\ reader' = reader
      /\ \A j \in Install \ {i} :
           known'[j] = known[j] /\ poster'[j] = poster[j]
      /\ known'[i] = known[i] \cup {m}
      /\ poster'[i] = [at |-> "stored", msg |-> m]
  BY DEF StorePost, TypeOK, ThreadType, StepType
<1>6. /\ \A j \in Install \ {i} : Halfway(j)' = Halfway(j)
      /\ Halfway(i) = {} /\ Halfway(i)' = {m}
  BY <1>1, <1>5 DEF Halfway, NoRead
<1>7. Exclusive'
  BY <1>1, <1>5 DEF HeadInv, Exclusive, NoRead, NoPost
<1>8. StepsAhead'
  <2> SUFFICES ASSUME NEW j \in Install
               PROVE  /\ poster'[j].at = "read" => poster'[j].msg = head'[j]
                      /\ poster'[j].at = "stored" =>
                           ClockOf(head[j])' <= ClockOf(poster[j].msg)'
                      /\ reader'[j].at = "newer" =>
                           ClockOf(head[j])' <= ClockOf(reader[j].msg)'
    BY DEF StepsAhead
  <2>1. ClockOf(head[j])' = ClockOf(head[j])
    BY <1>3, <1>5, ClockFacts
  <2>2. reader[j].at = "newer" => reader[j].msg \in Written
    BY DEF TypeOK, StepType, NoRead, Mine
  <2>3. CASE j = i
    BY <2>1, <2>3, <1>1, <1>4, <1>5, ClockFacts DEF NoRead
  <2>4. CASE j # i
    <3>1. poster[j].at = "stored" => poster[j].msg \in Written
      BY DEF TypeOK, StepType, NoPost, Mine
    <3> QED BY <2>1, <2>2, <2>4, <3>1, <1>3, <1>5 DEF HeadInv, StepsAhead
  <2> QED BY <2>3, <2>4
<1>9. HeadAhead'
  <2> SUFFICES ASSUME NEW j \in Install,
                      NEW n \in known'[j] \ (cut'[j] \cup Halfway(j)')
               PROVE  Behind(j, n)'
    BY DEF HeadAhead
  <2>1. n \in known[j] \ (cut[j] \cup Halfway(j))
    BY <1>5, <1>6
  <2>2. Behind(j, n)
    BY <2>1 DEF HeadInv, HeadAhead
  <2>3. n \in Written /\ head[j] \in Written \cup {NoMsg}
    BY <2>1, ClockFacts
  <2> QED BY <2>2, <2>3, <1>3, <1>5 DEF Behind
<1> QED BY <1>7, <1>8, <1>9 DEF HeadInv

LEMMA PostHead ==
  ASSUME TypeOK, HeadInv, ~ Overlap, NEW i \in Install,
         \/ BeginPost(i) \/ ShowPost(i) \/ QueuePost(i)
         \/ QueueFails(i) \/ PostFails(i)
  PROVE  HeadInv'
<1> DEFINE p == poster[i].msg
<1>1. UNCHANGED <<post, known, reader>>
  BY DEF BeginPost, ShowPost, QueuePost, QueueFails, PostFails, thread
<1>2. reader[i] = NoRead /\ reader'[i] = NoRead
  BY <1>1
  DEF BeginPost, ShowPost, QueuePost, QueueFails, PostFails, MayBegin, Alone,
      HeadInv, Exclusive, NoPost
<1>3. \A n \in known[i] \ (cut[i] \cup Halfway(i)) : Behind(i, n)
  BY DEF HeadInv, HeadAhead
<1>4. CASE BeginPost(i)
  <2>1. /\ head' = head /\ cut' = cut
        /\ poster' = [poster EXCEPT ![i] = [at |-> "read", msg |-> head[i]]]
        /\ poster[i] = NoPost
    BY <1>4 DEF BeginPost, thread
  <2>2. poster'[i] = [at |-> "read", msg |-> head[i]]
    BY <2>1 DEF TypeOK, StepType
  <2>3. Halfway(i) = {} /\ Halfway(i)' = {}
    BY <2>1, <2>2, <1>2 DEF Halfway, NoPost
  <2> QED BY <1>1, <1>2, <1>3, <2>1, <2>2, <2>3, OthersHeads DEF Behind, NoRead
<1>5. CASE ShowPost(i)
  <2>1. /\ cut' = cut /\ poster[i].at = "stored"
        /\ \A j \in Install \ {i} : head'[j] = head[j] /\ poster'[j] = poster[j]
        /\ head'[i] = p /\ poster'[i].at = "shown"
    BY <1>5 DEF ShowPost, TypeOK, ThreadType, StepType
  <2>2. p \in Written /\ ClockOf(head[i]) <= ClockOf(p)
    BY <2>1 DEF TypeOK, StepType, NoPost, Mine, HeadInv, StepsAhead
  <2>3. Halfway(i) = {p} /\ Halfway(i)' = {}
    BY <2>1, <1>2 DEF Halfway
  <2>4. \A n \in known'[i] \ (cut'[i] \cup Halfway(i)') :
          head'[i] # NoMsg /\ ClockOf(n) <= ClockOf(head'[i])
    BY <1>1, <1>3, <2>1, <2>2, <2>3, ClockFacts DEF Behind
  <2> QED BY <1>1, <1>2, <2>1, <2>4, OthersHeads DEF NoRead
<1>6. CASE QueuePost(i) \/ QueueFails(i) \/ PostFails(i)
  <2>1. /\ head' = head
        /\ poster' = [poster EXCEPT ![i] = NoPost]
        /\ \A j \in Install \ {i} : cut'[j] = cut[j]
        /\ cut[i] \cup Halfway(i) \subseteq cut'[i]
    BY <1>6, <1>2
    DEF QueuePost, QueueFails, PostFails, thread, Halfway, TypeOK, ThreadType
  <2>2. poster'[i] = NoPost
    BY <2>1 DEF TypeOK, StepType
  <2>3. Halfway(i)' = {}
    BY <2>2, <1>2 DEF Halfway, NoPost
  <2> QED BY <1>1, <1>2, <1>3, <2>1, <2>2, <2>3, OthersHeads
          DEF Behind, NoRead, NoPost
<1> QED BY <1>4, <1>5, <1>6

LEMMA AcceptHead ==
  ASSUME TypeOK, HeadInv, ~ Overlap, NEW i \in Install, AcceptStep(i)
  PROVE  HeadInv'
<1> DEFINE r == reader[i].msg
<1>1. UNCHANGED <<post, poster>>
  BY DEF AcceptStep, Redelivered, StoreMessage, Compare, Advance, AcceptFails,
         HeadUnreadable, AdvanceBlind, thread
<1>2. poster[i] = NoPost /\ poster'[i] = NoPost
  BY <1>1
  DEF AcceptStep, Redelivered, StoreMessage, Compare, Advance, AcceptFails,
      HeadUnreadable, AdvanceBlind, MayBegin, Alone, HeadInv, Exclusive, NoRead
<1>3. \A n \in known[i] \ (cut[i] \cup Halfway(i)) : Behind(i, n)
  BY DEF HeadInv, HeadAhead
<1>4. ASSUME NEW m \in Msg, Redelivered(i, m) PROVE HeadInv'
  <2>1. /\ known' = known /\ head' = head /\ cut' = cut
        /\ reader[i] = NoRead /\ reader'[i] = NoRead
        /\ \A j \in Install \ {i} : reader'[j] = reader[j]
    BY <1>4 DEF Redelivered, Accepted, thread, TypeOK, StepType
  <2>2. Halfway(i)' = Halfway(i)
    BY <1>1, <2>1 DEF Halfway
  <2> QED BY <1>1, <1>2, <1>3, <2>1, <2>2, OthersHeads DEF Behind, NoPost, NoRead
<1>5. ASSUME NEW m \in Msg, StoreMessage(i, m) PROVE HeadInv'
  <2>1. /\ head' = head /\ cut' = cut /\ reader[i] = NoRead
        /\ known'[i] = known[i] \cup {m}
        /\ reader'[i] = [at |-> "stored", msg |-> m]
        /\ \A j \in Install \ {i} :
             known'[j] = known[j] /\ reader'[j] = reader[j]
    BY <1>5 DEF StoreMessage, TypeOK, ThreadType, StepType
  <2>2. Halfway(i) = {} /\ Halfway(i)' = {m}
    BY <1>2, <2>1 DEF Halfway, NoPost, NoRead
  <2> QED BY <1>1, <1>2, <1>3, <2>1, <2>2, OthersHeads DEF Behind, NoPost
<1>6. CASE Compare(i)
  <2>1. /\ known' = known /\ head' = head /\ cut' = cut
        /\ reader[i].at = "stored" /\ r \in Written
        /\ \A j \in Install \ {i} : reader'[j] = reader[j]
    BY <1>6 DEF Compare, Accepted, thread, TypeOK, StepType, NoRead, Mine
  <2>2. Halfway(i) = {r}
    BY <1>2, <2>1 DEF Halfway, NoPost, NoRead
  <2>3. CASE AtLeastAsNew(r, head[i])
    <3>1. reader'[i].at = "newer" /\ reader'[i].msg = r
      BY <1>6, <2>3 DEF Compare, TypeOK, StepType
    <3>2. Halfway(i)' = {r}
      BY <1>2, <3>1 DEF Halfway, NoPost, NoRead
    <3> QED BY <1>1, <1>2, <1>3, <2>1, <2>2, <2>3, <3>1, <3>2, OthersHeads,
               ClockFacts
            DEF Behind, NoPost, AtLeastAsNew
  <2>4. CASE ~ AtLeastAsNew(r, head[i])
    <3>1. reader'[i] = NoRead
      BY <1>6, <2>4 DEF Compare, Accepted, TypeOK, StepType
    <3>2. Halfway(i)' = {}
      BY <1>2, <3>1 DEF Halfway, NoPost
    <3>3. Behind(i, r)
      BY <2>1, <2>4, ClockFacts DEF AtLeastAsNew, Behind
    <3> QED BY <1>1, <1>2, <1>3, <2>1, <2>2, <3>1, <3>2, <3>3, OthersHeads
            DEF Behind, NoPost, NoRead
  <2> QED BY <2>3, <2>4
<1>7. CASE Advance(i)
  <2>1. /\ known' = known /\ cut' = cut /\ reader[i].at = "newer"
        /\ r \in Written /\ head'[i] = r /\ reader'[i] = NoRead
        /\ \A j \in Install \ {i} : head'[j] = head[j] /\ reader'[j] = reader[j]
    BY <1>7 DEF Advance, Accepted, TypeOK, ThreadType, StepType, NoRead, Mine
  <2>2. Halfway(i) = {r} /\ Halfway(i)' = {}
    BY <1>2, <2>1 DEF Halfway, NoPost, NoRead
  <2>3. ClockOf(head[i]) <= ClockOf(r)
    BY <2>1 DEF HeadInv, StepsAhead
  <2>4. \A n \in known'[i] \ (cut'[i] \cup Halfway(i)') :
          head'[i] # NoMsg /\ ClockOf(n) <= ClockOf(head'[i])
    BY <1>3, <2>1, <2>2, <2>3, ClockFacts DEF Behind
  <2> QED BY <1>1, <1>2, <2>1, <2>4, OthersHeads DEF NoPost, NoRead
<1>8. CASE AcceptFails(i)
  <2>1. /\ known' = known /\ head' = head /\ reader'[i] = NoRead
        /\ \A j \in Install \ {i} : cut'[j] = cut[j] /\ reader'[j] = reader[j]
        /\ cut[i] \cup Halfway(i) \subseteq cut'[i]
    BY <1>8, <1>2
    DEF AcceptFails, TypeOK, ThreadType, StepType, Halfway, NoPost
  <2>2. Halfway(i)' = {}
    BY <1>2, <2>1 DEF Halfway, NoPost
  <2> QED BY <1>1, <1>2, <1>3, <2>1, <2>2, OthersHeads DEF Behind, NoPost, NoRead
<1>9. CASE HeadUnreadable(i)
  <2>1. /\ known' = known /\ head' = head /\ cut' = cut
        /\ reader[i].at = "stored"
        /\ reader'[i].at = "blind" /\ reader'[i].msg = r
        /\ \A j \in Install \ {i} : reader'[j] = reader[j]
    BY <1>9 DEF HeadUnreadable, thread, TypeOK, StepType
  <2>2. Halfway(i)' = Halfway(i)
    BY <1>2, <2>1 DEF Halfway, NoPost, NoRead
  <2> QED BY <1>1, <1>2, <1>3, <2>1, <2>2, OthersHeads DEF Behind, NoPost
<1>10. CASE AdvanceBlind(i)
  <2>1. /\ known' = known /\ reader[i].at = "blind"
        /\ r \in Written /\ head'[i] = r /\ reader'[i] = NoRead
        /\ cut'[i] = cut[i] \cup {n \in known[i] : ClockOf(n) > ClockOf(r)}
        /\ \A j \in Install \ {i} : /\ head'[j] = head[j] /\ cut'[j] = cut[j]
                                   /\ reader'[j] = reader[j]
    BY <1>10
    DEF AdvanceBlind, Accepted, TypeOK, ThreadType, StepType, NoRead, Mine
  <2>2. Halfway(i)' = {}
    BY <1>2, <2>1 DEF Halfway, NoPost, NoRead
  <2>3. \A n \in known'[i] \ (cut'[i] \cup Halfway(i)') :
          head'[i] # NoMsg /\ ClockOf(n) <= ClockOf(head'[i])
    BY <2>1, ClockFacts
  <2> QED BY <1>1, <1>2, <2>1, <2>3, OthersHeads DEF NoPost, NoRead
<1> QED BY <1>4, <1>5, <1>6, <1>7, <1>8, <1>9, <1>10 DEF AcceptStep

LEMMA OtherHead ==
  ASSUME TypeOK, HeadInv, ~ Overlap,
         \/ \E i \in Install : Retry(i) \/ DeleteThread(i) \/ Crash(i)
         \/ \E m \in Msg : AckArrives(m) \/ Lose(m) \/ LoseAck(m)
         \/ UNCHANGED vars
  PROVE  HeadInv'
<1>1. ASSUME NEW i \in Install, DeleteThread(i) PROVE HeadInv'
  <2>1. /\ UNCHANGED <<post, known, poster, reader>>
        /\ poster[i] = NoPost /\ reader[i] = NoRead
        /\ cut'[i] = known[i]
        /\ \A j \in Install \ {i} : head'[j] = head[j] /\ cut'[j] = cut[j]
    BY <1>1 DEF DeleteThread, MayBegin, Alone, TypeOK, ThreadType
  <2> QED BY <2>1, OthersHeads DEF NoPost, NoRead
<1>2. ASSUME NEW i \in Install, Crash(i) PROVE HeadInv'
  <2>1. /\ UNCHANGED <<post, known, head>>
        /\ poster'[i] = NoPost /\ reader'[i] = NoRead
        /\ cut'[i] = cut[i] \cup Halfway(i)
        /\ \A j \in Install \ {i} : /\ cut'[j] = cut[j]
                                   /\ poster'[j] = poster[j]
                                   /\ reader'[j] = reader[j]
    BY <1>2 DEF Crash, TypeOK, ThreadType, StepType
  <2>2. \A n \in known[i] \ (cut[i] \cup Halfway(i)) : Behind(i, n)
    BY DEF HeadInv, HeadAhead
  <2> QED BY <2>1, <2>2, OthersHeads DEF Behind, NoPost, NoRead
<1>3. CASE UNCHANGED <<thread, poster, reader>>
  BY <1>3
  DEF thread, HeadInv, Exclusive, StepsAhead, HeadAhead, Behind, Halfway, ClockOf
<1> QED BY <1>1, <1>2, <1>3 DEF Retry, AckArrives, Lose, LoseAck, vars

(* The head of a settled thread is at least as new as every message the    *)
(* install has stored and nothing cut off, for any number of messages, if  *)
(* a post, an acceptance and a deletion do not interleave on an install.   *)
(* A head that could not be read when a message arrived cuts off only what *)
(* is newer than that message.                                             *)
THEOREM HeadKeptNewest ==
  ASSUME ~ Overlap
  PROVE  Spec => []HeadIsNewest
<1>1. Init => HeadInv
  BY DEF Init, HeadInv, Exclusive, StepsAhead, HeadAhead, NoPost, NoRead
<1>2. TypeOK /\ HeadInv /\ [Next]_vars => HeadInv'
  BY StorePostHead, PostHead, AcceptHead, OtherHead DEF Next, PostStep
<1>3. TypeOK /\ HeadInv => HeadIsNewest
  <2> SUFFICES ASSUME TypeOK, HeadInv, NEW i \in Install, Settled(i),
                      NEW m \in known[i] \ cut[i]
               PROVE  head[i] # NoMsg /\ ClockOf(m) <= ClockOf(head[i])
    BY DEF HeadIsNewest
  <2>1. Halfway(i) = {}
    BY DEF Settled, Halfway
  <2> QED BY <2>1 DEF HeadInv, HeadAhead, Behind
<1> QED BY <1>1, <1>2, <1>3, InitType, NextType, PTL DEF Spec

----------------------------------------------------------------------------
(* Threads. Clocks count the messages of a conversation in which each      *)
(* answers the one before, and going back from the newest meets them all.  *)

LEMMA LeastNumber ==
  ASSUME NEW T \in SUBSET Nat, T # {}
  PROVE  \E x \in T : \A y \in T : x <= y
<1> DEFINE R == {p \in Nat \X Nat : p[1] < p[2]}
<1>1. IsWellFoundedOn(R, Nat)
  BY NatLessThanWellFounded DEF OpToRel
<1>2. \A x, y \in Nat : y < x => <<y, x>> \in R
  OBVIOUS
<1> HIDE DEF R
<1>3. PICK x \in T : \A y \in T : ~ (<<y, x>> \in R)
  BY <1>1, WFMin
<1>4. ASSUME NEW y \in T PROVE x <= y
  <2>1. x \in Nat /\ y \in Nat
    OBVIOUS
  <2>2. ~ (y < x)
    BY <1>2, <1>3, <2>1
  <2> QED BY <2>1, <2>2
<1> QED BY <1>4

\* What a message answers is written, and one older.
LEMMA ParentFacts ==
  ASSUME TypeOK, NEW m \in Written
  PROVE  /\ post[m].parent \in Written \cup {NoMsg}
         /\ ClockOf(m) = ClockOf(post[m].parent) + 1
         /\ ClockOf(m) = 1 <=> post[m].parent = NoMsg
<1>1. /\ post[m].parent \in Written \cup {NoMsg}
      /\ ClockOf(m) = ClockOf(post[m].parent) + 1
  BY ClockFacts DEF TypeOK, PostType, ClockOf
<1> QED BY <1>1, ClockFacts

LEMMA ClocksDiffer ==
  ASSUME TypeOK, Linear, NEW m \in Written, NEW n \in Written,
         ClockOf(m) = ClockOf(n)
  PROVE  m = n
<1> DEFINE Twice == {k \in Nat : \E a, b \in Written :
                       a # b /\ ClockOf(a) = k /\ ClockOf(b) = k}
<1> SUFFICES ASSUME Twice # {} PROVE FALSE
  BY ClockFacts
<1>1. PICK k \in Twice : \A l \in Twice : k <= l
  BY LeastNumber
<1>2. PICK a \in Written, b \in Written :
        a # b /\ ClockOf(a) = k /\ ClockOf(b) = k
  BY <1>1
<1> DEFINE p == post[a].parent
           q == post[b].parent
<1>3. p # q
  BY <1>2 DEF Linear
<1>4. /\ p \in Written \cup {NoMsg} /\ q \in Written \cup {NoMsg}
      /\ k = ClockOf(p) + 1 /\ k = ClockOf(q) + 1
      /\ k = 1 <=> p = NoMsg
      /\ k = 1 <=> q = NoMsg
  BY <1>2, ParentFacts
<1> HIDE DEF p, q
<1>5. p \in Written /\ q \in Written
  BY <1>3, <1>4
<1>6. ClockOf(p) \in Nat /\ ClockOf(q) \in Nat
  BY <1>5, ClockFacts
<1>7. ClockOf(p) = ClockOf(q) /\ ClockOf(p) < k
  BY <1>4, <1>6
<1>8. ClockOf(p) \in Twice
  BY <1>3, <1>5, <1>6, <1>7
<1> QED BY <1>1, <1>6, <1>7, <1>8

\* A set that holds the head and what its messages answer holds a message of
\* every clock up to the head's.
LEMMA EveryClockShown ==
  ASSUME TypeOK, NEW i \in Install, known[i] = Written, head[i] # NoMsg,
         NEW S \in SUBSET known[i], Shown(i, S),
         NEW c \in 1..ClockOf(head[i])
  PROVE  \E m \in S : ClockOf(m) = c
<1> DEFINE h == ClockOf(head[i])
           Met(x) == \E m \in S : ClockOf(m) = x
           Missed == {d \in 0..(h - 1) : ~ Met(h - d)}
<1>1. h \in Nat /\ head[i] \in Written
  BY ClockFacts
<1> SUFFICES ASSUME ~ Met(c) PROVE FALSE
  OBVIOUS
<1>2. h - c \in Missed /\ Missed \in SUBSET Nat
  BY <1>1
<1>3. PICK d \in Missed : \A e \in Missed : d <= e
  BY <1>2, LeastNumber
<1>4. head[i] \in S
  BY <1>1 DEF Shown
<1>5. d # 0
  BY <1>1, <1>3, <1>4
<1>6. d - 1 \in 0..(h - 1) /\ d - 1 \notin Missed
  BY <1>1, <1>3, <1>5
<1>7. PICK m \in S : ClockOf(m) = h - (d - 1)
  BY <1>6
<1>8. m \in Written /\ ClockOf(m) # 1
  BY <1>1, <1>3, <1>7
<1>9. /\ post[m].parent \in Written
      /\ ClockOf(m) = ClockOf(post[m].parent) + 1
  BY <1>8, ParentFacts
<1>10. post[m].parent \in S
  BY <1>7, <1>9 DEF Shown
<1>11. ClockOf(post[m].parent) = h - d
  BY <1>1, <1>3, <1>7, <1>9, ClockFacts
<1> QED BY <1>3, <1>10, <1>11

LEMMA LinearThreadIsWhole ==
  ASSUME TypeOK, Linear, NEW i \in Install, known[i] = Written,
         \A m \in known[i] : Behind(i, m)
  PROVE  Thread(i) = Written
<1>1. Thread(i) \subseteq Written
  BY DEF Thread
<1>2. ASSUME NEW m \in Written, NEW S \in SUBSET known[i], Shown(i, S)
      PROVE  m \in S
  <2>1. head[i] # NoMsg /\ ClockOf(m) \in 1..ClockOf(head[i])
    BY ClockFacts DEF Behind
  <2>2. PICK n \in S : ClockOf(n) = ClockOf(m)
    BY <1>2, <2>1, EveryClockShown
  <2> QED BY <2>2, ClocksDiffer
<1> QED BY <1>1, <1>2 DEF Thread

(* Both threads show the whole of a conversation in which each message     *)
(* answers the one before, once it is delivered whole, for any number of   *)
(* messages, if a post, an acceptance and a deletion do not interleave on  *)
(* an install.                                                             *)
THEOREM LinearThreadsCohere ==
  ASSUME ~ Overlap
  PROVE  Spec => []LinearThreadsAgree
<1>1. Init => HeadInv
  BY DEF Init, HeadInv, Exclusive, StepsAhead, HeadAhead, NoPost, NoRead
<1>2. TypeOK /\ HeadInv /\ [Next]_vars => HeadInv'
  BY StorePostHead, PostHead, AcceptHead, OtherHead DEF Next, PostStep
<1>3. TypeOK /\ HeadInv => LinearThreadsAgree
  <2> SUFFICES ASSUME TypeOK, HeadInv, AllDelivered, Linear, NEW i \in Install
               PROVE  Thread(i) = Written
    BY DEF LinearThreadsAgree
  <2>1. Halfway(i) = {} /\ known[i] = Written /\ cut[i] = {}
    BY DEF AllDelivered, Settled, Halfway
  <2>2. \A m \in known[i] : Behind(i, m)
    BY <2>1 DEF HeadInv, HeadAhead
  <2> QED BY <2>1, <2>2, LinearThreadIsWhole
<1> QED BY <1>1, <1>2, <1>3, InitType, NextType, PTL DEF Spec
============================================================================
