---------------------------- MODULE SessionProofs ----------------------------
(***************************************************************************)
(* Theorems of Session, for every Keep and EveryTurns, every choice of     *)
(* OnExit and any number of blocks.                                        *)
(*                                                                         *)
(*   SessionTypeCorrect    every variable keeps its type, and the graph of *)
(*                         the blocks has no cycle                         *)
(*   ChainKept             the next automatic checkpoint continues the one *)
(*                         before, whatever happens                        *)
(*   TrimKeepsHistory      trimming frees no conversation, unless a resume *)
(*                         has failed                                      *)
(*   CalmSessionsAreSound  when nothing fails and no collection comes      *)
(*                         during a model call, named checkpoints can be   *)
(*                         resumed and the conversation is whole           *)
(***************************************************************************)
EXTENDS Session, TLAPS, FiniteSetTheorems, WellFoundedInduction

USE SessionAssumption

----------------------------------------------------------------------------
(* The log and the session. Of a block only its kind decides its fields;   *)
(* a checkpoint snapshots a conversation and follows a checkpoint, a       *)
(* conversation lists turns and continues a conversation.                  *)
Block == [kind : {"memory"}]
         \cup [kind : {"turn"}, context : SUBSET Nat]
         \cup [kind : {"conversation"}, turns : Seq(Nat), parent : Nat]
         \cup [kind : {"checkpoint"}, root : Nat, parent : Nat]

Of(k) == {b \in Cid : log[b].kind = k}

\* What block r, put as the n-th, says of blocks put before it.
TurnGood(r, n) ==
  r.context \subseteq (Of("memory") \cup Of("checkpoint")) \cap 1..(n - 1)
ConversationGood(r, n) ==
  /\ Elements(r.turns) \subseteq Of("turn") \cap 1..(n - 1)
  /\ r.parent \in {0} \cup (Of("conversation") \cap 1..(n - 1))
CheckpointGood(r, n) ==
  /\ r.root \in Of("conversation") \cap 1..(n - 1)
  /\ r.parent \in {0} \cup (Of("checkpoint") \cap 1..(n - 1))
BlockGood(r, n) ==
  /\ r.kind = "turn" => TurnGood(r, n)
  /\ r.kind = "conversation" => ConversationGood(r, n)
  /\ r.kind = "checkpoint" => CheckpointGood(r, n)

LogInv ==
  /\ log \in Seq(Block)
  /\ \A b \in Cid : BlockGood(log[b], b)

NamesGood(m) ==
  /\ m \in [Name -> Nat]
  /\ m["note"] \in {0} \cup Of("memory")
  /\ m["conversation"] \in {0} \cup Of("conversation")
  /\ \A n \in {"latest", "milestone"} : m[n] \in {0} \cup Of("checkpoint")

StateInv ==
  /\ disk \subseteq Cid
  /\ NamesGood(names)
  /\ NamesGood(view)
  /\ phase \in {"off", "ready", "asked", "recorded"}
  /\ turns \in Seq(Nat) /\ Elements(turns) \subseteq Of("turn")
  /\ head \in {0} \cup Of("conversation")
  /\ last \in {0} \cup Of("checkpoint")
  /\ loaded \subseteq Of("memory") \cup Of("checkpoint")
  /\ since \in Nat
  /\ faults \subseteq Events
  /\ strayed \in BOOLEAN

PhaseInv ==
  /\ phase = "off" => last = 0 /\ head = 0 /\ turns = <<>> /\ loaded = {}
  /\ phase = "recorded" => head # 0
  /\ phase = "asked" =>
       \E b \in Of("turn") : \A c \in Of("turn") : c <= b

SessionInv == LogInv /\ StateInv /\ PhaseInv

LEMMA CidRange == LogInv => Cid = 1..Len(log) /\ Len(log) \in Nat
BY DEF LogInv, Cid

\* The fields a block has.
LEMMA Fields ==
  ASSUME LogInv, NEW b \in Cid
  PROVE  /\ log[b].kind \in {"memory", "turn", "conversation", "checkpoint"}
         /\ log[b].kind = "turn" => log[b].context \subseteq Nat
         /\ log[b].kind = "conversation" =>
              log[b].turns \in Seq(Nat) /\ log[b].parent \in Nat
         /\ log[b].kind = "checkpoint" =>
              log[b].root \in Nat /\ log[b].parent \in Nat
<1>1. log[b] \in Block
  BY DEF LogInv, Cid
<1> QED
  BY <1>1 DEF Block

\* One more block.
Grows(r) ==
  /\ Len(log') = Len(log) + 1
  /\ log'[Len(log) + 1] = r
  /\ \A b \in Cid : log'[b] = log[b]
  /\ Cid' = Cid \cup {Len(log) + 1}
  /\ Len(log) + 1 \notin Cid
  /\ disk' = disk \cup {Len(log) + 1}

LEMMA PutOne ==
  ASSUME LogInv, NEW r \in Block, PutAll(<<r>>)
  PROVE  Grows(r) /\ log' \in Seq(Block)
<1>1. log \in Seq(Block) /\ Len(log) \in Nat /\ Cid = 1..Len(log)
  BY CidRange DEF LogInv
<1>2. log' = log \o <<r>>
  BY DEF PutAll
<1>3. log' = Append(log, r)
  BY <1>1, <1>2
<1>4. /\ log' \in Seq(Block) /\ Len(log') = Len(log) + 1
      /\ log'[Len(log) + 1] = r
      /\ \A b \in 1..Len(log) : log'[b] = log[b]
  BY <1>1, <1>3
<1>5. Cid' = 1..(Len(log) + 1)
  BY <1>1, <1>4 DEF Cid
<1>6. (Len(log) + 1)..(Len(log) + Len(<<r>>)) = {Len(log) + 1}
  BY <1>1
<1>7. disk' = disk \cup {Len(log) + 1}
  BY <1>6 DEF PutAll
<1> QED
  BY <1>1, <1>4, <1>5, <1>7 DEF Grows

\* The blocks there were keep their kinds and the log stays good.
LEMMA LogGrows ==
  ASSUME LogInv, NEW r \in Block, PutAll(<<r>>), BlockGood(r, Len(log) + 1)
  PROVE  /\ LogInv'
         /\ \A k : Of(k)' = Of(k) \cup (IF r.kind = k THEN {Len(log) + 1} ELSE {})
<1>1. Grows(r) /\ log' \in Seq(Block)
  BY PutOne
<1>2. \A k : Of(k)' = Of(k) \cup (IF r.kind = k THEN {Len(log) + 1} ELSE {})
  BY <1>1 DEF Of, Grows
<1>3. ASSUME NEW s, NEW n, BlockGood(s, n)
      PROVE  BlockGood(s, n)'
  <2>1. \A k : Of(k) \subseteq Of(k)'
    BY <1>2
  <2> QED
    BY <1>3, <2>1
    DEF BlockGood, TurnGood, ConversationGood, CheckpointGood, Elements
<1>4. ASSUME NEW b \in Cid' PROVE BlockGood(log[b], b)'
  <2>1. CASE b = Len(log) + 1
    BY <1>1, <1>3, <2>1 DEF Grows
  <2>2. CASE b \in Cid
    BY <1>1, <1>3, <2>2 DEF Grows, LogInv
  <2> QED
    BY <1>1, <2>1, <2>2 DEF Grows
<1> QED
  BY <1>1, <1>2, <1>4 DEF LogInv

\* The names are good, and stay so as the log grows.
LEMMA NamesStay ==
  ASSUME NEW m, NamesGood(m), \A k : Of(k) \subseteq Of(k)'
  PROVE  NamesGood(m)'
BY DEF NamesGood

LEMMA KindFacts ==
  ASSUME LogInv
  PROVE  /\ \A k : Of(k) \subseteq Cid
         /\ 0 \notin Cid
BY CidRange DEF Of

\* A list of turns with the prompt that was put last.
LEMMA AppendTurns ==
  ASSUME LogInv, turns \in Seq(Nat), NEW b \in Cid
  PROVE  /\ Append(turns, b) \in Seq(Nat)
         /\ Elements(Append(turns, b)) = Elements(turns) \cup {b}
<1> DEFINE s == Append(turns, b)
<1>1. /\ s \in Seq(Nat) /\ Len(turns) \in Nat
      /\ DOMAIN turns = 1..Len(turns) /\ DOMAIN s = 1..(Len(turns) + 1)
      /\ s[Len(turns) + 1] = b
      /\ \A i \in 1..Len(turns) : s[i] = turns[i]
  BY CidRange
<1> HIDE DEF s
<1>2. Elements(s) \subseteq Elements(turns) \cup {b}
  <2> SUFFICES ASSUME NEW i \in 1..(Len(turns) + 1)
               PROVE  s[i] \in Elements(turns) \cup {b}
    BY <1>1 DEF Elements
  <2>1. i \in 1..Len(turns) \/ i = Len(turns) + 1
    BY <1>1
  <2> QED
    BY <1>1, <2>1 DEF Elements
<1>3. b \in Elements(s)
  BY <1>1 DEF Elements
<1>4. Elements(turns) \subseteq Elements(s)
  BY <1>1 DEF Elements
<1> QED
  BY <1>1, <1>2, <1>3, <1>4 DEF s

\* The prompt of the call in progress has been put.
LEMMA AskedPut ==
  ASSUME LogInv, PhaseInv, phase = "asked"
  PROVE  Asked \in Of("turn") /\ Asked \in Cid
<1> DEFINE IsAsked(b) == /\ log[b].kind = "turn"
                        /\ \A c \in Cid : c > b => log[c].kind # "turn"
<1>1. PICK b \in Cid : IsAsked(b)
  BY CidRange DEF PhaseInv, Of
<1> HIDE DEF IsAsked
<1>2. IsAsked(Asked) /\ Asked \in Cid
  <2>1. Asked = CHOOSE x \in Cid : IsAsked(x)
    BY Zenon DEF Asked, IsAsked
  <2> QED
    BY <1>1, <2>1
<1> QED
  BY <1>2 DEF IsAsked, Of

\* Steps that put nothing.
LEMMA QuietStep ==
  ASSUME SessionInv, UNCHANGED log,
         \/ Start \/ RecordFails \/ Crash \/ Collect
         \/ \E b \in Cid : Load(b) \/ Resume(b) \/ ResumeFails(b),
         UNCHANGED faults, strayed' \in BOOLEAN
  PROVE  SessionInv'
<1> USE DEF SessionInv
<1>1. Cid' = Cid /\ \A k : Of(k)' = Of(k)
  BY DEF Cid, Of
<1>2. LogInv'
  <2>1. ASSUME NEW b \in Cid PROVE BlockGood(log[b], b)'
    <3>1. BlockGood(log[b], b)
      BY DEF LogInv
    <3> QED
      BY <1>1, <3>1
      DEF BlockGood, TurnGood, ConversationGood, CheckpointGood, Elements
  <2> QED
    BY <1>1, <2>1 DEF LogInv
<1>3. \A m : NamesGood(m) => NamesGood(m)'
  BY <1>1 DEF NamesGood
<1>4. CASE Start
  BY <1>1, <1>2, <1>3, <1>4 DEF Start, StateInv, PhaseInv
<1>5. CASE RecordFails
  <2>1. Asked \in Of("turn") /\ Asked \in Cid
    BY <1>5, AskedPut DEF RecordFails, Of
  <2>2. /\ turns' = Append(turns, Asked)
        /\ phase' = "ready"
        /\ UNCHANGED <<disk, names, view, head, loaded, last, since>>
    BY <1>5 DEF RecordFails
  <2>3. turns' \in Seq(Nat) /\ Elements(turns)' \subseteq Of("turn")
    BY <2>1, <2>2, AppendTurns DEF StateInv
  <2>4. StateInv'
    BY <1>1, <1>3, <2>2, <2>3 DEF StateInv
  <2> QED
    BY <1>2, <2>2, <2>4 DEF PhaseInv
<1>6. CASE Crash
  <2>1. NamesGood(Unbound)
    BY DEF NamesGood, Unbound, Name
  <2>2. <<>> \in Seq(Nat) /\ Elements(<<>>) = {}
    BY DEF Elements
  <2> QED
    BY <1>1, <1>2, <1>3, <1>6, <2>1, <2>2 DEF Crash, Off, StateInv, PhaseInv
<1>7. CASE Collect
  <2>1. disk' \subseteq Cid
    BY <1>7 DEF Collect, Reach
  <2>2. UNCHANGED <<names, session>>
    BY <1>7 DEF Collect
  <2> QED
    BY <1>1, <1>2, <1>3, <2>1, <2>2 DEF session, StateInv, PhaseInv
<1>8. ASSUME NEW b \in Cid, Load(b) PROVE SessionInv'
  BY <1>1, <1>2, <1>3, <1>8 DEF Load, StateInv, PhaseInv, Of
<1>9. ASSUME NEW b \in Cid, Resume(b) \/ ResumeFails(b) PROVE SessionInv'
  <2>1. b \in Of("checkpoint") /\ b \in Cid
    BY <1>9 DEF Resume, ResumeFails, ResumeTarget, IsCheckpoint, Of
  <2>2. log[b].root \in Of("conversation")
    BY <2>1 DEF LogInv, BlockGood, CheckpointGood, Of
  <2>3. /\ head' \in Of("conversation")
        /\ turns' = log[head'].turns
        /\ phase = "ready" /\ phase' = "ready"
        /\ UNCHANGED <<disk, names, view>>
    BY <1>9, <2>2 DEF Resume, ResumeFails
  <2>4. turns' \in Seq(Nat) /\ Elements(turns') \subseteq Of("turn")
    <3>1. head' \in Cid /\ log[head'].kind = "conversation"
      BY <2>3 DEF Of
    <3> HIDE DEF SessionInv
    <3>2. LogInv
      BY DEF SessionInv
    <3> QED
      BY <2>3, <3>1, <3>2, Fields
      DEF LogInv, BlockGood, ConversationGood, Elements
  <2>5. Context(turns') \subseteq Of("memory") \cup Of("checkpoint")
    <3> SUFFICES ASSUME NEW t \in Elements(turns')
                 PROVE  log[t].context \subseteq Of("memory") \cup Of("checkpoint")
      BY DEF Context
    <3>1. t \in Cid /\ log[t].kind = "turn"
      BY <2>4 DEF Of
    <3> QED
      BY <3>1 DEF LogInv, BlockGood, TurnGood
  <2>6. /\ last' = b \/ last' = last
        /\ loaded' = Context(turns') \/ loaded' = loaded
        /\ since' = 0 \/ since' = since
    BY <1>9 DEF Resume, ResumeFails
  <2>7. StateInv'
    <3>1. Elements(turns)' = Elements(turns')
      BY DEF Elements
    <3>2. NamesGood(names)' /\ NamesGood(view)'
      BY <1>3, <2>3 DEF StateInv
    <3>3. loaded' \subseteq Of("memory") \cup Of("checkpoint")
      BY <2>5, <2>6 DEF StateInv
    <3> QED
      BY <1>1, <2>1, <2>3, <2>4, <2>6, <3>1, <3>2, <3>3 DEF StateInv
  <2> QED
    BY <1>2, <2>3, <2>7 DEF PhaseInv
<1> QED
  BY <1>4, <1>5, <1>6, <1>7, <1>8, <1>9

\* The parts of the session that a step leaves alone stay good.
LEMMA PutStep ==
  ASSUME SessionInv, NEW r \in Block, PutAll(<<r>>), BlockGood(r, Len(log) + 1)
  PROVE  /\ LogInv' /\ disk' \subseteq Cid'
         /\ \A k : Of(k) \subseteq Of(k)'
         /\ Len(log') \in Of(r.kind)' /\ Len(log') # 0 /\ Len(log') \in Nat
         /\ Of("turn")' = IF r.kind = "turn" THEN Of("turn") \cup {Len(log')}
                                             ELSE Of("turn")
         /\ \A b \in Cid : b < Len(log')
         /\ \A m : NamesGood(m) => NamesGood(m)'
<1>1. /\ LogInv'
      /\ \A k : Of(k)' = Of(k) \cup (IF r.kind = k THEN {Len(log) + 1} ELSE {})
  BY LogGrows DEF SessionInv
<1>2. Grows(r)
  BY PutOne DEF SessionInv
<1>3. \A b \in Cid : b < Len(log')
  BY <1>2, CidRange DEF SessionInv, Grows
<1>4. Len(log') # 0 /\ Len(log') \in Nat
  BY <1>2, CidRange DEF SessionInv, Grows
<1> QED
  BY <1>1, <1>2, <1>3, <1>4, NamesStay DEF Grows, SessionInv, StateInv

\* What each put says of earlier blocks.
LEMMA PutsGood ==
  ASSUME SessionInv
  PROVE  /\ MemoryNode \in Block /\ BlockGood(MemoryNode, Len(log) + 1)
         /\ TurnNode(loaded) \in Block
         /\ BlockGood(TurnNode(loaded), Len(log) + 1)
         /\ phase = "asked" =>
              LET r == ConversationNode(Append(turns, Asked), head)
              IN  r \in Block /\ BlockGood(r, Len(log) + 1)
         /\ \A p \in {0} \cup Of("checkpoint") : head # 0 =>
              /\ CheckpointNode(head, p) \in Block
              /\ BlockGood(CheckpointNode(head, p), Len(log) + 1)
<1>1. /\ \A k : Of(k) \subseteq 1..(Len(log) + 1 - 1)
      /\ \A k : Of(k) \subseteq Nat
  BY CidRange DEF SessionInv, Of
<1>2. MemoryNode \in Block /\ BlockGood(MemoryNode, Len(log) + 1)
  BY DEF MemoryNode, Block, BlockGood
<1>3. /\ TurnNode(loaded) \in Block
      /\ BlockGood(TurnNode(loaded), Len(log) + 1)
  BY <1>1 DEF TurnNode, Block, BlockGood, TurnGood, SessionInv, StateInv
<1>4. ASSUME phase = "asked"
      PROVE  LET r == ConversationNode(Append(turns, Asked), head)
             IN  r \in Block /\ BlockGood(r, Len(log) + 1)
  <2> DEFINE s == Append(turns, Asked)
  <2>1. s \in Seq(Nat) /\ Elements(s) \subseteq Of("turn")
    BY <1>4, AskedPut, AppendTurns DEF SessionInv, StateInv
  <2> HIDE DEF s
  <2>2. head \in {0} \cup Of("conversation")
    BY DEF SessionInv, StateInv
  <2> DEFINE r == ConversationNode(s, head)
  <2>3. /\ r = [kind |-> "conversation", turns |-> s, parent |-> head]
        /\ r.kind = "conversation" /\ r.turns = s /\ r.parent = head
    BY DEF ConversationNode
  <2>4. r \in Block
    BY <1>1, <2>1, <2>2, <2>3 DEF Block
  <2>5. BlockGood(r, Len(log) + 1)
    <3> HIDE DEF r
    <3> QED
      BY <1>1, <2>1, <2>2, <2>3 DEF BlockGood, ConversationGood
  <2> QED
    BY <2>4, <2>5 DEF s
<1>5. ASSUME NEW p \in {0} \cup Of("checkpoint"), head # 0
      PROVE  /\ CheckpointNode(head, p) \in Block
             /\ BlockGood(CheckpointNode(head, p), Len(log) + 1)
  <2>1. head \in Of("conversation")
    BY <1>5 DEF SessionInv, StateInv
  <2> QED
    BY <1>1, <1>5, <2>1 DEF CheckpointNode, Block, BlockGood, CheckpointGood
<1> QED
  BY <1>2, <1>3, <1>4, <1>5

LEMMA GrowStep ==
  ASSUME SessionInv, UNCHANGED <<faults, strayed>>,
         \/ Ask \/ Record \/ RebindNote
         \/ \E n \in {"latest", "milestone"} : ManualCheckpoint(n)
  PROVE  SessionInv'
<1>1. CASE Ask
  <2>1. /\ PutAll(<<TurnNode(loaded)>>)
        /\ phase' = "asked"
        /\ UNCHANGED <<names, view, turns, head, loaded, since, last>>
    BY <1>1 DEF Ask
  <2> DEFINE r == TurnNode(loaded)
  <2>2. r \in Block /\ BlockGood(r, Len(log) + 1) /\ r.kind = "turn"
    BY PutsGood DEF TurnNode
  <2> HIDE DEF r
  <2>3. /\ LogInv' /\ disk' \subseteq Cid'
        /\ \A k : Of(k) \subseteq Of(k)'
        /\ Len(log') \in Of("turn")'
        /\ Of("turn")' = Of("turn") \cup {Len(log')}
        /\ \A b \in Cid : b < Len(log')
        /\ \A m : NamesGood(m) => NamesGood(m)'
        /\ Len(log') \in Nat
    BY <2>1, <2>2, PutStep DEF r
  <2>4. StateInv'
    <3>1. Elements(turns)' = Elements(turns)
      BY <2>1 DEF Elements
    <3>2. NamesGood(names)' /\ NamesGood(view)'
      BY <2>1, <2>3 DEF SessionInv, StateInv
    <3> QED
      BY <2>1, <2>3, <3>1, <3>2 DEF SessionInv, StateInv
  <2>5. PhaseInv'
    <3>1. \A c \in Of("turn")' : c <= Len(log')
      BY <2>3, CidRange DEF Of, SessionInv
    <3> QED
      BY <2>1, <2>3, <3>1 DEF PhaseInv
  <2> QED
    BY <2>3, <2>4, <2>5 DEF SessionInv
<1>2. CASE Record
  <2>1. /\ phase = "asked" /\ phase' = "recorded"
        /\ turns' = Append(turns, Asked)
        /\ head' = Len(log')
        /\ view' = [view EXCEPT !["conversation"] = Len(log')]
        /\ names' = view'
        /\ UNCHANGED <<loaded, since, last>>
    BY <1>2 DEF Record, Bind
  <2> DEFINE r == ConversationNode(Append(turns, Asked), head)
  <2>2. r \in Block /\ BlockGood(r, Len(log) + 1) /\ r.kind = "conversation"
    BY <2>1, PutsGood DEF ConversationNode
  <2>3. PutAll(<<r>>)
    BY <1>2, <2>1 DEF Record
  <2> HIDE DEF r
  <2>4. /\ LogInv' /\ disk' \subseteq Cid'
        /\ \A k : Of(k) \subseteq Of(k)'
        /\ Len(log') \in Of("conversation")'
        /\ Len(log') # 0 /\ Len(log') \in Nat
        /\ \A m : NamesGood(m) => NamesGood(m)'
    BY <2>2, <2>3, PutStep
  <2>5. turns' \in Seq(Nat) /\ Elements(turns)' \subseteq Of("turn")
    BY <2>1, AskedPut, AppendTurns DEF SessionInv, StateInv
  <2>6. NamesGood(view)' /\ NamesGood(names)'
    <3>1. NamesGood(view) /\ view \in [Name -> Nat]
      BY DEF SessionInv, StateInv, NamesGood
    <3> QED
      BY <2>1, <2>4, <3>1 DEF NamesGood, Name
  <2>7. StateInv'
    BY <2>1, <2>4, <2>5, <2>6 DEF SessionInv, StateInv
  <2> QED
    BY <2>1, <2>4, <2>7 DEF SessionInv, PhaseInv
<1>3. CASE RebindNote
  <2>1. /\ PutAll(<<MemoryNode>>)
        /\ names' = [names EXCEPT !["note"] = Len(log')]
        /\ UNCHANGED session
    BY <1>3 DEF RebindNote
  <2>2. MemoryNode \in Block /\ BlockGood(MemoryNode, Len(log) + 1)
        /\ MemoryNode.kind = "memory"
    BY PutsGood DEF MemoryNode
  <2>3. /\ LogInv' /\ disk' \subseteq Cid'
        /\ \A k : Of(k) \subseteq Of(k)'
        /\ Len(log') \in Of("memory")' /\ Len(log') \in Nat
        /\ Of("turn")' = Of("turn")
        /\ \A m : NamesGood(m) => NamesGood(m)'
    BY <2>1, <2>2, PutStep
  <2>4. NamesGood(names)' /\ NamesGood(view)'
    <3>1. NamesGood(names) /\ names \in [Name -> Nat] /\ NamesGood(view)
      BY DEF SessionInv, StateInv, NamesGood
    <3>2. NamesGood(view)'
      BY <2>1, <2>3, <3>1 DEF session
    <3>3. NamesGood(names)'
      BY <2>1, <2>3, <3>1 DEF NamesGood, Name
    <3> QED
      BY <3>2, <3>3
  <2>5. StateInv'
    BY <2>1, <2>3, <2>4 DEF SessionInv, StateInv, session, Elements
  <2> QED
    BY <2>1, <2>3, <2>5 DEF SessionInv, PhaseInv, session
<1>4. ASSUME NEW n \in {"latest", "milestone"}, ManualCheckpoint(n)
      PROVE  SessionInv'
  <2>1. /\ PutAll(<<CheckpointNode(head, 0)>>)
        /\ phase = "ready" /\ head # 0
        /\ view' = [view EXCEPT ![n] = Len(log')]
        /\ names' = view'
        /\ UNCHANGED <<phase, turns, head, loaded, since, last>>
    BY <1>4 DEF ManualCheckpoint, Bind
  <2> DEFINE r == CheckpointNode(head, 0)
  <2>2. r \in Block /\ BlockGood(r, Len(log) + 1) /\ r.kind = "checkpoint"
    BY <2>1, PutsGood DEF CheckpointNode
  <2> HIDE DEF r
  <2>3. /\ LogInv' /\ disk' \subseteq Cid'
        /\ \A k : Of(k) \subseteq Of(k)'
        /\ Len(log') \in Of("checkpoint")' /\ Len(log') \in Nat
        /\ \A m : NamesGood(m) => NamesGood(m)'
    BY <2>1, <2>2, PutStep DEF r
  <2>4. NamesGood(view)' /\ NamesGood(names)'
    <3>1. NamesGood(view) /\ view \in [Name -> Nat]
      BY DEF SessionInv, StateInv, NamesGood
    <3> QED
      BY <2>1, <2>3, <3>1 DEF NamesGood, Name
  <2>5. StateInv'
    BY <2>1, <2>3, <2>4 DEF SessionInv, StateInv, Elements
  <2> QED
    BY <2>1, <2>3, <2>5 DEF SessionInv, PhaseInv
<1> QED
  BY <1>1, <1>2, <1>3, <1>4

\* An automatic checkpoint, on the cadence or at the end.
LEMMA SnapshotStep ==
  ASSUME SessionInv, UNCHANGED <<faults, strayed>>, MaybeCheckpoint \/ Exit
  PROVE  SessionInv'
<1>1. ASSUME PutSnapshot, head # 0
      PROVE  /\ LogInv' /\ disk' \subseteq Cid'
             /\ \A k : Of(k) \subseteq Of(k)'
             /\ Len(log') \in Of("checkpoint")' /\ Len(log') \in Nat
             /\ \A m : NamesGood(m) => NamesGood(m)'
             /\ NamesGood(names)'
  <2> DEFINE r == CheckpointNode(head, last)
  <2>1. last \in {0} \cup Of("checkpoint")
    BY DEF SessionInv, StateInv
  <2>2. r \in Block /\ BlockGood(r, Len(log) + 1) /\ r.kind = "checkpoint"
    BY <1>1, <2>1, PutsGood DEF CheckpointNode
  <2>3. PutAll(<<r>>)
    BY <1>1 DEF PutSnapshot
  <2> HIDE DEF r
  <2>4. /\ LogInv' /\ disk' \subseteq Cid'
        /\ \A k : Of(k) \subseteq Of(k)'
        /\ Len(log') \in Of("checkpoint")' /\ Len(log') \in Nat
        /\ \A m : NamesGood(m) => NamesGood(m)'
    BY <2>2, <2>3, PutStep
  <2>5. NamesGood(names)'
    <3>1. /\ NamesGood(view) /\ view \in [Name -> Nat]
          /\ names' = [view EXCEPT !["latest"] = Len(log')]
      BY <1>1 DEF SessionInv, StateInv, NamesGood, PutSnapshot
    <3> QED
      BY <2>4, <3>1 DEF NamesGood, Name
  <2> QED
    BY <2>4, <2>5
<1>2. ASSUME UNCHANGED <<log, disk, names>>
      PROVE  /\ LogInv' /\ disk' \subseteq Cid'
             /\ \A k : Of(k) \subseteq Of(k)'
             /\ \A m : NamesGood(m) => NamesGood(m)'
             /\ NamesGood(names)'
  <2>1. Cid' = Cid /\ \A k : Of(k)' = Of(k)
    BY <1>2 DEF Cid, Of
  <2>2. ASSUME NEW b \in Cid PROVE BlockGood(log[b], b)'
    <3>1. BlockGood(log[b], b)
      BY DEF SessionInv, LogInv
    <3> QED
      BY <1>2, <2>1, <3>1
      DEF BlockGood, TurnGood, ConversationGood, CheckpointGood, Elements
  <2>3. \A m : NamesGood(m) => NamesGood(m)'
    BY <2>1, NamesStay
  <2> QED
    BY <1>2, <2>1, <2>2, <2>3 DEF SessionInv, LogInv, StateInv
<1>3. CASE MaybeCheckpoint
  <2>1. /\ phase = "recorded" /\ phase' = "ready" /\ head # 0
        /\ UNCHANGED <<turns, head, loaded>>
    BY <1>3 DEF MaybeCheckpoint, SessionInv, PhaseInv
  <2>2. \/ PutSnapshot /\ view' = names' /\ last' = Len(log') /\ since' = 0
        \/ since' = since + 1 /\ UNCHANGED <<log, disk, names, view, last>>
    BY <1>3 DEF MaybeCheckpoint
  <2>3. /\ LogInv' /\ disk' \subseteq Cid'
        /\ \A k : Of(k) \subseteq Of(k)'
        /\ NamesGood(names)' /\ NamesGood(view)'
        /\ last' \in {0} \cup Of("checkpoint")'
    BY <1>1, <1>2, <2>1, <2>2 DEF SessionInv, StateInv
  <2>4. since' \in Nat
    BY <2>2 DEF SessionInv, StateInv
  <2>5. StateInv'
    BY <2>1, <2>3, <2>4 DEF SessionInv, StateInv, Elements
  <2> QED
    BY <2>1, <2>3, <2>5 DEF SessionInv, PhaseInv
<1>4. CASE Exit
  <2>1. /\ Off
        /\ (PutSnapshot /\ head # 0) \/ UNCHANGED <<log, disk, names>>
    BY <1>4 DEF Exit
  <2>2. /\ LogInv' /\ disk' \subseteq Cid'
        /\ \A k : Of(k) \subseteq Of(k)'
        /\ \A m : NamesGood(m) => NamesGood(m)'
        /\ NamesGood(names)'
    BY <1>1, <1>2, <2>1
  <2>3. NamesGood(Unbound) /\ <<>> \in Seq(Nat) /\ Elements(<<>>) = {}
    BY DEF NamesGood, Unbound, Name, Elements
  <2>4. NamesGood(view)'
    BY <2>1, <2>2, <2>3 DEF Off
  <2>5. StateInv'
    BY <2>1, <2>2, <2>3, <2>4 DEF SessionInv, StateInv, Off, Elements
  <2> QED
    BY <2>1, <2>2, <2>5 DEF SessionInv, PhaseInv, Off
<1> QED
  BY <1>3, <1>4

LEMMA StutterStep == SessionInv /\ UNCHANGED vars => SessionInv'
<1> SUFFICES ASSUME SessionInv, UNCHANGED vars PROVE SessionInv'
  OBVIOUS
<1>1. Cid' = Cid /\ \A k : Of(k)' = Of(k)
  BY DEF Cid, Of, vars
<1>2. ASSUME NEW b \in Cid PROVE BlockGood(log[b], b)'
  <2>1. BlockGood(log[b], b)
    BY DEF SessionInv, LogInv
  <2> QED
    BY <1>1, <2>1
    DEF BlockGood, TurnGood, ConversationGood, CheckpointGood, Elements, vars
<1>3. LogInv'
  BY <1>1, <1>2 DEF SessionInv, LogInv, vars
<1>4. StateInv' /\ PhaseInv'
  BY <1>1 DEF SessionInv, StateInv, PhaseInv, NamesGood, Elements, vars, session
<1> QED
  BY <1>3, <1>4 DEF SessionInv

LEMMA SessionStep == SessionInv /\ [Next]_vars => SessionInv'
<1> SUFFICES ASSUME SessionInv, [Next]_vars PROVE SessionInv'
  OBVIOUS
<1>1. CASE UNCHANGED vars
  BY <1>1, StutterStep
<1>2. CASE Next
  <2>1. UNCHANGED faults /\ strayed' \in BOOLEAN
    BY <1>2 DEF Next, SessionInv, StateInv
  <2>2. CASE Start \/ RecordFails \/ Crash \/ Collect
             \/ \E b \in Cid : Load(b) \/ Resume(b) \/ ResumeFails(b)
    <3>1. UNCHANGED log
      BY <2>2 DEF Start, RecordFails, Crash, Collect, Load, Resume, ResumeFails
    <3> QED
      BY <2>1, <2>2, <3>1, QuietStep
  <2>3. CASE UNCHANGED strayed /\ Step
    BY <2>1, <2>2, <2>3, GrowStep, SnapshotStep DEF Step
  <2> QED
    BY <1>2, <2>2, <2>3 DEF Next
<1> QED
  BY <1>1, <1>2

LEMMA SessionStart == Init => SessionInv
<1> SUFFICES ASSUME Init PROVE SessionInv
  OBVIOUS
<1>1. /\ log = <<MemoryNode>> /\ Cid = {1} /\ log[1].kind = "memory"
      /\ log[1] \in Block
  BY DEF Init, MemoryNode, Cid, Block
<1>2. Of("memory") = {1} /\ \A k : k # "memory" => Of(k) = {}
  BY <1>1 DEF Of
<1>3. LogInv
  BY <1>1 DEF LogInv, BlockGood
<1>4. NamesGood(names) /\ NamesGood(view)
  BY <1>2 DEF Init, NamesGood, Unbound, Name
<1>5. StateInv /\ PhaseInv
  <2>1. turns \in Seq(Nat) /\ Elements(turns) = {}
    BY DEF Init, Elements
  <2>2. /\ phase = "off" /\ head = 0 /\ last = 0 /\ since = 0 /\ loaded = {}
        /\ disk = {1} /\ turns = <<>> /\ strayed \in BOOLEAN
        /\ faults \subseteq Events
    BY DEF Init
  <2> QED
    BY <1>1, <1>4, <2>1, <2>2 DEF StateInv, PhaseInv
<1> QED
  BY <1>3, <1>5 DEF SessionInv

LEMMA SessionTyped == SessionInv => TypeOK
<1> SUFFICES ASSUME SessionInv PROVE TypeOK
  OBVIOUS
<1>1. /\ Cid = 1..Len(log) /\ Len(log) \in Nat
      /\ \A k : Of(k) \subseteq Cid
  BY CidRange DEF SessionInv, Of
<1>2. ASSUME NEW b \in Cid
      PROVE  /\ log[b].kind \in {"memory", "turn", "conversation", "checkpoint"}
             /\ \A l \in BlockLinks(b) : l < b
  <2>1. log[b].kind \in {"memory", "turn", "conversation", "checkpoint"}
    BY Fields DEF SessionInv
  <2>2. BlockGood(log[b], b) /\ b \in Nat
    BY <1>1 DEF SessionInv, LogInv
  <2>3. CASE log[b].kind = "memory"
    BY <2>1, <2>3 DEF BlockLinks
  <2>4. CASE log[b].kind = "turn"
    <3>1. BlockLinks(b) \subseteq log[b].context
      BY <2>4 DEF BlockLinks
    <3> QED
      BY <2>1, <2>2, <2>4, <3>1 DEF BlockGood, TurnGood
  <2>5. CASE log[b].kind = "conversation"
    <3>1. BlockLinks(b) \subseteq Elements(log[b].turns) \cup ({log[b].parent} \ {0})
      BY <2>5 DEF BlockLinks
    <3> QED
      BY <2>1, <2>2, <2>5, <3>1 DEF BlockGood, ConversationGood
  <2>6. CASE log[b].kind = "checkpoint"
    <3>1. BlockLinks(b) \subseteq {log[b].root, log[b].parent} \ {0}
      BY <2>6 DEF BlockLinks
    <3> QED
      BY <2>1, <2>2, <2>6, <3>1 DEF BlockGood, CheckpointGood
  <2> QED
    BY <2>1, <2>3, <2>4, <2>5, <2>6
<1>3. turns \in Seq(Cid)
  <2>1. turns \in Seq(Nat) /\ \A i \in DOMAIN turns : turns[i] \in Cid
    BY <1>1 DEF SessionInv, StateInv, Elements
  <2> QED
    BY <2>1
<1>4. \A m : NamesGood(m) => m \in [Name -> Ids]
  <2> SUFFICES ASSUME NEW m, NamesGood(m), NEW n \in Name PROVE m[n] \in Ids
    BY DEF NamesGood
  <2> QED
    BY <1>1 DEF NamesGood, Name, Ids
<1>5. names \in [Name -> Ids] /\ view \in [Name -> Ids]
  BY <1>4 DEF SessionInv, StateInv
<1>6. head \in Ids /\ last \in Ids /\ loaded \subseteq Cid
  <2>1. /\ head \in {0} \cup Of("conversation") /\ last \in {0} \cup Of("checkpoint")
        /\ loaded \subseteq Of("memory") \cup Of("checkpoint")
    BY DEF SessionInv, StateInv
  <2>2. {0} \cup Cid \subseteq Ids
    BY <1>1 DEF Ids
  <2> QED
    BY <1>1, <2>1, <2>2
<1>7. /\ disk \subseteq Cid /\ since \in Nat
      /\ phase \in {"off", "ready", "asked", "recorded"}
      /\ faults \subseteq Events /\ strayed \in BOOLEAN
  BY DEF SessionInv, StateInv
<1> QED
  BY <1>2, <1>3, <1>5, <1>6, <1>7 DEF TypeOK

\* Every variable keeps its type, every block links to earlier ones only, and
\* the session refers to blocks that exist, whatever happens.
THEOREM SessionTypeCorrect == Spec => []TypeOK
BY SessionStart, SessionStep, SessionTyped, PTL DEF Spec

----------------------------------------------------------------------------
(* What a conversation continues. The history of a conversation is settled *)
(* when it is put: later blocks neither add to it nor take from it.        *)

LEMMA HistoryFacts ==
  ASSUME LogInv
  PROVE  /\ \A c : History(c) \subseteq Of("conversation")
         /\ \A c \in Of("conversation") : c \in History(c)
         /\ \A c, d : d \in History(c) /\ log[d].parent # 0
                      => log[d].parent \in History(c)
         /\ \A c, d : d \in History(c) => History(d) \subseteq History(c)
         /\ History(0) = {}
<1>1. Conversations = Of("conversation") /\ 0 \notin Conversations
  BY CidRange DEF Conversations, Of
<1>2. \A c \in Of("conversation") :
        log[c].parent \in {0} \cup Of("conversation")
  BY DEF LogInv, BlockGood, ConversationGood, Of
<1>3. ASSUME NEW c \in Of("conversation") PROVE c \in History(c)
  <2>1. c # 0
    BY <1>1
  <2> QED
    BY <1>1, <2>1 DEF History, Continues
<1>4. ASSUME NEW c, NEW d \in History(c), log[d].parent # 0
      PROVE  log[d].parent \in History(c)
  BY <1>1, <1>2, <1>4 DEF History, Continues
<1>5. ASSUME NEW c, NEW d \in History(c) PROVE History(d) \subseteq History(c)
  <2> SUFFICES ASSUME NEW x \in History(d),
                      NEW S \in SUBSET Conversations, Continues(c, S)
               PROVE  x \in S
    BY DEF History
  <2>1. Continues(d, S)
    BY DEF History, Continues
  <2> QED
    BY <2>1 DEF History
<1>6. History(0) = {}
  <2>1. Continues(0, {})
    BY DEF Continues
  <2> QED
    BY <2>1 DEF History
<1> QED
  BY <1>1, <1>3, <1>4, <1>5, <1>6 DEF History

\* The log has grown, or is what it was.
Extended ==
  /\ Cid \subseteq Cid'
  /\ \A b \in Cid : log'[b] = log[b]

LEMMA HistoryStays ==
  ASSUME LogInv, LogInv', Extended, NEW c \in {0} \cup Of("conversation")
  PROVE  History(c)' = History(c)
<1>1. /\ Conversations = Of("conversation") /\ 0 \notin Conversations
      /\ Conversations \subseteq Conversations' /\ Conversations \subseteq Cid
  BY CidRange DEF Conversations, Of, Extended
<1>2. \A d \in Conversations :
        /\ log'[d] = log[d]
        /\ log[d].parent \in {0} \cup Conversations
  BY <1>1 DEF LogInv, BlockGood, ConversationGood, Of, Extended
<1>3. ASSUME NEW x \in History(c) PROVE x \in History(c)'
  <2> SUFFICES ASSUME NEW S \in SUBSET Conversations', Continues(c, S)'
               PROVE  x \in S
    BY <1>1, <1>3 DEF History
  <2>1. Continues(c, S \cap Conversations)
    BY <1>1, <1>2 DEF Continues
  <2> QED
    BY <2>1 DEF History
<1>4. ASSUME NEW x \in History(c)' PROVE x \in History(c)
  <2>1. ASSUME NEW S \in SUBSET Conversations, Continues(c, S)
        PROVE  x \in S
    <3>1. Continues(c, S)' /\ S \in SUBSET Conversations'
      BY <1>1, <1>2, <2>1 DEF Continues
    <3> QED
      BY <3>1, <1>4 DEF History
  <2>2. Continues(c, Conversations)
    BY <1>1, <1>2 DEF Continues
  <2> QED
    BY <2>1, <2>2 DEF History
<1> QED
  BY <1>3, <1>4

\* A conversation that continues head has its history, and itself.
LEMMA HistoryGrows ==
  ASSUME LogInv, LogInv', Extended, NEW c \in Of("conversation")',
         c \notin Cid, NEW h \in {0} \cup Of("conversation"),
         log'[c].parent = h
  PROVE  History(c)' = {c} \cup History(h)
<1>1. /\ Conversations = Of("conversation") /\ 0 \notin Conversations
      /\ Conversations \subseteq Conversations' /\ Conversations \subseteq Cid
      /\ c \in Conversations'
  BY CidRange DEF Conversations, Of, Extended
<1>2. /\ \A d \in Conversations : log'[d] = log[d]
      /\ c # 0
  BY <1>1 DEF Extended, Of, LogInv, Cid
<1>3. /\ History(h)' = History(h) /\ History(h) \subseteq Conversations
      /\ \A d \in History(h) : log[d].parent # 0 => log[d].parent \in History(h)
      /\ h # 0 => h \in History(h)
  BY <1>1, HistoryStays, HistoryFacts
<1>4. ASSUME NEW x \in History(c)' PROVE x \in {c} \cup History(h)
  <2>1. PICK S \in SUBSET Conversations' : S = {c} \cup History(h)
    BY <1>1, <1>3
  <2>2. Continues(c, S)'
    BY <1>1, <1>2, <1>3, <2>1 DEF Continues
  <2> QED
    BY <1>4, <2>1, <2>2 DEF History
<1>5. c \in History(c)'
  BY <1>1, <1>2 DEF History, Continues
<1>6. History(h) \subseteq History(c)'
  <2> SUFFICES ASSUME NEW x \in History(h)',
                      NEW S \in SUBSET Conversations', Continues(c, S)'
               PROVE  x \in S
    BY <1>3 DEF History
  <2>1. Continues(h, S)'
    BY <1>2 DEF Continues
  <2> QED
    BY <2>1 DEF History
<1> QED
  BY <1>4, <1>5, <1>6

\* Histories go back: none contains a later conversation.
LEMMA HistoryBelow ==
  ASSUME LogInv
  PROVE  /\ \A c \in Of("conversation") : \A h \in History(c) : h <= c
         /\ \A c, h \in Of("conversation") :
              h \in History(c) /\ c \in History(h) => h = c
<1>1. /\ Conversations = Of("conversation") /\ 0 \notin Conversations
      /\ Conversations \subseteq Nat
      /\ \A d \in Conversations : log[d].parent # 0 =>
           log[d].parent \in Conversations /\ log[d].parent < d
  <2>1. Cid \subseteq Nat /\ Conversations = Of("conversation")
        /\ 0 \notin Conversations /\ Conversations \subseteq Cid
    BY CidRange DEF Conversations, Of
  <2>2. \A d \in Conversations :
          log[d].parent \in {0} \cup (Of("conversation") \cap 1..(d - 1))
    BY <2>1 DEF LogInv, BlockGood, ConversationGood, Of
  <2>3. ASSUME NEW d \in Conversations, log[d].parent # 0
        PROVE  log[d].parent < d
    <3>1. d \in Nat /\ log[d].parent \in 1..(d - 1)
      BY <2>1, <2>2, <2>3
    <3> QED
      BY <3>1
  <2> QED
    BY <2>1, <2>2, <2>3
<1>2. ASSUME NEW c \in Conversations, NEW h \in History(c) PROVE h <= c
  <2>1. PICK T \in SUBSET Conversations : T = {x \in Conversations : x <= c}
    OBVIOUS
  <2>2. Continues(c, T)
    BY <1>1, <2>1 DEF Continues
  <2> QED
    BY <2>1, <2>2 DEF History
<1>3. ASSUME NEW c \in Conversations, NEW h \in Conversations,
             h \in History(c), c \in History(h)
      PROVE  h = c
  <2>1. h <= c /\ c <= h
    BY <1>2, <1>3
  <2> QED
    BY <1>1, <2>1
<1> QED
  BY <1>1, <1>2, <1>3

\* What conversation a continues since c.
Between(a, c) == History(a) \ History(c)

\* The way back from a to c ends with a link to c.
LEMMA LinkBack ==
  ASSUME LogInv, NEW a \in Of("conversation"), NEW c \in History(a), c # a
  PROVE  \E d \in Between(a, c) : log[d].parent = c
<1> SUFFICES ASSUME \A d \in Between(a, c) : log[d].parent # c PROVE FALSE
  OBVIOUS
<1>1. PICK T \in SUBSET Conversations : T = History(a) \ {c}
  BY DEF History
<1>2. a \in T /\ c \in Of("conversation")
  BY <1>1, HistoryFacts
<1>3. ASSUME NEW d \in T, log[d].parent # 0 PROVE log[d].parent \in T
  <2>1. log[d].parent \in History(a) /\ d \in Of("conversation")
    BY <1>1, <1>3, HistoryFacts
  <2>2. log[d].parent # c
    <3>1. SUFFICES ASSUME log[d].parent = c PROVE d \notin History(c)
      BY <1>1 DEF Between
    <3>2. d \in Nat /\ log[d].parent \in 1..(d - 1)
      BY <1>3, <2>1, CidRange DEF LogInv, BlockGood, ConversationGood, Of
    <3> QED
      BY <1>2, <3>1, <3>2, HistoryBelow
  <2> QED
    BY <1>1, <2>1, <2>2
<1>4. Continues(a, T)
  BY <1>2, <1>3 DEF Continues
<1> QED
  BY <1>1, <1>4 DEF History

----------------------------------------------------------------------------
(* What a collection keeps. That links go to earlier blocks only makes the *)
(* recursion of Reach well defined.                                        *)

LEMMA LinksBack ==
  ASSUME LogInv, NEW a \in Cid, NEW b \in BlockLinks(a)
  PROVE  b \in Cid /\ b < a
<1>1. /\ log[a].kind \in {"memory", "turn", "conversation", "checkpoint"}
      /\ BlockGood(log[a], a) /\ a \in 1..Len(log) /\ Len(log) \in Nat
      /\ \A k : Of(k) \subseteq Cid
  BY Fields, CidRange DEF LogInv, Of
<1>2. CASE log[a].kind = "memory"
  BY <1>2 DEF BlockLinks
<1>3. CASE log[a].kind = "turn"
  <2>1. b \in log[a].context
    BY <1>3 DEF BlockLinks
  <2> QED
    BY <1>1, <1>3, <2>1 DEF BlockGood, TurnGood
<1>4. CASE log[a].kind = "conversation"
  <2>1. b \in Elements(log[a].turns) \cup ({log[a].parent} \ {0})
    BY <1>4 DEF BlockLinks
  <2> QED
    BY <1>1, <1>4, <2>1 DEF BlockGood, ConversationGood
<1>5. CASE log[a].kind = "checkpoint"
  <2>1. b \in {log[a].root, log[a].parent} \ {0}
    BY <1>5 DEF BlockLinks
  <2> QED
    BY <1>1, <1>5, <2>1 DEF BlockGood, CheckpointGood
<1> QED
  BY <1>1, <1>2, <1>3, <1>4, <1>5

IsReached(f, roots, cut) ==
  f = [b \in Cid |->
         /\ b \in disk \ cut
         /\ \/ b \in roots
            \/ \E a \in (b + 1)..Len(log) : b \in BlockLinks(a) /\ f[a]]

LEMMA ReachFacts ==
  ASSUME LogInv, NEW roots, NEW cut
  PROVE  /\ Reach(roots, cut) \subseteq Cid \cap disk
         /\ \A b \in roots : b \in (disk \cap Cid) \ cut => b \in Reach(roots, cut)
         /\ \A a \in Reach(roots, cut) : \A b \in BlockLinks(a) :
              b \in disk \ cut => b \in Reach(roots, cut)
<1> DEFINE Open == (disk \cap Cid) \ cut
           Grown(S) == /\ roots \cap Open \subseteq S
                       /\ \A a \in S : BlockLinks(a) \cap Open \subseteq S
           Least == {b \in Open : \A S \in SUBSET Open : Grown(S) => b \in S}
           f == [b \in Cid |-> b \in Least]
<1>1. /\ Cid = 1..Len(log) /\ Len(log) \in Nat
      /\ \A a \in Cid : \A b \in BlockLinks(a) : b \in Cid /\ b < a
  BY CidRange, LinksBack
<1>2. Grown(Least)
  OBVIOUS
<1>3. ASSUME NEW b \in Least
      PROVE  b \in roots \/ \E a \in Least : b \in BlockLinks(a)
  <2> DEFINE T == {x \in Least :
                     x \in roots \/ \E a \in Least : x \in BlockLinks(a)}
  <2>1. T \in SUBSET Open /\ Grown(T)
    BY <1>2
  <2> QED
    BY <2>1
<1>4. ASSUME NEW b \in Cid
      PROVE  b \in Least
               <=> /\ b \in disk \ cut
                   /\ \/ b \in roots
                      \/ \E a \in (b + 1)..Len(log) : b \in BlockLinks(a) /\ f[a]
  <2> HIDE DEF Least
  <2>1. Least \subseteq Open
    BY DEF Least
  <2>2. \A a \in Cid : f[a] = (a \in Least)
    OBVIOUS
  <2> HIDE DEF f
  <2>3. \A a \in Least : b \in BlockLinks(a) => a \in (b + 1)..Len(log)
    BY <1>1, <2>1
  <2>4. (b + 1)..Len(log) \subseteq Cid
    BY <1>1
  <2> QED
    BY <1>2, <1>3, <2>1, <2>2, <2>3, <2>4
<1>5. IsReached(f, roots, cut)
  <2> HIDE DEF Least
  <2> DEFINE kept(b) == /\ b \in disk \ cut
                       /\ \/ b \in roots
                          \/ \E a \in (b + 1)..Len(log) :
                               b \in BlockLinks(a) /\ f[a]
  <2>1. \A b \in Cid : (b \in Least) = kept(b)
    <3> SUFFICES ASSUME NEW b \in Cid PROVE (b \in Least) = kept(b)
      OBVIOUS
    <3>1. (b \in Least) <=> kept(b)
      BY <1>4
    <3>2. kept(b) \in BOOLEAN /\ (b \in Least) \in BOOLEAN
      OBVIOUS
    <3> HIDE DEF kept
    <3> QED
      BY <3>1, <3>2
  <2>2. f = [b \in Cid |-> kept(b)]
    <3> HIDE DEF kept
    <3> QED
      BY <2>1
  <2> HIDE DEF f
  <2> QED
    BY <2>2, Zenon DEF IsReached
<1> HIDE DEF f, Least
<1> DEFINE g == CHOOSE h : IsReached(h, roots, cut)
<1>6. IsReached(g, roots, cut)
  BY <1>5
<1>7. Reach(roots, cut) = {b \in Cid : g[b]}
  BY Zenon DEF Reach, IsReached
<1> HIDE DEF g
<1>8. \A b \in Cid :
        g[b] <=> /\ b \in disk \ cut
                 /\ \/ b \in roots
                    \/ \E a \in (b + 1)..Len(log) : b \in BlockLinks(a) /\ g[a]
  BY <1>6 DEF IsReached
<1>9. ASSUME NEW a \in Cid, g[a], NEW b \in BlockLinks(a), b \in disk \ cut
      PROVE  b \in Cid /\ g[b]
  <2>1. b \in Cid /\ a \in (b + 1)..Len(log)
    BY <1>1
  <2> QED
    BY <1>8, <1>9, <2>1
<1> QED
  BY <1>7, <1>8, <1>9

----------------------------------------------------------------------------
(* The chain of checkpoints. Of the steps that move head or last, only a   *)
(* resume that fails moves the one without the other.                      *)

LEMMA StepExtends == SessionInv /\ [Next]_vars => Extended
<1> SUFFICES ASSUME SessionInv, [Next]_vars PROVE Extended
  OBVIOUS
<1>1. CASE UNCHANGED log
  BY <1>1 DEF Extended, Cid
<1>2. ASSUME NEW r \in Block, PutAll(<<r>>) PROVE Extended
  BY <1>2, PutOne DEF Extended, Grows, SessionInv
<1>3. CASE Ask
  BY <1>2, <1>3, PutsGood DEF Ask
<1>4. CASE Record
  BY <1>2, <1>4, PutsGood DEF Record
<1>5. CASE RebindNote
  BY <1>2, <1>5, PutsGood DEF RebindNote
<1>6. ASSUME NEW n \in {"latest", "milestone"}, ManualCheckpoint(n)
      PROVE  Extended
  BY <1>2, <1>6, PutsGood DEF ManualCheckpoint
<1>7. CASE PutSnapshot /\ head # 0
  BY <1>2, <1>7, PutsGood DEF PutSnapshot, SessionInv, StateInv
<1>8. CASE MaybeCheckpoint \/ Exit
  BY <1>1, <1>7, <1>8 DEF MaybeCheckpoint, Exit, SessionInv, PhaseInv
<1> QED
  BY <1>1, <1>3, <1>4, <1>5, <1>6, <1>8
  DEF Next, Step, Start, RecordFails, Crash, Collect, Load, Resume,
      ResumeFails, vars

\* What a step does to the head and to the checkpoint that is chained to.
NewConversation ==
  /\ head' \in Of("conversation")' /\ head' \notin Cid
  /\ log'[head'].parent = head
  /\ last' = last
NewCheckpoint ==
  /\ last' \in Of("checkpoint")' /\ last' \notin Cid
  /\ log'[last'].root = head /\ log'[last'].parent = last
  /\ head' = head /\ head # 0
TurnsGrow ==
  /\ turns' = turns \/ (phase = "asked" /\ turns' = Append(turns, Asked))
  /\ disk' \cap Cid \subseteq disk

LEMMA HeadMoves ==
  ASSUME SessionInv, SessionInv', [Next]_vars
  PROVE  \/ last' = 0 /\ head' = 0
         \/ UNCHANGED <<head, last>> /\ TurnsGrow
         \/ NewConversation /\ TurnsGrow
         \/ NewCheckpoint /\ TurnsGrow
         \/ UNCHANGED log /\ \E b \in Of("checkpoint") :
               /\ head' = log[b].root
               /\ \/ last' = b
                  \/ strayed' = TRUE /\ ~ ContextReadable(turns)'
<1>1. CASE Start
  BY <1>1 DEF Start, SessionInv, PhaseInv
<1>2. CASE Crash \/ Exit
  BY <1>2 DEF Crash, Exit, Off
<1>3. CASE Collect
  <2>1. disk' \subseteq disk /\ UNCHANGED session
    BY <1>3, ReachFacts DEF Collect, SessionInv
  <2> QED
    BY <2>1 DEF session, TurnsGrow
<1>4. ASSUME NEW b \in Cid, Load(b) PROVE UNCHANGED <<head, last>> /\ TurnsGrow
  BY <1>4 DEF Load, TurnsGrow
<1>5. CASE RecordFails
  BY <1>5 DEF RecordFails, TurnsGrow
<1>6. ASSUME NEW r \in Block, PutAll(<<r>>)
      PROVE  /\ disk' \cap Cid \subseteq disk
             /\ Len(log') \notin Cid /\ Len(log') \in Of(r.kind)'
             /\ log'[Len(log')] = r
  <2>1. Grows(r)
    BY <1>6, PutOne DEF SessionInv
  <2> QED
    BY <2>1 DEF Grows, Of
<1>7. CASE Ask
  BY <1>6, <1>7, PutsGood DEF Ask, TurnsGrow
<1>8. CASE RebindNote
  BY <1>6, <1>8, PutsGood DEF RebindNote, TurnsGrow, session
<1>9. ASSUME NEW n \in {"latest", "milestone"}, ManualCheckpoint(n)
      PROVE  UNCHANGED <<head, last>> /\ TurnsGrow
  BY <1>6, <1>9, PutsGood DEF ManualCheckpoint, TurnsGrow
<1>10. CASE Record
  <2> DEFINE r == ConversationNode(Append(turns, Asked), head)
  <2>1. /\ phase = "asked" /\ turns' = Append(turns, Asked)
        /\ head' = Len(log') /\ last' = last
        /\ PutAll(<<r>>)
    BY <1>10 DEF Record
  <2>2. r \in Block /\ r.kind = "conversation" /\ r.parent = head
    BY <2>1, PutsGood DEF ConversationNode
  <2> HIDE DEF r
  <2>3. NewConversation
    BY <1>6, <2>1, <2>2 DEF NewConversation
  <2> QED
    BY <1>6, <2>1, <2>2, <2>3 DEF TurnsGrow
<1>11. CASE MaybeCheckpoint
  <2>1. head # 0 /\ UNCHANGED <<turns, head>>
    BY <1>11 DEF MaybeCheckpoint, SessionInv, PhaseInv
  <2>2. CASE UNCHANGED <<log, disk, names, view, last>>
    BY <2>1, <2>2 DEF TurnsGrow
  <2>3. CASE PutSnapshot /\ last' = Len(log')
    <3> DEFINE r == CheckpointNode(head, last)
    <3>1. last \in {0} \cup Of("checkpoint")
      BY DEF SessionInv, StateInv
    <3>2. /\ r \in Block /\ r.kind = "checkpoint" /\ r.root = head
          /\ r.parent = last
      BY <2>1, <3>1, PutsGood DEF CheckpointNode
    <3>3. PutAll(<<r>>)
      BY <2>3 DEF PutSnapshot
    <3> HIDE DEF r
    <3> QED
      BY <1>6, <2>1, <2>3, <3>2, <3>3 DEF NewCheckpoint, TurnsGrow
  <2> QED
    BY <1>11, <2>2, <2>3 DEF MaybeCheckpoint
<1>12. ASSUME NEW b \in Cid, Resume(b) \/ (ResumeFails(b) /\ strayed' = TRUE)
       PROVE  UNCHANGED log /\ \E c \in Of("checkpoint") :
                /\ head' = log[c].root
                /\ \/ last' = c
                   \/ strayed' = TRUE /\ ~ ContextReadable(turns)'
  <2>1. b \in Of("checkpoint") /\ head' = log[b].root /\ UNCHANGED <<log, disk>>
    BY <1>12 DEF Resume, ResumeFails, ResumeTarget, IsCheckpoint, Of
  <2>2. last' = b \/ (strayed' = TRUE /\ ~ ContextReadable(turns'))
    BY <1>12 DEF Resume, ResumeFails
  <2>3. ~ ContextReadable(turns') => ~ ContextReadable(turns)'
    BY <2>1 DEF ContextReadable, Context, Elements
  <2> QED
    BY <2>1, <2>2, <2>3
<1>13. CASE UNCHANGED vars
  BY <1>13 DEF vars, session, TurnsGrow
<1> QED
  BY <1>1, <1>2, <1>3, <1>4, <1>5, <1>7, <1>8, <1>9, <1>10, <1>11, <1>12, <1>13
  DEF Next, Step

\* What can be read of a list of turns that has grown could be read before.
LEMMA ReadableBefore ==
  ASSUME SessionInv, Extended, TurnsGrow, ContextReadable(turns)'
  PROVE  ContextReadable(turns)
<1>1. Elements(turns) \subseteq Elements(turns)'
  <2>1. CASE turns' = turns
    BY <2>1 DEF Elements
  <2>2. CASE phase = "asked" /\ turns' = Append(turns, Asked)
    <3>1. Elements(turns)' = Elements(Append(turns, Asked))
      BY <2>2 DEF Elements
    <3> QED
      BY <2>2, <3>1, AskedPut, AppendTurns DEF SessionInv, StateInv
  <2> QED
    BY <2>1, <2>2 DEF TurnsGrow
<1>2. Elements(turns) \subseteq Of("turn") /\ Of("turn") \subseteq Cid
  BY DEF SessionInv, StateInv, Of
<1>3. \A t \in Elements(turns) :
        log'[t] = log[t] /\ log[t].context \subseteq Cid
  BY <1>2 DEF Extended, Of, SessionInv, LogInv, BlockGood, TurnGood
<1> QED
  BY <1>1, <1>2, <1>3 DEF ContextReadable, Context, TurnsGrow

ChainInv ==
  last # 0 /\ ContextReadable(turns) => log[last].root \in History(head)

LEMMA ChainStep ==
  ASSUME SessionInv, SessionInv', ChainInv, [Next]_vars
  PROVE  ChainInv'
<1>1. /\ Extended /\ LogInv /\ LogInv'
      /\ head \in {0} \cup Of("conversation")
      /\ last \in {0} \cup Of("checkpoint")
  BY StepExtends DEF SessionInv, StateInv
<1>2. \A b \in Of("checkpoint") :
        /\ log'[b] = log[b]
        /\ log[b].root \in Of("conversation")
  BY <1>1 DEF Extended, Of, LogInv, BlockGood, CheckpointGood
<1>3. \A c \in {0} \cup Of("conversation") : History(c)' = History(c)
  BY <1>1, HistoryStays
<1>4. CASE UNCHANGED <<head, last>> /\ TurnsGrow
  BY <1>1, <1>2, <1>3, <1>4, ReadableBefore DEF ChainInv
<1>5. CASE NewConversation /\ TurnsGrow
  <2>1. History(head)' = {head'} \cup History(head)
    BY <1>1, <1>5, HistoryGrows DEF NewConversation
  <2> QED
    BY <1>1, <1>2, <1>5, <2>1, ReadableBefore DEF ChainInv, NewConversation
<1>6. CASE NewCheckpoint /\ TurnsGrow
  <2>1. head \in History(head)
    BY <1>1, <1>6, HistoryFacts DEF NewCheckpoint
  <2>2. History(head)' = History(head)
    BY <1>1, <1>3, <1>6 DEF NewCheckpoint
  <2> QED
    BY <1>6, <2>1, <2>2 DEF ChainInv, NewCheckpoint
<1>7. CASE last' = 0
  BY <1>7 DEF ChainInv
<1>8. ASSUME NEW b \in Of("checkpoint"), UNCHANGED log,
             head' = log[b].root, last' = b
      PROVE  ChainInv'
  <2>1. log[b].root \in History(log[b].root)
    BY <1>1, <1>2, HistoryFacts
  <2> QED
    BY <1>2, <1>3, <1>8, <2>1 DEF ChainInv
<1>9. CASE ~ ContextReadable(turns)'
  BY <1>9 DEF ChainInv
<1> QED
  BY <1>4, <1>5, <1>6, <1>7, <1>8, <1>9, HeadMoves

(* The next automatic checkpoint continues the one before, through turns   *)
(* that fail, manual checkpoints, resumes, crashes and collections; only a *)
(* session that a failed resume left with turns it cannot read may break   *)
(* the line.                                                               *)
THEOREM ChainKept == Spec => []ChainFollowsHistory
<1>1. Init => ChainInv
  BY DEF Init, ChainInv
<1>2. SessionInv /\ SessionInv' /\ ChainInv /\ [Next]_vars => ChainInv'
  BY ChainStep
<1>3. ChainInv => ChainFollowsHistory
  BY DEF ChainInv, ChainFollowsHistory
<1> QED
  BY <1>1, <1>2, <1>3, SessionStart, SessionStep, PTL DEF Spec

----------------------------------------------------------------------------
(* What the names save: the history of the conversation they name and of   *)
(* those their checkpoints snapshot. It stays on the disk, and the session *)
(* never leaves it, as long as no checkpoint without a name is resumed.    *)

\* The session's copy of the names is the file, but for the note.
ViewInv == phase # "off" => \A n \in Name \ {"note"} : view[n] = names[n]

Snapshots == {"latest", "milestone"}
Pinned == ({names["conversation"]}
             \cup {log[names[n]].root : n \in {k \in Snapshots : names[k] # 0}})
          \ {0}
Saved == UNION {History(c) : c \in Pinned}

SavedInv ==
  /\ \A n \in Snapshots : names[n] \in disk \cup {0}
  /\ Saved \subseteq disk
  /\ ViewInv
  /\ head \in Saved \cup {0}

LEMMA PinnedFacts ==
  ASSUME SessionInv
  PROVE  /\ Pinned \subseteq Of("conversation") /\ Pinned \subseteq Saved
         /\ \A h \in Saved : History(h) \subseteq Saved
         /\ \A n \in Snapshots : names[n] # 0 =>
              names[n] \in Of("checkpoint") /\ log[names[n]].root \in Pinned
<1>1. \A n \in Snapshots : names[n] # 0 =>
        /\ names[n] \in Of("checkpoint")
        /\ log[names[n]].root \in Of("conversation") /\ log[names[n]].root # 0
  <2> SUFFICES ASSUME NEW n \in Snapshots, names[n] # 0
               PROVE  /\ names[n] \in Of("checkpoint")
                      /\ log[names[n]].root \in Of("conversation")
                      /\ log[names[n]].root # 0
    OBVIOUS
  <2>1. names[n] \in Of("checkpoint")
    BY DEF SessionInv, StateInv, NamesGood, Snapshots
  <2> QED
    BY <2>1 DEF SessionInv, LogInv, BlockGood, CheckpointGood, Of
<1>2. names["conversation"] \in {0} \cup Of("conversation")
  BY DEF SessionInv, StateInv, NamesGood
<1>3. Pinned \subseteq Of("conversation")
  BY <1>1, <1>2 DEF Pinned
<1>4. LogInv
  BY DEF SessionInv
<1> QED
  BY <1>1, <1>3, <1>4, HistoryFacts DEF Pinned, Saved

\* The names of conversations and checkpoints are what they were.
NamesSame ==
  /\ \A n \in Name \ {"note"} : names'[n] = names[n]
  /\ phase' # "off" => UNCHANGED view \/ view' = names'
  /\ phase' # "off" /\ phase = "off" => view' = names'

\* The head moves to what a name saves, or not at all.
HeadNamed ==
  \/ head' = head \/ head' = 0
  \/ \E n \in Snapshots : names[n] # 0 /\ head' = log[names[n]].root

\* Or one of them is bound to what the step has put.
ConversationBound ==
  /\ NewConversation
  /\ phase # "off" /\ view' = names'
  /\ names' = [view EXCEPT !["conversation"] = head']
SnapshotBound ==
  /\ head # 0 /\ head' \in {0, head}
  /\ phase # "off"
  /\ phase' # "off" => view' = names'
  /\ \E n \in Snapshots, b \in Of("checkpoint")' \ Cid :
       names' = [view EXCEPT ![n] = b] /\ log'[b].root = head

LEMMA SavedMoves ==
  ASSUME SessionInv, SessionInv', SavedInv, Extended,
         (NamesSame /\ HeadNamed) \/ ConversationBound \/ SnapshotBound
  PROVE  /\ Saved' \subseteq Saved \cup (Cid' \ Cid)
         /\ NamesSame => Saved' = Saved
         /\ head' \in Saved' \cup {0}
         /\ ViewInv'
         /\ \A n \in Snapshots : names'[n] \in {names[n]} \cup (Cid' \ Cid)
<1>1. /\ LogInv /\ LogInv' /\ Snapshots \subseteq Name \ {"note"}
      /\ "conversation" \in Name \ {"note"}
  BY DEF SessionInv, Snapshots, Name
<1>2. /\ \A c \in {0} \cup Of("conversation") : History(c)' = History(c)
      /\ \A h \in Of("conversation") : h \in History(h)
      /\ History(0) = {}
      /\ \A h \in Saved : History(h) \subseteq Saved
      /\ Pinned \subseteq Of("conversation")
      /\ head \in {0} \cup Of("conversation")
  BY <1>1, HistoryStays, HistoryFacts, PinnedFacts DEF SessionInv, StateInv
<1>3. \A n \in Snapshots : names[n] # 0 =>
        /\ log'[names[n]] = log[names[n]]
        /\ log[names[n]].root \in Pinned
  BY PinnedFacts DEF Extended, Of
<1>4. History(head) \subseteq Saved
  BY <1>2 DEF SavedInv
<1>5. CASE NamesSame /\ HeadNamed
  <2>1. Pinned' = Pinned
    BY <1>1, <1>3, <1>5 DEF Pinned, NamesSame
  <2>2. Saved' = Saved
    BY <1>2, <2>1 DEF Saved
  <2>3. head' \in Saved \cup {0}
    BY <1>2, <1>3, <1>5 DEF HeadNamed, SavedInv, Saved
  <2> QED
    BY <1>1, <1>5, <2>2, <2>3 DEF NamesSame, SavedInv, ViewInv
<1>6. CASE ConversationBound
  <2>1. /\ \A n \in Snapshots : names'[n] = names[n]
        /\ names'["conversation"] = head'
        /\ head' \in Cid' \ Cid /\ head' # 0
    <3>1. /\ view \in [Name -> Nat]
          /\ \A n \in Name \ {"note"} : view[n] = names[n]
      BY <1>6 DEF SessionInv, StateInv, NamesGood, SavedInv, ViewInv, ConversationBound
    <3>2. head' \in Cid' \ Cid /\ head' # 0
      BY <1>1, <1>6 DEF ConversationBound, NewConversation, Of, LogInv, Cid
    <3> QED
      BY <1>1, <1>6, <3>1, <3>2 DEF ConversationBound, Snapshots
  <2>2. Pinned' \subseteq Pinned \cup {head'} /\ head' \in Pinned'
    BY <1>3, <2>1 DEF Pinned
  <2>3. History(head)' = {head'} \cup History(head)
    BY <1>1, <1>2, <1>6, HistoryGrows DEF ConversationBound, NewConversation
  <2>4. Saved' \subseteq Saved \cup {head'} /\ head' \in Saved'
    BY <1>2, <1>4, <2>2, <2>3 DEF Saved
  <2>5. ~ NamesSame
    BY <1>1, <1>2, <2>1, ZenonT(60) DEF NamesSame, SessionInv, StateInv, NamesGood, Of
  <2> QED
    BY <1>1, <1>6, <2>1, <2>4, <2>5 DEF ConversationBound, ViewInv
<1>7. CASE SnapshotBound
  <2>1. PICK n \in Snapshots, b \in Of("checkpoint")' \ Cid :
          names' = [view EXCEPT ![n] = b] /\ log'[b].root = head
    BY <1>7 DEF SnapshotBound
  <2>2. /\ \A k \in Name \ {"note", n} : names'[k] = names[k]
        /\ names'[n] = b /\ b \in Cid' \ Cid /\ b # 0
    <3>1. /\ view \in [Name -> Nat]
          /\ \A k \in Name \ {"note"} : view[k] = names[k]
      BY <1>7 DEF SessionInv, StateInv, NamesGood, SavedInv, ViewInv, SnapshotBound
    <3>2. b \in Cid' \ Cid /\ b # 0
      BY <1>1 DEF Of, LogInv, Cid
    <3> QED
      BY <1>1, <2>1, <3>1, <3>2
  <2>3. Pinned' \subseteq Pinned \cup {head} /\ head \in Pinned'
    <3>1. head \in Pinned'
      BY <1>7, <2>1, <2>2 DEF Pinned, SnapshotBound
    <3>2. ASSUME NEW c \in Pinned' PROVE c \in Pinned \cup {head}
      <4>1. CASE c = names'["conversation"]
        BY <1>1, <2>2, <3>2, <4>1 DEF Pinned, Snapshots
      <4>2. ASSUME NEW k \in Snapshots, names'[k] # 0, c = log'[names'[k]].root
            PROVE  c \in Pinned \cup {head}
        BY <1>1, <1>3, <2>1, <2>2, <4>2
      <4> QED
        BY <3>2, <4>1, <4>2 DEF Pinned
    <3> QED
      BY <3>1, <3>2
  <2>4. Saved' \subseteq Saved /\ head \in Saved'
    BY <1>2, <1>4, <1>7, <2>3 DEF Saved, SnapshotBound
  <2>5. ~ NamesSame
    <3>1. names[n] \in {0} \cup Cid
      BY DEF SessionInv, StateInv, NamesGood, Of, Snapshots
    <3> QED
      BY <1>1, <2>2, <3>1 DEF NamesSame
  <2> QED
    BY <1>1, <1>7, <2>2, <2>4, <2>5 DEF SnapshotBound, ViewInv
<1> QED
  BY <1>5, <1>6, <1>7

\* A session resumes from a checkpoint that has a name.
LEMMA ResumeNamed ==
  ASSUME SessionInv, SavedInv, "resume_by_cid" \notin faults,
         NEW b \in Cid, ResumeTarget(b), phase = "ready"
  PROVE  \E n \in Snapshots : names[n] = b /\ names[n] # 0
<1>1. PICK n \in Name : view[n] = b
  BY DEF ResumeTarget, Named
<1>2. b # 0 /\ log[b].kind = "checkpoint"
  BY KindFacts DEF ResumeTarget, IsCheckpoint, SessionInv
<1>3. n \in Snapshots
  BY <1>1, <1>2 DEF SessionInv, StateInv, NamesGood, Of, Name, Snapshots
<1> QED
  BY <1>1, <1>2, <1>3 DEF SavedInv, ViewInv, Snapshots, Name

LEMMA NamesMove ==
  ASSUME SessionInv, SessionInv', [Next]_vars
  PROVE  \/ /\ NamesSame /\ head' \in {0} \cup Cid
            /\ SavedInv /\ "resume_by_cid" \notin faults => HeadNamed
         \/ ConversationBound \/ SnapshotBound
<1> DEFINE Rests == /\ NamesSame /\ head' \in {0} \cup Cid
                    /\ SavedInv /\ "resume_by_cid" \notin faults => HeadNamed
<1>1. names \in [Name -> Nat] /\ view \in [Name -> Nat]
      /\ Snapshots \subseteq Name /\ head \in {0} \cup Cid
  BY DEF SessionInv, StateInv, NamesGood, Snapshots, Name, Of
<1>2. CASE UNCHANGED names
           /\ (UNCHANGED <<view, head, phase>> \/ Start \/ Off)
  BY <1>1, <1>2 DEF NamesSame, HeadNamed, Start, Off
<1>3. CASE Ask \/ RecordFails \/ Start \/ Crash \/ UNCHANGED vars
           \/ \E b \in Cid : Load(b)
  <2>1. UNCHANGED <<names, view, head>> \/ Start \/ (Off /\ UNCHANGED names)
    BY <1>3 DEF Ask, RecordFails, Crash, Load, vars, session
  <2>2. phase = "off" => phase' = "off" \/ Start
    BY <1>3 DEF Ask, RecordFails, Crash, Load, vars, session, Off
  <2> QED
    BY <1>1, <1>2, <2>1, <2>2 DEF NamesSame, HeadNamed, Start, Off
<1>4. CASE Collect
  BY <1>2, <1>4 DEF Collect, session
<1>5. CASE RebindNote
  BY <1>1, <1>5 DEF RebindNote, session, NamesSame, HeadNamed
<1>6. ASSUME NEW b \in Cid, Resume(b) \/ ResumeFails(b) PROVE Rests
  <2>1. /\ ResumeTarget(b) /\ phase = "ready" /\ head' = log[b].root
        /\ UNCHANGED <<names, view, phase>>
    BY <1>6 DEF Resume, ResumeFails
  <2>2. head' \in Cid
    BY <2>1 DEF ResumeTarget, RootReadable, SessionInv, StateInv
  <2> QED
    BY <2>1, <2>2, ResumeNamed DEF NamesSame, HeadNamed
<1>7. CASE Record
  <2> DEFINE r == ConversationNode(Append(turns, Asked), head)
  <2>1. /\ phase = "asked" /\ head' = Len(log') /\ last' = last
        /\ view' = [view EXCEPT !["conversation"] = head'] /\ names' = view'
        /\ turns' = Append(turns, Asked)
        /\ PutAll(<<r>>)
    BY <1>7 DEF Record, Bind
  <2>2. r \in Block /\ r.kind = "conversation" /\ r.parent = head
    BY <2>1, PutsGood DEF ConversationNode
  <2> HIDE DEF r
  <2>3. Grows(r)
    BY <2>1, <2>2, PutOne DEF SessionInv
  <2>4. NewConversation
    BY <2>1, <2>2, <2>3 DEF NewConversation, Grows, Of
  <2> QED
    BY <2>1, <2>4 DEF ConversationBound
<1>8. ASSUME NEW p \in {0} \cup Of("checkpoint"), head # 0,
             PutAll(<<CheckpointNode(head, p)>>)
      PROVE  /\ Len(log') \in Of("checkpoint")' \ Cid
             /\ log'[Len(log')].root = head
  <2> DEFINE r == CheckpointNode(head, p)
  <2>1. r \in Block /\ r.kind = "checkpoint" /\ r.root = head
    BY <1>8, PutsGood DEF CheckpointNode
  <2>2. PutAll(<<r>>)
    BY <1>8
  <2> HIDE DEF r
  <2>3. Grows(r)
    BY <2>1, <2>2, PutOne DEF SessionInv
  <2> QED
    BY <2>1, <2>3 DEF Grows, Of
<1>9. ASSUME NEW n \in Snapshots, ManualCheckpoint(n) PROVE SnapshotBound
  BY <1>8, <1>9 DEF ManualCheckpoint, Bind, SnapshotBound
<1>10. CASE PutSnapshot /\ head # 0 /\ phase # "off" /\ head' \in {0, head}
            /\ (phase' # "off" => view' = names')
  <2>1. last \in {0} \cup Of("checkpoint")
    BY DEF SessionInv, StateInv
  <2> QED
    BY <1>8, <1>10, <2>1 DEF PutSnapshot, SnapshotBound, Snapshots
<1>11. CASE MaybeCheckpoint
  <2>1. phase = "recorded" /\ phase' = "ready" /\ head # 0 /\ head' = head
    BY <1>11 DEF MaybeCheckpoint, SessionInv, PhaseInv
  <2>2. CASE UNCHANGED <<names, view>>
    BY <1>1, <2>1, <2>2 DEF NamesSame, HeadNamed
  <2> QED
    BY <1>10, <1>11, <2>1, <2>2 DEF MaybeCheckpoint
<1>12. CASE Exit
  <2>1. phase = "ready" /\ Off
    BY <1>12 DEF Exit
  <2> QED
    BY <1>2, <1>10, <1>12, <2>1 DEF Exit, Off
<1> QED
  BY <1>3, <1>4, <1>5, <1>6, <1>7, <1>9, <1>11, <1>12
  DEF Next, Step, Snapshots

LEMMA CutFacts ==
  /\ Graph!Trimmed(names, disk) \subseteq Of("checkpoint")
  /\ \A n \in Name : names[n] \in Cid => names[n] \notin Graph!Trimmed(names, disk)
<1>1. Graph!Trimmed(names, disk)
        \subseteq {b \in Cid : IsCheckpoint(b)} \ Graph!Bound(names)
  BY DEF Graph!Trimmed
<1> QED
  BY <1>1 DEF Graph!Bound, IsCheckpoint, Of

\* A collection keeps what has a name, and what a block it keeps links to, but
\* for checkpoints.
LEMMA CollectKeeps ==
  ASSUME SessionInv, Collect
  PROVE  /\ \A n \in Name : names[n] \in disk => names[n] \in disk'
         /\ \A a \in disk' : \A b \in BlockLinks(a) :
              b \in disk /\ b \notin Of("checkpoint") => b \in disk'
         /\ disk' \subseteq disk
<1> DEFINE cut == Graph!Trimmed(names, disk)
           roots == Elements([n \in Name |-> names[n]])
                      \cup Graph!Tip(names, disk)
<1>1. disk' = Reach(roots, cut)
  BY DEF Collect
<1>2. \A n \in Name : names[n] \in roots
  BY DEF Elements
<1>3. cut \subseteq Of("checkpoint") /\ disk \subseteq Cid
      /\ \A n \in Name : names[n] \in Cid => names[n] \notin cut
  BY CutFacts DEF SessionInv, StateInv
<1> HIDE DEF roots, cut
<1>4. LogInv
  BY DEF SessionInv
<1> QED
  BY <1>1, <1>2, <1>3, <1>4, ReachFacts

LEMMA CollectSaves ==
  ASSUME SessionInv, SavedInv, Collect
  PROVE  /\ Saved \subseteq disk'
         /\ \A n \in Snapshots : names[n] \in disk' \cup {0}
<1>1. /\ LogInv /\ Snapshots \subseteq Name
      /\ Pinned \subseteq Of("conversation") /\ Pinned \subseteq Saved
      /\ Saved \subseteq disk
      /\ \A k \in {"turn", "conversation"} : Of(k) \cap Of("checkpoint") = {}
  BY PinnedFacts DEF SessionInv, SavedInv, Snapshots, Name, Of
<1>2. \A n \in Snapshots : names[n] \in disk' \cup {0}
  BY <1>1, CollectKeeps DEF SavedInv
<1>3. Pinned \subseteq disk'
  <2>1. names["conversation"] \in Pinned => names["conversation"] \in disk'
    BY <1>1, CollectKeeps DEF Name
  <2>2. ASSUME NEW n \in Snapshots, names[n] # 0
        PROVE  log[names[n]].root \in disk'
    <3>1. names[n] \in disk' /\ names[n] \in Of("checkpoint")
          /\ log[names[n]].root \in Pinned
      BY <1>2, <2>2, PinnedFacts
    <3>2. log[names[n]].root \in BlockLinks(names[n])
      <4>1. log[names[n]].root # 0
        BY <3>1 DEF Pinned
      <4> QED
        BY <3>1, <4>1 DEF BlockLinks, Of
    <3> QED
      BY <1>1, <3>1, <3>2, CollectKeeps
  <2> QED
    BY <2>1, <2>2 DEF Pinned
<1>4. ASSUME NEW c \in Pinned PROVE History(c) \subseteq disk'
  <2> DEFINE kept == {h \in History(c) : h \in disk'}
  <2>1. PICK T \in SUBSET Conversations : T = kept
    BY DEF History
  <2>2. c \in T
    BY <1>1, <1>3, <2>1, HistoryFacts
  <2>3. ASSUME NEW d \in T, log[d].parent # 0 PROVE log[d].parent \in T
    <3>1. /\ d \in Of("conversation") /\ d \in disk'
          /\ log[d].parent \in History(c) /\ log[d].parent \in Saved
          /\ log[d].parent \in Of("conversation")
      BY <1>1, <2>1, <2>3, HistoryFacts DEF Saved
    <3>2. log[d].parent \in BlockLinks(d)
      BY <2>3, <3>1 DEF BlockLinks, Of
    <3> QED
      BY <1>1, <2>1, <3>1, <3>2, CollectKeeps
  <2>4. Continues(c, T)
    BY <2>2, <2>3 DEF Continues
  <2> QED
    BY <2>1, <2>4 DEF History
<1> QED
  BY <1>2, <1>4 DEF Saved

\* Only a collection removes blocks.
LEMMA DiskMoves ==
  ASSUME SessionInv, [Next]_vars
  PROVE  Collect \/ disk' = disk \cup (Cid' \ Cid)
<1>1. ASSUME NEW r \in Block, PutAll(<<r>>) PROVE disk' = disk \cup (Cid' \ Cid)
  BY <1>1, PutOne DEF Grows, SessionInv
<1>2. CASE UNCHANGED <<log, disk>>
  BY <1>2 DEF Cid
<1>3. ASSUME NEW p \in {0} \cup Of("checkpoint"), head # 0,
             PutAll(<<CheckpointNode(head, p)>>)
      PROVE  disk' = disk \cup (Cid' \ Cid)
  BY <1>1, <1>3, PutsGood
<1>4. CASE Ask \/ Record \/ RebindNote
           \/ \E n \in {"latest", "milestone"} : ManualCheckpoint(n)
  BY <1>1, <1>3, <1>4, PutsGood DEF Ask, Record, RebindNote, ManualCheckpoint
<1>5. CASE MaybeCheckpoint \/ Exit
  <2>1. UNCHANGED <<log, disk>> \/ (PutSnapshot /\ head # 0)
    BY <1>5 DEF MaybeCheckpoint, Exit, SessionInv, PhaseInv
  <2>2. last \in {0} \cup Of("checkpoint")
    BY DEF SessionInv, StateInv
  <2> QED
    BY <1>2, <1>3, <2>1, <2>2 DEF PutSnapshot
<1> QED
  BY <1>2, <1>4, <1>5
  DEF Next, Step, Start, RecordFails, Crash, Load, Resume, ResumeFails, vars

LEMMA SavedStep ==
  ASSUME SessionInv, SessionInv', SavedInv, "resume_by_cid" \notin faults,
         [Next]_vars
  PROVE  SavedInv'
<1>1. Extended /\ ((NamesSame /\ HeadNamed) \/ ConversationBound \/ SnapshotBound)
  BY StepExtends, NamesMove
<1>2. /\ Saved' \subseteq Saved \cup (Cid' \ Cid)
      /\ NamesSame => Saved' = Saved
      /\ head' \in Saved' \cup {0}
      /\ ViewInv'
      /\ \A n \in Snapshots : names'[n] \in {names[n]} \cup (Cid' \ Cid)
  BY <1>1, SavedMoves
<1>3. CASE Collect
  <2>1. UNCHANGED names /\ UNCHANGED session
    BY <1>3 DEF Collect
  <2>2. NamesSame /\ HeadNamed
    BY <2>1 DEF NamesSame, HeadNamed, session
  <2> QED
    BY <1>2, <1>3, <2>1, <2>2, CollectSaves DEF SavedInv
<1>4. CASE disk' = disk \cup (Cid' \ Cid)
  BY <1>2, <1>4 DEF SavedInv
<1> QED
  BY <1>3, <1>4, DiskMoves

----------------------------------------------------------------------------
(* Trimming. Each checkpoint snapshots what continues the conversation of  *)
(* the one it follows, and what lies between the two is on the disk as     *)
(* long as both ends are, unless a resume has failed.                      *)
LineInv ==
  /\ last # 0 => log[last].root \in History(head)
  /\ \A b \in Of("checkpoint") : log[b].parent # 0 =>
       log[log[b].parent].root \in History(log[b].root)

\* From conversation a back to what checkpoint b snapshots nothing is missing.
Unbroken(a, b) ==
  b \in disk /\ log[b].root \in disk => Between(a, log[b].root) \subseteq disk

SegmentInv ==
  /\ last # 0 =>
       /\ names["conversation"] = head \/ head = log[last].root
       /\ Unbroken(head, last)
  /\ \A b \in Of("checkpoint") \cap disk :
       log[b].parent # 0 => Unbroken(log[b].root, log[b].parent)

\* What is put by a step, if it is a checkpoint.
LEMMA NewSnapshots ==
  ASSUME SessionInv, SessionInv', [Next]_vars,
         NEW b \in Of("checkpoint")', b \notin Cid
  PROVE  /\ log'[b].parent \in {0, last}
         /\ log'[b].root = head /\ head # 0
<1>1. ASSUME NEW r \in Block, PutAll(<<r>>) PROVE r = log'[b]
  BY <1>1, PutOne DEF Grows, SessionInv, Of
<1>2. log'[b].kind = "checkpoint"
  BY DEF Of
<1>3. ASSUME NEW p \in {0, last}, head # 0, PutAll(<<CheckpointNode(head, p)>>)
      PROVE  log'[b].parent \in {0, last} /\ log'[b].root = head
  <2>1. p \in {0} \cup Of("checkpoint")
    BY DEF SessionInv, StateInv
  <2> QED
    BY <1>1, <1>3, <2>1, PutsGood DEF CheckpointNode
<1>4. CASE \E n \in {"latest", "milestone"} : ManualCheckpoint(n)
  BY <1>3, <1>4 DEF ManualCheckpoint
<1>5. CASE PutSnapshot /\ head # 0
  BY <1>3, <1>5 DEF PutSnapshot
<1>6. ~ UNCHANGED log
  BY DEF Of, Cid
<1>7. CASE MaybeCheckpoint \/ Exit
  BY <1>5, <1>6, <1>7 DEF MaybeCheckpoint, Exit, SessionInv, PhaseInv
<1>8. ~ (Ask \/ RebindNote)
  BY <1>1, <1>2, PutsGood DEF Ask, RebindNote, TurnNode, MemoryNode
<1>9. ~ Record
  <2> SUFFICES ASSUME Record PROVE FALSE
    OBVIOUS
  <2> DEFINE r == ConversationNode(Append(turns, Asked), head)
  <2>1. phase = "asked" /\ turns' = Append(turns, Asked) /\ PutAll(<<r>>)
    BY DEF Record
  <2>2. r \in Block /\ r.kind = "conversation"
    BY <2>1, PutsGood DEF ConversationNode
  <2> HIDE DEF r
  <2> QED
    BY <1>1, <1>2, <2>1, <2>2
<1> QED
  BY <1>4, <1>6, <1>7, <1>8, <1>9
  DEF Next, Step, Start, RecordFails, Crash, Collect, Load, Resume,
      ResumeFails, vars

LEMMA LineStep ==
  ASSUME SessionInv, SessionInv', LineInv, [Next]_vars, ~ strayed'
  PROVE  LineInv'
<1>1. /\ Extended /\ LogInv /\ LogInv'
      /\ head \in {0} \cup Of("conversation")
      /\ last \in {0} \cup Of("checkpoint")
  BY StepExtends DEF SessionInv, StateInv
<1>2. \A b \in Of("checkpoint") :
        /\ log'[b] = log[b]
        /\ log[b].root \in Of("conversation")
        /\ log[b].parent \in {0} \cup Of("checkpoint")
  BY <1>1 DEF Extended, Of, LogInv, BlockGood, CheckpointGood
<1>3. \A c \in {0} \cup Of("conversation") : History(c)' = History(c)
  BY <1>1, HistoryStays
<1>4. ASSUME last' # 0 PROVE log'[last'].root \in History(head)'
  <2>1. CASE UNCHANGED <<head, last>>
    BY <1>1, <1>2, <1>3, <1>4, <2>1 DEF LineInv
  <2>2. CASE NewConversation
    <3>1. History(head)' = {head'} \cup History(head)
      BY <1>1, <2>2, HistoryGrows DEF NewConversation
    <3> QED
      BY <1>1, <1>2, <1>4, <2>2, <3>1 DEF LineInv, NewConversation
  <2>3. CASE NewCheckpoint
    <3>1. head \in History(head) /\ History(head)' = History(head)
      BY <1>1, <1>3, <2>3, HistoryFacts DEF NewCheckpoint
    <3> QED
      BY <2>3, <3>1 DEF NewCheckpoint
  <2>4. ASSUME NEW b \in Of("checkpoint"), head' = log[b].root, last' = b
        PROVE  log'[last'].root \in History(head)'
    <3>1. log[b].root \in History(log[b].root)
      BY <1>1, <1>2, HistoryFacts
    <3> QED
      BY <1>2, <1>3, <2>4, <3>1
  <2> QED
    BY <1>4, <2>1, <2>2, <2>3, <2>4, HeadMoves
<1>5. ASSUME NEW b \in Of("checkpoint")', log'[b].parent # 0
      PROVE  log'[log'[b].parent].root \in History(log[b].root)'
  <2>1. CASE b \in Cid
    <3>1. b \in Of("checkpoint")
      BY <1>1, <2>1 DEF Extended, Of
    <3> QED
      BY <1>2, <1>3, <1>5, <3>1 DEF LineInv
  <2>2. CASE b \notin Cid
    <3>1. log'[b].parent = last /\ last # 0 /\ log'[b].root = head
      BY <1>5, <2>2, NewSnapshots
    <3> QED
      BY <1>1, <1>2, <1>3, <3>1 DEF LineInv
  <2> QED
    BY <2>1, <2>2
<1> QED
  BY <1>4, <1>5 DEF LineInv

\* A collection that keeps the end of a conversation keeps the way back.
LEMMA SegmentKept ==
  ASSUME SessionInv, Collect, NEW a \in Of("conversation"), NEW c,
         Between(a, c) \subseteq disk, a \in disk' \cup History(c)
  PROVE  Between(a, c) \subseteq disk'
<1>1. LogInv /\ Of("conversation") \cap Of("checkpoint") = {}
  BY DEF SessionInv, Of
<1>2. PICK T \in SUBSET Conversations :
        T = {h \in History(a) : h \in disk' \cup History(c)}
  BY DEF History
<1>3. a \in T
  BY <1>1, <1>2, HistoryFacts
<1>4. ASSUME NEW d \in T, log[d].parent # 0 PROVE log[d].parent \in T
  <2>1. /\ log[d].parent \in History(a)
        /\ log[d].parent \in Of("conversation") /\ d \in Of("conversation")
    BY <1>1, <1>2, <1>4, HistoryFacts
  <2>2. CASE d \in History(c)
    BY <1>1, <1>2, <1>4, <2>1, <2>2, HistoryFacts
  <2>3. CASE d \in disk' /\ log[d].parent \notin History(c)
    <3>1. log[d].parent \in disk
      BY <2>1, <2>3 DEF Between
    <3>2. log[d].parent \in BlockLinks(d)
      BY <1>4, <2>1 DEF BlockLinks, Of
    <3> QED
      BY <1>1, <1>2, <2>1, <2>3, <3>1, <3>2, CollectKeeps
  <2> QED
    BY <1>2, <2>1, <2>2, <2>3
<1>5. Continues(a, T)
  BY <1>3, <1>4 DEF Continues
<1> QED
  BY <1>2, <1>5 DEF Between, History

\* What a checkpoint snapshots is kept with it.
LEMMA RootKept ==
  ASSUME SessionInv, Collect, NEW b \in Of("checkpoint") \cap disk',
         log[b].root \in disk
  PROVE  log[b].root \in disk'
<1>1. log[b].root \in Of("conversation") /\ 0 \notin Cid
  BY KindFacts DEF SessionInv, LogInv, BlockGood, CheckpointGood, Of
<1>2. log[b].root \in BlockLinks(b) /\ log[b].root \notin Of("checkpoint")
  BY <1>1 DEF BlockLinks, Of
<1> QED
  BY <1>2, CollectKeeps

\* The conversation that is named is the one being continued, or that of the
\* last checkpoint.
LEMMA HeadBound ==
  ASSUME SessionInv, SessionInv', ViewInv, SegmentInv, [Next]_vars,
         ~ strayed', last' # 0
  PROVE  names'["conversation"] = head' \/ head' = log'[last'].root
<1>1. /\ Extended /\ Snapshots \subseteq Name \ {"note", "conversation"}
      /\ "conversation" \in Name \ {"note"}
      /\ head \in {0} \cup Cid /\ last \in {0} \cup Of("checkpoint")
      /\ view \in [Name -> Nat]
  BY StepExtends DEF SessionInv, StateInv, NamesGood, Snapshots, Name, Of
<1>2. \/ names'["conversation"] = names["conversation"] /\ head' \in {0} \cup Cid
      \/ names'["conversation"] = head'
  BY <1>1, NamesMove DEF NamesSame, ConversationBound, SnapshotBound, ViewInv
<1>3. CASE UNCHANGED <<head, last>>
  <2>1. last \in Cid => log'[last] = log[last]
    BY <1>1 DEF Extended
  <2> QED
    BY <1>1, <1>2, <1>3, <2>1 DEF SegmentInv, Of
<1>4. CASE NewConversation
  <2>1. head' # 0
    BY <1>4, KindFacts DEF NewConversation, SessionInv, LogInv, Cid, Of
  <2> QED
    BY <1>2, <1>4, <2>1 DEF NewConversation
<1>5. CASE NewCheckpoint
  BY <1>5 DEF NewCheckpoint
<1>6. ASSUME NEW b \in Of("checkpoint"), UNCHANGED log, head' = log[b].root,
             last' = b
      PROVE  head' = log'[last'].root
  BY <1>6
<1> QED
  BY <1>3, <1>4, <1>5, <1>6, HeadMoves

LEMMA SegmentStep ==
  ASSUME SessionInv, SessionInv', ViewInv, SegmentInv, [Next]_vars,
         ~ strayed'
  PROVE  SegmentInv'
<1>1. /\ Extended /\ LogInv /\ LogInv' /\ disk \subseteq Cid
      /\ head \in {0} \cup Of("conversation")
      /\ last \in {0} \cup Of("checkpoint")
  BY StepExtends DEF SessionInv, StateInv
<1>2. \A b \in Of("checkpoint") :
        /\ b \in Cid /\ log'[b] = log[b]
        /\ log[b].root \in Of("conversation") /\ log[b].root \in Cid
        /\ log[b].parent \in {0} \cup Of("checkpoint")
  BY <1>1 DEF Extended, Of, LogInv, BlockGood, CheckpointGood
<1>3. \A c \in {0} \cup Of("conversation") : History(c)' = History(c)
  BY <1>1, HistoryStays
<1>4. CASE Collect
  <2>1. /\ UNCHANGED <<log, names, head, last>> /\ disk' \subseteq disk
        /\ Cid' = Cid /\ Of("checkpoint")' = Of("checkpoint")
    BY <1>4, CollectKeeps DEF Collect, session, Cid, Of
  <2>2. \A a, c \in {0} \cup Of("conversation") : Between(a, c)' = Between(a, c)
    BY <1>3 DEF Between
  <2>3. ASSUME last # 0, last \in disk', log[last].root \in disk'
        PROVE  Between(head, log[last].root) \subseteq disk'
    <3>1. Between(head, log[last].root) \subseteq disk
      BY <2>1, <2>3 DEF SegmentInv, Unbroken
    <3>2. CASE head = log[last].root \/ head = 0
      BY <1>1, <3>2, HistoryFacts DEF Between
    <3>3. CASE names["conversation"] = head /\ head # 0
      <4>1. head \in disk' \cup History(log[last].root)
        <5>1. head \in History(head)
          BY <1>1, <3>3, HistoryFacts
        <5>2. head \in disk \/ head \in History(log[last].root)
          BY <3>1, <5>1 DEF Between
        <5> QED
          BY <1>4, <3>3, <5>2, CollectKeeps DEF Name
      <4> QED
        BY <1>1, <1>4, <3>1, <3>3, <4>1, SegmentKept
    <3> QED
      BY <2>3, <3>2, <3>3 DEF SegmentInv
  <2>4. ASSUME NEW b \in Of("checkpoint") \cap disk', log[b].parent # 0,
               log[b].parent \in disk', log[log[b].parent].root \in disk'
        PROVE  Between(log[b].root, log[log[b].parent].root) \subseteq disk'
    <3> DEFINE a == log[b].root
               c == log[log[b].parent].root
    <3>1. Between(a, c) \subseteq disk
      BY <2>1, <2>4 DEF SegmentInv, Unbroken
    <3>2. a \in Of("conversation") /\ a \in History(a)
      BY <1>1, <1>2, HistoryFacts
    <3>3. a \in disk' \cup History(c)
      BY <1>4, <3>1, <3>2, RootKept DEF Between
    <3> HIDE DEF a, c
    <3>4. Between(a, c) \subseteq disk'
      BY <1>4, <3>1, <3>2, <3>3, SegmentKept
    <3> QED
      BY <3>4 DEF a, c
  <2>5. ASSUME NEW a \in {0} \cup Of("conversation"), NEW b \in Of("checkpoint"),
               b \in disk' /\ log[b].root \in disk'
                 => Between(a, log[b].root) \subseteq disk'
        PROVE  Unbroken(a, b)'
    BY <1>2, <2>1, <2>2, <2>5 DEF Unbroken
  <2>6. ASSUME last # 0 PROVE Unbroken(head, last)'
    BY <1>1, <2>1, <2>3, <2>5, <2>6
  <2>7. ASSUME NEW b \in Of("checkpoint") \cap disk', log[b].parent # 0
        PROVE  Unbroken(log[b].root, log[b].parent)'
    <3>1. /\ log'[b] = log[b] /\ log[b].root \in Of("conversation")
          /\ log[b].parent \in Of("checkpoint")
      BY <1>2, <2>7
    <3>2. log[b].parent \in disk' /\ log[log[b].parent].root \in disk'
            => Between(log[b].root, log[log[b].parent].root) \subseteq disk'
      BY <2>4, <2>7
    <3> QED
      BY <2>5, <3>1, <3>2
  <2>8. last' # 0 => names'["conversation"] = head' \/ head' = log'[last'].root
    BY <2>1 DEF SegmentInv
  <2> QED
    BY <2>1, <2>6, <2>7, <2>8 DEF SegmentInv
<1>5. CASE disk' = disk \cup (Cid' \ Cid)
  <2>1. ASSUME NEW a \in {0} \cup Of("conversation"), NEW b \in Of("checkpoint"),
               Unbroken(a, b)
        PROVE  Unbroken(a, b)'
    <3>1. b \in disk' => b \in disk
      BY <1>2, <1>5
    <3>2. log[b].root \in disk' => log[b].root \in disk
      BY <1>2, <1>5
    <3>3. Between(a, log[b].root)' = Between(a, log[b].root)
      BY <1>2, <1>3 DEF Between
    <3>4. log'[b].root = log[b].root
      BY <1>2
    <3> QED
      BY <1>5, <2>1, <3>1, <3>2, <3>3, <3>4 DEF Unbroken
  <2>2. ASSUME last' # 0 PROVE Unbroken(head, last)'
    <3>1. CASE UNCHANGED <<head, last>>
      BY <1>1, <2>1, <2>2, <3>1 DEF SegmentInv
    <3>2. CASE NewConversation
      <4>1. /\ head' \in Cid' \ Cid /\ last' = last /\ last \in Of("checkpoint")
            /\ History(head)' = {head'} \cup History(head)
        BY <1>1, <2>2, <3>2, HistoryGrows DEF NewConversation, Of
      <4>2. History(log[last].root)' = History(log[last].root)
        BY <1>2, <1>3, <4>1
      <4>3. last \in disk' /\ log[last].root \in disk'
              => last \in disk /\ log[last].root \in disk
        BY <1>2, <1>5, <4>1
      <4>4. Unbroken(head, last) /\ log'[last] = log[last]
        BY <1>2, <2>2, <4>1 DEF SegmentInv
      <4> QED
        BY <1>5, <4>1, <4>2, <4>3, <4>4 DEF Unbroken, Between
    <3>3. CASE NewCheckpoint
      BY <3>3 DEF NewCheckpoint, Unbroken, Between
    <3>4. ASSUME NEW b \in Of("checkpoint"), UNCHANGED log,
                 head' = log[b].root, last' = b
          PROVE  Unbroken(head, last)'
      BY <3>4 DEF Unbroken, Between
    <3> QED
      BY <2>2, <3>1, <3>2, <3>3, <3>4, HeadMoves
  <2>3. ASSUME NEW b \in Of("checkpoint")' \cap disk', log'[b].parent # 0
        PROVE  Unbroken(log[b].root, log[b].parent)'
    <3>1. CASE b \in Cid
      <4>1. b \in Of("checkpoint") \cap disk
        BY <1>1, <1>5, <2>3, <3>1 DEF Extended, Of
      <4>2. /\ log'[b] = log[b] /\ log[b].root \in Of("conversation")
            /\ log[b].parent \in Of("checkpoint")
            /\ Unbroken(log[b].root, log[b].parent)
        BY <1>2, <2>3, <4>1 DEF SegmentInv
      <4> QED
        BY <2>1, <4>2
    <3>2. CASE b \notin Cid
      <4>1. log'[b].parent = last /\ last # 0 /\ log'[b].root = head
        BY <2>3, <3>2, NewSnapshots
      <4>2. Unbroken(head, last) /\ last \in Of("checkpoint")
        BY <1>1, <4>1 DEF SegmentInv
      <4> QED
        BY <1>1, <2>1, <4>1, <4>2
    <3> QED
      BY <3>1, <3>2
  <2> QED
    BY <2>2, <2>3, HeadBound DEF SegmentInv
<1> QED
  BY <1>4, <1>5, DiskMoves

LEMMA ViewStep ==
  ASSUME SessionInv, SessionInv', ViewInv, [Next]_vars
  PROVE  ViewInv'
<1>1. Snapshots \subseteq Name /\ view \in [Name -> Nat]
  BY DEF SessionInv, StateInv, NamesGood, Snapshots, Name
<1> QED
  BY <1>1, NamesMove
  DEF NamesSame, ConversationBound, SnapshotBound, ViewInv

\* The chain of checkpoints, step by step: at a step that broke what holds of
\* it for the first time, what held before would be broken too.
LEMMA LeastNumber ==
  ASSUME NEW T \in SUBSET Nat, T # {}
  PROVE  \E x \in T : \A y \in T : x <= y
<1> DEFINE Less == {p \in Nat \X Nat : p[1] < p[2]}
<1>1. IsWellFoundedOn(Less, Nat)
  BY NatLessThanWellFounded DEF OpToRel
<1>2. \A x, y \in Nat : y < x => <<y, x>> \in Less
  OBVIOUS
<1> HIDE DEF Less
<1>3. PICK x \in T : \A y \in T : ~ (<<y, x>> \in Less)
  BY <1>1, WFMin
<1>4. ASSUME NEW y \in T PROVE x <= y
  <2>1. x \in Nat /\ y \in Nat /\ ~ (y < x)
    BY <1>2, <1>3
  <2> QED
    BY <2>1
<1> QED
  BY <1>4

Checkpoints == {b \in Cid : IsCheckpoint(b)}
ParentOf == [b \in Cid |-> IF IsCheckpoint(b) THEN log[b].parent ELSE 0]

Further(before, tip) ==
  LET cursor == IF before = <<>> THEN tip ELSE ParentOf[before[Len(before)]]
  IN  IF /\ cursor \in disk \cap Checkpoints
         /\ \A i \in DOMAIN before : before[i] # cursor
      THEN Append(before, cursor)
      ELSE before

IsWalk(f, n, tip) ==
  f = [k \in 0..n |-> IF k = 0 THEN <<>> ELSE Further(f[k - 1], tip)]

LEMMA WalkExists ==
  ASSUME NEW tip, NEW n \in Nat
  PROVE  \E f : IsWalk(f, n, tip)
<1> SUFFICES ASSUME ~ \E f : IsWalk(f, n, tip) PROVE FALSE
  OBVIOUS
<1> DEFINE Bad == {m \in Nat : ~ \E f : IsWalk(f, m, tip)}
<1>1. PICK m \in Bad : \A l \in Bad : m <= l
  BY LeastNumber
<1>2. m # 0
  <2>1. IsWalk([k \in 0..0 |-> <<>>], 0, tip)
    BY DEF IsWalk
  <2> QED
    BY <2>1
<1>3. m - 1 \in Nat /\ m - 1 \notin Bad
  BY <1>1, <1>2
<1>4. PICK f : IsWalk(f, m - 1, tip)
  BY <1>3
<1> DEFINE g == [k \in 0..m |-> IF k = m THEN Further(f[m - 1], tip) ELSE f[k]]
<1>5. IsWalk(g, m, tip)
  <2>1. DOMAIN g = 0..m /\ \A k \in 0..(m - 1) : g[k] = f[k]
    BY <1>3
  <2>2. g[m] = Further(g[m - 1], tip)
    BY <1>3, <2>1
  <2>3. \A k \in 0..(m - 1) :
          g[k] = IF k = 0 THEN <<>> ELSE Further(g[k - 1], tip)
    BY <1>3, <1>4, <2>1 DEF IsWalk
  <2>4. ASSUME NEW k \in 0..m
        PROVE  g[k] = IF k = 0 THEN <<>> ELSE Further(g[k - 1], tip)
    <3>1. CASE k = m
      BY <1>2, <2>2, <3>1
    <3>2. CASE k # m
      <4>1. k \in 0..(m - 1)
        BY <1>3, <3>2
      <4> QED
        BY <2>3, <4>1
    <3> QED
      BY <3>1, <3>2
  <2>5. g = [k \in 0..m |-> g[k]]
    OBVIOUS
  <2> HIDE DEF g
  <2> QED
    BY <2>4, <2>5, Zenon DEF IsWalk
<1> QED
  BY <1>5

\* A chain from the tip stays in the history of what the tip snapshots, and
\* that history has no gap before a snapshot that is there.
OnLine(b, tip) ==
  /\ b \in disk
  /\ log[b].root \in History(log[tip].root)
  /\ Unbroken(log[tip].root, b)
InLine(s, tip) ==
  /\ s \in Seq(Checkpoints)
  /\ s # <<>> => tip \in disk \cap Checkpoints
  /\ \A i \in 1..Len(s) : OnLine(s[i], tip)

LEMMA FurtherInLine ==
  ASSUME SessionInv, LineInv, SegmentInv, NEW tip, NEW s, InLine(s, tip)
  PROVE  InLine(Further(s, tip), tip)
<1> DEFINE cursor == IF s = <<>> THEN tip ELSE ParentOf[s[Len(s)]]
           t == Append(s, cursor)
<1>1. s \in Seq(Checkpoints) /\ Len(s) \in Nat /\ DOMAIN s = 1..Len(s)
  BY DEF InLine
<1>2. CASE Further(s, tip) = s
  BY <1>2
<1>3. CASE Further(s, tip) # s
  <2>1. Further(s, tip) = t /\ cursor \in disk \cap Checkpoints
    BY <1>3 DEF Further
  <2>2. /\ t \in Seq(Checkpoints) /\ Len(t) = Len(s) + 1 /\ t[Len(t)] = cursor
        /\ \A i \in 1..Len(s) : t[i] = s[i]
    BY <1>1, <2>1
  <2>3. \A b \in Checkpoints : /\ b \in Of("checkpoint") /\ b # 0
                               /\ log[b].root \in Of("conversation")
    BY CidRange
    DEF Checkpoints, IsCheckpoint, Of, SessionInv, LogInv, BlockGood, CheckpointGood
  <2>4. LogInv
    BY DEF SessionInv
  <2>5. tip \in disk \cap Checkpoints /\ OnLine(cursor, tip)
    <3>1. CASE s = <<>>
      BY <2>1, <2>3, <2>4, <3>1, HistoryFacts DEF OnLine, Unbroken, Between
    <3>2. CASE s # <<>>
      <4> DEFINE b == s[Len(s)]
                 q == log[cursor].root
      <4>1. Len(s) \in 1..Len(s) /\ b \in Checkpoints
        BY <1>1, <3>2
      <4>2. /\ tip \in disk \cap Checkpoints /\ b \in disk
            /\ log[b].root \in History(log[tip].root)
            /\ log[b].root \in disk
                 => Between(log[tip].root, log[b].root) \subseteq disk
        BY <3>2, <4>1 DEF InLine, OnLine, Unbroken
      <4>3. cursor = log[b].parent
        BY <3>2, <4>1 DEF ParentOf, Checkpoints
      <4> HIDE DEF b, cursor
      <4>4. q \in History(log[b].root)
        BY <2>1, <2>3, <4>1, <4>3 DEF LineInv
      <4>5. History(log[b].root) \subseteq History(log[tip].root)
        BY <2>3, <2>4, <4>2, HistoryFacts
      <4>6. ASSUME q \in disk PROVE Between(log[tip].root, q) \subseteq disk
        <5>1. Between(log[b].root, q) \subseteq disk
          BY <2>1, <2>3, <4>1, <4>2, <4>3, <4>6 DEF SegmentInv, Unbroken
        <5>2. log[b].root \in disk
          <6>1. log[b].root \in History(log[b].root)
                /\ log[b].root \in Of("conversation") /\ q \in Of("conversation")
            BY <2>1, <2>3, <2>4, <4>1, HistoryFacts
          <6>2. CASE log[b].root \in History(q)
            BY <2>4, <4>4, <4>6, <6>1, <6>2, HistoryBelow
          <6> QED
            BY <5>1, <6>1, <6>2 DEF Between
        <5> QED
          BY <4>2, <5>1, <5>2 DEF Between
      <4> QED
        BY <2>1, <4>2, <4>4, <4>5, <4>6 DEF OnLine, Unbroken
    <3> QED
      BY <3>1, <3>2
  <2> HIDE DEF cursor, t
  <2>6. ASSUME NEW i \in 1..Len(t)
        PROVE  OnLine(t[i], tip)
    <3>1. i \in 1..Len(s) \/ i = Len(t)
      BY <1>1, <2>2
    <3> QED
      BY <2>2, <2>5, <3>1 DEF InLine
  <2> QED
    BY <2>1, <2>2, <2>5, <2>6 DEF InLine
<1> QED
  BY <1>2, <1>3

LEMMA WalkInLine ==
  ASSUME SessionInv, LineInv, SegmentInv, NEW tip, NEW n \in Nat,
         NEW f, IsWalk(f, n, tip)
  PROVE  InLine(f[n], tip)
<1> DEFINE Bad == {m \in 0..n : ~ InLine(f[m], tip)}
<1>1. \A m \in 0..n : f[m] = IF m = 0 THEN <<>> ELSE Further(f[m - 1], tip)
  BY DEF IsWalk
<1>2. Bad = {}
  <2> SUFFICES ASSUME Bad # {} PROVE FALSE
    OBVIOUS
  <2>0. Bad \in SUBSET Nat
    OBVIOUS
  <2>1. PICK m \in Bad : \A l \in Bad : m <= l
    BY <2>0, LeastNumber
  <2>2. m # 0
    <3>1. InLine(<<>>, tip)
      BY DEF InLine
    <3> QED
      BY <1>1, <2>1, <3>1
  <2>3. m - 1 \in 0..n /\ m - 1 \notin Bad
    BY <2>1, <2>2
  <2>4. InLine(f[m - 1], tip)
    BY <2>3
  <2>5. f[m] = Further(f[m - 1], tip)
    BY <1>1, <2>1, <2>2
  <2>6. InLine(f[m], tip)
    BY <2>4, <2>5, FurtherInLine
  <2> QED
    BY <2>1, <2>6
<1> QED
  BY <1>2

LEMMA TrimmedInLine ==
  ASSUME SessionInv, LineInv, SegmentInv, NEW b \in Graph!Trimmed(names, disk)
  PROVE  /\ names["latest"] \in disk /\ names["latest"] \in Of("checkpoint")
         /\ b \in Of("checkpoint") /\ OnLine(b, names["latest"])
<1> DEFINE tip == names["latest"]
           N == Cardinality(Cid)
           f == CHOOSE g : IsWalk(g, N, tip)
<1>1. N \in Nat
  BY CidRange, FS_Interval, FS_CardinalityType DEF SessionInv
<1>2. IsWalk(f, N, tip)
  BY <1>1, WalkExists
<1>3. Graph!Cardinality(Cid) = N
  BY Zenon DEF Cardinality, Graph!Cardinality
<1>4. Graph!ChainFrom(tip, disk) = f[N]
  BY <1>3, Zenon DEF Graph!ChainFrom, IsWalk, Further, ParentOf, Checkpoints
<1>5. InLine(f[N], tip)
  BY <1>1, <1>2, WalkInLine
<1> HIDE DEF f, N
<1>6. \E i \in DOMAIN f[N] : f[N][i] = b
  BY <1>4 DEF Graph!Trimmed
<1>7. DOMAIN f[N] = 1..Len(f[N]) /\ Len(f[N]) \in Nat
  BY <1>5 DEF InLine
<1>8. f[N] # <<>>
  BY <1>6
<1>9. Checkpoints = Of("checkpoint")
  BY DEF Checkpoints, IsCheckpoint, Of
<1> QED
  BY <1>5, <1>6, <1>7, <1>8, <1>9 DEF InLine

(* Trimming lets go of snapshots, never of a conversation: what a trimmed  *)
(* checkpoint is a snapshot of is part of the history the newest one       *)
(* continues, and the way to it is whole if it is there itself. Whatever   *)
(* may happen may happen; strayed excludes sessions in which a resume has  *)
(* failed.                                                                 *)
THEOREM TrimKeepsHistory == Spec => TrimFreesOnlyCheckpoints
<1> DEFINE Inv == SessionInv /\ ViewInv /\ (~ strayed => LineInv /\ SegmentInv)
<1>1. Init => ViewInv /\ LineInv /\ SegmentInv
  <2> SUFFICES ASSUME Init PROVE ViewInv /\ LineInv /\ SegmentInv
    OBVIOUS
  <2>1. phase = "off" /\ last = 0
    BY DEF Init
  <2>2. Of("checkpoint") = {}
    BY DEF Init, Of, Cid, MemoryNode
  <2> QED
    BY <2>1, <2>2 DEF ViewInv, LineInv, SegmentInv
<1>2. Inv /\ SessionInv' /\ [Next]_vars => Inv'
  <2> SUFFICES ASSUME Inv, SessionInv', [Next]_vars PROVE Inv'
    OBVIOUS
  <2>1. ~ strayed' => ~ strayed
    BY DEF Next, vars
  <2> QED
    BY <2>1, ViewStep, LineStep, SegmentStep
<1>3. Inv /\ [Next]_vars
        => [Collect /\ ~ strayed =>
              \A b \in Graph!Trimmed(names, disk) :
                log[b].root \in disk => log[b].root \in disk']_vars
  <2> SUFFICES ASSUME Inv, Collect, ~ strayed,
                      NEW b \in Graph!Trimmed(names, disk), log[b].root \in disk
               PROVE  log[b].root \in disk'
    OBVIOUS
  <2> DEFINE tip == names["latest"]
             a == log[tip].root
             c == log[b].root
  <2>1. /\ tip \in disk /\ tip \in Of("checkpoint") /\ c \in History(a)
        /\ Between(a, c) \subseteq disk
    BY TrimmedInLine DEF OnLine, Unbroken
  <2>2. tip \in disk'
    BY <2>1, CollectKeeps DEF Name
  <2>3. /\ LogInv /\ a \in Of("conversation") /\ c \in Of("conversation")
        /\ a \in History(a) /\ Of("conversation") \cap Of("checkpoint") = {}
        /\ 0 \notin Cid
    <3>1. LogInv /\ a \in Of("conversation")
      BY <2>1 DEF SessionInv, LogInv, BlockGood, CheckpointGood, Of
    <3> QED
      BY <2>1, <3>1, HistoryFacts, KindFacts DEF Of
  <2>4. a \in disk
    BY <2>1, <2>3, HistoryBelow DEF Between
  <2>5. a \in disk'
    BY <2>1, <2>2, <2>4, RootKept
  <2>6. Between(a, c) \subseteq disk'
    BY <2>1, <2>3, <2>5, SegmentKept
  <2>7. CASE c # a
    <3>1. PICK d \in Between(a, c) : log[d].parent = c
      BY <2>1, <2>3, <2>7, LinkBack
    <3>2. d \in Of("conversation") /\ d \in disk'
      BY <2>3, <2>6, <3>1, HistoryFacts DEF Between
    <3>3. c \in BlockLinks(d) /\ c \notin Of("checkpoint")
      BY <2>3, <3>1, <3>2 DEF BlockLinks, Of
    <3> QED
      BY <3>2, <3>3, CollectKeeps
  <2> QED
    BY <2>5, <2>7
<1> QED
  BY <1>1, <1>2, <1>3, SessionStart, SessionStep, PTL
  DEF Spec, TrimFreesOnlyCheckpoints

----------------------------------------------------------------------------
(* Calm. Nothing fails, no collection comes while the model is called, and *)
(* what is loaded keeps its name: then a session loses nothing.            *)
CalmInv ==
  /\ \A t \in Of("turn") : log[t].context \subseteq Of("memory")
  /\ names["note"] \in disk
  /\ phase # "off" => view["note"] = names["note"]
  /\ turns = IF head = 0 THEN <<>> ELSE log[head].turns
  /\ \A h \in Saved : ContextReadable(log[h].turns)
  /\ loaded \subseteq {names["note"]} \cup Context(turns)
  /\ phase = "asked" => /\ Len(log) \in Of("turn") \cap disk
                        /\ log[Len(log)].context \subseteq disk

\* What a step puts.
LEMMA NewBlocks ==
  ASSUME SessionInv, SessionInv', [Next]_vars, NEW b \in Cid' \ Cid
  PROVE  \/ log'[b].kind = "checkpoint"
         \/ Ask /\ log'[b] = TurnNode(loaded)
         \/ Record /\ log'[b].turns = turns'
         \/ RebindNote /\ log'[b].kind = "memory"
<1>1. ASSUME NEW r \in Block, PutAll(<<r>>) PROVE r = log'[b]
  BY <1>1, PutOne DEF Grows, SessionInv
<1>2. ASSUME NEW p \in {0} \cup Of("checkpoint"), head # 0,
             PutAll(<<CheckpointNode(head, p)>>)
      PROVE  log'[b].kind = "checkpoint"
  BY <1>1, <1>2, PutsGood DEF CheckpointNode
<1>3. CASE \E n \in {"latest", "milestone"} : ManualCheckpoint(n)
  BY <1>2, <1>3 DEF ManualCheckpoint
<1>4. CASE PutSnapshot /\ head # 0
  BY <1>2, <1>4 DEF PutSnapshot, SessionInv, StateInv
<1>5. ~ UNCHANGED log
  BY DEF Cid
<1>6. CASE MaybeCheckpoint \/ Exit
  BY <1>4, <1>5, <1>6 DEF MaybeCheckpoint, Exit, SessionInv, PhaseInv
<1>7. CASE Ask
  BY <1>1, <1>7, PutsGood DEF Ask
<1>8. CASE RebindNote
  BY <1>1, <1>8, PutsGood DEF RebindNote, MemoryNode
<1>9. CASE Record
  <2> DEFINE r == ConversationNode(Append(turns, Asked), head)
  <2>1. phase = "asked" /\ turns' = Append(turns, Asked) /\ PutAll(<<r>>)
    BY <1>9 DEF Record
  <2>2. r \in Block /\ r.turns = turns'
    BY <2>1, PutsGood DEF ConversationNode
  <2> HIDE DEF r
  <2> QED
    BY <1>1, <1>9, <2>1, <2>2
<1> QED
  BY <1>3, <1>5, <1>6, <1>7, <1>8, <1>9
  DEF Next, Step, Start, RecordFails, Crash, Collect, Load, Resume,
      ResumeFails, vars

\* The name of what is loaded.
LEMMA NoteMoves ==
  ASSUME SessionInv, CalmInv, faults = {}, [Next]_vars
  PROVE  /\ \/ names'["note"] = names["note"]
            \/ RebindNote /\ phase = "off" /\ names'["note"] = Len(log')
         /\ phase' # "off" => view'["note"] = names'["note"]
<1>1. /\ view \in [Name -> Nat] /\ names \in [Name -> Nat] /\ "note" \in Name
      /\ phase # "off" => view["note"] = names["note"]
  BY DEF SessionInv, StateInv, NamesGood, Name, CalmInv
<1>2. ASSUME NEW n \in {"conversation", "latest", "milestone"}, NEW b,
             phase # "off", names' = [view EXCEPT ![n] = b]
      PROVE  names'["note"] = names["note"]
  BY <1>1, <1>2
<1>3. CASE RebindNote
  BY <1>1, <1>3 DEF RebindNote, session
<1>4. CASE Record
  <2>1. /\ phase = "asked" /\ view' = names'
        /\ names' = [view EXCEPT !["conversation"] = Len(log')]
    BY <1>4 DEF Record, Bind
  <2> QED
    BY <1>2, <2>1
<1>5. ASSUME NEW n \in {"latest", "milestone"}, ManualCheckpoint(n)
      PROVE  names'["note"] = names["note"] /\ view' = names'
  <2>1. /\ phase = "ready" /\ view' = names'
        /\ names' = [view EXCEPT ![n] = Len(log')]
    BY <1>5 DEF ManualCheckpoint, Bind
  <2> QED
    BY <1>2, <2>1
<1>6. ASSUME phase # "off", PutSnapshot PROVE names'["note"] = names["note"]
  BY <1>2, <1>6 DEF PutSnapshot
<1>7. CASE MaybeCheckpoint
  <2>1. /\ phase = "recorded"
        /\ (PutSnapshot /\ view' = names') \/ UNCHANGED <<names, view>>
    BY <1>7 DEF MaybeCheckpoint
  <2> QED
    BY <1>1, <1>6, <2>1
<1>8. CASE Exit
  <2>1. phase = "ready" /\ phase' = "off" /\ (PutSnapshot \/ UNCHANGED names)
    BY <1>8 DEF Exit, Off
  <2> QED
    BY <1>6, <2>1
<1>9. CASE \/ Start \/ Crash \/ Collect \/ Ask \/ RecordFails \/ UNCHANGED vars
           \/ \E b \in Cid : Load(b) \/ Resume(b) \/ ResumeFails(b)
  <2>1. /\ UNCHANGED names
        /\ \/ view' = names' \/ phase' = "off"
           \/ UNCHANGED view /\ phase # "off"
           \/ UNCHANGED <<view, phase>>
    BY <1>9 DEF Start, Ask, RecordFails, Crash, Off, Collect, Load, Resume,
                ResumeFails, vars, session
  <2> QED
    BY <1>1, <2>1
<1> QED
  BY <1>3, <1>4, <1>5, <1>7, <1>8, <1>9 DEF Next, Step

\* A list of turns that can be read still can when blocks have been put.
LEMMA ReadableAfter ==
  ASSUME SessionInv, Extended, disk \subseteq disk', NEW ts,
         Elements(ts) \subseteq Of("turn"), ContextReadable(ts)
  PROVE  /\ Elements(ts) \subseteq disk'
         /\ \A t \in Elements(ts) :
              log'[t] = log[t] /\ log'[t].context \subseteq disk'
<1>1. \A t \in Elements(ts) : t \in Cid /\ log'[t] = log[t]
  BY DEF Extended, Of
<1> QED
  BY <1>1 DEF ContextReadable, Context

\* The turns of the conversations that are saved.
LEMMA SavedTurns ==
  ASSUME SessionInv, CalmInv, SavedInv
  PROVE  /\ \A h \in Saved : /\ h \in Of("conversation") /\ h # 0
                             /\ Elements(log[h].turns) \subseteq Of("turn")
         /\ ContextReadable(turns)
<1>1. ASSUME NEW h \in Saved
      PROVE  /\ h \in Of("conversation") /\ h # 0
             /\ Elements(log[h].turns) \subseteq Of("turn")
  <2>1. h \in Of("conversation")
    BY DEF Saved, History, Conversations, Of
  <2> QED
    BY <2>1, KindFacts
    DEF Of, SessionInv, LogInv, BlockGood, ConversationGood
<1>2. ASSUME head = 0 PROVE ContextReadable(turns)
  <2>1. turns = <<>>
    BY <1>2 DEF CalmInv
  <2>2. Elements(turns) = {}
    BY <2>1 DEF Elements
  <2>3. Context(turns) = {}
    BY <2>2 DEF Context
  <2> QED
    BY <2>2, <2>3 DEF ContextReadable
<1>3. ASSUME head # 0 PROVE ContextReadable(turns)
  <2>1. turns = log[head].turns /\ head \in Saved
    BY <1>3 DEF CalmInv, SavedInv
  <2> QED
    BY <2>1 DEF CalmInv
<1> QED
  BY <1>1, <1>2, <1>3

\* What a prompt links to has no kind but memory.
LEMMA PromptsLinkMemory ==
  ASSUME SessionInv, SavedInv, CalmInv
  PROVE  /\ names["note"] \in Of("memory")
         /\ Context(turns) \subseteq Of("memory") \cap disk
         /\ phase # "asked" => loaded \subseteq Of("memory") \cap disk
<1>1. names["note"] \in Of("memory")
  BY KindFacts DEF SessionInv, StateInv, NamesGood, CalmInv
<1>2. Elements(turns) \subseteq Of("turn") /\ ContextReadable(turns)
  BY SavedTurns DEF SessionInv, StateInv
<1>3. Context(turns) \subseteq Of("memory") \cap disk
  BY <1>2 DEF ContextReadable, Context, CalmInv
<1> QED
  BY <1>1, <1>3 DEF CalmInv

\* The conversation of a turn is put with what can be read.
LEMMA RecordReads ==
  ASSUME SessionInv, SavedInv, CalmInv, Record
  PROVE  /\ Asked = Len(log) /\ turns' = Append(turns, Asked)
         /\ Elements(turns') = Elements(turns) \cup {Len(log)}
         /\ Elements(turns') \subseteq Of("turn")
         /\ ContextReadable(turns')
<1>1. phase = "asked" /\ turns' = Append(turns, Asked)
  BY DEF Record
<1>2. Asked = Len(log)
  <2> DEFINE IsAsked(b) == /\ log[b].kind = "turn"
                          /\ \A c \in Cid : c > b => log[c].kind # "turn"
  <2>1. Cid = 1..Len(log) /\ Len(log) \in Nat
    BY CidRange DEF SessionInv
  <2>2. Len(log) \in Cid /\ IsAsked(Len(log))
    BY <1>1, <2>1 DEF CalmInv, Of
  <2>3. ASSUME NEW b \in Cid, IsAsked(b) PROVE b = Len(log)
    BY <2>1, <2>2, <2>3
  <2>4. Asked = CHOOSE x \in Cid : IsAsked(x)
    BY Zenon DEF Asked, IsAsked
  <2> HIDE DEF IsAsked
  <2> QED
    BY <2>2, <2>3, <2>4
<1>3. Len(log) \in Of("turn") \cap disk /\ log[Len(log)].context \subseteq disk
  BY <1>1 DEF CalmInv
<1>4. Elements(turns') = Elements(turns) \cup {Len(log)}
  BY <1>1, <1>2, <1>3, AppendTurns DEF SessionInv, StateInv, Of
<1>5. Elements(turns) \subseteq Of("turn") /\ ContextReadable(turns)
  BY SavedTurns DEF SessionInv, StateInv
<1> QED
  BY <1>1, <1>2, <1>3, <1>4, <1>5 DEF ContextReadable, Context

\* It is no turn.
LEMMA RecordPuts ==
  ASSUME SessionInv, Record, NEW b \in Cid' \ Cid
  PROVE  log'[b].kind = "conversation"
<1> DEFINE r == ConversationNode(Append(turns, Asked), head)
<1>1. phase = "asked" /\ turns' = Append(turns, Asked) /\ PutAll(<<r>>)
  BY DEF Record
<1>2. r \in Block /\ r.kind = "conversation"
  BY <1>1, PutsGood DEF ConversationNode
<1> HIDE DEF r
<1> QED
  BY <1>1, <1>2, PutOne DEF Grows, SessionInv

\* No resume fails.
LEMMA ResumeReads ==
  ASSUME SessionInv, SavedInv, CalmInv, faults = {},
         NEW b \in Cid, ResumeTarget(b), phase = "ready"
  PROVE  log[b].root \in Saved /\ ContextReadable(log[log[b].root].turns)
<1>1. PICK n \in Snapshots : names[n] = b /\ names[n] # 0
  BY ResumeNamed
<1>2. log[b].root \in Saved
  BY <1>1, PinnedFacts
<1> QED
  BY <1>2 DEF CalmInv

\* What is saved after a step can be read after it.
LEMMA CalmReads ==
  ASSUME SessionInv, SessionInv', SavedInv, SavedInv', CalmInv, faults = {},
         [Next]_vars, NEW h \in Saved'
  PROVE  ContextReadable(log[h].turns)'
<1>1. /\ Extended
      /\ Saved' \subseteq Saved \cup (Cid' \ Cid)
      /\ Saved' \subseteq Of("conversation")'
  <2>1. Extended /\ ((NamesSame /\ HeadNamed) \/ ConversationBound \/ SnapshotBound)
    BY StepExtends, NamesMove
  <2>2. Saved' \subseteq Of("conversation")'
    BY DEF Saved, History, Conversations, Of
  <2> QED
    BY <2>1, <2>2, SavedMoves
<1> DEFINE ts == log'[h].turns
<1>2. SUFFICES /\ Elements(ts) \subseteq disk'
               /\ \A t \in Elements(ts) : log'[t].context \subseteq disk'
  BY DEF ContextReadable, Context, Elements
<1>3. CASE h \in Cid
  <2>1. /\ h \in Saved /\ ts = log[h].turns /\ h \in Of("conversation")
        /\ Elements(ts) \subseteq Of("turn") /\ ContextReadable(ts)
    BY <1>1, <1>3, SavedTurns DEF Extended, CalmInv
  <2> HIDE DEF ts
  <2>2. CASE Collect
    <3>1. /\ log' = log /\ h \in disk' /\ names' = names
          /\ \A a \in disk' : \A b \in BlockLinks(a) :
               b \in disk /\ b \notin Of("checkpoint") => b \in disk'
      BY <2>2, CollectKeeps DEF Collect, SavedInv
    <3>2. Elements(ts) \subseteq disk /\ Context(ts) \subseteq disk
      BY <2>1 DEF ContextReadable
    <3>3. ASSUME NEW t \in Elements(ts) PROVE t \in disk'
      <4>1. t \in Of("turn") /\ t \in disk /\ t \notin Of("checkpoint") /\ t # 0
        BY <2>1, <3>2, KindFacts DEF Of, SessionInv
      <4>2. t \in BlockLinks(h)
        BY <2>1, <4>1 DEF BlockLinks, Of, ts
      <4> QED
        BY <3>1, <4>1, <4>2
    <3>4. ASSUME NEW t \in Elements(ts), NEW m \in log[t].context
          PROVE  m \in disk'
      <4>1. t \in Of("turn") /\ m \in Of("memory") /\ m \in disk
        BY <2>1, <3>2 DEF CalmInv, Context
      <4>2. m \notin Of("checkpoint") /\ m # 0
        BY <4>1, KindFacts DEF Of, SessionInv
      <4>3. m \in BlockLinks(t)
        BY <4>1, <4>2 DEF BlockLinks, Of
      <4> QED
        BY <3>1, <3>3, <4>1, <4>2, <4>3
    <3> QED
      BY <3>1, <3>3, <3>4
  <2>3. CASE disk' = disk \cup (Cid' \ Cid)
    BY <1>1, <2>1, <2>3, ReadableAfter
  <2> QED
    BY <2>2, <2>3, DiskMoves
<1>4. CASE h \notin Cid
  <2>1. log'[h].kind = "conversation" /\ h \in Cid'
    BY <1>1 DEF Of
  <2>2. Record /\ ts = turns'
    BY <1>4, <2>1, NewBlocks DEF TurnNode
  <2> HIDE DEF ts
  <2>3. Elements(ts) \subseteq Of("turn") /\ ContextReadable(ts)
    BY <2>2, RecordReads
  <2>4. disk' = disk \cup (Cid' \ Cid)
    BY <2>2, DiskMoves DEF Record, Collect
  <2> QED
    BY <1>1, <2>3, <2>4, ReadableAfter
<1> QED
  BY <1>3, <1>4

\* What the session has in memory: the turns are those of the head, and what
\* is loaded has a name or is the context of a turn.
LEMMA CalmSession ==
  ASSUME SessionInv, SessionInv', SavedInv, CalmInv, faults = {}, [Next]_vars
  PROVE  /\ turns' = IF head' = 0 THEN <<>> ELSE log'[head'].turns
         /\ loaded' \subseteq {names'["note"]} \cup Context(turns)'
<1>1. Extended
  BY StepExtends
<1>2. /\ head \in {0} \cup Of("conversation")
      /\ Elements(turns) \subseteq Of("turn")
      /\ turns = IF head = 0 THEN <<>> ELSE log[head].turns
      /\ loaded \subseteq {names["note"]} \cup Context(turns)
  BY DEF SessionInv, StateInv, CalmInv
<1>3. \A c \in Cid : log'[c] = log[c]
  BY <1>1 DEF Extended
<1>4. \A ts : Elements(ts) \subseteq Cid =>
        UNION {log'[t].context : t \in Elements(ts)} = Context(ts)
  BY <1>3 DEF Context
<1>5. Context(turns)' = UNION {log'[t].context : t \in Elements(turns')}
  BY DEF Context, Elements
<1>6. Of("turn") \subseteq Cid /\ Of("conversation") \subseteq Cid
  BY DEF Of
<1>7. CASE UNCHANGED <<turns, head, loaded>> /\ names'["note"] = names["note"]
  <2>1. Context(turns)' = Context(turns)
    BY <1>2, <1>4, <1>5, <1>6, <1>7
  <2> QED
    BY <1>2, <1>3, <1>6, <1>7, <2>1
<1>8. CASE turns' = <<>> /\ head' = 0 /\ loaded' = {}
  BY <1>8
<1>9. CASE Record
  <2> DEFINE r == ConversationNode(Append(turns, Asked), head)
  <2>1. /\ phase = "asked" /\ turns' = Append(turns, Asked)
        /\ head' = Len(log') /\ loaded' = loaded
        /\ PutAll(<<r>>)
    BY <1>9 DEF Record
  <2>2. r \in Block /\ r.turns = turns'
    BY <2>1, PutsGood DEF ConversationNode
  <2> HIDE DEF r
  <2>3. Grows(r) /\ Len(log) \in Nat
    BY <2>1, <2>2, PutOne, CidRange DEF SessionInv
  <2>4. head' # 0 /\ log'[head'].turns = turns'
    BY <2>1, <2>2, <2>3 DEF Grows
  <2>5. /\ Elements(turns') = Elements(turns) \cup {Len(log)}
        /\ Elements(turns') \subseteq Of("turn")
    BY <1>9, RecordReads
  <2>6. Context(turns) \subseteq Context(turns')
    BY <2>5 DEF Context
  <2>7. Context(turns)' = Context(turns')
    BY <1>4, <1>5, <1>6, <2>5
  <2>8. names'["note"] = names["note"]
    BY <2>1, <1>9, NoteMoves DEF RebindNote
  <2> QED
    BY <1>2, <2>1, <2>4, <2>6, <2>7, <2>8
<1>10. ASSUME NEW b \in Cid, Load(b)
       PROVE  /\ UNCHANGED <<log, turns, head, names>>
              /\ loaded' \subseteq loaded \cup {names["note"]}
  <2>1. /\ phase = "ready" /\ b \in disk /\ Named(b) /\ ~ IsCheckpoint(b)
        /\ log[b].kind = "memory" /\ loaded' = loaded \cup {b}
        /\ UNCHANGED <<log, turns, head, names>>
    BY <1>10 DEF Load, IsCheckpoint
  <2>2. PICK n \in Name : view[n] = b
    BY <2>1 DEF Named
  <2>3. n = "note"
    BY <2>1, <2>2, KindFacts DEF SessionInv, StateInv, NamesGood, Name, Of
  <2> QED
    BY <2>1, <2>2, <2>3 DEF CalmInv
<1>11. ASSUME NEW b \in Cid, Load(b)
       PROVE  /\ turns' = IF head' = 0 THEN <<>> ELSE log'[head'].turns
              /\ loaded' \subseteq {names'["note"]} \cup Context(turns)'
  <2>1. Context(turns)' = Context(turns)
    BY <1>2, <1>4, <1>5, <1>6, <1>10, <1>11
  <2> QED
    BY <1>2, <1>10, <1>11, <2>1
<1>12. ASSUME NEW b \in Cid, Resume(b)
       PROVE  /\ turns' = IF head' = 0 THEN <<>> ELSE log'[head'].turns
              /\ loaded' \subseteq {names'["note"]} \cup Context(turns)'
  <2>1. /\ ResumeTarget(b) /\ phase = "ready" /\ head' = log[b].root
        /\ turns' = log[head'].turns /\ loaded' = Context(turns')
        /\ UNCHANGED log
    BY <1>12 DEF Resume
  <2>2. head' \in Saved
    BY <2>1, ResumeReads
  <2>3. head' # 0 /\ Elements(turns') \subseteq Of("turn")
    BY <2>1, <2>2, SavedTurns
  <2>4. Context(turns)' = Context(turns')
    BY <1>4, <1>5, <1>6, <2>3
  <2> QED
    BY <2>1, <2>3, <2>4
<1>13. \A b \in Cid : ~ ResumeFails(b)
  <2> SUFFICES ASSUME NEW b \in Cid, ResumeFails(b) PROVE FALSE
    OBVIOUS
  <2>1. /\ ResumeTarget(b) /\ phase = "ready"
        /\ ~ ContextReadable(log[log[b].root].turns)
    BY DEF ResumeFails
  <2> QED
    BY <2>1, ResumeReads
<1>14. CASE RebindNote
  <2>1. phase = "off" /\ UNCHANGED <<turns, head, loaded>>
    BY <1>14 DEF RebindNote, session
  <2> QED
    BY <1>8, <2>1 DEF SessionInv, PhaseInv
<1>15. CASE Crash \/ Exit
  BY <1>8, <1>15 DEF Crash, Exit, Off
<1>16. CASE \/ Start \/ Ask \/ Collect \/ MaybeCheckpoint \/ UNCHANGED vars
            \/ \E n \in {"latest", "milestone"} : ManualCheckpoint(n)
  <2>1. UNCHANGED <<turns, head, loaded>>
    BY <1>16 DEF Start, Ask, Collect, MaybeCheckpoint, ManualCheckpoint, vars,
                 session
  <2>2. names'["note"] = names["note"] \/ RebindNote
    BY NoteMoves
  <2> QED
    BY <1>7, <1>14, <2>1, <2>2
<1>17. ~ RecordFails
  BY DEF RecordFails
<1> QED
  BY <1>9, <1>11, <1>12, <1>13, <1>14, <1>15, <1>16, <1>17 DEF Next, Step

\* The call in progress: its prompt is the last block.
LEMMA CalmCall ==
  ASSUME SessionInv, SessionInv', SavedInv, CalmInv, faults = {}, [Next]_vars,
         phase' = "asked"
  PROVE  /\ Len(log') \in Of("turn")' \cap disk'
         /\ log'[Len(log')].context \subseteq disk'
<1>1. CASE Ask
  <2> DEFINE r == TurnNode(loaded)
  <2>1. PutAll(<<r>>) /\ phase = "ready"
    BY <1>1 DEF Ask
  <2>2. r \in Block /\ r.kind = "turn" /\ r.context = loaded
    BY PutsGood DEF TurnNode
  <2> HIDE DEF r
  <2>3. Grows(r)
    BY <2>1, <2>2, PutOne DEF SessionInv
  <2>4. loaded \subseteq disk
    BY <2>1, PromptsLinkMemory
  <2> QED
    BY <2>2, <2>3, <2>4 DEF Grows, Of
<1>2. CASE phase = "asked" /\ UNCHANGED <<log, disk>>
  <2>1. Of("turn")' = Of("turn")
    BY <1>2 DEF Of, Cid
  <2> QED
    BY <1>2, <2>1 DEF CalmInv
<1>3. CASE RebindNote
  BY <1>3 DEF RebindNote, session
<1>4. ~ Collect
  BY DEF Collect, session
<1>5. ASSUME NEW b \in Cid PROVE ~ (Load(b) \/ Resume(b) \/ ResumeFails(b))
  BY DEF Load, Resume, ResumeFails
<1>6. ASSUME NEW n \in {"latest", "milestone"} PROVE ~ ManualCheckpoint(n)
  BY DEF ManualCheckpoint
<1>7. ~ (\/ Start \/ Record \/ RecordFails \/ MaybeCheckpoint \/ Exit \/ Crash)
  BY DEF Start, Record, RecordFails, MaybeCheckpoint, Exit, Crash, Off
<1> QED
  BY <1>1, <1>2, <1>3, <1>4, <1>5, <1>6, <1>7 DEF Next, Step, vars, session

LEMMA CalmStep ==
  ASSUME SessionInv, SessionInv', SavedInv, SavedInv', CalmInv, faults = {},
         [Next]_vars
  PROVE  CalmInv'
<1>1. ASSUME NEW t \in Of("turn")' PROVE log'[t].context \subseteq Of("memory")'
  <2>1. Of("memory") \subseteq Of("memory")' /\ \A c \in Cid : log'[c] = log[c]
    BY StepExtends DEF Extended, Of
  <2>2. CASE t \in Cid
    <3>1. t \in Of("turn") /\ log'[t] = log[t]
      BY <2>1, <2>2 DEF Of
    <3> QED
      BY <2>1, <3>1 DEF CalmInv
  <2>3. CASE t \notin Cid
    <3>1. t \in Cid' \ Cid /\ log'[t].kind = "turn"
      BY <2>3 DEF Of
    <3>2. ~ Record
      BY <3>1, RecordPuts
    <3>3. Ask /\ log'[t] = TurnNode(loaded)
      BY <3>1, <3>2, NewBlocks
    <3>4. phase # "asked"
      BY <3>3 DEF Ask
    <3>5. loaded \subseteq Of("memory")
      BY <3>4, PromptsLinkMemory
    <3> QED
      BY <2>1, <3>3, <3>5 DEF TurnNode
  <2> QED
    BY <2>2, <2>3
<1>2. names'["note"] \in disk'
  <2>1. CASE RebindNote
    <3>1. PutAll(<<MemoryNode>>) /\ names'["note"] = Len(log')
      BY <2>1 DEF RebindNote, SessionInv, StateInv, NamesGood, Name
    <3>2. Grows(MemoryNode)
      BY <3>1, PutOne, PutsGood DEF SessionInv
    <3> QED
      BY <3>1, <3>2 DEF Grows
  <2>2. CASE names'["note"] = names["note"]
    <3>1. Collect => names["note"] \in disk'
      BY CollectKeeps DEF CalmInv, Name
    <3> QED
      BY <2>2, <3>1, DiskMoves DEF CalmInv
  <2> QED
    BY <2>1, <2>2, NoteMoves
<1>3. phase' # "off" => view'["note"] = names'["note"]
  BY NoteMoves
<1>4. /\ turns' = IF head' = 0 THEN <<>> ELSE log'[head'].turns
      /\ loaded' \subseteq {names'["note"]} \cup Context(turns)'
  BY CalmSession
<1>5. \A h \in Saved' : ContextReadable(log[h].turns)'
  BY CalmReads
<1>6. phase' = "asked" => /\ Len(log') \in Of("turn")' \cap disk'
                         /\ log'[Len(log')].context \subseteq disk'
  BY CalmCall
<1> QED
  BY <1>1, <1>2, <1>3, <1>4, <1>5, <1>6 DEF CalmInv

LEMMA CalmIsSound ==
  ASSUME SessionInv, SavedInv, CalmInv
  PROVE  NamedCheckpointsResumable /\ HeadIsWhole
<1>1. ASSUME NEW n \in Name, names[n] # 0, IsCheckpoint(names[n])
      PROVE  Resumable(names[n])
  <2>1. n \in Snapshots
    BY <1>1 DEF SessionInv, StateInv, NamesGood, Of, IsCheckpoint, Name, Snapshots
  <2>2. names[n] \in disk /\ log[names[n]].root \in Saved
    BY <1>1, <2>1, PinnedFacts DEF SavedInv
  <2> QED
    BY <2>2 DEF Resumable, RootReadable, SavedInv, CalmInv
<1>2. ASSUME NEW c \in Saved, NEW h \in History(c)
      PROVE  h \in disk /\ Elements(log[h].turns) \subseteq disk
  <2>1. h \in Saved
    BY PinnedFacts
  <2> QED
    BY <2>1 DEF SavedInv, CalmInv, ContextReadable
<1>3. \A c \in {names["conversation"], head} : c # 0 => c \in Saved
  BY PinnedFacts DEF Pinned, SavedInv
<1> QED
  BY <1>1, <1>2, <1>3 DEF NamedCheckpointsResumable, HeadIsWhole

(* As long as nothing fails and no collection comes while the model is     *)
(* called, every checkpoint that has a name can be resumed and the         *)
(* conversation that is bound or continued is whole: what the names keep   *)
(* from the collector is all that a session needs.                         *)
THEOREM CalmSessionsAreSound == Spec => []SoundWhenCalm
<1> DEFINE Inv == SessionInv /\ (faults = {} => SavedInv /\ CalmInv)
<1>1. Init => SavedInv /\ CalmInv
  <2> SUFFICES ASSUME Init PROVE SavedInv /\ CalmInv
    OBVIOUS
  <2>1. /\ names["conversation"] = 0 /\ names["note"] = 1
        /\ \A n \in Snapshots : names[n] = 0
        /\ phase = "off" /\ head = 0 /\ last = 0 /\ disk = {1}
        /\ turns = <<>> /\ loaded = {}
    BY DEF Init, Name, Snapshots
  <2>2. Saved = {}
    BY <2>1 DEF Pinned, Saved
  <2>3. Of("turn") = {}
    BY DEF Init, Of, Cid, MemoryNode
  <2> QED
    BY <2>1, <2>2, <2>3 DEF SavedInv, ViewInv, CalmInv
<1>2. Inv /\ SessionInv' /\ [Next]_vars => Inv'
  <2> SUFFICES ASSUME SessionInv, SessionInv', [Next]_vars, faults' = {},
                      faults = {} => SavedInv /\ CalmInv
               PROVE  SavedInv' /\ CalmInv'
    OBVIOUS
  <2>1. faults = {}
    BY DEF Next, vars
  <2>2. SavedInv'
    BY <2>1, SavedStep
  <2> QED
    BY <2>1, <2>2, CalmStep
<1>3. Inv => SoundWhenCalm
  BY CalmIsSound DEF SoundWhenCalm
<1> QED
  BY <1>1, <1>2, <1>3, SessionStart, SessionStep, PTL DEF Spec
=============================================================================
