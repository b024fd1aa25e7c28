------------------------------- MODULE DayMap -------------------------------
(***************************************************************************)
(* The map of a day's events (mem/src/hamt.rs): a tree of nodes, a slot of *)
(* a node per part of the key's digest, in a slot a bucket sorted by key   *)
(* or, when it would overflow, a node of the next part. Children that were *)
(* changed are kept in memory ("dirty") until the map is flushed, which    *)
(* turns them into links. Encoding and block addresses are left out: equal *)
(* trees have equal addresses. The tree is the map from the paths of its   *)
(* slots to what they hold, so that what is below a link, which the code   *)
(* loads when it gets there, is there already.                             *)
(***************************************************************************)
EXTENDS Integers, FiniteSets, Sequences

CONSTANTS
  Key,          \* the keys, numbers in their byte order
  Value,
  Slot,         \* the slots of a node
  Depth,        \* the slots in a digest
  Digest,       \* the digest of a key, no two the same
  BucketSize    \* BUCKET_SIZE

VARIABLES
  entries,      \* what was set, as a plain map
  tree,         \* what is in the slots, by their path from the root
  calls,        \* calls of Node::set that are left to do, the next one first
  saved,        \* what was set when the map was last flushed
  root          \* the tree that was flushed

vars == <<entries, tree, calls, saved, root>>

Empty == [p \in {} |-> p]
Bucket(kvs) == [kind |-> "bucket", kvs |-> kvs]
Link == [kind |-> "link", kvs |-> <<>>]
Dirty == [kind |-> "dirty", kvs |-> <<>>]
\* The entry kv is to be set in a node that is this many slots down.
Call(kv, level) == [kv |-> kv, level |-> level]

KV == [key : Key, value : Value]
SlotPath == UNION {[1..n -> Slot] : n \in 1..Depth}
Pointer == [kind : {"bucket", "link", "dirty"}, kvs : Seq(KV)]
IsMap(es) == es \in UNION {[S -> Value] : S \in SUBSET Key}
IsTree(t) ==
  /\ t = [p \in DOMAIN t |-> t[p]] /\ DOMAIN t \subseteq SlotPath
  /\ \A p \in DOMAIN t : t[p] \in Pointer

TypeOK ==
  /\ IsMap(entries) /\ IsMap(saved)
  /\ IsTree(tree) /\ IsTree(root)
  /\ calls \in Seq([kv : KV, level : 0..(Depth - 1)])

Init ==
  /\ entries = Empty /\ tree = Empty /\ calls = <<>>
  /\ saved = Empty /\ root = Empty

----------------------------------------------------------------------------
\* HashBits: the path of the slot of a key n levels down.
Prefix(k, n) == [i \in 1..n |-> Digest[k][i]]
IsNode(t, p) == p \in DOMAIN t /\ t[p].kind # "bucket"

\* Node::get: the search leaves the nodes at the first slot that is none.
Ends(t, k, n) ==
  /\ ~IsNode(t, Prefix(k, n))
  /\ \A m \in 1..(n - 1) : IsNode(t, Prefix(k, m))
Found(t, k, v) ==
  \E n \in 1..Depth : LET p == Prefix(k, n) IN
    /\ p \in DOMAIN t /\ Ends(t, k, n)
    /\ \E i \in DOMAIN t[p].kvs : t[p].kvs[i] = [key |-> k, value |-> v]

\* A slip: the entry goes to the end of the bucket.
InsertLast(kvs, kv) == Append(kvs, kv)
\* Before the first entry with a larger key.
Place(kvs, k) ==
  CHOOSE i \in 1..(Len(kvs) + 1) :
    /\ \A j \in 1..(i - 1) : kvs[j].key <= k
    /\ i <= Len(kvs) => kvs[i].key > k
Insert(kvs, kv) ==
  LET i == Place(kvs, kv.key)
  IN SubSeq(kvs, 1, i - 1) \o <<kv>> \o SubSeq(kvs, i, Len(kvs))

\* The slot and the entry the next call is about.
Here == Prefix(Head(calls).kv.key, Head(calls).level + 1)
Entry == Head(calls).kv
Holds(kvs) == {kvs[i].key : i \in DOMAIN kvs}

----------------------------------------------------------------------------
\* Hamt::set. Its calls of Node::set are the steps below.
Set(k, v) ==
  /\ calls = <<>>
  /\ entries' = [l \in DOMAIN entries \cup {k} |-> IF l = k THEN v ELSE entries[l]]
  /\ calls' = <<Call([key |-> k, value |-> v], 0)>>
  /\ UNCHANGED <<tree, saved, root>>

Fill(p, pointer) ==
  tree' = [q \in DOMAIN tree \cup {p} |-> IF q = p THEN pointer ELSE tree[q]]

\* The slot was free.
SetFree ==
  /\ calls # <<>> /\ Here \notin DOMAIN tree
  /\ Fill(Here, Bucket(<<Entry>>))
  /\ calls' = Tail(calls)
  /\ UNCHANGED <<entries, saved, root>>

\* A child, which is dirty from now on.
SetBelow ==
  /\ calls # <<>> /\ IsNode(tree, Here)
  /\ Fill(Here, Dirty)
  /\ calls' = <<Call(Entry, Head(calls).level + 1)>> \o Tail(calls)
  /\ UNCHANGED <<entries, saved, root>>

HasBucket == calls # <<>> /\ Here \in DOMAIN tree /\ ~IsNode(tree, Here)

Overwrite ==
  /\ HasBucket
  /\ \E i \in DOMAIN tree[Here].kvs :
       /\ tree[Here].kvs[i].key = Entry.key
       /\ Fill(Here, Bucket([tree[Here].kvs EXCEPT ![i] = Entry]))
  /\ calls' = Tail(calls)
  /\ UNCHANGED <<entries, saved, root>>

SetInBucket ==
  /\ HasBucket /\ Entry.key \notin Holds(tree[Here].kvs)
  /\ Len(tree[Here].kvs) < BucketSize
  /\ Fill(Here, Bucket(Insert(tree[Here].kvs, Entry)))
  /\ calls' = Tail(calls)
  /\ UNCHANGED <<entries, saved, root>>

\* The new entry and then those of the bucket are set in a new child.
Split(kvs, level) == [i \in DOMAIN kvs |-> Call(kvs[i], level)]
Overflow ==
  /\ HasBucket /\ Entry.key \notin Holds(tree[Here].kvs)
  /\ Len(tree[Here].kvs) >= BucketSize
  /\ Fill(Here, Dirty)
  /\ calls' = Split(<<Entry>> \o tree[Here].kvs, Head(calls).level + 1) \o Tail(calls)
  /\ UNCHANGED <<entries, saved, root>>

\* Hamt::flush and Node::flush: dirty children, from the leaves up, become
\* links. A link has nothing dirty below it.
Flushed(t) == [p \in DOMAIN t |-> IF t[p] = Dirty THEN Link ELSE t[p]]
Flush ==
  /\ calls = <<>>
  /\ tree' = Flushed(tree) /\ root' = tree'
  /\ saved' = entries /\ UNCHANGED <<entries, calls>>

\* The map is loaded again from its root: what was not flushed is gone.
Load ==
  /\ calls = <<>>
  /\ tree' = root /\ entries' = saved
  /\ UNCHANGED <<calls, saved, root>>

Next ==
  \/ \E k \in Key, v \in Value : Set(k, v)
  \/ SetFree \/ SetBelow \/ Overwrite \/ SetInBucket \/ Overflow
  \/ Flush \/ Load

Spec == Init /\ [][Next]_vars

----------------------------------------------------------------------------
\* The keys of a map whose path starts with p.
Under(es, p) == {k \in DOMAIN es : Prefix(k, Len(p)) = p}
Crowded(es, p) == Cardinality(Under(es, p)) > BucketSize
Sorted(kvs) == \A i, j \in DOMAIN kvs : i < j => kvs[i].key < kvs[j].key

\* The tree as it follows from the entries alone: what shares a slot is in one
\* sorted bucket if it fits, else in a child.
Slots(es) ==
  UNION {{Prefix(k, n) : n \in {m \in 1..Depth :
                                 m = 1 \/ Crowded(es, Prefix(k, m - 1))}} :
         k \in DOMAIN es}
IsCanonical(t, es) ==
  /\ DOMAIN t = Slots(es)
  /\ \A p \in DOMAIN t :
       IF Crowded(es, p) THEN t[p] \in {Link, Dirty}
       ELSE /\ t[p].kind = "bucket" /\ Sorted(t[p].kvs)
            /\ {t[p].kvs[i] : i \in DOMAIN t[p].kvs} =
                 {[key |-> k, value |-> es[k]] : k \in Under(es, p)}

\* Whatever the order of insertions, overwrites, flushes and loads, the same
\* entries make the same root, every key is found with its value and no other
\* (hamt.rs, its head comment).
SameEntriesSameRoot ==
  calls = <<>> =>
    /\ IsCanonical(tree, entries)
    /\ \A k \in Key, v \in Value :
         Found(tree, k, v) <=> k \in DOMAIN entries /\ entries[k] = v
=============================================================================
