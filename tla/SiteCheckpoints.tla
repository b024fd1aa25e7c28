--------------------------- MODULE SiteCheckpoints ---------------------------
(***************************************************************************)
(* The Studio's checkpoints of a site: a save or a publication stages the  *)
(* page in the folder of the site, copies it to a file named by the second *)
(* and lists that file in manifest.json with the CID of what was saved, so *)
(* that it can be opened again (src/crates/gui/src/canvas.rs). Each        *)
(* request runs on a thread of its own; the file is created exclusively,   *)
(* the manifest is read, changed and replaced without a lock. A page       *)
(* stands for its CID.                                                     *)
(***************************************************************************)
EXTENDS Naturals, Sequences, SequencesExt

CONSTANTS
  Caller,    \* the requests that run at once
  Site,      \* the sites, by the name of their folder (safe_site)
  Page,      \* what there is to save
  None,
  MaxList,   \* the checkpoints kept in the list, newest first
  MaxTime,   \* bound on the clock
  Overlaps   \* what may come between the steps of a save: "same_site" saves,
             \* an "edit", a "kill"

VARIABLES
  now,       \* the second
  staged,    \* staged[s]: index.html in the folder of s
  copy,      \* copy[s][t]: the file of s named t
  manifest,  \* manifest[s]: what is listed of s
  save       \* save[c]: what c does

vars == <<now, staged, copy, manifest, save>>

\* A file that is created and not written yet.
Empty == "empty"
\* Bound: the seconds a file can be named by.
Second == 1..MaxTime

Idle == [at |-> "idle"]
Stands(c, step) == save[c].at = step
Goes(c, to) == save' = [save EXCEPT ![c] = to]

Init ==
  /\ now = 1
  /\ staged = [s \in Site |-> None]
  /\ copy = [s \in Site |-> [t \in Second |-> None]]
  /\ manifest = [s \in Site |-> <<>>]
  /\ save = [c \in Caller |-> Idle]

\* Who saves s.
Busy(s) == {c \in Caller : ~Stands(c, "idle") /\ save[c].site = s}

MayBegin(c, s) ==
  /\ Stands(c, "idle")
  /\ "same_site" \in Overlaps \/ Busy(s) = {}

\* A checkpoint saved: the page is put in the store and staged.
Save(c, s, p) ==
  /\ MayBegin(c, s)
  /\ staged' = [staged EXCEPT ![s] = p]
  /\ Goes(c, [at |-> "read", site |-> s, cid |-> p])
  /\ UNCHANGED <<now, copy, manifest>>

\* A site published: what is in the folder, whatever put it there.
Publish(c, s) ==
  /\ MayBegin(c, s) /\ staged[s] # None
  /\ Goes(c, [at |-> "read", site |-> s, cid |-> staged[s]])
  /\ UNCHANGED <<now, staged, copy, manifest>>

\* record_site_checkpoint reads the page back, and the clock.
Read(c) ==
  /\ Stands(c, "read")
  /\ Goes(c, [at |-> "create", site |-> save[c].site, cid |-> save[c].cid,
              page |-> staged[save[c].site], ts |-> now])
  /\ UNCHANGED <<now, staged, copy, manifest>>

\* A slip: the file of that second is opened, whoever made it.
CreateOver(c) ==
  /\ Stands(c, "create")
  /\ copy' = [copy EXCEPT ![save[c].site][save[c].ts] = Empty]
  /\ Goes(c, [save[c] EXCEPT !.at = "fill"])
  /\ UNCHANGED <<now, staged, manifest>>

\* The first second not taken, from this one on. Bound: there is one left.
Create(c) ==
  /\ Stands(c, "create")
  /\ IF copy[save[c].site][save[c].ts] # None
       THEN /\ save[c].ts + 1 \in Second
            /\ Goes(c, [save[c] EXCEPT !.ts = @ + 1])
            /\ UNCHANGED copy
       ELSE /\ copy' = [copy EXCEPT ![save[c].site][save[c].ts] = Empty]
            /\ Goes(c, [save[c] EXCEPT !.at = "fill"])
  /\ UNCHANGED <<now, staged, manifest>>

Fill(c) ==
  /\ Stands(c, "fill")
  /\ copy' = [copy EXCEPT ![save[c].site][save[c].ts] = save[c].page]
  /\ Goes(c, [save[c] EXCEPT !.at = "list"])
  /\ UNCHANGED <<now, staged, manifest>>

ReadManifest(c) ==
  LET s == save[c].site
      entry == [ts |-> save[c].ts, cid |-> save[c].cid]
      longer == <<entry>> \o manifest[s]
  IN  /\ Stands(c, "list")
      /\ Goes(c, [at |-> "replace", site |-> s, new |->
           [manifest EXCEPT ![s] = SubSeq(longer, 1,
              IF Len(longer) > MaxList THEN MaxList ELSE Len(longer))]])
      /\ UNCHANGED <<now, staged, copy, manifest>>

\* The whole manifest, the other sites as they were when it was read.
ReplaceManifest(c) ==
  /\ Stands(c, "replace")
  /\ manifest' = save[c].new
  /\ Goes(c, Idle)
  /\ UNCHANGED <<now, staged, copy>>

Tick ==
  /\ now < MaxTime
  /\ now' = now + 1
  /\ UNCHANGED <<staged, copy, manifest, save>>

\* The editor, or an assistant through the MCP server, writes the page.
Edit(s, p) ==
  /\ p # staged[s]
  /\ "edit" \in Overlaps \/ Busy(s) = {}
  /\ staged' = [staged EXCEPT ![s] = p]
  /\ UNCHANGED <<now, copy, manifest, save>>

\* A step fails, which is only a warning, or the server is killed.
Fail(c) ==
  /\ "kill" \in Overlaps
  /\ ~Stands(c, "idle")
  /\ Goes(c, Idle)
  /\ UNCHANGED <<now, staged, copy, manifest>>

Next ==
  \/ \E c \in Caller, s \in Site : Publish(c, s) \/ \E p \in Page : Save(c, s, p)
  \/ \E c \in Caller :
       \/ Read(c) \/ Create(c) \/ Fill(c)
       \/ ReadManifest(c) \/ ReplaceManifest(c) \/ Fail(c)
  \/ \E s \in Site, p \in Page : Edit(s, p)
  \/ Tick

Spec == Init /\ [][Next]_vars

----------------------------------------------------------------------------
(* What must hold.                                                         *)

\* Every variable has its type.
TypeOK ==
  /\ now \in Second
  /\ staged \in [Site -> Page \cup {None}]
  /\ copy \in [Site -> [Second -> Page \cup {None, Empty}]]
  /\ \A s \in Site :
       /\ Len(manifest[s]) <= MaxList
       /\ ToSet(manifest[s]) \subseteq [ts : Second, cid : Page]

(* Every checkpoint in the list opens, and shows the page that was saved   *)
(* under its CID: saves of two sites at once, several in one second, and   *)
(* saves that fail half way do not mix them up.                            *)
ListedOpens ==
  \A s \in Site : \A e \in ToSet(manifest[s]) : copy[s][e.ts] = e.cid

=============================================================================
