----------------------------- MODULE SitePublish -----------------------------
(***************************************************************************)
(* Publishing a folder as a web site (core/src/binding/deployment.rs and   *)
(* core/src/deploy.rs, driven by gui/src/mutations.rs). A review lists the *)
(* files and names the destination; publishing lists both again under the  *)
(* policy lock and must find what was reviewed, reads the files and the    *)
(* credentials once more and uploads that; the site changes with one last  *)
(* request, the receipt comes after it. A review survives a publication    *)
(* that failed. The folder and the credentials are changed at any time.    *)
(*                                                                         *)
(* The hosts are external: they keep what is uploaded until the release,   *)
(* and a branch takes a commit only on top of its tip. IPFS takes the      *)
(* folder as it lies on disk. Passwords, tokens, size limits and the site  *)
(* registry are left out.                                                  *)
(***************************************************************************)
EXTENDS Integers, FiniteSets

CONSTANTS
  File,         \* the files of the folder, one of them Index
  Index,        \* index.html
  Skipped,      \* those a listing leaves out: archives, node_modules
  Content,      \* what a file may hold
  Page,         \* the content that is generated for a gallery
  Dest,         \* the destinations the saved credentials may name
  Branch,       \* those that are branches of a repository
  Public,       \* the destinations that take the folder itself (IPFS)
  MaxReviews,   \* bound: the plans ever reviewed
  MaxPushes,    \* bound: what others push to a branch
  None          \* no file

VARIABLES
  folder,       \* the content of each file
  account,      \* the destination the saved credentials name
  reviews,      \* the reviewed plans the server still holds
  reviewed,     \* every plan that was shown to the user
  job,          \* the publication that holds the policy lock
  pushed,       \* how often others pushed to a branch
  merged        \* their pushes that the tip of the branch follows

branches == <<pushed, merged>>
vars == <<folder, account, reviews, reviewed, job, branches>>

Files == [File -> Content \cup {None}]
Plan == [files : Files, dest : Dest \cup Public]
\* What is carried out, with the plan it is for: touched are the files edited
\* since they were compared with the plan and before they were read again,
\* moved tells that new credentials were saved in between.
Upload == [plan : Plan, files : Files, dest : Dest \cup Public,
           touched : SUBSET File, moved : BOOLEAN]
Idle == [at |-> "idle"]
Job == [at : {"check", "read", "send", "record"}, done : SUBSET File,
        up : Upload, base : SUBSET (1..MaxPushes)]

Init ==
  /\ folder = [f \in File |-> None] /\ account \in Dest
  /\ reviews = {} /\ reviewed = {} /\ job = Idle
  /\ pushed = [b \in Branch |-> 0] /\ merged = [b \in Branch |-> {}]

TypeOK ==
  /\ folder \in Files /\ account \in Dest
  /\ reviews \subseteq reviewed /\ reviewed \subseteq Plan
  /\ job = Idle \/ job \in Job
  /\ pushed \in [Branch -> 0..MaxPushes]
  /\ merged \in [Branch -> SUBSET (1..MaxPushes)]

----------------------------------------------------------------------------
\* What walk_files lists of a file.
Listed(f) == IF f \in Skipped THEN None ELSE folder[f]
\* Where a plan for this destination goes now.
Destination(d) == IF d \in Public THEN d ELSE account

\* The files compared with the plan and not yet read again, of those listed.
Between == CASE job.at = "check" -> job.done \ Skipped
             [] job.at = "read" -> File \ (job.done \cup Skipped)
             [] OTHER -> {}

Write(f, c) ==
  /\ folder' = [folder EXCEPT ![f] = c]
  /\ job' = IF f \in Between /\ c # folder[f]
              THEN [job EXCEPT !.up.touched = @ \cup {f}] ELSE job

Edit(f, c) ==
  /\ c # folder[f]
  /\ Write(f, c)
  /\ UNCHANGED <<account, reviews, reviewed, branches>>

\* set_deploy_credentials, which does not take the policy lock.
Connect(d) ==
  /\ d # account
  /\ account' = d
  /\ job' = IF job.at = "read"
              THEN [job EXCEPT !.up.moved = TRUE] ELSE job
  /\ UNCHANGED <<folder, reviews, reviewed, branches>>

\* The plan is built, cached under a token and shown. For a gallery the page
\* is generated first, from the files beside it.
Review(d, kind) ==
  /\ IF kind = "site" THEN folder[Index] # None /\ UNCHANGED <<folder, job>>
     ELSE /\ \E f \in File \ ({Index} \cup Skipped) : folder[f] # None
          /\ Write(Index, Page)
  /\ LET plan == [files |-> [f \in File |-> Listed(f)'], dest |-> Destination(d)]
     IN /\ Cardinality(reviewed \cup {plan}) <= MaxReviews
        /\ reviews' = reviews \cup {plan}
        /\ reviewed' = reviewed \cup {plan}
  /\ UNCHANGED <<account, branches>>

\* A token is good for a time only.
Expire(plan) ==
  /\ reviews' = reviews \ {plan}
  /\ UNCHANGED <<folder, account, reviewed, job, branches>>

----------------------------------------------------------------------------
\* publish_site takes the policy lock for a plan whose token is good.
Begin(plan) ==
  /\ job = Idle /\ plan \in reviews
  /\ job' = [at |-> "check", done |-> {}, base |-> {},
             up |-> [plan |-> plan, files |-> [f \in File |-> None],
                     dest |-> plan.dest, touched |-> {}, moved |-> FALSE]]
  /\ UNCHANGED <<folder, account, reviews, reviewed, branches>>

\* A file is listed again and is as the plan has it.
Compare(f) ==
  /\ job.at = "check" /\ f \notin job.done
  /\ Listed(f) = job.up.plan.files[f]
  /\ job' = [job EXCEPT !.done = @ \cup {f}]
  /\ UNCHANGED <<folder, account, reviews, reviewed, branches>>

\* A slip: the destination of the plan is not looked at again.
ApproveFiles ==
  /\ job.at = "check" /\ job.done = File
  /\ job' = [job EXCEPT !.at = "read", !.done = {}]
  /\ UNCHANGED <<folder, account, reviews, reviewed, branches>>

\* So is the destination; the approval is recorded.
Approve ==
  /\ job.at = "check" /\ job.done = File
  /\ Destination(job.up.plan.dest) = job.up.plan.dest
  /\ job' = [job EXCEPT !.at = "read", !.done = {}]
  /\ UNCHANGED <<folder, account, reviews, reviewed, branches>>

\* A file is read once more, by the listing or by IPFS.
Read(f) ==
  /\ job.at = "read" /\ f \notin job.done
  /\ job' = [job EXCEPT !.done = @ \cup {f},
               !.up.files[f] = IF job.up.dest \in Public THEN folder[f]
                               ELSE Listed(f)]
  /\ UNCHANGED <<folder, account, reviews, reviewed, branches>>

\* The credentials are read, and a branch is asked for its tip, from which
\* the new commit will follow.
Open ==
  /\ job.at = "read" /\ job.done = File
  /\ \E f \in File : job.up.files[f] # None
  /\ LET d == Destination(job.up.plan.dest)
     IN job' = [job EXCEPT !.at = "send", !.done = {}, !.up.dest = d,
                           !.base = IF d \in Branch THEN merged[d] ELSE {}]
  /\ UNCHANGED <<folder, account, reviews, reviewed, branches>>

\* A slip: the commit becomes the tip wherever the branch has moved.
ReleaseForced ==
  /\ job.at = "send"
  /\ LET d == job.up.dest
     IN merged' = IF d \in Branch THEN [merged EXCEPT ![d] = job.base] ELSE merged
  /\ job' = [job EXCEPT !.at = "record"]
  /\ UNCHANGED <<folder, account, reviews, reviewed, pushed>>

\* What was uploaded goes on line: the commit becomes the tip of the branch, if
\* the branch has not moved; the deployment of any other host is created or
\* released, the name published.
Release ==
  /\ job.at = "send"
  /\ LET d == job.up.dest
     IN IF d \in Branch
          THEN merged[d] = job.base /\ merged' = [merged EXCEPT ![d] = job.base]
          ELSE UNCHANGED merged
  /\ job' = [job EXCEPT !.at = "record"]
  /\ UNCHANGED <<folder, account, reviews, reviewed, pushed>>

\* The receipt is written; the lock and the token are given up.
Record ==
  /\ job.at = "record"
  /\ reviews' = reviews \ {job.up.plan}
  /\ job' = Idle
  /\ UNCHANGED <<folder, account, reviewed, branches>>

\* The publication ends before: with a request or a write that fails, after
\* which the token stays good, or with the server, which has the tokens in its
\* memory.
Fail ==
  /\ job # Idle
  /\ job' = Idle
  /\ reviews' \in {reviews, {}}
  /\ UNCHANGED <<folder, account, reviewed, branches>>

\* Somebody else pushes to a branch, on top of what it holds.
Push(b) ==
  /\ pushed[b] < MaxPushes
  /\ pushed' = [pushed EXCEPT ![b] = @ + 1]
  /\ merged' = [merged EXCEPT ![b] = @ \cup {pushed[b] + 1}]
  /\ UNCHANGED <<folder, account, reviews, reviewed, job>>

Next ==
  \/ \E f \in File, c \in (Content \ {Page}) \cup {None} : Edit(f, c)
  \/ \E d \in Dest : Connect(d)
  \/ \E d \in {account} \cup Public, kind \in {"site", "gallery"} : Review(d, kind)
  \/ \E plan \in reviews : Expire(plan) \/ Begin(plan)
  \/ \E f \in File : Compare(f) \/ Read(f)
  \/ Approve \/ Open \/ Release \/ Record \/ Fail
  \/ \E b \in Branch : Push(b)

Spec == Init /\ [][Next]_vars

----------------------------------------------------------------------------
\* What a release put on line was shown to the user for where it is: every file
\* that was not edited between the comparison and the second reading, but for
\* those that a listing leaves out and IPFS takes; and the destination, unless
\* other credentials were saved between.
ReleaseWasReviewed ==
  job.at = "record" =>
    /\ job.up.plan \in reviewed
    /\ \/ job.up.dest = job.up.plan.dest
       \/ job.up.moved /\ job.up.plan.dest \notin Public
    /\ \A f \in File \ job.up.touched :
         \/ job.up.files[f] = job.up.plan.files[f]
         \/ f \in Skipped /\ job.up.dest \in Public
\* What others pushed to a branch stays in it.
PushesKept == \A b \in Branch : merged[b] = 1..pushed[b]

\* Whatever is edited and connected at any time, uploads that stop half way, a
\* server that dies, a review used again after a failure and pushes of others:
\* what goes on line beside the review is only what changed while it was being
\* read a second time, and no push is undone (publish_site, publish_external).
SitesAsReviewed ==
  /\ ReleaseWasReviewed
  /\ PushesKept
=============================================================================
