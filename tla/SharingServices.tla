-------------------------- MODULE SharingServices --------------------------
(***************************************************************************)
(* What devices share and publish: heads that are pulled and merged, sites, *)
(* the checkpoints of a site, records kept hot on the user's own node.     *)
(* The components share no state; where two of them name a variable or a   *)
(* constant alike, a name is changed here. What the constants are is said  *)
(* in the module of the component, and so is what the properties are for.  *)
(***************************************************************************)
EXTENDS Integers, FiniteSets

CONSTANTS
  Device, Cid, Links, Writer, SyncFaults, \* HeadSync
  MaxBlocks, MergeFaults, \* HeadMerge
  File, Index, Skipped, Content, Page, Dest, Branch, Public,
  MaxReviews, MaxPushes, NoPage, \* SitePublish
  PinCaller, PinRecord, MaxCopies, PinOverlaps, \* HotPins
  Saver, Site, StudioPage, MaxList, MaxTime, StudioOverlaps  \* SiteCheckpoints

ASSUME SharingAssumption ==
  /\ Links \in [Cid -> SUBSET Cid]
  /\ MaxBlocks \in Nat
  /\ Index \in File \ Skipped /\ Page \in Content /\ MaxPushes \in Nat
  /\ MaxCopies \in Nat
  /\ MaxList \in Nat \ {0} /\ MaxTime \in Nat \ {0}
  /\ {NoPage, "empty"} \cap StudioPage = {} /\ NoPage # "empty"

VARIABLES
  has, heads, record, syncPc, source, queue, seen, adopt, gaps,
  nodes, holds, tombs, tips, known,
  folder, account, reviews, reviewed, publishing, pushed, merged,
  enabled, running, pinned, listed, copies, call,
  now, staged, copy, manifest, save

HeadsVars ==
  <<has, heads, record, syncPc, source, queue, seen, adopt, gaps>>
MergeVars == <<nodes, holds, tombs, tips, known>>
SitesVars ==
  <<folder, account, reviews, reviewed, publishing, pushed, merged>>
PinsVars == <<enabled, running, pinned, listed, copies, call>>
StudioVars == <<now, staged, copy, manifest, save>>

Heads == INSTANCE HeadSync WITH
  Faults <- SyncFaults, blocks <- has, pc <- syncPc, target <- adopt

Merge == INSTANCE HeadMerge WITH
  Faults <- MergeFaults, made <- nodes, has <- holds, heads <- tips

Sites == INSTANCE SitePublish WITH
  None <- NoPage, job <- publishing

Pins == INSTANCE HotPins WITH
  Caller <- PinCaller, Record <- PinRecord, Overlaps <- PinOverlaps

Studio == INSTANCE SiteCheckpoints WITH
  Caller <- Saver, Page <- StudioPage, None <- NoPage,
  Overlaps <- StudioOverlaps

----------------------------------------------------------------------------
\* A head that was adopted is complete on the device, but for what a pull that
\* was cut still waits for (HeadSync).
HeadsAreWhole == Heads!HeadsAreWhole

\* No branch is discarded by pulls, merges and collections (HeadMerge).
BranchesKept == Merge!BranchesKept

\* A site serves what was reviewed but for changes while it is read again, and
\* a branch keeps what others pushed (SitePublish).
SitesAsReviewed == Sites!SitesAsReviewed

\* What is listed as kept hot is pinned (HotPins).
ListedIsPinned == Pins!ListedIsPinned

\* Every listed checkpoint of a site opens as what was saved
\* (SiteCheckpoints).
ListedOpens == Studio!ListedOpens
============================================================================
