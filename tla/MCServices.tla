----------------------------- MODULE MCServices -----------------------------
(***************************************************************************)
(* One run over the components that share no state with each other: the    *)
(* first state chooses which one moves, the others stay in their initial   *)
(* state, so that the states are those of each component alone.            *)
(***************************************************************************)
EXTENDS Integers, TLC, AccessServices, KernelServices, UpkeepServices,
        SharingServices

CONSTANTS
  c1, c2,       \* callers: threads, processes or sessions
  d1, d2,       \* devices
  r1, r2,       \* records or graphs
  a, b, g, h,   \* blocks
  o1,           \* a pairing offer
  Focus         \* the components checked

VARIABLE focus

\* g follows a, h merges b and g.
LinksOf == (a :> {}) @@ (b :> {}) @@ (g :> {a}) @@ (h :> {b, g})
\* Both roots reach the same block.
ReachOf == [r \in {r1, r2} |-> {a}]
\* Every path is a place of its own.
InPlace == [p \in {a, b, g} |-> p]
\* Two mounts are for one store.
StoreOfMount == (c1 :> d1) @@ (c2 :> d1) @@ (o1 :> d2)
\* Four keys share their first slot, three of them the second.
DigestOf == <<<<0, 0, 0>>, <<0, 0, 1>>, <<0, 0, 2>>, <<0, 1, 0>>>>

Init ==
  /\ focus \in Focus
  /\ Identity!Init
  /\ Members!Init
  /\ Outward!Init
  /\ Private!Init
  /\ Warm!Init
  /\ Harness!Init
  /\ Days!Init
  /\ Loop!Init
  /\ Host!Init
  /\ Rules!Init
  /\ App!Init
  /\ Suggestions!Init
  /\ Jobs!Init
  /\ Heads!Init
  /\ Merge!Init
  /\ Sites!Init
  /\ Pins!Init
  /\ Studio!Init
  /\ focus # "site" => account = d1

\* A step of one component, and nothing of the others moves.
IdentityMoves ==
  /\ focus = "identity" /\ Identity!Next
  /\ UNCHANGED
       <<focus, MembersVars, OutwardVars, PrivateVars, WarmVars,
       HarnessVars, DaysVars, LoopVars, HostVars, RulesVars, AppVars,
       SuggestionsVars, JobsVars, HeadsVars, MergeVars, SitesVars, PinsVars,
       StudioVars>>
MembersMoves ==
  /\ focus = "members" /\ Members!Next
  /\ UNCHANGED
       <<focus, IdentityVars, OutwardVars, PrivateVars, WarmVars,
       HarnessVars, DaysVars, LoopVars, HostVars, RulesVars, AppVars,
       SuggestionsVars, JobsVars, HeadsVars, MergeVars, SitesVars, PinsVars,
       StudioVars>>
OutwardMoves ==
  /\ focus = "egress" /\ Outward!Next
  /\ UNCHANGED
       <<focus, IdentityVars, MembersVars, PrivateVars, WarmVars,
       HarnessVars, DaysVars, LoopVars, HostVars, RulesVars, AppVars,
       SuggestionsVars, JobsVars, HeadsVars, MergeVars, SitesVars, PinsVars,
       StudioVars>>
PrivateMoves ==
  /\ focus = "private" /\ Private!Next
  /\ UNCHANGED
       <<focus, IdentityVars, MembersVars, OutwardVars, WarmVars,
       HarnessVars, DaysVars, LoopVars, HostVars, RulesVars, AppVars,
       SuggestionsVars, JobsVars, HeadsVars, MergeVars, SitesVars, PinsVars,
       StudioVars>>
WarmMoves ==
  /\ focus = "index" /\ Warm!Next
  /\ UNCHANGED
       <<focus, IdentityVars, MembersVars, OutwardVars, PrivateVars,
       HarnessVars, DaysVars, LoopVars, HostVars, RulesVars, AppVars,
       SuggestionsVars, JobsVars, HeadsVars, MergeVars, SitesVars, PinsVars,
       StudioVars>>
HarnessMoves ==
  /\ focus = "capture" /\ Harness!Next
  /\ UNCHANGED
       <<focus, IdentityVars, MembersVars, OutwardVars, PrivateVars,
       WarmVars, DaysVars, LoopVars, HostVars, RulesVars, AppVars,
       SuggestionsVars, JobsVars, HeadsVars, MergeVars, SitesVars, PinsVars,
       StudioVars>>
DaysMoves ==
  /\ focus = "days" /\ Days!Next
  /\ UNCHANGED
       <<focus, IdentityVars, MembersVars, OutwardVars, PrivateVars,
       WarmVars, HarnessVars, LoopVars, HostVars, RulesVars, AppVars,
       SuggestionsVars, JobsVars, HeadsVars, MergeVars, SitesVars, PinsVars,
       StudioVars>>
LoopMoves ==
  /\ focus = "node" /\ Loop!Next
  /\ UNCHANGED
       <<focus, IdentityVars, MembersVars, OutwardVars, PrivateVars,
       WarmVars, HarnessVars, DaysVars, HostVars, RulesVars, AppVars,
       SuggestionsVars, JobsVars, HeadsVars, MergeVars, SitesVars, PinsVars,
       StudioVars>>
HostMoves ==
  /\ focus = "gui" /\ Host!Next
  /\ UNCHANGED
       <<focus, IdentityVars, MembersVars, OutwardVars, PrivateVars,
       WarmVars, HarnessVars, DaysVars, LoopVars, RulesVars, AppVars,
       SuggestionsVars, JobsVars, HeadsVars, MergeVars, SitesVars, PinsVars,
       StudioVars>>
RulesMoves ==
  /\ focus = "rules" /\ Rules!Next
  /\ UNCHANGED
       <<focus, IdentityVars, MembersVars, OutwardVars, PrivateVars,
       WarmVars, HarnessVars, DaysVars, LoopVars, HostVars, AppVars,
       SuggestionsVars, JobsVars, HeadsVars, MergeVars, SitesVars, PinsVars,
       StudioVars>>
AppMoves ==
  /\ focus = "app" /\ App!Next
  /\ UNCHANGED
       <<focus, IdentityVars, MembersVars, OutwardVars, PrivateVars,
       WarmVars, HarnessVars, DaysVars, LoopVars, HostVars, RulesVars,
       SuggestionsVars, JobsVars, HeadsVars, MergeVars, SitesVars, PinsVars,
       StudioVars>>
SuggestionsMoves ==
  /\ focus = "outbox" /\ Suggestions!Next
  /\ UNCHANGED
       <<focus, IdentityVars, MembersVars, OutwardVars, PrivateVars,
       WarmVars, HarnessVars, DaysVars, LoopVars, HostVars, RulesVars,
       AppVars, JobsVars, HeadsVars, MergeVars, SitesVars, PinsVars,
       StudioVars>>
JobsMoves ==
  /\ focus = "work" /\ Jobs!Next
  /\ UNCHANGED
       <<focus, IdentityVars, MembersVars, OutwardVars, PrivateVars,
       WarmVars, HarnessVars, DaysVars, LoopVars, HostVars, RulesVars,
       AppVars, SuggestionsVars, HeadsVars, MergeVars, SitesVars, PinsVars,
       StudioVars>>
HeadsMoves ==
  /\ focus = "heads" /\ Heads!Next
  /\ UNCHANGED
       <<focus, IdentityVars, MembersVars, OutwardVars, PrivateVars,
       WarmVars, HarnessVars, DaysVars, LoopVars, HostVars, RulesVars,
       AppVars, SuggestionsVars, JobsVars, MergeVars, SitesVars, PinsVars,
       StudioVars>>
MergeMoves ==
  /\ focus = "merge" /\ Merge!Next
  /\ UNCHANGED
       <<focus, IdentityVars, MembersVars, OutwardVars, PrivateVars,
       WarmVars, HarnessVars, DaysVars, LoopVars, HostVars, RulesVars,
       AppVars, SuggestionsVars, JobsVars, HeadsVars, SitesVars, PinsVars,
       StudioVars>>
SitesMoves ==
  /\ focus = "site" /\ Sites!Next
  /\ UNCHANGED
       <<focus, IdentityVars, MembersVars, OutwardVars, PrivateVars,
       WarmVars, HarnessVars, DaysVars, LoopVars, HostVars, RulesVars,
       AppVars, SuggestionsVars, JobsVars, HeadsVars, MergeVars, PinsVars,
       StudioVars>>
PinsMoves ==
  /\ focus = "pins" /\ Pins!Next
  /\ UNCHANGED
       <<focus, IdentityVars, MembersVars, OutwardVars, PrivateVars,
       WarmVars, HarnessVars, DaysVars, LoopVars, HostVars, RulesVars,
       AppVars, SuggestionsVars, JobsVars, HeadsVars, MergeVars, SitesVars,
       StudioVars>>
StudioMoves ==
  /\ focus = "studio" /\ Studio!Next
  /\ UNCHANGED
       <<focus, IdentityVars, MembersVars, OutwardVars, PrivateVars,
       WarmVars, HarnessVars, DaysVars, LoopVars, HostVars, RulesVars,
       AppVars, SuggestionsVars, JobsVars, HeadsVars, MergeVars, SitesVars,
       PinsVars>>

Next ==
  \/ IdentityMoves
  \/ MembersMoves
  \/ OutwardMoves
  \/ PrivateMoves
  \/ WarmMoves
  \/ HarnessMoves
  \/ DaysMoves
  \/ LoopMoves
  \/ HostMoves
  \/ RulesMoves
  \/ AppMoves
  \/ SuggestionsMoves
  \/ JobsMoves
  \/ HeadsMoves
  \/ MergeMoves
  \/ SitesMoves
  \/ PinsMoves
  \/ StudioMoves

vars ==
  <<focus, IdentityVars, MembersVars, OutwardVars, PrivateVars, WarmVars,
  HarnessVars, DaysVars, LoopVars, HostVars, RulesVars, AppVars,
  SuggestionsVars, JobsVars, HeadsVars, MergeVars, SitesVars, PinsVars,
  StudioVars>>
Spec == Init /\ [][Next]_vars

----------------------------------------------------------------------------
\* Every component's variables keep their types.
TypeOK ==
  /\ focus = "identity" => Identity!TypeOK
  /\ focus = "members" => Members!TypeOK
  /\ focus = "egress" => Outward!TypeOK
  /\ focus = "private" => Private!TypeOK
  /\ focus = "index" => Warm!TypeOK
  /\ focus = "capture" => Harness!TypeOK
  /\ focus = "days" => Days!TypeOK
  /\ focus = "node" => Loop!TypeOK
  /\ focus = "gui" => Host!TypeOK
  /\ focus = "rules" => Rules!TypeOK
  /\ focus = "app" => App!TypeOK
  /\ focus = "outbox" => Suggestions!TypeOK
  /\ focus = "work" => Jobs!TypeOK
  /\ focus = "heads" => Heads!TypeOK
  /\ focus = "merge" => Merge!TypeOK
  /\ focus = "site" => Sites!TypeOK
  /\ focus = "pins" => Pins!TypeOK
  /\ focus = "studio" => Studio!TypeOK
============================================================================
