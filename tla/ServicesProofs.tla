--------------------------- MODULE ServicesProofs ---------------------------
(***************************************************************************)
(* What is proved of the components one by one holds of the specification  *)
(* that checks them in one run (MCServices): each of them behaves there as *)
(* its own specification says, whatever the values of the constants.       *)
(***************************************************************************)
EXTENDS MCServices, AccessUpkeepProofs, KernelServicesProofs, SharingProofs

----------------------------------------------------------------------------
(* A step of the run is a step of a component, or leaves it alone.         *)

LEMMA IdentityRuns == Spec => Identity!Spec
<1>1. Init => Identity!Init
  BY DEF Init
<1>2. Next => Identity!Next \/ UNCHANGED IdentityVars
  BY DEF Next, IdentityMoves, MembersMoves, OutwardMoves, PrivateMoves,
          WarmMoves, HarnessMoves, DaysMoves, LoopMoves, HostMoves,
          RulesMoves, AppMoves, SuggestionsMoves, JobsMoves, HeadsMoves,
          MergeMoves, SitesMoves, PinsMoves, StudioMoves
<1>3. UNCHANGED vars => UNCHANGED IdentityVars
  BY DEF vars
<1>4. UNCHANGED IdentityVars => UNCHANGED Identity!vars
  BY DEF IdentityVars, Identity!vars, Identity!files
<1> QED BY <1>1, <1>2, <1>3, <1>4, PTL DEF Spec, Identity!Spec

LEMMA MembersRuns == Spec => Members!Spec
<1>1. Init => Members!Init
  BY DEF Init
<1>2. Next => Members!Next \/ UNCHANGED MembersVars
  BY DEF Next, IdentityMoves, MembersMoves, OutwardMoves, PrivateMoves,
          WarmMoves, HarnessMoves, DaysMoves, LoopMoves, HostMoves,
          RulesMoves, AppMoves, SuggestionsMoves, JobsMoves, HeadsMoves,
          MergeMoves, SitesMoves, PinsMoves, StudioMoves
<1>3. UNCHANGED vars => UNCHANGED MembersVars
  BY DEF vars
<1>4. UNCHANGED MembersVars => UNCHANGED Members!vars
  BY DEF MembersVars, Members!vars, Members!disk, Members!history
<1> QED BY <1>1, <1>2, <1>3, <1>4, PTL DEF Spec, Members!Spec

LEMMA OutwardRuns == Spec => Outward!Spec
<1>1. Init => Outward!Init
  BY DEF Init
<1>2. Next => Outward!Next \/ UNCHANGED OutwardVars
  BY DEF Next, IdentityMoves, MembersMoves, OutwardMoves, PrivateMoves,
          WarmMoves, HarnessMoves, DaysMoves, LoopMoves, HostMoves,
          RulesMoves, AppMoves, SuggestionsMoves, JobsMoves, HeadsMoves,
          MergeMoves, SitesMoves, PinsMoves, StudioMoves
<1>3. UNCHANGED vars => UNCHANGED OutwardVars
  BY DEF vars
<1>4. UNCHANGED OutwardVars => UNCHANGED Outward!vars
  BY DEF OutwardVars, Outward!vars, Outward!disk
<1> QED BY <1>1, <1>2, <1>3, <1>4, PTL DEF Spec, Outward!Spec

LEMMA PrivateRuns == Spec => Private!Spec
<1>1. Init => Private!Init
  BY DEF Init
<1>2. Next => Private!Next \/ UNCHANGED PrivateVars
  BY DEF Next, IdentityMoves, MembersMoves, OutwardMoves, PrivateMoves,
          WarmMoves, HarnessMoves, DaysMoves, LoopMoves, HostMoves,
          RulesMoves, AppMoves, SuggestionsMoves, JobsMoves, HeadsMoves,
          MergeMoves, SitesMoves, PinsMoves, StudioMoves
<1>3. UNCHANGED vars => UNCHANGED PrivateVars
  BY DEF vars
<1>4. UNCHANGED PrivateVars => UNCHANGED Private!vars
  BY DEF PrivateVars, Private!vars, Private!files
<1> QED BY <1>1, <1>2, <1>3, <1>4, PTL DEF Spec, Private!Spec

LEMMA WarmRuns == Spec => Warm!Spec
<1>1. Init => Warm!Init
  BY DEF Init
<1>2. Next => Warm!Next \/ UNCHANGED WarmVars
  BY DEF Next, IdentityMoves, MembersMoves, OutwardMoves, PrivateMoves,
          WarmMoves, HarnessMoves, DaysMoves, LoopMoves, HostMoves,
          RulesMoves, AppMoves, SuggestionsMoves, JobsMoves, HeadsMoves,
          MergeMoves, SitesMoves, PinsMoves, StudioMoves
<1>3. UNCHANGED vars => UNCHANGED WarmVars
  BY DEF vars
<1>4. UNCHANGED WarmVars => UNCHANGED Warm!vars
  BY DEF WarmVars, Warm!vars, Warm!world, Warm!memory
<1> QED BY <1>1, <1>2, <1>3, <1>4, PTL DEF Spec, Warm!Spec

LEMMA HarnessRuns == Spec => Harness!Spec
<1>1. Init => Harness!Init
  BY DEF Init
<1>2. Next => Harness!Next \/ UNCHANGED HarnessVars
  BY DEF Next, IdentityMoves, MembersMoves, OutwardMoves, PrivateMoves,
          WarmMoves, HarnessMoves, DaysMoves, LoopMoves, HostMoves,
          RulesMoves, AppMoves, SuggestionsMoves, JobsMoves, HeadsMoves,
          MergeMoves, SitesMoves, PinsMoves, StudioMoves
<1>3. UNCHANGED vars => UNCHANGED HarnessVars
  BY DEF vars
<1>4. UNCHANGED HarnessVars => UNCHANGED Harness!vars
  BY DEF HarnessVars, Harness!vars, Harness!pass, Harness!history
<1> QED BY <1>1, <1>2, <1>3, <1>4, PTL DEF Spec, Harness!Spec

LEMMA DaysRuns == Spec => Days!Spec
<1>1. Init => Days!Init
  BY DEF Init
<1>2. Next => Days!Next \/ UNCHANGED DaysVars
  BY DEF Next, IdentityMoves, MembersMoves, OutwardMoves, PrivateMoves,
          WarmMoves, HarnessMoves, DaysMoves, LoopMoves, HostMoves,
          RulesMoves, AppMoves, SuggestionsMoves, JobsMoves, HeadsMoves,
          MergeMoves, SitesMoves, PinsMoves, StudioMoves
<1>3. UNCHANGED vars => UNCHANGED DaysVars
  BY DEF vars
<1>4. UNCHANGED DaysVars => UNCHANGED Days!vars
  BY DEF DaysVars, Days!vars
<1> QED BY <1>1, <1>2, <1>3, <1>4, PTL DEF Spec, Days!Spec

LEMMA LoopRuns == Spec => Loop!Spec
<1>1. Init => Loop!Init
  BY DEF Init
<1>2. Next => Loop!Next \/ UNCHANGED LoopVars
  BY DEF Next, IdentityMoves, MembersMoves, OutwardMoves, PrivateMoves,
          WarmMoves, HarnessMoves, DaysMoves, LoopMoves, HostMoves,
          RulesMoves, AppMoves, SuggestionsMoves, JobsMoves, HeadsMoves,
          MergeMoves, SitesMoves, PinsMoves, StudioMoves
<1>3. UNCHANGED vars => UNCHANGED LoopVars
  BY DEF vars
<1>4. UNCHANGED LoopVars => UNCHANGED Loop!vars
  BY DEF LoopVars, Loop!vars, Loop!program, Loop!queues, Loop!network,
         Loop!tables
<1> QED BY <1>1, <1>2, <1>3, <1>4, PTL DEF Spec, Loop!Spec

LEMMA HostRuns == Spec => Host!Spec
<1>1. Init => Host!Init
  BY DEF Init
<1>2. Next => Host!Next \/ UNCHANGED HostVars
  BY DEF Next, IdentityMoves, MembersMoves, OutwardMoves, PrivateMoves,
          WarmMoves, HarnessMoves, DaysMoves, LoopMoves, HostMoves,
          RulesMoves, AppMoves, SuggestionsMoves, JobsMoves, HeadsMoves,
          MergeMoves, SitesMoves, PinsMoves, StudioMoves
<1>3. UNCHANGED vars => UNCHANGED HostVars
  BY DEF vars
<1>4. UNCHANGED HostVars => UNCHANGED Host!vars
  BY DEF HostVars, Host!vars
<1> QED BY <1>1, <1>2, <1>3, <1>4, PTL DEF Spec, Host!Spec

LEMMA RulesRuns == Spec => Rules!Spec
<1>1. Init => Rules!Init
  BY DEF Init
<1>2. Next => Rules!Next \/ UNCHANGED RulesVars
  BY DEF Next, IdentityMoves, MembersMoves, OutwardMoves, PrivateMoves,
          WarmMoves, HarnessMoves, DaysMoves, LoopMoves, HostMoves,
          RulesMoves, AppMoves, SuggestionsMoves, JobsMoves, HeadsMoves,
          MergeMoves, SitesMoves, PinsMoves, StudioMoves
<1>3. UNCHANGED vars => UNCHANGED RulesVars
  BY DEF vars
<1>4. UNCHANGED RulesVars => UNCHANGED Rules!vars
  BY DEF RulesVars, Rules!vars, Rules!files
<1> QED BY <1>1, <1>2, <1>3, <1>4, PTL DEF Spec, Rules!Spec

LEMMA AppRuns == Spec => App!Spec
<1>1. Init => App!Init
  BY DEF Init
<1>2. Next => App!Next \/ UNCHANGED AppVars
  BY DEF Next, IdentityMoves, MembersMoves, OutwardMoves, PrivateMoves,
          WarmMoves, HarnessMoves, DaysMoves, LoopMoves, HostMoves,
          RulesMoves, AppMoves, SuggestionsMoves, JobsMoves, HeadsMoves,
          MergeMoves, SitesMoves, PinsMoves, StudioMoves
<1>3. UNCHANGED vars => UNCHANGED AppVars
  BY DEF vars
<1>4. UNCHANGED AppVars => UNCHANGED App!vars
  BY DEF AppVars, App!vars, App!stage, App!disk, App!rest
<1> QED BY <1>1, <1>2, <1>3, <1>4, PTL DEF Spec, App!Spec

LEMMA SuggestionsRuns == Spec => Suggestions!Spec
<1>1. Init => Suggestions!Init
  BY DEF Init
<1>2. Next => Suggestions!Next \/ UNCHANGED SuggestionsVars
  BY DEF Next, IdentityMoves, MembersMoves, OutwardMoves, PrivateMoves,
          WarmMoves, HarnessMoves, DaysMoves, LoopMoves, HostMoves,
          RulesMoves, AppMoves, SuggestionsMoves, JobsMoves, HeadsMoves,
          MergeMoves, SitesMoves, PinsMoves, StudioMoves
<1>3. UNCHANGED vars => UNCHANGED SuggestionsVars
  BY DEF vars
<1>4. UNCHANGED SuggestionsVars => UNCHANGED Suggestions!vars
  BY DEF SuggestionsVars, Suggestions!vars, Suggestions!files, Suggestions!history
<1> QED BY <1>1, <1>2, <1>3, <1>4, PTL DEF Spec, Suggestions!Spec

LEMMA JobsRuns == Spec => Jobs!Spec
<1>1. Init => Jobs!Init
  BY DEF Init
<1>2. Next => Jobs!Next \/ UNCHANGED JobsVars
  BY DEF Next, IdentityMoves, MembersMoves, OutwardMoves, PrivateMoves,
          WarmMoves, HarnessMoves, DaysMoves, LoopMoves, HostMoves,
          RulesMoves, AppMoves, SuggestionsMoves, JobsMoves, HeadsMoves,
          MergeMoves, SitesMoves, PinsMoves, StudioMoves
<1>3. UNCHANGED vars => UNCHANGED JobsVars
  BY DEF vars
<1>4. UNCHANGED JobsVars => UNCHANGED Jobs!vars
  BY DEF JobsVars, Jobs!vars
<1> QED BY <1>1, <1>2, <1>3, <1>4, PTL DEF Spec, Jobs!Spec

LEMMA HeadsRuns == Spec => Heads!Spec
<1>1. Init => Heads!Init
  BY DEF Init
<1>2. Next => Heads!Next \/ UNCHANGED HeadsVars
  BY DEF Next, IdentityMoves, MembersMoves, OutwardMoves, PrivateMoves,
          WarmMoves, HarnessMoves, DaysMoves, LoopMoves, HostMoves,
          RulesMoves, AppMoves, SuggestionsMoves, JobsMoves, HeadsMoves,
          MergeMoves, SitesMoves, PinsMoves, StudioMoves
<1>3. UNCHANGED vars => UNCHANGED HeadsVars
  BY DEF vars
<1>4. UNCHANGED HeadsVars => UNCHANGED Heads!vars
  BY DEF HeadsVars, Heads!vars, Heads!sync
<1> QED BY <1>1, <1>2, <1>3, <1>4, PTL DEF Spec, Heads!Spec

LEMMA MergeRuns == Spec => Merge!Spec
<1>1. Init => Merge!Init
  BY DEF Init
<1>2. Next => Merge!Next \/ UNCHANGED MergeVars
  BY DEF Next, IdentityMoves, MembersMoves, OutwardMoves, PrivateMoves,
          WarmMoves, HarnessMoves, DaysMoves, LoopMoves, HostMoves,
          RulesMoves, AppMoves, SuggestionsMoves, JobsMoves, HeadsMoves,
          MergeMoves, SitesMoves, PinsMoves, StudioMoves
<1>3. UNCHANGED vars => UNCHANGED MergeVars
  BY DEF vars
<1>4. UNCHANGED MergeVars => UNCHANGED Merge!vars
  BY DEF MergeVars, Merge!vars
<1> QED BY <1>1, <1>2, <1>3, <1>4, PTL DEF Spec, Merge!Spec

LEMMA SitesRuns == Spec => Sites!Spec
<1>1. Init => Sites!Init
  BY DEF Init
<1>2. Next => Sites!Next \/ UNCHANGED SitesVars
  BY DEF Next, IdentityMoves, MembersMoves, OutwardMoves, PrivateMoves,
          WarmMoves, HarnessMoves, DaysMoves, LoopMoves, HostMoves,
          RulesMoves, AppMoves, SuggestionsMoves, JobsMoves, HeadsMoves,
          MergeMoves, SitesMoves, PinsMoves, StudioMoves
<1>3. UNCHANGED vars => UNCHANGED SitesVars
  BY DEF vars
<1>4. UNCHANGED SitesVars => UNCHANGED Sites!vars
  BY DEF SitesVars, Sites!vars, Sites!branches
<1> QED BY <1>1, <1>2, <1>3, <1>4, PTL DEF Spec, Sites!Spec

LEMMA PinsRuns == Spec => Pins!Spec
<1>1. Init => Pins!Init
  BY DEF Init
<1>2. Next => Pins!Next \/ UNCHANGED PinsVars
  BY DEF Next, IdentityMoves, MembersMoves, OutwardMoves, PrivateMoves,
          WarmMoves, HarnessMoves, DaysMoves, LoopMoves, HostMoves,
          RulesMoves, AppMoves, SuggestionsMoves, JobsMoves, HeadsMoves,
          MergeMoves, SitesMoves, PinsMoves, StudioMoves
<1>3. UNCHANGED vars => UNCHANGED PinsVars
  BY DEF vars
<1>4. UNCHANGED PinsVars => UNCHANGED Pins!vars
  BY DEF PinsVars, Pins!vars, Pins!node
<1> QED BY <1>1, <1>2, <1>3, <1>4, PTL DEF Spec, Pins!Spec

LEMMA StudioRuns == Spec => Studio!Spec
<1>1. Init => Studio!Init
  BY DEF Init
<1>2. Next => Studio!Next \/ UNCHANGED StudioVars
  BY DEF Next, IdentityMoves, MembersMoves, OutwardMoves, PrivateMoves,
          WarmMoves, HarnessMoves, DaysMoves, LoopMoves, HostMoves,
          RulesMoves, AppMoves, SuggestionsMoves, JobsMoves, HeadsMoves,
          MergeMoves, SitesMoves, PinsMoves, StudioMoves
<1>3. UNCHANGED vars => UNCHANGED StudioVars
  BY DEF vars
<1>4. UNCHANGED StudioVars => UNCHANGED Studio!vars
  BY DEF StudioVars, Studio!vars
<1> QED BY <1>1, <1>2, <1>3, <1>4, PTL DEF Spec, Studio!Spec

\* Whichever component the first state of the run chooses, each of them behaves
\* as its own specification says (the one chosen moves, the others stay), so
\* that whatever is proved of a component holds in the run.
THEOREM ComponentsRun ==
  Spec =>
    /\ Identity!Spec /\ Members!Spec /\ Outward!Spec /\ Private!Spec
    /\ Warm!Spec /\ Harness!Spec /\ Days!Spec /\ Loop!Spec /\ Host!Spec
    /\ Rules!Spec /\ App!Spec /\ Suggestions!Spec /\ Jobs!Spec /\ Heads!Spec
    /\ Merge!Spec /\ Sites!Spec /\ Pins!Spec /\ Studio!Spec
BY IdentityRuns, MembersRuns, OutwardRuns, PrivateRuns, WarmRuns,
   HarnessRuns, DaysRuns, LoopRuns, HostRuns, RulesRuns, AppRuns,
   SuggestionsRuns, JobsRuns, HeadsRuns, MergeRuns, SitesRuns, PinsRuns,
   StudioRuns

\* The types of all the components' variables are kept, whatever overlaps and
\* fails in each of them.
THEOREM ServicesTypeCorrect == Spec => []TypeOK
<1>1. /\ Identity!TypeOK /\ Members!TypeOK /\ Outward!TypeOK
      /\ Private!TypeOK /\ Warm!TypeOK /\ Harness!TypeOK /\ Days!TypeOK
      /\ Loop!TypeOK /\ Host!TypeOK /\ Rules!TypeOK /\ App!TypeOK
      /\ Suggestions!TypeOK /\ Jobs!TypeOK /\ Heads!TypeOK /\ Merge!TypeOK
      /\ Sites!TypeOK /\ Pins!TypeOK /\ Studio!TypeOK
      => TypeOK
  BY DEF TypeOK
<1> QED
  BY <1>1, IdentityRuns, MembersRuns, OutwardRuns, PrivateRuns, WarmRuns,
     HarnessRuns, DaysRuns, LoopRuns, HostRuns, RulesRuns, AppRuns,
     SuggestionsRuns, JobsRuns, HeadsRuns, MergeRuns, SitesRuns, PinsRuns,
     StudioRuns, IdentityType, MembershipTypeCorrect, EgressType,
     PrivateType, WarmType, CaptureType, DaysType, LoopType, HostType,
     RulesType, AppType, OutboxType, JobsType, HeadsType, MergeType,
     SitesType, PinsType, StudioType, PTL

\* Where the callers of the components take turns as the components' theorems
\* ask, every safety property of the run holds for all values of the constants.
THEOREM ServicesHold ==
  ASSUME "together" \notin IdentityOverlaps,
         "revokes" \notin MemberOverlaps,
         "start" \notin WarmErrors,
         "together" \notin CaptureOverlaps,
         GuiOverlaps \cap {"mounts", "no_reuse"} = {},
         RulesOverlaps \cap {"refresh", "settings"} = {},
         "together" \notin Races,
         "command" \notin WorkFaults,
         \A p, q \in Path : At[p] = At[q] => p = q,
         PinOverlaps \cap {"together", "kill"} = {},
         StudioOverlaps \cap {"same_site", "edit"} = {}
  PROVE  Spec => [](/\ IdentityRecoverable /\ OfferGivesOnce
                    /\ RevokedStaysOut /\ FencedLeavesByGrant /\ CopiesOpen
                    /\ SearchFindsTheStore /\ NothingSkipped
                    /\ SameEntriesSameRoot /\ DeliveriesAccounted
                    /\ OneHostFound /\ LiveRulesVerified /\ ProgramIsThere
                    /\ GivenExactlyOnce /\ ProducedIsThere /\ HeadsAreWhole
                    /\ BranchesKept /\ SitesAsReviewed /\ ListedIsPinned
                    /\ ListedOpens)
<1>1. Identity!Spec => []IdentityRecoverable
  BY IdentityHolds
<1>2. Members!Spec => []OfferGivesOnce
  BY OneGrantPerOffer
<1>3. Members!Spec => []RevokedStaysOut
  BY RevocationHolds
<1>4. Outward!Spec => []FencedLeavesByGrant
  BY FenceHolds
<1>5. Private!Spec => []CopiesOpen
  BY PrivateCopiesOpen
<1>6. Warm!Spec => []SearchFindsTheStore
  BY SearchesCover
<1>7. Harness!Spec => []NothingSkipped
  BY LinesAreRecorded
<1>8. Days!Spec => []SameEntriesSameRoot
  BY SameEntries
<1>9. Loop!Spec => []DeliveriesAccounted
  BY LoopAccounts
<1>10. Host!Spec => []OneHostFound
  BY StoresServedOnce
<1>11. Rules!Spec => []LiveRulesVerified
  BY RulesStayVerified
<1>12. App!Spec => []ProgramIsThere
  BY ProgramStays
<1>13. Suggestions!Spec => []GivenExactlyOnce
  BY DrainGivesOnce
<1>14. Jobs!Spec => []ProducedIsThere
  BY JobsProduce
<1>15. Heads!Spec => []HeadsAreWhole
  BY AdoptedHeadsAreWhole
<1>16. Merge!Spec => []BranchesKept
  BY NoBranchIsLost
<1>17. Sites!Spec => []SitesAsReviewed
  BY SitesHold
<1>18. Pins!Spec => []ListedIsPinned
  BY HotListHolds
<1>19. Studio!Spec => []ListedOpens
  BY CheckpointsOpen
<1> QED
  BY <1>1, <1>2, <1>3, <1>4, <1>5, <1>6, <1>7, <1>8, <1>9, <1>10, <1>11,
     <1>12, <1>13, <1>14, <1>15, <1>16, <1>17, <1>18, <1>19, IdentityRuns,
     MembersRuns, OutwardRuns, PrivateRuns, WarmRuns, HarnessRuns, DaysRuns,
     LoopRuns, HostRuns, RulesRuns, AppRuns, SuggestionsRuns, JobsRuns,
     HeadsRuns, MergeRuns, SitesRuns, PinsRuns, StudioRuns, PTL
=============================================================================
