SPECIFICATION Spec
CONSTANTS
  c1 = c1
  c2 = c2
  d1 = d1
  d2 = d2
  r1 = r1
  r2 = r2
  a = a
  b = b
  g = g
  h = h
  o1 = o1
  Command = {c1, c2}
  MaxKey = 6
  IdentityOverlaps = {"crash"}
  Admin = {c1, c2}
  Subject = {d1, d2}
  Offer = {o1}
  MaxMemberEpoch = 3
  MemberOverlaps = {"crash"}
  None = None
  EgressSession = {c1, c2}
  Root = {r2}
  EgressPublic = {r1}
  Reach <- ReachOf
  MaxReceipts = 1
  MaxGrants = 1
  Proc = {c1, c2}
  Source = {r1, r2}
  MaxTree = 3
  WarmRecord = {r1, r2}
  NoIndex = None
  WarmErrors = {"append"}
  Thread = {c1, c2}
  Saving = {c1}
  MaxLine = 2
  CaptureOverlaps = {"kill"}
  DayKey = {1, 2, 3, 4}
  DayValue = {1, 2}
  DaySlot = {0, 1, 2}
  Depth = 3
  Digest <- DigestOf
  BucketSize = 2
  Message = {a, b}
  Question = {g}
  Held = {g}
  MaxPending = 1
  MaxRequests = 3
  Restarts = TRUE
  Mount = {c1, c2, o1}
  StoreOf <- StoreOfMount
  Ports = 2
  Nobody = None
  GuiOverlaps = {"kill"}
  RulesCaller = {c1, c2}
  MaxRulesEpoch = 3
  RulesOverlaps = {"crash"}
  Launch = {c1}
  MaxVersion = 3
  Races = {}
  Drain = {c1, c2}
  MaxEntries = 2
  Path = {a, b, g}
  At <- InPlace
  Lib = g
  MaxLaps = 3
  MaxFindings = 2
  WorkFaults = {"write"}
  NoContent = None
  Device = {d1, d2}
  Cid = {a, b, g, h}
  Links <- LinksOf
  Writer = {d1, d2}
  SyncFaults = {}
  MaxBlocks = 4
  MergeFaults = {"trim"}
  File = {a, b, g}
  Index = a
  Skipped = {g}
  Content = {c1, c2}
  Page = c2
  Dest = {d1, d2}
  Branch = {d1}
  Public = {r1}
  MaxReviews = 1
  MaxPushes = 1
  NoPage = None
  PinCaller = {c1, c2}
  PinRecord = {r1, r2}
  MaxCopies = 2
  PinOverlaps = {}
  Saver = {c1, c2}
  Site = {a, b}
  StudioPage = {r1, r2}
  MaxList = 1
  MaxTime = 2
  StudioOverlaps = {"kill"}
  Focus =
    {"identity", "members", "egress", "private", "index", "capture",
    "days", "node", "gui", "rules", "app", "outbox", "work", "heads",
    "merge", "site", "pins", "studio"}
INVARIANTS
  TypeOK
  LiveRulesVerified
  ProgramIsThere
  SearchFindsTheStore
  GivenExactlyOnce
  HeadsAreWhole
  BranchesKept
  IdentityRecoverable
  OfferGivesOnce
  RevokedStaysOut
  FencedLeavesByGrant
  NothingSkipped
  SitesAsReviewed
  ProducedIsThere
  SameEntriesSameRoot
  CopiesOpen
  DeliveriesAccounted
  OneHostFound
  ListedIsPinned
  ListedOpens
CHECK_DEADLOCK FALSE
