\* Two people, one request each: what interleaves with what.
SPECIFICATION Spec
CONSTANTS
  u1 = u1  u2 = u2  r1 = r1  r2 = r2
  sweet = sweet  yojo = yojo  peach = peach  grape = grape  melon = melon  ja = ja  en = en
  Kinds = {sweet, yojo}
  CardIDs = {0, 1}
  Fruits = {peach}
  Labels = {ja}
  KeyLabel = ja
  SourceFiles = 2
  Schema = 1
  Locale = 2
  Users = {u1, u2}
  Requests = {r1, r2}
  Requester <- TwoSubmitters
  MaxDrafts = 2
  FirstTree <- MCFirstTree
SYMMETRY Alike
INVARIANTS
  TypeOK
  NoDraftLost
  OneSubmitter
  PullsBuiltFromMain
  MainHasImages
  OneOpenPullPerCard
  MainIsProposed
  RowsMatchPulls
PROPERTIES
  MergesTouchTheirCards
  MergesLoseNothing
  MergesAreSerial
CHECK_DEADLOCK FALSE
