\* One person submits twice at once.
SPECIFICATION Spec
CONSTANTS
  u1 = u1  u2 = u2  r1 = r1  r2 = r2
  sweet = sweet  yojo = yojo  peach = peach  grape = grape  melon = melon  ja = ja  en = en
  Kinds = {sweet}
  CardIDs = {}
  Fruits = {peach}
  Labels = {ja}
  KeyLabel = ja
  SourceFiles = 3
  Schema = 2
  Locale = 3
  Users = {u1}
  Requests = {r1, r2}
  Requester <- OneSubmitterTwice
  MaxDrafts = 1
  FirstTree <- MCFirstTree
INVARIANTS
  SinglePull
CHECK_DEADLOCK FALSE
