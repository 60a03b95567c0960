\* New classifications in two pull requests, of which one may revert the other.
SPECIFICATION Spec
CONSTANTS
  u1 = u1  u2 = u2  r1 = r1  r2 = r2
  sweet = sweet  yojo = yojo  peach = peach  grape = grape  melon = melon  ja = ja  en = en
  Kinds = {sweet, yojo}
  CardIDs = {}
  Fruits = {peach, grape, melon}
  Labels = {ja}
  KeyLabel = ja
  SourceFiles = 3
  Schema = 2
  Locale = 3
  Users = {u1, u2}
  Requests = {r1, r2}
  Requester <- TwoSubmitters
  MaxDrafts = 2
  FirstTree <- MCFirstTree
SYMMETRY Alike
INVARIANTS
  ClassifiedUnlessReverted
  SourcesAgreeUnlessReverted
CHECK_DEADLOCK FALSE
