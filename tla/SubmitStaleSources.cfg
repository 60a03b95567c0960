\* New classifications in two pull requests.
SPECIFICATION Spec
CONSTANTS
  u1 = u1  u2 = u2  r1 = r1  r2 = r2
  sweet = sweet  yojo = yojo  peach = peach  grape = grape  melon = melon  ja = ja  en = en
  Kinds = {sweet, yojo}
  CardIDs = {}
  Fruits = {peach, grape, melon}
  Labels = {ja}
  KeyLabel = ja
  SourceFiles = 3
  Schema = 2
  Locale = 3
  Users = {u1, u2}
  Requests = {r1, r2}
  Requester <- TwoSubmitters
  MaxDrafts = 2
  FirstTree <- MCFirstTree
INVARIANTS
  MainClassified
CHECK_DEADLOCK FALSE
