\* The IDs a pull request allocates, against the commit it starts from.
SPECIFICATION Spec
CONSTANTS
  u1 = u1  u2 = u2  r1 = r1  r2 = r2
  sweet = sweet  yojo = yojo  peach = peach  grape = grape  melon = melon  ja = ja  en = en
  Kinds = {sweet}
  CardIDs = {}
  Fruits = {peach}
  Labels = {ja}
  KeyLabel = ja
  SourceFiles = 3
  Schema = 2
  Locale = 3
  Users = {u1, u2}
  Requests = {r1, r2}
  Requester <- TwoSubmitters
  MaxDrafts = 2
  FirstTree <- MCFirstTree
INVARIANTS
  IDsFreshInBase
CHECK_DEADLOCK FALSE
