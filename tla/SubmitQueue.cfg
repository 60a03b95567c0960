\* One person submitting twice: the queue as they see it.
SPECIFICATION Spec
CONSTANTS
  u1 = u1  u2 = u2  r1 = r1  r2 = r2
  sweet = sweet  yojo = yojo  peach = peach  grape = grape  melon = melon  ja = ja  en = en
  Kinds = {sweet}
  CardIDs = {}
  Fruits = {peach}
  Labels = {ja}
  KeyLabel = ja
  SourceFiles = 2
  Schema = 1
  Locale = 2
  Users = {u1}
  Requests = {r1, r2}
  Requester <- OneSubmitterTwice
  MaxDrafts = 2
  FirstTree <- MCFirstTree
PROPERTIES
  DeliveryImplemented
CHECK_DEADLOCK FALSE
