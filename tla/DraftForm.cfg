\* Any form that differs from a proper one in at most two ways, and main changing twice on the way.
SPECIFICATION Spec
CONSTANTS
  Keys <- MCKeys
  Names <- MCNames
  KeyOf <- MCKeyOf
  Text <- MCText
  Payloads <- MCPayloads
  FirstMain <- MCFirstMain
  MaxChanges = 2
INVARIANTS
  TypeOK
  ArrivesAsValidated
  OthersKept
  RefusalsExplained
  RejectionsNeeded
  TornReadHarmless
CHECK_DEADLOCK FALSE
