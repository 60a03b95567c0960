CONSTANTS
  boss = boss
  amy = amy
  nick = nick
  first = first
  r1 = r1
  r2 = r2
  r3 = r3
  People = {boss, amy}
  Names = {nick}
  NoName = NoName
  Placeholder = Placeholder
  BootstrapAdmin = boss
  Bootstrap = Bootstrap
  Requests = {r1, r2, r3}
  FirstUsers <- ListedPair
  FirstSessions <- BossLoggedIn
SPECIFICATION Spec
SYMMETRY AnyOrder
INVARIANT RemovalSticks
CHECK_DEADLOCK FALSE
