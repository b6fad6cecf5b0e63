\* The inbox: two sources, two texts, three times, a display of two and a memory
\* of three. Pings: two groups with room for one or two, three pings with room
\* for two. Bulletins: three names for two places, with and without dates.
CONSTANTS
  MaxAge = 1
  InboxMax = 2
  DedupSize = 3
  Source = {n1, n2}
  Body = {fire, flood}
  Time <- MCTime
  MaxLog = 5
  Requests = {r1, r2}
  lone = r1
  Client = {c1, c2}
  Group = {g1, g2}
  PingMax = 2
  PingInterval = 2
  MaxPings = 3
  FewGroups = 1
  ManyGroups = 2
  PingTime = 2
  PingLives = 2
  Name = {b1, b2, b3}
  MaxBulletins = 2
  FewDates = {0, 1}
  BulletinTime = 1
  ManyDates = {0, 1, 2}
  CalmTime = 3
SPECIFICATION MCSpec
CONSTRAINT LogBound
INVARIANTS
  NoDuplicateDisplay
  ReadmissionGap
  BoardsKeepWord
PROPERTIES
  CalmDropsOldest
CHECK_DEADLOCK FALSE
