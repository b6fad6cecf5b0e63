\* The pool: three clients for two addresses, leases of two seconds, two lives.
\* Datagrams of lengths, of the type and the class of an address, and of a pointer;
\* messages of options: padding, lengths and types, the code of the type, the end.
CONSTANTS
  Client = {c1, c2, c3}
  First = 10
  Last = 11
  LeaseSecs = 2
  MaxTime = 2
  MaxLives = 2
  MaxSignals = 3
  MaxRestarts = 2
  FailSignals = 0
  FailRestarts = 0
  Tag = {t}
  DnsByte = {0, 1, 2, 192}
  MaxBody = 8
  MaxLabels = 1
  From = {phone}
  DhcpByte = {0, 1, 3, 53, 255}
  MaxOptions = 5
SPECIFICATION MCSpec
INVARIANTS
  ConflictsAreOld
  StableAndDistinct
  PortalReachable
  AnswersQuestions
  AnswersRequests
PROPERTIES
  NeverReopened
  SsidFollows
  VisitsEnd
CHECK_DEADLOCK FALSE
