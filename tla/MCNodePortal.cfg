\* Rough: two requests, one factory reset. Calm: one request at a time, two
\* resets, two passwords, two fields. Doors: two requests, two passwords, two
\* sessions of one second, failures that cost from the second one on.
CONSTANTS
  lone = r1
  Passwords = {p1, p2}
  Fields = {f, g}
  CalmEra = 2
  Token = {k1, k2}
  NoToken = NoToken
  Ttl = 1
  Threshold = 1
  Window = 1
  MaxDelay = 2
  MaxFails = 3
  Request = {r1, r2}
  Password = {p1}
  NoPassword = NoPassword
  Field = {f}
  Value = {0, 1}
  Default = 0
  StoreMayFail = TRUE
  MayRestart = TRUE
  MaxEra = 1
  MaxMisreads = 1
SPECIFICATION MCSpec
INVARIANTS
  InstalledOnce
  InstallLasts
  CalmStoreInOrder
  AdmissionJustified
  RightPasswordEnters
CHECK_DEADLOCK FALSE
