------------------------------ MODULE AdminAccess ------------------------------
(***************************************************************************)
(* How the portal lets an administrator in (crates/portal/src/lib.rs):     *)
(* sessions that expire, the password of the store, and the throttle that  *)
(* delays the answer to a wrong one. Requests run in parallel; the         *)
(* sessions and the throttle each have a lock held for one step, and the   *)
(* password is read before the throttle is locked. Time is in seconds and  *)
(* relative: ages and remaining lives instead of instants.                 *)
(***************************************************************************)
EXTENDS Integers

CONSTANTS
  Request, Token, NoToken, Password, NoPassword,
  Ttl,       \* SESSION_TTL
  Threshold, \* AUTH_FAIL_THRESHOLD
  Window,    \* AUTH_FAIL_WINDOW
  MaxDelay,  \* AUTH_MAX_DELAY
  MaxFails   \* u32::MAX, where the counter of failures saturates

VARIABLES
  password,  \* the administrator password in the store
  sessions,  \* sessions[k]: seconds left to session k (0: expired), or Absent
  throttle,  \* AuthThrottle: failures, and the age of the last one or Never
  call,      \* call[r]: where request r is and what it carries
  granted,   \* history: seconds left to each session that should admit
  issued,    \* history: tokens issued so far, none twice (random_token)
  seen       \* history: what would have admitted since request r arrived

vars == <<password, sessions, throttle, call, granted, issued, seen>>
history == <<granted, issued, seen>>

Absent == -1
Never == -1
Calm == [fails |-> 0, last |-> Never]
Idle == [at |-> "idle", goal |-> "none", token |-> NoToken, pw |-> NoPassword,
         cred |-> NoPassword, wait |-> 0, waited |-> 0, right |-> FALSE]

Steps == {"idle", "session", "load", "count", "asleep", "open", "admitted", "clear", "done"}

TypeOK ==
  /\ password \in Password \cup {NoPassword}
  /\ sessions \in [Token -> {Absent} \cup 0..Ttl]
  /\ throttle \in [fails : 0..MaxFails, last : {Never} \cup 0..(Window + 1)]
  /\ call \in [Request -> [at : Steps, goal : {"none", "login", "admin"},
                           token : Token \cup {NoToken}, pw : Password \cup {NoPassword},
                           cred : Password \cup {NoPassword}, wait : 0..MaxDelay,
                           waited : 0..MaxDelay, right : BOOLEAN]]
  /\ granted \in [Token -> 0..Ttl]
  /\ issued \subseteq Token
  /\ seen \in [Request -> SUBSET (Token \cup Password)]

Init ==
  /\ password \in Password \cup {NoPassword}
  /\ sessions = [k \in Token |-> Absent]
  /\ throttle = Calm
  /\ call = [r \in Request |-> Idle]
  /\ granted = [k \in Token |-> 0]
  /\ issued = {}
  /\ seen = [r \in Request |-> {}]

-------------------------------------------------------------------------------
At(r, step) == call[r].at = step
Goto(r, step) == call' = [call EXCEPT ![r].at = step]

Least(a, b) == IF a < b THEN a ELSE b

(* What admits at this instant.                                            *)
InForce == ({password} \ {NoPassword}) \cup {k \in Token : granted[k] > 0}

(* A request arrives, with a cookie, a password, both or neither.          *)
Arrival(goal, k, p) ==
  [Idle EXCEPT !.at = IF goal = "login" THEN "load" ELSE "session",
               !.goal = goal, !.token = k, !.pw = p,
               !.right = p # NoPassword /\ p = password]

Receive(r) ==
  /\ At(r, "idle")
  /\ \E goal \in {"login", "admin"}, k \in issued \cup {NoToken},
        p \in Password \cup {NoPassword} :
       /\ goal = "login" => k = NoToken /\ p # NoPassword
       /\ call' = [call EXCEPT ![r] = Arrival(goal, k, p)]
  /\ seen' = [seen EXCEPT ![r] = InForce]
  /\ UNCHANGED <<password, sessions, throttle, granted, issued>>

-------------------------------------------------------------------------------
(* retain: the sessions that expired are forgotten.                        *)
Purged == [k \in Token |-> IF sessions[k] = 0 THEN Absent ELSE sessions[k]]

SessionValidUnpurged(r) ==
  /\ sessions' = sessions
  /\ Goto(r, IF call[r].token # NoToken /\ sessions[call[r].token] # Absent
             THEN "admitted" ELSE "load")

(* session_valid: a cookie of a session that is open.                      *)
SessionValid(r) ==
  /\ sessions' = IF call[r].token = NoToken THEN sessions ELSE Purged
  /\ Goto(r, IF call[r].token # NoToken /\ Purged[call[r].token] # Absent
             THEN "admitted" ELSE "load")

(* require_admin, the fast way.                                            *)
CheckSession(r) ==
  /\ At(r, "session")
  /\ SessionValid(r)
  /\ UNCHANGED <<password, throttle, history>>

(* The password is read in the store; without one, or if it cannot be      *)
(* read, 503.                                                              *)
LoadCredentials(r) ==
  /\ At(r, "load")
  /\ \/ call' = [call EXCEPT ![r] = Idle]
     \/ /\ password # NoPassword
        /\ call' = [call EXCEPT ![r].at = "count", ![r].cred = password]
  /\ UNCHANGED <<password, sessions, throttle, history>>

(* penalty: one second after the threshold, then twice as long each time.  *)
Penalty(fails) ==
  IF fails <= Threshold THEN 0
  ELSE Least(2 ^ (Least(fails - Threshold, 16) - 1), MaxDelay)

PenaltyForAll(r, ok, fails) == Penalty(IF ok THEN fails ELSE Least(fails + 1, MaxFails))

(* The delay an attempt suffers: a right password none.                    *)
DelayFor(r, ok, fails) == IF ok THEN 0 ELSE Penalty(Least(fails + 1, MaxFails))

(* Where a right password leads.                                           *)
Door(r) == IF call[r].goal = "login" THEN "open" ELSE "admitted"

(* The throttle is locked, counts the attempt and is unlocked; the request *)
(* then sleeps, or goes on.                                                *)
Count(r) ==
  /\ At(r, "count")
  /\ LET ok == call[r].pw = call[r].cred
         fails == IF throttle.last > Window THEN 0 ELSE throttle.fails
         delay == DelayFor(r, ok, fails)
     IN  /\ throttle' = IF ok THEN Calm
                        ELSE [fails |-> Least(fails + 1, MaxFails), last |-> 0]
         /\ call' = [call EXCEPT ![r] =
              IF delay > 0 THEN [@ EXCEPT !.at = "asleep", !.wait = delay]
              ELSE IF ~ok THEN Idle
              ELSE [@ EXCEPT !.at = Door(r)]]
  /\ UNCHANGED <<password, sessions, history>>

(* 401, after the delay.                                                   *)
Wake(r) ==
  /\ At(r, "asleep") /\ call[r].wait = 0
  /\ call' = [call EXCEPT ![r] = IF call[r].pw # call[r].cred THEN Idle
                                 ELSE [@ EXCEPT !.at = Door(r)]]
  /\ UNCHANGED <<password, sessions, throttle, history>>

(* admin_login opens a session with a new token.                           *)
Open(r) ==
  /\ At(r, "open")
  /\ \E k \in Token \ issued :
       /\ sessions' = [Purged EXCEPT ![k] = Ttl]
       /\ granted' = [granted EXCEPT ![k] = Ttl]
       /\ issued' = issued \cup {k}
       /\ seen' = [q \in Request |-> seen[q] \cup {k}]
  /\ call' = [call EXCEPT ![r] = Idle]
  /\ UNCHANGED <<password, throttle>>

(* Bound: with no token left, the login is answered without a session.     *)
OpenBeyondBound(r) ==
  /\ At(r, "open") /\ issued = Token
  /\ call' = [call EXCEPT ![r] = Idle]
  /\ UNCHANGED <<password, sessions, throttle, history>>

-------------------------------------------------------------------------------
(* What an admitted request does with the doors: nothing, ...              *)
Serve(r) ==
  /\ At(r, "admitted")
  /\ call' = [call EXCEPT ![r] = Idle]
  /\ UNCHANGED <<password, sessions, throttle, history>>

(* The password becomes p; requests in progress may have brought another.  *)
NewPassword(r, p, next) ==
  /\ password' = p
  /\ call' = [q \in Request |->
       [call[q] EXCEPT !.right = @ /\ call[q].pw = p,
                       !.at = IF q = r THEN next ELSE @]]
  /\ seen' = [q \in Request |-> seen[q] \cup ({p} \ {NoPassword})]
  /\ UNCHANGED <<throttle, granted, issued>>

(* ... a new password (rotate_secrets, admin_set_config), ...              *)
Rotate(r) ==
  /\ At(r, "admitted")
  /\ \E p \in Password : NewPassword(r, p, "done")
  /\ UNCHANGED sessions

(* ... or a factory reset (admin_reset): no password any more, ...         *)
Reset(r) ==
  /\ At(r, "admitted")
  /\ NewPassword(r, NoPassword, "clear")
  /\ UNCHANGED sessions

(* ... then no session any more, the store unlocked in between.            *)
ResetSessions(r) ==
  /\ At(r, "clear")
  /\ sessions' = [k \in Token |-> Absent]
  /\ granted' = [k \in Token |-> 0]
  /\ Goto(r, "done")
  /\ UNCHANGED <<password, throttle, issued, seen>>

Return(r) ==
  /\ At(r, "done")
  /\ call' = [call EXCEPT ![r] = Idle]
  /\ UNCHANGED <<password, sessions, throttle, history>>

(* install_node, which asks for no administrator: of a node that is new,   *)
(* or cannot read that it is not.                                          *)
Install(r) ==
  /\ At(r, "idle")
  /\ \E p \in Password : NewPassword(r, p, "done")
  /\ UNCHANGED sessions

(* admin_logout removes the session of the cookie.                         *)
Logout(k) ==
  /\ sessions' = [sessions EXCEPT ![k] = Absent]
  /\ granted' = [granted EXCEPT ![k] = 0]
  /\ UNCHANGED <<password, throttle, call, issued, seen>>

(* A restart forgets sessions and failures, and the requests.              *)
Restart ==
  /\ sessions' = [k \in Token |-> Absent]
  /\ throttle' = Calm
  /\ call' = [r \in Request |-> Idle]
  /\ granted' = [k \in Token |-> 0]
  /\ seen' = [r \in Request |-> {}]
  /\ UNCHANGED <<password, issued>>

(* A second passes, every step that takes no time being done: a sleeper    *)
(* has a second less to wait, a session one less to live.                  *)
Tick ==
  /\ \A r \in Request : At(r, "idle") \/ (At(r, "asleep") /\ call[r].wait > 0)
  /\ sessions' = [k \in Token |-> IF sessions[k] <= 0 THEN sessions[k] ELSE sessions[k] - 1]
  /\ granted' = [k \in Token |-> IF granted[k] = 0 THEN 0 ELSE granted[k] - 1]
  /\ throttle' = [throttle EXCEPT !.last = IF @ = Never THEN Never ELSE Least(@ + 1, Window + 1)]
  /\ call' = [r \in Request |->
       IF At(r, "idle") THEN Idle
       ELSE [call[r] EXCEPT !.wait = @ - 1, !.waited = @ + 1]]
  /\ UNCHANGED <<password, issued, seen>>

Next ==
  \/ \E r \in Request :
       \/ Receive(r) \/ CheckSession(r) \/ LoadCredentials(r) \/ Count(r) \/ Wake(r)
       \/ Open(r) \/ OpenBeyondBound(r)
       \/ Serve(r) \/ Rotate(r) \/ Reset(r) \/ ResetSessions(r) \/ Return(r)
       \/ Install(r)
  \/ \E k \in issued : Logout(k)
  \/ Tick
  \/ Restart

Spec == Init /\ [][Next]_vars

-------------------------------------------------------------------------------
(* Whoever is let in brought a session or a password that would have let   *)
(* it in at some moment since it arrived: expiry, logout, rotation and     *)
(* reset shut what they shut for every later request, in any interleaving  *)
(* (session_valid, admin_logout, admin_reset, rotate_secrets).             *)
AdmissionJustified ==
  \A r \in Request :
    call[r].at \in {"open", "admitted"} => seen[r] \cap {call[r].token, call[r].pw} # {}

(* A request that brought the password in force, and found it in force all *)
(* along, never waits nor is taken for wrong, whatever others fail at:     *)
(* "seul un échec subit un délai ; un mot de passe correct réussit         *)
(* immédiatement" (AuthThrottle).                                          *)
RightPasswordEnters ==
  \A r \in Request : call[r].right =>
    /\ call[r].waited = 0
    /\ At(r, "count") => call[r].cred = call[r].pw

===============================================================================
