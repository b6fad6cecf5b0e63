----------------------------- MODULE MCNodePortal -----------------------------
(* The administration of a node for TLC, in one of three situations chosen *)
(* at first: rough, where requests overlap, the store fails and the        *)
(* process restarts; calm, where requests come one by one and nothing      *)
(* fails (what requests promise to each other holds then only: the store   *)
(* has no transaction that spans two steps of a handler); and the doors,   *)
(* where requests are let in, delayed or refused.                          *)
EXTENDS NodePortal

CONSTANTS
  lone,                \* calm: the only request
  Passwords, Fields,   \* calm and doors: administrator passwords, and keys
  CalmEra,             \* bound, calm: factory resets explored
  Token, NoToken,      \* doors: see AdminAccess, as the five that follow
  Ttl, Threshold, Window, MaxDelay, MaxFails

(* What the two other situations assume of their constants. *)
ASSUME SituationsAssumption ==
  /\ NoPassword \notin Passwords /\ NoToken \notin Token
  /\ CalmEra \in Nat
  /\ Ttl \in Nat \ {0}

VARIABLES
  explored,  \* "rough", "calm" or "doors"
  password, open, throttle, caller, granted, issued, seen

doorVars == <<password, open, throttle, caller, granted, issued, seen>>

Calm == INSTANCE NodePortal WITH
  Request <- {lone}, Password <- Passwords, Field <- Fields,
  StoreMayFail <- FALSE, MayRestart <- FALSE, MaxEra <- CalmEra, MaxMisreads <- 0

Doors == INSTANCE AdminAccess WITH
  Password <- Passwords, sessions <- open, call <- caller

MCInit ==
  /\ explored \in {"rough", "calm", "doors"}
  /\ IF explored = "calm" THEN Calm!Init ELSE Init
  /\ Doors!Init
  /\ explored # "doors" => password = NoPassword

MCNext ==
  /\ \/ explored = "rough" /\ Next /\ UNCHANGED doorVars
     \/ explored = "calm" /\ Calm!Next /\ UNCHANGED doorVars
     \/ explored = "doors" /\ Doors!Next /\ UNCHANGED vars
  /\ UNCHANGED explored

MCSpec == MCInit /\ [][MCNext]_<<vars, explored, doorVars>>

-------------------------------------------------------------------------------
(* When requests come one by one: with none in progress the network was   *)
(* told of the state that is in the store (signal_runtime), and the fields *)
(* that were sent are merged into the configuration (admin_set_config).    *)
CalmStoreInOrder ==
  explored = "calm" => Calm!SignalFollowsStore /\ Calm!FieldsMerged

(* Whoever is let in brought a session or a password that would have let   *)
(* it in at some moment since it arrived (session_valid, require_admin).   *)
AdmissionJustified == Doors!AdmissionJustified

(* The password in force enters at once, whoever else fails (AuthThrottle). *)
RightPasswordEnters == Doors!RightPasswordEnters

===============================================================================
