------------------------------- MODULE LockTable -------------------------------
(***************************************************************************)
(* Tasks that share the fair locks of tokio: each runs one program, a      *)
(* sequence of acquisitions and releases, and waits in a queue per lock.   *)
(* A lock is granted in the order it was asked for, readers together: a    *)
(* reader waits behind a writer that waits. The programs of this node are  *)
(* those of PortalLocks.                                                   *)
(***************************************************************************)
EXTENDS Integers, Sequences

CONSTANTS
  Task,      \* requests and loops that run at the same time
  Lock,
  Program,   \* what a task may run: sequences of Step
  Unattended,\* the programs that are not the handler of an HTTP request
  Rank       \* Rank[l]: the level of a lock: the node, its keyring, the others

Step == [do : {"read", "write", "drop"}, lock : Lock]

ASSUME LockAssumption ==
  /\ Program \subseteq Seq(Step) /\ <<>> \notin Program
  /\ Unattended \subseteq Program
  /\ Rank \in [Lock -> 1..3]

VARIABLES
  run,       \* run[t]: the program of task t and the position of its next step
  queue      \* queue[l]: the tasks that asked for lock l and wait, in order

vars == <<run, queue>>

Rest == [prog |-> <<>>, next |-> 1]

TypeOK ==
  /\ run \in [Task -> [prog : Program \cup {<<>>}, next : Nat \ {0}]]
  /\ \A t \in Task : run[t].next <= Len(run[t].prog) + 1
  /\ queue \in [Lock -> Seq(Task)]

Init ==
  /\ run = [t \in Task |-> Rest]
  /\ queue = [l \in Lock |-> <<>>]

-------------------------------------------------------------------------------
(* Program p, before its step i, holds lock l in one of the modes.         *)
HoldsAt(p, i, l, modes) ==
  \E j \in 1..(i - 1) :
    /\ p[j].do \in modes /\ p[j].lock = l
    /\ \A k \in (j + 1)..(i - 1) : p[k] # [do |-> "drop", lock |-> l]

Holds(t, l, modes) == HoldsAt(run[t].prog, run[t].next, l, modes)

Busy(t) == run[t].next <= Len(run[t].prog)
Now(t) == run[t].prog[run[t].next]
Acquires(t) == Busy(t) /\ Now(t).do # "drop"
Queued(t, l) == \E i \in 1..Len(queue[l]) : queue[l][i] = t

(* What the next step of t must wait for: a writer waits for every holder, *)
(* a reader for the writer.                                                *)
Free(t) ==
  LET against == IF Now(t).do = "read" THEN {"write"} ELSE {"read", "write"}
  IN  \A u \in Task : ~Holds(u, Now(t).lock, against)

Advance(t) == run' = [run EXCEPT ![t].next = @ + 1]

Start(t) ==
  /\ ~Busy(t)
  /\ \E p \in Program : run' = [run EXCEPT ![t] = [prog |-> p, next |-> 1]]
  /\ UNCHANGED queue

Ask(t) ==
  /\ Acquires(t) /\ ~Queued(t, Now(t).lock)
  /\ queue' = [queue EXCEPT ![Now(t).lock] = Append(@, t)]
  /\ UNCHANGED run

(* t leaves the queue of the lock it waits for.                            *)
Leave(t) ==
  LET l == Now(t).lock
  IN  \E i \in 1..Len(queue[l]) :
        /\ queue[l][i] = t
        /\ queue' = [queue EXCEPT ![l] = SubSeq(@, 1, i - 1) \o SubSeq(@, i + 1, Len(@))]

AtHead(t) == queue[Now(t).lock] # <<>> /\ Head(queue[Now(t).lock]) = t

(* A lock that would let readers pass the writers that wait.               *)
GrantReadersFirst(t) ==
  /\ Acquires(t) /\ Free(t)
  /\ AtHead(t) \/ Now(t).do = "read"
  /\ Leave(t)
  /\ Advance(t)

Grant(t) ==
  /\ Acquires(t) /\ AtHead(t) /\ Free(t)
  /\ queue' = [queue EXCEPT ![Now(t).lock] = Tail(@)]
  /\ Advance(t)

Drop(t) ==
  /\ Busy(t) /\ Now(t).do = "drop"
  /\ Advance(t)
  /\ UNCHANGED queue

(* The client goes away while its request waits: the handler is dropped    *)
(* with its guards and its place in the queue.                             *)
HangUp(t) ==
  /\ Acquires(t) /\ run[t].prog \notin Unattended
  /\ Leave(t)
  /\ run' = [run EXCEPT ![t] = Rest]

Work(t) == Ask(t) \/ Grant(t) \/ Drop(t)

Next == \E t \in Task : Start(t) \/ Work(t) \/ HangUp(t)

Spec == Init /\ [][Next]_vars

(* The runtime runs every task that can run.                               *)
FairSpec == Spec /\ \A t \in Task : WF_vars(Work(t))

-------------------------------------------------------------------------------
(* A task asks for a lock only while those it holds have a lower rank, and *)
(* holds none when it is done: handlers lock the node before its keyring,  *)
(* the keyring before the inbox (NodeState), and no lock twice.            *)
AsksInOrder ==
  \A t \in Task, l \in Lock : Holds(t, l, {"read", "write"}) =>
    Busy(t) /\ (Acquires(t) => Rank[l] < Rank[Now(t).lock])

(* The same of the programs; NoDeadlock follows from it for any number of  *)
(* tasks (LockTable_proofs).                                               *)
ProgramsOrdered ==
  \A p \in Program, i \in Nat, l \in Lock :
    i \in 1..(Len(p) + 1) /\ HoldsAt(p, i, l, {"read", "write"}) =>
      i <= Len(p) /\ (p[i].do # "drop" => Rank[l] < Rank[p[i].lock])

CanStep(t) ==
  \/ Busy(t) /\ Now(t).do = "drop"
  \/ Acquires(t) /\ ~Queued(t, Now(t).lock)
  \/ Acquires(t) /\ AtHead(t) /\ Free(t)

(* The tasks never all wait for each other, although handlers hold the     *)
(* node while they lock its keyring or its inbox, the radio holds the      *)
(* keyring while it locks the inbox, and readers wait behind writers.      *)
NoDeadlock == (\E t \in Task : Busy(t)) => \E t \in Task : CanStep(t)

(* Whatever else is requested meanwhile, every task ends: no writer of the *)
(* node (install_node, rotate_secrets) is kept out by a stream of readers. *)
EveryTaskEnds == \A t \in Task : Busy(t) ~> ~Busy(t)

===============================================================================
