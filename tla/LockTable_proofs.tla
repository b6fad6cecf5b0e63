--------------------------- MODULE LockTable_proofs ---------------------------
(***************************************************************************)
(* For any number of tasks, locks and programs: if every program takes its *)
(* locks by increasing rank, the tasks never all wait for each other.      *)
(* The argument: among the tasks that wait, take one whose lock has the    *)
(* highest rank. The first in the queue of that lock is kept out by a task *)
(* that holds it, which is not done, and which can only ask for a lock of  *)
(* a higher rank still: it does not wait.                                  *)
(* The second part shows that the programs of this node (PortalLocks) take *)
(* their locks in that order, block by block.                              *)
(***************************************************************************)
EXTENDS LockTable, PortalLocks, TLAPS

(* Who waits in the queue of a lock has it as its next step, ...           *)
QueuesServe ==
  \A l \in Lock : \A i \in 1..Len(queue[l]) :
    Acquires(queue[l][i]) /\ Now(queue[l][i]).lock = l

(* ... and waits once.                                                     *)
QueuesOnce ==
  \A l \in Lock : \A i, j \in 1..Len(queue[l]) :
    queue[l][i] = queue[l][j] => i = j

IInv == TypeOK /\ QueuesServe /\ QueuesOnce

USE LockAssumption

(* Before any program has started nobody waits and nobody holds. *)
LEMMA InitInv == Init => IInv
BY DEF Init, IInv, TypeOK, QueuesServe, QueuesOnce, Rest

(* The next step of a busy task is a step.                                 *)
LEMMA NowIsStep ==
  ASSUME TypeOK, NEW t \in Task, Busy(t)
  PROVE  Now(t) \in Step /\ Now(t).lock \in Lock
<1>1. run[t].prog \in Seq(Step) /\ run[t].next \in 1..Len(run[t].prog)
  BY DEF TypeOK, Busy
<1>2. Now(t) \in Step BY <1>1 DEF Now
<1> QED BY <1>2 DEF Step

(* A task that moves without leaving a queue it is in leaves no trace in   *)
(* the queues: it was in none.                                             *)
LEMMA NotQueued ==
  ASSUME IInv, NEW t \in Task, ~Acquires(t), NEW l \in Lock
  PROVE  \A i \in 1..Len(queue[l]) : queue[l][i] # t
BY DEF IInv, QueuesServe

(* A task that starts holds nothing yet. *)
LEMMA StartInv == ASSUME IInv, NEW t \in Task, Start(t) PROVE IInv'
<1>1. PICK p \in Program : run' = [run EXCEPT ![t] = [prog |-> p, next |-> 1]]
  BY DEF Start
<1>2. ~Acquires(t) BY DEF Start, Acquires
<1>3. TypeOK' BY <1>1 DEF Start, IInv, TypeOK
<1>4. \A u \in Task \ {t} : run'[u] = run[u] BY <1>1 DEF IInv, TypeOK
<1>5. QueuesServe'
  <2> SUFFICES ASSUME NEW l \in Lock, NEW i \in 1..Len(queue[l])
               PROVE  (Acquires(queue[l][i]) /\ Now(queue[l][i]).lock = l)'
    BY DEF QueuesServe, Start
  <2> DEFINE u == queue[l][i]
  <2>1. u \in Task \ {t} BY <1>2, NotQueued DEF IInv, TypeOK
  <2>2. run'[u] = run[u] /\ queue'[l][i] = u BY <1>4, <2>1 DEF Start
  <2>3. Acquires(u) /\ Now(u).lock = l BY DEF IInv, QueuesServe
  <2> QED BY <2>2, <2>3 DEF Acquires, Busy, Now
<1>6. QueuesOnce' BY DEF IInv, QueuesOnce, Start
<1> QED BY <1>3, <1>5, <1>6 DEF IInv

(* A task that asks takes its place at the end of one queue. *)
LEMMA AskInv == ASSUME IInv, NEW t \in Task, Ask(t) PROVE IInv'
<1> DEFINE l == Now(t).lock
<1>1. l \in Lock BY NowIsStep DEF IInv, Ask, Acquires
<1>2. /\ queue' = [queue EXCEPT ![l] = Append(@, t)] /\ run' = run
      /\ queue[l] \in Seq(Task)
  BY <1>1 DEF Ask, IInv, TypeOK
<1>3. TypeOK' BY <1>1, <1>2 DEF IInv, TypeOK
<1>4. \A i \in 1..Len(queue[l]) : queue[l][i] # t BY DEF Ask, Queued
<1>5. /\ Len(queue'[l]) = Len(queue[l]) + 1
      /\ \A i \in 1..Len(queue'[l]) :
           queue'[l][i] = IF i <= Len(queue[l]) THEN queue[l][i] ELSE t
  BY <1>1, <1>2 DEF IInv, TypeOK
<1>6. \A m \in Lock : m # l => queue'[m] = queue[m] BY <1>2 DEF IInv, TypeOK
<1>7. QueuesServe'
  <2> SUFFICES ASSUME NEW m \in Lock, NEW i \in 1..Len(queue'[m])
               PROVE  (Acquires(queue[m][i]) /\ Now(queue[m][i]).lock = m)'
    BY DEF QueuesServe
  <2> DEFINE u == queue'[m][i]
  <2>1. Acquires(u) /\ Now(u).lock = m
    <3>1. CASE m = l /\ i = Len(queue[l]) + 1
      <4>1. u = t BY <1>2, <1>5, <3>1
      <4> QED BY <3>1, <4>1 DEF Ask
    <3>2. CASE ~(m = l /\ i = Len(queue[l]) + 1)
      <4>1. i \in 1..Len(queue[m]) /\ u = queue[m][i] BY <1>2, <1>5, <1>6, <3>2
      <4> QED BY <4>1 DEF IInv, QueuesServe
    <3> QED BY <3>1, <3>2
  <2> QED BY <1>2, <2>1 DEF Acquires, Busy, Now
<1>8. QueuesOnce'
  <2>1. Len(queue[l]) \in Nat BY <1>2
  <2> QED BY <1>1, <1>4, <1>5, <1>6, <2>1 DEF IInv, QueuesOnce
<1> QED BY <1>3, <1>7, <1>8 DEF IInv

(* Taking t out of the queue it waits in, wherever it stands, keeps the    *)
(* queues in order when t moves on.                                        *)
LEMMA LeaveInv ==
  ASSUME IInv, NEW t \in Task, Acquires(t), TypeOK',
         \A u \in Task \ {t} : run'[u] = run[u],
         NEW i \in 1..Len(queue[Now(t).lock]), queue[Now(t).lock][i] = t,
         queue' = [queue EXCEPT ![Now(t).lock] = SubSeq(@, 1, i - 1) \o SubSeq(@, i + 1, Len(@))]
  PROVE  IInv'
<1> DEFINE l == Now(t).lock
           n == Len(queue[l])
<1>1. l \in Lock BY NowIsStep DEF IInv, Acquires
<1>2. queue[l] \in Seq(Task) /\ n \in Nat BY <1>1 DEF IInv, TypeOK
<1>3. /\ Len(queue'[l]) = n - 1
      /\ \A j \in 1..(n - 1) : queue'[l][j] = queue[l][IF j < i THEN j ELSE j + 1]
  <2> DEFINE a == SubSeq(queue[l], 1, i - 1)
             b == SubSeq(queue[l], i + 1, n)
  <2>1. a \in Seq(Task) /\ Len(a) = i - 1 /\ \A j \in 1..(i - 1) : a[j] = queue[l][j]
    BY <1>2
  <2>2. b \in Seq(Task) /\ Len(b) = n - i /\ \A j \in 1..(n - i) : b[j] = queue[l][i + j]
    BY <1>2
  <2>3. queue'[l] = a \o b BY <1>1 DEF IInv, TypeOK
  <2> HIDE DEF a, b
  <2>4. Len(a \o b) = n - 1
    <3>1. Len(a \o b) = Len(a) + Len(b)
      <4>1. a \in Seq(Task) /\ b \in Seq(Task) BY <2>1, <2>2
      <4> QED BY <4>1
    <3>2. (i - 1) + (n - i) = n - 1 BY <1>2
    <3> QED BY <2>1, <2>2, <3>1, <3>2
  <2>5. \A j \in 1..(n - 1) : (a \o b)[j] = IF j < i THEN a[j] ELSE b[j - (i - 1)]
    BY <1>2, <2>1, <2>2
  <2>6. \A j \in 1..(n - 1) : ~(j < i) => b[j - (i - 1)] = queue[l][j + 1]
    <3> SUFFICES ASSUME NEW j \in 1..(n - 1), ~(j < i) PROVE b[j - (i - 1)] = queue[l][j + 1]
      OBVIOUS
    <3>1. j - (i - 1) \in 1..(n - i) /\ i + (j - (i - 1)) = j + 1 BY <1>2
    <3> QED BY <2>2, <3>1
  <2>7. \A j \in 1..(n - 1) : j < i => a[j] = queue[l][j]
    <3> SUFFICES ASSUME NEW j \in 1..(n - 1), j < i PROVE a[j] = queue[l][j]
      OBVIOUS
    <3>1. j \in 1..(i - 1) BY <1>2
    <3> QED BY <2>1, <3>1
  <2> QED BY <2>3, <2>4, <2>5, <2>6, <2>7
<1>4. \A m \in Lock : m # l => queue'[m] = queue[m] BY DEF IInv, TypeOK
<1>5. \A m \in Lock : \A j \in 1..Len(queue'[m]) :
        queue'[m][j] # t /\ \E k \in 1..Len(queue[m]) : queue'[m][j] = queue[m][k]
  <2> SUFFICES ASSUME NEW m \in Lock, NEW j \in 1..Len(queue'[m])
               PROVE  queue'[m][j] # t /\ \E k \in 1..Len(queue[m]) : queue'[m][j] = queue[m][k]
    OBVIOUS
  <2>1. CASE m = l
    <3> DEFINE k == IF j < i THEN j ELSE j + 1
    <3>1. j \in 1..(n - 1) BY <1>3, <2>1
    <3>2. k \in 1..n /\ k # i BY <1>2, <3>1
    <3>3. queue'[l][j] = queue[l][k] BY <1>3, <3>1
    <3>4. queue[l][k] # t BY <1>1, <3>2 DEF IInv, QueuesOnce
    <3> QED BY <2>1, <3>2, <3>3, <3>4
  <2>2. CASE m # l
    <3>1. queue'[m][j] = queue[m][j] /\ j \in 1..Len(queue[m]) BY <1>4, <2>2
    <3>2. Now(queue[m][j]).lock = m BY <3>1 DEF IInv, QueuesServe
    <3> QED BY <2>2, <3>1, <3>2
  <2> QED BY <2>1, <2>2
<1>6. QueuesServe'
  <2> SUFFICES ASSUME NEW m \in Lock, NEW j \in 1..Len(queue'[m])
               PROVE  (Acquires(queue[m][j]) /\ Now(queue[m][j]).lock = m)'
    BY DEF QueuesServe
  <2> DEFINE u == queue'[m][j]
  <2>1. PICK k \in 1..Len(queue[m]) : u = queue[m][k] BY <1>5
  <2>2. u # t BY <1>5
  <2>3. u \in Task \ {t}
    <3>1. queue[m] \in Seq(Task) BY DEF IInv, TypeOK
    <3>2. queue[m][k] \in Task BY <3>1
    <3> QED BY <2>1, <2>2, <3>2
  <2>4. Acquires(u) /\ Now(u).lock = m BY <2>1 DEF IInv, QueuesServe
  <2>5. run'[u] = run[u] BY <2>3
  <2> QED BY <2>4, <2>5 DEF Acquires, Busy, Now
<1>7. QueuesOnce'
  <2> SUFFICES ASSUME NEW m \in Lock, NEW j \in 1..Len(queue'[m]), NEW k \in 1..Len(queue'[m]),
                      queue'[m][j] = queue'[m][k]
               PROVE  j = k
    BY DEF QueuesOnce
  <2>1. CASE m = l
    <3> DEFINE f(x) == IF x < i THEN x ELSE x + 1
    <3>1. j \in 1..(n - 1) /\ k \in 1..(n - 1) BY <1>3, <2>1
    <3>2. queue[l][f(j)] = queue[l][f(k)] BY <1>3, <2>1, <3>1
    <3>3. f(j) \in 1..n /\ f(k) \in 1..n BY <1>2, <3>1
    <3>4. f(j) = f(k) BY <1>1, <3>2, <3>3 DEF IInv, QueuesOnce
    <3> QED BY <1>2, <3>1, <3>4
  <2>2. CASE m # l BY <1>4, <2>2 DEF IInv, QueuesOnce
  <2> QED BY <2>1, <2>2
<1> QED BY <1>6, <1>7 DEF IInv

(* A grant takes a task out of the queue it was in and gives it that lock. *)
LEMMA GrantInv == ASSUME IInv, NEW t \in Task, Grant(t) PROVE IInv'
<1> DEFINE l == Now(t).lock
<1>1. l \in Lock /\ Acquires(t) BY NowIsStep DEF IInv, Grant, Acquires
<1>2. queue[l] \in Seq(Task) /\ queue[l] # <<>> BY <1>1 DEF Grant, AtHead, IInv, TypeOK
<1>3. 1 \in 1..Len(queue[l]) /\ queue[l][1] = t BY <1>2 DEF Grant, AtHead
<1>4. Tail(queue[l]) = SubSeq(queue[l], 1, 1 - 1) \o SubSeq(queue[l], 1 + 1, Len(queue[l]))
  BY <1>2
<1>5. run' = [run EXCEPT ![t].next = @ + 1] BY DEF Grant, Advance
<1>6. \A u \in Task \ {t} : run'[u] = run[u] BY <1>5 DEF IInv, TypeOK
<1>7. queue' = [queue EXCEPT ![l] = SubSeq(@, 1, 1 - 1) \o SubSeq(@, 1 + 1, Len(@))]
  BY <1>1, <1>4 DEF Grant, IInv, TypeOK
<1>8. TypeOK'
  <2>1. Tail(queue[l]) \in Seq(Task) BY <1>2
  <2>2. queue' \in [Lock -> Seq(Task)] BY <1>1, <2>1 DEF Grant, IInv, TypeOK
  <2>3. run'[t] = [prog |-> run[t].prog, next |-> run[t].next + 1]
    BY <1>5 DEF IInv, TypeOK
  <2>4. run[t].next <= Len(run[t].prog) BY <1>1 DEF Acquires, Busy
  <2>5. Len(run[t].prog) \in Nat BY DEF IInv, TypeOK
  <2> QED BY <1>5, <1>6, <2>2, <2>3, <2>4, <2>5 DEF IInv, TypeOK
<1> QED BY <1>1, <1>3, <1>6, <1>7, <1>8, LeaveInv

(* A release takes the lock from its holder and touches no queue. *)
LEMMA DropInv == ASSUME IInv, NEW t \in Task, Drop(t) PROVE IInv'
<1>1. run' = [run EXCEPT ![t].next = @ + 1] /\ queue' = queue BY DEF Drop, Advance
<1>2. ~Acquires(t) BY DEF Drop, Acquires
<1>3. \A u \in Task \ {t} : run'[u] = run[u] BY <1>1 DEF IInv, TypeOK
<1>4. TypeOK'
  <2>1. run'[t] = [prog |-> run[t].prog, next |-> run[t].next + 1] BY <1>1 DEF IInv, TypeOK
  <2>2. run[t].next <= Len(run[t].prog) /\ Len(run[t].prog) \in Nat
    BY DEF Drop, Busy, IInv, TypeOK
  <2> QED BY <1>1, <1>3, <2>1, <2>2 DEF IInv, TypeOK
<1>5. QueuesServe'
  <2> SUFFICES ASSUME NEW l \in Lock, NEW i \in 1..Len(queue[l])
               PROVE  (Acquires(queue[l][i]) /\ Now(queue[l][i]).lock = l)'
    BY <1>1 DEF QueuesServe
  <2> DEFINE u == queue[l][i]
  <2>1. u \in Task \ {t} BY <1>2, NotQueued DEF IInv, TypeOK
  <2>2. run'[u] = run[u] /\ queue'[l][i] = u BY <1>1, <1>3, <2>1
  <2>3. Acquires(u) /\ Now(u).lock = l BY DEF IInv, QueuesServe
  <2> QED BY <2>2, <2>3 DEF Acquires, Busy, Now
<1>6. QueuesOnce' BY <1>1 DEF IInv, QueuesOnce
<1> QED BY <1>4, <1>5, <1>6 DEF IInv

(* A client that leaves takes its place in the queue and its guards with it. *)
LEMMA HangUpInv == ASSUME IInv, NEW t \in Task, HangUp(t) PROVE IInv'
<1> DEFINE l == Now(t).lock
<1>1. l \in Lock /\ Acquires(t) BY NowIsStep DEF IInv, HangUp, Acquires
<1>2. PICK i \in 1..Len(queue[l]) :
        /\ queue[l][i] = t
        /\ queue' = [queue EXCEPT ![l] = SubSeq(@, 1, i - 1) \o SubSeq(@, i + 1, Len(@))]
  BY DEF HangUp, Leave
<1>3. run' = [run EXCEPT ![t] = Rest] BY DEF HangUp
<1>4. \A u \in Task \ {t} : run'[u] = run[u] BY <1>3 DEF IInv, TypeOK
<1>5. TypeOK'
  <2>1. queue[l] \in Seq(Task) BY <1>1 DEF IInv, TypeOK
  <2>2. SubSeq(queue[l], 1, i - 1) \o SubSeq(queue[l], i + 1, Len(queue[l])) \in Seq(Task)
    BY <2>1
  <2> QED BY <1>1, <1>2, <1>3, <1>4, <2>2 DEF IInv, TypeOK, Rest
<1> QED BY <1>1, <1>2, <1>4, <1>5, LeaveInv

(* Every step of any task preserves the invariant. *)
LEMMA NextInv == IInv /\ [Next]_vars => IInv'
<1> SUFFICES ASSUME IInv, [Next]_vars PROVE IInv'
  OBVIOUS
<1>1. CASE UNCHANGED vars
  BY <1>1 DEF vars, IInv, TypeOK, QueuesServe, QueuesOnce, Acquires, Busy, Now
<1>2. ASSUME NEW t \in Task, Start(t) \/ Work(t) \/ HangUp(t) PROVE IInv'
  BY <1>2, StartInv, AskInv, GrantInv, DropInv, HangUpInv DEF Work
<1> QED BY <1>1, <1>2 DEF Next

(* Among the tasks that wait, one waits for a lock of highest rank.        *)
LEMMA HighestRank ==
  ASSUME NEW S, S # {}, NEW f \in [S -> 1..3]
  PROVE  \E x \in S : \A y \in S : f[y] <= f[x]
<1>1. CASE \E x \in S : f[x] = 3 BY <1>1
<1>2. CASE (\A x \in S : f[x] # 3) /\ \E x \in S : f[x] = 2 BY <1>2
<1>3. CASE \A x \in S : f[x] # 3 /\ f[x] # 2 BY <1>3
<1> QED BY <1>1, <1>2, <1>3

(* A task that holds a lock is not done, and asks only for higher ones.    *)
THEOREM HoldersAskHigher ==
  ASSUME ProgramsOrdered
  PROVE  TypeOK => AsksInOrder
<1> SUFFICES ASSUME TypeOK, NEW t \in Task, NEW l \in Lock, Holds(t, l, {"read", "write"})
             PROVE  Busy(t) /\ (Acquires(t) => Rank[l] < Rank[Now(t).lock])
  BY DEF AsksInOrder
<1> DEFINE p == run[t].prog
           i == run[t].next
<1>1. i \in Nat /\ i \in 1..(Len(p) + 1) /\ HoldsAt(p, i, l, {"read", "write"})
  BY DEF TypeOK, Holds
<1>2. p # <<>>
  <2> SUFFICES ASSUME p = <<>> PROVE FALSE
    OBVIOUS
  <2>1. i = 1 BY <1>1
  <2> QED BY <1>1, <2>1 DEF HoldsAt
<1>3. p \in Program BY <1>2 DEF TypeOK
<1>4. i <= Len(p) /\ (p[i].do # "drop" => Rank[l] < Rank[p[i].lock])
  BY <1>1, <1>3 DEF ProgramsOrdered
<1> QED BY <1>4 DEF Busy, Acquires, Now

(* If every task that has something to do were waiting, the head of the    *)
(* queue of the highest lock waited for would be kept out by a holder that *)
(* waits for a higher one.                                                 *)
THEOREM NeverAllWaiting == IInv /\ AsksInOrder => NoDeadlock
<1> SUFFICES ASSUME IInv, AsksInOrder, NEW b \in Task, Busy(b), \A t \in Task : ~CanStep(t)
             PROVE  FALSE
  BY DEF NoDeadlock
<1> DEFINE S == {t \in Task : Busy(t)}
           f == [t \in S |-> Rank[Now(t).lock]]
<1>1. \A t \in S : Acquires(t) /\ Queued(t, Now(t).lock) /\ ~(AtHead(t) /\ Free(t))
  BY DEF CanStep, Acquires
<1>2. \A t \in S : Now(t).lock \in Lock BY NowIsStep DEF IInv
<1>3. S # {} /\ f \in [S -> 1..3] BY <1>2
<1>4. PICK x \in S : \A y \in S : f[y] <= f[x]
  <2> HIDE DEF S, f
  <2> QED BY <1>3, HighestRank
<1> DEFINE l == Now(x).lock
           h == queue[l][1]
<1>5. l \in Lock /\ queue[l] \in Seq(Task) /\ Len(queue[l]) \in Nat /\ Len(queue[l]) > 0
  <2>1. l \in Lock /\ queue[l] \in Seq(Task) BY <1>2 DEF IInv, TypeOK
  <2>2. \E i \in 1..Len(queue[l]) : queue[l][i] = x BY <1>1 DEF Queued
  <2> QED BY <2>1, <2>2
<1>6. h \in S /\ Now(h).lock = l
  BY <1>5 DEF IInv, QueuesServe, Acquires
<1>7. AtHead(h) BY <1>5, <1>6 DEF AtHead
<1>8. ~Free(h) BY <1>1, <1>6, <1>7
<1>9. PICK u \in Task : Holds(u, l, {"read", "write"})
  BY <1>6, <1>8 DEF Free, Holds, HoldsAt
<1>10. u \in S /\ (Acquires(u) => Rank[l] < Rank[Now(u).lock]) BY <1>5, <1>9 DEF AsksInOrder
<1>11. Rank[l] < Rank[Now(u).lock] BY <1>1, <1>10
<1>12. f[u] = Rank[Now(u).lock] /\ f[x] = Rank[l] /\ f[u] <= f[x] BY <1>4, <1>10
<1>13. Rank[l] \in 1..3 /\ Rank[Now(u).lock] \in 1..3 BY <1>2, <1>5, <1>10
<1> QED BY <1>11, <1>12, <1>13

(* The queues of the locks are always in order.                            *)
THEOREM QueuesInvariant == Spec => []IInv
<1>1. Init => IInv BY InitInv
<1>2. IInv /\ [Next]_vars => IInv' BY NextInv
<1> QED BY <1>1, <1>2, PTL DEF Spec

(* However many requests run at the same time, none asks for a lock while  *)
(* it holds one of the same level or of a higher one.                      *)
THEOREM AlwaysAsksInOrder == ASSUME ProgramsOrdered PROVE Spec => []AsksInOrder
<1>1. IInv => AsksInOrder BY HoldersAskHigher DEF IInv
<1> QED BY <1>1, QueuesInvariant, PTL

(* However many requests run at the same time, the node never hangs: as    *)
(* long as a task has something to do, one of them can do it.              *)
THEOREM NeverDeadlocked == ASSUME ProgramsOrdered PROVE Spec => []NoDeadlock
<1>1. IInv => NoDeadlock BY HoldersAskHigher, NeverAllWaiting DEF IInv
<1> QED BY <1>1, QueuesInvariant, PTL

-------------------------------------------------------------------------------
(* The discipline of a block of code that runs while locks of a level up   *)
(* to r may be held: it asks for higher ones only, in their order, and     *)
(* drops what it took.                                                     *)
PortalStep == [do : {"read", "write", "drop"}, lock : Locks]

Disciplined(p, r) ==
  /\ p \in Seq(PortalStep)
  /\ \A i \in 1..Len(p) : p[i].do # "drop" => r < LockRank[p[i].lock]
  /\ \A i \in 1..(Len(p) + 1), l \in Locks :
       HoldsAt(p, i, l, {"read", "write"}) =>
         i <= Len(p) /\ (p[i].do # "drop" => LockRank[l] < LockRank[p[i].lock])

(* The level of a lock.                                                    *)
LEMMA LevelType == \A l \in Locks : LockRank[l] \in 1..3
  BY DEF LockRank

(* A block without guards is disciplined.                                  *)
LEMMA EmptyDisciplined == \A r \in Nat : Disciplined(<<>>, r)
<1>1. Len(<<>>) = 0 /\ <<>> \in Seq(PortalStep)
  OBVIOUS
<1>2. \A i \in 1..1, l \in Locks : ~HoldsAt(<<>>, i, l, {"read", "write"})
  BY DEF HoldsAt
<1> QED BY <1>1, <1>2 DEF Disciplined

(* One disciplined block after another is disciplined.                     *)
LEMMA Sequenced ==
  ASSUME NEW r \in Nat, NEW p, NEW q, Disciplined(p, r), Disciplined(q, r)
  PROVE  Disciplined(p \o q, r)
<1> DEFINE c == p \o q
           m == Len(p)
           n == Len(q)
           Modes == {"read", "write"}
<1>1. p \in Seq(PortalStep) /\ q \in Seq(PortalStep) /\ m \in Nat /\ n \in Nat
  BY DEF Disciplined
<1>2. /\ c \in Seq(PortalStep) /\ Len(c) = m + n
      /\ \A i \in 1..m : c[i] = p[i]
      /\ \A i \in 1..n : c[m + i] = q[i]
      /\ \A i \in (m + 1)..(m + n) : i - m \in 1..n /\ c[i] = q[i - m]
  BY <1>1
<1> HIDE DEF c, m, n
<1>3. ASSUME NEW i \in 1..Len(c), c[i].do # "drop" PROVE r < LockRank[c[i].lock]
  <2>1. CASE i \in 1..m
    BY <2>1, <1>2, <1>3 DEF Disciplined, m
  <2>2. CASE i \in (m + 1)..(m + n)
    <3>1. i - m \in 1..Len(q) /\ c[i] = q[i - m]
      BY <2>2, <1>2 DEF n
    <3> QED BY <3>1, <1>3 DEF Disciplined
  <2> QED BY <2>1, <2>2, <1>1, <1>2
<1>4. ASSUME NEW l \in Locks PROVE ~HoldsAt(p, m + 1, l, Modes)
  BY <1>1 DEF Disciplined, m
<1>5. ASSUME NEW i \in 1..(Len(c) + 1), NEW l \in Locks, HoldsAt(c, i, l, Modes)
      PROVE  i <= Len(c) /\ (c[i].do # "drop" => LockRank[l] < LockRank[c[i].lock])
  <2> DEFINE d == [do |-> "drop", lock |-> l]
  <2>1. PICK j \in 1..(i - 1) :
          /\ c[j].do \in Modes /\ c[j].lock = l
          /\ \A k \in (j + 1)..(i - 1) : c[k] # d
    BY <1>5 DEF HoldsAt
  <2> HIDE DEF d
  <2>2. j > m \/ (i <= m /\ HoldsAt(p, i, l, Modes))
    <3> SUFFICES ASSUME j <= m PROVE i <= m /\ HoldsAt(p, i, l, Modes)
      BY <1>1
    <3>1. p[j].do \in Modes /\ p[j].lock = l
      BY <2>1, <1>1, <1>2
    <3>2. i <= m
      <4> SUFFICES ASSUME i > m PROVE FALSE
        BY <1>1
      <4>1. \A k \in (j + 1)..m : p[k] # d
        BY <2>1, <1>1, <1>2
      <4>2. HoldsAt(p, m + 1, l, Modes)
        <5>1. j \in 1..((m + 1) - 1) /\ (m + 1) - 1 = m
          BY <1>1
        <5> QED BY <5>1, <3>1, <4>1 DEF HoldsAt, d
      <4> QED BY <4>2, <1>4
    <3>3. \A k \in (j + 1)..(i - 1) : p[k] # d
      BY <3>2, <2>1, <1>1, <1>2
    <3> QED BY <3>1, <3>2, <3>3 DEF HoldsAt, d
  <2>3. CASE i <= m /\ HoldsAt(p, i, l, Modes)
    <3>1. i \in 1..(m + 1) /\ i \in 1..m
      BY <2>3, <1>1
    <3>2. p[i].do # "drop" => LockRank[l] < LockRank[p[i].lock]
      BY <2>3, <3>1 DEF Disciplined, m
    <3> QED BY <3>1, <3>2, <1>1, <1>2
  <2>4. CASE j > m
    <3>1. j - m \in 1..((i - m) - 1) /\ j - m \in 1..n /\ c[j] = q[j - m]
      BY <2>4, <1>1, <1>2
    <3>2. \A k \in ((j - m) + 1)..((i - m) - 1) : q[k] # d
      <4> SUFFICES ASSUME NEW k \in ((j - m) + 1)..((i - m) - 1) PROVE q[k] # d
        OBVIOUS
      <4>1. m + k \in (j + 1)..(i - 1) /\ k \in 1..n
        BY <2>4, <1>1, <1>2
      <4> QED BY <4>1, <2>1, <1>2
    <3>3. HoldsAt(q, i - m, l, Modes)
      BY <3>1, <3>2, <2>1 DEF HoldsAt, d
    <3>4. i - m \in 1..(n + 1)
      BY <2>4, <1>1, <1>2
    <3>5. i - m <= n /\ (q[i - m].do # "drop" => LockRank[l] < LockRank[q[i - m].lock])
      BY <3>3, <3>4 DEF Disciplined, n
    <3>6. i \in (m + 1)..(m + n) /\ i <= Len(c)
      BY <3>4, <3>5, <1>1, <1>2
    <3>7. c[i] = q[i - m]
      BY <3>6, <1>2
    <3> QED BY <3>5, <3>6, <3>7
  <2> QED BY <2>2, <2>3, <2>4
<1> QED BY <1>2, <1>3, <1>5 DEF Disciplined, c

(* A guard around a block that asks for higher locks only is disciplined.  *)
LEMMA Guarded ==
  ASSUME NEW mode \in {"read", "write"}, NEW l \in Locks, NEW body,
         Disciplined(body, LockRank[l]), NEW r \in Nat, r < LockRank[l]
  PROVE  Disciplined(Guard(mode, l, body), r)
<1> DEFINE g == Guard(mode, l, body)
           n == Len(body)
           Modes == {"read", "write"}
           a == [do |-> mode, lock |-> l]
           z == [do |-> "drop", lock |-> l]
<1>1. /\ body \in Seq(PortalStep) /\ n \in Nat /\ a \in PortalStep /\ z \in PortalStep
      /\ LockRank[l] \in Nat
  BY LevelType DEF Disciplined, PortalStep
<1> HIDE DEF a, z
<1>2. /\ g \in Seq(PortalStep) /\ Len(g) = n + 2
      /\ g[1] = a /\ g[n + 2] = z
      /\ \A i \in 2..(n + 1) : i - 1 \in 1..n /\ g[i] = body[i - 1]
  <2>1. g = <<a>> \o body \o <<z>>
    BY DEF Guard, a, z
  <2> HIDE DEF g
  <2> QED BY <1>1, <2>1
<1>3. a.do # "drop" /\ a.lock = l /\ z.do = "drop"
  BY DEF a, z
<1> HIDE DEF g, n
<1>4. ASSUME NEW i \in 1..(n + 2), g[i].do # "drop"
      PROVE  \/ i = 1
             \/ i \in 2..(n + 1) /\ LockRank[l] < LockRank[g[i].lock]
  <2>1. CASE i = n + 2
    BY <2>1, <1>2, <1>3, <1>4
  <2>2. CASE i \in 2..(n + 1)
    <3>1. i - 1 \in 1..Len(body) /\ g[i] = body[i - 1]
      BY <2>2, <1>2 DEF n
    <3> QED BY <3>1, <2>2, <1>4 DEF Disciplined
  <2> QED BY <2>1, <2>2, <1>1
<1>5. ASSUME NEW i \in 1..Len(g), g[i].do # "drop" PROVE r < LockRank[g[i].lock]
  <2>1. i = 1 \/ (i \in 2..(n + 1) /\ LockRank[l] < LockRank[g[i].lock])
    BY <1>2, <1>4, <1>5
  <2>2. i \in 2..(n + 1) => LockRank[g[i].lock] \in Nat
    <3>1. i \in 2..(n + 1) => g[i] \in PortalStep
      BY <1>1, <1>2
    <3> QED BY <3>1, LevelType DEF PortalStep
  <2> QED BY <2>1, <2>2, <1>1, <1>2, <1>3
<1>6. ASSUME NEW i \in 1..(Len(g) + 1), NEW k \in Locks, HoldsAt(g, i, k, Modes)
      PROVE  i <= Len(g) /\ (g[i].do # "drop" => LockRank[k] < LockRank[g[i].lock])
  <2> DEFINE d == [do |-> "drop", lock |-> k]
  <2>1. PICK j \in 1..(i - 1) :
          /\ g[j].do \in Modes /\ g[j].lock = k
          /\ \A x \in (j + 1)..(i - 1) : g[x] # d
    BY <1>6 DEF HoldsAt
  <2>2. i \in 2..(n + 3) /\ j \in 1..(n + 2)
    BY <1>1, <1>2
  <2>3. j # n + 2
    BY <2>1, <1>2, <1>3
  <2>4. CASE j = 1
    <3>1. k = l /\ d = z
      BY <2>1, <2>4, <1>2, <1>3 DEF z
    <3>2. i <= n + 2
      <4> SUFFICES ASSUME i = n + 3 PROVE FALSE
        BY <2>2, <1>1
      <4>1. n + 2 \in (j + 1)..(i - 1)
        BY <2>4, <1>1
      <4> QED BY <4>1, <2>1, <3>1, <1>2
    <3> QED BY <2>2, <3>1, <3>2, <1>1, <1>2, <1>4
  <2>5. CASE j \in 2..(n + 1)
    <3> HIDE DEF d
    <3>1. j - 1 \in 1..n /\ body[j - 1].do \in Modes /\ body[j - 1].lock = k
      BY <2>1, <2>5, <1>2
    <3>2. \A x \in 1..n : x + 1 \in 2..(n + 1) /\ g[x + 1] = body[x]
      BY <1>1, <1>2
    <3>3. ASSUME NEW e \in 1..(n + 1), e <= i - 1, j - 1 < e
          PROVE  HoldsAt(body, e, k, Modes)
      <4>1. ASSUME NEW x \in j..(e - 1) PROVE body[x] # d
        <5>1. x \in 1..n /\ x + 1 \in (j + 1)..(i - 1)
          BY <2>5, <3>3, <1>1
        <5> QED BY <5>1, <3>2, <2>1
      <4>2. j - 1 \in 1..(e - 1) /\ (j - 1) + 1 = j
        BY <2>5, <3>3
      <4> QED BY <4>1, <4>2, <3>1 DEF HoldsAt, d
    <3>4. ~HoldsAt(body, n + 1, k, Modes)
      BY <1>1 DEF Disciplined, n
    <3>5. i - 1 <= n
      <4> SUFFICES ASSUME i - 1 >= n + 1 PROVE FALSE
        BY <2>2, <1>1
      <4> QED BY <3>3, <3>4, <2>5, <1>1
    <3>6. i - 1 \in 1..n /\ j - 1 < i - 1 /\ i \in 2..(n + 1)
      BY <2>2, <2>5, <3>5, <1>1
    <3>7. HoldsAt(body, i - 1, k, Modes)
      <4>1. i - 1 \in 1..(n + 1) /\ i - 1 <= i - 1
        BY <3>6, <1>1
      <4> QED BY <4>1, <3>3, <3>6
    <3>8. body[i - 1].do # "drop" => LockRank[k] < LockRank[body[i - 1].lock]
      BY <3>6, <3>7, <1>1 DEF Disciplined, n
    <3> QED BY <3>6, <3>8, <1>1, <1>2
  <2> QED BY <2>2, <2>3, <2>4, <2>5, <1>1
<1> QED BY <1>2, <1>5, <1>6 DEF Disciplined, g

(* A guard that holds nothing else meanwhile.                              *)
LEMMA BrieflyDisciplined ==
  \A mode \in {"read", "write"}, l \in Locks : \A r \in Nat :
    r < LockRank[l] => Disciplined(Briefly(mode, l), r)
<1> SUFFICES ASSUME NEW mode \in {"read", "write"}, NEW l \in Locks, NEW r \in Nat,
                    r < LockRank[l]
             PROVE  Disciplined(Briefly(mode, l), r)
  OBVIOUS
<1>1. Disciplined(<<>>, LockRank[l])
  BY EmptyDisciplined, LevelType
<1> QED BY <1>1, Guarded DEF Briefly

(* The levels of the nine locks.                                           *)
LEMMA Levels ==
  /\ "node" \in Locks /\ LockRank["node"] = 1
  /\ "keyring" \in Locks /\ LockRank["keyring"] = 2
  /\ \A l \in {"inbox", "sessions", "throttle", "publish", "ping", "tiles", "pay"} :
       l \in Locks /\ LockRank[l] = 3
  BY DEF Locks, LockRank

(* The short guards of the handlers, where nothing else is held.           *)
LEMMA ShortGuards ==
  ASSUME NEW mode \in {"read", "write"}
  PROVE  \A l \in Locks : Disciplined(Briefly(mode, l), 0)
  BY BrieflyDisciplined, LevelType

(* require_admin, and whatever follows it.                                 *)
LEMMA AdminDisciplined ==
  ASSUME NEW body, Disciplined(body, 0)
  PROVE  \A p \in Admin(body) : Disciplined(p, 0)
<1>1. Disciplined(AuthBySession, 0)
  BY ShortGuards, Levels DEF AuthBySession
<1>2. /\ Disciplined(Briefly("write", "sessions"), 0)
      /\ Disciplined(Briefly("read", "node"), 0)
      /\ Disciplined(Briefly("write", "throttle"), 0)
  BY ShortGuards, Levels
<1>3. Disciplined(Briefly("write", "sessions") \o Briefly("read", "node"), 0)
  BY <1>2, Sequenced
<1>4. Disciplined(AuthByPassword, 0)
  BY <1>2, <1>3, Sequenced DEF AuthByPassword
<1>5. Disciplined(AuthBySession \o body, 0) /\ Disciplined(AuthByPassword \o body, 0)
  BY <1>1, <1>4, Sequenced
<1> QED BY <1>5 DEF Admin

(* The blocks that run with the node locked: the keyring, then a lock of   *)
(* the highest level.                                                      *)
LEMMA UnderNode ==
  /\ Disciplined(Briefly("read", "keyring"), 1)
  /\ Disciplined(Briefly("write", "keyring"), 1)
  /\ Disciplined(Briefly("write", "inbox"), 1)
  /\ Disciplined(Briefly("write", "inbox"), 2)
  BY BrieflyDisciplined, Levels

(* A guard on the node around such a block.                                *)
LEMMA OverNode ==
  ASSUME NEW body, Disciplined(body, 1)
  PROVE  Disciplined(Reading("node", body), 0) /\ Disciplined(Writing("node", body), 0)
  BY Guarded, Levels DEF Reading, Writing

(* The handlers that lock several parts of the node at a time.             *)
LEMMA NestedHandlers ==
  /\ Disciplined(InboxJson, 0)
  /\ Disciplined(NodeStatus, 0)
  /\ Disciplined(PublishAlert, 0)
  /\ Disciplined(RotateSecrets, 0)
  /\ Disciplined(ListTrusted, 0)
  /\ Disciplined(SetTrusted, 0)
  /\ Disciplined(ClearTrusted, 0)
  /\ Disciplined(RadioAlert, 0)
<1>1. Disciplined(InboxJson, 0)
  BY UnderNode, OverNode DEF InboxJson
<1>2. Disciplined(NodeStatus, 0)
  <2>1. Disciplined(Briefly("read", "keyring") \o Briefly("write", "inbox"), 1)
    BY UnderNode, Sequenced
  <2> QED BY <2>1, OverNode DEF NodeStatus
<1>3. Disciplined(PublishAlert, 0)
  <2>1. Disciplined(Briefly("read", "keyring") \o Briefly("read", "keyring"), 1)
    BY UnderNode, Sequenced
  <2>2. Disciplined(Briefly("read", "keyring") \o Briefly("read", "keyring")
                    \o Briefly("write", "inbox"), 1)
    BY <2>1, UnderNode, Sequenced
  <2>3. Disciplined(Reading("node", Briefly("read", "keyring") \o Briefly("read", "keyring")
                                    \o Briefly("write", "inbox")), 0)
    BY <2>2, OverNode
  <2>4. Disciplined(Briefly("write", "publish"), 0)
    BY ShortGuards, Levels
  <2> QED BY <2>3, <2>4, Sequenced DEF PublishAlert
<1>4. Disciplined(RotateSecrets, 0)
  <2>1. Disciplined(Briefly("read", "keyring") \o Briefly("write", "keyring"), 1)
    BY UnderNode, Sequenced
  <2> QED BY <2>1, OverNode DEF RotateSecrets
<1>5. Disciplined(ListTrusted, 0) /\ Disciplined(SetTrusted, 0) /\ Disciplined(ClearTrusted, 0)
  BY UnderNode, OverNode DEF ListTrusted, SetTrusted, ClearTrusted
<1>6. Disciplined(RadioAlert, 0)
  BY UnderNode, Guarded, Levels DEF RadioAlert, Reading
<1> QED BY <1>1, <1>2, <1>3, <1>4, <1>5, <1>6

(* The handlers that lock one part after the other.                        *)
LEMMA FlatHandlers ==
  /\ Disciplined(NodeReader, 0)
  /\ Disciplined(AdminLogin, 0)
  /\ Disciplined(AdminLogout, 0)
  /\ Disciplined(AdminSession, 0)
  /\ Disciplined(InstallNode, 0)
  /\ Disciplined(SubmitPing, 0)
  /\ Disciplined(SubmitPay, 0)
  /\ Disciplined(PayStatus, 0)
  /\ Disciplined(RadioPayment, 0)
  /\ Disciplined(AdminReset, 0)
  /\ Disciplined(DownloadMapTiles, 0)
<1>1. \A l \in Locks : Disciplined(Briefly("read", l), 0) /\ Disciplined(Briefly("write", l), 0)
  BY ShortGuards
<1>2. \A k, l \in Locks :
        /\ Disciplined(Briefly("read", k) \o Briefly("write", l), 0)
        /\ Disciplined(Briefly("write", k) \o Briefly("read", l), 0)
  BY <1>1, Sequenced
<1>3. \A k, l, m \in Locks :
        Disciplined(Briefly("read", k) \o Briefly("write", l) \o Briefly("write", m), 0)
  BY <1>1, <1>2, Sequenced
<1>4. Disciplined(AdminLogin, 0) /\ Disciplined(AdminReset, 0)
  BY <1>3, Levels DEF AdminLogin, AdminReset
<1>5. /\ Disciplined(InstallNode, 0) /\ Disciplined(DownloadMapTiles, 0)
      /\ Disciplined(SubmitPing, 0) /\ Disciplined(SubmitPay, 0) /\ Disciplined(PayStatus, 0)
  BY <1>2, Levels DEF InstallNode, DownloadMapTiles, SubmitPing, SubmitPay, PayStatus
<1>6. /\ Disciplined(NodeReader, 0) /\ Disciplined(AdminLogout, 0)
      /\ Disciplined(AdminSession, 0) /\ Disciplined(RadioPayment, 0)
  BY <1>1, Levels DEF NodeReader, AdminLogout, AdminSession, AuthBySession, RadioPayment
<1> QED BY <1>4, <1>5, <1>6

(* Every handler of the portal and both branches of the radio take their   *)
(* locks in order: the node, its keyring, the rest.                        *)
LEMMA NodeDisciplined == \A p \in Handlers \cup Radio : Disciplined(p, 0)
<1>1. \A p \in Admin(NodeReader) \cup Admin(<<>>) : Disciplined(p, 0)
  BY AdminDisciplined, FlatHandlers, EmptyDisciplined
<1>2. \A p \in AdminVitals \cup AdminWifiQr
               \cup AdminGetConfig \cup AdminSetConfig \cup SetAlert \cup ClearAlert
               \cup IngestOfficial \cup ClearOfficial \cup ListGroups \cup CreateGroup
               \cup DeleteGroup \cup ListPings \cup ClearAdminPings :
        Disciplined(p, 0)
  BY <1>1 DEF AdminVitals, AdminWifiQr, AdminGetConfig, AdminSetConfig, SetAlert,
              ClearAlert, IngestOfficial, ClearOfficial, ListGroups, CreateGroup,
              DeleteGroup, ListPings, ClearAdminPings
<1>3. \A p \in Admin(AdminReset) \cup Admin(DownloadMapTiles) \cup Admin(RotateSecrets)
               \cup Admin(ListTrusted) \cup Admin(SetTrusted) \cup Admin(ClearTrusted) :
        Disciplined(p, 0)
  BY AdminDisciplined, FlatHandlers, NestedHandlers
<1>4. \A p \in Public : Disciplined(p, 0)
  BY FlatHandlers, NestedHandlers
     DEF Public, IsInstalled, PublicConfig, AlertStatus, OfficialBulletins
<1>5. \A p \in Radio : Disciplined(p, 0)
  BY FlatHandlers, NestedHandlers DEF Radio
<1> QED BY <1>2, <1>3, <1>4, <1>5 DEF Handlers

(* The programs of this node satisfy what the deadlock argument asks of    *)
(* programs.                                                               *)
THEOREM NodeAsksInOrder ==
  ASSUME Lock = Locks, Rank = LockRank, Program = Handlers \cup Radio
  PROVE  ProgramsOrdered
<1> SUFFICES ASSUME NEW p \in Program, NEW i \in Nat, NEW l \in Lock,
                    i \in 1..(Len(p) + 1), HoldsAt(p, i, l, {"read", "write"})
             PROVE  i <= Len(p) /\ (p[i].do # "drop" => Rank[l] < Rank[p[i].lock])
  BY DEF ProgramsOrdered
<1>1. Disciplined(p, 0)
  BY NodeDisciplined
<1> QED BY <1>1 DEF Disciplined

(* Any number of requests to this node's portal, whatever they ask for and *)
(* whoever hangs up, together with the radio loop, never hang.             *)
THEOREM NodeNeverDeadlocked ==
  ASSUME Lock = Locks, Rank = LockRank, Program = Handlers \cup Radio
  PROVE  Spec => []NoDeadlock
  BY NodeAsksInOrder, NeverDeadlocked

===============================================================================
