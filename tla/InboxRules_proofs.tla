-------------------------- MODULE InboxRules_proofs --------------------------
(* Lemmas about the operators of InboxRules: what an admission does to the *)
(* display and to the memory of identifiers.                               *)
EXTENDS InboxRules, TLAPS

(* Cutting a sequence keeps its type and its elements up to the cut.       *)
LEMMA FitsFacts ==
  ASSUME NEW S, NEW s \in Seq(S), NEW n \in Nat
  PROVE  /\ Fits(s, n) \in Seq(S)
         /\ Len(Fits(s, n)) = IF Len(s) <= n THEN Len(s) ELSE n
         /\ \A i \in DOMAIN Fits(s, n) : Fits(s, n)[i] = s[i]
<1>1. CASE Len(s) <= n
  BY <1>1 DEF Fits
<1>2. CASE ~(Len(s) <= n)
  BY <1>2 DEF Fits
<1> QED BY <1>1, <1>2

(* The display after an admission: the new alert, then the former display, *)
(* cut to its maximum.                                                     *)
LEMMA PushAlerts ==
  ASSUME NEW P, NEW I, NEW ib \in [alerts : Seq(P), seen : Seq(I)],
         NEW p \in P, Uid(p) \in I
  PROVE  LET a == Push(ib, p).alerts IN
         /\ a \in Seq(P)
         /\ Len(a) = IF Len(ib.alerts) + 1 <= InboxMax
                     THEN Len(ib.alerts) + 1 ELSE InboxMax
         /\ \A i \in 1..Len(a) :
              a[i] = IF i = 1 THEN p ELSE ib.alerts[i-1]
<1> DEFINE c == <<p>> \o ib.alerts
<1>1. ib.alerts \in Seq(P)
  OBVIOUS
<1>2. /\ c \in Seq(P)
      /\ Len(c) = Len(ib.alerts) + 1
      /\ \A i \in 1..Len(c) : c[i] = IF i = 1 THEN p ELSE ib.alerts[i-1]
  BY <1>1
<1>3. Push(ib, p).alerts = Fits(c, InboxMax)
  BY DEF Push
<1> HIDE DEF c
<1>4. InboxMax \in Nat
  BY InboxAssumption
<1> DEFINE f == Fits(c, InboxMax)
<1>5. /\ f \in Seq(P)
      /\ Len(f) = IF Len(c) <= InboxMax THEN Len(c) ELSE InboxMax
      /\ \A i \in DOMAIN f : f[i] = c[i]
  BY <1>2, <1>4, FitsFacts
<1>6. Push(ib, p).alerts = f
  BY <1>3
<1> HIDE DEF f
<1>7. /\ f \in Seq(P)
      /\ Len(f) = IF Len(ib.alerts) + 1 <= InboxMax
                  THEN Len(ib.alerts) + 1 ELSE InboxMax
      /\ \A i \in 1..Len(f) : f[i] = IF i = 1 THEN p ELSE ib.alerts[i-1]
  <2>1. Len(ib.alerts) \in Nat /\ DOMAIN f = 1..Len(f)
    BY <1>1, <1>5
  <2>2. Len(f) = IF Len(ib.alerts) + 1 <= InboxMax
                 THEN Len(ib.alerts) + 1 ELSE InboxMax
    BY <1>2, <1>5
  <2>3. ASSUME NEW i \in 1..Len(f)
        PROVE  f[i] = IF i = 1 THEN p ELSE ib.alerts[i-1]
    <3>1. i \in 1..Len(c)
      BY <2>1, <2>2, <1>2, <1>4
    <3> QED BY <3>1, <2>1, <1>2, <1>5
  <2> QED BY <2>2, <2>3, <1>5
<1> QED BY <1>6, <1>7

(* The memory after an admission: the former one, without its oldest       *)
(* identifier when it was full, then the new identifier.                   *)
LEMMA PushSeen ==
  ASSUME NEW P, NEW I, NEW ib \in [alerts : Seq(P), seen : Seq(I)],
         NEW p \in P, Uid(p) \in I
  PROVE  LET s == Push(ib, p).seen
             full == Len(ib.seen) = DedupSize IN
         /\ s \in Seq(I)
         /\ Len(s) = IF full THEN DedupSize ELSE Len(ib.seen) + 1
         /\ s[Len(s)] = Uid(p)
         /\ \A i \in 1..(Len(s) - 1) :
              s[i] = IF full THEN ib.seen[i+1] ELSE ib.seen[i]
<1>1. ib.seen \in Seq(I) /\ Uid(p) \in I
  OBVIOUS
<1>2. DedupSize \in Nat \ {0}
  BY InboxAssumption
<1>3. CASE Len(ib.seen) = DedupSize
  <2>1. Push(ib, p).seen = Append(Tail(ib.seen), Uid(p))
    BY <1>3 DEF Push
  <2> QED BY <1>1, <1>2, <1>3, <2>1
<1>4. CASE Len(ib.seen) # DedupSize
  <2>1. Push(ib, p).seen = Append(ib.seen, Uid(p))
    BY <1>4 DEF Push
  <2> QED BY <1>1, <1>2, <1>4, <2>1
<1> QED BY <1>3, <1>4

(* An admission keeps the shape of an inbox and the bounds on it.          *)
LEMMA PushType ==
  ASSUME NEW P, NEW I, NEW ib \in [alerts : Seq(P), seen : Seq(I)],
         Len(ib.alerts) <= InboxMax, Len(ib.seen) <= DedupSize,
         NEW p \in P, Uid(p) \in I
  PROVE  /\ Push(ib, p) \in [alerts : Seq(P), seen : Seq(I)]
         /\ Len(Push(ib, p).alerts) <= InboxMax
         /\ Len(Push(ib, p).seen) <= DedupSize
<1> DEFINE r == Push(ib, p)
<1>1. r = [alerts |-> r.alerts, seen |-> r.seen]
  BY DEF Push
<1>2. /\ r.alerts \in Seq(P)
      /\ Len(r.alerts) = IF Len(ib.alerts) + 1 <= InboxMax
                         THEN Len(ib.alerts) + 1 ELSE InboxMax
  BY PushAlerts
<1>3. /\ r.seen \in Seq(I)
      /\ Len(r.seen) = IF Len(ib.seen) = DedupSize
                       THEN DedupSize ELSE Len(ib.seen) + 1
  BY PushSeen
<1> HIDE DEF r
<1>4. /\ Len(ib.alerts) \in Nat /\ Len(ib.seen) \in Nat
      /\ InboxMax \in Nat /\ DedupSize \in Nat
  BY InboxAssumption
<1>5. Len(r.alerts) <= InboxMax /\ Len(r.seen) <= DedupSize
  BY <1>2, <1>3, <1>4
<1> QED BY <1>1, <1>2, <1>3, <1>5 DEF r

(* An admission displays the packet and nothing else that is new.          *)
LEMMA PushDisplayed ==
  ASSUME NEW P, NEW I, NEW ib \in [alerts : Seq(P), seen : Seq(I)],
         NEW p \in P, Uid(p) \in I
  PROVE  Displayed(Push(ib, p)) \subseteq Displayed(ib) \cup {p}
<1> DEFINE a == Push(ib, p).alerts
<1>1. /\ a \in Seq(P)
      /\ Len(a) = IF Len(ib.alerts) + 1 <= InboxMax
                  THEN Len(ib.alerts) + 1 ELSE InboxMax
      /\ \A i \in 1..Len(a) : a[i] = IF i = 1 THEN p ELSE ib.alerts[i-1]
  BY PushAlerts
<1> HIDE DEF a
<1>2. InboxMax \in Nat /\ ib.alerts \in Seq(P)
  BY InboxAssumption
<1>3. ASSUME NEW i \in DOMAIN a PROVE a[i] \in Displayed(ib) \cup {p}
  <2>1. CASE i = 1
    BY <2>1, <1>1, <1>3
  <2>2. CASE i # 1
    <3>1. i - 1 \in DOMAIN ib.alerts /\ a[i] = ib.alerts[i-1]
      BY <2>2, <1>1, <1>2, <1>3
    <3> QED BY <3>1 DEF Displayed
  <2> QED BY <2>1, <2>2
<1> QED BY <1>3 DEF Displayed, a

-------------------------------------------------------------------------------
(* An empty inbox is coherent.                                             *)
LEMMA EmptyCoherent == Coherent(EmptyInbox)
  BY DEF Coherent, EmptyInbox

(* Admitting an identifier the memory does not hold keeps the display at   *)
(* the recent end of the memory.                                           *)
LEMMA PushCoherent ==
  ASSUME NEW P, NEW I, NEW ib \in [alerts : Seq(P), seen : Seq(I)],
         Len(ib.alerts) <= InboxMax, Len(ib.seen) <= DedupSize,
         NEW p \in P, Uid(p) \in I, Uid(p) \notin Seen(ib), Coherent(ib)
  PROVE  Coherent(Push(ib, p))
<1> DEFINE a == Push(ib, p).alerts
           s == Push(ib, p).seen
           full == Len(ib.seen) = DedupSize
           d == IF full THEN 1 ELSE 0
<1>1. /\ a \in Seq(P)
      /\ Len(a) = IF Len(ib.alerts) + 1 <= InboxMax
                  THEN Len(ib.alerts) + 1 ELSE InboxMax
      /\ \A i \in 1..Len(a) : a[i] = IF i = 1 THEN p ELSE ib.alerts[i-1]
  BY PushAlerts
<1>2. /\ s \in Seq(I)
      /\ Len(s) = IF full THEN DedupSize ELSE Len(ib.seen) + 1
      /\ s[Len(s)] = Uid(p)
      /\ \A i \in 1..(Len(s) - 1) : s[i] = IF full THEN ib.seen[i+1] ELSE ib.seen[i]
  BY PushSeen
<1> HIDE DEF a, s
<1>3. /\ Len(ib.alerts) \in Nat /\ Len(ib.seen) \in Nat
      /\ DOMAIN ib.alerts = 1..Len(ib.alerts) /\ DOMAIN ib.seen = 1..Len(ib.seen)
      /\ DOMAIN a = 1..Len(a) /\ DOMAIN s = 1..Len(s)
      /\ InboxMax \in Nat \ {0} /\ DedupSize \in Nat \ {0} /\ InboxMax <= DedupSize
  BY <1>1, <1>2, InboxAssumption
<1>4. /\ Len(s) = Len(ib.seen) + 1 - d /\ d \in {0, 1}
      /\ \A i \in 1..(Len(s) - 1) : i + d \in DOMAIN ib.seen /\ s[i] = ib.seen[i+d]
  BY <1>2, <1>3
<1> HIDE DEF d
<1>5. Len(a) <= Len(s)
  BY <1>1, <1>2, <1>3 DEF Coherent
<1>6. ASSUME NEW i \in 1..Len(a) PROVE Uid(a[i]) = s[Len(s) + 1 - i]
  <2>1. CASE i = 1
    BY <2>1, <1>1, <1>2, <1>3
  <2>2. CASE i # 1
    <3>1. a[i] = ib.alerts[i-1] /\ i - 1 \in DOMAIN ib.alerts
      BY <2>2, <1>1, <1>3
    <3>2. Uid(ib.alerts[i-1]) = ib.seen[Len(ib.seen) + 1 - (i - 1)]
      BY <3>1 DEF Coherent
    <3> DEFINE k == Len(s) + 1 - i
    <3>3. k \in 1..(Len(s) - 1) /\ k + d = Len(ib.seen) + 1 - (i - 1)
      BY <2>2, <1>3, <1>4, <1>5, <1>1
    <3>4. s[k] = ib.seen[k+d]
      BY <3>3, <1>4
    <3> QED BY <3>1, <3>2, <3>3, <3>4
  <2> QED BY <2>1, <2>2
<1>7. ASSUME NEW i \in 1..Len(s), NEW j \in 1..Len(s), s[i] = s[j], i < j PROVE FALSE
  <2>1. i \in 1..(Len(s) - 1) /\ i + d \in DOMAIN ib.seen /\ s[i] = ib.seen[i+d]
    BY <1>3, <1>4, <1>7
  <2>2. CASE j = Len(s)
    BY <2>1, <2>2, <1>2, <1>7 DEF Seen
  <2>3. CASE j # Len(s)
    <3>1. j \in 1..(Len(s) - 1) /\ j + d \in DOMAIN ib.seen /\ s[j] = ib.seen[j+d]
      BY <2>3, <1>3, <1>4
    <3>2. i + d = j + d
      BY <2>1, <3>1, <1>7 DEF Coherent
    <3> QED BY <3>2, <1>4, <1>7
  <2> QED BY <2>2, <2>3
<1>8. \A i, j \in 1..Len(s) : s[i] = s[j] => i = j
  BY <1>7, <1>2
<1> QED BY <1>3, <1>5, <1>6, <1>8 DEF Coherent, a, s

(* What the memory holds after an admission: the new identifier and the    *)
(* former ones, except the first of a full memory.                         *)
LEMMA PushSeenSet ==
  ASSUME NEW P, NEW I, NEW ib \in [alerts : Seq(P), seen : Seq(I)],
         NEW p \in P, Uid(p) \in I
  PROVE  /\ Uid(p) \in Seen(Push(ib, p))
         /\ \A u \in Seen(ib) :
              u \in Seen(Push(ib, p)) \/ (Len(ib.seen) = DedupSize /\ u = ib.seen[1])
<1> DEFINE s == Push(ib, p).seen
           full == Len(ib.seen) = DedupSize
<1>1. /\ s \in Seq(I)
      /\ Len(s) = IF full THEN DedupSize ELSE Len(ib.seen) + 1
      /\ s[Len(s)] = Uid(p)
      /\ \A i \in 1..(Len(s) - 1) : s[i] = IF full THEN ib.seen[i+1] ELSE ib.seen[i]
  BY PushSeen, SMTT(60)
<1> HIDE DEF s
<1>2. /\ Len(ib.seen) \in Nat /\ DOMAIN ib.seen = 1..Len(ib.seen)
      /\ DOMAIN s = 1..Len(s) /\ DedupSize \in Nat \ {0}
  BY <1>1, InboxAssumption
<1>3. Len(s) \in DOMAIN s
  BY <1>1, <1>2
<1>4. ASSUME NEW i \in 1..Len(ib.seen), ~(full /\ i = 1)
      PROVE  \E k \in DOMAIN s : s[k] = ib.seen[i]
  <2>1. CASE full
    <3>1. i - 1 \in 1..(Len(s) - 1)
      BY <2>1, <1>1, <1>2, <1>4
    <3>2. s[i-1] = ib.seen[i]
      BY <2>1, <3>1, <1>1
    <3> QED BY <3>1, <3>2, <1>2
  <2>2. CASE ~full
    <3>1. i \in 1..(Len(s) - 1)
      BY <2>2, <1>1, <1>2
    <3>2. s[i] = ib.seen[i]
      BY <2>2, <3>1, <1>1
    <3> QED BY <3>1, <3>2, <1>2
  <2> QED BY <2>1, <2>2
<1>5. Seen(Push(ib, p)) = {s[i] : i \in DOMAIN s}
  BY DEF Seen, s
<1>6. Uid(p) \in Seen(Push(ib, p))
  BY <1>1, <1>3, <1>5
<1>7. ASSUME NEW u \in Seen(ib)
      PROVE  u \in Seen(Push(ib, p)) \/ (full /\ u = ib.seen[1])
  <2>1. PICK i \in 1..Len(ib.seen) : u = ib.seen[i]
    BY <1>2, <1>7 DEF Seen
  <2> QED BY <2>1, <1>4, <1>5
<1> QED BY <1>6, <1>7

(* An admission adds the alert to the display and drops at most one        *)
(* other for it.                                                           *)
LEMMA PushShows ==
  ASSUME NEW P, NEW I, NEW ib \in [alerts : Seq(P), seen : Seq(I)],
         Len(ib.alerts) <= InboxMax, NEW p \in P, Uid(p) \in I, Coherent(ib)
  PROVE  \/ Displayed(Push(ib, p)) = Displayed(ib) \cup {p}
         \/ \E q \in Displayed(ib) :
              Displayed(Push(ib, p)) = (Displayed(ib) \ {q}) \cup {p}
<1> DEFINE a == Push(ib, p).alerts
<1>1. /\ a \in Seq(P)
      /\ Len(a) = IF Len(ib.alerts) + 1 <= InboxMax
                  THEN Len(ib.alerts) + 1 ELSE InboxMax
      /\ \A i \in 1..Len(a) : a[i] = IF i = 1 THEN p ELSE ib.alerts[i-1]
  BY ONLY PushAlerts, ib \in [alerts : Seq(P), seen : Seq(I)], p \in P, Uid(p) \in I
<1>2. Displayed(Push(ib, p)) = {a[i] : i \in DOMAIN a}
  BY DEF Displayed
<1> HIDE DEF a
<1>3. /\ Len(ib.alerts) \in Nat /\ DOMAIN ib.alerts = 1..Len(ib.alerts)
      /\ DOMAIN a = 1..Len(a) /\ InboxMax \in Nat \ {0}
  BY <1>1, InboxAssumption
<1>4. 1 \in DOMAIN a /\ a[1] = p
  BY <1>1, <1>3
<1>5. Displayed(Push(ib, p)) = {ib.alerts[i] : i \in 1..(Len(a) - 1)} \cup {p}
  <2>1. ASSUME NEW i \in 1..Len(a), i # 1
        PROVE  i - 1 \in 1..(Len(a) - 1) /\ a[i] = ib.alerts[i-1]
    BY <2>1, <1>1, <1>3
  <2>2. ASSUME NEW i \in 1..(Len(a) - 1)
        PROVE  i + 1 \in DOMAIN a /\ a[i+1] = ib.alerts[i]
    BY <1>1, <1>3
  <2> DEFINE old == {ib.alerts[i] : i \in 1..(Len(a) - 1)}
  <2>3. ASSUME NEW q \in Displayed(Push(ib, p)) PROVE q \in old \cup {p}
    <3>1. PICK i \in 1..Len(a) : q = a[i]
      BY <1>2, <1>3, <2>3
    <3> QED BY <3>1, <1>4, <2>1
  <2>4. ASSUME NEW q \in old PROVE q \in Displayed(Push(ib, p))
    <3>1. PICK i \in 1..(Len(a) - 1) : q = ib.alerts[i]
      BY <2>4
    <3> QED BY <3>1, <1>2, <2>2
  <2>5. p \in Displayed(Push(ib, p))
    BY <1>2, <1>4
  <2> QED BY <2>3, <2>4, <2>5
<1>6. CASE Len(ib.alerts) + 1 <= InboxMax
  <2>1. {ib.alerts[i] : i \in 1..(Len(a) - 1)} = Displayed(ib)
    BY <1>1, <1>3, <1>6 DEF Displayed
  <2> QED BY <1>5, <2>1
<1>7. CASE Len(ib.alerts) = InboxMax
  <2> DEFINE m == InboxMax
  <2>1. m \in DOMAIN ib.alerts /\ Len(a) = m /\ m \in Nat
    BY <1>1, <1>3, <1>7
  <2>2. \A i, j \in DOMAIN ib.alerts : ib.alerts[i] = ib.alerts[j] => i = j
    <3> SUFFICES ASSUME NEW i \in DOMAIN ib.alerts, NEW j \in DOMAIN ib.alerts,
                        ib.alerts[i] = ib.alerts[j]
                 PROVE  i = j
      OBVIOUS
    <3> DEFINE k == Len(ib.seen) + 1 - i
               l == Len(ib.seen) + 1 - j
    <3>1. ib.seen[k] = ib.seen[l]
      BY DEF Coherent
    <3>2. ib.seen \in Seq(I) /\ Len(ib.seen) \in Nat /\ DOMAIN ib.seen = 1..Len(ib.seen)
      OBVIOUS
    <3>3. k \in DOMAIN ib.seen /\ l \in DOMAIN ib.seen
      BY <3>2, <1>3 DEF Coherent
    <3>4. k = l
      BY <3>1, <3>3 DEF Coherent
    <3> QED BY <3>2, <3>4, <1>3
  <2>3. {ib.alerts[i] : i \in 1..(m - 1)} = Displayed(ib) \ {ib.alerts[m]}
    <3>1. ASSUME NEW i \in 1..(m - 1)
          PROVE  ib.alerts[i] \in Displayed(ib) /\ ib.alerts[i] # ib.alerts[m]
      BY <2>1, <2>2, <1>3, <1>7 DEF Displayed
    <3>2. ASSUME NEW i \in DOMAIN ib.alerts, ib.alerts[i] # ib.alerts[m]
          PROVE  i \in 1..(m - 1)
      BY <3>2, <2>1, <1>3, <1>7
    <3> QED BY <3>1, <3>2 DEF Displayed
  <2>4. ib.alerts[m] \in Displayed(ib)
    BY <2>1 DEF Displayed
  <2> QED BY <1>5, <2>1, <2>3, <2>4
<1>8. Len(ib.alerts) + 1 <= InboxMax \/ Len(ib.alerts) = InboxMax
  BY <1>3
<1> QED BY <1>6, <1>7, <1>8

===============================================================================
