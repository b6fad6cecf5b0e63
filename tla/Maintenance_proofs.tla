-------------------------- MODULE Maintenance_proofs --------------------------
(* What keeps the files of a node and the node itself in order: its        *)
(* durable snapshot with one writer at a time, its watchdog, the update of *)
(* its binary and the tiles of its map, whatever the number of files,      *)
(* transactions, releases, requests and tiles.                             *)
EXTENDS DurableStore, MCMaintenance, Sequences, TLAPS

-------------------------------------------------------------------------------
(* At first the snapshot and the database in RAM are version 0.            *)
LEMMA InitStore ==
  ASSUME NEW w, Writers = {w}, Init
  PROVE  StoreInv /\ AckedInv
<1>1. MaxVersion \in Nat /\ None \notin File
  BY StoreAssumption
<1>2. PICK f \in File : /\ target = f /\ synced = f
                        /\ data = [g \in File |-> IF g = f THEN Database(0) ELSE Empty]
                        /\ disk = data
  BY DEF Init
<1>3. Database(0) \in Content /\ Empty \in Content /\ Whole(Database(0))
  BY <1>1 DEF Database, Empty, Content, Block, Missing, Whole
<1>4. TypeOK
  BY <1>1, <1>2, <1>3 DEF Init, TypeOK, Step, Block
<1>5. /\ working # Missing
      /\ tmp \notin {target, synced}
      /\ \A g \in {target, synced} : data[g] = disk[g] /\ Whole(data[g])
  BY <1>1, <1>2, <1>3 DEF Init, Missing
<1>6. \A v \in Writers : Copied(v)
  BY DEF Init, Copied
<1>7. AckedInv
  BY <1>2 DEF Init, AckedInv, Database
<1> QED BY <1>4, <1>5, <1>6, <1>7 DEF StoreInv

(* The commit changes the database in RAM; no copy is under way.           *)
LEMMA CommitStore ==
  ASSUME NEW w, Writers = {w}, StoreInv, Commit(w)
  PROVE  StoreInv'
<1>1. MaxVersion \in Nat
  BY StoreAssumption
<1>2. TypeOK'
  BY <1>1 DEF StoreInv, TypeOK, Commit, Goto, Step, Block, Missing
<1>3. working' # Missing
  BY <1>1 DEF StoreInv, TypeOK, Commit, Block, Missing
<1>4. Copied(w)'
  BY DEF StoreInv, TypeOK, Commit, Goto, Copied
<1> QED BY <1>2, <1>3, <1>4 DEF StoreInv, Commit

(* The temporary file is a new one or the abandoned one, never one that a  *)
(* snapshot name designates.                                               *)
LEMMA CreateStore ==
  ASSUME NEW w, Writers = {w}, StoreInv, Create(w)
  PROVE  StoreInv'
<1>1. MaxVersion \in Nat /\ None \notin File
  BY StoreAssumption
<1>2. PICK f \in File :
         /\ IF tmp # None THEN f = tmp
            ELSE f \notin {target, synced} \cup {fd[v] : v \in Writers}
         /\ tmp' = f
         /\ fd' = [fd EXCEPT ![w] = f]
         /\ data' = [data EXCEPT ![f] = Empty]
         /\ disk' = [disk EXCEPT ![f] = IF tmp = None THEN Empty ELSE @]
  BY DEF Create
<1>3. Empty \in Content
  BY <1>1 DEF Empty, Database, Content, Block, Missing
<1>4. f \notin {target, synced}
  BY <1>2 DEF StoreInv
<1>5. TypeOK'
  <2>1. data' \in [File -> Content] /\ disk' \in [File -> Content]
    BY <1>2, <1>3 DEF StoreInv, TypeOK
  <2>2. tmp' \in File \cup {None} /\ fd' \in [Writers -> File \cup {None}]
    BY <1>2 DEF StoreInv, TypeOK
  <2>3. pc' \in [Writers -> Step]
    BY DEF StoreInv, TypeOK, Create, Goto, Step
  <2> QED BY <2>1, <2>2, <2>3 DEF StoreInv, TypeOK, Create
<1>6. \A g \in {target', synced'} : data'[g] = disk'[g] /\ Whole(data'[g])
  BY <1>2, <1>4 DEF StoreInv, TypeOK, Create
<1>7. Copied(w)'
  BY <1>1, <1>2 DEF StoreInv, TypeOK, Create, Goto, Copied
<1> QED BY <1>2, <1>4, <1>5, <1>6, <1>7 DEF StoreInv, Create

(* The copy writes in the temporary file only.                             *)
LEMMA CopyStore ==
  ASSUME NEW w, Writers = {w}, StoreInv, CopyFirst(w) \/ CopySecond(w)
  PROVE  StoreInv'
<1>1. /\ fd[w] = tmp /\ tmp \in File /\ tmp \notin {target, synced}
      /\ data[tmp] \in Content /\ working \in Block
  BY DEF StoreInv, TypeOK, Copied, CopyFirst, CopySecond, Goto
<1>2. CASE CopyFirst(w)
  <2>1. data' = [data EXCEPT ![tmp] = [data[tmp] EXCEPT !.head = working]]
    BY <1>1, <1>2 DEF CopyFirst, StoreInv, TypeOK
  <2>2. [data[tmp] EXCEPT !.head = working] \in Content
    BY <1>1 DEF Content
  <2>3. TypeOK'
    BY <1>2, <2>1, <2>2 DEF StoreInv, TypeOK, CopyFirst, Goto, Step
  <2>4. data'[tmp].head = working
    BY <1>1, <2>1 DEF Content, StoreInv, TypeOK
  <2>5. Copied(w)'
    BY <1>1, <1>2, <2>4 DEF StoreInv, TypeOK, CopyFirst, Goto, Copied
  <2>6. \A g \in {target', synced'} : data'[g] = disk'[g] /\ Whole(data'[g])
    BY <1>1, <1>2, <2>1 DEF StoreInv, TypeOK, CopyFirst
  <2> QED BY <1>2, <2>3, <2>5, <2>6 DEF StoreInv, CopyFirst
<1>3. CASE CopySecond(w)
  <2>1. data' = [data EXCEPT ![tmp] = [data[tmp] EXCEPT !.body = working]]
    BY <1>1, <1>3 DEF CopySecond, StoreInv, TypeOK
  <2>2. [data[tmp] EXCEPT !.body = working] \in Content
    BY <1>1 DEF Content
  <2>3. TypeOK'
    <3>1. data' \in [File -> Content]
      BY <1>1, <2>1, <2>2 DEF StoreInv, TypeOK
    <3>2. pc' \in [Writers -> Step] /\ fd' \in [Writers -> File \cup {None}]
      BY <1>3 DEF StoreInv, TypeOK, CopySecond, Goto, Step
    <3> QED BY <1>3, <3>1, <3>2 DEF StoreInv, TypeOK, CopySecond
  <2>4. data[tmp].head = working
    BY <1>3 DEF StoreInv, CopySecond, Goto, Copied
  <2>5. data'[tmp] = Database(working)
    BY <1>1, <2>1, <2>4 DEF Content, Database, StoreInv, TypeOK
  <2>6. Copied(w)'
    BY <1>1, <1>3, <2>5 DEF StoreInv, TypeOK, CopySecond, Goto, Copied
  <2>7. \A g \in {target', synced'} : data'[g] = disk'[g] /\ Whole(data'[g])
    BY <1>1, <1>3, <2>1 DEF StoreInv, TypeOK, CopySecond
  <2> QED BY <1>3, <2>3, <2>6, <2>7 DEF StoreInv, CopySecond
<1> QED BY <1>2, <1>3

(* The temporary file reaches the disk.                                    *)
LEMMA SyncStore ==
  ASSUME NEW w, Writers = {w}, StoreInv, Sync(w)
  PROVE  StoreInv'
<1>1. tmp \in File /\ tmp \notin {target, synced} /\ data[tmp] = Database(working)
  BY DEF StoreInv, TypeOK, Copied, Sync, Goto
<1>2. TypeOK'
  BY <1>1 DEF StoreInv, TypeOK, Sync, Goto, Step
<1>3. Copied(w)'
  BY <1>1 DEF StoreInv, TypeOK, Sync, Goto, Copied
<1> QED BY <1>1, <1>2, <1>3 DEF StoreInv, Sync, TypeOK

(* The name target passes from a whole synchronised file to another.       *)
LEMMA RenameStore ==
  ASSUME NEW w, Writers = {w}, StoreInv, Rename(w)
  PROVE  StoreInv'
<1>1. /\ tmp \in File
      /\ data[tmp] = Database(working) /\ disk[tmp] = Database(working)
  BY DEF StoreInv, TypeOK, Copied, Rename, Goto
<1>2. Whole(data[tmp])
  BY <1>1 DEF Whole, Database, StoreInv
<1>3. TypeOK'
  BY <1>1 DEF StoreInv, TypeOK, Rename, Goto, Step
<1>4. Copied(w)'
  BY <1>1 DEF StoreInv, TypeOK, Rename, Goto, Copied
<1>5. None \notin File
  BY StoreAssumption
<1> QED BY <1>1, <1>2, <1>3, <1>4, <1>5 DEF StoreInv, Rename, TypeOK

(* The directory, and an end without success.                              *)
LEMMA EndStore ==
  ASSUME NEW w, Writers = {w}, StoreInv, DirSync(w) \/ Fail(w) \/ ProcessRestart
  PROVE  StoreInv'
<1>1. CASE DirSync(w)
  <2>1. synced' \in {target, synced}
    BY <1>1 DEF DirSync
  <2>2. TypeOK'
    BY <1>1, <2>1 DEF StoreInv, TypeOK, DirSync, Goto, Step
  <2>3. Copied(w)'
    BY <1>1 DEF StoreInv, TypeOK, DirSync, Goto, Copied
  <2> QED BY <1>1, <2>1, <2>2, <2>3 DEF StoreInv, DirSync
<1>2. CASE Fail(w)
  <2>1. TypeOK'
    BY <1>2 DEF StoreInv, TypeOK, Fail, Step
  <2>2. Copied(w)'
    BY <1>2 DEF StoreInv, TypeOK, Fail, Copied
  <2> QED BY <1>2, <2>1, <2>2 DEF StoreInv, Fail
<1>3. CASE ProcessRestart
  <2>1. TypeOK'
    BY <1>3 DEF StoreInv, TypeOK, ProcessRestart, Step
  <2>2. Copied(w)'
    BY <1>3 DEF StoreInv, TypeOK, ProcessRestart, Copied
  <2> QED BY <1>3, <2>1, <2>2 DEF StoreInv, ProcessRestart
<1> QED BY <1>1, <1>2, <1>3

(* Whichever name and contents survive, they are a whole database.         *)
LEMMA PowerLossStore ==
  ASSUME NEW w, Writers = {w}, StoreInv, PowerLoss
  PROVE  StoreInv' /\ working' = data[target'].head /\ target' \in {target, synced}
         /\ synced' = target' /\ data' = data
<1>1. PICK f \in {target, synced} : \E c \in {data[f], disk[f]} :
        /\ target' = f /\ synced' = f
        /\ tmp' \in {None, tmp, target} \ {f}
        /\ data' = [data EXCEPT ![f] = c]
        /\ disk' = [disk EXCEPT ![f] = c]
        /\ working' = IF Whole(c) THEN c.head ELSE Missing
        /\ pc' = [v \in Writers |-> "idle"]
        /\ fd' = [v \in Writers |-> None]
        /\ UNCHANGED <<mine, acked>>
  BY DEF PowerLoss
<1>2. f \in File /\ data[f] = disk[f] /\ Whole(data[f]) /\ data[f] \in Content
  BY DEF StoreInv, TypeOK
<1>3. /\ data' = data /\ disk' = disk
      /\ working' = data[f].head /\ working' # Missing
  BY <1>1, <1>2 DEF StoreInv, TypeOK, Whole
<1>4. TypeOK'
  BY <1>1, <1>2, <1>3 DEF StoreInv, TypeOK, Step, Content
<1>5. Copied(w)'
  BY <1>1 DEF Copied
<1> QED BY <1>1, <1>2, <1>3, <1>4, <1>5 DEF StoreInv

(* Every step preserves the invariant.                                     *)
LEMMA NextStore ==
  ASSUME NEW w, Writers = {w}, StoreInv, [Next]_vars
  PROVE  StoreInv'
<1>1. CASE UNCHANGED vars
  BY <1>1 DEF StoreInv, TypeOK, Copied, vars
<1>2. CASE Next
  BY <1>2, CommitStore, CreateStore, CopyStore, SyncStore, RenameStore, EndStore,
     PowerLossStore DEF Next
<1> QED BY <1>1, <1>2

(* What was acknowledged is in both names the power loss may leave: the    *)
(* directory is synchronised before the answer.                            *)
LEMMA NextAcked ==
  ASSUME NEW w, Writers = {w}, StoreInv, AckedInv, [Next]_vars
  PROVE  AckedInv'
<1>1. /\ MaxVersion \in Nat /\ acked \in Nat /\ mine[w] \in Nat /\ working \in Int
      /\ working # Missing
      /\ \A f \in File : data[f] \in Content /\ data[f].head \in Int
  BY StoreAssumption DEF StoreInv, TypeOK, Block, Content
<1>2. CASE Commit(w)
  BY <1>1, <1>2 DEF AckedInv, Commit
<1>3. CASE Create(w)
  <2>1. \A f \in {target, synced} : data'[f] = data[f]
    BY <1>3 DEF Create, StoreInv, TypeOK
  <2> QED BY <1>3, <2>1 DEF AckedInv, Create
<1>4. CASE CopyFirst(w) \/ CopySecond(w)
  <2>1. fd[w] \notin {target, synced}
    BY <1>4 DEF StoreInv, Copied, CopyFirst, CopySecond, Goto
  <2>2. \A f \in {target, synced} : data'[f] = data[f]
    BY <1>4, <2>1 DEF CopyFirst, CopySecond, StoreInv, TypeOK
  <2> QED BY <1>4, <2>2 DEF AckedInv, CopyFirst, CopySecond
<1>5. CASE Sync(w) \/ Fail(w) \/ ProcessRestart
  BY <1>5 DEF AckedInv, Sync, Fail, ProcessRestart
<1>6. CASE Rename(w)
  <2>1. data[tmp].head = working
    BY <1>6 DEF StoreInv, Copied, Rename, Goto, Database
  <2> QED BY <1>6, <2>1 DEF AckedInv, Rename
<1>7. CASE DirSync(w)
  <2>1. /\ synced' \in {target, synced} /\ target' = target
        /\ data' = data /\ working' = working
    BY <1>7 DEF DirSync
  <2>2. data[target].head = working /\ mine[w] = working
    BY <1>7 DEF StoreInv, Copied, DirSync, Goto, Database
  <2>3. acked' = acked \/ (acked' = working /\ synced' = target)
    BY <1>7, <2>2 DEF DirSync
  <2> QED BY <1>1, <2>1, <2>2, <2>3 DEF AckedInv
<1>8. CASE PowerLoss
  <2>1. /\ working' = data[target'].head /\ target' \in {target, synced}
        /\ synced' = target' /\ data' = data
    BY <1>8, PowerLossStore
  <2>2. acked' = acked
    BY <1>8 DEF PowerLoss
  <2> QED BY <2>1, <2>2 DEF AckedInv
<1>9. CASE UNCHANGED vars
  BY <1>9 DEF AckedInv, vars
<1> QED BY <1>2, <1>3, <1>4, <1>5, <1>6, <1>7, <1>8, <1>9 DEF Next

-------------------------------------------------------------------------------
(* Whole, synchronised files behind both names leave no hybrid.            *)
LEMMA StoreNeverHybrid == StoreInv => NeverHybrid
  BY DEF StoreInv, NeverHybrid, Survivors

(* The invariant gives the property: whatever a power loss leaves is at least what was
   acknowledged. *)
LEMMA StoreAcked == StoreInv /\ AckedInv => AckedSurvives
  BY StoreNeverHybrid DEF StoreInv, AckedInv, AckedSurvives, Survivors

(* One writer at a time: the snapshot is complete at every moment, even    *)
(* when the medium refuses to synchronise directories (atomic_copy: "soit  *)
(* l'ancien contenu intact, soit le nouveau complet").                     *)
THEOREM SnapshotNeverHybrid ==
  ASSUME NEW w, Writers = {w}
  PROVE  Spec => []NeverHybrid
<1>1. Init => StoreInv
  BY InitStore
<1>2. StoreInv /\ [Next]_vars => StoreInv'
  BY NextStore
<1> QED BY <1>1, <1>2, StoreNeverHybrid, PTL DEF Spec

(* One writer at a time: a write answered Ok after the directory was       *)
(* synchronised survives every later power loss (persist_durable).         *)
THEOREM AcknowledgedWritesSurvive ==
  ASSUME NEW w, Writers = {w}
  PROVE  Spec => []AckedSurvives
<1>1. Init => StoreInv /\ AckedInv
  BY InitStore
<1>2. StoreInv /\ AckedInv /\ [Next]_vars => StoreInv' /\ AckedInv'
  BY NextStore, NextAcked
<1> QED BY <1>1, <1>2, StoreAcked, PTL DEF Spec

(* The files behind the two names as the abstract database sees them: the  *)
(* transactions at whose end a power loss may leave the node.              *)
Outcomes == {data[f].head : f \in {target, synced}}

(* Both files are synchronised: nothing else survives a power loss.        *)
LEMMA SurvivorsAreOutcomes == StoreInv => {c.head : c \in Survivors} = Outcomes
  BY DEF StoreInv, Survivors, Outcomes

(* A copy is written away from both names: the outcomes do not change.     *)
LEMMA CopiesLeaveOutcomes ==
  ASSUME NEW w, Writers = {w}, StoreInv,
         Create(w) \/ CopyFirst(w) \/ CopySecond(w) \/ Sync(w) \/ Fail(w)
           \/ ProcessRestart \/ UNCHANGED vars
  PROVE  Outcomes' = Outcomes /\ working' = working /\ acked' = acked
<1>1. CASE Create(w)
  <2>1. \A f \in {target, synced} : data'[f] = data[f]
    BY <1>1 DEF Create, StoreInv, TypeOK
  <2>2. target' = target /\ synced' = synced /\ working' = working /\ acked' = acked
    BY <1>1 DEF Create
  <2> QED BY <2>1, <2>2 DEF Outcomes
<1>2. CASE CopyFirst(w) \/ CopySecond(w)
  <2>1. fd[w] \notin {target, synced}
    BY <1>2 DEF StoreInv, Copied, CopyFirst, CopySecond, Goto
  <2>2. \A f \in {target, synced} : data'[f] = data[f]
    BY <1>2, <2>1 DEF CopyFirst, CopySecond, StoreInv, TypeOK
  <2>3. target' = target /\ synced' = synced /\ working' = working /\ acked' = acked
    BY <1>2 DEF CopyFirst, CopySecond
  <2> QED BY <2>2, <2>3 DEF Outcomes
<1>3. CASE Sync(w) \/ Fail(w) \/ ProcessRestart \/ UNCHANGED vars
  BY <1>3 DEF Outcomes, Sync, Fail, ProcessRestart, vars
<1> QED BY <1>1, <1>2, <1>3

(* The rename adds the database in RAM to what the old directory held: a   *)
(* Persist.                                                                *)
LEMMA RenamePersists ==
  ASSUME NEW w, Writers = {w}, StoreInv, Rename(w)
  PROVE  /\ \E v \in Outcomes : Outcomes' = {working, v}
         /\ working' = working /\ acked' = acked
<1>1. data[tmp].head = working
  BY DEF StoreInv, Copied, Rename, Goto, Database
<1>2. target' = tmp /\ synced' = synced /\ data' = data /\ working' = working /\ acked' = acked
  BY DEF Rename
<1>3. Outcomes' = {working, data[synced].head}
  BY <1>1, <1>2 DEF Outcomes
<1>4. data[synced].head \in Outcomes
  BY DEF Outcomes
<1> QED BY <1>2, <1>3, <1>4

(* The directory on the medium, the database in RAM is the only outcome,   *)
(* and it is newer than any promise: a Settle. On a medium that refuses,   *)
(* nothing changes.                                                        *)
LEMMA DirSyncSettles ==
  ASSUME NEW w, Writers = {w}, StoreInv, AckedInv, DirSync(w)
  PROVE  /\ working' = working
         /\ \/ working \in Outcomes /\ Outcomes' = {working} /\ acked' = working
            \/ Outcomes' = Outcomes /\ acked' = acked
<1>1. data[target].head = working /\ mine[w] = working
  BY DEF StoreInv, Copied, DirSync, Goto, Database
<1>2. acked <= working /\ acked \in Int /\ working \in Int
  BY StoreAssumption DEF AckedInv, StoreInv, TypeOK, Block, Missing
<1>3. target' = target /\ data' = data /\ working' = working /\ synced' \in {target, synced}
  BY DEF DirSync
<1>4. CASE synced' = target
  <2>1. acked' = working
    BY <1>1, <1>2, <1>4 DEF DirSync
  <2>2. Outcomes' = {working}
    BY <1>1, <1>3, <1>4 DEF Outcomes
  <2>3. working \in Outcomes
    BY <1>1 DEF Outcomes
  <2> QED BY <1>3, <2>1, <2>2, <2>3
<1>5. CASE synced' # target
  <2>1. acked' = acked /\ synced' = synced
    BY <1>3, <1>5 DEF DirSync
  <2> QED BY <1>3, <2>1 DEF Outcomes
<1> QED BY <1>4, <1>5

(* A power loss goes back to one of the outcomes, and leaves no other: a   *)
(* Lose.                                                                   *)
LEMMA PowerLossLoses ==
  ASSUME NEW w, Writers = {w}, StoreInv, PowerLoss
  PROVE  /\ \E v \in Outcomes : working' = v /\ Outcomes' = {v}
         /\ acked' = acked
<1>1. /\ working' = data[target'].head /\ target' \in {target, synced}
      /\ synced' = target' /\ data' = data
  BY PowerLossStore
<1>2. data[target'].head \in Outcomes /\ Outcomes' = {data[target'].head}
  BY <1>1 DEF Outcomes
<1>3. acked' = acked
  BY DEF PowerLoss
<1> QED BY <1>1, <1>2, <1>3

(* Every step of the store is a step of the abstract database or a stutter. *)
LEMMA NextIsTransaction ==
  ASSUME NEW w, Writers = {w}, StoreInv, AckedInv, [Next]_vars
  PROVE  [Promise!Next]_Promise!state
<1> USE DEF Promise!state
<1>0. {c.head : c \in Survivors} = Outcomes /\ {c.head : c \in Survivors'} = Outcomes'
  <2>1. StoreInv'
    BY NextStore
  <2> QED BY <2>1, SurvivorsAreOutcomes DEF StoreInv, Survivors, Outcomes
<1>1. CASE Commit(w)
  <2>1. working' = working + 1 /\ acked' = acked /\ Outcomes' = Outcomes
    BY <1>1 DEF Commit, Outcomes
  <2> QED BY <1>0, <2>1 DEF Promise!Next, Promise!Write
<1>2. CASE Create(w) \/ CopyFirst(w) \/ CopySecond(w) \/ Sync(w) \/ Fail(w)
             \/ ProcessRestart \/ UNCHANGED vars
  BY <1>0, <1>2, CopiesLeaveOutcomes
<1>3. CASE Rename(w)
  BY <1>0, <1>3, RenamePersists DEF Promise!Next, Promise!Persist
<1>4. CASE DirSync(w)
  BY <1>0, <1>4, DirSyncSettles DEF Promise!Next, Promise!Settle
<1>5. CASE PowerLoss
  BY <1>0, <1>5, PowerLossLoses DEF Promise!Next, Promise!Lose
<1> QED BY <1>1, <1>2, <1>3, <1>4, <1>5 DEF Next

(* One writer at a time: what the files, the names and the copies do, an   *)
(* abstract database with transactions does. A power loss goes back to the *)
(* end of a transaction, never past one promised, and nothing but a rename *)
(* or an fsync of the directory changes what it may go back to.            *)
THEOREM SnapshotIsTransactional ==
  ASSUME NEW w, Writers = {w}
  PROVE  Spec => ImplementsTransactions
<1>1. Init => StoreInv /\ AckedInv
  BY InitStore
<1>2. StoreInv /\ AckedInv /\ [Next]_vars => StoreInv' /\ AckedInv'
  BY NextStore, NextAcked
<1>3. Init => Promise!Init
  <2> SUFFICES ASSUME Init PROVE Promise!Init
    OBVIOUS
  <2>1. working = 0 /\ acked = 0 /\ target = synced /\ data[target].head = 0
    BY DEF Init, Database
  <2>2. Outcomes = {0}
    BY <2>1 DEF Outcomes
  <2>3. {c.head : c \in Survivors} = {0}
    BY <1>1, <2>2, SurvivorsAreOutcomes
  <2> QED BY <2>1, <2>3 DEF Promise!Init
<1>4. StoreInv /\ AckedInv /\ [Next]_vars => [Promise!Next]_Promise!state
  BY NextIsTransaction
<1> QED BY <1>1, <1>2, <1>3, <1>4, PTL DEF Spec, ImplementsTransactions, Promise!Spec

-------------------------------------------------------------------------------
(* The watchdog process runs only over an armed timer; after a probe that  *)
(* succeeded what the timer has left is the sleep or the probe under way,  *)
(* and what it was set to beyond the interval and that probe.              *)
DogInv ==
  /\ dog \in [at : {"off", "probing", "connecting", "asleep"}, wait : Int]
  /\ timer \in [armed : BOOLEAN, left : Int]
  /\ failed \in BOOLEAN
  /\ ~failed =>
       /\ dog.at = "probing" => timer.left >= Timeout - Interval
       /\ dog.at = "asleep" => dog.wait >= 0 /\ timer.left >= dog.wait + Timeout - Interval
       /\ dog.at = "connecting" =>
            dog.wait >= 0 /\ timer.left >= dog.wait + Timeout - Interval - ProbeTimeout

(* Durations are positive. *)
LEMMA DogTimes == {Interval, ProbeTimeout, Timeout} \subseteq Nat \ {0}
  BY MaintenanceAssumption DEF Dog!Durations

(* The timer starts unarmed. *)
LEMMA DogInit == Dog!Init => DogInv
<1> SUFFICES ASSUME Dog!Init PROVE DogInv
  OBVIOUS
<1>1. dog = [at |-> "off", wait |-> 0] /\ timer = [armed |-> FALSE, left |-> 0]
  BY DEF Dog!Init, Dog!Off
<1>2. failed \in BOOLEAN
  BY DEF Dog!Init
<1> QED BY <1>1, <1>2 DEF DogInv

(* Every step of the watchdog preserves its invariant. *)
LEMMA DogStep ==
  ASSUME DogInv, Dog!Next
  PROVE  DogInv'
<1> USE DogTimes DEF Dog!Rearm, Dog!Rest, Dog!Off
<1>1. CASE Dog!Open
  BY <1>1 DEF DogInv, Dog!Open
<1>2. CASE Dog!ProbeConnects
  <2>1. dog' = [at |-> "asleep", wait |-> Interval] /\ timer' = [armed |-> TRUE, left |-> Timeout]
    BY <1>2 DEF Dog!ProbeConnects
  <2>2. failed' \in BOOLEAN
    BY <1>2 DEF Dog!ProbeConnects
  <2> QED BY <2>1, <2>2 DEF DogInv
<1>3. CASE Dog!ProbeRefused
  BY <1>3 DEF DogInv, Dog!ProbeRefused
<1>4. CASE Dog!ProbeHangs
  BY <1>4 DEF DogInv, Dog!ProbeHangs
<1>5. CASE Dog!ProbeTimesOut
  BY <1>5 DEF DogInv, Dog!ProbeTimesOut
<1>6. CASE Dog!Wake
  BY <1>6 DEF DogInv, Dog!Wake
<1>7. CASE Dog!Stop
  BY <1>7 DEF DogInv, Dog!Stop
<1>8. CASE Dog!Reset
  BY <1>8 DEF DogInv, Dog!Reset
<1>9. CASE Dog!Tick
  <2>1. timer'.left = timer.left - 1 /\ timer' \in [armed : BOOLEAN, left : Int]
    BY <1>9 DEF DogInv, Dog!Tick
  <2>2. CASE dog.at = "off"
    BY <1>9, <2>1, <2>2 DEF DogInv, Dog!Tick
  <2>3. CASE dog.at # "off"
    <3>1. /\ dog' \in [at : {"off", "probing", "connecting", "asleep"}, wait : Int]
          /\ dog'.at = dog.at /\ dog'.wait = dog.wait - 1 /\ dog.at # "probing"
          /\ dog.wait > 0 /\ failed' = failed
      BY <1>9, <2>3 DEF DogInv, Dog!Tick
    <3> QED BY <2>1, <3>1 DEF DogInv
  <2> QED BY <2>2, <2>3
<1>10. CASE Dog!Freeze \/ Dog!Die \/ Dog!Relaunch \/ Dog!Accept \/ Dog!Connect
  BY <1>10 DEF DogInv, Dog!Freeze, Dog!Die, Dog!Relaunch, Dog!Accept, Dog!Connect
<1> QED
  BY <1>1, <1>2, <1>3, <1>4, <1>5, <1>6, <1>7, <1>8, <1>9, <1>10
     DEF Dog!Next, Dog!Proceed, Dog!Probe

(* So does every step of the run. *)
LEMMA DogMCStep == DogInv /\ [MCNext]_mcVars => DogInv'
<1> SUFFICES ASSUME DogInv, [MCNext]_mcVars PROVE DogInv'
  OBVIOUS
<1>1. CASE Dog!Next
  BY <1>1, DogStep
<1>2. CASE UNCHANGED dogVars
  BY <1>2 DEF dogVars, DogInv
<1> QED BY <1>1, <1>2 DEF MCNext, mcVars

(* For every interval, probe and timer: the hardware resets the board only *)
(* if the last probe failed, the watchdog process is not there, the timer  *)
(* does not outlast the interval, or not with the probe that is waiting    *)
(* (watchdog::run).                                                        *)
THEOREM ResetOnlyWhenJustified == MCSpec => ResetJustified
<1>1. MCInit => DogInv
  BY DogInit DEF MCInit
<1>2. ASSUME DogInv, Dog!Reset, ~failed, dog.at # "off"
      PROVE  Timeout <= Interval + Dog!Patience
  BY <1>2, DogTimes DEF DogInv, Dog!Reset, Dog!Patience
<1>3. DogInv =>
        [Dog!Reset => failed \/ dog.at = "off" \/ Timeout <= Interval + Dog!Patience]_(Dog!vars)
  BY <1>2
<1> QED BY <1>1, <1>3, DogMCStep, PTL DEF MCSpec, ResetJustified, Dog!ResetJustified

-------------------------------------------------------------------------------
(* A segment of a version counts for a natural number.                     *)
LEMMA SegmentIsNatural ==
  ASSUME NEW v \in Seq(Int), NEW i
  PROVE  /\ Update!Segment(v, i) \in Nat
         /\ Update!Segment(v, i) > 0 => i \in DOMAIN v
  BY DEF Update!Segment

(* version_gt ranks versions: a later version of a later version is later. *)
LEMMA VersionsAreRanked ==
  ASSUME NEW a \in Seq(Int), NEW b \in Seq(Int), NEW c \in Seq(Int),
         Update!VersionGt(a, b), Update!VersionGt(b, c)
  PROVE  Update!VersionGt(a, c)
<1>1. PICK i \in DOMAIN a \cup DOMAIN b :
        /\ Update!Segment(a, i) > Update!Segment(b, i)
        /\ \A j \in 1..(i - 1) : Update!Segment(a, j) = Update!Segment(b, j)
  BY DEF Update!VersionGt
<1>2. PICK k \in DOMAIN b \cup DOMAIN c :
        /\ Update!Segment(b, k) > Update!Segment(c, k)
        /\ \A j \in 1..(k - 1) : Update!Segment(b, j) = Update!Segment(c, j)
  BY DEF Update!VersionGt
<1>3. i \in Nat /\ k \in Nat /\ i >= 1 /\ k >= 1
  OBVIOUS
<1> DEFINE m == IF i < k THEN i ELSE k
<1>4. m \in Nat /\ m >= 1 /\ m <= i /\ m <= k /\ m \in {i, k}
  BY <1>3
<1>5. \A j \in 1..(m - 1) : Update!Segment(a, j) = Update!Segment(c, j)
  BY <1>1, <1>2, <1>3, <1>4
<1>6. Update!Segment(a, m) > Update!Segment(c, m)
  <2>1. /\ Update!Segment(a, m) \in Nat /\ Update!Segment(b, m) \in Nat
        /\ Update!Segment(c, m) \in Nat
    BY SegmentIsNatural
  <2>2. CASE i < k
    BY <1>1, <1>2, <1>3, <2>1, <2>2
  <2>3. CASE i = k
    BY <1>1, <1>2, <1>3, <2>1, <2>3
  <2>4. CASE i > k
    BY <1>1, <1>2, <1>3, <2>1, <2>4
  <2> QED BY <1>3, <2>2, <2>3, <2>4
<1>7. m \in DOMAIN a
  BY <1>6, SegmentIsNatural
<1> QED BY <1>5, <1>6, <1>7 DEF Update!VersionGt

-------------------------------------------------------------------------------
(* A manifest of the publisher: of a release, its digest, signed or not.   *)
OfRelease(m) == \E i \in DOMAIN Versions, s \in BOOLEAN : m = Update!Manifest(i, s)

(* What the slot holds: nothing, or a release with its signed manifest.    *)
SlotInv ==
  \/ slot = Update!NoFiles
  \/ \E i \in DOMAIN Versions : slot = [man |-> Update!Manifest(i, TRUE), bin |-> i]

(* Once the updater has decided, the manifest it read is the one of the    *)
(* working directory, and newer than what it took for the one installed;   *)
(* once it has verified, the binary of the working directory is the one    *)
(* described.                                                              *)
UpdateInv ==
  /\ server = [man |-> server.man, bin |-> server.bin] /\ OfRelease(server.man)
  /\ file = [man |-> file.man, bin |-> file.bin]
  /\ file.man = Update!NoManifest \/ OfRelease(file.man)
  /\ SlotInv
  /\ run = [u \in {Crond} |-> [at |-> run[Crond].at, man |-> run[Crond].man, current |-> run[Crond].current]]
  /\ run[Crond].at \in {"bin", "bin-arriving", "verify", "apply"} =>
       /\ file.man = run[Crond].man /\ OfRelease(file.man)
       /\ Update!VersionGt(file.man.version, run[Crond].current)
  /\ run[Crond].at = "apply" => Update!Verified(file.man, file.bin)

(* The fields of a manifest. *)
LEMMA ManifestParts ==
  ASSUME NEW i, NEW s
  PROVE  LET m == Update!Manifest(i, s)
         IN m.version = Versions[i] /\ m.digest = i /\ m.signed = s
  BY DEF Update!Manifest

(* A manifest of a release is not the absence of one. *)
LEMMA ManifestIsThere == ASSUME NEW m, OfRelease(m) PROVE m # Update!NoManifest
<1>1. PICK i \in DOMAIN Versions, s \in BOOLEAN : m = Update!Manifest(i, s)
  BY DEF OfRelease
<1>2. m.digest \in Nat
  BY <1>1, ManifestParts, MaintenanceAssumption
<1>3. Update!NoManifest.digest = -1
  BY DEF Update!NoManifest, Update!Cut
<1> QED BY <1>2, <1>3

(* The slot holds the release the device was delivered with. *)
LEMMA UpdateInit == Update!Init => UpdateInv
<1> SUFFICES ASSUME Update!Init PROVE UpdateInv
  OBVIOUS
<1>1. 0 \in DOMAIN Versions
  BY MaintenanceAssumption
<1>2. server = [man |-> Update!Manifest(0, TRUE), bin |-> 0]
  BY DEF Update!Init, Update!Factory
<1>3. file = [man |-> Update!NoManifest, bin |-> -1] /\ slot = Update!NoFiles
  BY DEF Update!Init, Update!NoFiles, Update!Cut
<1>4. run = [u \in {Crond} |-> [at |-> "idle", man |-> Update!NoManifest, current |-> <<>>]]
  BY DEF Update!Init, Update!Idle
<1>5. OfRelease(server.man)
  BY <1>1, <1>2 DEF OfRelease
<1> QED BY <1>2, <1>3, <1>4, <1>5 DEF UpdateInv, SlotInv

(* The record of the updater after it went to a step.                      *)
LEMMA Moved ==
  ASSUME UpdateInv, NEW a, Update!Goto(Crond, a)
  PROVE  run' = [u \in {Crond} |-> [at |-> a, man |-> run[Crond].man, current |-> run[Crond].current]]
<1>1. /\ DOMAIN run = {Crond}
      /\ run[Crond] = [at |-> run[Crond].at, man |-> run[Crond].man, current |-> run[Crond].current]
  BY DEF UpdateInv
<1>2. [run[Crond] EXCEPT !.at = a] = [at |-> a, man |-> run[Crond].man, current |-> run[Crond].current]
  BY <1>1
<1>3. run' = [run EXCEPT ![Crond] = [run[Crond] EXCEPT !.at = a]]
  BY DEF Update!Goto
<1> QED BY <1>1, <1>2, <1>3

(* A process that returns, or a reboot, leaves the updater idle. *)
LEMMA Returned ==
  ASSUME UpdateInv, Update!Return(Crond) \/ run' = [v \in {Crond} |-> Update!Idle]
  PROVE  run' = [u \in {Crond} |-> [at |-> "idle", man |-> Update!NoManifest, current |-> <<>>]]
  BY DEF UpdateInv, Update!Return, Update!Idle

(* A step that leaves what the updater relies on.                          *)
LEMMA StaysUpdated ==
  ASSUME UpdateInv, NEW a, NEW m, NEW c,
         run' = [u \in {Crond} |-> [at |-> a, man |-> m, current |-> c]],
         a \notin {"bin", "bin-arriving", "verify", "apply"},
         server' = server, slot' = slot,
         file' = [man |-> file'.man, bin |-> file'.bin],
         file'.man = Update!NoManifest \/ OfRelease(file'.man)
  PROVE  UpdateInv'
<1>1. OfRelease(server'.man) /\ SlotInv'
  BY DEF UpdateInv, SlotInv
<1>2. OfRelease(server.man)' /\ (file.man = Update!NoManifest \/ OfRelease(file.man))'
  BY <1>1 DEF OfRelease
<1> QED BY <1>1, <1>2 DEF UpdateInv

(* What the server publishes does not touch the device. *)
LEMMA PublishUpdates ==
  ASSUME UpdateInv, Update!Publish
  PROVE  UpdateInv'
<1>1. PICK i \in Update!Release : 
        \/ server' = [server EXCEPT !.bin = i]
        \/ \E s \in BOOLEAN : server' = [server EXCEPT !.man = Update!Manifest(i, s)]
  BY DEF Update!Publish
<1>2. i \in DOMAIN Versions
  BY <1>1 DEF Update!Release
<1>3. server' = [man |-> server'.man, bin |-> server'.bin] /\ OfRelease(server'.man)
  <2>1. CASE server' = [server EXCEPT !.bin = i]
    BY <2>1 DEF UpdateInv
  <2>2. CASE \E s \in BOOLEAN : server' = [server EXCEPT !.man = Update!Manifest(i, s)]
    <3>1. PICK s \in BOOLEAN : server' = [server EXCEPT !.man = Update!Manifest(i, s)]
      BY <2>2
    <3>2. server' = [man |-> Update!Manifest(i, s), bin |-> server.bin]
      BY <3>1 DEF UpdateInv
    <3> QED BY <1>2, <3>2 DEF OfRelease
  <2> QED BY <1>1, <2>1, <2>2
<1>4. OfRelease(server.man)'
  BY <1>3 DEF OfRelease
<1>5. file' = file /\ slot' = slot /\ run' = run
  BY DEF Update!Publish
<1>6. SlotInv'
  BY <1>5 DEF UpdateInv, SlotInv
<1> QED BY <1>3, <1>4, <1>5, <1>6 DEF UpdateInv, OfRelease, Update!Verified

(* A download that starts cuts its file to nothing. *)
LEMMA OpenUpdates ==
  ASSUME UpdateInv, Update!Open(Crond)
  PROVE  UpdateInv'
<1>1. /\ run[Crond].at \in {"man", "bin"} /\ server' = server /\ slot' = slot
  BY DEF Update!Open
<1>2. CASE run[Crond].at = "man"
  <2>1. file' = [man |-> Update!NoManifest, bin |-> file.bin]
    BY <1>2 DEF Update!Open, Update!At, UpdateInv
  <2>2. Update!Goto(Crond, "man-arriving")
    BY <1>2 DEF Update!Open, Update!At
  <2>3. run' = [u \in {Crond} |-> [at |-> "man-arriving", man |-> run[Crond].man, current |-> run[Crond].current]]
    BY <2>2, Moved
  <2> QED BY <1>1, <2>1, <2>3, StaysUpdated
<1>3. CASE run[Crond].at = "bin"
  <2>1. file' = [man |-> file.man, bin |-> Update!Cut]
    BY <1>3 DEF Update!Open, Update!At, UpdateInv
  <2>2. run' = [u \in {Crond} |-> [at |-> "bin-arriving", man |-> run[Crond].man, current |-> run[Crond].current]]
    BY <1>3, Moved DEF Update!Open, Update!At
  <2> QED BY <1>1, <1>3, <2>1, <2>2 DEF UpdateInv, SlotInv, OfRelease
<1> QED BY <1>1, <1>2, <1>3

(* The updater goes on only with a manifest of a later version than the one it took for
   installed. *)
LEMMA DecideUpdates ==
  ASSUME UpdateInv, Update!Decide(Crond)
  PROVE  UpdateInv'
<1>1. server' = server /\ slot' = slot /\ file' = file
  BY DEF Update!Decide
<1>2. PICK current \in Update!CurrentVersion :
        IF file.man # Update!NoManifest /\ Update!VersionGt(file.man.version, current)
        THEN run' = [run EXCEPT ![Crond] = [at |-> "bin", man |-> file.man, current |-> current]]
        ELSE Update!Return(Crond)
  BY DEF Update!Decide
<1>3. CASE file.man # Update!NoManifest /\ Update!VersionGt(file.man.version, current)
  <2>1. run' = [u \in {Crond} |-> [at |-> "bin", man |-> file.man, current |-> current]]
    BY <1>2, <1>3 DEF UpdateInv
  <2>2. OfRelease(file.man)
    BY <1>3 DEF UpdateInv
  <2> QED BY <1>1, <1>3, <2>1, <2>2 DEF UpdateInv, SlotInv, OfRelease
<1>4. CASE ~(file.man # Update!NoManifest /\ Update!VersionGt(file.man.version, current))
  <2>1. Update!Return(Crond)
    BY <1>2, <1>4
  <2>2. file' = [man |-> file'.man, bin |-> file'.bin] /\ (file'.man = Update!NoManifest \/ OfRelease(file'.man))
    BY <1>1 DEF UpdateInv
  <2> QED BY <1>1, <2>1, <2>2, Returned, StaysUpdated
<1> QED BY <1>3, <1>4

(* The binary that arrives is whatever the server offers: nothing is assumed of it before
   it is verified. *)
LEMMA BinaryUpdates ==
  ASSUME UpdateInv, Update!BinaryArrives(Crond)
  PROVE  UpdateInv'
<1>1. server' = server /\ slot' = slot
  BY DEF Update!BinaryArrives
<1>2. file' = [man |-> file.man, bin |-> server.bin]
  BY DEF Update!BinaryArrives, UpdateInv
<1>3. run' = [u \in {Crond} |-> [at |-> "verify", man |-> run[Crond].man, current |-> run[Crond].current]]
  BY Moved DEF Update!BinaryArrives
<1>4. run[Crond].at = "bin-arriving"
  BY DEF Update!BinaryArrives, Update!At
<1> QED BY <1>1, <1>2, <1>3, <1>4 DEF UpdateInv, SlotInv, OfRelease

(* A binary is installed only with the digest the signed manifest names. *)
LEMMA VerifyUpdates ==
  ASSUME UpdateInv, Update!Verify(Crond)
  PROVE  UpdateInv'
<1>1. server' = server /\ slot' = slot /\ file' = file /\ run[Crond].at = "verify"
  BY DEF Update!Verify, Update!At
<1>2. CASE Update!Verified(run[Crond].man, file.bin)
  <2>1. run' = [u \in {Crond} |-> [at |-> "apply", man |-> run[Crond].man, current |-> run[Crond].current]]
    BY <1>2, Moved DEF Update!Verify
  <2> QED BY <1>1, <1>2, <2>1 DEF UpdateInv, SlotInv, OfRelease, Update!Verified
<1>3. CASE ~Update!Verified(run[Crond].man, file.bin)
  <2>1. Update!Return(Crond)
    BY <1>3 DEF Update!Verify
  <2>2. file' = [man |-> file'.man, bin |-> file'.bin] /\ (file'.man = Update!NoManifest \/ OfRelease(file'.man))
    BY <1>1 DEF UpdateInv
  <2> QED BY <1>1, <2>1, <2>2, Returned, StaysUpdated
<1> QED BY <1>2, <1>3

(* What the helper installs: a release newer than the one the updater took *)
(* for installed.                                                          *)
LEMMA Installed ==
  ASSUME UpdateInv, Update!Apply(Crond)
  PROVE  \E i \in DOMAIN Versions :
           /\ slot' = [man |-> Update!Manifest(i, TRUE), bin |-> i]
           /\ Update!VersionGt(Versions[i], run[Crond].current)
<1>1. run[Crond].at = "apply" /\ slot' = file
  BY DEF Update!Apply, Update!At
<1>2. PICK i \in DOMAIN Versions, s \in BOOLEAN : file.man = Update!Manifest(i, s)
  BY <1>1 DEF UpdateInv, OfRelease
<1>3. file.man.digest = file.bin /\ file.man.signed
  BY <1>1 DEF UpdateInv, Update!Verified
<1>4. file.bin = i /\ s = TRUE /\ file.man.version = Versions[i]
  BY <1>2, <1>3, ManifestParts
<1>5. file = [man |-> Update!Manifest(i, TRUE), bin |-> i]
  BY <1>2, <1>4 DEF UpdateInv
<1>6. Update!VersionGt(file.man.version, run[Crond].current)
  BY <1>1 DEF UpdateInv
<1> QED BY <1>1, <1>4, <1>5, <1>6

(* Every step of the updater or of the server preserves the invariant. *)
LEMMA UpdateStep ==
  ASSUME UpdateInv, Update!Next
  PROVE  UpdateInv'
<1>1. CASE Update!Publish
  BY <1>1, PublishUpdates
<1>2. CASE Update!Start(Crond)
  <2>1. server' = server /\ slot' = slot /\ file' = file
    BY <1>2 DEF Update!Start
  <2>2. Update!Goto(Crond, "man")
    BY <1>2 DEF Update!Start
  <2>3. run' = [u \in {Crond} |-> [at |-> "man", man |-> run[Crond].man, current |-> run[Crond].current]]
    BY <2>2, Moved
  <2>4. file' = [man |-> file'.man, bin |-> file'.bin] /\ (file'.man = Update!NoManifest \/ OfRelease(file'.man))
    BY <2>1 DEF UpdateInv
  <2> QED BY <2>1, <2>3, <2>4, StaysUpdated
<1>3. CASE Update!Open(Crond)
  BY <1>3, OpenUpdates
<1>4. CASE Update!ManifestArrives(Crond)
  <2>1. server' = server /\ slot' = slot
    BY <1>4 DEF Update!ManifestArrives
  <2>2. file' = [man |-> server.man, bin |-> file.bin]
    BY <1>4 DEF Update!ManifestArrives, UpdateInv
  <2>3. run' = [u \in {Crond} |-> [at |-> "decide", man |-> run[Crond].man, current |-> run[Crond].current]]
    BY <1>4, Moved DEF Update!ManifestArrives
  <2>4. OfRelease(file'.man) /\ file' = [man |-> file'.man, bin |-> file'.bin]
    BY <2>2 DEF UpdateInv
  <2> QED BY <2>1, <2>3, <2>4, StaysUpdated
<1>5. CASE Update!BinaryArrives(Crond)
  BY <1>5, BinaryUpdates
<1>6. CASE Update!DownloadFails(Crond) \/ Update!ApplyFails(Crond)
  <2>1. server' = server /\ slot' = slot /\ file' = file
    BY <1>6 DEF Update!DownloadFails, Update!ApplyFails
  <2>2. Update!Return(Crond)
    BY <1>6 DEF Update!DownloadFails, Update!ApplyFails
  <2>3. file' = [man |-> file'.man, bin |-> file'.bin] /\ (file'.man = Update!NoManifest \/ OfRelease(file'.man))
    BY <2>1 DEF UpdateInv
  <2> QED BY <2>1, <2>2, <2>3, Returned, StaysUpdated
<1>7. CASE Update!Decide(Crond)
  BY <1>7, DecideUpdates
<1>8. CASE Update!Verify(Crond)
  BY <1>8, VerifyUpdates
<1>9. CASE Update!Apply(Crond)
  <2>1. PICK i \in DOMAIN Versions : slot' = [man |-> Update!Manifest(i, TRUE), bin |-> i]
    BY <1>9, Installed
  <2>2. server' = server /\ file' = [man |-> Update!NoManifest, bin |-> Update!Cut]
    BY <1>9 DEF Update!Apply, Update!NoFiles
  <2>3. run' = [u \in {Crond} |-> [at |-> "idle", man |-> Update!NoManifest, current |-> <<>>]]
    BY <1>9 DEF Update!Apply, Update!Idle
  <2> QED BY <2>1, <2>2, <2>3 DEF UpdateInv, SlotInv, OfRelease
<1>10. CASE Update!Reboot
  <2>1. server' = server /\ slot' = slot /\ file' = [man |-> Update!NoManifest, bin |-> Update!Cut]
    BY <1>10 DEF Update!Reboot, Update!NoFiles
  <2>2. run' = [v \in {Crond} |-> Update!Idle]
    BY <1>10 DEF Update!Reboot
  <2> QED BY <2>1, <2>2, Returned, StaysUpdated
<1> QED
  BY <1>1, <1>2, <1>3, <1>4, <1>5, <1>6, <1>7, <1>8, <1>9, <1>10
     DEF Update!Next, Update!Advance

(* So does every step of the run. *)
LEMMA UpdateMCStep == UpdateInv /\ [MCNext]_mcVars => UpdateInv'
<1> SUFFICES ASSUME UpdateInv, [MCNext]_mcVars PROVE UpdateInv'
  OBVIOUS
<1>1. CASE Update!Next
  BY <1>1, UpdateStep
<1>2. CASE UNCHANGED updateVars
  BY <1>2 DEF updateVars, UpdateInv, SlotInv, OfRelease, Update!Verified
<1> QED BY <1>1, <1>2 DEF MCNext, mcVars

(* Whatever files the server mixes and whenever the power fails, the slot  *)
(* is empty or holds a manifest signed by the publisher with its binary    *)
(* (verify_manifest).                                                      *)
THEOREM SlotAlwaysVerified == MCSpec => []SlotVerified
<1>1. MCInit => UpdateInv
  BY UpdateInit DEF MCInit
<1>2. UpdateInv => SlotVerified
  <2> SUFFICES ASSUME NEW i \in DOMAIN Versions,
                      slot = [man |-> Update!Manifest(i, TRUE), bin |-> i]
               PROVE  slot.man.signed /\ slot.man.digest = slot.bin
    BY DEF UpdateInv, SlotInv, SlotVerified, Update!SlotVerified
  <2> QED BY ManifestParts
<1> QED BY <1>1, <1>2, UpdateMCStep, PTL DEF MCSpec

(* The release that runs is replaced by an earlier one only by an updater  *)
(* that took another version for the one installed, for want of reading    *)
(* its manifest (current_version), if the publisher gives a later release  *)
(* a version that version_gt ranks above: stated as, what it ranks above   *)
(* is later.                                                               *)
THEOREM ReleasesNeverGoBack ==
  ASSUME \A i \in DOMAIN Versions : Versions[i] \in Seq(Int),
         \A i, j \in DOMAIN Versions : Update!VersionGt(Versions[i], Versions[j]) => i > j
  PROVE  MCSpec => NeverDowngrade
<1> DEFINE Factory == 0
<1>0. Factory \in DOMAIN Versions /\ DOMAIN Versions \subseteq Nat
  BY MaintenanceAssumption
<1>1. MCInit => UpdateInv
  BY UpdateInit DEF MCInit
<1>2. ASSUME UpdateInv, NEW i \in DOMAIN Versions,
             slot = [man |-> Update!Manifest(i, TRUE), bin |-> i]
      PROVE  IF Update!VersionGt(Versions[i], Versions[Factory])
             THEN Update!Current = Versions[i] /\ Update!Running = i
             ELSE Update!Current = Versions[Factory] /\ Update!Running = Factory
  <2>1. OfRelease(slot.man)
    BY <1>2 DEF OfRelease
  <2>2. slot.man # Update!NoManifest /\ slot.man.version = Versions[i] /\ Update!Verified(slot.man, slot.bin)
    BY <1>2, <2>1, ManifestIsThere, ManifestParts DEF Update!Verified
  <2>3. slot.bin = i
    BY <1>2
  <2> QED BY <2>2, <2>3 DEF Update!Current, Update!Higher, Update!Running, Update!Factory
<1>3. ASSUME slot = Update!NoFiles
      PROVE  Update!Current = Versions[Factory] /\ Update!Running = Factory
  <2>1. slot.man = Update!NoManifest /\ ~slot.man.signed
    BY <1>3 DEF Update!NoFiles, Update!NoManifest
  <2> QED BY <2>1 DEF Update!Current, Update!Higher, Update!Running, Update!Factory, Update!Verified
<1>4. ASSUME UpdateInv
      PROVE  \/ slot = Update!NoFiles
             \/ \E i \in DOMAIN Versions : slot = [man |-> Update!Manifest(i, TRUE), bin |-> i]
  BY <1>4 DEF UpdateInv, SlotInv
<1>5. ASSUME UpdateInv
      PROVE  \/ Update!Running = Factory /\ Update!Current = Versions[Factory]
             \/ \E i \in DOMAIN Versions :
                  /\ Update!Running = i /\ Update!Current = Versions[i]
                  /\ Update!VersionGt(Versions[i], Versions[Factory])
  BY <1>2, <1>3, <1>4, <1>5
<1>6. ASSUME UpdateInv, Update!Apply(Crond), run[Crond].current = Update!Current
      PROVE  Update!Running' >= Update!Running
  <2>1. PICK k \in DOMAIN Versions :
          /\ slot' = [man |-> Update!Manifest(k, TRUE), bin |-> k]
          /\ Update!VersionGt(Versions[k], Update!Current)
    BY <1>6, Installed
  <2>2. Update!VersionGt(Versions[k], Versions[Factory])
    <3>1. CASE \E i \in DOMAIN Versions :
                 /\ Update!Current = Versions[i]
                 /\ Update!VersionGt(Versions[i], Versions[Factory])
      BY <1>0, <2>1, <3>1, VersionsAreRanked
    <3> QED BY <1>5, <1>6, <2>1, <3>1
  <2>3. Update!Running' = k
    <3>1. slot'.bin = k /\ slot'.man.version = Versions[k] /\ Update!Verified(slot'.man, slot'.bin)
      BY <2>1, ManifestParts DEF Update!Verified
    <3> QED BY <2>2, <3>1 DEF Update!Running, Update!Factory, Update!Verified
  <2>4. PICK i \in DOMAIN Versions : Update!Running = i /\ Update!Current = Versions[i]
    BY <1>0, <1>5, <1>6
  <2>5. k > i
    BY <2>1, <2>4
  <2>6. k \in Nat /\ i \in Nat
    BY <1>0
  <2> QED BY <2>3, <2>4, <2>5, <2>6
<1>7. ASSUME UpdateInv, slot' = slot
       PROVE  Update!Running' >= Update!Running
  <2>1. Update!Running' = Update!Running
    BY <1>7 DEF Update!Running, Update!Verified
  <2>2. Update!Running \in Nat
    BY <1>0, <1>5, <1>7
  <2> QED BY <2>1, <2>2
<1>8. ASSUME UpdateInv, [MCNext]_mcVars, ~(Update!Running' >= Update!Running)
      PROVE  run[Crond].current # Update!Current
  <2>2. slot' # slot
    BY <1>7, <1>8
  <2>3. Update!Next
    BY <1>8, <2>2 DEF MCNext, mcVars, updateVars
  <2>4. Update!Apply(Crond)
    BY <2>2, <2>3 DEF Update!Next, Update!Advance, Update!Publish, Update!Start, Update!Open,
                      Update!ManifestArrives, Update!BinaryArrives, Update!DownloadFails,
                      Update!ApplyFails, Update!Decide, Update!Verify, Update!Reboot
  <2> QED BY <1>6, <1>8, <2>4
<1>9. UpdateInv => Update!Running \in Nat
  BY <1>0, <1>5
<1>10. UpdateInv /\ Update!Running \in Nat /\ (Update!Running \in Nat)' /\ [MCNext]_mcVars =>
        [Update!Running' < Update!Running => \E u \in {Crond} : run[u].current # Update!Current]_(Update!vars)
  <2> SUFFICES ASSUME UpdateInv, Update!Running \in Nat, Update!Running' \in Nat,
                      [MCNext]_mcVars, Update!Running' < Update!Running
               PROVE  run[Crond].current # Update!Current
    OBVIOUS
  <2>1. ~(Update!Running' >= Update!Running)
    OBVIOUS
  <2> QED BY <1>8, <2>1
<1> QED BY <1>1, <1>9, <1>10, UpdateMCStep, PTL DEF MCSpec, NeverDowngrade, Update!NeverDowngrade

-------------------------------------------------------------------------------
(* Where a handler may be, and where it holds tiles_lock, has its window   *)
(* open or has yet to close it.                                            *)
Holding == {"opening", "fetching", "writing", "purging", "closing", "releasing"}
Windowed == {"fetching", "writing", "purging"}
Handling == {"idle", "waiting"} \cup Holding
Call == [at : Handling, place : Places \cup {NoOne}, seen : 0..Grid, got : Int, open : BOOLEAN]

TileTypes ==
  /\ place \in Places \cup {NoOne}
  /\ mount \in {"ro", "rw"} /\ stuck \in BOOLEAN /\ commit \in {"idle", "copying"}
  /\ call \in [Requests -> Call]
  /\ tile \in [Places -> [1..Grid -> {"none", "cut", "whole", "spoilt"}]]
  /\ orphan \subseteq Places \X (1..Grid)

(* The lock is held by the handler that is past it, if any.                *)
LockHeld == \A r \in Requests : call[r].at \in Holding <=> holder = r

(* A handler that downloads has a place, and a tile to go on with.         *)
Placed ==
  \A r \in Requests :
    /\ call[r].at \in {"fetching", "writing"} => call[r].place \in Places
    /\ call[r].at = "writing" => call[r].seen < Grid

(* A partition left writable is being used, or the remount failed.         *)
WindowOpen ==
  mount = "rw" /\ ~stuck =>
    commit = "copying" \/ \E r \in Requests : call[r].at \in Windowed \cup {"closing"}

(* Without the store, a window that opened stays open.                     *)
WindowKept == explored # "shared tiles" => commit = "idle" /\ Tiles!WriterHasWindow

TileInv == TileTypes /\ LockHeld /\ Placed /\ WindowOpen /\ Tiles!NoCutTile /\ WindowKept

(* What a step of one handler does to the records of all.                  *)
LEMMA CallStep ==
  ASSUME NEW r \in Requests, NEW c \in Call, call \in [Requests -> Call],
         call' = [call EXCEPT ![r] = c]
  PROVE  /\ call' \in [Requests -> Call]
         /\ call'[r] = c
         /\ \A q \in Requests \ {r} : call'[q] = call[q]
  OBVIOUS

(* A handler that goes to its next step keeps everything else it knows. *)
LEMMA CallMoves ==
  ASSUME NEW r \in Requests, call \in [Requests -> Call], NEW a \in Handling, Tiles!Goto(r, a)
  PROVE  LET c == [at |-> a, place |-> call[r].place, seen |-> call[r].seen,
                   got |-> call[r].got, open |-> call[r].open]
         IN c \in Call /\ call' = [call EXCEPT ![r] = c]
<1> DEFINE c == [at |-> a, place |-> call[r].place, seen |-> call[r].seen,
                 got |-> call[r].got, open |-> call[r].open]
<1>1. call[r] \in Call
  OBVIOUS
<1>2. [call[r] EXCEPT !.at = a] = c /\ c \in Call
  BY <1>1 DEF Call
<1>3. call' = [call EXCEPT ![r] = [call[r] EXCEPT !.at = a]]
  BY DEF Tiles!Goto
<1> QED BY <1>2, <1>3

(* A handler that has ended is an idle one. *)
LEMMA DoneIsCall == Tiles!Done \in Call /\ Tiles!Done.at = "idle"
  BY MaintenanceAssumption DEF Tiles!Done, Call, Handling

(* No handler has started and the partition is read-only. *)
LEMMA TileInit == Tiles!Init => TileInv
<1> SUFFICES ASSUME Tiles!Init PROVE TileInv
  OBVIOUS
<1>1. Grid \in Nat /\ NoOne \notin Requests
  BY MaintenanceAssumption
<1>2. Tiles!Done \in Call /\ Tiles!Done.at = "idle"
  BY DoneIsCall
<1>3. \A r \in Requests : call[r] = Tiles!Done
  BY DEF Tiles!Init
<1>4. TileTypes
  BY <1>2 DEF Tiles!Init, TileTypes, Tiles!NoTiles
<1>5. Tiles!NoCutTile
  BY DEF Tiles!Init, Tiles!NoTiles, Tiles!NoCutTile
<1>6. LockHeld /\ Placed
  BY <1>1, <1>2, <1>3 DEF Tiles!Init, LockHeld, Placed, Holding
<1>7. WindowOpen /\ WindowKept
  BY <1>2, <1>3 DEF Tiles!Init, WindowOpen, WindowKept, Tiles!WriterHasWindow
<1> QED BY <1>4, <1>5, <1>6, <1>7 DEF TileInv

(* A step that leaves the files and the partition alone, of a handler that *)
(* is not, and will not be, inside its window.                             *)
LEMMA OutsideWindow ==
  ASSUME TileInv, NEW r \in Requests, NEW c \in Call,
         call' = [call EXCEPT ![r] = c],
         UNCHANGED <<explored, mount, stuck, commit, tile, orphan>>,
         place' \in Places \cup {NoOne},
         call[r].at \in {"idle", "waiting", "releasing"},
         c.at \in {"idle", "waiting", "opening"},
         holder' = (IF c.at = "opening" THEN r ELSE IF call[r].at = "releasing" THEN NoOne ELSE holder),
         c.at = "opening" => holder = NoOne
  PROVE  TileInv'
<1>1. /\ call \in [Requests -> Call] /\ NoOne \notin Requests
      /\ \A q \in Requests : call[q] \in Call
  BY MaintenanceAssumption DEF TileInv, TileTypes
<1>2. /\ call' \in [Requests -> Call] /\ call'[r] = c
      /\ \A q \in Requests \ {r} : call'[q] = call[q]
  BY <1>1, CallStep
<1>3. TileTypes'
  BY <1>2 DEF TileInv, TileTypes
<1>4. LockHeld'
  BY <1>1, <1>2 DEF TileInv, LockHeld, Holding
<1>5. Placed' /\ WindowOpen'
  BY <1>2 DEF TileInv, Placed, WindowOpen, Windowed
<1>6. Tiles!NoCutTile'
  BY <1>2 DEF TileInv, Tiles!NoCutTile, Tiles!At, Tiles!Upcoming
<1>7. WindowKept'
  BY <1>2 DEF TileInv, WindowKept, Tiles!WriterHasWindow
<1> QED BY <1>3, <1>4, <1>5, <1>6, <1>7 DEF TileInv

(* A step of the handler inside its window, for what it does to the lock,  *)
(* the window and the handlers.                                            *)
LEMMA InsideWindow ==
  ASSUME TileInv, NEW r \in Requests, NEW c \in Call,
         call' = [call EXCEPT ![r] = c],
         UNCHANGED <<explored, place, stuck, commit, holder>>,
         mount' \in {mount, "rw"},
         call[r].at \in Windowed \cup {"opening"},
         c.at \in Windowed \cup {"closing"},
         c.at \in {"fetching", "writing"} => c.place \in Places,
         c.at = "writing" => c.seen < Grid,
         c.open /\ c.at \in Windowed => mount' = "rw" \/ (call[r].open /\ call[r].at \in Windowed)
  PROVE  LockHeld' /\ Placed' /\ WindowOpen' /\ WindowKept'
<1>1. /\ call \in [Requests -> Call]
      /\ \A q \in Requests : call[q] \in Call
  BY DEF TileInv, TileTypes
<1>2. /\ call' \in [Requests -> Call] /\ call'[r] = c
      /\ \A q \in Requests \ {r} : call'[q] = call[q]
  BY <1>1, CallStep
<1>3. LockHeld'
  BY <1>1, <1>2 DEF TileInv, LockHeld, Holding, Windowed
<1>4. Placed'
  BY <1>2 DEF TileInv, Placed
<1>5. WindowOpen'
  BY <1>2 DEF WindowOpen
<1>6. WindowKept'
  <2> SUFFICES ASSUME explored # "shared tiles"
               PROVE  commit' = "idle" /\ Tiles!WriterHasWindow'
    BY DEF WindowKept
  <2>1. commit = "idle" /\ Tiles!WriterHasWindow
    BY DEF TileInv, WindowKept
  <2>2. ASSUME NEW q \in Requests, call'[q].open, call'[q].at \in {"fetching", "writing", "purging"}
        PROVE  mount' = "rw"
    BY <1>2, <2>1, <2>2 DEF Tiles!WriterHasWindow, Windowed
  <2> QED BY <2>1, <2>2 DEF Tiles!WriterHasWindow
<1> QED BY <1>3, <1>4, <1>5, <1>6

(* The tiles, when the handler writes its next one, or none.               *)
LEMMA PutTypes ==
  ASSUME TileTypes, NEW p \in Places, NEW i \in 1..Grid,
         NEW t \in {"none", "cut", "whole", "spoilt"}, Tiles!Put(p, i, t)
  PROVE  /\ tile' \in [Places -> [1..Grid -> {"none", "cut", "whole", "spoilt"}]]
         /\ tile'[p][i] = t
         /\ \A q \in Places, k \in 1..Grid : <<q, k>> # <<p, i>> => tile'[q][k] = tile[q][k]
<1>1. tile \in [Places -> [1..Grid -> {"none", "cut", "whole", "spoilt"}]]
  BY DEF TileTypes
<1>2. tile' = [tile EXCEPT ![p] = [tile[p] EXCEPT ![i] = t]]
  BY DEF Tiles!Put
<1>3. [tile[p] EXCEPT ![i] = t] \in [1..Grid -> {"none", "cut", "whole", "spoilt"}]
  BY <1>1
<1> QED BY <1>1, <1>2, <1>3

(* The window opens for the handler that holds the lock. *)
LEMMA OpenTiles ==
  ASSUME TileInv, UNCHANGED explored, NEW r \in Requests, Tiles!OpenWindow(r)
  PROVE  TileInv'
<1>1. /\ call \in [Requests -> Call] /\ call[r] \in Call /\ call[r].at = "opening"
      /\ UNCHANGED <<place, online, commit, stuck, holder, tile, orphan, meta>>
  BY DEF TileInv, TileTypes, Tiles!OpenWindow, Tiles!At, Tiles!world, Tiles!files
<1>2. PICK opens \in BOOLEAN :
        /\ mount' = IF opens THEN "rw" ELSE mount
        /\ call' = [call EXCEPT ![r] = [call[r] EXCEPT !.open = opens,
                                 !.at = IF call[r].place = NoOne THEN "purging" ELSE "fetching"]]
  BY <1>1 DEF Tiles!OpenWindow, Call
<1> DEFINE c == [call[r] EXCEPT !.open = opens,
                 !.at = IF call[r].place = NoOne THEN "purging" ELSE "fetching"]
<1>3. /\ c \in Call /\ c.at \in {"purging", "fetching"} /\ c.open = opens
      /\ c.at = "fetching" => c.place \in Places
  BY <1>1 DEF Call, Handling, Holding
<1>4. call' = [call EXCEPT ![r] = c]
  BY <1>2
<1> HIDE DEF c
<1>5. /\ call' \in [Requests -> Call] /\ call'[r] = c
      /\ \A q \in Requests \ {r} : call'[q] = call[q]
  BY <1>1, <1>3, <1>4, CallStep
<1>6. mount' \in {mount, "rw"} /\ (c.open => mount' = "rw")
  BY <1>2, <1>3
<1>7. LockHeld' /\ Placed' /\ WindowOpen' /\ WindowKept'
  BY <1>1, <1>3, <1>4, <1>6, InsideWindow DEF Windowed
<1>8. TileTypes'
  BY <1>1, <1>5, <1>6 DEF TileInv, TileTypes
<1>9. Tiles!NoCutTile'
  BY <1>1, <1>3, <1>5 DEF TileInv, Tiles!NoCutTile, Tiles!At, Tiles!Upcoming
<1> QED BY <1>7, <1>8, <1>9 DEF TileInv

(* curl is started for the next tile. *)
LEMMA FetchStartTiles ==
  ASSUME TileInv, UNCHANGED explored, NEW r \in Requests, Tiles!FetchStart(r)
  PROVE  TileInv'
<1>1. /\ call \in [Requests -> Call] /\ call[r] \in Call /\ call[r].at = "fetching"
      /\ call[r].seen < Grid /\ Grid \in Nat /\ call[r].place \in Places /\ TileTypes
      /\ UNCHANGED <<place, online, commit, mount, stuck, holder, orphan, meta>>
  BY MaintenanceAssumption DEF TileInv, TileTypes, Placed, Tiles!FetchStart, Tiles!At, Tiles!world
<1>2. CASE mount = "rw"
  <2> DEFINE c == [at |-> "writing", place |-> call[r].place, seen |-> call[r].seen,
                   got |-> call[r].got, open |-> call[r].open]
  <2>1. c \in Call /\ call' = [call EXCEPT ![r] = c]
    BY <1>1, <1>2, CallMoves DEF Tiles!FetchStart, Handling, Holding
  <2>2. c.at = "writing" /\ c.place = call[r].place /\ c.seen = call[r].seen /\ c.open = call[r].open
    OBVIOUS
  <2> HIDE DEF c
  <2>3. LockHeld' /\ Placed' /\ WindowOpen' /\ WindowKept'
    BY <1>1, <1>2, <2>1, <2>2, InsideWindow DEF Windowed
  <2>4. /\ call' \in [Requests -> Call] /\ call'[r] = c
        /\ \A q \in Requests \ {r} : call'[q] = call[q]
    BY <1>1, <2>1, CallStep
  <2> DEFINE p == call[r].place
             i == call[r].seen + 1
  <2>5. p \in Places /\ i \in 1..Grid /\ Tiles!Put(p, i, "cut")
    BY <1>1, <1>2 DEF Tiles!FetchStart, Tiles!Upcoming, Call
  <2> HIDE DEF p, i
  <2>6. /\ tile' \in [Places -> [1..Grid -> {"none", "cut", "whole", "spoilt"}]]
        /\ \A q \in Places, k \in 1..Grid : <<q, k>> # <<p, i>> => tile'[q][k] = tile[q][k]
    BY <1>1, <2>5, PutTypes
  <2>7. TileTypes'
    BY <1>1, <2>4, <2>6 DEF TileTypes
  <2>8. Tiles!NoCutTile'
    <3> SUFFICES ASSUME NEW q \in Places, NEW k \in 1..Grid, tile'[q][k] = "cut", <<q, k>> \notin orphan
                 PROVE  \E s \in Requests : call'[s].at = "writing" /\ call'[s].place = q /\ call'[s].seen + 1 = k
      BY <1>1 DEF Tiles!NoCutTile, Tiles!At, Tiles!Upcoming
    <3>1. CASE <<q, k>> = <<p, i>>
      BY <2>2, <2>4, <3>1 DEF p, i
    <3>2. CASE <<q, k>> # <<p, i>>
      <4>1. PICK s \in Requests : call[s].at = "writing" /\ call[s].place = q /\ call[s].seen + 1 = k
        BY <2>6, <3>2 DEF TileInv, Tiles!NoCutTile, Tiles!At, Tiles!Upcoming
      <4>2. s # r
        BY <1>1, <4>1
      <4> QED BY <2>4, <4>1, <4>2
    <3> QED BY <3>1, <3>2
  <2> QED BY <2>3, <2>7, <2>8 DEF TileInv
<1>3. CASE mount # "rw"
  <2>1. tile' = tile
    BY <1>3 DEF Tiles!FetchStart
  <2>2. PICK c \in Call : /\ call' = [call EXCEPT ![r] = c] /\ c.open = call[r].open
                          /\ c.at \in {"closing", "fetching"} /\ c.place = call[r].place
    <3>1. CASE Tiles!Goto(r, "closing")
      BY <1>1, <3>1, CallMoves DEF Handling, Holding
    <3>2. CASE call' = [call EXCEPT ![r].seen = @ + 1]
      <4>1. [call[r] EXCEPT !.seen = call[r].seen + 1] \in Call
        BY <1>1 DEF Call
      <4>2. call' = [call EXCEPT ![r] = [call[r] EXCEPT !.seen = call[r].seen + 1]]
        BY <3>2
      <4>3. /\ [call[r] EXCEPT !.seen = call[r].seen + 1].open = call[r].open
            /\ [call[r] EXCEPT !.seen = call[r].seen + 1].at = "fetching"
            /\ [call[r] EXCEPT !.seen = call[r].seen + 1].place = call[r].place
        BY <1>1 DEF Call
      <4> QED BY <4>1, <4>2, <4>3
    <3> QED BY <1>3, <3>1, <3>2 DEF Tiles!FetchStart
  <2>3. LockHeld' /\ Placed' /\ WindowOpen' /\ WindowKept'
    BY <1>1, <2>2, InsideWindow DEF Windowed
  <2>4. /\ call' \in [Requests -> Call] /\ call'[r] = c
        /\ \A q \in Requests \ {r} : call'[q] = call[q]
    BY <1>1, <2>2, CallStep
  <2>5. TileTypes'
    BY <1>1, <2>1, <2>4 DEF TileTypes
  <2>6. Tiles!NoCutTile'
    BY <1>1, <2>1, <2>4 DEF TileInv, Tiles!NoCutTile, Tiles!At, Tiles!Upcoming
  <2> QED BY <2>3, <2>5, <2>6 DEF TileInv
<1> QED BY <1>2, <1>3

(* A record with the fields of a handler, each in its set.                 *)
LEMMA FieldsOfCall ==
  ASSUME NEW d, d = [f \in {"at", "place", "seen", "got", "open"} |-> d[f]],
         d.at \in Handling, d.place \in Places \cup {NoOne}, d.seen \in 0..Grid,
         d.got \in Int, d.open \in BOOLEAN
  PROVE  d \in Call
<1>1. d = [at |-> d.at, place |-> d.place, seen |-> d.seen, got |-> d.got, open |-> d.open]
  OBVIOUS
<1> QED BY <1>1 DEF Call

(* curl ends, with the tile or without it. *)
LEMMA FetchEndTiles ==
  ASSUME TileInv, UNCHANGED explored, NEW r \in Requests, Tiles!FetchEnd(r)
  PROVE  TileInv'
<1>1. /\ call \in [Requests -> Call] /\ call[r] \in Call /\ call[r].at = "writing"
      /\ call[r].seen < Grid /\ Grid \in Nat /\ call[r].place \in Places /\ TileTypes
      /\ UNCHANGED <<place, online, commit, mount, stuck, holder, orphan, meta>>
  BY MaintenanceAssumption DEF TileInv, TileTypes, Placed, Tiles!FetchEnd, Tiles!At, Tiles!world
<1> DEFINE p == call[r].place
           i == call[r].seen + 1
<1>2. p \in Places /\ i \in 1..Grid /\ i = Tiles!Upcoming(r)
  BY <1>1 DEF Tiles!Upcoming, Call
<1>3. PICK c : /\ c \in Call /\ call' = [call EXCEPT ![r] = c] /\ c.open = call[r].open
               /\ c.at = "fetching" /\ c.place = call[r].place
  <2>1. CASE Tiles!Got(r)
    <3> DEFINE d == [call[r] EXCEPT !.at = "fetching", !.seen = call[r].seen + 1,
                                    !.got = call[r].got + 1]
    <3>1. d \in Call /\ d.open = call[r].open /\ d.at = "fetching" /\ d.place = call[r].place
      <4> DEFINE s == call[r].seen + 1
                 g == call[r].got + 1
      <4>1. s \in 0..Grid /\ g \in Int
        BY <1>1 DEF Call
      <4>2. DOMAIN call[r] = {"at", "place", "seen", "got", "open"}
        BY <1>1 DEF Call
      <4> HIDE DEF s, g
      <4>3. /\ d = [f \in {"at", "place", "seen", "got", "open"} |-> d[f]]
            /\ d.at = "fetching" /\ d.place = call[r].place /\ d.seen = s /\ d.open = call[r].open
            /\ d.got \in {call[r].got, g}
        BY <4>2 DEF s, g
      <4>4. call[r].place \in Places \cup {NoOne} /\ call[r].open \in BOOLEAN /\ call[r].got \in Int
        BY <1>1 DEF Call
      <4> HIDE DEF d
      <4>5. d.at \in Handling
        BY <4>3 DEF Handling, Holding
      <4> QED BY <4>1, <4>3, <4>4, <4>5, FieldsOfCall
    <3>2. call' = [call EXCEPT ![r] = d]
      BY <2>1 DEF Tiles!Got
    <3> QED BY <3>1, <3>2
  <2>2. CASE Tiles!Failed(r)
    <3> DEFINE d == [call[r] EXCEPT !.at = "fetching", !.seen = call[r].seen + 1]
    <3>1. d \in Call /\ d.open = call[r].open /\ d.at = "fetching" /\ d.place = call[r].place
      <4> DEFINE s == call[r].seen + 1
                 g == call[r].got + 1
      <4>1. s \in 0..Grid /\ g \in Int
        BY <1>1 DEF Call
      <4>2. DOMAIN call[r] = {"at", "place", "seen", "got", "open"}
        BY <1>1 DEF Call
      <4> HIDE DEF s, g
      <4>3. /\ d = [f \in {"at", "place", "seen", "got", "open"} |-> d[f]]
            /\ d.at = "fetching" /\ d.place = call[r].place /\ d.seen = s /\ d.open = call[r].open
            /\ d.got \in {call[r].got, g}
        BY <4>2 DEF s, g
      <4>4. call[r].place \in Places \cup {NoOne} /\ call[r].open \in BOOLEAN /\ call[r].got \in Int
        BY <1>1 DEF Call
      <4> HIDE DEF d
      <4>5. d.at \in Handling
        BY <4>3 DEF Handling, Holding
      <4> QED BY <4>1, <4>3, <4>4, <4>5, FieldsOfCall
    <3>2. call' = [call EXCEPT ![r] = d]
      BY <2>2 DEF Tiles!Failed
    <3> QED BY <3>1, <3>2
  <2> QED BY <2>1, <2>2 DEF Tiles!FetchEnd
<1>4. PICK t \in {"none", "whole", "spoilt"} : Tiles!Put(p, i, t)
  BY <1>2 DEF Tiles!FetchEnd, Tiles!Got, Tiles!Put
<1>5. LockHeld' /\ Placed' /\ WindowOpen' /\ WindowKept'
  BY <1>1, <1>3, InsideWindow DEF Windowed
<1>6. /\ call' \in [Requests -> Call] /\ call'[r] = c
      /\ \A q \in Requests \ {r} : call'[q] = call[q]
  BY <1>1, <1>3, CallStep
<1> HIDE DEF p, i
<1>8. /\ tile' \in [Places -> [1..Grid -> {"none", "cut", "whole", "spoilt"}]]
      /\ tile'[p][i] # "cut"
      /\ \A q \in Places, k \in 1..Grid : <<q, k>> # <<p, i>> => tile'[q][k] = tile[q][k]
  BY <1>1, <1>2, <1>4, PutTypes
<1>9. TileTypes'
  BY <1>1, <1>6, <1>8 DEF TileTypes
<1>10. Tiles!NoCutTile'
  <2> SUFFICES ASSUME NEW q \in Places, NEW k \in 1..Grid, tile'[q][k] = "cut", <<q, k>> \notin orphan
               PROVE  \E s \in Requests : call'[s].at = "writing" /\ call'[s].place = q /\ call'[s].seen + 1 = k
    BY <1>1 DEF Tiles!NoCutTile, Tiles!At, Tiles!Upcoming
  <2>1. <<q, k>> # <<p, i>>
    BY <1>8
  <2>2. PICK s \in Requests : call[s].at = "writing" /\ call[s].place = q /\ call[s].seen + 1 = k
    BY <1>8, <2>1 DEF TileInv, Tiles!NoCutTile, Tiles!At, Tiles!Upcoming
  <2>3. s # r
    BY <2>1, <2>2 DEF p, i
  <2> QED BY <1>6, <2>2, <2>3
<1> QED BY <1>5, <1>9, <1>10 DEF TileInv

(* The handler leaves its window, or moves inside it without a tile being  *)
(* written before or after.                                                *)
LEMMA LeaveTiles ==
  ASSUME TileInv, UNCHANGED explored, NEW r \in Requests,
         call[r].at \in {"fetching", "purging"}, Tiles!Goto(r, "closing"),
         UNCHANGED <<place, commit, mount, stuck, holder, orphan>>,
         tile' = tile \/ tile' = Tiles!NoTiles
  PROVE  TileInv'
<1>1. /\ call \in [Requests -> Call] /\ call[r] \in Call /\ TileTypes
  BY DEF TileInv, TileTypes
<1> DEFINE c == [at |-> "closing", place |-> call[r].place, seen |-> call[r].seen,
                 got |-> call[r].got, open |-> call[r].open]
<1>2. c \in Call /\ call' = [call EXCEPT ![r] = c]
  BY <1>1, CallMoves DEF Handling, Holding
<1>3. c.at = "closing"
  OBVIOUS
<1> HIDE DEF c
<1>4. LockHeld' /\ Placed' /\ WindowOpen' /\ WindowKept'
  BY <1>1, <1>2, <1>3, InsideWindow DEF Windowed
<1>5. /\ call' \in [Requests -> Call] /\ call'[r] = c
      /\ \A q \in Requests \ {r} : call'[q] = call[q]
  BY <1>1, <1>2, CallStep
<1>6. TileTypes'
  BY <1>1, <1>5 DEF TileTypes, Tiles!NoTiles
<1>7. Tiles!NoCutTile'
  <2>1. CASE tile' = tile
    BY <1>5, <2>1 DEF TileInv, Tiles!NoCutTile, Tiles!At, Tiles!Upcoming
  <2>2. CASE tile' = Tiles!NoTiles
    BY <2>2 DEF Tiles!NoTiles, Tiles!NoCutTile
  <2> QED BY <2>1, <2>2
<1> QED BY <1>4, <1>6, <1>7 DEF TileInv

(* The window closes and the lock is given back. *)
LEMMA CloseTiles ==
  ASSUME TileInv, UNCHANGED explored, NEW r \in Requests, Tiles!CloseWindow(r)
  PROVE  TileInv'
<1>1. /\ call \in [Requests -> Call] /\ call[r] \in Call /\ TileTypes
      /\ call[r].at = "closing" /\ NoOne \notin Requests
      /\ UNCHANGED <<place, commit, holder, orphan, tile>>
  BY MaintenanceAssumption DEF TileInv, TileTypes, Tiles!CloseWindow, Tiles!At, Tiles!world, Tiles!files
<1> DEFINE c == [at |-> "releasing", place |-> call[r].place, seen |-> call[r].seen,
                 got |-> call[r].got, open |-> call[r].open]
<1>2. c \in Call /\ call' = [call EXCEPT ![r] = c]
  BY <1>1, CallMoves DEF Handling, Holding, Tiles!CloseWindow
<1>3. c.at = "releasing"
  OBVIOUS
<1> HIDE DEF c
<1>4. /\ call' \in [Requests -> Call] /\ call'[r] = c
      /\ \A q \in Requests \ {r} : call'[q] = call[q]
  BY <1>1, <1>2, CallStep
<1>5. (mount' = "ro" /\ stuck' = FALSE) \/ (stuck' = TRUE /\ mount' = mount)
  BY DEF Tiles!CloseWindow, Tiles!Remount
<1>6. TileTypes'
  BY <1>1, <1>4, <1>5 DEF TileTypes
<1>7. LockHeld' /\ Placed'
  BY <1>1, <1>3, <1>4 DEF TileInv, LockHeld, Placed, Holding
<1>8. WindowOpen'
  BY <1>5 DEF WindowOpen
<1>9. Tiles!NoCutTile'
  BY <1>1, <1>3, <1>4 DEF TileInv, Tiles!NoCutTile, Tiles!At, Tiles!Upcoming
<1>10. WindowKept'
  <2>1. \A q \in Requests : call'[q].at \notin {"fetching", "writing", "purging"}
    BY <1>1, <1>3, <1>4 DEF TileInv, LockHeld, Holding
  <2> QED BY <1>1, <2>1 DEF TileInv, WindowKept, Tiles!WriterHasWindow
<1> QED BY <1>6, <1>7, <1>8, <1>9, <1>10 DEF TileInv

(* A client that leaves drops the handler, and its curl becomes an orphan. *)
LEMMA HangUpTiles ==
  ASSUME TileInv, UNCHANGED explored, NEW r \in Requests, Tiles!HangUp(r)
  PROVE  TileInv'
<1>1. /\ call \in [Requests -> Call] /\ call[r] \in Call /\ TileTypes /\ Grid \in Nat
      /\ UNCHANGED <<place, commit, holder, tile, mount, stuck>>
  BY MaintenanceAssumption DEF TileInv, TileTypes, Tiles!HangUp, Tiles!world
<1>2. CASE call[r].at = "waiting" /\ call' = [call EXCEPT ![r] = Tiles!Done] /\ UNCHANGED orphan
  BY <1>1, <1>2, DoneIsCall, OutsideWindow DEF TileTypes
<1>3. CASE call[r].at \in {"fetching", "purging"} /\ Tiles!Goto(r, "closing") /\ UNCHANGED orphan
  BY <1>1, <1>3, LeaveTiles
<1>4. CASE /\ call[r].at = "writing" /\ Tiles!Goto(r, "closing")
           /\ orphan' = orphan \cup {<<call[r].place, Tiles!Upcoming(r)>>}
  <2> DEFINE c == [at |-> "closing", place |-> call[r].place, seen |-> call[r].seen,
                   got |-> call[r].got, open |-> call[r].open]
  <2>1. c \in Call /\ call' = [call EXCEPT ![r] = c]
    BY <1>1, <1>4, CallMoves DEF Handling, Holding
  <2>2. c.at = "closing"
    OBVIOUS
  <2> HIDE DEF c
  <2>3. LockHeld' /\ Placed' /\ WindowOpen' /\ WindowKept'
    BY <1>1, <1>4, <2>1, <2>2, InsideWindow DEF Windowed
  <2>4. /\ call' \in [Requests -> Call] /\ call'[r] = c
        /\ \A q \in Requests \ {r} : call'[q] = call[q]
    BY <1>1, <2>1, CallStep
  <2>5. call[r].place \in Places /\ call[r].seen + 1 \in 1..Grid
    BY <1>1, <1>4 DEF TileInv, Placed, Call
  <2>6. TileTypes'
    BY <1>1, <1>4, <2>4, <2>5 DEF TileTypes, Tiles!Upcoming
  <2>7. Tiles!NoCutTile'
    BY <1>1, <1>4, <2>4 DEF TileInv, Tiles!NoCutTile, Tiles!At, Tiles!Upcoming
  <2> QED BY <2>3, <2>6, <2>7 DEF TileInv
<1> QED BY <1>2, <1>3, <1>4 DEF Tiles!HangUp, Tiles!At

(* Every step of a handler preserves the invariant. *)
LEMMA HandleTiles ==
  ASSUME TileInv, UNCHANGED explored, NEW r \in Requests, Tiles!Handle(r)
  PROVE  TileInv'
<1>1. /\ call \in [Requests -> Call] /\ call[r] \in Call /\ TileTypes
  BY DEF TileInv, TileTypes
<1>2. CASE Tiles!StartDownload(r)
  <2> DEFINE c == [at |-> "waiting", place |-> place, seen |-> 0, got |-> 0, open |-> FALSE]
  <2>1. c \in Call
    BY <1>1, MaintenanceAssumption DEF Call, Handling, TileTypes
  <2>2. call' = [call EXCEPT ![r] = c]
    <3>1. [Tiles!Done EXCEPT !.at = "waiting", !.place = place] = c
      <4> DEFINE d == [Tiles!Done EXCEPT !.at = "waiting", !.place = place]
      <4>1. DOMAIN Tiles!Done = {"at", "place", "seen", "got", "open"}
        BY DEF Tiles!Done
      <4>2. /\ d = [f \in {"at", "place", "seen", "got", "open"} |-> d[f]]
            /\ d.at = "waiting" /\ d.place = place
            /\ d.seen = Tiles!Done.seen /\ d.got = Tiles!Done.got /\ d.open = Tiles!Done.open
        BY <4>1
      <4>3. Tiles!Done.seen = 0 /\ Tiles!Done.got = 0 /\ Tiles!Done.open = FALSE
        BY DEF Tiles!Done
      <4> HIDE DEF d
      <4>4. d = [f \in {"at", "place", "seen", "got", "open"} |-> c[f]]
        BY <4>2, <4>3
      <4>5. d = c
        BY <4>4
      <4> QED BY <4>5 DEF d
    <3>2. call' = [call EXCEPT ![r] = [Tiles!Done EXCEPT !.at = "waiting", !.place = place]]
      BY <1>2 DEF Tiles!StartDownload
    <3> QED BY <3>1, <3>2
  <2>3. c.at = "waiting"
    OBVIOUS
  <2> HIDE DEF c
  <2> QED
    BY <1>1, <1>2, <2>1, <2>2, <2>3, OutsideWindow
       DEF Tiles!StartDownload, Tiles!At, Tiles!world, Tiles!files, TileTypes
<1>3. CASE Tiles!StartPurge(r)
  <2> DEFINE c == [at |-> "waiting", place |-> call[r].place, seen |-> call[r].seen,
                   got |-> call[r].got, open |-> call[r].open]
  <2>1. c \in Call /\ call' = [call EXCEPT ![r] = c]
    BY <1>1, <1>3, CallMoves DEF Handling, Tiles!StartPurge
  <2>2. c.at = "waiting"
    OBVIOUS
  <2> HIDE DEF c
  <2> QED
    BY <1>1, <1>3, <2>1, <2>2, OutsideWindow DEF Tiles!StartPurge, Tiles!At, Tiles!files
<1>4. CASE Tiles!Acquire(r)
  <2> DEFINE c == [at |-> "opening", place |-> call[r].place, seen |-> call[r].seen,
                   got |-> call[r].got, open |-> call[r].open]
  <2>1. c \in Call /\ call' = [call EXCEPT ![r] = c]
    BY <1>1, <1>4, CallMoves DEF Handling, Holding, Tiles!Acquire
  <2>2. c.at = "opening"
    OBVIOUS
  <2> HIDE DEF c
  <2> QED
    BY <1>1, <1>4, <2>1, <2>2, OutsideWindow
       DEF Tiles!Acquire, Tiles!At, Tiles!world, Tiles!files, TileTypes
<1>5. CASE Tiles!OpenWindow(r)
  BY <1>5, OpenTiles
<1>6. CASE Tiles!FetchStart(r)
  BY <1>6, FetchStartTiles
<1>7. CASE Tiles!FetchEnd(r)
  BY <1>7, FetchEndTiles
<1>8. CASE Tiles!WriteMeta(r)
  BY <1>8, LeaveTiles DEF Tiles!WriteMeta, Tiles!At, Tiles!world
<1>9. CASE Tiles!Purge(r)
  BY <1>9, LeaveTiles DEF Tiles!Purge, Tiles!At, Tiles!world
<1>10. CASE Tiles!CloseWindow(r)
  BY <1>10, CloseTiles
<1>11. CASE Tiles!Release(r)
  BY <1>1, <1>11, DoneIsCall, OutsideWindow
     DEF Tiles!Release, Tiles!At, Tiles!world, Tiles!files, TileTypes
<1>12. CASE Tiles!HangUp(r)
  BY <1>12, HangUpTiles
<1> QED
  BY <1>2, <1>3, <1>4, <1>5, <1>6, <1>7, <1>8, <1>9, <1>10, <1>11, <1>12 DEF Tiles!Handle

(* A curl whose handler is gone ends. *)
LEMMA OrphanTiles ==
  ASSUME TileInv, UNCHANGED explored, Tiles!OrphanEnds
  PROVE  TileInv'
<1>1. UNCHANGED <<place, online, commit, mount, stuck, holder, call, meta>> /\ TileTypes
  BY DEF TileInv, Tiles!OrphanEnds, Tiles!world
<1> DEFINE beingFetched(o) ==
      \E r \in Requests : Tiles!At(r, "writing") /\ <<call[r].place, Tiles!Upcoming(r)>> = o
<1>2. PICK o \in orphan, t \in {"whole", "spoilt"} :
        /\ orphan' = orphan \ {o}
        /\ IF tile[o[1]][o[2]] = "none" \/ beingFetched(o) THEN UNCHANGED tile
           ELSE Tiles!Put(o[1], o[2], t)
  BY DEF Tiles!OrphanEnds
<1>3. PICK p \in Places, i \in 1..Grid : o = <<p, i>>
  BY <1>1, <1>2 DEF TileTypes
<1>4. LockHeld' /\ Placed' /\ WindowOpen' /\ WindowKept'
  BY <1>1 DEF TileInv, LockHeld, Placed, WindowOpen, WindowKept, Tiles!WriterHasWindow
<1>5. CASE tile' = tile /\ (tile[p][i] = "none" \/ beingFetched(o))
  <2>1. TileTypes'
    BY <1>1, <1>2, <1>5 DEF TileTypes
  <2>2. Tiles!NoCutTile'
    <3> SUFFICES ASSUME NEW q \in Places, NEW k \in 1..Grid, tile[q][k] = "cut", <<q, k>> \notin orphan'
                 PROVE  \E s \in Requests : call[s].at = "writing" /\ call[s].place = q /\ call[s].seen + 1 = k
      BY <1>1, <1>5 DEF Tiles!NoCutTile, Tiles!At, Tiles!Upcoming
    <3>1. CASE <<q, k>> \notin orphan
      BY <3>1 DEF TileInv, Tiles!NoCutTile, Tiles!At, Tiles!Upcoming
    <3>2. CASE <<q, k>> = o
      BY <1>3, <1>5, <3>2 DEF Tiles!At, Tiles!Upcoming
    <3> QED BY <1>2, <3>1, <3>2
  <2> QED BY <1>4, <2>1, <2>2 DEF TileInv
<1>6. CASE Tiles!Put(p, i, t)
  <2>1. /\ tile' \in [Places -> [1..Grid -> {"none", "cut", "whole", "spoilt"}]]
        /\ tile'[p][i] # "cut"
        /\ \A q \in Places, k \in 1..Grid : <<q, k>> # <<p, i>> => tile'[q][k] = tile[q][k]
    BY <1>1, <1>6, PutTypes
  <2>2. TileTypes'
    BY <1>1, <1>2, <2>1 DEF TileTypes
  <2>3. Tiles!NoCutTile'
    <3> SUFFICES ASSUME NEW q \in Places, NEW k \in 1..Grid, tile'[q][k] = "cut", <<q, k>> \notin orphan'
                 PROVE  \E s \in Requests : call[s].at = "writing" /\ call[s].place = q /\ call[s].seen + 1 = k
      BY <1>1 DEF Tiles!NoCutTile, Tiles!At, Tiles!Upcoming
    <3>1. <<q, k>> # <<p, i>>
      BY <2>1
    <3>2. tile[q][k] = "cut" /\ <<q, k>> \notin orphan
      BY <1>2, <1>3, <2>1, <3>1
    <3> QED BY <3>2 DEF TileInv, Tiles!NoCutTile, Tiles!At, Tiles!Upcoming
  <2> QED BY <1>4, <2>2, <2>3 DEF TileInv
<1>7. o[1] = p /\ o[2] = i
  BY <1>3
<1> HIDE DEF beingFetched
<1> QED BY <1>2, <1>5, <1>6, <1>7

(* The world around the handlers: the store that commits, the              *)
(* administrator who moves the node, the network.                          *)
LEMMA WorldTiles ==
  ASSUME TileInv, UNCHANGED explored,
         \/ explored = "shared tiles" /\ SharedTiles!StoreOpens
         \/ Tiles!StoreCloses \/ Tiles!Move \/ Tiles!Connectivity
  PROVE  TileInv'
<1>1. UNCHANGED <<holder, call, tile, orphan>> /\ TileTypes
  BY DEF TileInv, SharedTiles!StoreOpens, SharedTiles!files, Tiles!StoreCloses, Tiles!Move,
         Tiles!Connectivity, Tiles!files
<1>2. TileTypes'
  BY <1>1 DEF TileTypes, SharedTiles!StoreOpens, Tiles!StoreCloses, Tiles!Remount, Tiles!Move,
              Tiles!Connectivity
<1>3. LockHeld' /\ Placed' /\ Tiles!NoCutTile'
  BY <1>1 DEF TileInv, LockHeld, Placed, Tiles!NoCutTile, Tiles!At, Tiles!Upcoming
<1>4. WindowOpen' /\ WindowKept'
  <2>1. CASE explored = "shared tiles" /\ SharedTiles!StoreOpens
    BY <1>1, <2>1 DEF SharedTiles!StoreOpens, WindowOpen, WindowKept
  <2>2. CASE Tiles!StoreCloses
    <3>1. explored = "shared tiles"
      BY <2>2 DEF TileInv, WindowKept, Tiles!StoreCloses
    <3>2. stuck' = TRUE \/ mount' = "ro"
      BY <2>2 DEF Tiles!StoreCloses, Tiles!Remount
    <3> QED BY <3>1, <3>2 DEF WindowOpen, WindowKept
  <2>3. CASE Tiles!Move \/ Tiles!Connectivity
    BY <1>1, <2>3 DEF TileInv, WindowOpen, WindowKept, Tiles!WriterHasWindow, Tiles!Move, Tiles!Connectivity
  <2> QED BY <2>1, <2>2, <2>3
<1> QED BY <1>2, <1>3, <1>4 DEF TileInv

(* But for the store that opens a window, the tiles behave the same alone  *)
(* and on a partition they share.                                          *)
LEMMA SameHandlers ==
  ASSUME NEW r \in Requests
  PROVE  SharedTiles!Handle(r) => Tiles!Handle(r)
<1>1. /\ SharedTiles!StartDownload(r) => Tiles!StartDownload(r)
      /\ SharedTiles!StartPurge(r) => Tiles!StartPurge(r)
      /\ SharedTiles!Acquire(r) => Tiles!Acquire(r)
  BY DEF SharedTiles!StartDownload, Tiles!StartDownload, SharedTiles!StartPurge, Tiles!StartPurge,
         SharedTiles!Acquire, Tiles!Acquire, SharedTiles!At, Tiles!At, SharedTiles!Goto, Tiles!Goto,
         SharedTiles!Done, Tiles!Done, SharedTiles!world, Tiles!world, SharedTiles!files, Tiles!files
<1>2. SharedTiles!OpenWindow(r) => Tiles!OpenWindow(r)
  BY DEF SharedTiles!OpenWindow, Tiles!OpenWindow, SharedTiles!At, Tiles!At, SharedTiles!world,
         Tiles!world, SharedTiles!files, Tiles!files
<1>3. SharedTiles!FetchStart(r) => Tiles!FetchStart(r)
  BY DEF SharedTiles!FetchStart, Tiles!FetchStart, SharedTiles!At, Tiles!At, SharedTiles!Goto,
         Tiles!Goto, SharedTiles!Put, Tiles!Put, SharedTiles!Upcoming, Tiles!Upcoming,
         SharedTiles!world, Tiles!world
<1>4. SharedTiles!FetchEnd(r) => Tiles!FetchEnd(r)
  BY DEF SharedTiles!FetchEnd, Tiles!FetchEnd, SharedTiles!At, Tiles!At, SharedTiles!Got, Tiles!Got,
         SharedTiles!Failed, Tiles!Failed, SharedTiles!Put, Tiles!Put, SharedTiles!Upcoming,
         Tiles!Upcoming, SharedTiles!world, Tiles!world
<1>5. SharedTiles!WriteMeta(r) => Tiles!WriteMeta(r)
  BY DEF SharedTiles!WriteMeta, Tiles!WriteMeta, SharedTiles!At, Tiles!At, SharedTiles!Goto,
         Tiles!Goto, SharedTiles!world, Tiles!world
<1>6. SharedTiles!Purge(r) => Tiles!Purge(r)
  BY DEF SharedTiles!Purge, Tiles!Purge, SharedTiles!At, Tiles!At, SharedTiles!Goto, Tiles!Goto,
         SharedTiles!NoTiles, Tiles!NoTiles, SharedTiles!world, Tiles!world
<1>7. SharedTiles!CloseWindow(r) => Tiles!CloseWindow(r)
  BY DEF SharedTiles!CloseWindow, Tiles!CloseWindow, SharedTiles!At, Tiles!At, SharedTiles!Goto,
         Tiles!Goto, SharedTiles!Remount, Tiles!Remount, SharedTiles!world, Tiles!world,
         SharedTiles!files, Tiles!files
<1>8. SharedTiles!Release(r) => Tiles!Release(r)
  BY DEF SharedTiles!Release, Tiles!Release, SharedTiles!At, Tiles!At, SharedTiles!Done, Tiles!Done,
         SharedTiles!world, Tiles!world, SharedTiles!files, Tiles!files
<1>9. SharedTiles!HangUp(r) => Tiles!HangUp(r)
  BY DEF SharedTiles!HangUp, Tiles!HangUp, SharedTiles!At, Tiles!At, SharedTiles!Goto, Tiles!Goto,
         SharedTiles!Done, Tiles!Done, SharedTiles!Upcoming, Tiles!Upcoming, SharedTiles!world,
         Tiles!world
<1> QED
  BY <1>1, <1>2, <1>3, <1>4, <1>5, <1>6, <1>7, <1>8, <1>9 DEF SharedTiles!Handle, Tiles!Handle

(* What happens around the handlers is the same with and without the window of the store. *)
LEMMA SameWorld ==
  /\ SharedTiles!OrphanEnds => Tiles!OrphanEnds
  /\ SharedTiles!StoreCloses => Tiles!StoreCloses
  /\ SharedTiles!Move => Tiles!Move
  /\ SharedTiles!Connectivity => Tiles!Connectivity
  BY DEF SharedTiles!OrphanEnds, Tiles!OrphanEnds, SharedTiles!StoreCloses, Tiles!StoreCloses,
         SharedTiles!Move, Tiles!Move, SharedTiles!Connectivity, Tiles!Connectivity,
         SharedTiles!At, Tiles!At, SharedTiles!Put, Tiles!Put, SharedTiles!Upcoming, Tiles!Upcoming,
         SharedTiles!Remount, Tiles!Remount, SharedTiles!world, Tiles!world, SharedTiles!files, Tiles!files

(* Every step of the run preserves the invariant of the tiles. *)
LEMMA TileMCStep == TileInv /\ [MCNext]_mcVars => TileInv'
<1> SUFFICES ASSUME TileInv, [MCNext]_mcVars PROVE TileInv'
  OBVIOUS
<1>1. explored' = explored
  BY DEF MCNext, mcVars
<1>2. CASE Tiles!Next
  <2>1. ~Tiles!StoreOpens
    BY DEF Tiles!StoreOpens
  <2> QED BY <1>1, <1>2, <2>1, HandleTiles, OrphanTiles, WorldTiles DEF Tiles!Next
<1>3. CASE explored = "shared tiles" /\ SharedTiles!Next
  BY <1>1, <1>3, SameHandlers, SameWorld, HandleTiles, OrphanTiles, WorldTiles DEF SharedTiles!Next
<1>4. CASE UNCHANGED tileVars
  <2>1. UNCHANGED <<place, mount, stuck, commit, holder, call, tile, orphan>>
    BY <1>4 DEF tileVars
  <2>2. TileTypes' /\ LockHeld' /\ Placed'
    BY <2>1 DEF TileInv, TileTypes, LockHeld, Placed
  <2>3. WindowOpen' /\ WindowKept'
    BY <1>1, <2>1 DEF TileInv, WindowOpen, WindowKept, Tiles!WriterHasWindow
  <2>4. Tiles!NoCutTile'
    BY <2>1 DEF TileInv, Tiles!NoCutTile, Tiles!At, Tiles!Upcoming
  <2> QED BY <2>2, <2>3, <2>4 DEF TileInv
<1> QED BY <1>2, <1>3, <1>4 DEF MCNext, mcVars

(* For any number of requests, of places and of tiles, and whatever        *)
(* clients hang up: with nobody writing the partition is read-only unless  *)
(* the last remount failed, a handler keeps its window unless the store    *)
(* commits to the same partition, and a truncated tile is being written or *)
(* was left by a process nobody waits for (RwWindow, fetch_tile_grid).     *)
THEOREM TilesStayInOrder == MCSpec => []TilesInOrder
<1>1. MCInit => TileInv
  BY TileInit DEF MCInit
<1>2. TileInv => TilesInOrder
  <2> SUFFICES ASSUME TileInv PROVE TilesInOrder
    OBVIOUS
  <2>1. ASSUME holder = NoOne PROVE \A r \in Requests : call[r].at \notin Windowed \cup {"closing"}
    BY <2>1, MaintenanceAssumption DEF TileInv, LockHeld, Holding, Windowed
  <2>2. Tiles!ClosedAtRest
    BY <2>1 DEF TileInv, TileTypes, WindowOpen, Tiles!ClosedAtRest
  <2> QED BY <2>2 DEF TileInv, WindowKept, TilesInOrder
<1> QED BY <1>1, <1>2, TileMCStep, PTL DEF MCSpec

===============================================================================
