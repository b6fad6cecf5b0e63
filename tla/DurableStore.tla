----------------------------- MODULE DurableStore -----------------------------
(***************************************************************************)
(* The durable snapshot of the node's database (crates/storage/src/lib.rs) *)
(* in the mode of SOS_DB_DURABLE without a commit command: the database    *)
(* Redb works on lives in RAM, and every write transaction is followed by  *)
(* atomic_copy(working, target): copy into target.redb.tmp, fsync, rename, *)
(* fsync of the directory. Several requests may be writing at once: the    *)
(* handlers share the store under a read lock, Redb orders the commits,    *)
(* nothing orders the copies.                                              *)
(*                                                                         *)
(* A database file is its head and its body, each holding the version of   *)
(* the transaction that wrote it: a database is whole when they agree.     *)
(* Names and file contents are kept apart, because a writer goes on        *)
(* writing into the file it opened after another has renamed it.           *)
(***************************************************************************)
EXTENDS Integers, FiniteSets

CONSTANTS
  Writers,      \* requests that may be in a write method at the same time
  File,         \* files (inodes) of the persistent partition
  None,         \* no file
  MaxVersion    \* bound: transactions explored

ASSUME StoreAssumption ==
  /\ None \notin File
  /\ MaxVersion \in Nat

Missing == -1                      \* a block not written yet
Block == -1..MaxVersion
Content == [head : Block, body : Block]
Database(v) == [head |-> v, body |-> v]
Empty == Database(Missing)
Whole(c) == c.head = c.body /\ c.head # Missing

VARIABLES
  working,     \* version of the database in RAM; Missing when unreadable
  data,        \* data[f]: content of file f as processes see it
  disk,        \* disk[f]: content of f at its last fsync
  tmp,         \* the file named target.redb.tmp, or None
  target,      \* the file named target
  synced,      \* the file named target at the last fsync of the directory
  pc,          \* pc[w]: where writer w is in its write method
  fd,          \* fd[w]: the file writer w copies into, None when it has none open
  mine,        \* mine[w]: the version writer w has committed
  acked        \* history: newest version answered Ok on a synchronised directory

vars == <<working, data, disk, tmp, target, synced, pc, fd, mine, acked>>

Step == {"idle", "create", "copy1", "copy2", "sync", "rename", "dirsync"}

TypeOK ==
  /\ working \in Block
  /\ data \in [File -> Content]
  /\ disk \in [File -> Content]
  /\ tmp \in File \cup {None}
  /\ target \in File
  /\ synced \in File
  /\ pc \in [Writers -> Step]
  /\ fd \in [Writers -> File \cup {None}]
  /\ mine \in [Writers -> 0..MaxVersion]
  /\ acked \in 0..MaxVersion

(* The node has run before: a snapshot of version 0 exists.                *)
Init ==
  /\ working = 0
  /\ \E f \in File :
       /\ target = f /\ synced = f
       /\ data = [g \in File |-> IF g = f THEN Database(0) ELSE Empty]
       /\ disk = data
  /\ tmp = None
  /\ fd = [w \in Writers |-> None]
  /\ pc = [w \in Writers |-> "idle"]
  /\ mine = [w \in Writers |-> 0]
  /\ acked = 0

Goto(w, from, to) == pc[w] = from /\ pc' = [pc EXCEPT ![w] = to]

(* A write method commits its Redb transaction, then calls persist_durable. *)
Commit(w) ==
  /\ Goto(w, "idle", "create")
  /\ working # Missing
  /\ working < MaxVersion
  /\ working' = working + 1
  /\ mine' = [mine EXCEPT ![w] = working + 1]
  /\ UNCHANGED <<data, disk, tmp, target, synced, fd, acked>>

(* fs::copy opens the temporary name, truncating what is already there.    *)
Create(w) ==
  /\ Goto(w, "create", "copy1")
  /\ \E f \in File :
       /\ IF tmp # None THEN f = tmp
          ELSE f \notin {target, synced} \cup {fd[v] : v \in Writers}
       /\ tmp' = f
       /\ fd' = [fd EXCEPT ![w] = f]
       /\ data' = [data EXCEPT ![f] = Empty]
       /\ disk' = [disk EXCEPT ![f] = IF tmp = None THEN Empty ELSE @]
  /\ UNCHANGED <<working, target, synced, mine, acked>>

(* The copy reads the database as it is at that moment, block by block.    *)
CopyFirst(w) ==
  /\ Goto(w, "copy1", "copy2")
  /\ data' = [data EXCEPT ![fd[w]].head = working]
  /\ UNCHANGED <<working, disk, tmp, target, synced, fd, mine, acked>>

CopySecond(w) ==
  /\ Goto(w, "copy2", "sync")
  /\ data' = [data EXCEPT ![fd[w]].body = working]
  /\ fd' = [fd EXCEPT ![w] = None]
  /\ UNCHANGED <<working, disk, tmp, target, synced, mine, acked>>

SyncSkipped(w) ==
  /\ Goto(w, "sync", "rename")
  /\ UNCHANGED <<working, data, disk, tmp, target, synced, fd, mine, acked>>

(* The temporary name is opened again and synchronised.                    *)
Sync(w) ==
  /\ tmp # None
  /\ Goto(w, "sync", "rename")
  /\ disk' = [disk EXCEPT ![tmp] = data[tmp]]
  /\ UNCHANGED <<working, data, tmp, target, synced, fd, mine, acked>>

RenameAcks(w) ==
  /\ tmp # None
  /\ Goto(w, "rename", "idle")
  /\ target' = tmp
  /\ tmp' = None
  /\ acked' = IF mine[w] > acked THEN mine[w] ELSE acked
  /\ UNCHANGED <<working, data, disk, synced, fd, mine>>

Rename(w) ==
  /\ tmp # None
  /\ Goto(w, "rename", "dirsync")
  /\ target' = tmp
  /\ tmp' = None
  /\ UNCHANGED <<working, data, disk, synced, fd, mine, acked>>

(* The directory is synchronised and the caller is answered Ok. A medium   *)
(* that refuses to open or to synchronise a directory is answered Ok too:  *)
(* such an answer is no promise, and acked leaves it out.                  *)
DirSync(w) ==
  /\ Goto(w, "dirsync", "idle")
  /\ synced' \in {target, synced}
  /\ acked' = IF synced' = target /\ mine[w] > acked THEN mine[w] ELSE acked
  /\ UNCHANGED <<working, data, disk, tmp, target, fd, mine>>

(* Any call up to the rename may fail (full or failing medium, or the      *)
(* temporary name gone): the method returns Err and leaves things as they  *)
(* are, the transaction committed in RAM included.                         *)
Fail(w) ==
  /\ pc[w] \in {"create", "copy1", "copy2", "sync", "rename"}
  /\ pc' = [pc EXCEPT ![w] = "idle"]
  /\ fd' = [fd EXCEPT ![w] = None]
  /\ UNCHANGED <<working, data, disk, tmp, target, synced, mine, acked>>

(* The process dies and restarts; RAM and files keep their contents, and   *)
(* open_durable finds the working database present.                        *)
ProcessRestart ==
  /\ pc' = [w \in Writers |-> "idle"]
  /\ fd' = [w \in Writers |-> None]
  /\ UNCHANGED <<working, data, disk, tmp, target, synced, mine, acked>>

(* What a power loss may leave under the name target: the old or the new   *)
(* name, each file as last synchronised or as last written.                *)
Survivors == {data[f] : f \in {target, synced}} \cup {disk[f] : f \in {target, synced}}

(* Power loss and boot: RAM is empty, open_durable restores the snapshot   *)
(* (itself by atomic_copy, into RAM, before any request is served).        *)
PowerLoss ==
  \E f \in {target, synced} : \E c \in {data[f], disk[f]} :
    /\ target' = f /\ synced' = f
    /\ tmp' \in {None, tmp, target} \ {f}
    /\ data' = [data EXCEPT ![f] = c]
    /\ disk' = [disk EXCEPT ![f] = c]
    /\ working' = IF Whole(c) THEN c.head ELSE Missing
    /\ pc' = [w \in Writers |-> "idle"]
    /\ fd' = [w \in Writers |-> None]
    /\ UNCHANGED <<mine, acked>>

Next ==
  \/ \E w \in Writers :
       \/ Commit(w) \/ Create(w) \/ CopyFirst(w) \/ CopySecond(w)
       \/ Sync(w) \/ Rename(w) \/ DirSync(w) \/ Fail(w)
  \/ ProcessRestart
  \/ PowerLoss

Spec == Init /\ [][Next]_vars

-------------------------------------------------------------------------------
(* Whenever the power fails, the snapshot is a complete database: "soit    *)
(* l'ancien contenu intact, soit le nouveau complet, jamais hybride"       *)
(* (atomic_copy).                                                          *)
NeverHybrid == \A c \in Survivors : Whole(c)

(* The same promise for the copy alone: the snapshot never lacks a part,   *)
(* whatever the source was doing meanwhile.                                *)
NeverPartial == \A c \in Survivors : Missing \notin {c.head, c.body}

(* A write answered Ok on a medium that synchronised its directory         *)
(* survives any power loss from then on, in a complete database, whichever *)
(* of the possible contents the medium is left with; later writes that     *)
(* fail do not take it back.                                               *)
AckedSurvives == NeverHybrid /\ \A c \in Survivors : c.head >= acked

(* The inductive invariant for one writer at a time: the snapshot's files  *)
(* are whole, synchronised and never the one being written; the temporary  *)
(* file holds the parts already copied; nothing older than what was        *)
(* acknowledged is left.                                                   *)
Copied(w) ==
  /\ pc[w] \in {"copy1", "copy2", "sync", "rename"} => tmp # None
  /\ fd[w] = IF pc[w] \in {"copy1", "copy2"} THEN tmp ELSE None
  /\ pc[w] = "copy2" => data[tmp].head = working
  /\ pc[w] \in {"sync", "rename"} => data[tmp] = Database(working)
  /\ pc[w] = "rename" => disk[tmp] = Database(working)
  /\ pc[w] = "dirsync" => data[target] = Database(working)
  /\ pc[w] # "idle" => mine[w] = working

StoreInv ==
  /\ TypeOK
  /\ working # Missing
  /\ tmp \notin {target, synced}
  /\ \A f \in {target, synced} : data[f] = disk[f] /\ Whole(data[f])
  /\ \A w \in Writers : Copied(w)

AckedInv ==
  /\ acked <= working
  /\ \A f \in {target, synced} : acked <= data[f].head

-------------------------------------------------------------------------------
(* Files, names and copies put aside, the snapshot is a database with      *)
(* transactions: what a loss of power may leave are ends of transactions.  *)
Promise == INSTANCE TransactionStore WITH
  current <- working,
  durable <- {c.head : c \in Survivors},
  promised <- acked

(* Every step of a single writer, of a restart and of a power loss is a    *)
(* step of that database: only the rename adds an outcome, only the fsync  *)
(* of the directory takes one away and promises, and a power loss goes     *)
(* back to an outcome that was there (persist_durable, atomic_copy,        *)
(* open_durable).                                                          *)
ImplementsTransactions == Promise!Spec

===============================================================================
