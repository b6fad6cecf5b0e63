------------------------------- MODULE OtaUpdate -------------------------------
(***************************************************************************)
(* The update of a node over the air (crates/cli/src/update.rs): crond     *)
(* starts `sos-cli update`, which downloads a manifest and a binary with   *)
(* curl into two files of one directory in RAM, checks them, and hands the *)
(* two FILES over to the helper that installs them in the slot and reboots.*)
(* The server is a directory whose two files are replaced one after the    *)
(* other, by any release, older ones included (a stale mirror).            *)
(*                                                                         *)
(* A binary is named by its release: a number in the order of publication, *)
(* Factory for the one in the image, Cut for an interrupted download. A    *)
(* manifest holds the text of a version, the digest of a binary and        *)
(* whether the publisher's signature verifies.                             *)
(***************************************************************************)
EXTENDS Integers

CONSTANTS
  Updater,      \* update processes that may run at the same time
  Version,      \* Version[i]: parts of the version of release i, see Segment
  MaxPublish,   \* bound: files the publisher puts on the server
  MaxFaults     \* bound: downloads and installations that fail, reboots

VARIABLES
  server,   \* [man, bin] as served
  file,     \* [man, bin] in the working directory
  slot,     \* [man, bin] installed in the slot
  run,      \* run[u]: where updater u is, the manifest it read, and the version it
            \* took for the one installed
  puts,     \* files put on the server
  faults    \* failures so far

vars == <<server, file, slot, run, puts, faults>>

Factory == 0
Cut == -1
Release == DOMAIN Version \ {Factory}
Manifest(i, signed) == [version |-> Version[i], digest |-> i, signed |-> signed]
NoManifest == [version |-> <<>>, digest |-> Cut, signed |-> FALSE]
NoFiles == [man |-> NoManifest, bin |-> Cut]
Idle == [at |-> "idle", man |-> NoManifest, current |-> <<>>]

Init ==
  /\ server = [man |-> Manifest(Factory, TRUE), bin |-> Factory]
  /\ file = NoFiles /\ slot = NoFiles
  /\ run = [u \in Updater |-> Idle]
  /\ puts = 0 /\ faults = 0

-------------------------------------------------------------------------------
(* version_gt cuts a version at '.', '-' and '+' and keeps of each part    *)
(* its leading digits: 0 if there are none (a part that is a word is -1    *)
(* here), and 0 for a part that is not there.                              *)
Segment(v, i) == IF i \in DOMAIN v /\ v[i] >= 0 THEN v[i] ELSE 0

VersionGtAnywhere(a, b) == \E i \in DOMAIN a \cup DOMAIN b : Segment(a, i) > Segment(b, i)

VersionGtTwoParts(a, b) ==
  \/ Segment(a, 1) > Segment(b, 1)
  \/ Segment(a, 1) = Segment(b, 1) /\ Segment(a, 2) > Segment(b, 2)

(* The first segment that differs decides.                                 *)
VersionGt(a, b) ==
  \E i \in DOMAIN a \cup DOMAIN b :
    /\ Segment(a, i) > Segment(b, i)
    /\ \A j \in 1..(i - 1) : Segment(a, j) = Segment(b, j)

(* The higher of the factory's version and of the slot's, if it has one.   *)
Higher(factory, man) ==
  IF man # NoManifest /\ VersionGt(man.version, factory) THEN man.version ELSE factory

Current == Higher(Version[Factory], slot.man)

(* current_version: each of the two manifests may fail to be read or       *)
(* parsed, on a worn card; the factory's then counts for 0.0.0, the slot's *)
(* for nothing.                                                            *)
CurrentVersion ==
  {Higher(factory, man) : factory \in {Version[Factory], <<0, 0, 0>>}, man \in {slot.man, NoManifest}}

VerifySignatureOnly(man, bin) == man.signed

(* verify_manifest: the digest, then the signature with the pinned key.    *)
Verified(man, bin) == man.digest = bin /\ man.signed

At(u, step) == run[u].at = step
Goto(u, step) == run' = [run EXCEPT ![u].at = step]
Return(u) == run' = [run EXCEPT ![u] = Idle]
Fault == faults < MaxFaults /\ faults' = faults + 1

-------------------------------------------------------------------------------
(* The publisher, or a mirror, replaces a file; a manifest may come        *)
(* without a signature.                                                    *)
Publish ==
  /\ puts < MaxPublish
  /\ puts' = puts + 1
  /\ \E i \in Release :
       \/ server' = [server EXCEPT !.bin = i]
       \/ \E signed \in BOOLEAN : server' = [server EXCEPT !.man = Manifest(i, signed)]
  /\ UNCHANGED <<file, slot, run, faults>>

(* run, with updates enabled and the pinned key readable.                  *)
Start(u) ==
  /\ At(u, "idle")
  /\ Goto(u, "man")
  /\ UNCHANGED <<server, file, slot, puts, faults>>

(* curl empties the file it downloads to...                                *)
Open(u) ==
  /\ run[u].at \in {"man", "bin"}
  /\ file' = IF At(u, "man") THEN [file EXCEPT !.man = NoManifest] ELSE [file EXCEPT !.bin = Cut]
  /\ Goto(u, IF At(u, "man") THEN "man-arriving" ELSE "bin-arriving")
  /\ UNCHANGED <<server, slot, puts, faults>>

(* ... and fills it with what is served...                                 *)
ManifestArrives(u) ==
  /\ At(u, "man-arriving")
  /\ file' = [file EXCEPT !.man = server.man]
  /\ Goto(u, "decide")
  /\ UNCHANGED <<server, slot, puts, faults>>

BinaryArrives(u) ==
  /\ At(u, "bin-arriving")
  /\ file' = [file EXCEPT !.bin = server.bin]
  /\ Goto(u, "verify")
  /\ UNCHANGED <<server, slot, puts, faults>>

(* ... or fails, before or after that: run ends with an error.             *)
DownloadFails(u) ==
  /\ Fault
  /\ run[u].at \in {"man", "man-arriving", "bin", "bin-arriving"}
  /\ Return(u)
  /\ UNCHANGED <<server, file, slot, puts>>

(* The manifest is read; unless it is newer than what seems to be there,   *)
(* that is all ("ignorer une version <= courante").                        *)
Decide(u) ==
  /\ At(u, "decide")
  /\ \E current \in CurrentVersion :
       IF file.man # NoManifest /\ VersionGt(file.man.version, current)
       THEN run' = [run EXCEPT ![u] = [at |-> "bin", man |-> file.man, current |-> current]]
       ELSE Return(u)
  /\ UNCHANGED <<server, file, slot, puts, faults>>

(* The binary is read and both are verified, in memory.                    *)
Verify(u) ==
  /\ At(u, "verify")
  /\ IF Verified(run[u].man, file.bin) THEN Goto(u, "apply") ELSE Return(u)
  /\ UNCHANGED <<server, file, slot, puts, faults>>

(* sos-apply-update (external) copies the two files into the slot and      *)
(* reboots: RAM is lost, every process with it.                            *)
Apply(u) ==
  /\ At(u, "apply")
  /\ slot' = file
  /\ file' = NoFiles
  /\ run' = [v \in Updater |-> Idle]
  /\ UNCHANGED <<server, puts, faults>>

ApplyFails(u) ==
  /\ Fault
  /\ At(u, "apply")
  /\ Return(u)
  /\ UNCHANGED <<server, file, slot, puts>>

(* A power failure, or a reboot for another reason.                        *)
Reboot ==
  /\ Fault
  /\ file' = NoFiles
  /\ run' = [v \in Updater |-> Idle]
  /\ UNCHANGED <<server, slot, puts>>

Advance(u) ==
  \/ Start(u) \/ Open(u) \/ ManifestArrives(u) \/ BinaryArrives(u)
  \/ Decide(u) \/ Verify(u) \/ Apply(u)

Next ==
  \/ Publish
  \/ \E u \in Updater : Advance(u) \/ DownloadFails(u) \/ ApplyFails(u)
  \/ Reboot

(* crond starts the update over and over, and a run goes on to its end:    *)
(* curl has a --max-time.                                                  *)
Spec == Init /\ [][Next]_vars /\ \A u \in Updater : WF_vars(Advance(u))

-------------------------------------------------------------------------------
(* What the slot holds was verified: a manifest signed by the publisher    *)
(* with the very binary it describes, whatever files the server mixes.     *)
SlotVerified == slot = NoFiles \/ (slot.man.signed /\ slot.man.digest = slot.bin)

(* What runs after a boot (external): the slot if it verifies and is newer *)
(* than the factory's binary, else the factory's.                          *)
Running ==
  IF Verified(slot.man, slot.bin) /\ VersionGt(slot.man.version, Version[Factory])
  THEN slot.bin ELSE Factory

(* "refuse tout downgrade": the release the node runs is never replaced by *)
(* one published before it, even from a stale mirror...                    *)
RefusesDowngrade == [][Running' >= Running]_vars

(* ... as long as the updater knows what is installed: current_version     *)
(* says less when a manifest cannot be read.                               *)
NeverDowngrade == [][Running' < Running => \E u \in Updater : run[u].current # Current]_vars

(* A release that the server ends up offering whole, signed and for good   *)
(* is installed in the end, or a later one is: version_gt ranks releases   *)
(* as the publisher does.                                                  *)
Offered(i) == server = [man |-> Manifest(i, TRUE), bin |-> i]
UpdateArrives == \A i \in Release : (<>[]Offered(i)) => <>(Running >= i)

===============================================================================
