------------------------------- MODULE Unpack -------------------------------
(***************************************************************************)
(* Replacing a directory by the contents of an uploaded tarball: unpackTar *)
(* with replaceDest, a temporary directory and a temporary file, the way   *)
(* both uploads of the server use it.                                      *)
(*                                                                         *)
(* The destination is emptied first.  The tarball is unpacked into a       *)
(* temporary directory of the upload's own, then the destination is moved  *)
(* there as "backup" and "unpacked" is moved to the destination.  The      *)
(* modules UpdateStore and ConfigUpload extend this one with the handlers; *)
(* in both, uploads to one destination come one after the other.           *)
(***************************************************************************)
EXTENDS Integers

CONSTANTS
  Dests,      \* destination directories
  Uploads,    \* the uploads that may arrive, once each
  Payloads,   \* tarballs; also the contents they unpack to
  Valid,      \* the tarballs that unpack and pass the onUnpackComplete check (see Tarball)
  Void,       \* the tarball without entries
  KeepTx,     \* whether onTmpRenameError keeps the temporary directory
  MaxFaults,  \* bound: failing calls and crashes of one behaviour
  Absent,     \* a directory that does not exist
  Empty,      \* an empty directory
  Partial     \* a directory with only some of its contents

ASSUME UnpackAssumption ==
  /\ Uploads \subseteq [id : Nat, dest : Dests, payload : Payloads]
  /\ Valid \subseteq Payloads
  /\ KeepTx \in BOOLEAN
  /\ MaxFaults \in Nat
  /\ {Absent, Empty, Partial} \cap Payloads = {}

VARIABLES
  dirs,    \* contents of each destination
  tx,      \* temporary directory of each upload
  upc,     \* where each upload is
  result,  \* how unpackTar will return once it has cleaned up
  hit,     \* auxiliary: uploads that a fault or crash has hit
  faults

unpackVars == <<dirs, tx, upc, result, hit, faults>>

Contents == Payloads \cup {Absent, Empty, Partial}

TxDirs == [unpacked : Contents, backup : Contents]

NoTx == [unpacked |-> Absent, backup |-> Absent]

\* Places of an upload inside unpackTar.
Unpacking == {"check", "clean", "cleaning", "mkdir", "unpack", "backup", "swap", "cleanup"}

\* Places of an upload that is over: unpackTar has returned an error, or the
\* process died.
Ended == {"invalid", "failed", "broken", "dead"}

UnpackInit ==
  /\ tx = [q \in Uploads |-> NoTx]
  /\ upc = [q \in Uploads |-> "idle"]
  /\ result = [q \in Uploads |-> "unpacked"]
  /\ hit = {}
  /\ faults = 0

Fault(q) == faults < MaxFaults /\ faults' = faults + 1 /\ hit' = hit \cup {q}

NoFault == UNCHANGED <<faults, hit>>

Goto(q, l) == upc' = [upc EXCEPT ![q] = l]

-----------------------------------------------------------------------------
(* _checkDestDir *)

\* Mutant: a destination that is not empty is refused, as without replaceDest.
CheckDestRefuses(q) ==
  /\ upc[q] = "check"
  /\ Goto(q, IF dirs[q.dest] \in {Absent, Empty} THEN "unpack" ELSE "failed")
  /\ dirs' = [dirs EXCEPT ![q.dest] = IF @ = Absent THEN Empty ELSE @]
  /\ UNCHANGED <<tx, result>> /\ NoFault

CheckDest(q) ==
  /\ upc[q] = "check"
  /\ Goto(q, IF dirs[q.dest] \in {Absent, Empty} THEN "unpack" ELSE "clean")
  /\ dirs' = [dirs EXCEPT ![q.dest] = IF @ = Absent THEN Empty ELSE @]
  /\ UNCHANGED <<tx, result>> /\ NoFault

\* RemoveAll takes the contents away file by file...
CleanDest(q) ==
  /\ upc[q] = "clean"
  /\ dirs' = [dirs EXCEPT ![q.dest] = IF @ \in {Absent, Empty} THEN @ ELSE Partial]
  /\ Goto(q, "cleaning")
  /\ UNCHANGED <<tx, result>> /\ NoFault

\* ...and then the directory.
CleanedDest(q) ==
  /\ upc[q] = "cleaning"
  /\ dirs' = [dirs EXCEPT ![q.dest] = Absent]
  /\ Goto(q, "mkdir")
  /\ UNCHANGED <<tx, result>> /\ NoFault

MakeDest(q) ==
  /\ upc[q] = "mkdir"
  /\ dirs' = [dirs EXCEPT ![q.dest] = IF @ = Absent THEN Empty ELSE @]
  /\ Goto(q, "unpack")
  /\ UNCHANGED <<tx, result>> /\ NoFault

-----------------------------------------------------------------------------
(* _handleTmpDir *)

\* The body is saved to the temporary file, unpacked and checked.  Without an
\* entry in the tarball "unpacked" is never created.
UnpackTar(q) ==
  /\ upc[q] = "unpack"
  /\ IF q.payload \in Valid
       THEN /\ tx' = [tx EXCEPT ![q].unpacked = IF q.payload = Void THEN Absent ELSE q.payload]
            /\ Goto(q, "backup")
            /\ UNCHANGED result
       ELSE /\ tx' = [tx EXCEPT ![q].unpacked = Partial]
            /\ Goto(q, "cleanup")
            /\ result' = [result EXCEPT ![q] = "invalid"]
  /\ UNCHANGED dirs /\ NoFault

RenameToBackup(q) ==
  /\ upc[q] = "backup"
  /\ tx' = [tx EXCEPT ![q].backup = dirs[q.dest]]
  /\ dirs' = [dirs EXCEPT ![q.dest] = Absent]
  /\ Goto(q, "swap")
  /\ UNCHANGED result /\ NoFault

\* rename(2) moves a directory that exists to a name that does not, or to an
\* empty directory.
CanRename(q) == tx[q].unpacked # Absent /\ dirs[q.dest] \in {Absent, Empty}

RenameUnpacked(q) ==
  /\ upc[q] = "swap"
  /\ CanRename(q)
  /\ dirs' = [dirs EXCEPT ![q.dest] = tx[q].unpacked]
  /\ tx' = [tx EXCEPT ![q].unpacked = Absent]
  /\ Goto(q, "cleanup")
  /\ UNCHANGED result /\ NoFault

\* Mutant: the error of the second rename is dropped.
RenameErrorDropped(q) ==
  /\ upc[q] = "swap"
  /\ IF CanRename(q) THEN Fault(q) ELSE NoFault
  /\ Goto(q, "cleanup")
  /\ UNCHANGED <<dirs, tx, result>>

\* Mutant: the error is the one of a broken directory for every caller.
RenameErrorAlwaysBroken(q) ==
  /\ upc[q] = "swap"
  /\ IF CanRename(q) THEN Fault(q) ELSE NoFault
  /\ Goto(q, "cleanup")
  /\ result' = [result EXCEPT ![q] = "broken"]
  /\ UNCHANGED <<dirs, tx>>

\* The second rename fails: by default the temporary directory is removed, a
\* caller with onTmpRenameError keeps it for the user.
RenameFails(q) ==
  /\ upc[q] = "swap"
  /\ IF CanRename(q) THEN Fault(q) ELSE NoFault
  /\ Goto(q, IF KeepTx THEN "broken" ELSE "cleanup")
  /\ result' = [result EXCEPT ![q] = "failed"]
  /\ UNCHANGED <<dirs, tx>>

\* The deferred removal of the temporary directory; an error is only logged.
Cleanup(q) ==
  /\ upc[q] = "cleanup"
  /\ \/ tx' = [tx EXCEPT ![q] = NoTx] /\ NoFault
     \/ Fault(q) /\ UNCHANGED tx
  /\ Goto(q, result[q])
  /\ UNCHANGED <<dirs, result>>

\* Any other call fails.  In onUnpackComplete, the error is the one of a tarball that
\* was refused.
UnpackFails(q) ==
  /\ upc[q] \in {"check", "clean", "cleaning", "mkdir", "unpack", "backup"}
  /\ Fault(q)
  /\ Goto(q, IF upc[q] \in {"unpack", "backup"} THEN "cleanup" ELSE "failed")
  /\ \E how \in {"failed"} \cup (IF upc[q] = "unpack" /\ q.payload \in Valid THEN {"invalid"} ELSE {}) :
       result' = [result EXCEPT ![q] = how]
  /\ UNCHANGED <<dirs, tx>>

UnpackStep(q) ==
  \/ CheckDest(q) \/ CleanDest(q) \/ CleanedDest(q) \/ MakeDest(q)
  \/ UnpackTar(q) \/ RenameToBackup(q) \/ RenameUnpacked(q)
  \/ RenameFails(q) \/ Cleanup(q) \/ UnpackFails(q)

=============================================================================
