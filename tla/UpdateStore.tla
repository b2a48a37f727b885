---------------------------- MODULE UpdateStore -----------------------------
(***************************************************************************)
(* Creating and deleting updates: a row in the database and a directory    *)
(* with the update's content.                                              *)
(*                                                                         *)
(* CreateUpdate looks the name up, unpacks the upload and inserts the row; *)
(* DeleteUpdate deletes the row and removes the directory.  Neither holds a *)
(* lock between its steps.  Whether an update is in use by a device, which  *)
(* makes DELETE fail on the row, is in module Rollouts.                     *)
(***************************************************************************)
EXTENDS Unpack, Tarball

CONSTANTS
  Deletes,        \* the DELETE requests that may arrive, once each
  NoRow           \* the update has no row

ASSUME StoreAssumption ==
  /\ Deletes \subseteq [id : Nat, dest : Dests]
  /\ NoRow \notin Uploads
  /\ DOMAIN Tarballs = Payloads
  /\ Void \in Payloads => Tarballs[Void].entries = <<>>
  /\ Valid = Acceptable

VARIABLES
  rows,  \* updates table: the upload that inserted the row
  dpc,   \* where each DELETE is
  crossed  \* auxiliary: updates with a DELETE beside an upload

vars == <<dirs, tx, upc, result, hit, faults, rows, dpc, crossed>>

Init ==
  /\ UnpackInit
  /\ dirs = [u \in Dests |-> Absent]
  /\ rows = [u \in Dests |-> NoRow]
  /\ dpc = [x \in Deletes |-> "idle"]
  /\ crossed = {}

-----------------------------------------------------------------------------
\* An upload or a DELETE of the update is running.
UploadRuns(u) ==
  \E q \in Uploads : q.dest = u /\ upc[q] \in Unpacking \cup {"unpacked", "log"}

DeleteRuns(u) == \E x \in Deletes : x.dest = u /\ dpc[x] \in {"remove", "removing"}

\* CreateUpdate: the uniqueness check.  The code leaves it to the user not to
\* upload the same update twice at a time.
GetUpdate(q) ==
  /\ upc[q] = "idle"
  /\ ~UploadRuns(q.dest)
  /\ Goto(q, IF rows[q.dest] = NoRow THEN "check" ELSE "conflict")
  /\ crossed' = IF DeleteRuns(q.dest) THEN crossed \cup {q.dest} ELSE crossed
  /\ UNCHANGED <<dirs, tx, result, rows, dpc>> /\ NoFault

\* SaveUpload has returned without an error: the row is inserted.
UpdateInsert(q) ==
  /\ upc[q] = "unpacked"
  /\ \/ /\ rows[q.dest] = NoRow
        /\ rows' = [rows EXCEPT ![q.dest] = q]
        /\ Goto(q, "log")
        /\ NoFault
     \/ /\ rows[q.dest] # NoRow
        /\ Goto(q, "conflict")
        /\ UNCHANGED rows /\ NoFault
     \/ /\ Goto(q, "failed")
        /\ Fault(q)
        /\ UNCHANGED rows
  /\ UNCHANGED <<dirs, tx, result, dpc, crossed>>

\* An empty rollouts log is created in the update's directory, which is made if
\* it does not exist.  Errors are ignored.
AppendLog(q) ==
  /\ upc[q] = "log"
  /\ \/ /\ dirs' = [dirs EXCEPT ![q.dest] = IF @ \in {Absent, Empty} THEN Partial ELSE @]
        /\ NoFault
     \/ Fault(q) /\ UNCHANGED dirs
  /\ Goto(q, "created")
  /\ UNCHANGED <<tx, result, rows, dpc, crossed>>

\* updateCreate: how the handler answers; 0 while it has not or if it died.  Only the
\* errors of onUnpackComplete are ErrInvalidUpdate: a tarball that does not unpack is
\* answered like a fault.
Answer(q) ==
  CASE upc[q] = "created" -> 201
    [] upc[q] = "invalid" -> IF Unpacks(Tarballs[q.payload].entries) THEN 400 ELSE 500
    [] upc[q] = "conflict" -> 409
    [] upc[q] = "failed" -> 500
    [] OTHER -> 0

-----------------------------------------------------------------------------
(* DeleteUpdate *)

\* Mutant: the directory goes before the row.
DeleteRowLast(x) ==
  /\ dpc[x] = "idle"
  /\ crossed' = IF UploadRuns(x.dest) THEN crossed \cup {x.dest} ELSE crossed
  /\ rows[x.dest] # NoRow
  /\ dirs' = [dirs EXCEPT ![x.dest] = Absent]
  /\ dpc' = [dpc EXCEPT ![x] = "remove"]
  /\ UNCHANGED <<tx, upc, result, rows>> /\ NoFault

DeleteRow(x) ==
  /\ dpc[x] = "idle"
  /\ crossed' = IF UploadRuns(x.dest) THEN crossed \cup {x.dest} ELSE crossed
  /\ rows' = [rows EXCEPT ![x.dest] = NoRow]
  /\ dpc' = [dpc EXCEPT ![x] = IF rows[x.dest] = NoRow THEN "done" ELSE "remove"]
  /\ UNCHANGED <<dirs, tx, upc, result>> /\ NoFault

\* os.RemoveAll takes the contents away file by file, then the directory.
RemoveContent(x) ==
  /\ dpc[x] = "remove"
  /\ dirs' = [dirs EXCEPT ![x.dest] = IF @ \in {Absent, Empty} THEN @ ELSE Partial]
  /\ dpc' = [dpc EXCEPT ![x] = "removing"]
  /\ UNCHANGED <<tx, upc, result, rows, crossed>> /\ NoFault

\* A directory that an upload has moved in meanwhile is not removed: error.
RemoveDir(x) ==
  /\ dpc[x] = "removing"
  /\ dirs' = [dirs EXCEPT ![x.dest] = IF @ \in Payloads THEN @ ELSE Absent]
  /\ dpc' = [dpc EXCEPT ![x] = "done"]
  /\ UNCHANGED <<tx, upc, result, rows, crossed>> /\ NoFault

RemoveFails(x) ==
  /\ dpc[x] \in {"remove", "removing"}
  /\ faults < MaxFaults /\ faults' = faults + 1
  /\ dpc' = [dpc EXCEPT ![x] = "done"]
  /\ UNCHANGED <<dirs, tx, upc, result, hit, rows, crossed>>

-----------------------------------------------------------------------------
\* The process dies: the temporary directories of its uploads stay behind.
Restart ==
  LET lost == {q \in Uploads : upc[q] \in Unpacking \cup {"unpacked", "log"}}
  IN  /\ faults < MaxFaults /\ faults' = faults + 1
      /\ hit' = hit \cup lost
      /\ upc' = [q \in Uploads |-> IF q \in lost THEN "dead" ELSE upc[q]]
      /\ dpc' = [x \in Deletes |-> IF dpc[x] = "idle" THEN "idle" ELSE "done"]
      /\ UNCHANGED <<dirs, tx, result, rows, crossed>>

CreateStep(q) ==
  \/ GetUpdate(q)
  \/ UnpackStep(q) /\ UNCHANGED <<rows, dpc, crossed>>
  \/ UpdateInsert(q)
  \/ AppendLog(q)

DeleteStep(x) == DeleteRow(x) \/ RemoveContent(x) \/ RemoveDir(x) \/ RemoveFails(x)

Next ==
  \/ \E q \in Uploads : CreateStep(q)
  \/ \E x \in Deletes : DeleteStep(x)
  \/ Restart

Spec == Init /\ [][Next]_vars

-----------------------------------------------------------------------------
(* Properties *)

\* Every variable stays in its domain.
TypeOK ==
  /\ dirs \in [Dests -> Contents]
  /\ tx \in [Uploads -> TxDirs]
  /\ upc \in [Uploads -> Unpacking \cup Ended \cup {"idle", "unpacked", "log", "created", "conflict"}]
  /\ result \in [Uploads -> {"unpacked", "invalid", "failed"}]
  /\ hit \subseteq Uploads
  /\ faults \in 0..MaxFaults
  /\ rows \in [Dests -> Uploads \cup {NoRow}]
  /\ crossed \subseteq Dests
  /\ dpc \in [Deletes -> {"idle", "remove", "removing", "done"}]

\* What CreateUpdate's comment calls the two-phase transaction: an update that
\* the database knows has the whole content of the upload that created it,
\* whatever call failed and wherever the process died, unless it was deleted
\* beside an upload: nothing keeps the removal off the new content.
RowHasContent ==
  \A u \in Dests : rows[u] # NoRow /\ u \notin crossed => dirs[u] = rows[u].payload

\* The upload of a tarball that is a valid update, within all limits, is refused or
\* fails only because something failed under it: what earlier uploads and deletes of
\* the name left on disk does not stand in its way, only a DELETE that runs beside it
\* (updateCreate, _checkDestDir).
FailsOnlyByFault ==
  \A q \in Uploads :
    Answer(q) \in {400, 500} /\ q.payload \in Valid => q \in hit \/ q.dest \in crossed

\* What _unpackTar has put into the temporary directory of an upload, be the
\* tarball accepted or refused and whatever its entries repeat or share, stays
\* within the configured limits: no file lies outside of the directory, and the
\* blocks, bytes and entries on disk are at most the ones allowed.
UnpackedWithinLimits ==
  /\ \A q \in Uploads :
       tx[q].unpacked # Absent => WithinLimits(unpackEntries(Tarballs[q.payload].entries))
  /\ SamplesWithinLimits

=============================================================================
