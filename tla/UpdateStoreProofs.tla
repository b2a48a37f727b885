------------------------- MODULE UpdateStoreProofs --------------------------
(***************************************************************************)
(* Proofs about the two callers of unpackTar: the creation and deletion of *)
(* updates, for any updates, uploads, tarballs and DELETEs, and the upload *)
(* of the configs directory, both for any number of failing calls and      *)
(* crashes.                                                                *)
(***************************************************************************)
EXTENDS UpdateStore, ConfigUpload, FiniteSetTheorems, NaturalsInduction, WellFoundedInduction, TLAPS

-----------------------------------------------------------------------------
(* The inductive invariant *)

InUnpackTar == Unpacking \cup {"unpacked"}
Creating == InUnpackTar \cup {"log"}

\* Uploads to one destination come one after the other.
OneUpload ==
  \A p, q \in Uploads :
    p.dest = q.dest /\ upc[p] \in Creating /\ upc[q] \in Creating => p = q

\* The row is only inserted after the unpacking: there is none before.
NoRowYet == \A q \in Uploads : upc[q] \in InUnpackTar => rows[q.dest] = NoRow

\* An upload and a DELETE that run side by side are on record, and as long as none
\* have, the row is gone while its directory is removed.
CrossedRecorded ==
  \A x \in Deletes :
    /\ dpc[x] \in {"remove", "removing"}
    /\ x.dest \notin crossed
    => rows[x.dest] = NoRow /\ \A q \in Uploads : q.dest = x.dest => upc[q] \notin Creating

\* unpackTar has no error to return until a step fails, and what it has unpacked and
\* checked is in the temporary directory.
TempDirReady(q) ==
  /\ upc[q] \in (Unpacking \ {"cleanup"}) \cup {"idle"} => result[q] = "unpacked"
  /\ upc[q] \in {"backup", "swap"} =>
       /\ q.payload \in Valid
       /\ tx[q].unpacked = IF q.payload = Void THEN Absent ELSE q.payload

\* The destination out of the way, and then the contents in place.
SwappedIn(q) ==
  /\ upc[q] = "swap" => dirs[q.dest] = Absent
  /\ upc[q] = "unpacked" \/ (upc[q] = "cleanup" /\ result[q] = "unpacked")
       => dirs[q.dest] = q.payload

\* unpackTar has returned an error that is not the tarball's, or will.
Failing(q) == upc[q] \in {"failed", "broken"} \/ (upc[q] = "cleanup" /\ result[q] = "failed")

\* Nothing to move into place: a tarball without entries that passes the check.
NothingUnpacked(q) == q.payload = Void /\ Void \in Valid

\* An error has a cause.
FailedByFault ==
  \A q \in Uploads : Failing(q) => q \in hit \/ q.dest \in crossed

Prepared == \A q \in Uploads : TempDirReady(q)

Swapped == \A q \in Uploads : q.dest \notin crossed => SwappedIn(q)

StoreInv ==
  /\ TypeOK
  /\ OneUpload
  /\ NoRowYet
  /\ CrossedRecorded
  /\ Prepared
  /\ Swapped
  /\ FailedByFault
  /\ RowHasContent

-----------------------------------------------------------------------------
\* A tarball without entries has none of the directories that an update must
\* have: the check refuses it.
LEMMA VoidRefused == Void \notin Valid
<1> SUFFICES ASSUME Void \in Valid
             PROVE  FALSE
  OBVIOUS
<1>1. Void \in Payloads /\ SaveUpload(Tarballs[Void].entries, Tarballs[Void].tag)
  BY StoreAssumption DEF Acceptable
<1>2. Tarballs[Void].entries = <<>>
  BY <1>1, StoreAssumption
<1>3. ASSUME NEW dir
      PROVE  ~Saw(<<>>, dir)
  BY DEF Saw
<1> QED
  BY <1>1, <1>2, <1>3 DEF SaveUpload

-----------------------------------------------------------------------------
(* Type correctness *)

\* The variables of unpackTar in their domains, for a caller whose uploads go
\* through the given places.
UnpackTypes(places) ==
  /\ dirs \in [Dests -> Contents]
  /\ tx \in [Uploads -> TxDirs]
  /\ upc \in [Uploads -> places]
  /\ result \in [Uploads -> {"unpacked", "invalid", "failed"}]
  /\ hit \subseteq Uploads
  /\ faults \in 0..MaxFaults

\* A step of unpackTar touches its own upload and destination only, and leaves its
\* variables in their domains.
LEMMA UnpackFrame ==
  ASSUME NEW places, Unpacking \cup Ended \cup {"unpacked"} \subseteq places,
         UnpackTypes(places), NEW q \in Uploads, UnpackStep(q)
  PROVE  /\ upc[q] \in Unpacking /\ upc'[q] \in Unpacking \cup Ended \cup {"unpacked"}
         /\ \A p \in Uploads \ {q} : upc'[p] = upc[p] /\ result'[p] = result[p] /\ tx'[p] = tx[p]
         /\ \A d \in Dests \ {q.dest} : dirs'[d] = dirs[d]
         /\ hit \subseteq hit'
         /\ UnpackTypes(places)'
<1> USE DEF UnpackTypes, NoFault, Goto
<1>0. /\ q.dest \in Dests /\ q.payload \in Contents /\ dirs[q.dest] \in Contents
      /\ {Absent, Empty, Partial} \subseteq Contents
      /\ tx[q] \in TxDirs
  BY UnpackAssumption DEF Contents
<1>1. CASE CheckDest(q) \/ CleanDest(q) \/ CleanedDest(q) \/ MakeDest(q)
  BY <1>0, <1>1 DEF CheckDest, CleanDest, CleanedDest, MakeDest, Unpacking
<1>2. CASE UnpackTar(q)
  <2>1. \A c \in Contents : [tx[q] EXCEPT !.unpacked = c] \in TxDirs
    BY <1>0 DEF TxDirs
  <2>2. tx' \in [Uploads -> TxDirs] /\ \A p \in Uploads \ {q} : tx'[p] = tx[p]
    BY <1>0, <1>2, <2>1 DEF UnpackTar
  <2> QED
    BY <1>0, <1>2, <2>2 DEF UnpackTar, Unpacking
<1>3. CASE RenameToBackup(q)
  <2>1. [tx[q] EXCEPT !.backup = dirs[q.dest]] \in TxDirs
    BY <1>0 DEF TxDirs
  <2>2. tx' \in [Uploads -> TxDirs] /\ \A p \in Uploads \ {q} : tx'[p] = tx[p]
    BY <1>3, <2>1 DEF RenameToBackup
  <2> QED
    BY <1>0, <1>3, <2>2 DEF RenameToBackup, Unpacking
<1>4. CASE RenameUnpacked(q)
  <2>1. [tx[q] EXCEPT !.unpacked = Absent] \in TxDirs /\ tx[q].unpacked \in Contents
    BY <1>0 DEF TxDirs
  <2>2. tx' \in [Uploads -> TxDirs] /\ \A p \in Uploads \ {q} : tx'[p] = tx[p]
    BY <1>4, <2>1 DEF RenameUnpacked
  <2> QED
    BY <1>0, <1>4, <2>1, <2>2 DEF RenameUnpacked, Unpacking
<1>5. ASSUME Fault(q)
      PROVE  hit' \subseteq Uploads /\ hit \subseteq hit' /\ faults' \in 0..MaxFaults
  BY <1>5, UnpackAssumption DEF Fault
<1>6. CASE RenameFails(q)
  BY <1>5, <1>6 DEF RenameFails, Unpacking, Ended
<1>7. CASE Cleanup(q)
  <2>1. NoTx \in TxDirs
    BY <1>0 DEF NoTx, TxDirs
  <2>2. tx' \in [Uploads -> TxDirs] /\ \A p \in Uploads \ {q} : tx'[p] = tx[p]
    BY <1>7, <2>1 DEF Cleanup
  <2> QED
    BY <1>5, <1>7, <2>2 DEF Cleanup, Unpacking, Ended
<1>8. CASE UnpackFails(q)
  BY <1>5, <1>8 DEF UnpackFails, Unpacking, Ended
<1> QED
  BY <1>1, <1>2, <1>3, <1>4, <1>6, <1>7, <1>8 DEF UnpackStep

StorePlaces == Unpacking \cup Ended \cup {"idle", "unpacked", "log", "created", "conflict"}

\* Every step keeps every variable in its domain.
LEMMA StoreTypeStep ==
  ASSUME TypeOK, [Next]_vars
  PROVE  TypeOK'
<1> USE DEF TypeOK, NoFault, Goto
<1>0. ASSUME NEW q \in Uploads
      PROVE  q.dest \in Dests
  BY UnpackAssumption
<1>1. ASSUME NEW q \in Uploads, Fault(q)
      PROVE  hit' \subseteq Uploads /\ faults' \in 0..MaxFaults
  BY <1>1, UnpackAssumption DEF Fault
<1>2. ASSUME NEW q \in Uploads, GetUpdate(q)
      PROVE  TypeOK'
  BY <1>0, <1>2 DEF GetUpdate, Unpacking
<1>3. ASSUME NEW q \in Uploads, UnpackStep(q), UNCHANGED <<rows, dpc, crossed>>
      PROVE  TypeOK'
  <2>1. UnpackTypes(StorePlaces)'
    BY <1>3, UnpackFrame DEF UnpackTypes, StorePlaces
  <2> QED
    BY <1>3, <2>1 DEF UnpackTypes, StorePlaces
<1>4. ASSUME NEW q \in Uploads, UpdateInsert(q)
      PROVE  TypeOK'
  BY <1>0, <1>1, <1>4 DEF UpdateInsert, Ended
<1>5. ASSUME NEW q \in Uploads, AppendLog(q)
      PROVE  TypeOK'
  BY <1>0, <1>1, <1>5 DEF AppendLog, Contents
<1>6. ASSUME NEW x \in Deletes, DeleteStep(x)
      PROVE  TypeOK'
  <2>1. x.dest \in Dests
    BY StoreAssumption
  <2> QED
    BY <1>6, <2>1, UnpackAssumption DEF DeleteStep, DeleteRow, RemoveContent, RemoveDir, RemoveFails, Contents
<1>7. CASE Restart
  BY <1>7, UnpackAssumption DEF Restart, Ended
<1>8. CASE UNCHANGED vars
  BY <1>8 DEF vars
<1> QED
  BY <1>2, <1>3, <1>4, <1>5, <1>6, <1>7, <1>8 DEF Next, CreateStep

\* Every variable stays in its domain.
THEOREM StoreTypeCorrect == Spec => []TypeOK
<1>1. Init => TypeOK
  BY UnpackAssumption DEF Init, UnpackInit, TypeOK, NoTx, TxDirs, Contents
<1> QED
  BY <1>1, StoreTypeStep, PTL DEF Spec

-----------------------------------------------------------------------------
(* The two-phase transaction *)

\* What a step of unpackTar makes of its own upload: the destination is moved away
\* and the contents moved in, or an error is on its way that a fault has caused, or
\* the lack of anything to move in.
LEMMA UnpackOwn ==
  ASSUME NEW places, UnpackTypes(places), NEW q \in Uploads, UnpackStep(q), TempDirReady(q)
  PROVE  /\ TempDirReady(q)'
         /\ SwappedIn(q) => SwappedIn(q)'
         /\ SwappedIn(q) /\ (Failing(q) => q \in hit \/ NothingUnpacked(q))
              => (Failing(q)' => q \in hit' \/ NothingUnpacked(q))
<1> USE DEF UnpackTypes, NoFault, Goto, TempDirReady, SwappedIn, Failing
<1>0. q.dest \in Dests /\ q.payload \in Payloads /\ q.payload # Absent /\ tx[q] \in TxDirs
  BY UnpackAssumption
<1>1. CASE CheckDest(q) \/ CleanDest(q) \/ CleanedDest(q) \/ MakeDest(q)
  BY <1>1 DEF CheckDest, CleanDest, CleanedDest, MakeDest, Unpacking
<1>2. CASE UnpackTar(q)
  <2>1. q.payload \in Valid => tx'[q].unpacked = IF q.payload = Void THEN Absent ELSE q.payload
    BY <1>0, <1>2 DEF UnpackTar, TxDirs
  <2> QED
    BY <1>2, <2>1 DEF UnpackTar, Unpacking
<1>3. CASE RenameToBackup(q)
  <2>1. tx'[q].unpacked = tx[q].unpacked
    BY <1>0, <1>3 DEF RenameToBackup, TxDirs
  <2> QED
    BY <1>0, <1>3, <2>1 DEF RenameToBackup, Unpacking
<1>4. CASE RenameUnpacked(q)
  <2>1. tx[q].unpacked = q.payload
    BY <1>4 DEF RenameUnpacked, CanRename
  <2> QED
    BY <1>0, <1>4, <2>1 DEF RenameUnpacked, Unpacking
<1>5. CASE RenameFails(q)
  <2>1. SwappedIn(q) => q \in hit' \/ NothingUnpacked(q)
    BY <1>0, <1>5 DEF RenameFails, CanRename, Fault, NothingUnpacked
  <2> QED
    BY <1>5, <2>1 DEF RenameFails, Unpacking
<1>6. CASE Cleanup(q)
  BY <1>6 DEF Cleanup, Fault, Unpacking, NothingUnpacked
<1>7. CASE UnpackFails(q)
  BY <1>7 DEF UnpackFails, Fault, Unpacking
<1> QED
  BY <1>1, <1>2, <1>3, <1>4, <1>5, <1>6, <1>7 DEF UnpackStep

\* A step of unpackTar keeps the invariant: there is no row yet whose content it
\* could disturb, and no other upload to its destination.
LEMMA UnpackInv ==
  ASSUME StoreInv, NEW q \in Uploads, UnpackStep(q), UNCHANGED <<rows, dpc, crossed>>
  PROVE  StoreInv'
<1>0. UnpackTypes(StorePlaces) /\ Unpacking \cup Ended \cup {"unpacked"} \subseteq StorePlaces
  BY DEF StoreInv, TypeOK, UnpackTypes, StorePlaces
<1>1. /\ upc[q] \in Unpacking /\ upc'[q] \in Unpacking \cup Ended \cup {"unpacked"}
      /\ \A p \in Uploads \ {q} : upc'[p] = upc[p] /\ result'[p] = result[p] /\ tx'[p] = tx[p]
      /\ \A d \in Dests \ {q.dest} : dirs'[d] = dirs[d]
      /\ hit \subseteq hit'
  BY <1>0, UnpackFrame
<1>2. TypeOK'
  BY StoreTypeStep DEF StoreInv, Next, CreateStep
<1>3. upc[q] \in Creating /\ rows[q.dest] = NoRow
  BY <1>1 DEF StoreInv, NoRowYet, Creating, InUnpackTar
<1>4. OneUpload'
  BY <1>1, <1>3 DEF StoreInv, OneUpload
<1>5. NoRowYet' /\ CrossedRecorded'
  BY <1>1, <1>3 DEF StoreInv, NoRowYet, CrossedRecorded
<1>own. /\ TempDirReady(q)'
        /\ SwappedIn(q) => SwappedIn(q)'
        /\ SwappedIn(q) /\ (Failing(q) => q \in hit \/ NothingUnpacked(q))
             => (Failing(q)' => q \in hit' \/ NothingUnpacked(q))
  BY <1>0, UnpackOwn DEF StoreInv, Prepared
<1>6. Prepared'
  BY <1>1, <1>own DEF StoreInv, Prepared, TempDirReady
<1>7. \A p \in Uploads \ {q} : upc[p] \in Creating => p.dest # q.dest /\ p.dest \in Dests
  BY <1>3, UnpackAssumption DEF StoreInv, OneUpload
<1>8. Swapped'
  <2> SUFFICES ASSUME NEW p \in Uploads \ {q}, p.dest \notin crossed
               PROVE  SwappedIn(p)'
    BY <1>own DEF StoreInv, Swapped
  <2>1. upc[p] \in Creating => dirs'[p.dest] = dirs[p.dest]
    BY <1>1, <1>7
  <2> QED
    BY <1>1, <2>1 DEF StoreInv, Swapped, SwappedIn, Creating, InUnpackTar, Unpacking
<1>9. FailedByFault'
  <2>1. q.dest \notin crossed => (Failing(q)' => q \in hit')
    <3>1. ~NothingUnpacked(q)
      BY VoidRefused DEF NothingUnpacked
    <3> QED
      BY <1>own, <3>1 DEF StoreInv, Swapped, FailedByFault
  <2>2. \A p \in Uploads \ {q} : Failing(p)' <=> Failing(p)
    BY <1>1 DEF Failing
  <2> QED
    BY <1>1, <2>1, <2>2 DEF StoreInv, FailedByFault
<1>10. RowHasContent'
  BY <1>1, <1>3 DEF StoreInv, RowHasContent
<1> QED
  BY <1>2, <1>4, <1>5, <1>6, <1>8, <1>9, <1>10 DEF StoreInv

\* The uniqueness check: an upload goes on only if the update has no row and no
\* other upload of it runs.
LEMMA GetUpdateInv ==
  ASSUME StoreInv, NEW q \in Uploads, GetUpdate(q)
  PROVE  StoreInv'
<1>1. /\ upc[q] = "idle" /\ \A p \in Uploads \ {q} : upc'[p] = upc[p]
      /\ upc'[q] = (IF rows[q.dest] = NoRow THEN "check" ELSE "conflict")
      /\ \A p \in Uploads : p.dest = q.dest => upc[p] \notin Creating
      /\ crossed' = (IF DeleteRuns(q.dest) THEN crossed \cup {q.dest} ELSE crossed)
      /\ UNCHANGED <<dirs, tx, result, rows, dpc, hit>>
  BY DEF GetUpdate, Goto, NoFault, StoreInv, TypeOK, UploadRuns, Creating, InUnpackTar
<1>2. TypeOK'
  BY StoreTypeStep DEF StoreInv, Next, CreateStep
<1>3. OneUpload'
  BY <1>1 DEF StoreInv, OneUpload
<1>4. NoRowYet'
  BY <1>1 DEF StoreInv, NoRowYet, InUnpackTar, Unpacking
<1>5. CrossedRecorded'
  <2> SUFFICES ASSUME NEW x \in Deletes, dpc[x] \in {"remove", "removing"}, x.dest \notin crossed'
               PROVE  rows[x.dest] = NoRow /\ \A p \in Uploads : p.dest = x.dest => upc'[p] \notin Creating
    BY <1>1 DEF CrossedRecorded
  <2>1. x.dest # q.dest /\ x.dest \notin crossed
    BY <1>1 DEF DeleteRuns
  <2> QED
    BY <1>1, <2>1 DEF StoreInv, CrossedRecorded
<1>6. Prepared' /\ Swapped' /\ FailedByFault'
  BY <1>1 DEF StoreInv, Prepared, TempDirReady, Swapped, SwappedIn, FailedByFault, Failing
<1>7. RowHasContent'
  BY <1>1 DEF StoreInv, RowHasContent
<1> QED
  BY <1>2, <1>3, <1>4, <1>5, <1>6, <1>7 DEF StoreInv

\* The row is inserted while the contents of its upload are in place, and the log
\* that is added to them is no change of what the update has.
LEMMA InsertInv ==
  ASSUME StoreInv, NEW q \in Uploads, UpdateInsert(q)
  PROVE  StoreInv'
<1>1. /\ upc[q] = "unpacked" /\ \A p \in Uploads \ {q} : upc'[p] = upc[p]
      /\ \/ upc'[q] = "log" /\ rows' = [rows EXCEPT ![q.dest] = q] /\ hit' = hit
         \/ upc'[q] = "conflict" /\ rows' = rows /\ hit' = hit
         \/ upc'[q] = "failed" /\ rows' = rows /\ hit' = hit \cup {q}
      /\ UNCHANGED <<dirs, tx, result, dpc, crossed>>
  BY DEF UpdateInsert, Goto, NoFault, Fault, StoreInv, TypeOK
<1>2. TypeOK'
  BY StoreTypeStep DEF StoreInv, Next, CreateStep
<1>3. upc[q] \in Creating /\ q.dest \in Dests
  BY <1>1, UnpackAssumption DEF Creating, InUnpackTar
<1>4. \A d \in Dests : rows'[d] = rows[d] \/ (d = q.dest /\ rows'[d] = q)
  BY <1>1, <1>3 DEF StoreInv, TypeOK
<1>5. OneUpload'
  BY <1>1, <1>3 DEF StoreInv, OneUpload
<1>6. NoRowYet'
  <2> SUFFICES ASSUME NEW p \in Uploads, upc'[p] \in InUnpackTar
               PROVE  rows'[p.dest] = NoRow
    BY DEF NoRowYet
  <2>1. p # q
    BY <1>1 DEF InUnpackTar, Unpacking
  <2>2. p.dest # q.dest /\ p.dest \in Dests
    BY <1>1, <1>3, <2>1, UnpackAssumption DEF StoreInv, OneUpload, Creating
  <2> QED
    BY <1>1, <1>4, <2>1, <2>2 DEF StoreInv, NoRowYet
<1>7. CrossedRecorded'
  <2> SUFFICES ASSUME NEW x \in Deletes, dpc[x] \in {"remove", "removing"}, x.dest \notin crossed
               PROVE  rows'[x.dest] = NoRow /\ \A p \in Uploads : p.dest = x.dest => upc'[p] \notin Creating
    BY <1>1 DEF CrossedRecorded
  <2>1. x.dest # q.dest /\ x.dest \in Dests
    BY <1>3, StoreAssumption DEF StoreInv, CrossedRecorded
  <2> QED
    BY <1>1, <1>4, <2>1 DEF StoreInv, CrossedRecorded
<1>8. Prepared' /\ Swapped' /\ FailedByFault'
  BY <1>1 DEF StoreInv, Prepared, TempDirReady, Swapped, SwappedIn, FailedByFault, Failing, Unpacking
<1>9. RowHasContent'
  BY <1>1, <1>4 DEF StoreInv, RowHasContent, Swapped, SwappedIn
<1> QED
  BY <1>2, <1>5, <1>6, <1>7, <1>8, <1>9 DEF StoreInv

\* Adding the log to an update's directory disturbs neither its contents nor
\* another upload.
LEMMA AppendLogInv ==
  ASSUME StoreInv, NEW q \in Uploads, AppendLog(q)
  PROVE  StoreInv'
<1>1. /\ upc[q] = "log" /\ upc'[q] = "created" /\ \A p \in Uploads \ {q} : upc'[p] = upc[p]
      /\ \A d \in Dests : dirs'[d] = dirs[d] \/ (d = q.dest /\ dirs[d] \in {Absent, Empty})
      /\ hit \subseteq hit'
      /\ UNCHANGED <<tx, result, rows, dpc, crossed>>
  BY DEF AppendLog, Goto, NoFault, Fault, StoreInv, TypeOK
<1>2. TypeOK'
  BY StoreTypeStep DEF StoreInv, Next, CreateStep
<1>3. upc[q] \in Creating /\ upc'[q] \notin Creating
  BY <1>1 DEF Creating, InUnpackTar, Unpacking
<1>4. OneUpload' /\ NoRowYet' /\ CrossedRecorded'
  BY <1>1, <1>3 DEF StoreInv, OneUpload, NoRowYet, CrossedRecorded, Creating
<1>5. Prepared' /\ FailedByFault'
  BY <1>1 DEF StoreInv, Prepared, TempDirReady, FailedByFault, Failing, Unpacking
<1>6. Swapped'
  <2> SUFFICES ASSUME NEW p \in Uploads \ {q}, p.dest \notin crossed
               PROVE  /\ upc[p] = "swap" => dirs'[p.dest] = Absent
                      /\ upc[p] = "unpacked" \/ (upc[p] = "cleanup" /\ result[p] = "unpacked")
                           => dirs'[p.dest] = p.payload
    BY <1>1 DEF Swapped, SwappedIn
  <2>1. upc[p] \in Creating => p.dest # q.dest /\ p.dest \in Dests
    BY <1>3, UnpackAssumption DEF StoreInv, OneUpload
  <2>2. upc[p] \in Creating => dirs'[p.dest] = dirs[p.dest]
    BY <1>1, <2>1
  <2> QED
    BY <2>2 DEF StoreInv, Swapped, SwappedIn, Creating, InUnpackTar, Unpacking
<1>7. RowHasContent'
  <2> SUFFICES ASSUME NEW u \in Dests, rows[u] # NoRow, u \notin crossed
               PROVE  dirs'[u] = rows[u].payload
    BY <1>1 DEF RowHasContent
  <2>1. dirs[u] = rows[u].payload /\ rows[u] \in Uploads
    BY DEF StoreInv, RowHasContent, TypeOK
  <2>2. dirs[u] \notin {Absent, Empty}
    BY <2>1, UnpackAssumption
  <2> QED
    BY <1>1, <2>1, <2>2
<1> QED
  BY <1>2, <1>4, <1>5, <1>6, <1>7 DEF StoreInv

\* DeleteUpdate: the row goes first, and the directory is only removed while the
\* update has none, or beside an upload that is on record.
LEMMA DeleteInv ==
  ASSUME StoreInv, NEW x \in Deletes, DeleteStep(x)
  PROVE  StoreInv'
<1>0. x.dest \in Dests
  BY StoreAssumption
<1>1. TypeOK' /\ UNCHANGED <<tx, upc, result, hit>>
  BY StoreTypeStep DEF StoreInv, Next, DeleteStep, DeleteRow, RemoveContent, RemoveDir,
                       RemoveFails, NoFault
<1>2. CASE DeleteRow(x)
  <2>1. /\ rows' = [rows EXCEPT ![x.dest] = NoRow]
        /\ \A y \in Deletes \ {x} : dpc'[y] = dpc[y]
        /\ crossed \subseteq crossed'
        /\ UploadRuns(x.dest) => x.dest \in crossed'
        /\ dirs' = dirs
    BY <1>2 DEF DeleteRow, StoreInv, TypeOK
  <2>2. \A d \in Dests : rows'[d] = (IF d = x.dest THEN NoRow ELSE rows[d])
    BY <1>0, <2>1 DEF StoreInv, TypeOK
  <2>3. OneUpload' /\ Prepared' /\ Swapped' /\ FailedByFault'
    BY <1>1, <2>1 DEF StoreInv, OneUpload, Prepared, TempDirReady, Swapped, SwappedIn, FailedByFault, Failing
  <2>4. NoRowYet'
    BY <1>1, <2>2, UnpackAssumption DEF StoreInv, NoRowYet
  <2>5. CrossedRecorded'
    <3> SUFFICES ASSUME NEW y \in Deletes, dpc'[y] \in {"remove", "removing"}, y.dest \notin crossed'
                 PROVE  rows'[y.dest] = NoRow /\ \A p \in Uploads : p.dest = y.dest => upc[p] \notin Creating
      BY <1>1 DEF CrossedRecorded
    <3>1. y.dest \in Dests
      BY StoreAssumption
    <3>2. CASE y.dest = x.dest
      BY <2>1, <2>2, <3>1, <3>2 DEF UploadRuns, Creating, InUnpackTar
    <3>3. CASE y.dest # x.dest
      BY <2>1, <2>2, <3>1, <3>3 DEF StoreInv, CrossedRecorded
    <3> QED
      BY <3>2, <3>3
  <2>6. RowHasContent'
    BY <2>1, <2>2 DEF StoreInv, RowHasContent
  <2> QED
    BY <1>1, <2>3, <2>4, <2>5, <2>6 DEF StoreInv
<1>3. CASE RemoveContent(x) \/ RemoveDir(x) \/ RemoveFails(x)
  <2>1. /\ dpc[x] \in {"remove", "removing"}
        /\ \A y \in Deletes : dpc'[y] \in {"remove", "removing"} => dpc[y] \in {"remove", "removing"}
        /\ \A d \in Dests \ {x.dest} : dirs'[d] = dirs[d]
        /\ UNCHANGED <<rows, crossed>>
    BY <1>3 DEF RemoveContent, RemoveDir, RemoveFails, StoreInv, TypeOK
  <2>2. OneUpload' /\ Prepared' /\ FailedByFault' /\ NoRowYet'
    BY <1>1, <2>1 DEF StoreInv, OneUpload, Prepared, TempDirReady, FailedByFault, Failing, NoRowYet
  <2>3. CrossedRecorded'
    BY <1>1, <2>1 DEF StoreInv, CrossedRecorded
  <2>4. x.dest \notin crossed =>
          rows[x.dest] = NoRow /\ \A q \in Uploads : q.dest = x.dest => upc[q] \notin Creating
    BY <2>1 DEF StoreInv, CrossedRecorded
  <2>5. Swapped'
    <3> SUFFICES ASSUME NEW q \in Uploads, q.dest \notin crossed
                 PROVE  /\ upc[q] = "swap" => dirs'[q.dest] = Absent
                        /\ upc[q] = "unpacked" \/ (upc[q] = "cleanup" /\ result[q] = "unpacked")
                             => dirs'[q.dest] = q.payload
      BY <1>1, <2>1 DEF Swapped, SwappedIn
    <3>1. upc[q] \in Creating => dirs'[q.dest] = dirs[q.dest]
      BY <2>1, <2>4, UnpackAssumption
    <3> QED
      BY <3>1 DEF StoreInv, Swapped, SwappedIn, Creating, InUnpackTar, Unpacking
  <2>6. RowHasContent'
    BY <2>1, <2>4 DEF StoreInv, RowHasContent
  <2> QED
    BY <1>1, <2>2, <2>3, <2>5, <2>6 DEF StoreInv
<1> QED
  BY <1>2, <1>3 DEF DeleteStep

\* A crash ends every upload and every DELETE where it is: what was not finished
\* has no row.
LEMMA RestartInv ==
  ASSUME StoreInv, Restart
  PROVE  StoreInv'
<1>1. /\ UNCHANGED <<dirs, tx, result, rows, crossed>> /\ hit \subseteq hit'
      /\ \A q \in Uploads : upc'[q] \notin Creating /\ (upc'[q] = upc[q] \/ upc'[q] = "dead")
      /\ \A x \in Deletes : dpc'[x] \notin {"remove", "removing"}
  BY DEF Restart, Creating, InUnpackTar, Unpacking
<1>2. TypeOK'
  BY StoreTypeStep DEF StoreInv, Next
<1>3. OneUpload' /\ NoRowYet' /\ CrossedRecorded'
  BY <1>1 DEF OneUpload, NoRowYet, CrossedRecorded, Creating
<1>4. Prepared' /\ Swapped' /\ FailedByFault'
  BY <1>1 DEF StoreInv, Prepared, TempDirReady, Swapped, SwappedIn, FailedByFault, Failing, Unpacking
<1>5. RowHasContent'
  BY <1>1 DEF StoreInv, RowHasContent
<1> QED
  BY <1>2, <1>3, <1>4, <1>5 DEF StoreInv

\* The inductive invariant holds in every state.
THEOREM StoreInvariant == Spec => []StoreInv
<1>1. Init => StoreInv
  <2> SUFFICES ASSUME Init
               PROVE  StoreInv
    OBVIOUS
  <2>1. TypeOK
    BY UnpackAssumption DEF Init, UnpackInit, TypeOK, NoTx, TxDirs, Contents
  <2> QED
    BY <2>1 DEF Init, UnpackInit, StoreInv, OneUpload, NoRowYet, CrossedRecorded, Prepared, TempDirReady, Swapped, SwappedIn, FailedByFault, Failing,
                RowHasContent, Creating, InUnpackTar, Unpacking
<1>2. StoreInv /\ [Next]_vars => StoreInv'
  <2>1. ASSUME StoreInv, UNCHANGED vars
        PROVE  StoreInv'
    BY <2>1 DEF vars, StoreInv, TypeOK, OneUpload, NoRowYet, CrossedRecorded, Prepared, TempDirReady, Swapped, SwappedIn, FailedByFault, Failing, RowHasContent
  <2> QED
    BY <2>1, UnpackInv, GetUpdateInv, InsertInv, AppendLogInv, DeleteInv, RestartInv
    DEF Next, CreateStep
<1> QED
  BY <1>1, <1>2, PTL DEF Spec

\* The two-phase transaction: an update that the database knows has the whole
\* content of its upload, whatever call failed and wherever the process died,
\* unless it was deleted beside an upload.
THEOREM KnownUpdatesHaveContent == Spec => []RowHasContent
<1>1. StoreInv => RowHasContent
  BY DEF StoreInv
<1> QED
  BY <1>1, StoreInvariant, PTL

\* A valid tarball is refused only by a fault.
RefusedForCause ==
  \A q \in Uploads : result[q] = "invalid" \/ upc[q] = "invalid" => q \in hit \/ q.payload \notin Valid

\* The check alone refuses, and nothing but the check and a fault in it.
LEMMA RefusedStep ==
  ASSUME TypeOK, RefusedForCause, [Next]_vars
  PROVE  RefusedForCause'
<1> USE DEF TypeOK, RefusedForCause, NoFault, Goto
<1>1. ASSUME NEW q \in Uploads, Fault(q)
      PROVE  hit' = hit \cup {q}
  BY <1>1 DEF Fault
<1>2. ASSUME NEW q \in Uploads, UnpackStep(q)
      PROVE  RefusedForCause'
  <2>1. CASE CheckDest(q) \/ CleanDest(q) \/ CleanedDest(q) \/ MakeDest(q)
    BY <2>1 DEF CheckDest, CleanDest, CleanedDest, MakeDest
  <2>2. CASE UnpackTar(q)
    BY <2>2 DEF UnpackTar
  <2>3. CASE RenameToBackup(q) \/ RenameUnpacked(q)
    BY <2>3 DEF RenameToBackup, RenameUnpacked
  <2>4. CASE RenameFails(q)
    BY <1>1, <2>4 DEF RenameFails
  <2>5. CASE Cleanup(q)
    BY <1>1, <2>5 DEF Cleanup
  <2>6. CASE UnpackFails(q)
    BY <1>1, <2>6 DEF UnpackFails
  <2> QED
    BY <1>2, <2>1, <2>2, <2>3, <2>4, <2>5, <2>6 DEF UnpackStep
<1>3. ASSUME NEW q \in Uploads, GetUpdate(q) \/ UpdateInsert(q) \/ AppendLog(q)
      PROVE  RefusedForCause'
  BY <1>1, <1>3 DEF GetUpdate, UpdateInsert, AppendLog
<1>4. ASSUME NEW x \in Deletes, DeleteStep(x)
      PROVE  RefusedForCause'
  BY <1>4 DEF DeleteStep, DeleteRow, RemoveContent, RemoveDir, RemoveFails
<1>5. CASE Restart
  BY <1>5 DEF Restart
<1>6. CASE UNCHANGED vars
  BY <1>6 DEF vars
<1> QED
  BY <1>2, <1>3, <1>4, <1>5, <1>6 DEF Next, CreateStep

\* No state that earlier uploads, DELETEs and crashes can leave on disk makes the
\* upload of a valid tarball fail: only a fault of its own or a DELETE beside it does.
THEOREM UploadsFailByFault == Spec => []FailsOnlyByFault
<1>1. StoreInv /\ RefusedForCause => FailsOnlyByFault
  <2> SUFFICES ASSUME StoreInv, RefusedForCause, NEW q \in Uploads, q.payload \in Valid,
                      Answer(q) \in {400, 500}
               PROVE  q \in hit \/ q.dest \in crossed
    BY DEF FailsOnlyByFault
  <2>1. upc[q] = "failed" \/ upc[q] = "invalid"
    BY DEF Answer
  <2> QED
    BY <2>1 DEF StoreInv, FailedByFault, Failing, RefusedForCause
<1>2. Init => RefusedForCause
  BY DEF Init, UnpackInit, RefusedForCause
<1>3. TypeOK /\ RefusedForCause /\ [Next]_vars => RefusedForCause'
  BY RefusedStep
<1> QED
  BY <1>1, <1>2, <1>3, StoreInvariant, StoreTypeCorrect, PTL DEF Spec

-----------------------------------------------------------------------------
(* The configs upload.  It has the constants and variables of unpackTar and *)
(* one constant of its own; nothing here rests on StoreAssumption.          *)

ConfigPlaces == Unpacking \cup Ended \cup {"idle", "unpacked", "done"}

\* Uploads come one at a time.
OneConfigsUpload ==
  \A p, q \in Uploads : upc[p] \in InUnpackTar /\ upc[q] \in InUnpackTar => p = q

\* Whatever the directory held, an upload fails only by a fault or for want of
\* entries.
ConfigsFailByFault ==
  \A q \in Uploads : Failing(q) => q \in hit \/ NothingUnpacked(q)

ConfigsInv ==
  /\ UnpackTypes(ConfigPlaces)
  /\ OneConfigsUpload
  /\ Prepared
  /\ \A q \in Uploads : SwappedIn(q)
  /\ ConfigsFailByFault

\* A step of unpackTar keeps the invariant of the configs upload: no other upload
\* is under way that it could disturb.
LEMMA ConfigsUnpackInv ==
  ASSUME ConfigsInv, NEW q \in Uploads, UnpackStep(q)
  PROVE  ConfigsInv'
<1>0. UnpackTypes(ConfigPlaces) /\ Unpacking \cup Ended \cup {"unpacked"} \subseteq ConfigPlaces
  BY DEF ConfigsInv, ConfigPlaces
<1>1. /\ upc[q] \in Unpacking /\ upc'[q] \in Unpacking \cup Ended \cup {"unpacked"}
      /\ \A p \in Uploads \ {q} : upc'[p] = upc[p] /\ result'[p] = result[p] /\ tx'[p] = tx[p]
      /\ hit \subseteq hit'
      /\ UnpackTypes(ConfigPlaces)'
  BY <1>0, UnpackFrame
<1>2. /\ TempDirReady(q)'
      /\ SwappedIn(q) => SwappedIn(q)'
      /\ SwappedIn(q) /\ (Failing(q) => q \in hit \/ NothingUnpacked(q))
           => (Failing(q)' => q \in hit' \/ NothingUnpacked(q))
  BY <1>0, UnpackOwn DEF ConfigsInv, Prepared
<1>3. OneConfigsUpload'
  BY <1>1 DEF ConfigsInv, OneConfigsUpload, InUnpackTar
<1>4. Prepared'
  BY <1>1, <1>2 DEF ConfigsInv, Prepared, TempDirReady
<1>5. ASSUME NEW p \in Uploads
      PROVE  SwappedIn(p)'
  <2>1. CASE p = q
    BY <1>2, <2>1 DEF ConfigsInv
  <2>2. CASE p # q
    <3>1. upc'[p] \notin InUnpackTar
      BY <1>1, <2>2 DEF ConfigsInv, OneConfigsUpload, InUnpackTar
    <3> QED
      BY <3>1 DEF SwappedIn, InUnpackTar, Unpacking
  <2> QED
    BY <2>1, <2>2
<1>6. ConfigsFailByFault'
  <2>1. \A p \in Uploads \ {q} : Failing(p)' <=> Failing(p)
    BY <1>1 DEF Failing
  <2> QED
    BY <1>1, <1>2, <2>1 DEF ConfigsInv, ConfigsFailByFault, NothingUnpacked
<1> QED
  BY <1>1, <1>3, <1>4, <1>5, <1>6 DEF ConfigsInv

\* The inductive invariant of the configs upload holds in every state, whatever
\* the configs directory held at first.
THEOREM ConfigsInvariant == ConfigsSpec => []ConfigsInv
<1>1. ConfigsInit => ConfigsInv
  <2> SUFFICES ASSUME ConfigsInit
               PROVE  ConfigsInv
    OBVIOUS
  <2>1. UnpackTypes(ConfigPlaces)
    BY UnpackAssumption, OldConfigsAssumption
    DEF ConfigsInit, UnpackInit, NoTx, UnpackTypes, TxDirs, Contents, ConfigPlaces
  <2>2. \A q \in Uploads : upc[q] = "idle" /\ result[q] = "unpacked"
    BY DEF ConfigsInit, UnpackInit
  <2> QED
    BY <2>1, <2>2 DEF ConfigsInv, OneConfigsUpload, Prepared, TempDirReady, SwappedIn,
       ConfigsFailByFault, Failing, InUnpackTar, Unpacking
<1>2. ConfigsInv /\ [ConfigsNext]_unpackVars => ConfigsInv'
  <2> SUFFICES ASSUME ConfigsInv, [ConfigsNext]_unpackVars
               PROVE  ConfigsInv'
    OBVIOUS
  <2> USE DEF Goto, NoFault, Running,
         UnpackTypes, ConfigPlaces, Prepared, TempDirReady, SwappedIn, ConfigsFailByFault,
         Failing, InUnpackTar, Unpacking, Ended
  <2>1. ASSUME NEW q \in Uploads, ConfigsUpload(q)
        PROVE  ConfigsInv'
    <3>1. /\ upc[q] = "idle" /\ upc' = [upc EXCEPT ![q] = "check"]
          /\ \A p \in Uploads : upc[p] \notin InUnpackTar
          /\ UNCHANGED <<dirs, tx, result, hit, faults>>
      BY <2>1 DEF ConfigsUpload
    <3>2. OneConfigsUpload'
      BY <3>1 DEF ConfigsInv, OneConfigsUpload
    <3> QED
      BY <3>1, <3>2 DEF ConfigsInv
  <2>2. ASSUME NEW q \in Uploads, UnpackStep(q)
        PROVE  ConfigsInv'
    BY <2>2, ConfigsUnpackInv
  <2>3. ASSUME NEW q \in Uploads, ConfigsAnswered(q)
        PROVE  ConfigsInv'
    <3>1. /\ upc[q] = "unpacked" /\ upc' = [upc EXCEPT ![q] = "done"]
          /\ UNCHANGED <<dirs, tx, result, hit, faults>>
      BY <2>3 DEF ConfigsAnswered
    <3>2. OneConfigsUpload'
      BY <3>1 DEF ConfigsInv, OneConfigsUpload
    <3> QED
      BY <3>1, <3>2 DEF ConfigsInv
  <2>4. CASE ConfigsRestart
    <3>1. /\ \A q \in Uploads : upc'[q] \notin InUnpackTar /\ (upc'[q] = upc[q] \/ upc'[q] = "dead")
          /\ upc' \in [Uploads -> ConfigPlaces]
          /\ hit \subseteq hit' /\ hit' \subseteq Uploads
          /\ UNCHANGED <<dirs, tx, result>>
      BY <2>4 DEF ConfigsRestart, ConfigsInv
    <3>2. faults' \in 0..MaxFaults
      BY <2>4, UnpackAssumption DEF ConfigsRestart, ConfigsInv
    <3>3. OneConfigsUpload'
      BY <3>1 DEF OneConfigsUpload
    <3> QED
      BY <3>1, <3>2, <3>3 DEF ConfigsInv
  <2>5. CASE UNCHANGED unpackVars
    BY <2>5 DEF unpackVars, ConfigsInv, OneConfigsUpload
  <2> QED
    BY <2>1, <2>2, <2>3, <2>4, <2>5 DEF ConfigsNext
<1> QED
  BY <1>1, <1>2, PTL DEF ConfigsSpec

\* "It can be fixed by uploading the same file again": no state that a failed,
\* broken or interrupted upload leaves makes an upload with entries fail.
THEOREM ConfigsCanBeRepaired == ConfigsSpec => []UploadRepairs
<1>1. ConfigsInv => UploadRepairs
  BY DEF ConfigsInv, ConfigsFailByFault, Failing, NothingUnpacked, UploadRepairs
<1> QED
  BY <1>1, ConfigsInvariant, PTL

\* An upload is answered with 200 only while its configs are the active ones.
THEOREM AnsweredConfigsAreActive == ConfigsSpec => AnsweredIsActive
<1>1. ConfigsInv => [\A q \in Uploads : upc[q] = "unpacked" /\ upc'[q] = "done"
                       => dirs[q.dest] = q.payload]_unpackVars
  BY DEF ConfigsInv, SwappedIn
<1> QED
  BY <1>1, ConfigsInvariant, PTL DEF ConfigsSpec, AnsweredIsActive

-----------------------------------------------------------------------------
(* Tarball: the walk over the entries.  Its loops are folds, and what one has after *)
(* any number of turns is found by induction on that number.                        *)

\* Every non-empty set of numbers has a least one: the form of induction that the
\* proofs about the walk over a tarball use.
LEMMA LeastNumber ==
  ASSUME NEW T, T \subseteq Nat, T # {}
  PROVE  \E n \in T : \A m \in T : n =< m
<1>1. PICK x \in T : \A y \in T : ~(<<y, x>> \in OpToRel(<, Nat))
  BY NatLessThanWellFounded, WFMin
<1>2. \A y \in T : ~(y < x)
  BY <1>1, x \in Nat, \A y \in T : y \in Nat DEF OpToRel
<1> QED
  BY <1>2

\* What AbsPathNoEscape does with one name of a path.
Climb(p, name) ==
  CASE ~p.ok \/ name = "." -> p
    [] p.ok /\ name = ".." /\ p.rel = <<>> -> [p EXCEPT !.ok = FALSE]
    [] p.ok /\ name = ".." /\ p.rel # <<>> -> [p EXCEPT !.rel = Front(@)]
    [] OTHER -> [p EXCEPT !.rel = Append(@, name)]

\* One step of each of the loops: over the entries of a tarball and over the names of
\* a path.
Turn(loop, acc, x) ==
  CASE loop = "entries" -> UnpackEntry(acc, x)
    [] loop = "names" -> Climb(acc, x)

TurnOf(it, loop, base, seq, s) ==
  IF s = {} THEN base ELSE Turn(loop, it[s \ {Max(s)}], seq[Max(s)])

\* it is what the loop has after the positions of each set of a family.
IsTurns(it, loop, base, seq, F) == it = [s \in F |-> TurnOf(it, loop, base, seq, s)]

LoopOf(loop, base, seq, l) == CHOOSE it : IsTurns(it, loop, base, seq, SUBSET (1 .. l))

\* The sets of at most n positions of a sequence of length l.
Few(l, n) == {s \in SUBSET (1 .. l) : Cardinality(s) =< n}

\* The last of some positions.
LEMMA MaxIs ==
  ASSUME NEW l \in Nat, NEW s \in SUBSET (1 .. l), s # {}
  PROVE  Max(s) \in s /\ \A y \in s : y =< Max(s)
<1> DEFINE T == {m \in Nat : \A y \in s : y =< m}
<1>1. T \subseteq Nat /\ l \in T
  OBVIOUS
<1>2. PICK m \in T : \A k \in T : m =< k
  <2> HIDE DEF T
  <2> QED
    BY <1>1, LeastNumber
<1>3. m \in s
  <2>1. SUFFICES ASSUME m \notin s PROVE FALSE
    OBVIOUS
  <2>2. PICK y \in s : TRUE
    OBVIOUS
  <2>3. m \in Nat /\ (\A z \in s : z \in Nat /\ z =< m /\ z # m) /\ m # 0
    BY <2>1, <2>2, <1>2
  <2>4. m - 1 \in T
    BY <2>3
  <2> HIDE DEF T
  <2> QED
    BY <2>3, <2>4, <1>2
<1>4. \E x \in s : \A y \in s : x >= y
  BY <1>2, <1>3
<1>5. Max(s) \in s /\ \A y \in s : Max(s) >= y
  BY <1>4 DEF Max
<1> QED
  BY <1>5

\* Positions are finitely many.
LEMMA PositionsFinite ==
  ASSUME NEW l \in Nat, NEW s \in SUBSET (1 .. l)
  PROVE  IsFiniteSet(s) /\ Cardinality(s) \in Nat /\ Cardinality(s) =< l
<1>1. IsFiniteSet(1 .. l) /\ Cardinality(1 .. l) = l
  BY 1 \in Int, l \in Int, FS_Interval
<1>2. IsFiniteSet(s) /\ Cardinality(s) =< l
  BY <1>1, FS_Subset
<1> QED
  BY <1>2, FS_CardinalityType

\* A loop over a sequence is defined.
LEMMA TurnsExist ==
  ASSUME NEW loop, NEW base, NEW seq, NEW l \in Nat, NEW n \in Nat
  PROVE  \E it : IsTurns(it, loop, base, seq, Few(l, n))
<1> DEFINE T == {m \in Nat : ~\E it : IsTurns(it, loop, base, seq, Few(l, m))}
<1>1. SUFFICES ASSUME T # {} PROVE FALSE
  OBVIOUS
<1>2. PICK m \in T : \A k \in T : m =< k
  <2>1. T \subseteq Nat /\ T # {}
    BY <1>1
  <2> HIDE DEF T
  <2> QED
    BY <2>1, LeastNumber
<1>3. \A s \in SUBSET (1 .. l) : IsFiniteSet(s) /\ Cardinality(s) \in Nat
  BY PositionsFinite
<1>4. m # 0
  <2>1. \A s \in Few(l, 0) : s = {}
    BY <1>3, FS_EmptySet DEF Few
  <2>2. IsTurns([s \in Few(l, 0) |-> base], loop, base, seq, Few(l, 0))
    BY <2>1 DEF IsTurns, TurnOf
  <2> QED
    BY <2>2
<1>5. PICK p \in Nat : m = p + 1 /\ p \notin T
  <2>1. m - 1 \in Nat /\ m = (m - 1) + 1 /\ m - 1 \notin T
    BY <1>2, <1>4
  <2> HIDE DEF T
  <2> QED
    BY <2>1
<1>6. PICK it : IsTurns(it, loop, base, seq, Few(l, p))
  BY <1>5
<1> DEFINE A == Few(l, p)  B == Few(l, p + 1)
           g == [s \in B |-> TurnOf(it, loop, base, seq, s)]
<1>7. \A s \in B : s # {} => s \ {Max(s)} \in A
  <2> SUFFICES ASSUME NEW s \in B, s # {} PROVE s \ {Max(s)} \in A
    OBVIOUS
  <2>1. s \in SUBSET (1 .. l) /\ Cardinality(s) =< p + 1 /\ IsFiniteSet(s) /\ Cardinality(s) \in Nat
    BY <1>3 DEF Few
  <2>2. Max(s) \in s
    BY <2>1, MaxIs
  <2>3. Cardinality(s \ {Max(s)}) = Cardinality(s) - 1
    BY <2>1, <2>2, FS_RemoveElement
  <2>4. Cardinality(s \ {Max(s)}) =< p
    BY <2>1, <2>3
  <2> QED
    BY <2>1, <2>4 DEF Few
<1>8. \A s \in A : s \in B
  BY <1>3 DEF Few
<1>9. \A s \in A : it[s] = TurnOf(it, loop, base, seq, s)
  BY <1>6 DEF IsTurns
<1> HIDE DEF A, B
<1>10. \A s \in A : g[s] = it[s]
  BY <1>8, <1>9
<1>11. \A s \in B : TurnOf(it, loop, base, seq, s) = TurnOf(g, loop, base, seq, s)
  BY <1>7, <1>10 DEF TurnOf
<1>12. g = [s \in B |-> TurnOf(g, loop, base, seq, s)]
  <2>1. \A s \in B : g[s] = TurnOf(g, loop, base, seq, s)
    BY <1>11
  <2>2. g = [s \in B |-> g[s]]
    OBVIOUS
  <2> HIDE DEF g
  <2> QED
    BY <2>1, <2>2
<1> QED
  BY <1>2, <1>5, <1>12 DEF IsTurns, B

GoesAlong(it, loop, base, seq, l) ==
  /\ it[1 .. 0] = base
  /\ \A k \in 1 .. l : it[1 .. k] = Turn(loop, it[1 .. (k - 1)], seq[k])

\* What a loop has after each position follows from what it had before.
LEMMA LoopTurns ==
  ASSUME NEW loop, NEW base, NEW seq, NEW l \in Nat
  PROVE  GoesAlong(LoopOf(loop, base, seq, l), loop, base, seq, l)
<1> DEFINE it == LoopOf(loop, base, seq, l)
<1>1. Few(l, l) = SUBSET (1 .. l)
  BY PositionsFinite DEF Few
<1>2. \E f : IsTurns(f, loop, base, seq, Few(l, l))
  BY TurnsExist
<1>3. \E f : IsTurns(f, loop, base, seq, SUBSET (1 .. l))
  BY <1>1, <1>2
<1>4. IsTurns(it, loop, base, seq, SUBSET (1 .. l))
  BY <1>3 DEF LoopOf
<1> HIDE DEF it
<1>5. \A s \in SUBSET (1 .. l) : it[s] = TurnOf(it, loop, base, seq, s)
  BY <1>4 DEF IsTurns
<1>6. it[{}] = base
  BY <1>5 DEF TurnOf
<1>7. 1 .. 0 = {}
  OBVIOUS
<1>8. ASSUME NEW k \in 1 .. l PROVE it[1 .. k] = Turn(loop, it[1 .. (k - 1)], seq[k])
  <2>1. 1 .. k \in SUBSET (1 .. l) /\ 1 .. k # {} /\ k \in 1 .. k
    OBVIOUS
  <2>2. Max(1 .. k) \in 1 .. k /\ \A y \in 1 .. k : y =< Max(1 .. k)
    BY <2>1, MaxIs
  <2>3. Max(1 .. k) = k
    BY <2>1, <2>2
  <2>4. (1 .. k) \ {k} = 1 .. (k - 1)
    OBVIOUS
  <2> QED
    BY <1>5, <2>1, <2>3, <2>4 DEF TurnOf
<1> QED
  BY <1>6, <1>7, <1>8 DEF it, GoesAlong

\* The loop over the entries.
LEMMA EntriesLoop ==
  ASSUME NEW entries, NEW l \in Nat, DOMAIN entries = 1 .. l
  PROVE  \E it : /\ unpackEntries(entries) = it[1 .. l]
                 /\ it[1 .. 0] = Start
                 /\ \A k \in 1 .. l : it[1 .. k] = UnpackEntry(it[1 .. (k - 1)], entries[k])
<1> DEFINE it == LoopOf("entries", Start, entries, l)
<1>1. unpackEntries(entries) = it[1 .. l]
  BY DEF unpackEntries, FoldLeft, MapThenFoldSet, LoopOf, IsTurns, TurnOf, Turn
<1>2. /\ it[1 .. 0] = Start
      /\ \A k \in 1 .. l : it[1 .. k] = Turn("entries", it[1 .. (k - 1)], entries[k])
  <2>1. GoesAlong(it, "entries", Start, entries, l)
    BY LoopTurns
  <2> HIDE DEF it
  <2> QED
    BY <2>1 DEF GoesAlong
<1> HIDE DEF it
<1> QED
  BY <1>1, <1>2 DEF Turn

\* The loop over the names of a path.
LEMMA NamesLoop ==
  ASSUME NEW path, NEW l \in Nat, DOMAIN path = 1 .. l
  PROVE  \E it : /\ AbsPathNoEscape(path) = it[1 .. l]
                 /\ it[1 .. 0] = [ok |-> TRUE, rel |-> <<>>]
                 /\ \A k \in 1 .. l : it[1 .. k] = Climb(it[1 .. (k - 1)], path[k])
<1> DEFINE it == LoopOf("names", [ok |-> TRUE, rel |-> <<>>], path, l)
<1>1. AbsPathNoEscape(path) = it[1 .. l]
  BY DEF AbsPathNoEscape, FoldLeft, MapThenFoldSet, LoopOf, IsTurns, TurnOf, Turn, Climb
<1>2. /\ it[1 .. 0] = [ok |-> TRUE, rel |-> <<>>]
      /\ \A k \in 1 .. l : it[1 .. k] = Turn("names", it[1 .. (k - 1)], path[k])
  <2>1. GoesAlong(it, "names", [ok |-> TRUE, rel |-> <<>>], path, l)
    BY LoopTurns
  <2> HIDE DEF it
  <2> QED
    BY <2>1 DEF GoesAlong
<1> HIDE DEF it
<1> QED
  BY <1>1, <1>2 DEF Turn

-----------------------------------------------------------------------------
(* Paths *)

Plain == STRING \ {".", ".."}

\* A step along a path keeps it free of "." and "..".
LEMMA ClimbPlain ==
  ASSUME NEW p \in [ok : BOOLEAN, rel : Seq(Plain)], NEW name \in STRING
  PROVE  Climb(p, name) \in [ok : BOOLEAN, rel : Seq(Plain)]
<1>1. CASE ~p.ok \/ name = "."
  BY <1>1 DEF Climb
<1>2. CASE p.ok /\ name = ".." /\ p.rel = <<>>
  <2>1. Climb(p, name) = [p EXCEPT !.ok = FALSE]
    BY <1>2 DEF Climb
  <2> QED
    BY <2>1
<1>3. CASE p.ok /\ name = ".." /\ p.rel # <<>>
  <2>1. Climb(p, name) = [p EXCEPT !.rel = Front(@)]
    BY <1>3 DEF Climb
  <2>2. Front(p.rel) \in Seq(Plain)
    <3>1. p.rel \in Seq(Plain) /\ Len(p.rel) \in Nat /\ Len(p.rel) # 0
      BY <1>3
    <3> QED
      BY <3>1 DEF Front
  <2> QED
    BY <2>1, <2>2
<1>4. CASE p.ok /\ name \notin {".", ".."}
  <2>1. Climb(p, name) = [p EXCEPT !.rel = Append(@, name)]
    BY <1>4 DEF Climb
  <2>2. Append(p.rel, name) \in Seq(Plain)
    BY <1>4 DEF Plain
  <2> QED
    BY <2>1, <2>2
<1> QED
  BY <1>1, <1>2, <1>3, <1>4

\* What AbsPathNoEscape returns is a path below the destination, whatever path an
\* entry has.
LEMMA PathPlain ==
  ASSUME NEW path \in Seq(STRING)
  PROVE  AbsPathNoEscape(path) \in [ok : BOOLEAN, rel : Seq(Plain)]
<1> DEFINE l == Len(path)
<1>1. l \in Nat /\ DOMAIN path = 1 .. l /\ \A i \in 1 .. l : path[i] \in STRING
  OBVIOUS
<1> HIDE DEF l
<1>2. PICK it : /\ AbsPathNoEscape(path) = it[1 .. l]
                /\ it[1 .. 0] = [ok |-> TRUE, rel |-> <<>>]
                /\ \A k \in 1 .. l : it[1 .. k] = Climb(it[1 .. (k - 1)], path[k])
  BY <1>1, NamesLoop
<1> DEFINE R == [ok : BOOLEAN, rel : Seq(Plain)]
           Bad == {k \in 0 .. l : it[1 .. k] \notin R}
<1>3. Bad = {}
  <2>1. SUFFICES ASSUME Bad # {} PROVE FALSE
    OBVIOUS
  <2>2. PICK k \in Bad : \A m \in Bad : k =< m
    <3>1. Bad \subseteq Nat /\ Bad # {}
      BY <1>1, <2>1
    <3> HIDE DEF Bad
    <3> QED
      BY <3>1, LeastNumber
  <2>3. it[1 .. 0] \in R
    BY <1>2
  <2> HIDE DEF R
  <2>4. k # 0
    BY <2>2, <2>3
  <2>5. k \in 1 .. l /\ k - 1 \in 0 .. l /\ ~(k =< k - 1)
    BY <2>2, <2>4, <1>1
  <2>6. it[1 .. (k - 1)] \in R
    BY <2>2, <2>5
  <2>7. Climb(it[1 .. (k - 1)], path[k]) \in R
    BY <2>6, <2>5, <1>1, ClimbPlain DEF R
  <2> QED
    BY <2>7, <2>5, <2>2, <1>2
<1>4. l \in 0 .. l
  BY <1>1
<1>5. it[1 .. l] \in R
  <2> HIDE DEF R
  <2> QED
    BY <1>3, <1>4
<1> QED
  BY <1>2, <1>5

\* A path below the destination is among the paths it brings, and the ones its
\* directory brings, but for the destination, are too.
LEMMA ParentsOf ==
  ASSUME NEW path \in Seq(Plain)
  PROVE  /\ WithParents(path) \subseteq Seq(Plain)
         /\ IsFiniteSet(WithParents(path))
         /\ path \in WithParents(path)
         /\ path # <<>> => WithParents(Front(path)) \subseteq {<<>>} \cup WithParents(path)
<1>1. CASE path = <<>>
  <2>1. WithParents(path) = {path}
    BY <1>1 DEF WithParents
  <2> QED
    BY <1>1, <2>1, FS_Singleton
<1>2. CASE path # <<>>
  <2> DEFINE n == Len(path)
             f == [i \in 1 .. n |-> SubSeq(path, 1, i)]
  <2>1. n \in Nat /\ n # 0 /\ DOMAIN path = 1 .. n
    BY <1>2
  <2>2. WithParents(path) = {SubSeq(path, 1, i) : i \in 1 .. n}
    BY <1>2 DEF WithParents
  <2>3. \A i \in 1 .. n : SubSeq(path, 1, i) \in Seq(Plain)
    BY <2>1
  <2>4. SubSeq(path, 1, n) = path
    BY <2>1
  <2>5. IsFiniteSet(WithParents(path))
    <3>1. IsFiniteSet(1 .. n)
      BY <2>1, PositionsFinite
    <3>2. f \in Surjection(1 .. n, WithParents(path))
      <4>1. WithParents(path) = {f[i] : i \in 1 .. n}
        BY <2>2
      <4> HIDE DEF n
      <4> QED
        BY <4>1 DEF Surjection
    <3> HIDE DEF f
    <3> QED
      BY <3>1, <3>2, FS_Surjection
  <2>6. WithParents(Front(path)) \subseteq {<<>>} \cup WithParents(path)
    <3>1. CASE Front(path) = <<>>
      BY <3>1 DEF WithParents
    <3>2. CASE Front(path) # <<>>
      <4>1. Len(Front(path)) = n - 1 /\ n - 1 \in Nat
        BY <2>1 DEF Front
      <4>2. \A i \in 1 .. (n - 1) : SubSeq(Front(path), 1, i) = SubSeq(path, 1, i)
        BY <2>1 DEF Front
      <4>3. WithParents(Front(path)) = {SubSeq(Front(path), 1, i) : i \in 1 .. (n - 1)}
        BY <3>2, <4>1 DEF WithParents
      <4>4. \A i \in 1 .. (n - 1) : i \in 1 .. n
        BY <2>1
      <4> HIDE DEF n
      <4> QED
        BY <4>2, <4>3, <4>4, <2>2
    <3> QED
      BY <3>1, <3>2
  <2>7. path \in WithParents(path) /\ WithParents(path) \subseteq Seq(Plain)
    <3>1. n \in 1 .. n
      BY <2>1
    <3> HIDE DEF n
    <3> QED
      BY <3>1, <2>2, <2>3, <2>4
  <2> QED
    BY <2>5, <2>6, <2>7
<1> QED
  BY <1>1, <1>2

-----------------------------------------------------------------------------
(* The bytes on disk *)

AnyOf(s) == CHOOSE x \in s : TRUE

SumStep(it, files, s) == IF s = {} THEN 0 ELSE files[AnyOf(s)].size + it[s \ {AnyOf(s)}]

\* it adds up the sizes of the files of each set of a family.
IsSum(it, files, F) == it = [s \in F |-> SumStep(it, files, s)]

SumOver(files, D) == CHOOSE it : IsSum(it, files, SUBSET D)

SizeOf(files) == SumOver(files, DOMAIN files)[DOMAIN files]

\* The sets of at most n elements of D.
UpTo(D, n) == {s \in SUBSET D : Cardinality(s) =< n}

\* The sums over a finite set of files are defined.
LEMMA SumExists ==
  ASSUME NEW files, NEW D, IsFiniteSet(D), NEW n \in Nat
  PROVE  \E it : IsSum(it, files, UpTo(D, n))
<1> DEFINE T == {m \in Nat : ~\E it : IsSum(it, files, UpTo(D, m))}
<1>1. SUFFICES ASSUME T # {} PROVE FALSE
  OBVIOUS
<1>2. PICK m \in T : \A k \in T : m =< k
  <2>1. T \subseteq Nat /\ T # {}
    BY <1>1
  <2> HIDE DEF T
  <2> QED
    BY <2>1, LeastNumber
<1>3. \A s \in SUBSET D : IsFiniteSet(s) /\ Cardinality(s) \in Nat
  BY FS_Subset, FS_CardinalityType
<1>4. m # 0
  <2>1. \A s \in UpTo(D, 0) : s = {}
    BY <1>3, FS_EmptySet DEF UpTo
  <2>2. IsSum([s \in UpTo(D, 0) |-> 0], files, UpTo(D, 0))
    BY <2>1 DEF IsSum, SumStep
  <2> QED
    BY <2>2
<1>5. PICK p \in Nat : m = p + 1 /\ p \notin T
  <2>1. m - 1 \in Nat /\ m = (m - 1) + 1 /\ m - 1 \notin T
    BY <1>2, <1>4
  <2> HIDE DEF T
  <2> QED
    BY <2>1
<1>6. PICK it : IsSum(it, files, UpTo(D, p))
  BY <1>5
<1> DEFINE A == UpTo(D, p)  B == UpTo(D, p + 1)
           g == [s \in B |-> SumStep(it, files, s)]
<1>7. \A s \in B : s # {} => s \ {AnyOf(s)} \in A
  <2> SUFFICES ASSUME NEW s \in B, s # {} PROVE s \ {AnyOf(s)} \in A
    OBVIOUS
  <2>1. AnyOf(s) \in s
    BY DEF AnyOf
  <2>2. s \in SUBSET D /\ Cardinality(s) =< p + 1 /\ IsFiniteSet(s) /\ Cardinality(s) \in Nat
    BY <1>3 DEF UpTo
  <2>3. Cardinality(s \ {AnyOf(s)}) = Cardinality(s) - 1
    BY <2>1, <2>2, FS_RemoveElement
  <2>4. Cardinality(s \ {AnyOf(s)}) =< p
    BY <2>2, <2>3
  <2> QED
    BY <2>2, <2>4 DEF UpTo
<1>8. \A s \in A : s \in B
  BY <1>3 DEF UpTo
<1>9. \A s \in A : it[s] = SumStep(it, files, s)
  BY <1>6 DEF IsSum
<1> HIDE DEF A, B
<1>10. \A s \in A : g[s] = it[s]
  BY <1>8, <1>9
<1>11. \A s \in B : SumStep(it, files, s) = SumStep(g, files, s)
  BY <1>7, <1>10 DEF SumStep
<1>12. g = [s \in B |-> SumStep(g, files, s)]
  <2>1. \A s \in B : g[s] = SumStep(g, files, s)
    BY <1>11
  <2>2. g = [s \in B |-> g[s]]
    OBVIOUS
  <2> HIDE DEF g
  <2> QED
    BY <2>1, <2>2
<1> QED
  BY <1>2, <1>5, <1>12 DEF IsSum, B

\* What the sum over a set of files is.
LEMMA SumIs ==
  ASSUME NEW files, NEW D, IsFiniteSet(D)
  PROVE  \A s \in SUBSET D : SumOver(files, D)[s] = SumStep(SumOver(files, D), files, s)
<1>1. \A s \in SUBSET D : Cardinality(s) =< Cardinality(D)
  BY FS_Subset
<1>2. UpTo(D, Cardinality(D)) = SUBSET D
  BY <1>1 DEF UpTo
<1>3. \E it : IsSum(it, files, UpTo(D, Cardinality(D)))
  BY SumExists, FS_CardinalityType
<1>4. \E it : IsSum(it, files, SUBSET D)
  BY <1>2, <1>3
<1> DEFINE it == SumOver(files, D)
<1>5. IsSum(it, files, SUBSET D)
  BY <1>4 DEF SumOver
<1> HIDE DEF it
<1>6. \A s \in SUBSET D : it[s] = SumStep(it, files, s)
  BY <1>5 DEF IsSum
<1> QED
  BY <1>6 DEF it

\* Any file may be taken out first.
LEMMA SumTakesAny ==
  ASSUME NEW files, NEW D, IsFiniteSet(D), \A p \in D : files[p].size \in Nat
  PROVE  \A s \in SUBSET D :
           /\ SumOver(files, D)[s] \in Nat
           /\ \A x \in s : SumOver(files, D)[s] = files[x].size + SumOver(files, D)[s \ {x}]
<1> DEFINE it == SumOver(files, D)
           Fine(s) == /\ it[s] \in Nat
                      /\ \A x \in s : it[s] = files[x].size + it[s \ {x}]
           Bad == {n \in Nat : \E s \in SUBSET D : Cardinality(s) = n /\ ~Fine(s)}
<1>1. \A s \in SUBSET D : it[s] = SumStep(it, files, s)
  BY SumIs
<1>2. \A s \in SUBSET D : IsFiniteSet(s) /\ Cardinality(s) \in Nat
  BY FS_Subset, FS_CardinalityType
<1> HIDE DEF it
<1>3. Bad = {}
  <2>1. SUFFICES ASSUME Bad # {} PROVE FALSE
    OBVIOUS
  <2>2. PICK n \in Bad : \A k \in Bad : n =< k
    <3>1. Bad \subseteq Nat /\ Bad # {}
      BY <2>1
    <3> HIDE DEF Bad
    <3> QED
      BY <3>1, LeastNumber
  <2>3. PICK s \in SUBSET D : Cardinality(s) = n /\ ~Fine(s)
    BY <2>2
  <2>4. s # {}
    <3>1. ASSUME s = {} PROVE FALSE
      <4>1. it[s] = 0
        BY <1>1, <3>1 DEF SumStep
      <4> QED
        BY <4>1, <3>1, <2>3
    <3> QED
      BY <3>1
  <2>5. \A r \in SUBSET s : r # s => r \in SUBSET D /\ Fine(r)
    <3> SUFFICES ASSUME NEW r \in SUBSET s, r # s PROVE r \in SUBSET D /\ Fine(r)
      OBVIOUS
    <3>1. r \in SUBSET D
      OBVIOUS
    <3>2. Cardinality(r) =< n /\ Cardinality(r) # n /\ Cardinality(r) \in Nat /\ n \in Nat
      BY <1>2, <2>3, <3>1, FS_Subset
    <3> HIDE DEF Fine
    <3>3. Cardinality(r) \notin Bad
      <4> HIDE DEF Bad
      <4> QED
        BY <2>2, <3>2
    <3>4. Fine(r)
      BY <3>1, <3>2, <3>3
    <3> QED
      BY <3>1, <3>4
  <2> DEFINE c == AnyOf(s)
  <2>6. c \in s /\ c \in D
    BY <2>4 DEF AnyOf
  <2>7. it[s] = files[c].size + it[s \ {c}]
    BY <1>1, <2>4 DEF SumStep
  <2> HIDE DEF c
  <2>8. it[s] \in Nat
    <3>1. it[s \ {c}] \in Nat
      BY <2>5, <2>6
    <3> QED
      BY <3>1, <2>6, <2>7
  <2>9. ASSUME NEW x \in s PROVE it[s] = files[x].size + it[s \ {x}]
    <3>1. CASE x = c
      BY <3>1, <2>7
    <3>2. CASE x # c
      <4>1. (s \ {c}) \ {x} = (s \ {x}) \ {c} /\ x \in s \ {c} /\ c \in s \ {x}
        BY <3>2, <2>6
      <4>2. it[s \ {c}] = files[x].size + it[(s \ {c}) \ {x}]
        BY <2>5, <2>6, <4>1
      <4>3. it[s \ {x}] = files[c].size + it[(s \ {x}) \ {c}]
        BY <2>5, <4>1
      <4> DEFINE r == it[(s \ {x}) \ {c}]
                 a == files[x].size
                 b == files[c].size
      <4>4. r \in Nat
        <5>1. (s \ {x}) \ {c} \in SUBSET s /\ (s \ {x}) \ {c} # s
          BY <2>6
        <5> QED
          BY <5>1, <2>5
      <4>5. a \in Nat /\ b \in Nat
        BY <2>6, x \in D
      <4>6. it[s] = b + (a + r) /\ it[s \ {x}] = b + r
        BY <2>7, <4>1, <4>2, <4>3
      <4> HIDE DEF a, b, r
      <4>7. it[s] = a + it[s \ {x}]
        BY <4>4, <4>5, <4>6
      <4> QED
        BY <4>7 DEF a
    <3> QED
      BY <3>1, <3>2
  <2> QED
    BY <2>3, <2>8, <2>9
<1>4. ASSUME NEW s \in SUBSET D PROVE Fine(s)
  <2>1. Cardinality(s) \notin Bad
    BY <1>3
  <2> HIDE DEF Fine
  <2> QED
    BY <2>1, <1>2
<1> QED
  BY <1>4 DEF it

\* Files that agree add up to the same.
LEMMA SumSame ==
  ASSUME NEW f, NEW g, NEW D, IsFiniteSet(D), NEW E, IsFiniteSet(E),
         NEW S, S \subseteq D, S \subseteq E, \A p \in S : f[p] = g[p]
  PROVE  SumOver(f, D)[S] = SumOver(g, E)[S]
<1> DEFINE a == SumOver(f, D)
           b == SumOver(g, E)
           Bad == {n \in Nat : \E s \in SUBSET S : Cardinality(s) = n /\ a[s] # b[s]}
<1>1. \A s \in SUBSET S : a[s] = SumStep(a, f, s) /\ b[s] = SumStep(b, g, s)
  <2>1. \A s \in SUBSET D : a[s] = SumStep(a, f, s)
    BY SumIs
  <2>2. \A s \in SUBSET E : b[s] = SumStep(b, g, s)
    BY SumIs
  <2> QED
    BY <2>1, <2>2
<1>2. \A s \in SUBSET S : IsFiniteSet(s) /\ Cardinality(s) \in Nat
  BY FS_Subset, FS_CardinalityType
<1> HIDE DEF a, b
<1>3. Bad = {}
  <2>1. SUFFICES ASSUME Bad # {} PROVE FALSE
    OBVIOUS
  <2>2. PICK n \in Bad : \A k \in Bad : n =< k
    <3>1. Bad \subseteq Nat /\ Bad # {}
      BY <2>1
    <3> HIDE DEF Bad
    <3> QED
      BY <3>1, LeastNumber
  <2>3. PICK s \in SUBSET S : Cardinality(s) = n /\ a[s] # b[s]
    BY <2>2
  <2>4. s # {}
    BY <1>1, <2>3 DEF SumStep
  <2> DEFINE c == AnyOf(s)  r == s \ {c}
  <2>5. c \in s /\ c \in S /\ r \in SUBSET S
    BY <2>4 DEF AnyOf
  <2>6. a[s] = f[c].size + a[r] /\ b[s] = g[c].size + b[r]
    BY <1>1, <2>4 DEF SumStep
  <2>7. Cardinality(r) = n - 1 /\ Cardinality(r) \in Nat /\ n \in Nat
    BY <1>2, <2>3, <2>5, FS_RemoveElement
  <2> HIDE DEF c, r
  <2>8. Cardinality(r) \notin Bad
    <3> HIDE DEF Bad
    <3> QED
      BY <2>2, <2>7
  <2>9. a[r] = b[r]
    BY <2>5, <2>7, <2>8
  <2> QED
    BY <2>3, <2>5, <2>6, <2>9
<1>4. Cardinality(S) \notin Bad
  BY <1>3
<1>5. a[S] = b[S]
  BY <1>2, <1>4
<1> QED
  BY <1>5 DEF a, b

\* The sizes of finitely many files have a sum.
LEMMA SizeIsNat ==
  ASSUME NEW files, IsFiniteSet(DOMAIN files), \A p \in DOMAIN files : files[p].size \in Nat
  PROVE  SizeOf(files) \in Nat
BY SumTakesAny DEF SizeOf

\* Any file of all may be taken out first.
LEMMA SizeWithout ==
  ASSUME NEW files, IsFiniteSet(DOMAIN files), \A p \in DOMAIN files : files[p].size \in Nat,
         NEW x \in DOMAIN files
  PROVE  SizeOf(files) = files[x].size + SumOver(files, DOMAIN files)[DOMAIN files \ {x}]
<1>1. DOMAIN files \in SUBSET DOMAIN files
  OBVIOUS
<1> QED
  BY <1>1, SumTakesAny DEF SizeOf

\* A file that is written adds at most what was copied into it.
LEMMA SizeAdds ==
  ASSUME NEW files, IsFiniteSet(DOMAIN files), \A p \in DOMAIN files : files[p].size \in Nat,
         NEW path, NEW file, file.size \in Nat, NEW n \in Nat,
         file.size = n \/ (path \in DOMAIN files /\ file.size = files[path].size),
         NEW g, DOMAIN g = DOMAIN files \cup {path}, g[path] = file,
         \A p \in DOMAIN files \ {path} : g[p] = files[p]
  PROVE  SizeOf(g) =< SizeOf(files) + n
<1> DEFINE D == DOMAIN files
           E == DOMAIN g
           rest == D \ {path}
<1>1. E = D \cup {path} /\ g[path] = file /\ \A p \in rest : g[p] = files[p]
  OBVIOUS
<1>2. IsFiniteSet(E)
  BY <1>1, FS_AddElement
<1>3. \A p \in E : g[p].size \in Nat
  BY <1>1
<1>4. E \ {path} = rest /\ rest \subseteq D /\ rest \subseteq E /\ path \in E
  BY <1>1
<1>5. SumOver(g, E)[E] = file.size + SumOver(g, E)[rest]
  <2>1. SizeOf(g) = g[path].size + SumOver(g, E)[E \ {path}]
    BY <1>2, <1>3, <1>4, SizeWithout
  <2> QED
    BY <2>1, <1>4 DEF SizeOf
<1>6. SumOver(g, E)[rest] = SumOver(files, D)[rest]
  <2> HIDE DEF E, rest
  <2> QED
    BY <1>1, <1>2, <1>4, SumSame
<1>7. SumOver(files, D)[rest] \in Nat /\ SumOver(files, D)[D] \in Nat
  <2>1. rest \in SUBSET D /\ D \in SUBSET D
    OBVIOUS
  <2> QED
    BY <2>1, SumTakesAny
<1>8. path \in D => SumOver(files, D)[D] = files[path].size + SumOver(files, D)[rest]
  <2>1. D \in SUBSET D
    OBVIOUS
  <2> QED
    BY <2>1, SumTakesAny
<1>9. path \notin D => rest = D
  OBVIOUS
<1> DEFINE sg == SumOver(g, E)[E]
           sf == SumOver(files, D)[D]
           sr == SumOver(files, D)[rest]
           a == file.size
           b == files[path].size
<1>10. sg = a + sr /\ sr \in Nat /\ sf \in Nat /\ a \in Nat
  BY <1>5, <1>6, <1>7
<1>11. path \in D => sf = b + sr /\ b \in Nat
  BY <1>8
<1>12. path \notin D => sf = sr
  BY <1>9
<1>13. a = n \/ (path \in D /\ a = b)
  OBVIOUS
<1> HIDE DEF sg, sf, sr, a, b, D, E
<1>14. sg =< sf + n
  BY <1>10, <1>11, <1>12, <1>13
<1> QED
  BY <1>14 DEF sg, sf, SizeOf, D, E

-----------------------------------------------------------------------------
(* The walk *)

\* A walk has the fields of Start.
IsWalk(w) ==
  w = [ok |-> w.ok, declared |-> w.declared, real |-> w.real, dirs |-> w.dirs, files |-> w.files]

\* What the limiters of a walk know of what is on disk, before n more bytes that were
\* declared are copied.
Charged(w, n) ==
  /\ w.real.entries \subseteq Seq(Plain) /\ IsFiniteSet(w.real.entries)
  /\ Cardinality(w.real.entries) =< MaxNumItems
  /\ w.declared.entries = w.real.entries
  /\ w.real.total \in Nat /\ w.declared.total \in Nat
  /\ w.real.total + n =< w.declared.total
  /\ w.declared.total =< MaxDiskSize
  /\ <<>> \in w.dirs
  /\ OnDisk(w) \subseteq w.real.entries
  /\ \A p \in DOMAIN w.files : w.files[p].size \in Nat /\ w.files[p].size =< MaxItemSize
  /\ BlockSize * Cardinality(w.real.entries) + SizeOf(w.files) =< w.real.total

WalkInv(w) == IsWalk(w) /\ w.ok \in BOOLEAN /\ WithinLimits(w) /\ (w.ok => Charged(w, 0))

\* The limits of tarUnpackConfig are numbers.
LEMMA TarballTypes ==
  /\ MaxItemSize \in Nat /\ MaxDiskSize \in Nat /\ MaxNumItems \in Nat /\ MaxPathLen \in Nat
  /\ BlockSize \in Nat
BY TarballAssumption

\* Blocks of more entries are more bytes.
LEMMA BlocksGrow ==
  ASSUME NEW b \in Nat, NEW m \in Nat, NEW n \in Nat
  PROVE  /\ b * m \in Nat
         /\ b * (m + n) = b * m + b * n
         /\ m =< n => b * m =< b * n
OBVIOUS

\* What a walk has put on disk, with its bytes as a sum over the files.
LEMMA DiskUseIs ==
  ASSUME NEW w
  PROVE  DiskUse(w) = BlockSize * Cardinality(OnDisk(w)) + SizeOf(w.files)
BY DEF DiskUse, MapThenSumSet, MapThenFoldSet, SizeOf, SumOver, IsSum, SumStep, AnyOf

\* The limits the limiters keep are limits of what is on disk.
LEMMA ChargedWithin ==
  ASSUME NEW w, NEW n \in Nat, Charged(w, n)
  PROVE  WithinLimits(w)
<1> USE TarballTypes
<1> DEFINE D == OnDisk(w)  E == w.real.entries
           c == Cardinality(D)  e == Cardinality(E)
           s == SizeOf(w.files)  t == w.real.total
<1>1. IsFiniteSet(E) /\ D \subseteq E /\ E \subseteq Seq(Plain)
  BY DEF Charged
<1>2. IsFiniteSet(D) /\ c \in Nat /\ e \in Nat /\ c =< e
  <2> HIDE DEF D, E
  <2> QED
    BY <1>1, FS_Subset, FS_CardinalityType
<1>3. IsFiniteSet(DOMAIN w.files)
  BY <1>2, FS_Subset DEF OnDisk
<1>4. s \in Nat
  <2>1. \A p \in DOMAIN w.files : w.files[p].size \in Nat
    BY DEF Charged
  <2> QED
    BY <1>3, <2>1, SizeIsNat
<1>5. BlockSize * e + s =< t /\ t =< MaxDiskSize /\ t \in Nat /\ e =< MaxNumItems
  BY DEF Charged
<1>6. BlockSize * c =< BlockSize * e /\ BlockSize * c \in Nat /\ BlockSize * e \in Nat
  <2> HIDE DEF c, e
  <2> QED
    BY <1>2, BlocksGrow
<1>7. DiskUse(w) =< MaxDiskSize
  <2>1. DiskUse(w) = BlockSize * c + s
    BY DiskUseIs
  <2> HIDE DEF c, e, s, t
  <2> QED
    BY <2>1, <1>4, <1>5, <1>6
<1>8. c =< MaxNumItems
  <2> HIDE DEF c, e, s, t
  <2> QED
    BY <1>2, <1>5
<1>9. \A p \in D : \A i \in 1 .. Len(p) : p[i] \notin {".", ".."}
  <2>1. \A p \in D : p \in Seq(Plain)
    BY <1>1
  <2> HIDE DEF D
  <2> QED
    BY <2>1 DEF Plain
<1>10. \A p \in DOMAIN w.files : w.files[p].size =< MaxItemSize
  BY DEF Charged
<1> QED
  BY <1>7, <1>8, <1>9, <1>10 DEF WithinLimits

\* A call of the limiter charges the size and a block for every new path.
Paid(l, lim, path, size, new) ==
  /\ l.entries = lim.entries \cup WithParents(path)
  /\ IsFiniteSet(l.entries)
  /\ Cardinality(new) \in Nat /\ Cardinality(lim.entries) \in Nat
  /\ Cardinality(l.entries) = Cardinality(lim.entries) + Cardinality(new)
  /\ l.total = lim.total + size + BlockSize * Cardinality(new)
  /\ l.total \in Nat
  /\ l.ok \in BOOLEAN
  /\ l.ok => /\ size =< MaxItemSize
             /\ l.total =< MaxDiskSize
             /\ Cardinality(l.entries) =< MaxNumItems

\* What diskSizeLimiter charges, for any path below the destination.
LEMMA Charges ==
  ASSUME NEW lim, lim.total \in Nat, IsFiniteSet(lim.entries),
         NEW path \in Seq(Plain), NEW size \in Nat
  PROVE  Paid(diskSizeLimiter(lim, path, size), lim, path, size, WithParents(path) \ lim.entries)
<1> DEFINE new == WithParents(path) \ lim.entries
           l == diskSizeLimiter(lim, path, size)
<1> USE TarballTypes
<1>1. IsFiniteSet(new)
  BY ParentsOf, FS_Subset
<1>2. Cardinality(new) \in Nat /\ Cardinality(lim.entries) \in Nat
  BY <1>1, FS_CardinalityType
<1>3. lim.entries \cap new = {} /\ lim.entries \cup new = lim.entries \cup WithParents(path)
  OBVIOUS
<1>4. /\ IsFiniteSet(lim.entries \cup new)
      /\ Cardinality(lim.entries \cup new) = Cardinality(lim.entries) + Cardinality(new)
  <2>1. IsFiniteSet(lim.entries \cup new)
        /\ Cardinality(lim.entries \cup new)
             = Cardinality(lim.entries) + Cardinality(new) - Cardinality(lim.entries \cap new)
    BY <1>1, FS_Union
  <2>2. Cardinality(lim.entries \cap new) = 0
    BY <1>3, FS_EmptySet
  <2> QED
    BY <1>2, <2>1, <2>2
<1>5. l = Charge(lim, size, lim.entries \cup new, Cardinality(new))
  BY DEF diskSizeLimiter
<1> HIDE DEF l, new
<1>6. /\ l.entries = lim.entries \cup new
      /\ l.total = lim.total + size + BlockSize * Cardinality(new)
      /\ l.ok \in BOOLEAN
      /\ l.ok => size =< MaxItemSize /\ l.total =< MaxDiskSize /\ Cardinality(lim.entries \cup new) =< MaxNumItems
  BY <1>5 DEF Charge
<1>7. BlockSize * Cardinality(new) \in Nat
  BY <1>2, BlocksGrow
<1>8. l.total \in Nat
  BY <1>6, <1>7
<1> HIDE DEF l, new
<1>9. Paid(l, lim, path, size, new)
  BY <1>2, <1>3, <1>4, <1>6, <1>8 DEF Paid
<1> QED
  BY <1>9 DEF l, new

\* The limits are asked and the directories made, or nothing changes on disk.
LEMMA DirsMade ==
  ASSUME NEW w, IsWalk(w), w.ok = TRUE, Charged(w, 0),
         NEW e, e.size \in Nat, NEW path \in Seq(Plain), e.type # "dir" => path # <<>>,
         NEW m, m = createDirForTarItem(w, e, path)
  PROVE  \/ m = Stopped(w)
         \/ /\ IsWalk(m) /\ m.ok = TRUE /\ m.files = w.files
            /\ Charged(m, e.size)
            /\ e.size =< MaxItemSize
            /\ WithParents(path) \subseteq m.real.entries
<1> USE TarballTypes
<1> DEFINE decl == diskSizeLimiter(w.declared, path, e.size)
           re == diskSizeLimiter(w.real, path, 0)
           need == {<<>>} \cup WithParents(IF e.type = "dir" THEN path ELSE Front(path))
           new == WithParents(path) \ w.real.entries
<1>1. SUFFICES ASSUME m # Stopped(w)
               PROVE  /\ IsWalk(m) /\ m.ok = TRUE /\ m.files = w.files
                      /\ Charged(m, e.size)
                      /\ e.size =< MaxItemSize
                      /\ WithParents(path) \subseteq m.real.entries
  OBVIOUS
<1>2. /\ decl.ok /\ re.ok
      /\ m = [w EXCEPT !.declared = decl, !.real = re, !.dirs = @ \cup need]
  BY <1>1 DEF createDirForTarItem
<1>3. /\ w.declared.entries = w.real.entries /\ IsFiniteSet(w.real.entries)
      /\ w.real.entries \subseteq Seq(Plain)
      /\ w.real.total \in Nat /\ w.declared.total \in Nat
      /\ w.real.total + 0 =< w.declared.total
      /\ <<>> \in w.dirs /\ OnDisk(w) \subseteq w.real.entries
      /\ \A p \in DOMAIN w.files : w.files[p].size \in Nat /\ w.files[p].size =< MaxItemSize
      /\ BlockSize * Cardinality(w.real.entries) + SizeOf(w.files) =< w.real.total
  BY DEF Charged
<1> DEFINE c == Cardinality(new)  k == Cardinality(w.real.entries)
<1>4. /\ decl.entries = w.real.entries \cup WithParents(path)
      /\ decl.total = w.declared.total + e.size + BlockSize * c
      /\ decl.total \in Nat
      /\ decl.ok => e.size =< MaxItemSize /\ decl.total =< MaxDiskSize
  <2>1. new = WithParents(path) \ w.declared.entries
    BY <1>3
  <2>2. IsFiniteSet(w.declared.entries)
    BY <1>3
  <2>3. Paid(decl, w.declared, path, e.size, new)
    BY <1>3, <2>1, <2>2, Charges
  <2> HIDE DEF decl, new
  <2> QED
    BY <1>3, <2>3 DEF Paid
<1>5. /\ re.entries = w.real.entries \cup WithParents(path)
      /\ IsFiniteSet(re.entries)
      /\ c \in Nat /\ k \in Nat
      /\ Cardinality(re.entries) = k + c
      /\ re.total = w.real.total + 0 + BlockSize * c
      /\ re.total \in Nat
      /\ re.ok => Cardinality(re.entries) =< MaxNumItems
  <2>1. Paid(re, w.real, path, 0, new)
    BY <1>3, 0 \in Nat, Charges
  <2> HIDE DEF re, new
  <2> QED
    BY <2>1 DEF Paid
<1>6. WithParents(path) \subseteq Seq(Plain) /\ need \subseteq {<<>>} \cup WithParents(path)
  <2>1. WithParents(path) \subseteq Seq(Plain)
        /\ (path # <<>> => WithParents(Front(path)) \subseteq {<<>>} \cup WithParents(path))
    BY ParentsOf
  <2> QED
    BY <2>1
<1> HIDE DEF decl, re, need, new
<1>7. /\ m = [ok |-> w.ok, declared |-> decl, real |-> re, dirs |-> w.dirs \cup need, files |-> w.files]
  BY <1>2 DEF IsWalk
<1>8. /\ m.ok = TRUE /\ m.declared = decl /\ m.real = re /\ m.dirs = w.dirs \cup need
      /\ m.files = w.files
  BY <1>7
<1>9. IsWalk(m)
  BY <1>7, <1>8 DEF IsWalk
<1>10. OnDisk(m) \subseteq re.entries
  <2>1. OnDisk(m) = ((w.dirs \cup need) \ {<<>>}) \cup DOMAIN w.files
    BY <1>8 DEF OnDisk
  <2>2. (w.dirs \ {<<>>}) \cup DOMAIN w.files \subseteq w.real.entries
    BY <1>3 DEF OnDisk
  <2> QED
    BY <2>1, <2>2, <1>5, <1>6
<1>11. SizeOf(w.files) \in Nat
  <2>1. DOMAIN w.files \subseteq w.real.entries
    BY <1>3 DEF OnDisk
  <2>2. IsFiniteSet(DOMAIN w.files)
    BY <2>1, <1>3, FS_Subset
  <2> QED
    BY <2>2, <1>3, SizeIsNat
<1>12. BlockSize * (k + c) = BlockSize * k + BlockSize * c /\ BlockSize * k \in Nat /\ BlockSize * c \in Nat
  <2> HIDE DEF k, c
  <2> QED
    BY <1>5, BlocksGrow
<1> DEFINE s == SizeOf(w.files)  t == w.real.total  d == w.declared.total
           x == BlockSize * k  y == BlockSize * c
<1>13. BlockSize * Cardinality(re.entries) + s =< re.total
  <2>1. x + s =< t /\ re.total = t + 0 + y /\ BlockSize * Cardinality(re.entries) = x + y
    BY <1>3, <1>5, <1>12
  <2>2. x \in Nat /\ y \in Nat /\ s \in Nat /\ t \in Nat
    BY <1>3, <1>11, <1>12
  <2> HIDE DEF s, t, d, x, y
  <2> QED
    BY <2>1, <2>2
<1>14. re.total + e.size =< decl.total
  <2>1. re.total = t + 0 + y /\ decl.total = d + e.size + y /\ t + 0 =< d
    BY <1>3, <1>4, <1>5
  <2>2. t \in Nat /\ d \in Nat /\ y \in Nat
    BY <1>3, <1>12
  <2> HIDE DEF s, t, d, x, y
  <2> QED
    BY <2>1, <2>2
<1>15. re.entries \subseteq Seq(Plain)
  BY <1>3, <1>5, <1>6
<1>16. Charged(m, e.size)
  <2> HIDE DEF s, t, d, x, y, k, c
  <2>1. decl.entries = re.entries /\ decl.total =< MaxDiskSize /\ Cardinality(re.entries) =< MaxNumItems
    BY <1>2, <1>4, <1>5
  <2>2. <<>> \in m.dirs
    BY <1>3, <1>8
  <2> QED
    BY <2>1, <2>2, <1>3, <1>4, <1>5, <1>8, <1>10, <1>13, <1>14, <1>15 DEF Charged, s
<1> QED
  BY <1>2, <1>4, <1>5, <1>8, <1>9, <1>16

\* An entry is copied within what was declared and charged for it.
LEMMA FileCopied ==
  ASSUME NEW w, IsWalk(w), NEW e, e.size \in Nat, Charged(w, e.size), e.size =< MaxItemSize,
         NEW path \in Seq(Plain), WithParents(path) \subseteq w.real.entries,
         NEW c, c = copyAndCloseOut(w, e, path)
  PROVE  IsWalk(c) /\ c.ok \in BOOLEAN /\ Charged(c, 0)
<1> USE TarballTypes
<1> DEFINE limit == 1 + (IF MaxItemSize < MaxDiskSize - w.real.total
                           THEN MaxItemSize ELSE MaxDiskSize - w.real.total)
           copied == IF e.size < limit THEN e.size ELSE limit
           re == diskSizeLimiter(w.real, path, copied)
           shorter == path \in DOMAIN w.files /\ copied < w.files[path].size
           file == IF shorter THEN [size |-> w.files[path].size, targets |-> {}]
                   ELSE [size |-> copied, targets |-> e.targets]
           files == [p \in DOMAIN w.files \cup {path} |-> IF p = path THEN file ELSE w.files[p]]
<1>1. c = [w EXCEPT !.ok = re.ok, !.real = re, !.files = files]
  BY DEF copyAndCloseOut
<1>2. /\ w.real.entries \subseteq Seq(Plain) /\ IsFiniteSet(w.real.entries)
      /\ Cardinality(w.real.entries) =< MaxNumItems
      /\ w.declared.entries = w.real.entries
      /\ w.real.total \in Nat /\ w.declared.total \in Nat
      /\ w.real.total + e.size =< w.declared.total
      /\ w.declared.total =< MaxDiskSize
      /\ <<>> \in w.dirs /\ OnDisk(w) \subseteq w.real.entries
      /\ \A p \in DOMAIN w.files : w.files[p].size \in Nat /\ w.files[p].size =< MaxItemSize
      /\ BlockSize * Cardinality(w.real.entries) + SizeOf(w.files) =< w.real.total
  BY DEF Charged
<1>3. copied \in Nat /\ copied =< e.size
  <2>1. w.real.total =< MaxDiskSize
    BY <1>2
  <2>2. MaxDiskSize - w.real.total \in Nat
    BY <2>1, <1>2
  <2>3. limit \in Nat
    BY <2>2
  <2> HIDE DEF limit
  <2> QED
    BY <2>3
<1> HIDE DEF copied
<1>4. WithParents(path) \ w.real.entries = {} /\ Cardinality({}) = 0
  BY FS_EmptySet
<1>5. re.entries = w.real.entries /\ re.total = w.real.total + copied /\ re.ok \in BOOLEAN
  <2>1. /\ re.entries = w.real.entries \cup WithParents(path)
        /\ re.total = w.real.total + copied + BlockSize * 0
        /\ re.ok \in BOOLEAN
    <3> DEFINE new == WithParents(path) \ w.real.entries
    <3>1. Cardinality(new) = 0
      BY <1>4
    <3>2. Paid(re, w.real, path, copied, new)
      BY <1>2, <1>3, Charges
    <3> HIDE DEF re, new
    <3>3. /\ re.entries = w.real.entries \cup WithParents(path)
          /\ re.total = w.real.total + copied + BlockSize * Cardinality(new)
          /\ re.ok \in BOOLEAN
      BY <3>2 DEF Paid
    <3> QED
      BY <3>1, <3>3
  <2>2. BlockSize * 0 = 0
    OBVIOUS
  <2> HIDE DEF re
  <2> QED
    BY <1>2, <1>3, <2>1, <2>2
<1>6. file.size \in Nat /\ file.size =< MaxItemSize
      /\ (file.size = copied \/ (path \in DOMAIN w.files /\ file.size = w.files[path].size))
  <2>1. CASE shorter
    <3>1. file.size = w.files[path].size
      BY <2>1
    <3> QED
      BY <2>1, <3>1, <1>2
  <2>2. CASE ~shorter
    <3>1. file.size = copied
      BY <2>2
    <3> HIDE DEF file
    <3> QED
      BY <3>1, <1>3
  <2> QED
    BY <2>1, <2>2
<1>7. path \in w.real.entries
  BY ParentsOf
<1> HIDE DEF re, file
<1>8. DOMAIN w.files \subseteq w.real.entries
  BY <1>2 DEF OnDisk
<1>9. IsFiniteSet(DOMAIN w.files)
  BY <1>2, <1>8, FS_Subset
<1>10. SizeOf(files) =< SizeOf(w.files) + copied
  <2>1. /\ DOMAIN files = DOMAIN w.files \cup {path} /\ files[path] = file
        /\ \A p \in DOMAIN w.files \ {path} : files[p] = w.files[p]
    OBVIOUS
  <2> HIDE DEF files
  <2> QED
    BY <1>2, <1>3, <1>6, <1>9, <2>1, SizeAdds
<1>11. SizeOf(w.files) \in Nat /\ SizeOf(files) \in Nat
  <2>1. IsFiniteSet(DOMAIN files)
    BY <1>9, FS_AddElement
  <2>2. \A p \in DOMAIN files : files[p].size \in Nat
    BY <1>2, <1>6
  <2>3. SizeOf(w.files) \in Nat
    BY <1>2, <1>9, SizeIsNat
  <2> HIDE DEF files
  <2> QED
    BY <2>1, <2>2, <2>3, SizeIsNat
<1>12. \A p \in DOMAIN files : files[p].size \in Nat /\ files[p].size =< MaxItemSize
  BY <1>2, <1>6
<1>13. DOMAIN files = DOMAIN w.files \cup {path}
  OBVIOUS
<1> HIDE DEF files
<1>14. c = [ok |-> re.ok, declared |-> w.declared, real |-> re, dirs |-> w.dirs, files |-> files]
  BY <1>1 DEF IsWalk
<1>15. c.ok = re.ok /\ c.declared = w.declared /\ c.real = re /\ c.dirs = w.dirs /\ c.files = files
  BY <1>14
<1>16. IsWalk(c)
  BY <1>14, <1>15 DEF IsWalk
<1>17. OnDisk(c) \subseteq w.real.entries
  BY <1>2, <1>7, <1>13, <1>15 DEF OnDisk
<1> DEFINE x == BlockSize * Cardinality(w.real.entries)
           s == SizeOf(w.files)  f == SizeOf(files)  t == w.real.total  d == w.declared.total
<1>18. x \in Nat
  <2>1. Cardinality(w.real.entries) \in Nat
    BY <1>2, FS_CardinalityType
  <2> QED
    BY <2>1, BlocksGrow
<1>19. x + f =< t + copied /\ t + copied \in Nat /\ t + copied + 0 =< d
  <2>1. x + s =< t /\ f =< s + copied /\ t + e.size =< d /\ t \in Nat /\ d \in Nat
    BY <1>2, <1>10
  <2>2. s \in Nat /\ f \in Nat
    BY <1>11
  <2> HIDE DEF x, s, f, t, d
  <2> QED
    BY <2>1, <2>2, <1>3, <1>18
<1>20. Charged(c, 0)
  <2>1. /\ re.total \in Nat /\ re.total + 0 =< w.declared.total
        /\ BlockSize * Cardinality(re.entries) + SizeOf(files) =< re.total
    BY <1>5, <1>19
  <2> QED
    BY <2>1, <1>2, <1>5, <1>12, <1>15, <1>17 DEF Charged
<1> QED
  BY <1>5, <1>15, <1>16, <1>20

\* A walk that stops leaves on disk what it has.
LEMMA StoppedIs ==
  ASSUME NEW ok, NEW decl, NEW re, NEW ds, NEW fs, NEW no
  PROVE  [[ok |-> ok, declared |-> decl, real |-> re, dirs |-> ds, files |-> fs] EXCEPT !.ok = no]
           = [ok |-> no, declared |-> decl, real |-> re, dirs |-> ds, files |-> fs]
OBVIOUS

\* An entry keeps the walk within the limits.
LEMMA EntryKeeps ==
  ASSUME NEW w, WalkInv(w), NEW e \in Entries
  PROVE  WalkInv(UnpackEntry(w, e))
<1> DEFINE abs == AbsPathNoEscape(e.path)
           path == abs.rel
           made == createDirForTarItem(w, e, path)
<1>1. e.path \in Seq(STRING) /\ e.size \in Nat
  BY DEF Entries
<1>2. path \in Seq(Plain)
  BY <1>1, PathPlain
<1>3. IsWalk(w) /\ w.ok \in BOOLEAN /\ WithinLimits(w)
  BY DEF WalkInv
<1>4. WalkInv(Stopped(w))
  <2>1. Stopped(w) = [ok |-> FALSE, declared |-> w.declared, real |-> w.real, dirs |-> w.dirs,
                      files |-> w.files]
    <3>1. Stopped([ok |-> w.ok, declared |-> w.declared, real |-> w.real, dirs |-> w.dirs,
                   files |-> w.files])
            = [ok |-> FALSE, declared |-> w.declared, real |-> w.real, dirs |-> w.dirs,
               files |-> w.files]
      <4> DEFINE r == [ok |-> w.ok, declared |-> w.declared, real |-> w.real, dirs |-> w.dirs,
                       files |-> w.files]
      <4>1. PICK no : no = FALSE
        OBVIOUS
      <4>2. Stopped(r) = [r EXCEPT !.ok = no]
        BY <4>1, Zenon DEF Stopped
      <4>3. [r EXCEPT !.ok = no] = [ok |-> no, declared |-> w.declared, real |-> w.real,
                                    dirs |-> w.dirs, files |-> w.files]
        BY StoppedIs
      <4> QED
        BY <4>1, <4>2, <4>3, Zenon
    <3> QED
      BY <3>1, <1>3 DEF IsWalk
  <2> DEFINE z == Stopped(w)
  <2>2. z.ok = FALSE /\ z.dirs = w.dirs /\ z.files = w.files /\ IsWalk(z)
    BY <2>1 DEF IsWalk
  <2>3. OnDisk(z) = OnDisk(w)
    BY <2>2 DEF OnDisk
  <2>4. DiskUse(z) = DiskUse(w)
    BY <2>2, <2>3, DiskUseIs
  <2>5. WithinLimits(z)
    BY <2>2, <2>3, <2>4, <1>3 DEF WithinLimits
  <2> QED
    BY <2>2, <2>5 DEF WalkInv
<1>5. CASE ~w.ok
  <2>1. w = [ok |-> FALSE, declared |-> w.declared, real |-> w.real, dirs |-> w.dirs,
             files |-> w.files]
    BY <1>3, <1>5 DEF IsWalk
  <2>2. Stopped(w) = w
    BY <2>1 DEF Stopped
  <2>3. UnpackEntry(w, e) = w
    BY <1>5, <2>2 DEF UnpackEntry
  <2> QED
    BY <2>3
<1>6. CASE w.ok /\ (e.type \notin {"reg", "dir"} \/ ~abs.ok \/ (e.type = "reg" /\ path \in w.dirs))
  <2>1. UnpackEntry(w, e) = Stopped(w)
    BY <1>6 DEF UnpackEntry
  <2> QED
    BY <2>1, <1>4
<1>7. CASE w.ok /\ e.type \in {"reg", "dir"} /\ abs.ok /\ ~(e.type = "reg" /\ path \in w.dirs)
  <2>1. UnpackEntry(w, e) = IF made.ok /\ e.type = "reg" THEN copyAndCloseOut(made, e, path) ELSE made
    BY <1>7 DEF UnpackEntry
  <2>2. Charged(w, 0) /\ w.ok = TRUE
    BY <1>3, <1>7 DEF WalkInv
  <2>3. e.type # "dir" => path # <<>>
    <3>1. <<>> \in w.dirs
      BY <2>2 DEF Charged
    <3> QED
      BY <3>1, <1>7
  <2> HIDE DEF made, path, abs
  <2>4. \/ made = Stopped(w)
        \/ /\ IsWalk(made) /\ made.ok = TRUE /\ made.files = w.files
           /\ Charged(made, e.size)
           /\ e.size =< MaxItemSize
           /\ WithParents(path) \subseteq made.real.entries
    BY <1>1, <1>2, <1>3, <2>2, <2>3, DirsMade DEF made
  <2>5. CASE made = Stopped(w)
    <3>1. ~made.ok
      BY <2>5, <1>3 DEF Stopped, IsWalk
    <3> QED
      BY <2>1, <2>5, <3>1, <1>4
  <2>6. CASE made # Stopped(w)
    <3>1. CASE e.type = "reg"
      <4> DEFINE c == copyAndCloseOut(made, e, path)
      <4>1. UnpackEntry(w, e) = c
        BY <2>1, <2>4, <2>6, <3>1
      <4>2. IsWalk(c) /\ c.ok \in BOOLEAN /\ Charged(c, 0)
        <5> HIDE DEF c
        <5> QED
          BY <1>1, <1>2, <2>4, <2>6, FileCopied DEF c
      <4> HIDE DEF c
      <4>3. WithinLimits(c)
        BY <4>2, 0 \in Nat, ChargedWithin
      <4> QED
        BY <4>1, <4>2, <4>3 DEF WalkInv
    <3>2. CASE e.type # "reg"
      <4>1. UnpackEntry(w, e) = made
        BY <2>1, <3>2
      <4>2. Charged(made, e.size)
        BY <2>4, <2>6
      <4>3. WithinLimits(made)
        BY <1>1, <4>2, ChargedWithin
      <4>4. Charged(made, 0)
        <5>1. made.real.total + e.size =< made.declared.total /\ made.real.total \in Nat /\ made.declared.total \in Nat
          BY <4>2 DEF Charged
        <5>2. made.real.total + 0 =< made.declared.total
          BY <5>1, <1>1
        <5> QED
          BY <4>2, <5>2 DEF Charged
      <4> QED
        BY <4>1, <4>3, <4>4, <2>4, <2>6 DEF WalkInv
    <3> QED
      BY <3>1, <3>2
  <2> QED
    BY <2>5, <2>6
<1> QED
  BY <1>3, <1>5, <1>6, <1>7

\* The walk starts with an empty directory.
LEMMA StartKeeps == WalkInv(Start)
<1> USE TarballTypes
<1> DEFINE none == [path \in {} |-> 0]
<1>1. /\ Start.ok = TRUE /\ Start.declared = NewLimiter /\ Start.real = NewLimiter
      /\ Start.dirs = {<<>>} /\ Start.files = none /\ IsWalk(Start)
  BY DEF Start, IsWalk
<1>2. OnDisk(Start) = {} /\ DOMAIN none = {}
  BY <1>1 DEF OnDisk
<1>3. SizeOf(none) = 0
  <2>1. SumOver(none, {})[{}] = 0
    BY SumIs, FS_EmptySet DEF SumStep
  <2> QED
    BY <2>1, <1>2 DEF SizeOf
<1>4. BlockSize * Cardinality({}) + 0 =< 0
  BY FS_EmptySet
<1> HIDE DEF none
<1>5. NewLimiter.total = 0 /\ NewLimiter.entries = {}
  BY DEF NewLimiter
<1>6. Charged(Start, 0)
  BY <1>1, <1>2, <1>3, <1>4, <1>5, FS_EmptySet DEF Charged
<1>7. WithinLimits(Start)
  BY <1>6, 0 \in Nat, ChargedWithin
<1> QED
  BY <1>1, <1>6, <1>7 DEF WalkInv

\* _unpackTar, for any tarball and any limits: however its entries repeat, share or
\* leave directories, what it has put on disk when it ends or stops is below the
\* destination and within the limits on bytes, entries and the size of a file.
THEOREM WalkStaysWithinLimits ==
  ASSUME NEW entries \in Seq(Entries)
  PROVE  WithinLimits(unpackEntries(entries))
<1> DEFINE l == Len(entries)
<1>1. l \in Nat /\ DOMAIN entries = 1 .. l /\ \A i \in 1 .. l : entries[i] \in Entries
  OBVIOUS
<1> HIDE DEF l
<1>2. PICK it : /\ unpackEntries(entries) = it[1 .. l]
                /\ it[1 .. 0] = Start
                /\ \A k \in 1 .. l : it[1 .. k] = UnpackEntry(it[1 .. (k - 1)], entries[k])
  BY <1>1, EntriesLoop
<1> DEFINE Bad == {k \in 0 .. l : ~WalkInv(it[1 .. k])}
<1>3. Bad = {}
  <2>1. SUFFICES ASSUME Bad # {} PROVE FALSE
    OBVIOUS
  <2>2. PICK k \in Bad : \A m \in Bad : k =< m
    <3>1. Bad \subseteq Nat /\ Bad # {}
      BY <1>1, <2>1
    <3> HIDE DEF Bad
    <3> QED
      BY <3>1, LeastNumber
  <2>3. k # 0
    BY <2>2, <1>2, StartKeeps
  <2>4. k \in 1 .. l /\ k - 1 \in 0 .. l /\ ~(k =< k - 1)
    BY <2>2, <2>3, <1>1
  <2>5. WalkInv(it[1 .. (k - 1)])
    BY <2>2, <2>4
  <2>6. WalkInv(UnpackEntry(it[1 .. (k - 1)], entries[k]))
    BY <2>4, <2>5, <1>1, EntryKeeps
  <2> QED
    BY <2>6, <2>4, <2>2, <1>2
<1>4. l \in 0 .. l
  BY <1>1
<1>5. WalkInv(it[1 .. l])
  BY <1>3, <1>4
<1> QED
  BY <1>2, <1>5 DEF WalkInv

\* What any upload, accepted or refused, has put into its temporary directory is within
\* the configured limits (_unpackTar, diskSizeLimiter).
THEOREM UploadsWithinLimits == Spec => []UnpackedWithinLimits
<1>1. \A q \in Uploads : Tarballs[q.payload].entries \in Seq(Entries)
  <2>1. \A q \in Uploads : q.payload \in DOMAIN Tarballs
    BY UnpackAssumption, StoreAssumption
  <2> QED
    BY <2>1, TarballAssumption
<1>2. \A t \in Samples : t \in Seq(Entries)
  BY TarballAssumption
<1>3. UnpackedWithinLimits
  <2>1. SamplesWithinLimits
    BY <1>2, WalkStaysWithinLimits DEF SamplesWithinLimits
  <2> QED
    BY <1>1, <2>1, WalkStaysWithinLimits DEF UnpackedWithinLimits
<1> QED
  BY <1>3, PTL

=============================================================================
