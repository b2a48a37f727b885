----------------------------- MODULE TufProofs ------------------------------
(***************************************************************************)
(* Proofs about the TUF metadata, for any updates, uploads and archives,   *)
(* any number of runs of tuf-init, and crashes and days without a bound.   *)
(***************************************************************************)
EXTENDS Tuf, FiniteSetTheorems, SequenceTheorems, NaturalsInduction, WellFoundedInduction, TLAPS

-----------------------------------------------------------------------------
(* Files and directories *)

\* A timestamp file, as opposed to none.
IsStamp(t) ==
  /\ t = [ver |-> t.ver, of |-> t.of, exp |-> t.exp, by |-> t.by]
  /\ t # NoFile
  /\ t.exp \in Int

IsDir(d) ==
  d = [roots |-> d.roots, targets |-> d.targets, snapshot |-> d.snapshot, timestamp |-> d.timestamp]

Together(d) == d.timestamp.of = d.snapshot /\ d.snapshot.of = d.targets

\* What an upload generates: three files that belong together.
IsComplete(d) == IsDir(d) /\ IsStamp(d.timestamp) /\ Together(d)

Busy(u) == upl[u] # NoUpload

Saved(u) == upl[u].pc = "saved"

-----------------------------------------------------------------------------
(* The inductive invariants *)

\* The shape of every variable that uploads, deletions and the daemon share.
Shapes ==
  /\ dir = [u \in Updates |-> dir[u]] /\ \A u \in Updates : IsDir(dir[u])
  /\ upl = [u \in Updates |-> upl[u]]
  /\ \A u \in Updates : upl[u] = [pc |-> upl[u].pc, files |-> upl[u].files]
  /\ del \in [Updates -> Nat]
  /\ rows \subseteq Updates
  /\ daemon = [todo |-> daemon.todo, cur |-> daemon.cur, held |-> daemon.held]
  /\ daemon.todo \subseteq Updates
  /\ dev = [update |-> dev.update, tagged |-> dev.tagged, seen |-> dev.seen]
  /\ now \in Nat /\ passed \in Int /\ passed <= now /\ uploads \in Nat

\* The files of an upload: complete, unless they came with it.
Unsaved(u, d) ==
  /\ IsDir(d) /\ (d.timestamp = NoFile \/ IsStamp(d.timestamp))
  /\ u \notin own => IsComplete(d)

\* An update is being uploaded, or known.
OneLife ==
  \A u \in Updates : Busy(u) =>
    u \notin rows /\ upl[u].pc \in {"generated", "saved"} /\ Unsaved(u, upl[u].files)

\* A server that is down runs nothing.
DownIsIdle ==
  signers = None =>
    daemon = Asleep /\ passed = -1 /\ \A u \in Updates : ~Busy(u) /\ del[u] = 0

\* Timestamps are where they should be.
Stamps ==
  /\ daemon.cur # None => daemon.cur \in daemon.todo /\ IsStamp(daemon.held)
  /\ \A u \in Updates : dir[u].timestamp = NoFile \/ IsStamp(dir[u].timestamp)
  /\ \A u \in Updates \ lapsing : u \in rows \/ Saved(u) => dir[u].timestamp # NoFile

\* A device's update has a name, even when it is deleted.
DeviceUpdateKnown == dev.update # None => dev.update \in Updates

LifeInv == Shapes /\ OneLife /\ DownIsIdle /\ Stamps /\ DeviceUpdateKnown

\* The files of a directory that the server made belong together, and what the daemon
\* holds is the directory's, unless it was replaced or removed behind its back.
TogetherInv ==
  /\ \A u \in Updates \ (crossed \cup own) : u \in rows \/ Saved(u) => Together(dir[u])
  /\ daemon.cur # None /\ daemon.cur \notin crossed => daemon.held = dir[daemon.cur].timestamp

\* No timestamp of an update that was seen to expires before the daemon's next pass.
Lasts(u) == dir[u].timestamp.exp > now + 1

ExpiryInv ==
  /\ \A u \in Updates \ own : Busy(u) => upl[u].files.timestamp.exp > now + 1
  /\ \A u \in Updates \ lapsing : Saved(u) => Lasts(u)
  /\ Up /\ passed = now => \A u \in rows \ lapsing : Lasts(u)
  /\ daemon.todo # {} => passed # now /\ \A u \in rows \ (daemon.todo \cup lapsing) : Lasts(u)
  /\ Up /\ passed >= 0 => \A u \in rows \ lapsing : dir[u].timestamp.exp > now

-----------------------------------------------------------------------------
(* Lemmas *)

\* A timestamp file is not a missing one.
LEMMA StampIsFile ==
  ASSUME NEW v, NEW s, NEW e \in Int, NEW k
  PROVE  IsStamp([ver |-> v, of |-> s, exp |-> e, by |-> k])
<1> DEFINE t == [ver |-> v, of |-> s, exp |-> e, by |-> k]
<1>1. t # NoFile
  <2>1. DOMAIN t = {"ver", "of", "exp", "by"} /\ DOMAIN NoFile = {"ver"}
    BY DEF NoFile
  <2> QED
    BY <2>1
<1>2. t.exp = e /\ t = [ver |-> t.ver, of |-> t.of, exp |-> t.exp, by |-> t.by]
  OBVIOUS
<1> QED
  BY <1>1, <1>2 DEF IsStamp

\* What generateUpdateTuf makes is complete (GenerateTufMeta signs targets, then the
\* snapshot of these targets, then the timestamp of this snapshot).
LEMMA GeneratedComplete ==
  ASSUME now \in Nat, NEW o
  PROVE  /\ IsComplete(GenerateTufMeta(o))
         /\ GenerateTufMeta(o).timestamp.exp > now + 1
<1> DEFINE v == getLatestVersions + 1
           t == IF o.opts.appVersion # 0 THEN o.opts.appVersion ELSE getLatestTargetVersion + 1
           f == [from |-> o.from, hash |-> o.opts.hash, hardwareId |-> o.opts.hardwareId]
           e == now + TimestampExpiration
           d == Signed(v, t, f, e, linkRoots, signers)
<1>1. GenerateTufMeta(o) = d
  BY DEF GenerateTufMeta
<1>2. e \in Int /\ e > now + 1
  BY TufAssumption
<1> HIDE DEF v, t, f, e
<1>3. IsDir(d) /\ Together(d)
  BY DEF Signed, Targets, Snapshot, Timestamp, IsDir, Together
<1>4. d.timestamp = [ver |-> d.snapshot.ver * 1000, of |-> d.snapshot, exp |-> e,
                     by |-> signers["timestamp"]]
  BY DEF Signed, Timestamp, Snapshot, Targets
<1>5. IsStamp(d.timestamp) /\ d.timestamp.exp = e
  BY <1>2, <1>4, StampIsFile
<1> QED
  BY <1>1, <1>2, <1>3, <1>5 DEF IsComplete

\* The daemon keeps the version and the snapshot of a timestamp.
LEMMA RefreshedStamp ==
  ASSUME now \in Nat, NEW t, IsStamp(t)
  PROVE  /\ IsStamp(Refreshed(t))
         /\ Refreshed(t).of = t.of /\ Refreshed(t).ver = t.ver
         /\ Refreshed(t).exp > now + 1
         /\ Refreshed(t).by = signers["timestamp"]
<1> DEFINE e == now + TimestampExpiration
           k == signers["timestamp"]
<1>1. e \in Int /\ e > now + 1
  BY TufAssumption
<1> HIDE DEF e, k
<1>2. Refreshed(t) = [ver |-> t.ver, of |-> t.of, exp |-> e, by |-> k]
  <2> DEFINE r == [t EXCEPT !.exp = e]
  <2>1. t = [ver |-> t.ver, of |-> t.of, exp |-> t.exp, by |-> t.by]
    BY DEF IsStamp
  <2>2. r = [ver |-> t.ver, of |-> t.of, exp |-> e, by |-> t.by]
    BY <2>1
  <2>3. Refreshed(t) = [r EXCEPT !.by = k]
    BY DEF Refreshed, e, k
  <2> HIDE DEF r
  <2> QED
    BY <2>2, <2>3
<1>3. IsStamp(Refreshed(t))
  BY <1>1, <1>2, StampIsFile
<1> QED
  BY <1>1, <1>2, <1>3 DEF k

\* A directory that comes with the upload has the form of one, with or without a
\* timestamp.
LEMMA SuppliedShape ==
  ASSUME NEW d \in Supplied
  PROVE  IsDir(d) /\ (d.timestamp = NoFile \/ IsStamp(d.timestamp))
<1>1. d = [roots |-> 0, targets |-> d.targets, snapshot |-> d.snapshot, timestamp |-> d.timestamp]
  BY SuppliedAssumption
<1>2. d.roots = 0
  BY <1>1
<1>3. IsDir(d)
  BY <1>1, <1>2 DEF IsDir
<1> DEFINE t == d.timestamp
<1>4. \/ t = [ver |-> 0]
      \/ t = [ver |-> t.ver, of |-> t.of, exp |-> t.exp, by |-> t.by] /\ t.exp \in Int
  BY SuppliedAssumption
<1> HIDE DEF t
<1>5. CASE t = [ver |-> 0]
  BY <1>3, <1>5 DEF t, NoFile
<1>6. CASE t = [ver |-> t.ver, of |-> t.of, exp |-> t.exp, by |-> t.by] /\ t.exp \in Int
  <2>1. IsStamp([ver |-> t.ver, of |-> t.of, exp |-> t.exp, by |-> t.by])
    BY <1>6, StampIsFile
  <2>2. IsStamp(t)
    BY <1>6, <2>1
  <2> QED
    BY <1>3, <2>2 DEF t
<1> QED
  BY <1>4, <1>5, <1>6

\* tuf-init and auth-init are processes of their own.
DiskStep ==
  \/ authInit \/ InitTuf \/ writeFile \/ InitStops \/ RemoveRootKey
  \/ \E a \in Archives : ImportTuf(a)

\* They touch none of the server's variables.
LEMMA DiskFrame ==
  ASSUME DiskStep
  PROVE  UNCHANGED <<rows, dir, upl, del, uploads, early, own, reused, signers, daemon, passed, dev, now,
                     crossed, lapsing>>
BY DEF DiskStep, authInit, InitTuf, writeFile, InitStops, RemoveRootKey, ImportTuf, Begin, store

\* The invariant depends on these variables only.
LEMMA LifeFrame ==
  ASSUME LifeInv,
         UNCHANGED <<rows, dir, upl, del, uploads, own, signers, daemon, passed, dev, now, lapsing>>
  PROVE  LifeInv'
BY DEF LifeInv, Shapes, OneLife, DownIsIdle, Stamps, DeviceUpdateKnown, Busy, Saved, Unsaved

\* A server that starts has nothing to do yet; one that crashes has nothing left.
LEMMA ServerLife ==
  ASSUME LifeInv, LoadTuf \/ Crash
  PROVE  LifeInv'
<1>1. CASE LoadTuf
  <2>1. keyfile # None => signers' # None
    BY <1>1 DEF LoadTuf
  <2>2. UNCHANGED <<rows, dir, upl, del, uploads, own, daemon, passed, dev, now, lapsing>> /\ signers = None
    BY <1>1 DEF LoadTuf, store
  <2> QED
    BY <2>2 DEF LifeInv, Shapes, OneLife, DownIsIdle, Stamps, DeviceUpdateKnown, Busy, Saved, Unsaved
<1>2. CASE Crash
  <2>1. /\ upl' = [u \in Updates |-> NoUpload] /\ del' = [u \in Updates |-> 0]
        /\ daemon' = Asleep /\ passed' = -1
        /\ UNCHANGED <<rows, dir, uploads, dev, now, lapsing>>
    BY <1>2 DEF Crash
  <2>2. \A u \in Updates : upl'[u] = NoUpload /\ del'[u] = 0 /\ NoUpload.pc = "idle"
    BY <2>1 DEF NoUpload
  <2>3. Shapes'
    BY <2>1, <2>2 DEF LifeInv, Shapes, NoUpload, Asleep
  <2>4. OneLife' /\ DownIsIdle'
    BY <2>1, <2>2 DEF OneLife, DownIsIdle, Busy
  <2>5. Stamps' /\ DeviceUpdateKnown'
    BY <2>1, <2>2 DEF LifeInv, Stamps, DeviceUpdateKnown, Saved, Asleep
  <2> QED
    BY <2>3, <2>4, <2>5 DEF LifeInv
<1> QED
  BY <1>1, <1>2

\* An upload is unpacked apart.
LEMMA UnpackedLife ==
  ASSUME LifeInv, NEW u \in Updates, NEW d, Unpacked(u, d), Unsaved(u, d)',
         \A w \in Updates \ {u} : w \in own' <=> w \in own,
         UNCHANGED <<rows, dir, del, signers, daemon, passed, dev, now, lapsing>>
  PROVE  LifeInv'
<1> USE DEF LifeInv
<1> DEFINE new == [pc |-> "generated", files |-> d]
<1>1. /\ upl' = [upl EXCEPT ![u] = new]
      /\ u \notin rows /\ Up
      /\ uploads' = uploads + 1
  BY DEF Unpacked
<1>2. /\ new = [pc |-> new.pc, files |-> new.files]
      /\ new.pc = "generated" /\ new # NoUpload /\ new.files = d
  BY DEF NoUpload
<1> HIDE DEF new
<1>3. upl'[u] = new /\ \A w \in Updates \ {u} : upl'[w] = upl[w]
  BY <1>1 DEF Shapes
<1>4. Shapes'
  BY <1>1, <1>2, <1>3 DEF Shapes
<1>5. OneLife'
  BY <1>1, <1>2, <1>3 DEF OneLife, Busy, Unsaved
<1>6. DownIsIdle'
  BY <1>1 DEF DownIsIdle, Up
<1>7. Stamps' /\ DeviceUpdateKnown'
  BY <1>1, <1>2, <1>3 DEF Stamps, DeviceUpdateKnown, Saved
<1> QED
  BY <1>4, <1>5, <1>6, <1>7

\* The upload generates its metadata apart, or brings it, moves it into place and
\* inserts the row; or it fails.
LEMMA UploadLife ==
  ASSUME LifeInv, NEW u \in Updates,
         \/ \E o \in TargetOptions : generateUpdateTuf(u, o)
         \/ \E d \in Supplied : sawTuf(u, d)
         \/ SaveUpload(u)
         \/ UpdateInsert(u)
         \/ UploadFails(u)
  PROVE  LifeInv'
<1>0. NoUpload.pc = "idle"
  BY DEF NoUpload
<1>1. ASSUME NEW o \in TargetOptions, generateUpdateTuf(u, o)
      PROVE  LifeInv'
  <2>0. PICK d : d = GenerateTufMeta(o)
    OBVIOUS
  <2>1. /\ Unpacked(u, d) /\ own' = own \ {u}
        /\ UNCHANGED <<rows, dir, del, signers, daemon, passed, dev, now, lapsing>>
    BY <1>1, <2>0 DEF generateUpdateTuf
  <2>2. IsComplete(d)
    BY <2>0, GeneratedComplete DEF LifeInv, Shapes
  <2>3. Unsaved(u, d)'
    BY <2>2 DEF Unsaved, IsComplete
  <2> QED
    BY <2>1, <2>3, UnpackedLife
<1>1a. ASSUME NEW d \in Supplied, sawTuf(u, d)
       PROVE  LifeInv'
  <2>1. /\ Unpacked(u, d) /\ own' = own \cup {u}
        /\ UNCHANGED <<rows, dir, del, signers, daemon, passed, dev, now, lapsing>>
    BY <1>1a DEF sawTuf
  <2>2. Unsaved(u, d)'
    BY <2>1, SuppliedShape DEF Unsaved
  <2> QED
    BY <2>1, <2>2, UnpackedLife
<1> USE DEF LifeInv
<1>2. CASE SaveUpload(u)
  <2>1. /\ upl[u].pc = "generated"
        /\ dir' = [dir EXCEPT ![u] = upl[u].files]
        /\ upl' = [upl EXCEPT ![u].pc = "saved"]
        /\ lapsing' = IF u \in own THEN lapsing \cup {u} ELSE lapsing \ {u}
        /\ UNCHANGED <<rows, del, uploads, own, signers, daemon, passed, dev, now>>
    BY <1>2 DEF SaveUpload, disk
  <2>2. Busy(u) /\ Unsaved(u, upl[u].files) /\ u \notin rows
    BY <1>0, <2>1 DEF OneLife, Busy
  <2>3. /\ upl'[u] = [pc |-> "saved", files |-> upl[u].files]
        /\ \A w \in Updates \ {u} : upl'[w] = upl[w] /\ dir'[w] = dir[w]
        /\ dir'[u] = upl[u].files
    BY <2>1 DEF Shapes
  <2>4. Shapes'
    BY <2>1, <2>2, <2>3 DEF Shapes, Unsaved
  <2>5. OneLife' /\ DownIsIdle'
    BY <1>0, <2>1, <2>2, <2>3 DEF OneLife, DownIsIdle, Busy, Unsaved
  <2>6. \A w \in Updates \ {u} : w \in lapsing' <=> w \in lapsing
    BY <2>1
  <2>7. u \notin lapsing' => dir'[u].timestamp # NoFile
    BY <2>1, <2>2, <2>3 DEF Unsaved, IsComplete, IsStamp
  <2>8. (\A w \in Updates : dir[w].timestamp = NoFile \/ IsStamp(dir[w].timestamp))'
    BY <2>2, <2>3 DEF Unsaved, Stamps, IsStamp
  <2>9. (\A w \in Updates \ lapsing : w \in rows \/ Saved(w) => dir[w].timestamp # NoFile)'
    BY <2>1, <2>3, <2>6, <2>7 DEF Stamps, Saved
  <2>10. Stamps' /\ DeviceUpdateKnown'
    BY <2>1, <2>8, <2>9 DEF Stamps, DeviceUpdateKnown, IsStamp
  <2> QED
    BY <2>4, <2>5, <2>10
<1>3. CASE UpdateInsert(u)
  <2>1. /\ upl[u].pc = "saved"
        /\ rows' = rows \cup {u}
        /\ upl' = [upl EXCEPT ![u] = NoUpload]
        /\ UNCHANGED <<dir, del, uploads, own, signers, daemon, passed, dev, now, lapsing>>
    BY <1>3 DEF UpdateInsert, disk
  <2>2. Busy(u) /\ Saved(u)
    BY <1>0, <2>1 DEF Busy, Saved
  <2>3. upl'[u] = NoUpload /\ \A w \in Updates \ {u} : upl'[w] = upl[w]
    BY <2>1 DEF Shapes
  <2>4. Shapes'
    BY <2>1, <2>3 DEF Shapes, NoUpload
  <2>5. OneLife' /\ DownIsIdle'
    BY <2>1, <2>2, <2>3 DEF OneLife, DownIsIdle, Busy, Unsaved
  <2>6. Stamps' /\ DeviceUpdateKnown'
    BY <1>0, <2>1, <2>2, <2>3 DEF Stamps, DeviceUpdateKnown, Saved
  <2> QED
    BY <2>4, <2>5, <2>6
<1>4. CASE UploadFails(u)
  <2>1. /\ upl' = [upl EXCEPT ![u] = NoUpload]
        /\ UNCHANGED <<rows, dir, del, uploads, own, signers, daemon, passed, dev, now, lapsing>>
    BY <1>4 DEF UploadFails
  <2>2. upl'[u] = NoUpload /\ \A w \in Updates \ {u} : upl'[w] = upl[w]
    BY <2>1 DEF Shapes
  <2>3. Shapes'
    BY <2>1, <2>2 DEF Shapes, NoUpload
  <2>4. OneLife' /\ DownIsIdle'
    BY <2>1, <2>2 DEF OneLife, DownIsIdle, Busy, Unsaved
  <2>5. Stamps' /\ DeviceUpdateKnown'
    BY <1>0, <2>1, <2>2 DEF Stamps, DeviceUpdateKnown, Saved
  <2> QED
    BY <2>3, <2>4, <2>5
<1> QED
  BY <1>1, <1>1a, <1>2, <1>3, <1>4

\* The row goes, unless a device of its tag has the update, and then the directory,
\* unless that fails.
LEMMA DeleteLife ==
  ASSUME LifeInv, NEW u \in Updates, DeleteUpdate(u) \/ RemoveDir(u) \/ RemoveFails(u)
  PROVE  LifeInv'
<1> USE DEF LifeInv
<1>1. CASE DeleteUpdate(u)
  <2>1. /\ Up /\ rows' = rows \ {u}
        /\ del' = [del EXCEPT ![u] = @ + 1]
        /\ UNCHANGED <<dir, upl, uploads, own, signers, daemon, passed, dev, now, lapsing>>
    BY <1>1 DEF DeleteUpdate, disk
  <2>2. Shapes'
    BY <2>1 DEF Shapes
  <2>3. OneLife' /\ DownIsIdle'
    BY <2>1 DEF OneLife, DownIsIdle, Busy, Up, Unsaved
  <2>4. Stamps' /\ DeviceUpdateKnown'
    BY <2>1 DEF Stamps, DeviceUpdateKnown, Saved
  <2> QED
    BY <2>2, <2>3, <2>4
<1>2. CASE RemoveDir(u) \/ RemoveFails(u)
  <2>1. /\ del[u] > 0 /\ del' = [del EXCEPT ![u] = @ - 1]
        /\ UNCHANGED <<rows, upl, uploads, own, signers, daemon, passed, dev, now>>
        /\ \/ dir' = [dir EXCEPT ![u] = NoDir] /\ lapsing' = lapsing \cup {u}
           \/ dir' = dir /\ lapsing' = lapsing
    BY <1>2 DEF RemoveDir, RemoveFails, disk
  <2>2. IsDir(NoDir) /\ NoDir.timestamp = NoFile
    BY DEF IsDir, NoDir
  <2>3. /\ (dir'[u] = NoDir /\ u \in lapsing') \/ dir'[u] = dir[u]
        /\ \A w \in Updates \ {u} : dir'[w] = dir[w]
        /\ lapsing \subseteq lapsing'
    BY <2>1 DEF Shapes
  <2>4. dir' = [w \in Updates |-> dir'[w]]
    BY <2>1 DEF Shapes
  <2>5. \A w \in Updates : IsDir(dir'[w])
    BY <2>2, <2>3 DEF Shapes, IsDir
  <2>6. del' \in [Updates -> Nat]
    BY <2>1 DEF Shapes
  <2>7. Shapes'
    BY <2>1, <2>4, <2>5, <2>6 DEF Shapes
  <2>8. Up
    BY <2>1 DEF DownIsIdle, Up
  <2>9. OneLife' /\ DownIsIdle'
    BY <2>1, <2>8 DEF OneLife, DownIsIdle, Busy, Up, Unsaved
  <2>10. Stamps' /\ DeviceUpdateKnown'
    BY <2>1, <2>2, <2>3 DEF Stamps, DeviceUpdateKnown, Saved
  <2> QED
    BY <2>7, <2>9, <2>10
<1> QED
  BY <1>1, <1>2

\* The daemon goes through the updates that it found; it passes over those whose
\* refresh fails.
LEMMA DaemonLife ==
  ASSUME LifeInv,
         \/ RefreshTufTimestamps \/ ListFails
         \/ \E u \in Updates : ReadTimestamp(u) \/ refreshFails(u)
         \/ WriteTimestamp
  PROVE  LifeInv'
<1> USE DEF LifeInv
<1>0. Asleep.todo = {} /\ Asleep.cur = None /\ Asleep.held = NoFile
  BY DEF Asleep
<1>1. ASSUME NEW u \in Updates, Done(u)
      PROVE  /\ daemon' = [todo |-> daemon.todo \ {u}, cur |-> None, held |-> NoFile]
             /\ passed' \in {passed, now}
  BY <1>1 DEF Done, Asleep
<1>2. CASE RefreshTufTimestamps
  <2>1. /\ daemon' = [todo |-> rows, cur |-> None, held |-> NoFile]
        /\ passed' \in {passed, now} /\ Up
        /\ UNCHANGED <<rows, dir, upl, del, uploads, own, signers, dev, now, lapsing>>
    BY <1>2 DEF RefreshTufTimestamps, Asleep, store
  <2>2. Shapes'
    BY <2>1 DEF Shapes
  <2> QED
    BY <2>1, <2>2 DEF OneLife, DownIsIdle, Stamps, DeviceUpdateKnown, Busy, Saved, Up, Unsaved
<1>2a. CASE ListFails
  <2>1. /\ passed' = now /\ Up /\ lapsing \subseteq lapsing'
        /\ UNCHANGED <<rows, dir, upl, del, uploads, own, signers, daemon, dev, now>>
    BY <1>2a DEF ListFails, store
  <2>2. Shapes'
    BY <2>1 DEF Shapes
  <2> QED
    BY <2>1, <2>2 DEF OneLife, DownIsIdle, Stamps, DeviceUpdateKnown, Busy, Saved, Up, Unsaved
<1>3. ASSUME NEW u \in Updates, ReadTimestamp(u) \/ refreshFails(u)
      PROVE  LifeInv'
  <2>0. Up
    BY <1>0, <1>3 DEF ReadTimestamp, refreshFails, DownIsIdle, Up
  <2>1. /\ u \in daemon.todo
        /\ UNCHANGED <<rows, dir, upl, del, uploads, own, signers, dev, now>>
    BY <1>3 DEF ReadTimestamp, refreshFails, store
  <2>2. /\ \A w \in Updates \ {u} : w \in lapsing' <=> w \in lapsing
        /\ u \in lapsing' \/ dir[u].timestamp # NoFile \/ (lapsing' = lapsing)
    BY <1>3 DEF ReadTimestamp, refreshFails
  <2>3. (\A w \in Updates \ lapsing : w \in rows \/ Saved(w) => dir[w].timestamp # NoFile)'
    BY <2>1, <2>2 DEF Stamps, Saved
  <2>4. CASE Done(u)
    <3>1. Shapes'
      BY <1>1, <2>1, <2>4 DEF Shapes
    <3>2. Stamps'
      BY <1>1, <2>1, <2>3, <2>4 DEF Stamps
    <3> QED
      BY <1>1, <2>0, <2>1, <2>4, <3>1, <3>2
      DEF OneLife, DownIsIdle, DeviceUpdateKnown, Busy, Up, Unsaved
  <2>5. CASE ~Done(u)
    <3>1. /\ dir[u].timestamp # NoFile /\ UNCHANGED passed
          /\ daemon' = [daemon EXCEPT !.cur = u, !.held = dir[u].timestamp]
      BY <1>3, <2>5 DEF ReadTimestamp, refreshFails
    <3>2. daemon' = [todo |-> daemon.todo, cur |-> u, held |-> dir[u].timestamp]
      BY <3>1 DEF Shapes
    <3>3. Shapes'
      BY <2>1, <3>1, <3>2 DEF Shapes
    <3>4. Stamps'
      BY <2>1, <2>3, <3>1, <3>2 DEF Stamps
    <3> QED
      BY <2>0, <2>1, <3>1, <3>2, <3>3, <3>4
      DEF OneLife, DownIsIdle, DeviceUpdateKnown, Busy, Up, Unsaved
  <2> QED
    BY <2>4, <2>5
<1>4. CASE WriteTimestamp
  <2>0. Up
    BY <1>0, <1>4 DEF WriteTimestamp, DownIsIdle, Up
  <2> DEFINE c == daemon.cur
             t == Refreshed(daemon.held)
  <2>1. /\ c \in Updates /\ IsStamp(t)
        /\ dir' = [dir EXCEPT ![c].timestamp = t]
        /\ lapsing' = lapsing \ {c}
        /\ UNCHANGED <<rows, upl, del, uploads, own, signers, dev, now>>
        /\ daemon' = [todo |-> daemon.todo \ {c}, cur |-> None, held |-> NoFile]
        /\ passed' \in {passed, now}
    <3>1. c \in Updates /\ IsStamp(daemon.held)
      BY <1>4 DEF WriteTimestamp, Stamps, Shapes
    <3>2. IsStamp(t)
      BY <3>1, RefreshedStamp DEF Shapes
    <3> QED
      BY <1>1, <1>4, <3>1, <3>2 DEF WriteTimestamp, disk
  <2>2. t # NoFile
    BY <2>1 DEF IsStamp
  <2> HIDE DEF c, t
  <2>3. /\ \A w \in Updates \ {c} : dir'[w] = dir[w]
        /\ dir'[c] = [roots |-> dir[c].roots, targets |-> dir[c].targets,
                      snapshot |-> dir[c].snapshot, timestamp |-> t]
    BY <2>1 DEF Shapes, IsDir
  <2>4. IsDir(dir'[c]) /\ dir'[c].timestamp = t
    BY <2>3 DEF IsDir
  <2>5. Shapes'
    BY <2>1, <2>3, <2>4 DEF Shapes
  <2>6. OneLife' /\ DownIsIdle' /\ DeviceUpdateKnown'
    BY <2>0, <2>1 DEF OneLife, DownIsIdle, DeviceUpdateKnown, Busy, Up, Unsaved
  <2>7. Stamps'
    BY <2>1, <2>2, <2>3, <2>4 DEF Stamps, Saved
  <2> QED
    BY <2>5, <2>6, <2>7
<1> QED
  BY <1>2, <1>2a, <1>3, <1>4

\* A device is given an update that has a row, reports, and reads.
LEMMA DeviceLife ==
  ASSUME LifeInv, (\E u \in Updates : SetUpdateName(u)) \/ CheckIn \/ metaTimestamp \/ Tick
  PROVE  LifeInv'
<1> USE DEF LifeInv
<1>1. /\ UNCHANGED <<rows, dir, upl, del, uploads, own, signers, daemon, passed, lapsing>>
      /\ \/ dev' = dev
         \/ \E s : dev' = [dev EXCEPT !.seen = s]
         \/ \E u \in rows : dev' = [dev EXCEPT !.update = u]
         \/ \E t : dev' = [dev EXCEPT !.tagged = t]
      /\ now' = now \/ now' = now + 1
  BY DEF SetUpdateName, CheckIn, metaTimestamp, Tick, store
<1>2. Shapes' /\ DeviceUpdateKnown'
  BY <1>1 DEF Shapes, DeviceUpdateKnown
<1> QED
  BY <1>1, <1>2 DEF OneLife, DownIsIdle, Stamps, Busy, Saved, Unsaved

\* The life cycle of updates and their metadata directories: Spec keeps LifeInv.
THEOREM LifeInvariant == Spec => []LifeInv
<1>1. Init => LifeInv
  <2> SUFFICES ASSUME Init
               PROVE  LifeInv
    OBVIOUS
  <2> USE DEF Init
  <2>1. \A u \in Updates : dir[u] = NoDir /\ upl[u] = NoUpload /\ del[u] = 0
    OBVIOUS
  <2>2. IsDir(NoDir) /\ NoDir.timestamp = NoFile
    BY DEF IsDir, NoDir
  <2>3. Shapes
    BY <2>1, <2>2 DEF Shapes, NoUpload, Asleep
  <2> QED
    BY <2>1, <2>2, <2>3
    DEF LifeInv, OneLife, DownIsIdle, Stamps, DeviceUpdateKnown, Busy, Saved, NoUpload, Asleep
<1>2. LifeInv /\ [Next]_vars => LifeInv'
  <2> SUFFICES ASSUME LifeInv, [Next]_vars
               PROVE  LifeInv'
    OBVIOUS
  <2>1. CASE DiskStep
    BY <2>1, DiskFrame, LifeFrame
  <2>2. CASE UNCHANGED vars
    BY <2>2, LifeFrame DEF vars, store
  <2> QED
    BY <2>1, <2>2, ServerLife, UploadLife, DeleteLife, DaemonLife, DeviceLife DEF Next, DiskStep
<1> QED
  BY <1>1, <1>2, PTL DEF Spec

-----------------------------------------------------------------------------
(* The files of an update belong together *)

\* The next state of a directory that is replaced or removed: other directories and
\* what the daemon holds of them are left alone, and a directory that changes under
\* the daemon is on record.
LEMMA TogetherReplace ==
  ASSUME LifeInv, TogetherInv, NEW u \in Updates, NEW d,
         dir' = [dir EXCEPT ![u] = d], UNCHANGED <<daemon, own, rows>>,
         \A w \in Updates \ {u} : (w \in crossed' <=> w \in crossed) /\ upl'[w] = upl[w],
         daemon.cur = u => u \in crossed',
         u \notin crossed' /\ u \notin own /\ (u \in rows \/ Saved(u)') => Together(d)
  PROVE  TogetherInv'
<1>1. dir'[u] = d /\ \A w \in Updates \ {u} : dir'[w] = dir[w]
  BY DEF LifeInv, Shapes
<1>2. daemon.cur # None => daemon.cur \in Updates
  BY DEF LifeInv, Shapes, Stamps
<1>3. ASSUME NEW w \in Updates, w \notin crossed' \cup own', w \in rows' \/ Saved(w)'
      PROVE  Together(dir'[w])
  <2>1. CASE w = u
    BY <1>1, <1>3, <2>1
  <2>2. CASE w # u
    BY <1>1, <1>3, <2>2 DEF TogetherInv, Saved
  <2> QED
    BY <2>1, <2>2
<1>4. daemon.cur # None /\ daemon.cur \notin crossed' => daemon.held = dir'[daemon.cur].timestamp
  BY <1>1, <1>2 DEF TogetherInv
<1> QED
  BY <1>3, <1>4 DEF TogetherInv, Together

\* The daemon writes back the version and snapshot it has read.
LEMMA TogetherDaemon ==
  ASSUME LifeInv, TogetherInv,
         \/ RefreshTufTimestamps \/ ListFails
         \/ \E u \in Updates : ReadTimestamp(u) \/ refreshFails(u)
         \/ WriteTimestamp
  PROVE  TogetherInv'
<1>0. ASSUME NEW u, Done(u)
      PROVE  daemon'.cur = None
  BY <1>0 DEF Done, Asleep
<1>1. CASE RefreshTufTimestamps
  <2>1. daemon'.cur = None /\ UNCHANGED <<dir, rows, upl, own, crossed>>
    BY <1>1 DEF RefreshTufTimestamps, Asleep, store
  <2> QED
    BY <2>1 DEF TogetherInv, Together, Saved
<1>1a. CASE ListFails
  <2>1. UNCHANGED <<daemon, dir, rows, upl, own, crossed>>
    BY <1>1a DEF ListFails, store
  <2> QED
    BY <2>1 DEF TogetherInv, Together, Saved
<1>2. ASSUME NEW u \in Updates, ReadTimestamp(u) \/ refreshFails(u)
      PROVE  TogetherInv'
  <2>1. UNCHANGED <<dir, rows, upl, own, crossed>>
    BY <1>2 DEF ReadTimestamp, refreshFails, store
  <2>2. \/ daemon'.cur = None
        \/ daemon'.held = dir[u].timestamp /\ daemon'.cur = u
    <3>1. Done(u) \/ daemon' = [daemon EXCEPT !.cur = u, !.held = dir[u].timestamp]
      BY <1>2 DEF ReadTimestamp, refreshFails
    <3>2. CASE Done(u)
      BY <1>0, <3>2
    <3>3. CASE daemon' = [daemon EXCEPT !.cur = u, !.held = dir[u].timestamp]
      <4>1. daemon' = [todo |-> daemon.todo, cur |-> u, held |-> dir[u].timestamp]
        BY <3>3 DEF LifeInv, Shapes
      <4> QED
        BY <4>1
    <3> QED
      BY <3>1, <3>2, <3>3
  <2> QED
    BY <2>1, <2>2 DEF TogetherInv, Together, Saved
<1>3. CASE WriteTimestamp
  <2> DEFINE c == daemon.cur
             t == Refreshed(daemon.held)
  <2>1. /\ c \in Updates /\ c # None /\ IsStamp(daemon.held)
        /\ dir' = [dir EXCEPT ![c].timestamp = t]
        /\ daemon'.cur = None /\ UNCHANGED <<rows, upl, own, crossed>>
    BY <1>0, <1>3 DEF WriteTimestamp, LifeInv, Stamps, Shapes
  <2>2. t.of = daemon.held.of
    BY <2>1, RefreshedStamp DEF LifeInv, Shapes
  <2>3. c \notin crossed => daemon.held = dir[c].timestamp
    BY <2>1 DEF TogetherInv
  <2> HIDE DEF c, t
  <2>4. /\ \A w \in Updates \ {c} : dir'[w] = dir[w]
        /\ dir'[c] = [roots |-> dir[c].roots, targets |-> dir[c].targets,
                      snapshot |-> dir[c].snapshot, timestamp |-> t]
    BY <2>1 DEF LifeInv, Shapes, IsDir
  <2>5. c \notin crossed /\ Together(dir[c]) => Together(dir'[c])
    BY <2>2, <2>3, <2>4 DEF Together
  <2>6. ASSUME NEW w \in Updates, w \notin crossed' \cup own', w \in rows' \/ Saved(w)'
        PROVE  Together(dir'[w])
    <3>1. Together(dir[w]) /\ w \notin crossed
      BY <2>1, <2>6 DEF TogetherInv, Saved
    <3> QED
      BY <2>4, <2>5, <3>1
  <2> QED
    BY <2>1, <2>6 DEF TogetherInv, Together
<1> QED
  BY <1>1, <1>1a, <1>2, <1>3

\* Spec keeps TogetherInv.
THEOREM TogetherInvariant == Spec => []TogetherInv
<1>1. Init => TogetherInv
  BY DEF Init, TogetherInv, Saved, NoUpload, Asleep
<1>2. LifeInv /\ TogetherInv /\ [Next]_vars => TogetherInv'
  <2> SUFFICES ASSUME LifeInv, TogetherInv, [Next]_vars
               PROVE  TogetherInv'
    OBVIOUS
  <2>0. ASSUME UNCHANGED <<dir, daemon, crossed>>,
               \A u \in Updates : u \in rows' \/ Saved(u)' =>
                 (u \in rows \/ Saved(u)) /\ (u \in own' <=> u \in own)
        PROVE  TogetherInv'
    BY <2>0 DEF TogetherInv, Together
  <2>1. CASE DiskStep
    BY <2>0, <2>1, DiskFrame DEF Saved
  <2>2. CASE LoadTuf
    BY <2>0, <2>2 DEF LoadTuf, store, Saved
  <2>3. CASE Crash
    <3>1. daemon'.cur = None /\ UNCHANGED <<dir, rows, own, crossed>> /\ \A u \in Updates : upl'[u] = NoUpload
      BY <2>3 DEF Crash, Asleep
    <3> QED
      BY <3>1 DEF TogetherInv, Together, Saved, NoUpload
  <2>4. ASSUME NEW u \in Updates, NEW d, Unpacked(u, d), UNCHANGED <<rows, dir, daemon, crossed>>,
               \A w \in Updates \ {u} : w \in own' <=> w \in own
        PROVE  TogetherInv'
    <3>1. /\ upl'[u] = [pc |-> "generated", files |-> d] /\ u \notin rows
          /\ \A w \in Updates \ {u} : upl'[w] = upl[w]
      BY <2>4 DEF Unpacked, LifeInv, Shapes
    <3>2. ~Saved(u)'
      BY <3>1 DEF Saved
    <3> QED
      BY <2>0, <2>4, <3>1, <3>2 DEF Saved
  <2>4a. ASSUME NEW u \in Updates, NEW o \in TargetOptions, generateUpdateTuf(u, o)
         PROVE  TogetherInv'
    <3>1. /\ Unpacked(u, GenerateTufMeta(o)) /\ UNCHANGED <<rows, dir, daemon, crossed>>
          /\ \A w \in Updates \ {u} : w \in own' <=> w \in own
      BY <2>4a DEF generateUpdateTuf
    <3> QED
      BY <2>4, <3>1
  <2>4b. ASSUME NEW u \in Updates, NEW d \in Supplied, sawTuf(u, d)
         PROVE  TogetherInv'
    <3>1. /\ Unpacked(u, d) /\ UNCHANGED <<rows, dir, daemon, crossed>>
          /\ \A w \in Updates \ {u} : w \in own' <=> w \in own
      BY <2>4b DEF sawTuf
    <3> QED
      BY <2>4, <3>1
  <2>5. ASSUME NEW u \in Updates, SaveUpload(u)
        PROVE  TogetherInv'
    <3>1. /\ dir' = [dir EXCEPT ![u] = upl[u].files] /\ crossed' = Crosses(u)
          /\ UNCHANGED <<daemon, own, rows>>
          /\ upl[u].pc = "generated" /\ upl' = [upl EXCEPT ![u].pc = "saved"]
      BY <2>5 DEF SaveUpload
    <3>2. u \notin own => Together(upl[u].files)
      BY <3>1 DEF LifeInv, OneLife, Busy, NoUpload, Unsaved, IsComplete
    <3>3. \A w \in Updates \ {u} : (w \in crossed' <=> w \in crossed) /\ upl'[w] = upl[w]
      BY <3>1 DEF Crosses, LifeInv, Shapes
    <3>4. daemon.cur = u => u \in crossed'
      BY <3>1 DEF Crosses
    <3> QED
      BY <3>1, <3>2, <3>3, <3>4, TogetherReplace
  <2>6. ASSUME NEW u \in Updates,
               UpdateInsert(u) \/ UploadFails(u) \/ DeleteUpdate(u) \/ RemoveFails(u) \/ SetUpdateName(u)
        PROVE  TogetherInv'
    <3>1. /\ UNCHANGED <<dir, daemon, crossed, own>>
          /\ \/ rows' \subseteq rows /\ upl' = upl
             \/ /\ upl' = [upl EXCEPT ![u] = NoUpload]
                /\ rows' \subseteq rows \cup {w \in {u} : Saved(w)}
      BY <2>6 DEF UpdateInsert, UploadFails, DeleteUpdate, RemoveFails, SetUpdateName, store, Saved
    <3>2. \A w \in Updates : Saved(w)' => Saved(w)
      BY <3>1 DEF LifeInv, Shapes, Saved, NoUpload
    <3> QED
      BY <2>0, <3>1, <3>2
  <2>7. ASSUME NEW u \in Updates, RemoveDir(u)
        PROVE  TogetherInv'
    <3>1. /\ dir' = [dir EXCEPT ![u] = NoDir] /\ UNCHANGED <<daemon, own, rows, upl>>
          /\ crossed' = IF u \in rows \/ Saved(u) THEN crossed \cup {u} ELSE Crosses(u)
      BY <2>7 DEF RemoveDir, Saved
    <3>2. /\ \A w \in Updates \ {u} : (w \in crossed' <=> w \in crossed) /\ upl'[w] = upl[w]
          /\ daemon.cur = u => u \in crossed'
      BY <3>1 DEF Crosses
    <3>3. u \notin crossed' => ~(u \in rows \/ Saved(u)')
      BY <3>1 DEF Saved
    <3> QED
      BY <3>1, <3>2, <3>3, TogetherReplace
  <2>8. CASE CheckIn \/ metaTimestamp \/ Tick \/ UNCHANGED vars
    BY <2>0, <2>8 DEF CheckIn, metaTimestamp, Tick, vars, store, Saved
  <2> QED
    BY <2>1, <2>2, <2>3, <2>4a, <2>4b, <2>5, <2>6, <2>7, <2>8, TogetherDaemon DEF Next, DiskStep
<1> QED
  BY <1>1, <1>2, LifeInvariant, PTL DEF Spec

\* A device that asks for the three files of an update gets ones that belong
\* together, unless they came with the upload, or the directory was replaced or
\* removed between the daemon's read and its write or removed for an earlier update
\* of the name.
THEOREM MetadataConsistent == Spec => []FilesBelongTogether
<1>1. LifeInv /\ TogetherInv => FilesBelongTogether
  BY DEF LifeInv, Shapes, TogetherInv, Together, FilesBelongTogether
<1> QED
  BY <1>1, LifeInvariant, TogetherInvariant, PTL

-----------------------------------------------------------------------------
(* No timestamp of an update expires *)

\* A step that leaves the clock, the daemon's pass and the directories of known
\* updates alone, and adds none but one that lasts, keeps ExpiryInv.
LEMMA ExpiryFrame ==
  ASSUME ExpiryInv,
         UNCHANGED <<now, passed, signers>>,
         daemon'.todo = daemon.todo,
         \A u \in rows' \ lapsing' :
           (u \in rows \ lapsing /\ dir'[u] = dir[u]) \/ dir'[u].timestamp.exp > now + 1,
         \A u \in Updates \ own' : Busy(u)' => upl'[u].files.timestamp.exp > now + 1,
         \A u \in Updates \ lapsing' : Saved(u)' => dir'[u].timestamp.exp > now + 1,
         \A u \in rows' \ lapsing' : dir'[u].timestamp.exp \in Int,
         now \in Nat
  PROVE  ExpiryInv'
<1>1. (\A u \in Updates \ own : Busy(u) => upl[u].files.timestamp.exp > now + 1)'
  OBVIOUS
<1>2. (\A u \in Updates \ lapsing : Saved(u) => Lasts(u))'
  BY DEF Lasts
<1>3. (Up /\ passed = now => \A u \in rows \ lapsing : Lasts(u))'
  BY DEF ExpiryInv, Lasts, Up
<1>4. (daemon.todo # {} => passed # now /\ \A u \in rows \ (daemon.todo \cup lapsing) : Lasts(u))'
  BY DEF ExpiryInv, Lasts
<1>5. (Up /\ passed >= 0 => \A u \in rows \ lapsing : dir[u].timestamp.exp > now)'
  BY DEF ExpiryInv, Lasts, Up
<1> QED
  BY <1>1, <1>2, <1>3, <1>4, <1>5 DEF ExpiryInv

\* The daemon ends a pass only when every update's timestamp lasts until the next, or
\* is on record as lapsing.
LEMMA ExpiryDaemon ==
  ASSUME LifeInv, LifeInv', ExpiryInv,
         \/ RefreshTufTimestamps \/ ListFails
         \/ \E u \in Updates : ReadTimestamp(u) \/ refreshFails(u)
         \/ WriteTimestamp
  PROVE  ExpiryInv'
<1>0. now \in Nat /\ rows \subseteq Updates
  BY DEF LifeInv, Shapes
<1>1. CASE RefreshTufTimestamps
  <2>1. /\ Up /\ passed # now
        /\ daemon'.todo = rows
        /\ passed' = (IF rows = {} THEN now ELSE passed)
        /\ UNCHANGED <<rows, dir, upl, own, signers, now, lapsing>>
    BY <1>1 DEF RefreshTufTimestamps, Asleep, store
  <2> QED
    BY <2>1 DEF ExpiryInv, Lasts, Up, Busy, Saved
<1>1a. CASE ListFails
  <2>1. /\ daemon'.todo = {} /\ lapsing' = lapsing \cup rows
        /\ UNCHANGED <<rows, dir, upl, own, signers, now>>
    BY <1>1a DEF ListFails, Asleep, store
  <2>2. rows' \ lapsing' = {} /\ \A u : u \notin lapsing' => u \notin lapsing
    BY <2>1
  <2> QED
    BY <2>1, <2>2 DEF ExpiryInv, Lasts, Busy, Saved
<1>2. ASSUME NEW u \in Updates, u \in daemon.todo, Done(u),
             UNCHANGED <<rows, upl, own, signers, now>>,
             \A w \in Updates \ {u} : dir'[w] = dir[w] /\ (w \in lapsing' <=> w \in lapsing),
             u \notin lapsing' /\ (u \in rows \/ Saved(u)) => dir'[u].timestamp.exp > now + 1
      PROVE  ExpiryInv'
  <2>1. /\ daemon'.todo = daemon.todo \ {u}
        /\ passed' = (IF daemon.todo \subseteq {u} THEN now ELSE passed)
    BY <1>2 DEF Done, Asleep
  <2>2. passed # now /\ \A w \in rows \ (daemon.todo \cup lapsing) : dir[w].timestamp.exp > now + 1
    BY <1>2 DEF ExpiryInv, Lasts
  <2>3. \A w \in rows \ (daemon'.todo \cup lapsing') : dir'[w].timestamp.exp > now + 1
    BY <1>0, <1>2, <2>1, <2>2
  <2>4. (\A w \in Updates \ own : Busy(w) => upl[w].files.timestamp.exp > now + 1)'
    BY <1>2 DEF ExpiryInv, Busy
  <2>5. (\A w \in Updates \ lapsing : Saved(w) => Lasts(w))'
    BY <1>2 DEF ExpiryInv, Lasts, Saved
  <2>6. (Up /\ passed = now => \A w \in rows \ lapsing : Lasts(w))'
    BY <1>2, <2>1, <2>2, <2>3 DEF Lasts
  <2>7. (daemon.todo # {} => passed # now /\ \A w \in rows \ (daemon.todo \cup lapsing) : Lasts(w))'
    BY <1>2, <2>1, <2>2, <2>3 DEF Lasts
  <2>8. (Up /\ passed >= 0 => \A w \in rows \ lapsing : dir[w].timestamp.exp > now)'
    <3> SUFFICES ASSUME Up', passed' >= 0, NEW w \in rows', w \notin lapsing'
                 PROVE  dir'[w].timestamp.exp > now'
      OBVIOUS
    <3>1. dir'[w].timestamp.exp \in Int /\ w \in Updates
      BY <1>0, <1>2 DEF LifeInv, Stamps, IsStamp
    <3>2. CASE w \notin daemon'.todo
      BY <1>0, <1>2, <2>3, <3>1, <3>2
    <3>3. CASE w \in daemon'.todo
      <4>1. passed' = passed /\ w # u
        BY <2>1, <3>3
      <4> QED
        BY <1>2, <3>1, <4>1 DEF ExpiryInv, Up
    <3> QED
      BY <3>2, <3>3
  <2> QED
    BY <2>4, <2>5, <2>6, <2>7, <2>8 DEF ExpiryInv
<1>3. ASSUME NEW u \in Updates, ReadTimestamp(u) \/ refreshFails(u)
      PROVE  ExpiryInv'
  <2>1. u \in daemon.todo /\ UNCHANGED <<rows, dir, upl, own, signers, now>>
    BY <1>3 DEF ReadTimestamp, refreshFails, store
  <2>2. CASE Done(u)
    <3>1. /\ \A w \in Updates \ {u} : w \in lapsing' <=> w \in lapsing
          /\ u \in lapsing' \/ (dir[u].timestamp # NoFile /\ ~ExpiresSoon(dir[u].timestamp))
      <4>1. CASE refreshFails(u)
        BY <4>1 DEF refreshFails
      <4>2. CASE ReadTimestamp(u)
        <5>1. daemon' = [daemon EXCEPT !.cur = u, !.held = dir[u].timestamp] => daemon'.todo = daemon.todo
          BY DEF LifeInv, Shapes
        <5>2. daemon'.todo = daemon.todo \ {u}
          BY <2>2 DEF Done, Asleep
        <5> QED
          BY <2>1, <4>2, <5>1, <5>2 DEF ReadTimestamp
      <4> QED
        BY <1>3, <4>1, <4>2
    <3>2. u \notin lapsing' => dir[u].timestamp.exp > now + 1
      <4> SUFFICES ASSUME u \notin lapsing'
                   PROVE  dir[u].timestamp.exp > now + 1
        OBVIOUS
      <4>1. IsStamp(dir[u].timestamp)
        BY <3>1 DEF LifeInv, Stamps
      <4>2. ~(dir[u].timestamp.exp <= now + 1)
        BY <3>1 DEF ExpiresSoon
      <4>3. dir[u].timestamp.exp \in Int
        BY <4>1 DEF IsStamp
      <4> QED
        BY <1>0, <4>2, <4>3
    <3> QED
      BY <1>2, <2>1, <2>2, <3>1, <3>2
  <2>3. CASE ~Done(u)
    <3>1. UNCHANGED <<passed, lapsing>> /\ daemon' = [daemon EXCEPT !.cur = u, !.held = dir[u].timestamp]
      BY <1>3, <2>3 DEF ReadTimestamp, refreshFails
    <3>2. daemon'.todo = daemon.todo
      BY <3>1 DEF LifeInv, Shapes
    <3> QED
      BY <2>1, <3>1, <3>2 DEF ExpiryInv, Lasts, Up, Busy, Saved
  <2> QED
    BY <2>2, <2>3
<1>4. CASE WriteTimestamp
  <2> DEFINE c == daemon.cur
             t == Refreshed(daemon.held)
  <2>1. /\ c \in Updates /\ c \in daemon.todo /\ IsStamp(daemon.held)
        /\ dir' = [dir EXCEPT ![c].timestamp = t]
        /\ Done(c) /\ lapsing' = lapsing \ {c}
        /\ UNCHANGED <<rows, upl, own, signers, now>>
    BY <1>4 DEF WriteTimestamp, LifeInv, Stamps, Shapes
  <2>2. t.exp > now + 1
    BY <1>0, <2>1, RefreshedStamp
  <2> HIDE DEF c, t
  <2>3. /\ \A w \in Updates \ {c} : dir'[w] = dir[w]
        /\ dir'[c] = [roots |-> dir[c].roots, targets |-> dir[c].targets,
                      snapshot |-> dir[c].snapshot, timestamp |-> t]
    BY <2>1 DEF LifeInv, Shapes, IsDir
  <2>4. dir'[c].timestamp.exp > now + 1
    BY <2>2, <2>3
  <2> QED
    BY <1>2, <2>1, <2>3, <2>4
<1> QED
  BY <1>1, <1>1a, <1>3, <1>4

\* An upload that the server made metadata for lasts, and the clock moves on only
\* after a pass.
LEMMA ExpiryOther ==
  ASSUME LifeInv, LifeInv', ExpiryInv,
         \/ LoadTuf \/ Crash \/ Tick
         \/ \E u \in Updates :
              \/ \E o \in TargetOptions : generateUpdateTuf(u, o)
              \/ \E d \in Supplied : sawTuf(u, d)
              \/ SaveUpload(u) \/ UpdateInsert(u) \/ UploadFails(u)
              \/ DeleteUpdate(u) \/ RemoveDir(u) \/ RemoveFails(u)
  PROVE  ExpiryInv'
<1>0. /\ now \in Nat /\ rows \subseteq Updates /\ rows' \subseteq Updates
      /\ passed \in Int /\ passed <= now
  BY DEF LifeInv, Shapes
<1>1. \A u \in rows' \ lapsing' : dir'[u].timestamp.exp \in Int
  BY <1>0 DEF LifeInv, Stamps, IsStamp
<1>2. NoUpload.pc = "idle" /\ Asleep.todo = {}
  BY DEF NoUpload, Asleep
<1>3. CASE LoadTuf
  <2>1. passed = -1 /\ daemon = Asleep /\ UNCHANGED <<rows, dir, upl, own, daemon, passed, now, lapsing>>
    BY <1>3 DEF LoadTuf, LifeInv, DownIsIdle, store
  <2> QED
    BY <1>0, <1>2, <2>1 DEF ExpiryInv, Lasts, Busy, Saved
<1>4. CASE Crash
  <2>1. /\ signers' = None /\ daemon' = Asleep
        /\ upl' = [u \in Updates |-> NoUpload]
    BY <1>4 DEF Crash
  <2> QED
    BY <1>2, <2>1 DEF ExpiryInv, Up, Busy, Saved
<1>5. CASE Tick
  <2>1. /\ now' = now + 1 /\ UNCHANGED <<rows, dir, upl, signers, daemon, passed, lapsing>>
        /\ Up => passed = now /\ daemon = Asleep
        /\ \A u \in Updates : upl[u] = NoUpload
    BY <1>5 DEF Tick, store
  <2>2. daemon.todo = {}
    BY <1>2, <2>1 DEF LifeInv, DownIsIdle, Up
  <2>3. (Up /\ passed >= 0 => \A u \in rows \ lapsing : dir[u].timestamp.exp > now)'
    BY <2>1 DEF ExpiryInv, Lasts, Up
  <2>4. passed' # now'
    BY <1>0, <2>1
  <2> QED
    BY <1>2, <2>1, <2>2, <2>3, <2>4 DEF ExpiryInv, Busy, Saved
<1>6. ASSUME NEW u \in Updates, NEW d, Unpacked(u, d),
             UNCHANGED <<rows, dir, signers, daemon, passed, now, lapsing>>,
             \A w \in Updates \ {u} : w \in own' <=> w \in own,
             u \notin own' => d.timestamp.exp > now + 1
      PROVE  ExpiryInv'
  <2>1. upl' = [upl EXCEPT ![u] = [pc |-> "generated", files |-> d]]
    BY <1>6 DEF Unpacked
  <2>2. /\ upl'[u].pc = "generated" /\ upl'[u].files = d
        /\ \A w \in Updates \ {u} : upl'[w] = upl[w]
    BY <2>1 DEF LifeInv, Shapes
  <2>3. /\ \A w \in Updates \ own' : Busy(w)' => upl'[w].files.timestamp.exp > now + 1
        /\ \A w \in Updates \ lapsing' : Saved(w)' => dir'[w].timestamp.exp > now + 1
    BY <1>6, <2>2 DEF ExpiryInv, Busy, Saved, Lasts
  <2> QED
    BY <1>0, <1>1, <1>6, <2>3, ExpiryFrame
<1>6a. ASSUME NEW u \in Updates, NEW o \in TargetOptions, generateUpdateTuf(u, o)
       PROVE  ExpiryInv'
  <2>1. /\ Unpacked(u, GenerateTufMeta(o))
        /\ UNCHANGED <<rows, dir, signers, daemon, passed, now, lapsing>>
        /\ \A w \in Updates \ {u} : w \in own' <=> w \in own
    BY <1>6a DEF generateUpdateTuf
  <2>2. GenerateTufMeta(o).timestamp.exp > now + 1
    BY <1>0, GeneratedComplete
  <2> QED
    BY <1>6, <2>1, <2>2
<1>6b. ASSUME NEW u \in Updates, NEW d \in Supplied, sawTuf(u, d)
       PROVE  ExpiryInv'
  <2>1. /\ Unpacked(u, d) /\ u \in own'
        /\ UNCHANGED <<rows, dir, signers, daemon, passed, now, lapsing>>
        /\ \A w \in Updates \ {u} : w \in own' <=> w \in own
    BY <1>6b DEF sawTuf
  <2> QED
    BY <1>6, <2>1
<1>7. ASSUME NEW u \in Updates, SaveUpload(u)
      PROVE  ExpiryInv'
  <2>1. /\ upl[u].pc = "generated"
        /\ dir' = [dir EXCEPT ![u] = upl[u].files]
        /\ upl' = [upl EXCEPT ![u].pc = "saved"]
        /\ lapsing' = IF u \in own THEN lapsing \cup {u} ELSE lapsing \ {u}
        /\ UNCHANGED <<rows, own, signers, daemon, passed, now>>
    BY <1>7 DEF SaveUpload
  <2>2. Busy(u) /\ u \notin rows /\ (u \notin own => upl[u].files.timestamp.exp > now + 1)
    BY <1>2, <2>1 DEF LifeInv, OneLife, Busy, ExpiryInv
  <2>3. /\ upl'[u] = [pc |-> "saved", files |-> upl[u].files] /\ dir'[u] = upl[u].files
        /\ \A w \in Updates \ {u} : upl'[w] = upl[w] /\ dir'[w] = dir[w]
    BY <2>1 DEF LifeInv, Shapes
  <2>4. upl'[u].files = upl[u].files /\ \A w \in Updates \ {u} : w \in lapsing' <=> w \in lapsing
    BY <2>1, <2>3
  <2>5. \A w \in Updates \ own' : Busy(w)' => upl'[w].files.timestamp.exp > now + 1
    BY <2>1, <2>2, <2>3, <2>4 DEF ExpiryInv, Busy
  <2>6. \A w \in Updates \ lapsing' : Saved(w)' => dir'[w].timestamp.exp > now + 1
    BY <2>1, <2>2, <2>3, <2>4 DEF ExpiryInv, Saved, Lasts
  <2>7. \A w \in rows' \ lapsing' : w \in rows \ lapsing /\ dir'[w] = dir[w]
    BY <1>0, <2>1, <2>2, <2>3, <2>4
  <2> QED
    BY <1>0, <1>1, <2>1, <2>5, <2>6, <2>7, ExpiryFrame
<1>8. ASSUME NEW u \in Updates, UpdateInsert(u) \/ UploadFails(u)
      PROVE  ExpiryInv'
  <2>1. /\ rows' = rows \/ (Saved(u) /\ rows' = rows \cup {u})
        /\ upl' = [upl EXCEPT ![u] = NoUpload]
        /\ UNCHANGED <<dir, own, signers, daemon, passed, now, lapsing>>
    BY <1>8 DEF UpdateInsert, UploadFails, Saved
  <2>2. \A w \in rows' \ lapsing' : w \in rows \ lapsing \/ dir[w].timestamp.exp > now + 1
    BY <2>1 DEF ExpiryInv, Lasts
  <2>3. upl'[u] = NoUpload /\ \A w \in Updates \ {u} : upl'[w] = upl[w]
    BY <2>1 DEF LifeInv, Shapes
  <2>4. /\ \A w \in Updates \ own' : Busy(w)' => upl'[w].files.timestamp.exp > now + 1
        /\ \A w \in Updates \ lapsing' : Saved(w)' => dir'[w].timestamp.exp > now + 1
    BY <1>2, <2>1, <2>3 DEF ExpiryInv, Busy, Saved, Lasts
  <2> QED
    BY <1>0, <1>1, <2>1, <2>2, <2>4, ExpiryFrame
<1>9. ASSUME NEW u \in Updates, DeleteUpdate(u) \/ RemoveDir(u) \/ RemoveFails(u)
      PROVE  ExpiryInv'
  <2>1. /\ rows' \subseteq rows /\ lapsing \subseteq lapsing'
        /\ \A w \in Updates \ lapsing' : dir'[w] = dir[w]
        /\ UNCHANGED <<upl, own, signers, daemon, passed, now>>
    <3>1. CASE DeleteUpdate(u) \/ RemoveFails(u)
      BY <3>1 DEF DeleteUpdate, RemoveFails
    <3>2. CASE RemoveDir(u)
      <4>1. dir' = [dir EXCEPT ![u] = NoDir] /\ u \in lapsing'
        BY <3>2 DEF RemoveDir
      <4>2. \A w \in Updates \ {u} : dir'[w] = dir[w]
        BY <4>1 DEF LifeInv, Shapes
      <4> QED
        BY <3>2, <4>1, <4>2 DEF RemoveDir
    <3> QED
      BY <1>9, <3>1, <3>2
  <2>2. /\ \A w \in Updates \ own' : Busy(w)' => upl'[w].files.timestamp.exp > now + 1
        /\ \A w \in Updates \ lapsing' : Saved(w)' => dir'[w].timestamp.exp > now + 1
    BY <2>1 DEF ExpiryInv, Busy, Saved, Lasts
  <2>3. \A w \in rows' \ lapsing' : w \in rows \ lapsing /\ dir'[w] = dir[w]
    BY <1>0, <2>1
  <2> QED
    BY <1>0, <1>1, <2>1, <2>2, <2>3, ExpiryFrame
<1> QED
  BY <1>3, <1>4, <1>5, <1>6a, <1>6b, <1>7, <1>8, <1>9

\* Spec keeps ExpiryInv: the daemon looks a day ahead and refreshes for longer.
THEOREM ExpiryInvariant == Spec => []ExpiryInv
<1>1. Init => ExpiryInv
  BY DEF Init, ExpiryInv, Busy, Saved, NoUpload, Asleep
<1>2. LifeInv /\ LifeInv' /\ ExpiryInv /\ [Next]_vars => ExpiryInv'
  <2> SUFFICES ASSUME LifeInv, LifeInv', ExpiryInv, [Next]_vars
               PROVE  ExpiryInv'
    OBVIOUS
  <2>0. ASSUME UNCHANGED <<rows, dir, upl, own, signers, daemon, passed, now, lapsing>>
        PROVE  ExpiryInv'
    BY <2>0 DEF ExpiryInv, Lasts, Up, Busy, Saved
  <2>1. CASE DiskStep
    BY <2>0, <2>1, DiskFrame
  <2>2. CASE (\E u \in Updates : SetUpdateName(u)) \/ CheckIn \/ metaTimestamp \/ UNCHANGED vars
    BY <2>0, <2>2 DEF SetUpdateName, CheckIn, metaTimestamp, vars, store
  <2> QED
    BY <2>1, <2>2, ExpiryDaemon, ExpiryOther DEF Next, DiskStep
<1> QED
  BY <1>1, <1>2, LifeInvariant, PTL DEF Spec

\* Once the daemon has made a pass since the server started, no device is given an
\* update's timestamp that has expired, for any number of days: except for updates
\* whose last refresh failed, or whose timestamp came with the upload and was not
\* looked at since, or whose directory is gone.
THEOREM TimestampsStayValid ==
  Spec => [](Up /\ passed >= 0 => \A u \in rows \ lapsing : dir[u].timestamp.exp > now)
<1>1. ExpiryInv => (Up /\ passed >= 0 => \A u \in rows \ lapsing : dir[u].timestamp.exp > now)
  BY DEF ExpiryInv
<1> QED
  BY <1>1, ExpiryInvariant, PTL

-----------------------------------------------------------------------------
(* Roots, keys and what is signed with them *)

RoleSet == {Roles[i] : i \in 1 .. 4}

\* The roots that tuf-init may write.
RootSet ==
  {Verbatim(f) : f \in UNION Archives}
    \cup {NewRoot(n, {}) : n \in Nat}
    \cup UNION {{NewRoot(n, {findFirstRootSigner(a)}) : n \in Nat} : a \in Archives}

\* The imported roots are signed as they should be; importTuf does not verify it.
ArchivesSigned ==
  \A a \in Archives : Importable(a) =>
    \A v \in 1 .. Newest(a) :
      /\ Root(a, v).keys \in Root(a, v).sigs
      /\ v > 1 => Root(a, v - 1).keys \in Root(a, v).sigs

\* Each root is signed by itself and by the one before, if those of the archives are.
WellSigned(c) ==
  ArchivesSigned =>
    \A v \in DOMAIN c : c[v].keys \in c[v].sigs /\ (v > 1 => c[v - 1].keys \in c[v].sigs)

\* The roots that run n of tuf-init writes.
Chain(c, n) == c # <<>> /\ WellSigned(c) /\ Last(c).keys = n

\* The j-th write of a run: four keys, the roots, three default files.
PlannedWrite(c, j) ==
  IF j <= 4 THEN writeKeys[j]
  ELSE IF j <= Len(c) + 4 THEN writeRoot(j - 4, c[j - 4])
  ELSE writeDefaultMeta[j - 4 - Len(c)]

Writes(c) == {PlannedWrite(c, j) : j \in Nat}

\* What is left of the plan after k writes.
LeftOfPlan(todo, c, k) ==
  /\ todo \in Seq(Writes(c)) /\ Len(todo) = Len(c) + 7 - k
  /\ \A i \in 1 .. Len(todo) : todo[i] = PlannedWrite(c, k + i)

RootsDone(c, k) == IF k <= 4 THEN 0 ELSE IF k <= Len(c) + 4 THEN k - 4 ELSE Len(c)

\* tuf-init after k writes.
MidJob(c, k) ==
  /\ Chain(c, job.n) /\ job.n # 0
  /\ LeftOfPlan(job.todo, c, k)
  /\ Len(roots) = RootsDone(c, k) /\ \A v \in 1 .. Len(roots) : roots[v] = c[v]
  /\ \A j \in 1 .. 4 : j <= k => keyfile[Roles[j]] = job.n
  /\ k <= Len(c) + 4 => deflt = [n |-> 0, files |-> {}]
  /\ k > Len(c) + 4 => deflt.n = job.n

\* No tuf-init is running: there is no root, or the last root lists the keys.
Settled ==
  \/ roots = <<>> /\ deflt = [n |-> 0, files |-> {}]
  \/ /\ roots # <<>> /\ WellSigned(roots)
     /\ keyfile["timestamp"] = Last(roots).keys
     /\ deflt = [n |-> 0, files |-> {}] \/ deflt.n = Last(roots).keys

\* A server that runs has the timestamp key of the present roots.
ServerKey == roots # <<>> /\ signers["timestamp"] = keyfile["timestamp"]

DiskTypes ==
  /\ keyfile \in [RoleSet -> Nat]
  /\ roots \in Seq(RootSet)
  /\ deflt = [n |-> deflt.n, files |-> deflt.files]
  /\ job = [n |-> job.n, todo |-> job.todo] /\ job.n \in Nat

\* Roots and keys as long as no run of tuf-init has spoiled them.
DiskOK ==
  /\ DiskTypes
  /\ job = NoJob => Settled
  /\ job # NoJob => \E c \in Seq(RootSet) : \E k \in 0 .. Len(c) + 6 : MidJob(c, k)
  /\ Up => ServerKey

DiskInv == inits \in Nat /\ (~spoiled => DiskOK)

\* The metadata of an update links all roots and is signed with a key of the last.
Fits(d) == d.roots = Len(roots) /\ d.timestamp.by = Last(roots).keys

\* An update that was not uploaded beside tuf-init, nor with its own metadata, fits the
\* roots.
FitsInv ==
  ~spoiled => \A u \in Updates \ (early \cup own) :
    /\ Busy(u) \/ u \in rows => job = NoJob /\ roots # <<>>
    /\ Busy(u) => Fits(upl[u].files)
    /\ (Saved(u) \/ u \in rows) /\ u \notin crossed => Fits(dir[u])

\* The kinds of writes of a run, in their order (InitTuf, importTuf).
LEMMA PlannedKinds ==
  ASSUME NEW c \in Seq(RootSet), NEW j \in 1 .. Len(c) + 7
  PROVE  /\ j <= 4 => PlannedWrite(c, j) = [file |-> "key", role |-> Roles[j]]
         /\ j > 4 /\ j <= Len(c) + 4 =>
              PlannedWrite(c, j) = [file |-> "root", ver |-> j - 4, root |-> c[j - 4]]
         /\ j > Len(c) + 4 => PlannedWrite(c, j).file \in MetaFiles
<1>0. Len(c) \in Nat
  OBVIOUS
<1>1. ASSUME j <= 4
      PROVE  PlannedWrite(c, j) = [file |-> "key", role |-> Roles[j]]
  BY <1>1 DEF PlannedWrite, writeKeys
<1>2. ASSUME j > 4, j <= Len(c) + 4
      PROVE  PlannedWrite(c, j) = [file |-> "root", ver |-> j - 4, root |-> c[j - 4]]
  BY <1>2 DEF PlannedWrite, writeRoot
<1>3. ASSUME j > Len(c) + 4
      PROVE  PlannedWrite(c, j).file \in MetaFiles
  <2>1. PlannedWrite(c, j) = writeDefaultMeta[j - 4 - Len(c)] /\ j - 4 - Len(c) \in 1 .. 3
    BY <1>0, <1>3 DEF PlannedWrite
  <2>2. \A m \in 1 .. 3 : writeDefaultMeta[m].file \in MetaFiles
    BY DEF writeDefaultMeta, MetaFiles
  <2> QED
    BY <2>1, <2>2
<1> QED
  BY <1>1, <1>2, <1>3

\* Two parts of a plan, one after the other.
LEMMA PlanJoin ==
  ASSUME NEW c \in Seq(RootSet), NEW x \in Seq(Writes(c)), NEW y \in Seq(Writes(c)),
         \A i \in 1 .. Len(x) : x[i] = PlannedWrite(c, i),
         \A i \in 1 .. Len(y) : y[i] = PlannedWrite(c, Len(x) + i)
  PROVE  /\ x \o y \in Seq(Writes(c)) /\ Len(x \o y) = Len(x) + Len(y)
         /\ \A i \in 1 .. Len(x \o y) : (x \o y)[i] = PlannedWrite(c, i)
<1>1. /\ x \o y \in Seq(Writes(c)) /\ Len(x \o y) = Len(x) + Len(y)
      /\ \A i \in 1 .. Len(x) + Len(y) :
           (x \o y)[i] = IF i <= Len(x) THEN x[i] ELSE y[i - Len(x)]
  BY ConcatProperties
<1>2. Len(x) \in Nat /\ Len(y) \in Nat
  OBVIOUS
<1>3. ASSUME NEW i \in 1 .. Len(x \o y)
      PROVE  (x \o y)[i] = PlannedWrite(c, i)
  <2>0. i \in 1 .. Len(x) + Len(y)
    BY <1>1
  <2>1. CASE i <= Len(x)
    BY <1>1, <1>2, <2>0, <2>1
  <2>2. CASE ~(i <= Len(x))
    <3>1. i - Len(x) \in 1 .. Len(y) /\ Len(x) + (i - Len(x)) = i
      BY <1>2, <2>0, <2>2
    <3>2. (x \o y)[i] = y[i - Len(x)]
      BY <1>1, <2>0, <2>2
    <3> QED
      BY <3>1, <3>2
  <2> QED
    BY <2>1, <2>2
<1> QED
  BY <1>1, <1>3

\* A sequence that is given by its elements.
LEMMA Listed ==
  ASSUME NEW W, NEW n \in Nat, NEW f \in [1 .. n -> W]
  PROVE  f \in Seq(W) /\ Len(f) = n
  OBVIOUS

\* A run whose keys and roots are planned goes on with the default metadata.
LEMMA PlanComplete ==
  ASSUME NEW c \in Seq(RootSet), NEW x \in Seq(Writes(c)), Len(x) = Len(c) + 4,
         \A i \in 1 .. Len(x) : x[i] = PlannedWrite(c, i)
  PROVE  LeftOfPlan(x \o writeDefaultMeta, c, 0)
<1> DEFINE D == writeDefaultMeta
<1>0. Len(c) \in Nat
  OBVIOUS
<1>1. Len(D) = 3 /\ \A m \in 1 .. 3 : D[m] = PlannedWrite(c, Len(c) + 4 + m)
  <2>1. Len(D) = 3
    BY DEF writeDefaultMeta
  <2>2. ASSUME NEW m \in 1 .. 3
        PROVE  D[m] = PlannedWrite(c, Len(c) + 4 + m)
    <3>1. ~(Len(c) + 4 + m <= 4) /\ ~(Len(c) + 4 + m <= Len(c) + 4) /\ Len(c) + 4 + m - 4 - Len(c) = m
      BY <1>0
    <3> QED
      BY <3>1 DEF PlannedWrite
  <2> QED
    BY <2>1, <2>2
<1>2. D \in Seq(Writes(c))
  <2>1. \A m \in 1 .. 3 : D[m] \in Writes(c)
    BY <1>0, <1>1 DEF Writes
  <2>2. D = <<D[1], D[2], D[3]>>
    BY DEF writeDefaultMeta
  <2> HIDE DEF D
  <2>3. <<D[1], D[2], D[3]>> \in Seq(Writes(c))
    BY <2>1
  <2> QED
    BY <2>2, <2>3
<1>2a. \A m \in 1 .. Len(D) : D[m] = PlannedWrite(c, Len(x) + m)
  BY <1>1
<1> HIDE DEF D
<1>3. /\ x \o D \in Seq(Writes(c)) /\ Len(x \o D) = Len(x) + Len(D)
      /\ \A i \in 1 .. Len(x \o D) : (x \o D)[i] = PlannedWrite(c, i)
  BY <1>2, <1>2a, PlanJoin
<1>4. Len(x \o D) = Len(c) + 7 - 0
  BY <1>0, <1>1, <1>3
<1>5. \A i \in 1 .. Len(x \o D) : 0 + i = i
  BY <1>0, <1>4
<1> QED
  BY <1>3, <1>4, <1>5 DEF LeftOfPlan, D

\* The four keys come first.
LEMMA KeysPlanned ==
  ASSUME NEW c \in Seq(RootSet)
  PROVE  /\ writeKeys \in Seq(Writes(c)) /\ Len(writeKeys) = 4
         /\ \A i \in 1 .. 4 : writeKeys[i] = PlannedWrite(c, i)
<1> DEFINE K == writeKeys
           W == Writes(c)
<1>1. \A i \in 1 .. 4 : K[i] = PlannedWrite(c, i)
  BY DEF PlannedWrite
<1>2. \A i \in 1 .. 4 : K[i] \in W
  BY <1>1 DEF Writes
<1>3. K = [i \in 1 .. 4 |-> K[i]]
  BY DEF writeKeys
<1> HIDE DEF K, W
<1>4. K \in [1 .. 4 -> W]
  BY <1>2, <1>3
<1>5. K \in Seq(W) /\ Len(K) = 4
  BY <1>4, Listed
<1> QED
  BY <1>1, <1>5 DEF K, W

\* What a new installation plans: one root, signed by itself.
LEMMA InitPlan ==
  ASSUME NEW n \in Nat \ {0}
  PROVE  \E c \in Seq(RootSet) :
           /\ Chain(c, n)
           /\ LeftOfPlan(writeKeys \o <<writeRoot(1, NewRoot(n, {}))>> \o writeDefaultMeta, c, 0)
<1> DEFINE root == NewRoot(n, {})
           c == <<root>>
           w == <<writeRoot(1, root)>>
           x == writeKeys \o w
<1>1. root \in RootSet
  <2>1. root = NewRoot(n, {}) /\ n \in Nat
    OBVIOUS
  <2> HIDE DEF root
  <2> QED
    BY <2>1 DEF RootSet
<1>1a. root.keys = n /\ n \in root.sigs
  BY DEF NewRoot
<1> HIDE DEF root
<1>2. c \in Seq(RootSet) /\ Len(c) = 1 /\ c[1] = root /\ c # <<>>
  BY <1>1
<1>3. Chain(c, n)
  BY <1>1a, <1>2 DEF Chain, WellSigned, Last
<1>4. writeRoot(1, root) = PlannedWrite(c, 5)
  BY <1>2 DEF PlannedWrite
<1> HIDE DEF c
<1>5. w \in Seq(Writes(c)) /\ Len(w) = 1 /\ w[1] = PlannedWrite(c, 5)
  BY <1>4 DEF Writes
<1> HIDE DEF w
<1>6. /\ writeKeys \in Seq(Writes(c)) /\ Len(writeKeys) = 4
      /\ \A i \in 1 .. 4 : writeKeys[i] = PlannedWrite(c, i)
  BY <1>2, KeysPlanned
<1>7. \A i \in 1 .. Len(w) : w[i] = PlannedWrite(c, Len(writeKeys) + i)
  BY <1>5, <1>6
<1>7a. \A i \in 1 .. Len(writeKeys) : writeKeys[i] = PlannedWrite(c, i)
  BY <1>6
<1>8. /\ x \in Seq(Writes(c)) /\ Len(x) = Len(writeKeys) + Len(w)
      /\ \A i \in 1 .. Len(x) : x[i] = PlannedWrite(c, i)
  BY <1>2, <1>5, <1>6, <1>7, <1>7a, PlanJoin
<1> HIDE DEF x
<1>9. Len(x) = Len(c) + 4
  BY <1>2, <1>5, <1>6, <1>8
<1>10. LeftOfPlan(x \o writeDefaultMeta, c, 0)
  BY <1>2, <1>8, <1>9, PlanComplete
<1> QED
  BY <1>2, <1>3, <1>10 DEF x, w, root

\* What an import plans: the roots of the archive as they are, and one more that the
\* key of the last has signed too (importTuf).
LEMMA ImportPlan ==
  ASSUME NEW a \in Archives, Importable(a), NEW m \in Nat \ {0}
  PROVE  \E c \in Seq(RootSet) :
           /\ Chain(c, m)
           /\ LeftOfPlan(writeKeys
                           \o [v \in 1 .. Newest(a) |-> writeRoot(v, Verbatim(Root(a, v)))]
                           \o <<writeRoot(Newest(a) + 1, NewRoot(m, {findFirstRootSigner(a)}))>>
                           \o writeDefaultMeta, c, 0)
<1> DEFINE n == Newest(a)
           root == NewRoot(m, {findFirstRootSigner(a)})
           c == [v \in 1 .. n + 1 |-> IF v <= n THEN Verbatim(Root(a, v)) ELSE root]
           y == [v \in 1 .. n |-> writeRoot(v, Verbatim(Root(a, v)))]
           w == <<writeRoot(n + 1, root)>>
           W == Writes(c)
<1>1. n \in Nat /\ n > 0
  <2>1. IsFiniteSet(loadTufRootsArchive(a))
    BY TufAssumption, FS_Subset DEF loadTufRootsArchive
  <2> QED
    BY <2>1, FS_CardinalityType DEF Newest, Importable
<1>2. ASSUME NEW v \in 1 .. n
      PROVE  Verbatim(Root(a, v)) \in RootSet
  <2>1. v \in {f.ver : f \in loadTufRootsArchive(a)}
    BY <1>2 DEF Importable
  <2>2. Root(a, v) \in loadTufRootsArchive(a)
    BY <2>1 DEF Root
  <2>3. Root(a, v) \in UNION Archives
    BY <2>2 DEF loadTufRootsArchive
  <2> QED
    BY <2>3 DEF RootSet
<1>3. root \in RootSet
  <2>1. root \in {NewRoot(k, {findFirstRootSigner(a)}) : k \in Nat}
    OBVIOUS
  <2> HIDE DEF root
  <2> QED
    BY <2>1 DEF RootSet
<1>3a. root.keys = m /\ m \in root.sigs /\ Root(a, n).keys \in root.sigs
  BY DEF NewRoot, findFirstRootSigner
<1>4. \A v \in 1 .. n : /\ Verbatim(Root(a, v)).keys = Root(a, v).keys
                        /\ Verbatim(Root(a, v)).sigs = Root(a, v).sigs
  BY DEF Verbatim
<1>5. ArchivesSigned =>
        \A v \in 1 .. n : /\ Root(a, v).keys \in Root(a, v).sigs
                          /\ v > 1 => Root(a, v - 1).keys \in Root(a, v).sigs
  BY DEF ArchivesSigned
<1> HIDE DEF n, root
<1>6. /\ c \in Seq(RootSet) /\ Len(c) = n + 1 /\ c[n + 1] = root
      /\ \A v \in 1 .. n : c[v] = Verbatim(Root(a, v))
  <2>1. /\ c[n + 1] = root /\ \A v \in 1 .. n : c[v] = Verbatim(Root(a, v))
        /\ c \in [1 .. n + 1 -> RootSet]
    BY <1>1, <1>2, <1>3
  <2> HIDE DEF c
  <2> QED
    BY <1>1, <2>1, Listed
<1> HIDE DEF c
<1>7. Chain(c, m)
  <2>1. ASSUME ArchivesSigned, NEW v \in 1 .. n
        PROVE  c[v].keys \in c[v].sigs /\ (v > 1 => c[v - 1].keys \in c[v].sigs)
    <3>1. c[v] = Verbatim(Root(a, v)) /\ (v > 1 => c[v - 1] = Verbatim(Root(a, v - 1)))
      BY <1>1, <1>6, <2>1
    <3>2. v > 1 => v - 1 \in 1 .. n
      BY <1>1
    <3>3. Root(a, v).keys \in Root(a, v).sigs /\ (v > 1 => Root(a, v - 1).keys \in Root(a, v).sigs)
      BY <1>5, <2>1
    <3> QED
      BY <1>4, <3>1, <3>2, <3>3
  <2>2. c[n + 1].keys \in c[n + 1].sigs /\ c[n].keys \in c[n + 1].sigs
    <3>1. c[n] = Verbatim(Root(a, n)) /\ n \in 1 .. n
      BY <1>1, <1>6
    <3> QED
      BY <1>3a, <1>4, <1>6, <3>1
  <2>3. DOMAIN c = 1 .. n + 1
    BY <1>6
  <2>4. \A v \in 1 .. n + 1 : v \in 1 .. n \/ (v = n + 1 /\ v - 1 = n)
    BY <1>1
  <2>5. WellSigned(c)
    BY <2>1, <2>2, <2>3, <2>4 DEF WellSigned
  <2>6. c # <<>>
    BY <1>1, <1>6
  <2> QED
    BY <1>3a, <1>6, <2>5, <2>6 DEF Chain, Last
<1>8. /\ y \in Seq(W) /\ Len(y) = n
      /\ \A v \in 1 .. n : y[v] = PlannedWrite(c, 4 + v)
  <2>1. ASSUME NEW v \in 1 .. n
        PROVE  y[v] = PlannedWrite(c, 4 + v) /\ y[v] \in W
    <3>1. ~(4 + v <= 4) /\ 4 + v <= Len(c) + 4 /\ 4 + v - 4 = v /\ 4 + v \in Nat
      BY <1>1, <1>6
    <3>2. PlannedWrite(c, 4 + v) = writeRoot(v, c[v])
      BY <3>1 DEF PlannedWrite
    <3>3. y[v] = PlannedWrite(c, 4 + v)
      BY <1>6, <3>2
    <3> QED
      BY <3>1, <3>3 DEF Writes
  <2> HIDE DEF W
  <2>2. y \in [1 .. n -> W]
    BY <2>1
  <2> HIDE DEF y
  <2>3. y \in Seq(W) /\ Len(y) = n
    BY <1>1, <2>2, Listed
  <2> QED
    BY <2>1, <2>3
<1>9. w \in Seq(W) /\ Len(w) = 1 /\ w[1] = PlannedWrite(c, n + 5)
  <2>1. ~(n + 5 <= 4) /\ n + 5 <= Len(c) + 4 /\ n + 5 - 4 = n + 1 /\ n + 5 \in Nat
    BY <1>1, <1>6
  <2>2. PlannedWrite(c, n + 5) = writeRoot(n + 1, c[n + 1])
    <3>1. \A j \in Nat : ~(j <= 4) /\ j <= Len(c) + 4
                            => PlannedWrite(c, j) = writeRoot(j - 4, c[j - 4])
      BY DEF PlannedWrite
    <3> DEFINE j == n + 5
    <3>2. j \in Nat /\ ~(j <= 4) /\ j <= Len(c) + 4 /\ j - 4 = n + 1
      BY <1>1, <1>6
    <3> HIDE DEF j
    <3>3. PlannedWrite(c, j) = writeRoot(n + 1, c[n + 1])
      BY <3>1, <3>2
    <3> QED
      BY <3>3 DEF j
  <2>3. writeRoot(n + 1, root) = PlannedWrite(c, n + 5)
    BY <1>6, <2>2
  <2>4. writeRoot(n + 1, root) \in W
    BY <2>1, <2>3 DEF Writes
  <2> HIDE DEF W
  <2> QED
    BY <2>3, <2>4
<1> HIDE DEF y, w
<1> DEFINE z == writeKeys \o y
           x == z \o w
<1>10. /\ writeKeys \in Seq(W) /\ Len(writeKeys) = 4
       /\ \A i \in 1 .. 4 : writeKeys[i] = PlannedWrite(c, i)
  BY <1>6, KeysPlanned
<1>10a. \A i \in 1 .. Len(writeKeys) : writeKeys[i] = PlannedWrite(c, i)
  BY <1>10
<1>11. /\ z \in Seq(W) /\ Len(z) = Len(writeKeys) + Len(y)
       /\ \A i \in 1 .. Len(z) : z[i] = PlannedWrite(c, i)
  <2>1. \A i \in 1 .. Len(y) : y[i] = PlannedWrite(c, Len(writeKeys) + i)
    BY <1>8, <1>10
  <2> QED
    BY <1>6, <1>8, <1>10, <1>10a, <2>1, PlanJoin
<1> HIDE DEF z
<1>12. Len(z) = n + 4
  BY <1>1, <1>8, <1>10, <1>11
<1>13. /\ x \in Seq(W) /\ Len(x) = Len(z) + Len(w)
       /\ \A i \in 1 .. Len(x) : x[i] = PlannedWrite(c, i)
  <2>1. \A i \in 1 .. Len(w) : i = 1 /\ Len(z) + i = n + 5
    BY <1>1, <1>9, <1>12
  <2>2. \A i \in 1 .. Len(w) : w[i] = PlannedWrite(c, Len(z) + i)
    BY <1>9, <2>1
  <2> QED
    BY <1>6, <1>9, <1>11, <2>2, PlanJoin
<1> HIDE DEF x
<1>14. Len(x) = Len(c) + 4
  BY <1>1, <1>6, <1>9, <1>12, <1>13
<1>15. LeftOfPlan(x \o writeDefaultMeta, c, 0)
  BY <1>6, <1>13, <1>14, PlanComplete
<1> QED
  BY <1>6, <1>7, <1>15 DEF x, z, y, w, root, n

\* The next write of a run and what is left of the plan after it.
LEMMA PlanTail ==
  ASSUME NEW c \in Seq(RootSet), NEW k \in 0 .. Len(c) + 6, NEW todo, LeftOfPlan(todo, c, k)
  PROVE  /\ todo # <<>> /\ Head(todo) = PlannedWrite(c, k + 1)
         /\ Len(todo) = 1 <=> k = Len(c) + 6
         /\ LeftOfPlan(Tail(todo), c, k + 1)
<1> DEFINE W == Writes(c)
<1>0. Len(c) \in Nat /\ k \in Nat
  OBVIOUS
<1>1. /\ todo \in Seq(W) /\ Len(todo) = Len(c) + 7 - k
      /\ \A i \in 1 .. Len(todo) : todo[i] = PlannedWrite(c, k + i)
  BY DEF LeftOfPlan
<1> HIDE DEF W
<1>2. todo # <<>> /\ Head(todo) = todo[1] /\ (Len(todo) = 1 <=> k = Len(c) + 6)
  BY <1>0, <1>1
<1>3. Head(todo) = PlannedWrite(c, k + 1)
  BY <1>0, <1>1, <1>2
<1>4. /\ Tail(todo) \in Seq(W) /\ Len(Tail(todo)) = Len(todo) - 1
      /\ \A i \in 1 .. Len(todo) - 1 : Tail(todo)[i] = todo[i + 1]
  BY <1>1, <1>2
<1>5. Len(Tail(todo)) = Len(c) + 7 - (k + 1)
  BY <1>0, <1>1, <1>4
<1>6. ASSUME NEW i \in 1 .. Len(Tail(todo))
      PROVE  Tail(todo)[i] = PlannedWrite(c, k + 1 + i)
  <2>1. i \in 1 .. Len(todo) - 1 /\ i + 1 \in 1 .. Len(todo) /\ k + (i + 1) = k + 1 + i
    BY <1>0, <1>1, <1>4
  <2> QED
    BY <1>1, <1>4, <2>1
<1> QED
  BY <1>2, <1>3, <1>4, <1>5, <1>6 DEF LeftOfPlan, W

\* A run that has written its roots: the roots are the chain, whose last lists the keys.
LEMMA ChainWritten ==
  ASSUME DiskTypes, NEW c \in Seq(RootSet), NEW k \in 0 .. Len(c) + 6, MidJob(c, k), k >= Len(c) + 4
  PROVE  /\ roots # <<>> /\ WellSigned(roots)
         /\ Last(roots).keys = job.n /\ keyfile["timestamp"] = job.n
<1>0. Len(c) \in Nat
  OBVIOUS
<1>1. Len(roots) = Len(c)
  BY <1>0 DEF MidJob, RootsDone
<1>2. \A v \in 1 .. Len(roots) : roots[v] = c[v]
  BY DEF MidJob
<1>3. roots \in Seq(RootSet)
  BY DEF DiskTypes
<1>4. roots = c
  BY <1>1, <1>2, <1>3
<1>5. keyfile[Roles[4]] = job.n /\ Roles[4] = "timestamp"
  BY <1>0 DEF MidJob, Roles
<1> QED
  BY <1>4, <1>5 DEF MidJob, Chain

\* The roots written so far are signed one by the other.
LEMMA PrefixSigned ==
  ASSUME DiskTypes, NEW c \in Seq(RootSet), NEW k \in 0 .. Len(c) + 6, MidJob(c, k)
  PROVE  WellSigned(roots)
<1>0. Len(c) \in Nat /\ Len(roots) \in Nat /\ DOMAIN roots = 1 .. Len(roots) /\ DOMAIN c = 1 .. Len(c)
  BY DEF DiskTypes
<1>1. Len(roots) <= Len(c)
  BY <1>0 DEF MidJob, RootsDone
<1>2. \A v \in 1 .. Len(roots) : roots[v] = c[v]
  BY DEF MidJob
<1>3. WellSigned(c)
  BY DEF MidJob, Chain
<1>4. ASSUME ArchivesSigned, NEW v \in 1 .. Len(roots)
      PROVE  roots[v].keys \in roots[v].sigs /\ (v > 1 => roots[v - 1].keys \in roots[v].sigs)
  <2>1. v \in 1 .. Len(c) /\ (v > 1 => v - 1 \in 1 .. Len(roots))
    BY <1>0, <1>1
  <2> QED
    BY <1>0, <1>2, <1>3, <1>4, <2>1 DEF WellSigned
<1> QED
  BY <1>0, <1>4 DEF WellSigned

\* tuf-init begins: unless there are roots already, it finds an empty directory, and
\* no server runs.
LEMMA BeginDisk ==
  ASSUME DiskInv, NEW todo, NEW c \in Seq(RootSet),
         Chain(c, inits + 1), LeftOfPlan(todo, c, 0), Begin(todo)
  PROVE  DiskInv'
<1>1. /\ job = NoJob /\ job' = [n |-> inits + 1, todo |-> todo] /\ inits' = inits + 1
      /\ inits \in Nat /\ spoiled' = (spoiled \/ roots # <<>>)
      /\ UNCHANGED <<keyfile, roots, deflt, signers>>
  BY DEF Begin, DiskInv
<1> SUFFICES ASSUME ~spoiled'
             PROVE  DiskOK'
  BY <1>1 DEF DiskInv
<1>2. roots = <<>> /\ ~spoiled /\ DiskOK
  BY <1>1 DEF DiskInv
<1>3. job'.n = inits + 1 /\ job'.n \in Nat /\ job'.n # 0 /\ job'.todo = todo /\ job' # NoJob
  BY <1>1 DEF NoJob
<1>4. deflt = [n |-> 0, files |-> {}]
  BY <1>1, <1>2 DEF DiskOK, Settled
<1>5. DiskTypes'
  BY <1>1, <1>2, <1>3 DEF DiskOK, DiskTypes
<1>6. 0 \in 0 .. Len(c) + 6 /\ ~(0 > Len(c) + 4) /\ RootsDone(c, 0) = 0
  BY DEF RootsDone
<1>7. MidJob(c, 0)'
  <2>1. Chain(c, job'.n) /\ LeftOfPlan(job'.todo, c, 0)
    BY <1>3
  <2>2. Len(roots') = 0 /\ \A v \in 1 .. Len(roots') : roots'[v] = c[v]
    BY <1>1, <1>2
  <2>3. \A j \in 1 .. 4 : ~(j <= 0)
    OBVIOUS
  <2> QED
    BY <1>1, <1>3, <1>4, <1>6, <2>1, <2>2, <2>3 DEF MidJob
<1>8. ~Up'
  BY <1>1, <1>2 DEF DiskOK, ServerKey, Up
<1> QED
  BY <1>3, <1>5, <1>6, <1>7, <1>8 DEF DiskOK

\* A write of a key: the server, which needs roots, is not running yet.
LEMMA KeyWritten ==
  ASSUME DiskOK, NEW c \in Seq(RootSet), NEW k \in 0 .. Len(c) + 6, MidJob(c, k), job # NoJob,
         writeFile, k < 4
  PROVE  DiskOK'
<1> DEFINE w == Head(job.todo)
<1>0. Len(c) \in Nat /\ k \in Nat /\ k + 1 \in 1 .. 4 /\ k + 1 \in 1 .. Len(c) + 7
  OBVIOUS
<1>1. LeftOfPlan(job.todo, c, k) /\ job.n # 0
  BY DEF MidJob
<1>2. /\ w = PlannedWrite(c, k + 1) /\ Len(job.todo) # 1 /\ LeftOfPlan(Tail(job.todo), c, k + 1)
  BY <1>0, <1>1, PlanTail
<1>3. w = [file |-> "key", role |-> Roles[k + 1]]
  BY <1>0, <1>2, PlannedKinds
<1>4. w.file = "key" /\ w.role = Roles[k + 1] /\ w.file # "root" /\ w.file \notin MetaFiles
  BY <1>3 DEF MetaFiles
<1> HIDE DEF w
<1>5. /\ keyfile' = [keyfile EXCEPT ![Roles[k + 1]] = job.n]
      /\ job' = [job EXCEPT !.todo = Tail(@)]
      /\ UNCHANGED <<roots, deflt, signers>>
  BY <1>2, <1>4 DEF writeFile, w
<1>6. job'.n = job.n /\ job'.todo = Tail(job.todo) /\ job' = [n |-> job'.n, todo |-> job'.todo]
  BY <1>5 DEF DiskOK, DiskTypes
<1>7. job' # NoJob
  BY <1>1, <1>6 DEF NoJob
<1>8. keyfile \in [RoleSet -> Nat] /\ job.n \in Nat /\ \A j \in 1 .. 4 : Roles[j] \in RoleSet
  BY DEF DiskOK, DiskTypes, RoleSet
<1>9. DiskTypes'
  <2>1. keyfile' \in [RoleSet -> Nat]
    BY <1>0, <1>5, <1>8
  <2> QED
    BY <1>5, <1>6, <1>8, <2>1 DEF DiskOK, DiskTypes
<1>10. k <= 4 /\ k + 1 <= 4 /\ k + 1 <= Len(c) + 4 /\ k <= Len(c) + 4 /\ ~(k + 1 > Len(c) + 4)
       /\ k + 1 \in 0 .. Len(c) + 6
  BY <1>0
<1>11. Len(roots) = 0 /\ RootsDone(c, k + 1) = 0
  BY <1>10 DEF MidJob, RootsDone
<1>12. MidJob(c, k + 1)'
  <2>1. \A j \in 1 .. 4 : j <= k + 1 => keyfile'[Roles[j]] = job'.n
    <3> SUFFICES ASSUME NEW j \in 1 .. 4, j <= k + 1
                 PROVE  keyfile'[Roles[j]] = job.n
      BY <1>6
    <3>1. CASE Roles[j] = Roles[k + 1]
      BY <1>0, <1>5, <1>8, <3>1
    <3>2. CASE Roles[j] # Roles[k + 1]
      <4>1. j <= k
        <5>1. j # k + 1
          BY <3>2
        <5> QED
          BY <1>0, <5>1
      <4>2. keyfile[Roles[j]] = job.n
        BY <4>1 DEF MidJob
      <4> QED
        BY <1>0, <1>5, <1>8, <3>2, <4>2
    <3> QED
      BY <3>1, <3>2
  <2>2. Len(roots') = RootsDone(c, k + 1) /\ \A v \in 1 .. Len(roots') : roots'[v] = c[v]
    BY <1>5, <1>11 DEF MidJob
  <2>3. Chain(c, job'.n) /\ job'.n # 0 /\ LeftOfPlan(job'.todo, c, k + 1)
    BY <1>1, <1>2, <1>6 DEF MidJob
  <2>4. deflt' = [n |-> 0, files |-> {}]
    BY <1>5, <1>10 DEF MidJob
  <2> QED
    BY <1>10, <2>1, <2>2, <2>3, <2>4 DEF MidJob
<1>13. ~Up'
  <2>1. roots = <<>>
    BY <1>11 DEF DiskOK, DiskTypes
  <2> QED
    BY <1>5, <2>1 DEF DiskOK, ServerKey, Up
<1> QED
  BY <1>7, <1>9, <1>10, <1>12, <1>13 DEF DiskOK

\* A write of a root: it is the next of the chain.
LEMMA RootWritten ==
  ASSUME DiskOK, NEW c \in Seq(RootSet), NEW k \in 0 .. Len(c) + 6, MidJob(c, k), job # NoJob,
         writeFile, k >= 4, k < Len(c) + 4
  PROVE  DiskOK'
<1> DEFINE w == Head(job.todo)
           v0 == k - 3
<1>0. /\ Len(c) \in Nat /\ k \in Nat /\ k + 1 \in 1 .. Len(c) + 7 /\ k + 1 > 4 /\ k + 1 <= Len(c) + 4
      /\ k + 1 - 4 = v0 /\ v0 \in 1 .. Len(c) /\ v0 = (k - 4) + 1 /\ k # Len(c) + 6
      /\ k + 1 \in 0 .. Len(c) + 6 /\ ~(k + 1 > Len(c) + 4) /\ ~(k + 1 <= 4) /\ k <= Len(c) + 4
  OBVIOUS
<1>1. LeftOfPlan(job.todo, c, k) /\ job.n # 0
  BY DEF MidJob
<1>2. /\ w = PlannedWrite(c, k + 1) /\ Len(job.todo) # 1 /\ LeftOfPlan(Tail(job.todo), c, k + 1)
  BY <1>0, <1>1, PlanTail
<1>3. w = [file |-> "root", ver |-> k + 1 - 4, root |-> c[k + 1 - 4]]
  BY <1>0, <1>2, PlannedKinds
<1>4. w.file = "root" /\ w.ver = v0 /\ w.root = c[v0] /\ w.file # "key" /\ w.file \notin MetaFiles
  BY <1>0, <1>3 DEF MetaFiles
<1>5. Len(roots) = v0 - 1 /\ Len(roots) \in Nat /\ v0 > Len(roots)
  <2>1. Len(roots) = RootsDone(c, k)
    BY DEF MidJob
  <2>2. RootsDone(c, k) = k - 4
    BY <1>0 DEF RootsDone
  <2> QED
    BY <1>0, <2>1, <2>2
<1> HIDE DEF w, v0
<1>6. /\ roots' = Append(roots, c[v0])
      /\ job' = [job EXCEPT !.todo = Tail(@)]
      /\ UNCHANGED <<keyfile, deflt, signers>>
  BY <1>2, <1>4, <1>5 DEF writeFile, w
<1>7. job'.n = job.n /\ job'.todo = Tail(job.todo) /\ job' = [n |-> job'.n, todo |-> job'.todo]
  BY <1>6 DEF DiskOK, DiskTypes
<1>8. job' # NoJob
  BY <1>1, <1>7 DEF NoJob
<1>9. roots \in Seq(RootSet) /\ c[v0] \in RootSet
  BY <1>0 DEF DiskOK, DiskTypes
<1>10. /\ roots' \in Seq(RootSet) /\ Len(roots') = v0 /\ roots' # <<>>
       /\ \A v \in 1 .. Len(roots') : roots'[v] = IF v = v0 THEN c[v0] ELSE roots[v]
  BY <1>0, <1>5, <1>6, <1>9
<1>11. DiskTypes'
  BY <1>6, <1>7, <1>10 DEF DiskOK, DiskTypes
<1>12. MidJob(c, k + 1)'
  <2>1. \A j \in 1 .. 4 : j <= k
    BY <1>0
  <2>2. \A j \in 1 .. 4 : keyfile'[Roles[j]] = job'.n
    BY <1>6, <1>7, <2>1 DEF MidJob
  <2>3. Len(roots') = RootsDone(c, k + 1)
    BY <1>0, <1>10 DEF RootsDone
  <2>4. ASSUME NEW v \in 1 .. Len(roots')
        PROVE  roots'[v] = c[v]
    <3>1. CASE v = v0
      BY <1>10, <3>1
    <3>2. CASE v # v0
      <4>1. v \in 1 .. Len(roots)
        BY <1>5, <1>10, <3>2
      <4> QED
        BY <1>10, <3>2, <4>1 DEF MidJob
    <3> QED
      BY <3>1, <3>2
  <2>5. Chain(c, job'.n) /\ job'.n # 0 /\ LeftOfPlan(job'.todo, c, k + 1)
    BY <1>1, <1>2, <1>7 DEF MidJob
  <2>6. deflt' = [n |-> 0, files |-> {}]
    BY <1>0, <1>6 DEF MidJob
  <2> QED
    BY <1>0, <2>2, <2>3, <2>4, <2>5, <2>6 DEF MidJob
<1>13. Up' => ServerKey'
  BY <1>6, <1>10 DEF DiskOK, ServerKey, Up
<1> QED
  BY <1>0, <1>8, <1>11, <1>12, <1>13 DEF DiskOK

\* A write of default metadata: roots and keys are in place, and the last write ends
\* the run.
LEMMA DefaultWritten ==
  ASSUME DiskOK, NEW c \in Seq(RootSet), NEW k \in 0 .. Len(c) + 6, MidJob(c, k), job # NoJob,
         writeFile, k >= Len(c) + 4
  PROVE  DiskOK'
<1> DEFINE w == Head(job.todo)
<1>0. /\ Len(c) \in Nat /\ k \in Nat /\ k + 1 \in 1 .. Len(c) + 7 /\ k + 1 > Len(c) + 4
      /\ ~(k + 1 <= Len(c) + 4) /\ k >= 4 /\ ~(k + 1 <= 4)
  OBVIOUS
<1>1. LeftOfPlan(job.todo, c, k) /\ job.n # 0
  BY DEF MidJob
<1>2. /\ w = PlannedWrite(c, k + 1) /\ (Len(job.todo) = 1 <=> k = Len(c) + 6)
      /\ LeftOfPlan(Tail(job.todo), c, k + 1)
  BY <1>0, <1>1, PlanTail
<1>3. w.file \in MetaFiles
  BY <1>0, <1>2, PlannedKinds
<1>4. w.file # "key" /\ w.file # "root"
  BY <1>3 DEF MetaFiles
<1> HIDE DEF w
<1>5. /\ deflt' = IF deflt.n = job.n THEN [deflt EXCEPT !.files = @ \cup {w.file}]
                  ELSE [n |-> job.n, files |-> {w.file}]
      /\ job' = IF Len(job.todo) = 1 THEN NoJob ELSE [job EXCEPT !.todo = Tail(@)]
      /\ UNCHANGED <<keyfile, roots, signers>>
  BY <1>3, <1>4 DEF writeFile, w
<1>6. DiskTypes
  BY DEF DiskOK
<1>7. deflt'.n = job.n /\ deflt' = [n |-> deflt'.n, files |-> deflt'.files]
  <2>1. CASE deflt.n = job.n
    BY <1>5, <1>6, <2>1 DEF DiskTypes
  <2>2. CASE deflt.n # job.n
    BY <1>5, <2>2
  <2> QED
    BY <2>1, <2>2
<1>8. Up' => ServerKey'
  BY <1>5 DEF DiskOK, ServerKey, Up
<1>9. CASE k = Len(c) + 6
  <2>1. job' = NoJob
    BY <1>2, <1>5, <1>9
  <2>2. DiskTypes'
    BY <1>5, <1>6, <1>7, <2>1 DEF DiskTypes, NoJob
  <2>3. Settled'
    BY <1>5, <1>6, <1>7, ChainWritten DEF Settled, WellSigned
  <2> QED
    BY <1>8, <2>1, <2>2, <2>3 DEF DiskOK
<1>10. CASE k # Len(c) + 6
  <2>1. job' = [job EXCEPT !.todo = Tail(@)]
    BY <1>2, <1>5, <1>10
  <2>2. job'.n = job.n /\ job'.todo = Tail(job.todo) /\ job' = [n |-> job'.n, todo |-> job'.todo]
    BY <1>6, <2>1 DEF DiskTypes
  <2>3. job' # NoJob /\ DiskTypes'
    BY <1>1, <1>5, <1>6, <1>7, <2>2 DEF NoJob, DiskTypes
  <2>4. k + 1 \in 0 .. Len(c) + 6
    BY <1>0, <1>10
  <2>5. MidJob(c, k + 1)'
    <3>1. RootsDone(c, k + 1) = RootsDone(c, k)
      BY <1>0 DEF RootsDone
    <3>2. Len(roots') = RootsDone(c, k + 1) /\ \A v \in 1 .. Len(roots') : roots'[v] = c[v]
      BY <1>5, <3>1 DEF MidJob
    <3>3. \A j \in 1 .. 4 : j <= k
      BY <1>0
    <3>4. \A j \in 1 .. 4 : keyfile'[Roles[j]] = job'.n
      BY <1>5, <2>2, <3>3 DEF MidJob
    <3>5. Chain(c, job'.n) /\ job'.n # 0 /\ LeftOfPlan(job'.todo, c, k + 1)
      BY <1>1, <1>2, <2>2 DEF MidJob
    <3> QED
      BY <1>0, <1>7, <2>2, <3>2, <3>4, <3>5 DEF MidJob
  <2> QED
    BY <1>8, <2>3, <2>4, <2>5 DEF DiskOK
<1> QED
  BY <1>9, <1>10

\* An interruption of tuf-init.  Before the first root there is nothing that a server
\* could load; after the last root the directory is as good as complete.
LEMMA StopDisk ==
  ASSUME DiskOK, InitStops, ~spoiled'
  PROVE  DiskOK'
<1>1. /\ job # NoJob /\ job' = NoJob
      /\ roots = <<>> \/ ~\E i \in DOMAIN job.todo : job.todo[i].file = "root"
      /\ UNCHANGED <<keyfile, roots, deflt, signers>>
  BY DEF InitStops
<1>2a. PICK c \in Seq(RootSet) : \E k \in 0 .. Len(c) + 6 : MidJob(c, k)
  BY <1>1 DEF DiskOK
<1>2. PICK k \in 0 .. Len(c) + 6 : MidJob(c, k)
  BY <1>2a
<1>3. Len(c) \in Nat /\ Len(c) # 0 /\ k \in Nat
  <2>1. c # <<>>
    BY <1>2 DEF MidJob, Chain
  <2> QED
    BY <2>1
<1>4. DiskTypes
  BY DEF DiskOK
<1>5. DiskTypes'
  BY <1>1, <1>4 DEF DiskTypes, NoJob
<1>6. Up' => ServerKey'
  BY <1>1 DEF DiskOK, ServerKey, Up
<1>7. Settled'
  <2>1. CASE roots = <<>>
    <3>1. RootsDone(c, k) = 0
      BY <1>2, <2>1 DEF MidJob
    <3>2. k <= 4
      BY <1>3, <3>1 DEF RootsDone
    <3>3. k <= Len(c) + 4
      BY <1>3, <3>2
    <3>4. deflt = [n |-> 0, files |-> {}]
      BY <1>2, <3>3 DEF MidJob
    <3> QED
      BY <1>1, <2>1, <3>4 DEF Settled
  <2>2. CASE ~\E i \in DOMAIN job.todo : job.todo[i].file = "root"
    <3>1. /\ Len(job.todo) = Len(c) + 7 - k /\ DOMAIN job.todo = 1 .. Len(job.todo)
          /\ \A i \in 1 .. Len(job.todo) : job.todo[i] = PlannedWrite(c, k + i)
      BY <1>2 DEF MidJob, LeftOfPlan
    <3>2. \A j \in 1 .. Len(c) + 7 : j > 4 /\ j <= Len(c) + 4 => PlannedWrite(c, j).file = "root"
      BY PlannedKinds
    <3>3. k >= Len(c) + 4
      <4> SUFFICES ASSUME k < Len(c) + 4
                   PROVE  FALSE
        BY <1>3
      <4> DEFINE j == IF k < 4 THEN 5 ELSE k + 1
                 i == j - k
      <4>1. /\ j \in 1 .. Len(c) + 7 /\ j > 4 /\ j <= Len(c) + 4
            /\ i \in 1 .. Len(c) + 7 - k /\ k + i = j
        BY <1>3
      <4> HIDE DEF i, j
      <4>2. job.todo[i].file = "root" /\ i \in DOMAIN job.todo
        BY <3>1, <3>2, <4>1
      <4> QED
        BY <2>2, <4>2
    <3>4. deflt = [n |-> 0, files |-> {}] \/ deflt.n = job.n
      BY <1>2, <1>3 DEF MidJob
    <3>5. /\ roots # <<>> /\ WellSigned(roots)
          /\ Last(roots).keys = job.n /\ keyfile["timestamp"] = job.n
      BY <1>2, <1>4, <3>3, ChainWritten
    <3> QED
      BY <1>1, <3>4, <3>5 DEF Settled, WellSigned
  <2> QED
    BY <1>1, <2>1, <2>2
<1> QED
  BY <1>1, <1>5, <1>6, <1>7 DEF DiskOK

\* Steps that leave the roots, the keys and the server's keys alone.
LEMMA RootsFrame ==
  ASSUME DiskInv, UNCHANGED <<keyfile, roots, deflt, job, inits, spoiled, signers>>
  PROVE  DiskInv'
<1>1. DiskTypes => DiskTypes'
  BY DEF DiskTypes
<1>2. Settled => Settled'
  BY DEF Settled
<1>3. ASSUME NEW c, NEW k, MidJob(c, k)
      PROVE  MidJob(c, k)'
  BY <1>3 DEF MidJob
<1>4. (Up => ServerKey) => (Up => ServerKey)'
  BY DEF Up, ServerKey
<1> QED
  BY <1>1, <1>2, <1>3, <1>4 DEF DiskInv, DiskOK

\* The roots are signed one by the other (if those of the archives are) and the last
\* lists the keys, unless an import was interrupted among its roots or tuf-init ran
\* again after the root key was removed.
THEOREM DiskInvariant == Spec => []DiskInv
<1>1. Init => DiskInv
  <2> SUFFICES ASSUME Init
               PROVE  DiskInv
    OBVIOUS
  <2>1. DiskTypes
    <3>1. keyfile \in [RoleSet -> Nat]
      BY DEF Init, KeysOf, RoleSet
    <3> QED
      BY <3>1 DEF Init, DiskTypes, NoJob
  <2> QED
    BY <2>1 DEF Init, DiskInv, DiskOK, Settled, Up
<1>2. DiskInv /\ [Next]_vars => DiskInv'
  <2> SUFFICES ASSUME DiskInv, [Next]_vars
               PROVE  DiskInv'
    OBVIOUS
  <2>0. inits \in Nat /\ inits + 1 \in Nat \ {0}
    BY DEF DiskInv
  <2>1. CASE authInit
    BY <2>1, RootsFrame DEF authInit
  <2>2. CASE InitTuf
    <3> DEFINE todo == writeKeys \o <<writeRoot(1, NewRoot(inits + 1, {}))>> \o writeDefaultMeta
    <3>1. PICK c \in Seq(RootSet) : Chain(c, inits + 1) /\ LeftOfPlan(todo, c, 0)
      BY <2>0, InitPlan
    <3>2. Begin(todo)
      BY <2>2 DEF InitTuf
    <3> HIDE DEF todo
    <3> QED
      BY <3>1, <3>2, BeginDisk
  <2>3. ASSUME NEW a \in Archives, ImportTuf(a)
        PROVE  DiskInv'
    <3> DEFINE todo == writeKeys
                         \o [v \in 1 .. Newest(a) |-> writeRoot(v, Verbatim(Root(a, v)))]
                         \o <<writeRoot(Newest(a) + 1, NewRoot(inits + 1, {findFirstRootSigner(a)}))>>
                         \o writeDefaultMeta
    <3>1. Importable(a) /\ Begin(todo)
      BY <2>3 DEF ImportTuf
    <3>2. PICK c \in Seq(RootSet) : Chain(c, inits + 1) /\ LeftOfPlan(todo, c, 0)
      BY <2>0, <3>1, ImportPlan
    <3> HIDE DEF todo
    <3> QED
      BY <3>1, <3>2, BeginDisk
  <2>4. CASE writeFile
    <3>1. UNCHANGED <<inits, spoiled>> /\ job # NoJob
      BY <2>4 DEF writeFile, NoJob
    <3> SUFFICES ASSUME DiskOK
                 PROVE  DiskOK'
      BY <3>1 DEF DiskInv
    <3>2a. PICK c \in Seq(RootSet) : \E k \in 0 .. Len(c) + 6 : MidJob(c, k)
      BY <3>1 DEF DiskOK
    <3>2. PICK k \in 0 .. Len(c) + 6 : MidJob(c, k)
      BY <3>2a
    <3>3. \/ k < 4
          \/ k >= 4 /\ k < Len(c) + 4
          \/ k >= Len(c) + 4
      OBVIOUS
    <3> QED
      BY <2>4, <3>1, <3>2, <3>3, KeyWritten, RootWritten, DefaultWritten
  <2>5. CASE InitStops
    <3>1. inits' = inits /\ (spoiled => spoiled')
      BY <2>5 DEF InitStops
    <3> QED
      BY <2>5, <3>1, StopDisk DEF DiskInv
  <2>6. CASE RemoveRootKey
    <3>1. /\ job = NoJob /\ keyfile' = [keyfile EXCEPT !["root"] = 0]
          /\ UNCHANGED <<roots, deflt, job, inits, spoiled, signers>>
      BY <2>6 DEF RemoveRootKey
    <3> SUFFICES ASSUME DiskOK
                 PROVE  DiskOK'
      BY <3>1 DEF DiskInv
    <3>2. keyfile' \in [RoleSet -> Nat] /\ keyfile'["timestamp"] = keyfile["timestamp"]
      <4>1. Roles[4] = "timestamp" /\ Roles[4] \in RoleSet
        BY DEF Roles, RoleSet
      <4>2. keyfile \in [RoleSet -> Nat]
        BY DEF DiskOK, DiskTypes
      <4> QED
        BY <3>1, <4>1, <4>2
    <3>3. DiskTypes' /\ Settled' /\ (Up' => ServerKey')
      BY <3>1, <3>2 DEF DiskOK, DiskTypes, Settled, WellSigned, ServerKey, Up
    <3> QED
      BY <3>1, <3>3 DEF DiskOK
  <2>7. CASE LoadTuf \/ Crash
    <3>1. /\ UNCHANGED <<keyfile, roots, deflt, job, inits, spoiled>>
          /\ signers' = None \/ (signers' = keyfile /\ roots # <<>>)
      BY <2>7 DEF LoadTuf, Crash, disk, isInitialized
    <3> SUFFICES ASSUME DiskOK
                 PROVE  DiskOK'
      BY <3>1 DEF DiskInv
    <3>2. DiskTypes' /\ (job = NoJob => Settled)'
      BY <3>1 DEF DiskOK, DiskTypes, Settled, WellSigned
    <3>3. ASSUME NEW c, NEW k, MidJob(c, k)
          PROVE  MidJob(c, k)'
      BY <3>1, <3>3 DEF MidJob
    <3>4. Up' => ServerKey'
      BY <3>1 DEF ServerKey, Up
    <3> QED
      BY <3>1, <3>2, <3>3, <3>4 DEF DiskOK
  <2>8. ASSUME NEW u \in Updates, NEW o \in TargetOptions, generateUpdateTuf(u, o)
        PROVE  DiskInv'
    BY <2>8, RootsFrame DEF generateUpdateTuf, disk
  <2>8a. ASSUME NEW u \in Updates, NEW d \in Supplied, sawTuf(u, d)
         PROVE  DiskInv'
    BY <2>8a, RootsFrame DEF sawTuf, disk
  <2>9. ASSUME NEW u \in Updates,
               \/ SaveUpload(u) \/ UpdateInsert(u) \/ UploadFails(u)
               \/ DeleteUpdate(u) \/ RemoveDir(u) \/ RemoveFails(u)
               \/ ReadTimestamp(u) \/ refreshFails(u) \/ SetUpdateName(u)
        PROVE  DiskInv'
    BY <2>9, RootsFrame
    DEF SaveUpload, UpdateInsert, UploadFails, DeleteUpdate, RemoveDir, RemoveFails, ReadTimestamp,
        refreshFails, SetUpdateName, disk
  <2>10. CASE \/ RefreshTufTimestamps \/ ListFails \/ WriteTimestamp \/ CheckIn \/ metaTimestamp \/ Tick
              \/ UNCHANGED vars
    BY <2>10, RootsFrame
    DEF RefreshTufTimestamps, ListFails, WriteTimestamp, CheckIn, metaTimestamp, Tick, vars, disk
  <2> QED
    BY <2>1, <2>2, <2>3, <2>4, <2>5, <2>6, <2>7, <2>8, <2>8a, <2>9, <2>10 DEF Next
<1> QED
  BY <1>1, <1>2, PTL DEF Spec

-----------------------------------------------------------------------------
(* Devices can trust what they are given *)

\* The metadata of an upload: it links every root and is signed with the server's key.
LEMMA GeneratedLinks ==
  ASSUME NEW o, roots \in Seq(RootSet)
  PROVE  /\ GenerateTufMeta(o).roots = Len(roots)
         /\ GenerateTufMeta(o).timestamp.by = signers["timestamp"]
<1> DEFINE v == getLatestVersions + 1
           t == IF o.opts.appVersion # 0 THEN o.opts.appVersion ELSE getLatestTargetVersion + 1
           f == [from |-> o.from, hash |-> o.opts.hash, hardwareId |-> o.opts.hardwareId]
           e == now + TimestampExpiration
           d == Signed(v, t, f, e, linkRoots, signers)
           names == rootMetaNames
<1>1. GenerateTufMeta(o) = d
  BY DEF GenerateTufMeta
<1> HIDE DEF v, t, f, e
<1>2. d.roots = linkRoots /\ d.timestamp.by = signers["timestamp"]
  BY DEF Signed, Targets, Snapshot, Timestamp
<1>3. names \in [1 .. Len(roots) -> Nat] /\ Len(roots) \in Nat
  BY DEF rootMetaNames
<1> HIDE DEF names
<1>4. Len(names) = Len(roots)
  BY <1>3, Listed
<1> QED
  BY <1>1, <1>2, <1>4 DEF linkRoots, names

\* With no tuf-init at work, the key that a running server signs timestamps with is
\* the one that the last root lists.
LEMMA ServerSigns ==
  ASSUME DiskInv, ~spoiled, Up, job = NoJob
  PROVE  /\ roots # <<>> /\ roots \in Seq(RootSet) /\ WellSigned(roots)
         /\ signers["timestamp"] = Last(roots).keys
         /\ deflt = [n |-> 0, files |-> {}] \/ deflt.n = Last(roots).keys
BY DEF DiskInv, DiskOK, DiskTypes, ServerKey, Settled

\* The invariant of one update.
FitsOne(u) ==
  /\ Busy(u) \/ u \in rows => job = NoJob /\ roots # <<>>
  /\ Busy(u) => Fits(upl[u].files)
  /\ (Saved(u) \/ u \in rows) /\ u \notin crossed => Fits(dir[u])

\* An update whose upload, directory and row are left alone.
LEMMA FitsSame ==
  ASSUME NEW u \in Updates, FitsOne(u), UNCHANGED <<roots, job>>,
         upl'[u] = upl[u], dir'[u] = dir[u], u \in rows' => u \in rows, u \in crossed => u \in crossed'
  PROVE  FitsOne(u)'
BY DEF FitsOne, Busy, Saved, Fits

\* A server's step on one update.
LEMMA FitsStep ==
  ASSUME FitsInv, NEW u \in Updates, UNCHANGED <<roots, job, spoiled>>,
         \A v \in Updates \ {u} :
           /\ upl'[v] = upl[v] /\ dir'[v] = dir[v] /\ (v \in rows' => v \in rows)
           /\ (v \in early => v \in early') /\ (v \in own => v \in own') /\ (v \in crossed => v \in crossed'),
         ~spoiled /\ u \notin early' /\ u \notin own' => FitsOne(u)'
  PROVE  FitsInv'
<1> SUFFICES ASSUME ~spoiled, NEW v \in Updates, v \notin early' \cup own'
             PROVE  FitsOne(v)'
  BY DEF FitsInv, FitsOne
<1>1. CASE v = u
  BY <1>1
<1>2. CASE v # u
  <2>1. FitsOne(v)
    BY <1>2 DEF FitsInv, FitsOne
  <2> QED
    BY <1>2, <2>1, FitsSame
<1> QED
  BY <1>1, <1>2

\* An upload.
LEMMA FitsUpload ==
  ASSUME LifeInv, DiskInv, FitsInv, NEW u \in Updates, NEW o, generateUpdateTuf(u, o)
  PROVE  FitsInv'
<1>1. /\ Up /\ upl[u] = NoUpload /\ u \notin rows
      /\ upl' = [upl EXCEPT ![u] = [pc |-> "generated", files |-> GenerateTufMeta(o)]]
      /\ early' = IF job # NoJob THEN early \cup {u} ELSE early \ {u}
      /\ own' = own \ {u}
      /\ UNCHANGED <<roots, job, spoiled, rows, dir, crossed>>
  BY DEF generateUpdateTuf, Unpacked, disk
<1>2. /\ upl'[u] = [pc |-> "generated", files |-> GenerateTufMeta(o)]
      /\ \A v \in Updates \ {u} : upl'[v] = upl[v]
  BY <1>1 DEF LifeInv, Shapes
<1>3. ASSUME ~spoiled, u \notin early', u \notin own'
      PROVE  FitsOne(u)'
  <2>1. job = NoJob
    BY <1>1, <1>3
  <2>2. /\ roots # <<>> /\ roots \in Seq(RootSet) /\ signers["timestamp"] = Last(roots).keys
    BY <1>1, <1>3, <2>1, ServerSigns
  <2>3. Fits(GenerateTufMeta(o))
    BY <2>2, GeneratedLinks DEF Fits
  <2>4. upl'[u].files = GenerateTufMeta(o) /\ upl'[u].pc = "generated"
    BY <1>2
  <2>5. Fits(upl[u].files)'
    BY <1>1, <2>3, <2>4 DEF Fits
  <2> QED
    BY <1>1, <2>1, <2>2, <2>4, <2>5 DEF FitsOne, Saved
<1> QED
  BY <1>1, <1>2, <1>3, FitsStep

\* An upload with its own metadata: it is on record.
LEMMA FitsOwn ==
  ASSUME LifeInv, FitsInv, NEW u \in Updates, NEW d, sawTuf(u, d)
  PROVE  FitsInv'
<1>1. /\ upl' = [upl EXCEPT ![u] = [pc |-> "generated", files |-> d]]
      /\ early' = early \ {u} /\ own' = own \cup {u}
      /\ UNCHANGED <<roots, job, spoiled, rows, dir, crossed>>
  BY DEF sawTuf, Unpacked, disk
<1>2. \A v \in Updates \ {u} : upl'[v] = upl[v]
  BY <1>1 DEF LifeInv, Shapes
<1> QED
  BY <1>1, <1>2, FitsStep

\* The upload is put in its place or fails, an update is deleted.
LEMMA FitsStore ==
  ASSUME LifeInv, FitsInv, NEW u \in Updates,
         \/ SaveUpload(u) \/ UpdateInsert(u) \/ UploadFails(u)
         \/ DeleteUpdate(u) \/ RemoveDir(u) \/ RemoveFails(u)
  PROVE  FitsInv'
<1>0. ~spoiled /\ u \notin early /\ u \notin own => FitsOne(u)
  BY DEF FitsInv, FitsOne
<1>1. CASE SaveUpload(u)
  <2>1. /\ upl[u].pc = "generated" /\ dir' = [dir EXCEPT ![u] = upl[u].files]
        /\ upl' = [upl EXCEPT ![u].pc = "saved"]
        /\ UNCHANGED <<roots, job, spoiled, rows, early, own>>
        /\ crossed' = Crosses(u)
    BY <1>1 DEF SaveUpload, disk
  <2>2. /\ dir'[u] = upl[u].files /\ upl'[u].files = upl[u].files
        /\ \A v \in Updates \ {u} : upl'[v] = upl[v] /\ dir'[v] = dir[v]
    BY <2>1 DEF LifeInv, Shapes
  <2>2a. \A v \in Updates \ {u} : v \in crossed => v \in crossed'
    BY <2>1 DEF Crosses
  <2>3. Busy(u)
    BY <2>1 DEF Busy, NoUpload
  <2>4. ASSUME ~spoiled, u \notin early', u \notin own'
        PROVE  FitsOne(u)'
    BY <1>0, <2>1, <2>2, <2>3, <2>4 DEF FitsOne, Fits
  <2> QED
    BY <2>1, <2>2, <2>2a, <2>4, FitsStep
<1>2. CASE UpdateInsert(u)
  <2>1. /\ upl[u].pc = "saved" /\ rows' = rows \cup {u}
        /\ upl' = [upl EXCEPT ![u] = NoUpload]
        /\ UNCHANGED <<roots, job, spoiled, dir, early, own, crossed>>
    BY <1>2 DEF UpdateInsert, disk
  <2>2. upl'[u] = NoUpload /\ \A v \in Updates \ {u} : upl'[v] = upl[v] /\ (v \in rows' => v \in rows)
    BY <2>1 DEF LifeInv, Shapes
  <2>3. Busy(u) /\ Saved(u)
    BY <2>1 DEF Busy, Saved, NoUpload
  <2>4. ASSUME ~spoiled, u \notin early', u \notin own'
        PROVE  FitsOne(u)'
    BY <1>0, <2>1, <2>2, <2>3, <2>4 DEF FitsOne, Fits, Busy
  <2> QED
    BY <2>1, <2>2, <2>4, FitsStep
<1>2a. CASE UploadFails(u)
  <2>1. /\ upl' = [upl EXCEPT ![u] = NoUpload]
        /\ UNCHANGED <<roots, job, spoiled, rows, dir, early, own, crossed>>
    BY <1>2a DEF UploadFails, disk
  <2>2. upl'[u] = NoUpload /\ \A v \in Updates \ {u} : upl'[v] = upl[v]
    BY <2>1 DEF LifeInv, Shapes
  <2>3. ~Busy(u)' /\ ~Saved(u)'
    BY <2>2 DEF Busy, Saved, NoUpload
  <2>4. ASSUME ~spoiled, u \notin early', u \notin own'
        PROVE  FitsOne(u)'
    BY <1>0, <2>1, <2>3, <2>4 DEF FitsOne, Fits
  <2> QED
    BY <2>1, <2>2, <2>4, FitsStep
<1>3. CASE DeleteUpdate(u) \/ RemoveFails(u)
  <2>1. rows' \subseteq rows /\ UNCHANGED <<roots, job, spoiled, dir, upl, early, own, crossed>>
    BY <1>3 DEF DeleteUpdate, RemoveFails, disk
  <2>2. ASSUME ~spoiled, u \notin early', u \notin own'
        PROVE  FitsOne(u)'
    BY <1>0, <2>1, <2>2, FitsSame
  <2> QED
    BY <2>1, <2>2, FitsStep
<1>4. CASE RemoveDir(u)
  <2>1. /\ dir' = [dir EXCEPT ![u] = NoDir]
        /\ crossed' = IF u \in rows \/ Saved(u) THEN crossed \cup {u} ELSE Crosses(u)
        /\ UNCHANGED <<roots, job, spoiled, rows, upl, early, own>>
    BY <1>4 DEF RemoveDir, disk, Saved
  <2>2. \A v \in Updates \ {u} : dir'[v] = dir[v] /\ (v \in crossed => v \in crossed')
    BY <2>1 DEF LifeInv, Shapes, Crosses
  <2>3. u \notin crossed' => ~(u \in rows' \/ Saved(u)')
    BY <2>1 DEF Saved
  <2>4. ASSUME ~spoiled, u \notin early', u \notin own'
        PROVE  FitsOne(u)'
    BY <1>0, <2>1, <2>3, <2>4 DEF FitsOne, Fits, Busy
  <2> QED
    BY <2>1, <2>2, <2>4, FitsStep
<1> QED
  BY <1>1, <1>2, <1>2a, <1>3, <1>4

\* The daemon's write: it signs with the server's key.
LEMMA FitsRefresh ==
  ASSUME LifeInv, DiskInv, FitsInv, WriteTimestamp
  PROVE  FitsInv'
<1>0. daemon.cur # None /\ daemon.cur \in Updates
  BY DEF WriteTimestamp, LifeInv, Shapes, Stamps
<1>0a. PICK u \in Updates : u = daemon.cur
  BY <1>0
<1> DEFINE ts == Refreshed(daemon.held)
<1>1. /\ u # None /\ dir' = [dir EXCEPT ![u].timestamp = ts]
      /\ UNCHANGED <<roots, job, spoiled, rows, upl, early, own, crossed, signers>>
  BY <1>0a DEF WriteTimestamp, disk
<1>2. u \in Updates /\ Up /\ now \in Nat /\ IsStamp(daemon.held)
  BY <1>0, <1>0a DEF LifeInv, Shapes, Stamps, DownIsIdle, Asleep, Up
<1>3. ts.by = signers["timestamp"]
  BY <1>2, RefreshedStamp
<1> HIDE DEF ts
<1>4. /\ dir'[u].timestamp = ts /\ dir'[u].roots = dir[u].roots
      /\ \A v \in Updates \ {u} : dir'[v] = dir[v]
  <2>1. IsDir(dir[u]) /\ dir = [v \in Updates |-> dir[v]]
    BY <1>2 DEF LifeInv, Shapes
  <2> DEFINE d == [dir[u] EXCEPT !.timestamp = ts]
  <2>2. d.timestamp = ts /\ d.roots = dir[u].roots
    BY <2>1 DEF IsDir
  <2>3. dir' = [dir EXCEPT ![u] = d]
    BY <1>1
  <2> HIDE DEF d
  <2> QED
    BY <1>2, <2>1, <2>2, <2>3
<1>5. ASSUME ~spoiled, u \notin early', u \notin own'
      PROVE  FitsOne(u)'
  <2>1. FitsOne(u)
    BY <1>1, <1>2, <1>5 DEF FitsInv, FitsOne
  <2>2. Saved(u) => Busy(u)
    BY DEF Saved, Busy, NoUpload
  <2>3. ASSUME Saved(u) \/ u \in rows, u \notin crossed
        PROVE  Fits(dir[u])'
    <3>1. job = NoJob /\ Fits(dir[u])
      BY <2>1, <2>2, <2>3 DEF FitsOne
    <3>2. signers["timestamp"] = Last(roots).keys
      BY <1>2, <1>5, <3>1, ServerSigns
    <3> QED
      BY <1>1, <1>3, <1>4, <3>1, <3>2 DEF Fits
  <2> QED
    BY <1>1, <2>1, <2>3 DEF FitsOne, Fits, Busy, Saved
<1> QED
  BY <1>1, <1>2, <1>4, <1>5, FitsStep

\* tuf-init: no update has metadata before the first root, and later ones are on
\* record as early.
LEMMA FitsDisk ==
  ASSUME LifeInv, FitsInv, DiskStep
  PROVE  FitsInv'
<1>0. UNCHANGED <<rows, dir, upl, early, own, crossed>>
  BY DiskFrame
<1> SUFFICES ASSUME ~spoiled', NEW u \in Updates, u \notin early' \cup own'
             PROVE  FitsOne(u)'
  BY DEF FitsInv, FitsOne
<1>1. spoiled => spoiled'
  BY DEF DiskStep, authInit, InitTuf, writeFile, InitStops, RemoveRootKey, ImportTuf, Begin
<1>2. FitsOne(u)
  BY <1>0, <1>1 DEF FitsInv, FitsOne
<1>3. CASE UNCHANGED <<roots, job>>
  BY <1>0, <1>2, <1>3, FitsSame
<1>4. CASE ~(Busy(u) \/ u \in rows)
  BY <1>0, <1>4 DEF FitsOne, Busy, Saved, NoUpload
<1>5. \/ UNCHANGED <<roots, job>>
      \/ job # NoJob
      \/ spoiled' = (spoiled \/ roots # <<>>)
  <2>1. ASSUME authInit \/ RemoveRootKey
        PROVE  UNCHANGED <<roots, job>>
    BY <2>1 DEF authInit, RemoveRootKey
  <2>2. ASSUME writeFile \/ InitStops
        PROVE  job # NoJob
    BY <2>2 DEF writeFile, InitStops, NoJob
  <2>3. ASSUME InitTuf \/ \E a \in Archives : ImportTuf(a)
        PROVE  spoiled' = (spoiled \/ roots # <<>>)
    BY <2>3 DEF InitTuf, ImportTuf, Begin
  <2> QED
    BY <2>1, <2>2, <2>3 DEF DiskStep
<1> QED
  BY <1>2, <1>3, <1>4, <1>5 DEF FitsOne

\* Spec keeps FitsInv: the metadata of an update ends at the last root.
THEOREM FitsInvariant == Spec => []FitsInv
<1>1. Init => FitsInv
  BY DEF Init, FitsInv, Busy, Saved, NoUpload
<1>2. LifeInv /\ DiskInv /\ FitsInv /\ [Next]_vars => FitsInv'
  <2> SUFFICES ASSUME LifeInv, DiskInv, FitsInv, [Next]_vars
               PROVE  FitsInv'
    OBVIOUS
  <2>0. ASSUME UNCHANGED <<roots, job, spoiled, early, own, rows, dir, upl, crossed>>
        PROVE  FitsInv'
    BY <2>0 DEF FitsInv, Fits, Busy, Saved
  <2>1. CASE Crash
    <3>1. UNCHANGED <<roots, job, spoiled, early, own, rows, dir, crossed>> /\ \A u \in Updates : upl'[u] = NoUpload
      BY <2>1 DEF Crash, disk
    <3> QED
      BY <3>1 DEF FitsInv, Fits, Busy, Saved, NoUpload
  <2>2. CASE \/ LoadTuf \/ RefreshTufTimestamps \/ ListFails \/ CheckIn \/ metaTimestamp \/ Tick
             \/ UNCHANGED vars
    BY <2>0, <2>2
    DEF LoadTuf, RefreshTufTimestamps, ListFails, CheckIn, metaTimestamp, Tick, vars, disk, store
  <2>3. ASSUME NEW u \in Updates, ReadTimestamp(u) \/ refreshFails(u) \/ SetUpdateName(u)
        PROVE  FitsInv'
    BY <2>0, <2>3 DEF ReadTimestamp, refreshFails, SetUpdateName, disk, store
  <2> QED
    BY <2>1, <2>2, <2>3, FitsDisk, FitsUpload, FitsOwn, FitsStore, FitsRefresh DEF Next, DiskStep
<1> QED
  BY <1>1, <1>2, LifeInvariant, DiskInvariant, PTL DEF Spec

\* A device can trust what it is given, whatever tuf-init, the uploads and the daemon
\* were interrupted at or failed in: it can walk from root to root, the last lists the
\* key of its timestamp, and the timestamp has not expired, with the exceptions that
\* DeviceTrusts names: metadata that came with the upload among them.  importTuf does not verify what it
\* imports, so that the roots of the archives are assumed to be signed.
THEOREM DevicesCanTrust == ASSUME ArchivesSigned PROVE Spec => []DeviceTrusts
<1>1. LifeInv /\ ExpiryInv /\ DiskInv /\ FitsInv => DeviceTrusts
  <2> SUFFICES ASSUME LifeInv, ExpiryInv, DiskInv, FitsInv
               PROVE  DeviceTrusts
    OBVIOUS
  <2> DEFINE ts == GetTufMeta("timestamp")
  <2>1. ASSUME ~spoiled
        PROVE  WellSigned(roots)
    <3>1. DiskOK
      BY <2>1 DEF DiskInv
    <3>2. CASE job = NoJob
      BY <3>1, <3>2 DEF DiskOK, Settled, WellSigned
    <3>3. CASE job # NoJob
      BY <3>1, <3>3, PrefixSigned DEF DiskOK
    <3> QED
      BY <3>2, <3>3
  <2>2. ASSUME Up, ~spoiled, job = NoJob, ts # NoFile,
               dev.update \in {None} \cup (rows \ (early \cup own \cup crossed))
        PROVE  ReadRoots # <<>> /\ Last(ReadRoots).keys = ts.by
    <3>1. /\ roots # <<>> /\ roots \in Seq(RootSet)
          /\ deflt = [n |-> 0, files |-> {}] \/ deflt.n = Last(roots).keys
      BY <2>2, ServerSigns
    <3>2. CASE dev.update # None
      <4> DEFINE u == dev.update
      <4>1. u \in rows /\ u \in Updates /\ u \notin early \cup own \cup crossed
        BY <2>2, <3>2 DEF LifeInv, Shapes
      <4>2. Fits(dir[u])
        BY <2>2, <4>1 DEF FitsInv
      <4>3. ts = dir[u].timestamp /\ ReadRoots = SubSeq(roots, 1, dir[u].roots)
        BY <3>2 DEF GetTufMeta, ReadRoots
      <4>4. SubSeq(roots, 1, Len(roots)) = roots
        BY <3>1
      <4> QED
        BY <3>1, <4>2, <4>3, <4>4 DEF Fits
    <3>3. CASE dev.update = None
      <4>1. ReadRoots = roots /\ "timestamp" \in deflt.files /\ ts = DefaultMeta["timestamp"]
        BY <2>2, <3>3 DEF GetTufMeta, ReadRoots
      <4>2. deflt.n = Last(roots).keys
        BY <3>1, <4>1
      <4>3. KeysOf(deflt.n)["timestamp"] = deflt.n
        <5>1. Roles[4] = "timestamp"
          BY DEF Roles
        <5> QED
          BY <5>1 DEF KeysOf
      <4>4. ts.by = KeysOf(deflt.n)["timestamp"]
        BY <4>1 DEF DefaultMeta, Signed, Timestamp
      <4> QED
        BY <3>1, <4>1, <4>2, <4>3, <4>4
    <3> QED
      BY <3>2, <3>3
  <2>3. Up /\ passed >= 0 => \A u \in rows \ lapsing : dir[u].timestamp.exp > now
    BY DEF ExpiryInv
  <2> HIDE DEF ts
  <2>4. \/ ~(Up /\ ~spoiled /\ job = NoJob /\ ts # NoFile
                /\ dev.update \in {None} \cup (rows \ (early \cup own \cup crossed)))
        \/ ReadRoots # <<>> /\ Last(ReadRoots).keys = ts.by
    BY <2>2
  <2> QED
    BY <2>1, <2>3, <2>4 DEF DeviceTrusts, WellSigned, ts
<1> QED
  BY <1>1, LifeInvariant, ExpiryInvariant, DiskInvariant, FitsInvariant, PTL

-----------------------------------------------------------------------------
(* A version stands for one snapshot *)

\* The versions of known updates and of the default metadata.
Versions == {dir[u].targets.ver : u \in rows} \cup {1}

Numbered(d) == d.targets.ver \in Nat /\ d.timestamp.ver = d.targets.ver * 1000

\* One upload at a time, no deletion, and a daemon and a device whose updates stay.
OneUpload ==
  /\ \A u \in Updates : del[u] = 0
  /\ \A u, w \in Updates : Busy(u) /\ Busy(w) => u = w
  /\ \A u \in Updates : Saved(u) => dir[u] = upl[u].files
  /\ daemon.todo \subseteq rows
  /\ daemon.cur # None => daemon.held = dir[daemon.cur].timestamp
  /\ dev.update # None => dev.update \in rows

\* Versions increase: there is a highest, and an upload has a higher one.
Increasing ==
  /\ \E m \in Versions : \A x \in Versions : x <= m
  /\ \A u \in rows : Numbered(dir[u]) /\ dir[u].targets.ver > 1
  /\ \A u, w \in rows : dir[u].targets.ver = dir[w].targets.ver => u = w
  /\ \A u \in Updates : Busy(u) =>
       Numbered(upl[u].files) /\ \A x \in Versions : upl[u].files.targets.ver > x

VersionInv == ~reused => OneUpload /\ Increasing

\* What the device has seen is still what its version stands for.
SeenInv ==
  ~reused /\ ~spoiled /\ dev.seen # NoFile =>
    \/ deflt.files # {} /\ dev.seen.ver = 1000 /\ dev.seen.of = DefaultMeta.snapshot
    \/ \E u \in rows : dev.seen.ver = dir[u].timestamp.ver /\ dev.seen.of = dir[u].timestamp.of

\* getLatestVersions returns the highest version.
LEMMA LatestVersion ==
  ASSUME Increasing
  PROVE  getLatestVersions \in Nat /\ \A x \in Versions : x <= getLatestVersions
<1>1. Versions \subseteq Nat
  BY DEF Increasing, Numbered, Versions
<1>2. \E m \in Versions : \A x \in Versions : x <= m
  BY DEF Increasing
<1>3. getLatestVersions = CHOOSE m \in Versions : \A x \in Versions : x <= m
  BY DEF getLatestVersions, Greatest, Versions
<1> HIDE DEF Versions
<1>4. getLatestVersions \in Versions /\ \A x \in Versions : x <= getLatestVersions
  BY <1>2, <1>3
<1> QED
  BY <1>1, <1>4

\* An upload takes the next version.
LEMMA GeneratedVersion ==
  ASSUME Increasing, NEW o
  PROVE  /\ Numbered(GenerateTufMeta(o))
         /\ \A x \in Versions : GenerateTufMeta(o).targets.ver > x
<1> DEFINE v == getLatestVersions + 1
           t == IF o.opts.appVersion # 0 THEN o.opts.appVersion ELSE getLatestTargetVersion + 1
           f == [from |-> o.from, hash |-> o.opts.hash, hardwareId |-> o.opts.hardwareId]
           e == now + TimestampExpiration
           d == Signed(v, t, f, e, linkRoots, signers)
<1>1. GenerateTufMeta(o) = d
  BY DEF GenerateTufMeta
<1>2. v \in Nat /\ \A x \in Versions : v > x
  <2>1. Versions \subseteq Nat
    BY DEF Increasing, Numbered, Versions
  <2> QED
    BY <2>1, LatestVersion
<1> HIDE DEF v, t, f, e
<1>3. d.targets.ver = v /\ d.timestamp.ver = v * 1000
  BY DEF Signed, Targets, Snapshot, Timestamp
<1> QED
  BY <1>1, <1>2, <1>3 DEF Numbered

\* An upload begins: it is the only one, and its version is new.
LEMMA VersionUpload ==
  ASSUME LifeInv, VersionInv, NEW u \in Updates, NEW o, generateUpdateTuf(u, o)
  PROVE  VersionInv'
<1> SUFFICES ASSUME ~reused'
             PROVE  OneUpload' /\ Increasing'
  BY DEF VersionInv
<1>1. /\ upl' = [upl EXCEPT ![u] = [pc |-> "generated", files |-> GenerateTufMeta(o)]]
      /\ ~reused /\ \A w \in Updates : ~Busy(w)
      /\ UNCHANGED <<rows, dir, del, daemon, dev>>
  BY DEF generateUpdateTuf, Unpacked, Busy
<1>2. OneUpload /\ Increasing
  BY <1>1 DEF VersionInv
<1>3. upl'[u].pc = "generated" /\ upl'[u].files = GenerateTufMeta(o)
  BY <1>1 DEF LifeInv, Shapes
<1>4. \A w \in Updates : w # u => upl'[w] = upl[w]
  BY <1>1 DEF LifeInv, Shapes
<1>5. \A w \in Updates : Busy(w)' => w = u
  BY <1>1, <1>4 DEF Busy
<1>6. \A w \in Updates : ~Saved(w)'
  BY <1>1, <1>3, <1>4 DEF Saved, Busy, NoUpload
<1>7. OneUpload'
  BY <1>1, <1>2, <1>5, <1>6 DEF OneUpload
<1>8. Versions' = Versions
  BY <1>1 DEF Versions
<1>9. Numbered(upl'[u].files) /\ \A x \in Versions : upl'[u].files.targets.ver > x
  BY <1>2, <1>3, GeneratedVersion
<1>10. \A w \in Updates : Busy(w)' =>
         Numbered(upl'[w].files) /\ \A x \in Versions' : upl'[w].files.targets.ver > x
  BY <1>5, <1>8, <1>9
<1>11. Increasing'
  BY <1>1, <1>2, <1>8, <1>10 DEF Increasing, Numbered
<1> QED
  BY <1>7, <1>11

\* The upload's directory is put in place: no known update changes.
LEMMA VersionSave ==
  ASSUME LifeInv, VersionInv, NEW u \in Updates, SaveUpload(u)
  PROVE  VersionInv'
<1> SUFFICES ASSUME ~reused'
             PROVE  OneUpload' /\ Increasing'
  BY DEF VersionInv
<1>1. /\ upl[u].pc = "generated" /\ dir' = [dir EXCEPT ![u] = upl[u].files]
      /\ upl' = [upl EXCEPT ![u].pc = "saved"] /\ ~reused
      /\ UNCHANGED <<rows, del, daemon, dev>>
  BY DEF SaveUpload
<1>2. OneUpload /\ Increasing
  BY <1>1 DEF VersionInv
<1>3. Busy(u) /\ u \notin rows
  BY <1>1 DEF LifeInv, OneLife, Busy, NoUpload
<1>4. /\ dir'[u] = upl[u].files /\ upl'[u].files = upl[u].files
      /\ \A w \in Updates : w # u => upl'[w] = upl[w] /\ dir'[w] = dir[w]
  BY <1>1 DEF LifeInv, Shapes
<1>5. \A w \in Updates : Busy(w)' => Busy(w)
  BY <1>3, <1>4 DEF Busy
<1>6. \A w \in Updates : upl'[w].files = upl[w].files
  BY <1>4
<1>7. rows \subseteq Updates /\ \A w \in rows : dir'[w] = dir[w]
  BY <1>3, <1>4 DEF LifeInv, Shapes
<1>8. OneUpload'
  <2>1. daemon.cur # None => daemon.cur \in rows
    BY <1>2 DEF LifeInv, Stamps, OneUpload
  <2>2. daemon'.cur # None => daemon'.held = dir'[daemon'.cur].timestamp
    BY <1>1, <1>2, <1>7, <2>1 DEF OneUpload
  <2>3. \A w \in Updates : Saved(w)' => dir'[w] = upl'[w].files
    BY <1>2, <1>4 DEF OneUpload, Saved
  <2> QED
    BY <1>1, <1>2, <1>5, <2>2, <2>3 DEF OneUpload
<1>9. Versions' = Versions
  BY <1>1, <1>7 DEF Versions
<1>10. Increasing'
  BY <1>1, <1>2, <1>5, <1>6, <1>7, <1>9 DEF Increasing, Numbered
<1> QED
  BY <1>8, <1>10

\* The row is inserted: its version is the highest now.
LEMMA VersionInsert ==
  ASSUME LifeInv, VersionInv, NEW u \in Updates, UpdateInsert(u)
  PROVE  VersionInv'
<1> SUFFICES ASSUME ~reused'
             PROVE  OneUpload' /\ Increasing'
  BY DEF VersionInv
<1>1. /\ upl[u].pc = "saved" /\ rows' = rows \cup {u}
      /\ upl' = [upl EXCEPT ![u] = NoUpload] /\ ~reused
      /\ UNCHANGED <<dir, del, daemon, dev>>
  BY DEF UpdateInsert
<1>2. OneUpload /\ Increasing
  BY <1>1 DEF VersionInv
<1>3. Busy(u) /\ Saved(u) /\ u \notin rows
  BY <1>1 DEF LifeInv, OneLife, Busy, Saved, NoUpload
<1>4. upl'[u] = NoUpload /\ \A w \in Updates : w # u => upl'[w] = upl[w]
  BY <1>1 DEF LifeInv, Shapes
<1>5. \A w \in Updates : ~Busy(w)'
  BY <1>2, <1>3, <1>4 DEF OneUpload, Busy
<1>6. \A w \in Updates : ~Saved(w)'
  BY <1>5 DEF Busy, Saved, NoUpload
<1>7. OneUpload'
  BY <1>1, <1>2, <1>5, <1>6 DEF OneUpload
<1> DEFINE v == dir[u].targets.ver
<1>8. Numbered(dir[u]) /\ \A x \in Versions : v > x
  BY <1>2, <1>3 DEF OneUpload, Increasing
<1>9. Versions \subseteq Nat /\ v \in Nat /\ 1 \in Versions
  BY <1>2, <1>8 DEF Increasing, Numbered, Versions
<1>10. Versions' = Versions \cup {v}
  BY <1>1 DEF Versions
<1>11. (\E m \in Versions : \A x \in Versions : x <= m)'
  BY <1>8, <1>9, <1>10
<1>12. (\A w \in rows : Numbered(dir[w]) /\ dir[w].targets.ver > 1)'
  BY <1>1, <1>2, <1>8, <1>9 DEF Increasing, Numbered
<1>13. \A w \in rows : dir[w].targets.ver # v
  <2>1. \A w \in rows : dir[w].targets.ver \in Versions
    BY DEF Versions
  <2> QED
    BY <1>8, <1>9, <2>1
<1>14. (\A x, w \in rows : dir[x].targets.ver = dir[w].targets.ver => x = w)'
  BY <1>1, <1>2, <1>13 DEF Increasing
<1> QED
  BY <1>5, <1>7, <1>11, <1>12, <1>14 DEF Increasing

\* The daemon's steps leave the versions alone.
LEMMA VersionDaemon ==
  ASSUME LifeInv, VersionInv,
         \/ RefreshTufTimestamps \/ WriteTimestamp
         \/ \E u \in Updates : ReadTimestamp(u) \/ refreshFails(u)
  PROVE  VersionInv'
<1> SUFFICES ASSUME ~reused'
             PROVE  OneUpload' /\ Increasing'
  BY DEF VersionInv
<1>0. ~reused /\ UNCHANGED <<rows, upl, del, dev>>
  <2>1. ASSUME RefreshTufTimestamps
        PROVE  UNCHANGED <<rows, upl, del, dev, reused>>
    BY <2>1 DEF RefreshTufTimestamps, store
  <2>2. ASSUME WriteTimestamp
        PROVE  UNCHANGED <<rows, upl, del, dev, reused>>
    BY <2>2 DEF WriteTimestamp
  <2>3. ASSUME NEW u \in Updates, ReadTimestamp(u) \/ refreshFails(u)
        PROVE  UNCHANGED <<rows, upl, del, dev, reused>>
    BY <2>3 DEF ReadTimestamp, refreshFails, store
  <2> QED
    BY <2>1, <2>2, <2>3
<1>1. OneUpload /\ Increasing
  BY <1>0 DEF VersionInv
<1>2. ASSUME UNCHANGED dir
      PROVE  Increasing'
  <2>1. Versions' = Versions
    BY <1>0, <1>2 DEF Versions
  <2> QED
    BY <1>0, <1>1, <1>2, <2>1 DEF Increasing, Numbered, Busy
<1>3. ASSUME UNCHANGED dir, daemon'.todo \subseteq rows,
             daemon'.cur # None => daemon'.held = dir[daemon'.cur].timestamp
      PROVE  OneUpload'
  BY <1>0, <1>1, <1>3 DEF OneUpload, Busy, Saved
<1>4. CASE RefreshTufTimestamps
  <2>1. UNCHANGED dir /\ daemon' = [Asleep EXCEPT !.todo = rows]
    BY <1>4 DEF RefreshTufTimestamps, store
  <2>2. daemon'.todo = rows /\ daemon'.cur = None
    BY <2>1 DEF Asleep
  <2> QED
    BY <1>2, <1>3, <2>1, <2>2
<1>5. ASSUME NEW u \in Updates, ReadTimestamp(u) \/ refreshFails(u)
      PROVE  OneUpload' /\ Increasing'
  <2>1. /\ UNCHANGED dir /\ u \in daemon.todo
        /\ \/ daemon' = [Asleep EXCEPT !.todo = daemon.todo \ {u}]
           \/ daemon' = [daemon EXCEPT !.cur = u, !.held = dir[u].timestamp]
    BY <1>5 DEF ReadTimestamp, refreshFails, Done, store
  <2>2. daemon = [todo |-> daemon.todo, cur |-> daemon.cur, held |-> daemon.held]
    BY DEF LifeInv, Shapes
  <2>3. CASE daemon' = [Asleep EXCEPT !.todo = daemon.todo \ {u}]
    <3>1. daemon'.todo = daemon.todo \ {u} /\ daemon'.cur = None
      BY <2>3 DEF Asleep
    <3>2. daemon'.todo \subseteq rows
      BY <1>1, <3>1 DEF OneUpload
    <3> QED
      BY <1>2, <1>3, <2>1, <3>1, <3>2
  <2>4. CASE daemon' = [daemon EXCEPT !.cur = u, !.held = dir[u].timestamp]
    <3>1. daemon'.todo = daemon.todo /\ daemon'.cur = u /\ daemon'.held = dir[u].timestamp
      BY <2>2, <2>4
    <3> QED
      BY <1>1, <1>2, <1>3, <2>1, <3>1 DEF OneUpload
  <2> QED
    BY <2>1, <2>3, <2>4
<1>6. CASE WriteTimestamp
  <2>1. daemon.cur # None /\ daemon.cur \in Updates /\ daemon.cur \in rows /\ IsStamp(daemon.held)
    BY <1>1, <1>6 DEF WriteTimestamp, LifeInv, Shapes, Stamps, OneUpload
  <2>2. PICK u \in Updates : u = daemon.cur
    BY <2>1
  <2>3. /\ dir' = [dir EXCEPT ![u].timestamp = Refreshed(daemon.held)]
        /\ daemon' = [Asleep EXCEPT !.todo = daemon.todo \ {u}]
    BY <1>6, <2>2 DEF WriteTimestamp, Done
  <2>4. daemon'.todo = daemon.todo \ {u} /\ daemon'.cur = None
    BY <2>3 DEF Asleep
  <2>5. daemon.held = dir[u].timestamp
    BY <1>1, <2>1, <2>2 DEF OneUpload
  <2> DEFINE ts == Refreshed(daemon.held)
  <2>6. ts.ver = dir[u].timestamp.ver
    BY <2>1, <2>5, RefreshedStamp DEF LifeInv, Shapes
  <2>7. /\ dir'[u].targets = dir[u].targets /\ dir'[u].timestamp = ts
        /\ \A w \in Updates : w # u => dir'[w] = dir[w]
    <3> HIDE DEF ts
    <3>1. IsDir(dir[u]) /\ dir = [v \in Updates |-> dir[v]]
      BY DEF LifeInv, Shapes
    <3> DEFINE d == [dir[u] EXCEPT !.timestamp = ts]
    <3>2. d.timestamp = ts /\ d.targets = dir[u].targets
      BY <3>1 DEF IsDir
    <3>3. dir' = [dir EXCEPT ![u] = d]
      BY <2>3 DEF ts
    <3> HIDE DEF d
    <3> QED
      BY <3>1, <3>2, <3>3
  <2> HIDE DEF ts
  <2>8. \A w \in rows : dir'[w].targets = dir[w].targets /\ dir'[w].timestamp.ver = dir[w].timestamp.ver
    BY <2>6, <2>7 DEF LifeInv, Shapes
  <2>9. Versions' = Versions
    BY <1>0, <2>8 DEF Versions
  <2>10. Increasing'
    BY <1>0, <1>1, <2>8, <2>9 DEF Increasing, Numbered, Busy
  <2>11. \A w \in Updates : Saved(w)' => dir'[w] = upl'[w].files
    <3>1. \A w \in Updates : Saved(w) => w \notin rows
      BY DEF LifeInv, OneLife, Saved, Busy, NoUpload
    <3>2. \A w \in Updates : Saved(w)' => Saved(w) /\ w # u
      BY <1>0, <2>1, <2>2, <3>1 DEF Saved
    <3> QED
      BY <1>0, <1>1, <2>7, <3>2 DEF OneUpload
  <2>12. OneUpload'
    BY <1>0, <1>1, <2>4, <2>11 DEF OneUpload, Busy
  <2> QED
    BY <2>10, <2>12
<1> QED
  BY <1>4, <1>5, <1>6

\* Spec keeps VersionInv.
THEOREM VersionInvariant == Spec => []VersionInv
<1>1. Init => VersionInv
  <2> SUFFICES ASSUME Init
               PROVE  OneUpload /\ Increasing
    BY DEF VersionInv
  <2>1. \A u \in Updates : upl[u] = NoUpload /\ del[u] = 0
    BY DEF Init
  <2>2. OneUpload
    BY <2>1 DEF Init, OneUpload, Busy, Saved, NoUpload, Asleep
  <2>3. Versions = {1}
    BY DEF Init, Versions
  <2> QED
    BY <2>1, <2>2, <2>3 DEF Init, Increasing, Busy
<1>2. LifeInv /\ VersionInv /\ [Next]_vars => VersionInv'
  <2> SUFFICES ASSUME LifeInv, VersionInv, [Next]_vars
               PROVE  VersionInv'
    OBVIOUS
  <2>0. ASSUME UNCHANGED <<rows, dir, upl, del, daemon, reused>>,
               dev'.update = dev.update \/ dev'.update \in rows
        PROVE  VersionInv'
    BY <2>0 DEF VersionInv, OneUpload, Increasing, Versions, Numbered, Busy, Saved
  <2>1. CASE DiskStep
    BY <2>0, <2>1, DiskFrame
  <2>2. CASE Crash
    <3>1. /\ UNCHANGED <<rows, dir, reused, dev>> /\ daemon' = Asleep
          /\ \A u \in Updates : upl'[u] = NoUpload /\ del'[u] = 0
      BY <2>2 DEF Crash
    <3>2. \A u \in Updates : ~Busy(u)' /\ ~Saved(u)'
      BY <3>1 DEF Busy, Saved, NoUpload
    <3>3. OneUpload => OneUpload'
      BY <3>1, <3>2 DEF OneUpload, Asleep
    <3>4. Increasing => Increasing'
      <4>1. Versions' = Versions
        BY <3>1 DEF Versions
      <4> QED
        BY <3>1, <3>2, <4>1 DEF Increasing, Numbered
    <3> QED
      BY <3>1, <3>3, <3>4 DEF VersionInv
  <2>3. CASE LoadTuf \/ ListFails \/ Tick \/ UNCHANGED vars
    BY <2>0, <2>3 DEF LoadTuf, ListFails, Tick, vars, store
  <2>3a. CASE CheckIn \/ metaTimestamp
    <3>1. UNCHANGED <<rows, dir, upl, del, daemon, reused>>
      BY <2>3a DEF CheckIn, metaTimestamp, store
    <3>2. dev'.update = dev.update
      BY <2>3a DEF CheckIn, metaTimestamp, LifeInv, Shapes
    <3> QED
      BY <2>0, <3>1, <3>2
  <2>4. ASSUME NEW u \in Updates, SetUpdateName(u)
        PROVE  VersionInv'
    <3>1. UNCHANGED <<rows, dir, upl, del, daemon, reused>> /\ u \in rows
      BY <2>4 DEF SetUpdateName, store
    <3>2. dev'.update = u
      BY <2>4 DEF SetUpdateName, LifeInv, Shapes
    <3> QED
      BY <2>0, <3>1, <3>2
  <2>4a. ASSUME NEW u \in Updates, NEW d \in Supplied, sawTuf(u, d)
         PROVE  VersionInv'
    BY <2>4a DEF sawTuf, VersionInv
  <2>4b. ASSUME NEW u \in Updates, UploadFails(u)
         PROVE  VersionInv'
    <3>1. upl' = [upl EXCEPT ![u] = NoUpload] /\ UNCHANGED <<rows, dir, del, daemon, dev, reused>>
      BY <2>4b DEF UploadFails
    <3>2. \A w \in Updates : (Busy(w)' => Busy(w) /\ upl'[w] = upl[w]) /\ (Saved(w)' => Saved(w) /\ upl'[w] = upl[w])
      BY <3>1 DEF LifeInv, Shapes, Busy, Saved, NoUpload
    <3>3. OneUpload => OneUpload'
      BY <3>1, <3>2 DEF OneUpload
    <3>4. Versions' = Versions
      BY <3>1 DEF Versions
    <3>5. Increasing => Increasing'
      BY <3>1, <3>2, <3>4 DEF Increasing, Numbered
    <3> QED
      BY <3>1, <3>3, <3>5 DEF VersionInv
  <2>5. ASSUME NEW u \in Updates, DeleteUpdate(u)
        PROVE  VersionInv'
    BY <2>5 DEF DeleteUpdate, VersionInv
  <2>6. ASSUME NEW u \in Updates, RemoveDir(u) \/ RemoveFails(u)
        PROVE  VersionInv'
    BY <2>6 DEF RemoveDir, RemoveFails, VersionInv, OneUpload
  <2> QED
    BY <2>1, <2>2, <2>3, <2>3a, <2>4, <2>4a, <2>4b, <2>5, <2>6, VersionUpload, VersionSave, VersionInsert, VersionDaemon
    DEF Next, DiskStep
<1> QED
  BY <1>1, <1>2, LifeInvariant, PTL DEF Spec

\* tuf-init leaves default metadata that exists to the run that has written it.
LEMMA DefaultStays ==
  ASSUME DiskInv, DiskStep, ~spoiled', deflt.files # {}
  PROVE  deflt'.n = deflt.n /\ deflt'.files # {}
<1>1. CASE ~writeFile
  BY <1>1 DEF DiskStep, authInit, InitTuf, InitStops, RemoveRootKey, ImportTuf, Begin
<1>2. CASE writeFile
  <2> DEFINE w == Head(job.todo)
  <2>1. /\ job # NoJob /\ ~spoiled
        /\ deflt' = IF w.file \notin MetaFiles THEN deflt
                    ELSE IF deflt.n = job.n THEN [deflt EXCEPT !.files = @ \cup {w.file}]
                    ELSE [n |-> job.n, files |-> {w.file}]
    BY <1>2 DEF writeFile, NoJob
  <2> HIDE DEF w
  <2>2. PICK c \in Seq(RootSet) : \E k \in 0 .. Len(c) + 6 : MidJob(c, k)
    BY <2>1 DEF DiskInv, DiskOK
  <2>3. PICK k \in 0 .. Len(c) + 6 : MidJob(c, k)
    BY <2>2
  <2>4. ~(k <= Len(c) + 4)
    BY <2>3 DEF MidJob
  <2>5. deflt.n = job.n
    <3>1. k > Len(c) + 4
      BY <2>4
    <3> QED
      BY <2>3, <3>1 DEF MidJob
  <2>6. deflt = [n |-> deflt.n, files |-> deflt.files]
    BY <2>1 DEF DiskInv, DiskOK, DiskTypes
  <2> QED
    BY <2>1, <2>5, <2>6
<1> QED
  BY <1>1, <1>2

\* A step that does not give the device a timestamp.
LEMMA SeenKept ==
  ASSUME SeenInv, dev'.seen = dev.seen, reused => reused', spoiled => spoiled',
         ~reused' => \A u \in rows : /\ u \in rows' /\ dir'[u].timestamp.ver = dir[u].timestamp.ver
                                     /\ dir'[u].timestamp.of = dir[u].timestamp.of,
         ~spoiled' /\ deflt.files # {} => deflt'.n = deflt.n /\ deflt'.files # {}
  PROVE  SeenInv'
<1> SUFFICES ASSUME ~reused', ~spoiled', dev'.seen # NoFile
             PROVE  \/ deflt'.files # {} /\ dev'.seen.ver = 1000 /\ dev'.seen.of = DefaultMeta'.snapshot
                    \/ \E u \in rows' : /\ dev'.seen.ver = dir'[u].timestamp.ver
                                        /\ dev'.seen.of = dir'[u].timestamp.of
  BY DEF SeenInv
<1>1. CASE deflt.files # {} /\ dev.seen.ver = 1000 /\ dev.seen.of = DefaultMeta.snapshot
  <2>1. DefaultMeta' = DefaultMeta
    BY <1>1 DEF DefaultMeta
  <2> QED
    BY <1>1, <2>1
<1>2. CASE \E u \in rows : dev.seen.ver = dir[u].timestamp.ver /\ dev.seen.of = dir[u].timestamp.of
  BY <1>2
<1> QED
  BY <1>1, <1>2 DEF SeenInv

\* The version and the content of the default timestamp.
LEMMA DefaultVersion ==
  DefaultMeta.timestamp.ver = 1000 /\ DefaultMeta.timestamp.of = DefaultMeta.snapshot
<1> DEFINE k == KeysOf(deflt.n)
           d == Signed(1, 0, None, LastDay, 0, k)
<1> HIDE DEF k
<1>1. d.timestamp.ver = 1 * 1000 /\ d.timestamp.of = d.snapshot
  BY DEF Signed, Targets, Snapshot, Timestamp
<1> QED
  BY <1>1 DEF DefaultMeta, k

\* What the device is given comes with its update or with the default metadata.
LEMMA SeenGiven ==
  ASSUME LifeInv, VersionInv, ~reused, metaTimestamp
  PROVE  \/ deflt.files # {} /\ dev'.seen.ver = 1000 /\ dev'.seen.of = DefaultMeta.snapshot
         \/ \E u \in rows : /\ dev'.seen.ver = dir[u].timestamp.ver
                            /\ dev'.seen.of = dir[u].timestamp.of
<1> DEFINE ts == GetTufMeta("timestamp")
<1>1. ts # NoFile /\ dev' = [dev EXCEPT !.seen = [ver |-> ts.ver, of |-> ts.of]]
  BY DEF metaTimestamp
<1>2. dev'.seen.ver = ts.ver /\ dev'.seen.of = ts.of
  BY <1>1 DEF LifeInv, Shapes
<1>3. CASE dev.update # None
  <2>1. dev.update \in rows /\ ts = dir[dev.update].timestamp
    BY <1>3 DEF VersionInv, OneUpload, GetTufMeta
  <2> QED
    BY <1>2, <2>1
<1>4. CASE dev.update = None
  <2>1. "timestamp" \in deflt.files /\ ts = DefaultMeta.timestamp
    BY <1>1, <1>4 DEF GetTufMeta
  <2> QED
    BY <1>2, <2>1, DefaultVersion
<1> QED
  BY <1>3, <1>4

\* Spec keeps SeenInv.
THEOREM SeenInvariant == Spec => []SeenInv
<1>1. Init => SeenInv
  BY DEF Init, SeenInv
<1>2. LifeInv /\ DiskInv /\ VersionInv /\ SeenInv /\ [Next]_vars => SeenInv'
  <2> SUFFICES ASSUME LifeInv, DiskInv, VersionInv, SeenInv, [Next]_vars
               PROVE  SeenInv'
    OBVIOUS
  <2>0. ASSUME dev'.seen = dev.seen, UNCHANGED <<rows, dir, deflt, spoiled>>, reused => reused'
        PROVE  SeenInv'
    BY <2>0, SeenKept
  <2>1. CASE DiskStep
    <3>1. UNCHANGED <<rows, dir, dev, reused>>
      BY <2>1, DiskFrame
    <3>2. spoiled => spoiled'
      BY <2>1 DEF DiskStep, authInit, InitTuf, writeFile, InitStops, RemoveRootKey, ImportTuf, Begin
    <3>3. ~spoiled' /\ deflt.files # {} => deflt'.n = deflt.n /\ deflt'.files # {}
      BY <2>1, DefaultStays
    <3> QED
      BY <3>1, <3>2, <3>3, SeenKept
  <2>2. CASE LoadTuf \/ Crash \/ RefreshTufTimestamps \/ ListFails \/ Tick \/ UNCHANGED vars
    BY <2>0, <2>2 DEF LoadTuf, Crash, RefreshTufTimestamps, ListFails, Tick, vars, disk, store
  <2>3. ASSUME NEW u \in Updates, NEW o \in TargetOptions, generateUpdateTuf(u, o)
        PROVE  SeenInv'
    BY <2>0, <2>3 DEF generateUpdateTuf, disk
  <2>3a. ASSUME NEW u \in Updates, NEW d \in Supplied, sawTuf(u, d)
         PROVE  SeenInv'
    BY <2>0, <2>3a DEF sawTuf, disk
  <2>3b. ASSUME NEW u \in Updates, UploadFails(u) \/ RemoveFails(u)
         PROVE  SeenInv'
    BY <2>0, <2>3b DEF UploadFails, RemoveFails, disk
  <2>3c. ASSUME NEW u \in Updates, RemoveDir(u)
         PROVE  SeenInv'
    <3>1. UNCHANGED reused /\ del[u] > 0
      BY <2>3c DEF RemoveDir
    <3>2. reused
      BY <3>1 DEF VersionInv, OneUpload
    <3> QED
      BY <3>1, <3>2 DEF SeenInv
  <2>4. ASSUME NEW u \in Updates, SaveUpload(u)
        PROVE  SeenInv'
    <3>1. \E d : dir' = [dir EXCEPT ![u] = d]
      BY <2>4 DEF SaveUpload
    <3>2. u \notin rows
      BY <2>4 DEF SaveUpload, LifeInv, OneLife, Busy, NoUpload
    <3>3. rows \subseteq Updates /\ \A w \in rows : dir'[w] = dir[w]
      BY <3>1, <3>2 DEF LifeInv, Shapes
    <3>4. UNCHANGED <<rows, deflt, spoiled, reused, dev>>
      BY <2>4 DEF SaveUpload, disk
    <3> QED
      BY <3>3, <3>4, SeenKept
  <2>5. ASSUME NEW u \in Updates, UpdateInsert(u)
        PROVE  SeenInv'
    <3>1. rows \subseteq rows' /\ UNCHANGED <<dir, deflt, spoiled, reused, dev>>
      BY <2>5 DEF UpdateInsert, disk
    <3> QED
      BY <3>1, SeenKept
  <2>6. ASSUME NEW u \in Updates, DeleteUpdate(u)
        PROVE  SeenInv'
    BY <2>6 DEF DeleteUpdate, SeenInv
  <2>7. ASSUME NEW u \in Updates, ReadTimestamp(u) \/ refreshFails(u)
        PROVE  SeenInv'
    BY <2>0, <2>7 DEF ReadTimestamp, refreshFails, disk, store
  <2>7a. CASE CheckIn
    <3>1. UNCHANGED <<rows, dir, deflt, spoiled, reused>>
      BY <2>7a DEF CheckIn, disk, store
    <3>2. dev'.seen = dev.seen
      BY <2>7a DEF CheckIn, LifeInv, Shapes
    <3> QED
      BY <2>0, <3>1, <3>2
  <2>8. ASSUME NEW u \in Updates, SetUpdateName(u)
        PROVE  SeenInv'
    <3>1. dev' = [dev EXCEPT !.update = u] /\ UNCHANGED <<rows, dir, deflt, spoiled, reused>>
      BY <2>8 DEF SetUpdateName, disk, store
    <3>2. dev'.seen = dev.seen
      BY <3>1 DEF LifeInv, Shapes
    <3> QED
      BY <2>0, <3>1, <3>2
  <2>9. CASE WriteTimestamp
    <3>1. daemon.cur # None /\ daemon.cur \in Updates /\ IsStamp(daemon.held) /\ now \in Nat
      BY <2>9 DEF WriteTimestamp, LifeInv, Shapes, Stamps
    <3>2. PICK u \in Updates : u = daemon.cur
      BY <3>1
    <3> DEFINE ts == Refreshed(daemon.held)
    <3>3. dir' = [dir EXCEPT ![u].timestamp = ts] /\ UNCHANGED <<rows, deflt, spoiled, reused, dev>>
      BY <2>9, <3>2 DEF WriteTimestamp, disk
    <3>4. ts.ver = daemon.held.ver /\ ts.of = daemon.held.of
      BY <3>1, RefreshedStamp
    <3> HIDE DEF ts
    <3>5. /\ dir'[u].timestamp = ts
          /\ \A w \in Updates : w # u => dir'[w] = dir[w]
      <4>1. IsDir(dir[u]) /\ dir = [v \in Updates |-> dir[v]]
        BY DEF LifeInv, Shapes
      <4> DEFINE d == [dir[u] EXCEPT !.timestamp = ts]
      <4>2. d.timestamp = ts
        BY <4>1 DEF IsDir
      <4>3. dir' = [dir EXCEPT ![u] = d]
        BY <3>3
      <4> HIDE DEF d
      <4> QED
        BY <4>1, <4>2, <4>3
    <3>6. ASSUME ~reused', NEW w \in rows
          PROVE  dir'[w].timestamp.ver = dir[w].timestamp.ver /\ dir'[w].timestamp.of = dir[w].timestamp.of
      <4>1. daemon.held = dir[u].timestamp
        BY <3>1, <3>2, <3>3, <3>6 DEF VersionInv, OneUpload
      <4>2. w \in Updates
        BY DEF LifeInv, Shapes
      <4> QED
        BY <3>4, <3>5, <4>1, <4>2
    <3> QED
      BY <3>3, <3>6, SeenKept
  <2>10. CASE metaTimestamp
    <3>1. UNCHANGED <<rows, dir, deflt, reused>>
      BY <2>10 DEF metaTimestamp, disk, store
    <3>2. DefaultMeta' = DefaultMeta
      BY <3>1 DEF DefaultMeta
    <3> QED
      BY <2>10, <3>1, <3>2, SeenGiven DEF SeenInv
  <2> QED
    BY <2>1, <2>2, <2>3, <2>3a, <2>3b, <2>3c, <2>4, <2>5, <2>6, <2>7, <2>7a, <2>8, <2>9, <2>10
    DEF Next, DiskStep
<1> QED
  BY <1>1, <1>2, LifeInvariant, DiskInvariant, VersionInvariant, PTL DEF Spec

\* Two timestamps with one version that a device is given refer to one snapshot,
\* with crashes between any two steps of an upload, unless uploads overlap, an update
\* is deleted, or an upload brings its own metadata.
THEOREM OneContentPerVersion == Spec => SameVersionSameContent
<1> DEFINE Same == dev.seen # NoFile /\ dev'.seen.ver = dev.seen.ver
                     => dev'.seen.of = dev.seen.of \/ reused' \/ spoiled'
<1>1. LifeInv /\ VersionInv /\ SeenInv /\ [Next]_vars => [Same]_vars
  <2> SUFFICES ASSUME LifeInv, VersionInv, SeenInv, Next,
                      dev.seen # NoFile, dev'.seen.ver = dev.seen.ver, ~reused', ~spoiled'
               PROVE  dev'.seen.of = dev.seen.of
    OBVIOUS
  <2>1. CASE metaTimestamp
    <3>1. UNCHANGED <<reused, spoiled>>
      BY <2>1 DEF metaTimestamp, disk, store
    <3>2. \/ deflt.files # {} /\ dev.seen.ver = 1000 /\ dev.seen.of = DefaultMeta.snapshot
          \/ \E u \in rows : dev.seen.ver = dir[u].timestamp.ver /\ dev.seen.of = dir[u].timestamp.of
      BY <3>1 DEF SeenInv
    <3>3. \A u \in rows : /\ dir[u].targets.ver \in Nat /\ dir[u].targets.ver > 1
                          /\ dir[u].timestamp.ver = dir[u].targets.ver * 1000
      BY <3>1 DEF VersionInv, Increasing, Numbered
    <3>4. \A u \in rows : dir[u].timestamp.ver # 1000
      BY <3>3
    <3>5. ASSUME NEW u \in rows, NEW w \in rows, dir[u].timestamp.ver = dir[w].timestamp.ver
          PROVE  u = w
      <4>1. dir[u].targets.ver = dir[w].targets.ver
        BY <3>3, <3>5
      <4> QED
        BY <3>1, <4>1 DEF VersionInv, Increasing
    <3> QED
      BY <2>1, <3>1, <3>2, <3>4, <3>5, SeenGiven
  <2>2. CASE CheckIn \/ \E u \in Updates : SetUpdateName(u)
    BY <2>2 DEF CheckIn, SetUpdateName, LifeInv, Shapes
  <2>3. CASE DiskStep
    BY <2>3, DiskFrame
  <2>4. CASE LoadTuf \/ Crash \/ RefreshTufTimestamps \/ ListFails \/ WriteTimestamp \/ Tick
    BY <2>4 DEF LoadTuf, Crash, RefreshTufTimestamps, ListFails, WriteTimestamp, Tick
  <2>5. ASSUME NEW u \in Updates, NEW o \in TargetOptions, generateUpdateTuf(u, o)
        PROVE  dev'.seen.of = dev.seen.of
    BY <2>5 DEF generateUpdateTuf
  <2>6. ASSUME NEW u \in Updates,
               \/ SaveUpload(u) \/ UpdateInsert(u) \/ UploadFails(u)
               \/ DeleteUpdate(u) \/ RemoveDir(u) \/ RemoveFails(u)
               \/ ReadTimestamp(u) \/ refreshFails(u)
               \/ \E d \in Supplied : sawTuf(u, d)
        PROVE  dev'.seen.of = dev.seen.of
    BY <2>6
    DEF SaveUpload, UpdateInsert, UploadFails, DeleteUpdate, RemoveDir, RemoveFails, ReadTimestamp,
        refreshFails, sawTuf
  <2> QED
    BY <2>1, <2>2, <2>3, <2>4, <2>5, <2>6 DEF Next, DiskStep
<1> QED
  BY <1>1, LifeInvariant, VersionInvariant, SeenInvariant, PTL DEF Spec, SameVersionSameContent

-----------------------------------------------------------------------------
(* Reading an image: loops *)

\* Every non-empty set of numbers has a least one: the form of induction that the
\* proofs about an image's encoding use.
LEMMA LeastNumber ==
  ASSUME NEW T, T \subseteq Nat, T # {}
  PROVE  \E n \in T : \A m \in T : n =< m
<1>1. PICK x \in T : \A y \in T : ~(<<y, x>> \in OpToRel(<, Nat))
  BY NatLessThanWellFounded, WFMin
<1>2. \A y \in T : ~(y < x)
  BY <1>1, x \in Nat, \A y \in T : y \in Nat DEF OpToRel
<1> QED
  BY <1>2

\* The last of some positions.
LEMMA MaxIs ==
  ASSUME NEW l \in Nat, NEW s \in SUBSET (1 .. l), s # {}
  PROVE  Max(s) \in s /\ \A y \in s : y =< Max(s)
<1> DEFINE T == {m \in Nat : \A y \in s : y =< m}
<1>1. T \subseteq Nat /\ l \in T
  OBVIOUS
<1>2. PICK m \in T : \A k \in T : m =< k
  <2> HIDE DEF T
  <2> QED
    BY <1>1, LeastNumber
<1>3. m \in s
  <2>1. SUFFICES ASSUME m \notin s PROVE FALSE
    OBVIOUS
  <2>2. PICK y \in s : TRUE
    OBVIOUS
  <2>3. m \in Nat /\ (\A z \in s : z \in Nat /\ z =< m /\ z # m) /\ m # 0
    BY <2>1, <2>2, <1>2
  <2>4. m - 1 \in T
    BY <2>3
  <2> HIDE DEF T
  <2> QED
    BY <2>3, <2>4, <1>2
<1>4. \E x \in s : \A y \in s : x >= y
  BY <1>2, <1>3
<1>5. Max(s) \in s /\ \A y \in s : Max(s) >= y
  BY <1>4 DEF Max
<1> QED
  BY <1>5

\* The first of some positions.
LEMMA MinIs ==
  ASSUME NEW l \in Nat, NEW s \in SUBSET (1 .. l), s # {}
  PROVE  Min(s) \in s /\ \A y \in s : Min(s) =< y
<1>1. s \subseteq Nat
  OBVIOUS
<1>2. \E x \in s : \A y \in s : x =< y
  BY <1>1, LeastNumber
<1> QED
  BY <1>2 DEF Min

\* Positions are finitely many.
LEMMA PositionsFinite ==
  ASSUME NEW l \in Nat, NEW s \in SUBSET (1 .. l)
  PROVE  IsFiniteSet(s) /\ Cardinality(s) \in Nat /\ Cardinality(s) =< l
<1>1. IsFiniteSet(1 .. l) /\ Cardinality(1 .. l) = l
  BY 1 \in Int, l \in Int, FS_Interval
<1>2. IsFiniteSet(s) /\ Cardinality(s) =< l
  BY <1>1, FS_Subset
<1> QED
  BY <1>2, FS_CardinalityType

-----------------------------------------------------------------------------
(* Loops *)

\* What the loops do with an element: over the bytes of an offset, over the nodes of an
\* image, and over the directories of a path.
Turn(loop, env, acc, x) ==
  CASE loop = "bytes" -> x + 256 * acc
    [] loop = "nodes" ->
         IF /\ env.tree[x].dir = env.isDir /\ env.tree[x].path # <<>>
            /\ Front(env.tree[x].path) = env.tree[env.d].path
         THEN Append(acc, x) ELSE acc
    [] loop = "parts" -> Subdir(env, acc, x)

\* The bytes are taken from the last on.
Next1(loop, s) == IF loop = "bytes" THEN Min(s) ELSE Max(s)

TurnOf(it, loop, env, base, seq, s) ==
  IF s = {} THEN base ELSE Turn(loop, env, it[s \ {Next1(loop, s)}], seq[Next1(loop, s)])

\* it is what the loop has after the positions of each set of a family.
IsTurns(it, loop, env, base, seq, F) == it = [s \in F |-> TurnOf(it, loop, env, base, seq, s)]

\* The sets of at most n positions of a sequence of length l.
Few(l, n) == {s \in SUBSET (1 .. l) : Cardinality(s) =< n}

\* A loop over a sequence is defined.
LEMMA TurnsExist ==
  ASSUME NEW loop, NEW env, NEW base, NEW seq, NEW l \in Nat, NEW n \in Nat
  PROVE  \E it : IsTurns(it, loop, env, base, seq, Few(l, n))
<1> DEFINE T == {m \in Nat : ~\E it : IsTurns(it, loop, env, base, seq, Few(l, m))}
<1>1. SUFFICES ASSUME T # {} PROVE FALSE
  OBVIOUS
<1>2. PICK m \in T : \A k \in T : m =< k
  <2>1. T \subseteq Nat /\ T # {}
    BY <1>1
  <2> HIDE DEF T
  <2> QED
    BY <2>1, LeastNumber
<1>3. \A s \in SUBSET (1 .. l) : IsFiniteSet(s) /\ Cardinality(s) \in Nat
  BY PositionsFinite
<1>4. m # 0
  <2>1. \A s \in Few(l, 0) : s = {}
    BY <1>3, FS_EmptySet DEF Few
  <2>2. IsTurns([s \in Few(l, 0) |-> base], loop, env, base, seq, Few(l, 0))
    BY <2>1 DEF IsTurns, TurnOf
  <2> QED
    BY <2>2
<1>5. PICK p \in Nat : m = p + 1 /\ p \notin T
  <2>1. m - 1 \in Nat /\ m = (m - 1) + 1 /\ m - 1 \notin T
    BY <1>2, <1>4
  <2> HIDE DEF T
  <2> QED
    BY <2>1
<1>6. PICK it : IsTurns(it, loop, env, base, seq, Few(l, p))
  BY <1>5
<1> DEFINE A == Few(l, p)  B == Few(l, p + 1)
           g == [s \in B |-> TurnOf(it, loop, env, base, seq, s)]
<1>7. \A s \in B : s # {} => s \ {Next1(loop, s)} \in A
  <2> SUFFICES ASSUME NEW s \in B, s # {} PROVE s \ {Next1(loop, s)} \in A
    OBVIOUS
  <2>1. s \in SUBSET (1 .. l) /\ Cardinality(s) =< p + 1 /\ IsFiniteSet(s) /\ Cardinality(s) \in Nat
    BY <1>3 DEF Few
  <2>2. Next1(loop, s) \in s
    BY <2>1, MaxIs, MinIs DEF Next1
  <2>3. Cardinality(s \ {Next1(loop, s)}) = Cardinality(s) - 1
    BY <2>1, <2>2, FS_RemoveElement
  <2>4. Cardinality(s \ {Next1(loop, s)}) =< p
    BY <2>1, <2>3
  <2> QED
    BY <2>1, <2>4 DEF Few
<1>8. \A s \in A : s \in B
  BY <1>3 DEF Few
<1>9. \A s \in A : it[s] = TurnOf(it, loop, env, base, seq, s)
  BY <1>6 DEF IsTurns
<1> HIDE DEF A, B
<1>10. \A s \in A : g[s] = it[s]
  BY <1>8, <1>9
<1>11. \A s \in B : TurnOf(it, loop, env, base, seq, s) = TurnOf(g, loop, env, base, seq, s)
  BY <1>7, <1>10 DEF TurnOf
<1>12. g = [s \in B |-> TurnOf(g, loop, env, base, seq, s)]
  <2>1. \A s \in B : g[s] = TurnOf(g, loop, env, base, seq, s)
    BY <1>11
  <2>2. g = [s \in B |-> g[s]]
    OBVIOUS
  <2> HIDE DEF g
  <2> QED
    BY <2>1, <2>2
<1> QED
  BY <1>2, <1>5, <1>12 DEF IsTurns, B

\* A loop over a whole sequence is defined.
LEMMA LoopExists ==
  ASSUME NEW loop, NEW env, NEW base, NEW seq, NEW l \in Nat
  PROVE  \E it : IsTurns(it, loop, env, base, seq, SUBSET (1 .. l))
<1>1. Few(l, l) = SUBSET (1 .. l)
  BY PositionsFinite DEF Few
<1>2. \E f : IsTurns(f, loop, env, base, seq, Few(l, l))
  BY TurnsExist
<1> QED
  BY <1>1, <1>2

Runs(it, loop, env, base, seq, l) ==
  /\ it[1 .. 0] = base
  /\ \A k \in 1 .. l : it[1 .. k] = Turn(loop, env, it[1 .. (k - 1)], seq[k])

\* A loop from the first position on: what it has after each follows from what it had.
LEMMA LoopTurns ==
  ASSUME NEW loop, loop # "bytes", NEW env, NEW base, NEW seq, NEW l \in Nat,
         NEW it, IsTurns(it, loop, env, base, seq, SUBSET (1 .. l))
  PROVE  Runs(it, loop, env, base, seq, l)
<1>1. \A s \in SUBSET (1 .. l) : it[s] = TurnOf(it, loop, env, base, seq, s)
  BY DEF IsTurns
<1>2. it[{}] = base
  BY <1>1 DEF TurnOf
<1>3. 1 .. 0 = {}
  OBVIOUS
<1>4. ASSUME NEW k \in 1 .. l PROVE it[1 .. k] = Turn(loop, env, it[1 .. (k - 1)], seq[k])
  <2>1. 1 .. k \in SUBSET (1 .. l) /\ 1 .. k # {} /\ k \in 1 .. k
    OBVIOUS
  <2>2. Max(1 .. k) \in 1 .. k /\ \A y \in 1 .. k : y =< Max(1 .. k)
    BY <2>1, MaxIs
  <2>3. Next1(loop, 1 .. k) = k
    BY <2>1, <2>2 DEF Next1
  <2>4. (1 .. k) \ {k} = 1 .. (k - 1)
    OBVIOUS
  <2> QED
    BY <1>1, <2>1, <2>3, <2>4 DEF TurnOf
<1> QED
  BY <1>2, <1>3, <1>4 DEF Runs

\* What l bytes stand for.
ReadAs(x, b, l) ==
  /\ l = 1 => x = b[1] + 256 * 0
  /\ l = 2 => x = b[1] + 256 * (b[2] + 256 * 0)
  /\ l = 4 => x = b[1] + 256 * (b[2] + 256 * (b[3] + 256 * (b[4] + 256 * 0)))

\* What the bytes at a position of some data stand for.
LEMMA ReadBytes ==
  ASSUME NEW data, NEW pos, NEW size, NEW b, Slice(data, pos, pos + size) = b,
         NEW l \in Nat, DOMAIN b = 1 .. l
  PROVE  ReadAs(readLE(data, pos, size), b, l)
<1> DEFINE c == Slice(data, pos, pos + size)
           it == CHOOSE f : f = [s \in SUBSET (DOMAIN c) |->
                                   IF s = {} THEN 0 ELSE c[Min(s)] + 256 * f[s \ {Min(s)}]]
<1>1. readLE(data, pos, size) = it[1 .. l]
  <2>1. readLE(data, pos, size) = it[DOMAIN c]
    BY DEF readLE, FoldRight, MapThenFoldSet
  <2> QED
    BY <2>1
<1>2. it = [s \in SUBSET (1 .. l) |-> IF s = {} THEN 0 ELSE b[Min(s)] + 256 * it[s \ {Min(s)}]]
  <2>1. PICK f : IsTurns(f, "bytes", 0, 0, b, SUBSET (1 .. l))
    BY LoopExists
  <2>3. \A s : TurnOf(f, "bytes", 0, 0, b, s) = IF s = {} THEN 0 ELSE b[Min(s)] + 256 * f[s \ {Min(s)}]
    BY DEF TurnOf, Turn, Next1
  <2>4. f = [s \in SUBSET (1 .. l) |-> IF s = {} THEN 0 ELSE b[Min(s)] + 256 * f[s \ {Min(s)}]]
    BY <2>1, <2>3 DEF IsTurns
  <2>5. f = [s \in SUBSET (DOMAIN c) |-> IF s = {} THEN 0 ELSE c[Min(s)] + 256 * f[s \ {Min(s)}]]
    BY <2>4
  <2>6. it = [s \in SUBSET (DOMAIN c) |-> IF s = {} THEN 0 ELSE c[Min(s)] + 256 * it[s \ {Min(s)}]]
    <3> HIDE DEF c
    <3> QED
      BY <2>5
  <2> HIDE DEF it
  <2> QED
    BY <2>6
<1> HIDE DEF it
<1>21. it[{}] = 0 /\ \A k \in 1 .. l : it[k .. l] = b[k] + 256 * it[(k + 1) .. l]
  <2>0. \A s \in SUBSET (1 .. l) : it[s] = IF s = {} THEN 0 ELSE b[Min(s)] + 256 * it[s \ {Min(s)}]
    BY <1>2
  <2>1. it[{}] = 0
    BY <2>0
  <2>2. ASSUME NEW k \in 1 .. l PROVE it[k .. l] = b[k] + 256 * it[(k + 1) .. l]
    <3>1. k .. l \in SUBSET (1 .. l) /\ k .. l # {} /\ k \in k .. l
      OBVIOUS
    <3>2. Min(k .. l) \in k .. l /\ \A y \in k .. l : Min(k .. l) =< y
      BY <3>1, MinIs
    <3>3. Min(k .. l) = k
      BY <3>1, <3>2
    <3>4. (k .. l) \ {k} = (k + 1) .. l
      OBVIOUS
    <3> DEFINE S == k .. l  R == (k + 1) .. l
    <3>5. S \in SUBSET (1 .. l) /\ S # {} /\ Min(S) = k /\ S \ {k} = R
      BY <3>1, <3>3, <3>4
    <3> HIDE DEF S, R
    <3>6. it[S] = b[k] + 256 * it[R]
      BY <2>0, <3>5
    <3> QED
      BY <3>6 DEF S, R
  <2> QED
    BY <2>1, <2>2
<1>3. it[(l + 1) .. l] = 0
  <2>1. (l + 1) .. l = {}
    OBVIOUS
  <2> QED
    BY <1>21, <2>1
<1>4. CASE l = 1
  <2>1. it[1 .. 1] = b[1] + 256 * it[2 .. 1]
    BY <1>21, <1>4
  <2> QED
    BY <1>1, <1>3, <1>4, <2>1 DEF ReadAs
<1>5. CASE l = 2
  <2>1. it[1 .. 2] = b[1] + 256 * it[2 .. 2] /\ it[2 .. 2] = b[2] + 256 * it[3 .. 2]
    BY <1>21, <1>5
  <2> QED
    BY <1>1, <1>3, <1>5, <2>1 DEF ReadAs
<1>6. CASE l = 4
  <2>1. /\ it[1 .. 4] = b[1] + 256 * it[2 .. 4] /\ it[2 .. 4] = b[2] + 256 * it[3 .. 4]
        /\ it[3 .. 4] = b[3] + 256 * it[4 .. 4] /\ it[4 .. 4] = b[4] + 256 * it[5 .. 4]
    BY <1>21, <1>6
  <2> QED
    BY <1>1, <1>3, <1>6, <2>1 DEF ReadAs
<1> QED
  BY <1>4, <1>5, <1>6 DEF ReadAs

\* A node of the tree that is in a directory.
InDir(tree, d, isDir, i) ==
  /\ tree[i].dir = isDir /\ tree[i].path # <<>>
  /\ Front(tree[i].path) = tree[d].path

\* The loop over the nodes of an image.
LEMMA NodesLoop ==
  ASSUME NEW tree, NEW l \in Nat, Len(tree) = l, NEW d, NEW isDir
  PROVE  \E it : /\ Inside(tree, d, isDir) = it[1 .. l]
                 /\ it[1 .. 0] = <<>>
                 /\ \A k \in 1 .. l :
                      it[1 .. k] = IF InDir(tree, d, isDir, k) THEN Append(it[1 .. (k - 1)], k)
                                   ELSE it[1 .. (k - 1)]
<1> DEFINE env == [tree |-> tree, d |-> d, isDir |-> isDir]
           seq == [i \in 1 .. Len(tree) |-> i]
           it == CHOOSE f : f = [s \in SUBSET (DOMAIN seq) |->
                                   IF s = {} THEN <<>>
                                   ELSE IF /\ tree[seq[Max(s)]].dir = isDir /\ tree[seq[Max(s)]].path # <<>>
                                           /\ Front(tree[seq[Max(s)]].path) = tree[d].path
                                        THEN Append(f[s \ {Max(s)}], seq[Max(s)]) ELSE f[s \ {Max(s)}]]
<1>1. Inside(tree, d, isDir) = it[DOMAIN seq]
  BY DEF Inside, FoldLeft, MapThenFoldSet
<1>2. DOMAIN seq = 1 .. l /\ \A i \in 1 .. l : seq[i] = i
  OBVIOUS
<1>3. \A f, s : TurnOf(f, "nodes", env, <<>>, seq, s)
               = IF s = {} THEN <<>>
                 ELSE IF /\ tree[seq[Max(s)]].dir = isDir /\ tree[seq[Max(s)]].path # <<>>
                         /\ Front(tree[seq[Max(s)]].path) = tree[d].path
                      THEN Append(f[s \ {Max(s)}], seq[Max(s)]) ELSE f[s \ {Max(s)}]
  <2> HIDE DEF seq
  <2> QED
    BY DEF TurnOf, Turn, Next1
<1>4. it = [s \in SUBSET (DOMAIN seq) |->
              IF s = {} THEN <<>>
              ELSE IF /\ tree[seq[Max(s)]].dir = isDir /\ tree[seq[Max(s)]].path # <<>>
                      /\ Front(tree[seq[Max(s)]].path) = tree[d].path
                   THEN Append(it[s \ {Max(s)}], seq[Max(s)]) ELSE it[s \ {Max(s)}]]
  <2>1. PICK f : IsTurns(f, "nodes", env, <<>>, seq, SUBSET (1 .. l))
    BY LoopExists
  <2> HIDE DEF seq, env
  <2>2. f = [s \in SUBSET (DOMAIN seq) |->
               IF s = {} THEN <<>>
               ELSE IF /\ tree[seq[Max(s)]].dir = isDir /\ tree[seq[Max(s)]].path # <<>>
                       /\ Front(tree[seq[Max(s)]].path) = tree[d].path
                    THEN Append(f[s \ {Max(s)}], seq[Max(s)]) ELSE f[s \ {Max(s)}]]
    BY <1>2, <1>3, <2>1 DEF IsTurns
  <2> QED
    BY <2>2
<1> HIDE DEF it, seq, env
<1>5. IsTurns(it, "nodes", env, <<>>, seq, SUBSET (1 .. l))
  <2>1. DOMAIN it = SUBSET (1 .. l) /\ it = [s \in SUBSET (1 .. l) |-> it[s]]
    BY <1>2, <1>4
  <2>2. \A s \in SUBSET (DOMAIN seq) :
           it[s] = IF s = {} THEN <<>>
                   ELSE IF /\ tree[seq[Max(s)]].dir = isDir /\ tree[seq[Max(s)]].path # <<>>
                           /\ Front(tree[seq[Max(s)]].path) = tree[d].path
                        THEN Append(it[s \ {Max(s)}], seq[Max(s)]) ELSE it[s \ {Max(s)}]
    BY <1>4, Zenon
  <2>3. \A s \in SUBSET (DOMAIN seq) : it[s] = TurnOf(it, "nodes", env, <<>>, seq, s)
    BY <1>3, <2>2, Zenon
  <2>4. \A s \in SUBSET (1 .. l) : it[s] = TurnOf(it, "nodes", env, <<>>, seq, s)
    BY <1>2, <2>3
  <2> QED
    BY <2>1, <2>4 DEF IsTurns
<1>6. /\ it[1 .. 0] = <<>>
      /\ \A k \in 1 .. l : it[1 .. k] = Turn("nodes", env, it[1 .. (k - 1)], seq[k])
  <2>1. Runs(it, "nodes", env, <<>>, seq, l)
    BY <1>5, LoopTurns
  <2> QED
    BY <2>1 DEF Runs
<1>7. \A k \in 1 .. l : it[1 .. k] = IF InDir(tree, d, isDir, k) THEN Append(it[1 .. (k - 1)], k)
                                   ELSE it[1 .. (k - 1)]
  BY <1>2, <1>6 DEF Turn, InDir, env
<1> QED
  BY <1>1, <1>2, <1>6, <1>7

\* The loop over the directories of a path.
Along(repo, root, path) == FoldLeft(LAMBDA d, part : Subdir(repo, d, part), root, path)

Walks(it, repo, root, path, l) ==
  /\ Along(repo, root, path) = it[1 .. l]
  /\ it[1 .. 0] = root
  /\ \A k \in 1 .. l : it[1 .. k] = Subdir(repo, it[1 .. (k - 1)], path[k])

\* Every turn of it goes down one directory.
LEMMA PartsLoop ==
  ASSUME NEW repo, NEW root, NEW path, NEW l \in Nat, DOMAIN path = 1 .. l
  PROVE  \E it : Walks(it, repo, root, path, l)
<1> DEFINE it == CHOOSE f : f = [s \in SUBSET (DOMAIN path) |->
                                   IF s = {} THEN root ELSE Subdir(repo, f[s \ {Max(s)}], path[Max(s)])]
<1>1. Along(repo, root, path) = it[1 .. l]
  <2>1. Along(repo, root, path) = it[DOMAIN path]
    BY DEF Along, FoldLeft, MapThenFoldSet
  <2> QED
    BY <2>1
<1>3. \A f, s : TurnOf(f, "parts", repo, root, path, s)
               = IF s = {} THEN root ELSE Subdir(repo, f[s \ {Max(s)}], path[Max(s)])
  BY DEF TurnOf, Turn, Next1
<1>4. it = [s \in SUBSET (DOMAIN path) |->
              IF s = {} THEN root ELSE Subdir(repo, it[s \ {Max(s)}], path[Max(s)])]
  <2>1. PICK f : IsTurns(f, "parts", repo, root, path, SUBSET (1 .. l))
    BY LoopExists
  <2>2. f = [s \in SUBSET (DOMAIN path) |->
              IF s = {} THEN root ELSE Subdir(repo, f[s \ {Max(s)}], path[Max(s)])]
    BY <1>3, <2>1 DEF IsTurns
  <2> QED
    BY <2>2
<1> HIDE DEF it
<1>5. IsTurns(it, "parts", repo, root, path, SUBSET (1 .. l))
  BY <1>3, <1>4 DEF IsTurns
<1>6. /\ it[1 .. 0] = root
      /\ \A k \in 1 .. l : it[1 .. k] = Turn("parts", repo, it[1 .. (k - 1)], path[k])
  <2>1. Runs(it, "parts", repo, root, path, l)
    BY <1>5, LoopTurns
  <2> QED
    BY <2>1 DEF Runs
<1> QED
  BY <1>1, <1>6 DEF Turn, Walks

-----------------------------------------------------------------------------
(* Reading an image: bytes put together *)

Bytes == 0 .. 255

\* f has what the first sequences of s are together.
Joined(s, f) ==
  /\ DOMAIN f = 0 .. Len(s) /\ f[0] = <<>>
  /\ \A i \in 1 .. Len(s) : f[i] = f[i - 1] \o s[i]

\* There is such an f.
LEMMA JoinedExists ==
  ASSUME NEW l \in Nat, NEW s, Len(s) = l
  PROVE  \E f : Joined(s, f)
<1> DEFINE Upto(n, f) == DOMAIN f = 0 .. n /\ f[0] = <<>> /\ \A i \in 1 .. n : f[i] = f[i - 1] \o s[i]
           T == {n \in Nat : ~\E f : Upto(n, f)}
<1>1. SUFFICES ASSUME T # {} PROVE FALSE
  <2>1. \E f : Upto(l, f)
    BY <1>1
  <2> QED
    BY <2>1 DEF Joined
<1>2. PICK m \in T : \A k \in T : m =< k
  <2>1. T \subseteq Nat /\ T # {}
    BY <1>1
  <2> HIDE DEF T
  <2> QED
    BY <2>1, LeastNumber
<1>3. m # 0
  <2>1. Upto(0, [i \in 0 .. 0 |-> <<>>])
    OBVIOUS
  <2> QED
    BY <2>1
<1>4. m \in Nat /\ m - 1 \in Nat /\ m - 1 \notin T
  <2>1. m \in Nat /\ ~(m =< m - 1)
    BY <1>2
  <2> HIDE DEF T
  <2> QED
    BY <1>2, <1>3, <2>1
<1>5. PICK f : Upto(m - 1, f)
  BY <1>4
<1> DEFINE g == [i \in 0 .. m |-> IF i = m THEN f[m - 1] \o s[m] ELSE f[i]]
<1>6. \A i \in 0 .. m : g[i] = IF i = m THEN f[m - 1] \o s[m] ELSE f[i]
  OBVIOUS
<1>7. DOMAIN g = 0 .. m
  OBVIOUS
<1> HIDE DEF g
<1>8. Upto(m, g)
  <2>1. g[0] = <<>>
    BY <1>4, <1>3, <1>5, <1>6
  <2>2. ASSUME NEW i \in 1 .. m PROVE g[i] = g[i - 1] \o s[i]
    <3>1. g[i - 1] = f[i - 1]
      BY <1>4, <1>6
    <3>2. CASE i = m
      <4>0. m \in 0 .. m
        BY <1>4
      <4>1. g[m] = f[m - 1] \o s[m]
        BY <4>0, <1>6, Zenon
      <4> QED
        BY <4>1, <3>1, <3>2
    <3>3. CASE i # m
      <4>1. i \in 1 .. (m - 1)
        BY <1>4, <3>3
      <4>2. f[i] = f[i - 1] \o s[i]
        BY <1>5, <4>1
      <4> QED
        <5>1. g[i] = f[i]
          BY <1>4, <1>6, <3>3
        <5> QED
          BY <5>1, <3>1, <4>2
    <3> QED
      BY <3>2, <3>3
  <2> QED
    BY <1>7, <2>1, <2>2
<1> QED
  BY <1>2, <1>8

\* FlattenSeq is the last of them.
LEMMA FlattenIs ==
  ASSUME NEW l \in Nat, NEW s, Len(s) = l, l = 0 => s = <<>>, NEW f, Joined(s, f),
         l # 0 => s[1] \in Seq(Bytes)
  PROVE  FlattenSeq(s) = f[l]
<1>0. CASE l = 0
  BY <1>0 DEF FlattenSeq, Joined
<1>1. CASE l # 0
  <2> DEFINE it == CHOOSE h : h = [i \in 1 .. Len(s) |-> IF i = 1 THEN s[i] ELSE h[i - 1] \o s[i]]
             g == [i \in 1 .. Len(s) |-> f[i]]
  <2>1. FlattenSeq(s) = it[l]
    BY <1>1 DEF FlattenSeq
  <2>2. \A i \in 1 .. l : f[i] = IF i = 1 THEN s[i] ELSE f[i - 1] \o s[i]
    <3>1. f[1] = f[0] \o s[1] /\ f[0] = <<>>
      <4>1. 1 \in 1 .. Len(s) /\ 1 - 1 = 0
        BY <1>1
      <4>2. f[1] = f[1 - 1] \o s[1] /\ f[0] = <<>>
        BY <4>1, Zenon DEF Joined
      <4> QED
        BY <4>1, <4>2, Zenon
    <3>2. f[1] = s[1]
      BY <1>1, <3>1
    <3> QED
      BY <3>2 DEF Joined
  <2>3. \A i \in 1 .. l : g[i] = f[i]
    OBVIOUS
  <2>31. \A i \in 1 .. l : g[i] = IF i = 1 THEN s[i] ELSE g[i - 1] \o s[i]
    <3> HIDE DEF g
    <3> SUFFICES ASSUME NEW i \in 1 .. l PROVE g[i] = IF i = 1 THEN s[i] ELSE g[i - 1] \o s[i]
      OBVIOUS
    <3>1. CASE i = 1
      BY <2>2, <2>3, <3>1
    <3>2. CASE i # 1
      <4>1. i - 1 \in 1 .. l
        BY <3>2
      <4>2. g[i - 1] = f[i - 1] /\ g[i] = f[i]
        BY <2>3, <4>1
      <4> QED
        BY <2>2, <3>2, <4>2
    <3> QED
      BY <3>1, <3>2
  <2>4. g = [i \in 1 .. Len(s) |-> IF i = 1 THEN s[i] ELSE g[i - 1] \o s[i]]
    <3>1. g = [i \in 1 .. l |-> g[i]]
      OBVIOUS
    <3> HIDE DEF g
    <3> QED
      BY <2>31, <3>1
  <2>5. it = [i \in 1 .. Len(s) |-> IF i = 1 THEN s[i] ELSE it[i - 1] \o s[i]]
    <3> HIDE DEF g
    <3> QED
      BY <2>4
  <2> HIDE DEF it, g
  <2>6. \A i \in 1 .. l : it[i] = IF i = 1 THEN s[i] ELSE it[i - 1] \o s[i]
    BY <2>5
  <2> DEFINE Bad == {i \in 1 .. l : it[i] # f[i]}
  <2>7. SUFFICES ASSUME Bad # {} PROVE FALSE
    BY <1>1, <2>1
  <2>8. PICK i \in Bad : \A j \in Bad : i =< j
    <3>1. Bad \subseteq Nat
      OBVIOUS
    <3> HIDE DEF Bad
    <3> QED
      BY <3>1, <2>7, LeastNumber
  <2>9. i # 1
    BY <2>2, <2>6, <2>8
  <2>10. i - 1 \in 1 .. l /\ i - 1 \notin Bad
    BY <2>8, <2>9
  <2> QED
    BY <2>2, <2>6, <2>8, <2>9, <2>10
<1> QED
  BY <1>0, <1>1

\* The i-th sequence is where the ends before and after it say.
Placed(s, f) ==
  /\ DOMAIN f = 0 .. Len(s) /\ f[0] = <<>>
  /\ \A i \in 0 .. Len(s) : f[i] \in Seq(Bytes)
  /\ \A i \in 1 .. Len(s) : Len(f[i]) = Len(f[i - 1]) + Len(s[i])
  /\ \A m \in 0 .. Len(s) : \A i \in 1 .. m :
       /\ Len(f[i - 1]) =< Len(f[i]) /\ Len(f[i]) =< Len(f[m])
       /\ SubSeq(f[m], Len(f[i - 1]) + 1, Len(f[i])) = s[i]

\* A slice within the first of two.
LEMMA SliceLeft ==
  ASSUME NEW a \in Seq(Bytes), NEW b \in Seq(Bytes), NEW i \in Nat, NEW j \in Nat, j =< Len(a)
  PROVE  SubSeq(a \o b, i + 1, j) = SubSeq(a, i + 1, j)
  OBVIOUS

\* The second of two is the slice after the first.
LEMMA SliceRight ==
  ASSUME NEW a \in Seq(Bytes), NEW b \in Seq(Bytes)
  PROVE  SubSeq(a \o b, Len(a) + 1, Len(a) + Len(b)) = b
  OBVIOUS

\* What FlattenSeq joins stays in its place.
LEMMA JoinedPlaced ==
  ASSUME NEW l \in Nat, NEW s \in Seq(Seq(Bytes)), Len(s) = l, NEW f, Joined(s, f)
  PROVE  Placed(s, f)
<1>0. DOMAIN f = 0 .. l /\ f[0] = <<>> /\ \A i \in 1 .. l : s[i] \in Seq(Bytes)
  BY DEF Joined
<1>01. \A i \in 1 .. l : f[i] = f[i - 1] \o s[i]
  BY Zenon DEF Joined
<1> DEFINE At(m, i) ==
             /\ Len(f[i - 1]) =< Len(f[i]) /\ Len(f[i]) =< Len(f[m])
             /\ SubSeq(f[m], Len(f[i - 1]) + 1, Len(f[i])) = s[i]
           Good(m) == f[m] \in Seq(Bytes) /\ \A i \in 1 .. m : At(m, i)
           Bad == {m \in 0 .. l : ~Good(m)}
<1>1. SUFFICES ASSUME Bad # {} PROVE FALSE
  <2>1. \A m \in 0 .. l : Good(m)
    BY <1>1
  <2>2. \A i \in 0 .. l : f[i] \in Seq(Bytes)
    BY <2>1
  <2>3. ASSUME NEW i \in 1 .. l PROVE Len(f[i]) = Len(f[i - 1]) + Len(s[i])
    <3>1. f[i - 1] \in Seq(Bytes) /\ s[i] \in Seq(Bytes)
      BY <1>0, <2>2
    <3>2. f[i] = f[i - 1] \o s[i]
      BY <1>01
    <3> QED
      BY <3>1, <3>2
  <2>4. \A m \in 0 .. l : \A i \in 1 .. m : At(m, i)
    BY <2>1
  <2> QED
    BY <1>0, <2>2, <2>3, <2>4 DEF Placed
<1>2. PICK m \in Bad : \A k \in Bad : m =< k
  <2>1. Bad \subseteq Nat
    <3> HIDE DEF Good
    <3> QED
      OBVIOUS
  <2> HIDE DEF Bad
  <2> QED
    BY <2>1, <1>1, LeastNumber
<1>3. m # 0
  BY <1>0, <1>2
<1>4. m \in 1 .. l /\ m - 1 \in 0 .. l /\ Good(m - 1)
  <2>1. m \in 1 .. l /\ m - 1 \in 0 .. l /\ ~(m =< m - 1)
    BY <1>2, <1>3
  <2> HIDE DEF Good
  <2> QED
    BY <1>2, <2>1
<1> DEFINE a == f[m - 1]  b == s[m]
<1>5. f[m] = a \o b
  BY <1>01, <1>4
<1>6. a \in Seq(Bytes) /\ b \in Seq(Bytes)
  BY <1>0, <1>4
<1>7. f[m] \in Seq(Bytes) /\ Len(f[m]) = Len(a) + Len(b)
  <2> HIDE DEF a, b
  <2> QED
    BY <1>5, <1>6
<1>8. ASSUME NEW i \in 1 .. m PROVE At(m, i)
  <2>1. CASE i = m
    <3>1. SubSeq(f[m], Len(a) + 1, Len(a) + Len(b)) = b
      <4> HIDE DEF a, b
      <4> QED
        BY <1>5, <1>6, SliceRight
    <3>2. Len(a) \in Nat /\ Len(b) \in Nat
      BY <1>6, LenProperties
    <3>3. At(m, m)
      <4>1. Len(a) =< Len(f[m]) /\ Len(f[m]) =< Len(f[m])
        <5> HIDE DEF a, b
        <5> QED
          BY <1>7, <3>2
      <4>2. SubSeq(f[m], Len(a) + 1, Len(f[m])) = b
        <5> HIDE DEF a, b
        <5> QED
          BY <1>7, <3>1
      <4> QED
        BY <4>1, <4>2, Zenon
    <3> QED
      BY <2>1, <3>3, Zenon
  <2>2. CASE i # m
    <3>1. i \in 1 .. (m - 1)
      BY <1>4, <2>2
    <3>2. At(m - 1, i)
      BY <1>4, <3>1
    <3>3. i - 1 \in 0 .. l /\ i - 1 < m /\ i \in 0 .. l /\ i < m
      BY <1>4, <3>1
    <3>4. f[i - 1] \in Seq(Bytes) /\ f[i] \in Seq(Bytes)
      <4>1. i - 1 \notin Bad /\ i \notin Bad
        <5> HIDE DEF Bad
        <5> QED
          BY <1>2, <1>4, <3>3
      <4> QED
        BY <4>1, <3>3
    <3> DEFINE p == Len(f[i - 1])  q == Len(f[i])
    <3>5. p \in Nat /\ q \in Nat /\ q =< Len(a) /\ p =< q /\ SubSeq(a, p + 1, q) = s[i]
      BY <3>2, <3>4, LenProperties
    <3>6. SubSeq(f[m], p + 1, q) = s[i] /\ q =< Len(f[m])
      <4>1. Len(a) \in Nat /\ Len(b) \in Nat
        BY <1>6, LenProperties
      <4> HIDE DEF p, q, a, b
      <4> QED
        BY <1>5, <1>6, <1>7, <3>5, <4>1, SliceLeft
    <3> QED
      BY <3>5, <3>6
  <2> QED
    BY <2>1, <2>2
<1> QED
  BY <1>2, <1>4, <1>7, <1>8

-----------------------------------------------------------------------------
(* Reading an image: numbers and offsets *)

\* Sequences of bytes put together, and their prefixes.
LEMMA FlattenPlaced ==
  ASSUME NEW s \in Seq(Seq(Bytes))
  PROVE  \E f : /\ Placed(s, f)
                /\ FlattenSeq(s) = f[Len(s)]
                /\ \A k \in 0 .. Len(s) : FlattenSeq(SubSeq(s, 1, k)) = f[k]
<1> DEFINE l == Len(s)
<1>1. l \in Nat /\ DOMAIN s = 1 .. l /\ \A i \in 1 .. l : s[i] \in Seq(Bytes)
  OBVIOUS
<1>2. PICK f : Joined(s, f)
  BY <1>1, JoinedExists
<1>3. Placed(s, f)
  BY <1>1, <1>2, JoinedPlaced
<1>4. ASSUME NEW k \in 0 .. l PROVE FlattenSeq(SubSeq(s, 1, k)) = f[k]
  <2> DEFINE t == SubSeq(s, 1, k)
             g == [i \in 0 .. k |-> f[i]]
  <2>1. Len(t) = k /\ (k = 0 => t = <<>>) /\ \A i \in 1 .. k : t[i] = s[i]
    BY <1>1
  <2>2. DOMAIN g = 0 .. k /\ \A i \in 0 .. k : g[i] = f[i]
    OBVIOUS
  <2> HIDE DEF t, g
  <2>3. Joined(t, g)
    <3>1. g[0] = <<>>
      BY <1>2, <2>2 DEF Joined
    <3>2. ASSUME NEW i \in 1 .. k PROVE g[i] = g[i - 1] \o t[i]
      <4>1. i \in 1 .. l /\ g[i] = f[i] /\ g[i - 1] = f[i - 1] /\ t[i] = s[i]
        BY <1>1, <2>1, <2>2
      <4>2. f[i] = f[i - 1] \o s[i]
        BY <1>2, <4>1, Zenon DEF Joined, l
      <4> QED
        BY <4>1, <4>2, Zenon
    <3> QED
      BY <2>1, <2>2, <3>1, <3>2 DEF Joined
  <2>4. k # 0 => t[1] \in Seq(Bytes)
    BY <1>1, <2>1
  <2>5. FlattenSeq(t) = g[k]
    BY <1>1, <2>1, <2>3, <2>4, FlattenIs
  <2> QED
    BY <2>2, <2>5 DEF t
<1>5. FlattenSeq(s) = f[l]
  <2>1. SubSeq(s, 1, l) = s /\ l \in 0 .. l
    BY <1>1
  <2> QED
    BY <1>4, <2>1
<1> QED
  BY <1>3, <1>4, <1>5

Holds(x, w) == (w = 1 => x < 256) /\ (w = 2 => x < 65536) /\ (w = 4 => x < 4294967296)

\* Where the data have the offset it can be read.
ReadBack(data, pos, w, x) == Slice(data, pos, pos + w) = WriteLE(x, w) => readLE(data, pos, w) = x

\* An offset of a width is that many bytes, and reading them gives it back.
LEMMA WriteRead ==
  ASSUME NEW x \in Nat, NEW w \in {1, 2, 4}
  PROVE  /\ WriteLE(x, w) \in Seq(Bytes) /\ Len(WriteLE(x, w)) = w
         /\ \A data, pos : Holds(x, w) => ReadBack(data, pos, w, x)
<1> DEFINE b == WriteLE(x, w)
<1>1. DOMAIN b = 1 .. w /\ \A i \in 1 .. w : b[i] = (x \div Weight[i]) % 256
  BY DEF WriteLE
<1>2. Weight[1] = 1 /\ Weight[2] = 256 /\ Weight[3] = 65536 /\ Weight[4] = 16777216
  BY DEF Weight
<1>3. \A i \in 1 .. 4 : Weight[i] \in Nat \ {0}
  BY <1>2
<1>4. \A i \in 1 .. w : b[i] \in Bytes
  <2> SUFFICES ASSUME NEW i \in 1 .. w PROVE b[i] \in Bytes
    OBVIOUS
  <2>1. i \in 1 .. 4
    OBVIOUS
  <2>2. x \div Weight[i] \in Int
    BY <1>3, <2>1
  <2>3. (x \div Weight[i]) % 256 \in 0 .. 255
    BY <2>2
  <2> HIDE DEF b
  <2> QED
    BY <1>1, <2>3 DEF Bytes
<1>5. b \in Seq(Bytes) /\ Len(b) = w
  <2>1. b = [i \in 1 .. w |-> b[i]]
    BY DEF WriteLE
  <2> HIDE DEF b
  <2> QED
    BY <1>4, <2>1
<1>6. ASSUME NEW data, NEW pos, Slice(data, pos, pos + w) = b,
             Holds(x, w)
      PROVE  readLE(data, pos, w) = x
  <2>0. ReadAs(readLE(data, pos, w), b, w)
    <3>1. w \in Nat
      OBVIOUS
    <3> HIDE DEF b
    <3> QED
      BY <1>1, <1>6, <3>1, ReadBytes
  <2>1. CASE w = 1
    <3>1. readLE(data, pos, w) = b[1] + 256 * 0
      BY <2>0, <2>1 DEF ReadAs
    <3>2. b[1] = (x \div 1) % 256
      BY <1>1, <1>2, <2>1
    <3> QED
      BY <1>6, <2>1, <3>1, <3>2, SMT DEF Holds
  <2>2. CASE w = 2
    <3>1. readLE(data, pos, w) = b[1] + 256 * (b[2] + 256 * 0)
      BY <2>0, <2>2 DEF ReadAs
    <3>2. b[1] = (x \div 1) % 256 /\ b[2] = (x \div 256) % 256
      BY <1>1, <1>2, <2>2
    <3> HIDE DEF b
    <3> QED
      BY <1>6, <2>2, <3>1, <3>2, SMT DEF Holds
  <2>3. CASE w = 4
    <3>1. readLE(data, pos, w) = b[1] + 256 * (b[2] + 256 * (b[3] + 256 * (b[4] + 256 * 0)))
      BY <2>0, <2>3 DEF ReadAs
    <3>2. /\ b[1] = (x \div 1) % 256 /\ b[2] = (x \div 256) % 256
          /\ b[3] = (x \div 65536) % 256 /\ b[4] = (x \div 16777216) % 256
      BY <1>1, <1>2, <2>3
    <3> HIDE DEF b
    <3>3. x < 4294967296
      BY <1>6, <2>3, SMT DEF Holds
    <3> QED
      BY <2>3, <3>1, <3>2, <3>3, SMT
  <2> QED
    BY <2>1, <2>2, <2>3
<1> QED
  BY <1>5, <1>6, Zenon DEF ReadBack

\* Offsets one after the other.
OffsetsAt(o, ends, k, w) ==
  /\ o \in Seq(Bytes) /\ Len(o) = k * w
  /\ \A i \in 1 .. k : SubSeq(o, (i - 1) * w + 1, i * w) = WriteLE(ends[i], w)

\* The offsets that Framed writes are one after the other.
LEMMA OffsetsPlaced ==
  ASSUME NEW k \in Nat, NEW ends, \A i \in 1 .. k : ends[i] \in Nat, NEW w \in {1, 2, 4}
  PROVE  OffsetsAt(FlattenSeq([i \in 1 .. k |-> WriteLE(ends[i], w)]), ends, k, w)
<1> DEFINE s == [i \in 1 .. k |-> WriteLE(ends[i], w)]
<1>1. \A i \in 1 .. k : s[i] = WriteLE(ends[i], w) /\ s[i] \in Seq(Bytes) /\ Len(s[i]) = w
  <2>1. \A i \in 1 .. k : WriteLE(ends[i], w) \in Seq(Bytes) /\ Len(WriteLE(ends[i], w)) = w
    BY WriteRead
  <2>2. \A i \in 1 .. k : s[i] = WriteLE(ends[i], w)
    OBVIOUS
  <2> HIDE DEF s
  <2> QED
    BY <2>1, <2>2, Zenon
<1>2. s \in Seq(Seq(Bytes)) /\ Len(s) = k
  <2>1. s = [i \in 1 .. k |-> s[i]]
    OBVIOUS
  <2> HIDE DEF s
  <2> QED
    BY <1>1, <2>1
<1> HIDE DEF s
<1>3. PICK f : Placed(s, f) /\ FlattenSeq(s) = f[k]
  BY <1>2, FlattenPlaced
<1> DEFINE Bad == {i \in 0 .. k : Len(f[i]) # i * w}
<1>4. \A i \in 0 .. k : Len(f[i]) = i * w
  <2>1. SUFFICES ASSUME Bad # {} PROVE FALSE
    OBVIOUS
  <2>2. PICK m \in Bad : \A n \in Bad : m =< n
    <3>1. Bad \subseteq Nat
      OBVIOUS
    <3> HIDE DEF Bad
    <3> QED
      BY <3>1, <2>1, LeastNumber
  <2>3. m # 0
    <3>1. Len(f[0]) = 0
      BY <1>3 DEF Placed
    <3>2. 0 * w = 0
      OBVIOUS
    <3> QED
      BY <2>2, <3>1, <3>2
  <2>4. m \in 1 .. k /\ m - 1 \in 0 .. k /\ ~(m =< m - 1)
    BY <2>2, <2>3
  <2>5. Len(f[m - 1]) = (m - 1) * w
    BY <2>2, <2>4
  <2>6. Len(f[m]) = Len(f[m - 1]) + w
    BY <1>1, <1>2, <1>3, <2>4 DEF Placed
  <2>7. (m - 1) * w + w = m * w
    BY <2>4
  <2> QED
    BY <2>2, <2>5, <2>6, <2>7
<1>5. f[k] \in Seq(Bytes) /\ Len(f[k]) = k * w
  BY <1>2, <1>3, <1>4 DEF Placed
<1>6. ASSUME NEW i \in 1 .. k PROVE SubSeq(f[k], (i - 1) * w + 1, i * w) = WriteLE(ends[i], w)
  <2>1. SubSeq(f[k], Len(f[i - 1]) + 1, Len(f[i])) = s[i]
    <3>1. k \in 0 .. Len(s) /\ i \in 1 .. k
      BY <1>2
    <3> QED
      BY <1>3, <3>1, Zenon DEF Placed
  <2>2. Len(f[i - 1]) = (i - 1) * w /\ Len(f[i]) = i * w
    BY <1>4
  <2> QED
    BY <1>1, <2>1, <2>2
<1> QED
  BY <1>3, <1>5, <1>6 DEF s, OffsetsAt

\* Data that are a body followed by the k ends, of width w.
FramedAs(data, body, ends, k, w) ==
  /\ data \in Seq(Bytes) /\ Len(data) = Len(body) + k * w
  /\ w \in {1, 2, 4} /\ w = gvariantOffsetSize(Len(data))
  /\ \A i \in Nat, j \in Nat : j =< Len(body) => SubSeq(data, i + 1, j) = SubSeq(body, i + 1, j)
  /\ \A i \in 1 .. k : readLE(data, Len(body) + (i - 1) * w, w) = ends[i]

\* A slice of what follows the body.
LEMMA SliceAfter ==
  ASSUME NEW a \in Seq(Bytes), NEW b \in Seq(Bytes), NEW i \in Nat, NEW j \in Nat, j =< Len(b)
  PROVE  SubSeq(a \o b, Len(a) + i + 1, Len(a) + j) = SubSeq(b, i + 1, j)
  OBVIOUS

\* Reading the ends of a container gives what was written, whatever its size: the width
\* that is read from the size of the whole is the width that was chosen for it.
LEMMA FramedIs ==
  ASSUME NEW body \in Seq(Bytes), Len(body) =< MaxBody + 1000,
         NEW k \in 0 .. 255, NEW ends, Len(ends) = k, \A i \in 1 .. k : ends[i] \in 0 .. Len(body)
  PROVE  \E w : FramedAs(Framed(body, ends), body, ends, k, w)
<1> DEFINE n == Len(body)
           w == IF n + k < 256 THEN 1 ELSE IF n + 2 * k < 65536 THEN 2 ELSE 4
           o == FlattenSeq([i \in 1 .. k |-> WriteLE(ends[i], w)])
           data == Framed(body, ends)
<1>1. n \in Nat /\ k \in Nat
  OBVIOUS
<1>2. data = body \o o
  BY DEF Framed
<1>3. w \in {1, 2, 4}
  OBVIOUS
<1>31. /\ w = 1 => n + k < 256
       /\ w = 2 => n + k >= 256 /\ n + 2 * k < 65536
       /\ w = 4 => n + 2 * k >= 65536
  <2> HIDE DEF n
  <2> QED
    BY <1>1
<1> HIDE DEF w
<1>4. /\ o \in Seq(Bytes) /\ Len(o) = k * w
      /\ \A i \in 1 .. k : SubSeq(o, (i - 1) * w + 1, i * w) = WriteLE(ends[i], w)
  <2>1. OffsetsAt(o, ends, k, w)
    <3>1. \A i \in 1 .. k : ends[i] \in Nat
      OBVIOUS
    <3> QED
      BY <1>1, <1>3, <3>1, OffsetsPlaced
  <2> QED
    BY <2>1 DEF OffsetsAt
<1> HIDE DEF o, data, n
<1>5. data \in Seq(Bytes) /\ Len(data) = n + k * w
  <2>1. body \in Seq(Bytes) /\ o \in Seq(Bytes)
    BY <1>4
  <2>2. data \in Seq(Bytes) /\ Len(data) = Len(body) + Len(o)
    BY <1>2, <2>1
  <2> QED
    BY <1>4, <2>2 DEF n
<1>6. w = gvariantOffsetSize(n + k * w)
  BY <1>1, <1>3, <1>31 DEF gvariantOffsetSize
<1>7. \A i \in Nat, j \in Nat : j =< n => SubSeq(data, i + 1, j) = SubSeq(body, i + 1, j)
  BY <1>2, <1>4, SliceLeft DEF n
<1>8. ASSUME NEW i \in 1 .. k PROVE readLE(data, n + (i - 1) * w, w) = ends[i]
  <2> DEFINE p == (i - 1) * w  q == i * w
  <2>1. p \in Nat /\ q \in Nat /\ q = p + w /\ q =< k * w
    BY <1>1, <1>3
  <2> HIDE DEF p, q
  <2>2. SubSeq(o, p + 1, q) = WriteLE(ends[i], w)
    BY <1>4 DEF p, q
  <2>3. SubSeq(data, n + p + 1, n + q) = SubSeq(o, p + 1, q)
    BY <1>2, <1>4, <2>1, SliceAfter DEF n
  <2>4. Slice(data, n + p, (n + p) + w) = WriteLE(ends[i], w)
    <3>1. (n + p) + w = n + q
      BY <1>1, <1>3, <2>1
    <3> QED
      BY <2>2, <2>3, <3>1 DEF Slice
  <2>5. ends[i] \in Nat /\ ends[i] =< n
    BY <1>1 DEF n
  <2>6. Holds(ends[i], w)
    <3>1. n =< MaxBody + 1000
      BY DEF n
    <3> QED
      BY <1>1, <1>31, <2>5, <3>1, SMT DEF Holds, MaxBody
  <2>7. ReadBack(data, n + p, w, ends[i])
    BY <1>3, <2>5, <2>6, WriteRead
  <2> QED
    BY <2>4, <2>7 DEF ReadBack, p
<1>9. FramedAs(data, body, ends, k, w)
  BY <1>3, <1>5, <1>6, <1>7, <1>8 DEF FramedAs, n
<1> QED
  BY <1>9 DEF data

-----------------------------------------------------------------------------
(* Reading an image: entries of an array *)

\* An entry of an array: a name, a zero and a checksum at least.
ElemOf(e, nm, h) ==
  /\ e \in Seq(Bytes) /\ Len(e) =< 400 /\ nm \in Names
  /\ Len(nm) + 1 + HashLen =< Len(e)
  /\ SubSeq(e, 1, Len(nm)) = nm /\ e[Len(nm) + 1] = 0
  /\ SubSeq(e, Len(nm) + 2, Len(nm) + 1 + HashLen) = h

\* What lookupGVArray finds in it.
ElemRead(e, nm, h) ==
  /\ Len(e) > 0 /\ 0 \in ToSet(e)
  /\ Min({p \in DOMAIN e : e[p] = 0}) - 1 = Len(nm)
  /\ Slice(e, 0, Len(nm)) = nm
  /\ Len(nm) + 1 + HashLen =< Len(e)
  /\ Slice(e, Len(nm) + 1, Len(nm) + 1 + HashLen) = h

\* The name ends at the first zero, and the checksum follows.
LEMMA ElemParts ==
  ASSUME NEW e, NEW nm, NEW h, ElemOf(e, nm, h)
  PROVE  ElemRead(e, nm, h)
<1> DEFINE l == Len(nm)
<1>1. /\ e \in Seq(Bytes) /\ nm \in Seq(1 .. 255) /\ l \in Nat /\ Len(e) \in Nat /\ HashLen \in 1 .. 32
      /\ l + 1 + HashLen =< Len(e) /\ SubSeq(e, 1, l) = nm /\ e[l + 1] = 0
      /\ SubSeq(e, l + 2, l + 1 + HashLen) = h
  BY HashAssumption DEF ElemOf, Names
<1>2. \A i \in 1 .. l : e[i] = nm[i] /\ nm[i] \in 1 .. 255
  BY <1>1
<1> HIDE DEF l
<1>3. l + 1 \in 1 .. Len(e) /\ DOMAIN e = 1 .. Len(e)
  BY <1>1
<1>4. 0 \in ToSet(e)
  BY <1>1, <1>3 DEF ToSet
<1> DEFINE Z == {p \in DOMAIN e : e[p] = 0}
<1>5. Z \in SUBSET (1 .. Len(e)) /\ l + 1 \in Z /\ \A p \in Z : l + 1 =< p
  <2>1. ASSUME NEW p \in Z PROVE l + 1 =< p
    <3>1. p \in Nat /\ p >= 1 /\ e[p] = 0
      BY <1>3
    <3>2. p \notin 1 .. l
      BY <1>2, <3>1
    <3> QED
      BY <1>1, <3>1, <3>2
  <2> QED
    BY <1>1, <1>3, <2>1
<1>6. Min(Z) = l + 1
  <2> HIDE DEF Z
  <2>1. Min(Z) \in Z /\ \A y \in Z : Min(Z) =< y
    BY <1>1, <1>5, MinIs
  <2>2. Min(Z) \in Nat
    <3>1. Min(Z) \in 1 .. Len(e)
      BY <1>5, <2>1, Zenon
    <3> QED
      BY <1>1, <3>1
  <2>3. l + 1 =< Min(Z) /\ Min(Z) =< l + 1
    BY <1>5, <2>1, Zenon
  <2> QED
    BY <1>1, <2>2, <2>3
<1>7. Slice(e, 0, l) = nm /\ Slice(e, l + 1, l + 1 + HashLen) = h
  <2>1. 0 + 1 = 1 /\ (l + 1) + 1 = l + 2
    BY <1>1
  <2> QED
    BY <1>1, <2>1 DEF Slice
<1>8. Min(Z) - 1 = l /\ Len(e) > 0
  BY <1>1, <1>6
<1> QED
  BY <1>1, <1>4, <1>7, <1>8 DEF ElemRead, l

\* The entries of an array, with their names and checksums.
ElemsOf(elems, k, nm, h) ==
  /\ elems \in Seq(Seq(Bytes)) /\ Len(elems) = k
  /\ \A i \in 1 .. k : ElemOf(elems[i], nm[i], h[i])

\* An array of k entries: entry i is between the ends i - 1 and i.
ArrayOf(data, elems, k, f, w) ==
  /\ Placed(elems, f)
  /\ FramedAs(data, f[k], [i \in 1 .. k |-> Len(f[i])], k, w)
  /\ \A i \in 0 .. k : f[i] \in Seq(Bytes) /\ Len(f[i]) \in Nat /\ Len(f[i]) =< 400 * i
  /\ \A i \in 1 .. k : Len(f[i - 1]) < Len(f[i]) /\ Len(f[i]) =< Len(f[k])

\* GVArray writes such an array, with offsets of the width that its size asks for.
LEMMA ArrayIs ==
  ASSUME NEW k \in 0 .. 255, NEW elems, NEW nm, NEW h, ElemsOf(elems, k, nm, h)
  PROVE  \E f, w : ArrayOf(GVArray(elems), elems, k, f, w)
<1>1. elems \in Seq(Seq(Bytes)) /\ Len(elems) = k /\ k \in Nat
  BY DEF ElemsOf
<1>2. \A i \in 1 .. k : elems[i] \in Seq(Bytes) /\ Len(elems[i]) \in Nat /\ Len(elems[i]) > 0 /\ Len(elems[i]) =< 400
  <2> SUFFICES ASSUME NEW i \in 1 .. k
               PROVE  elems[i] \in Seq(Bytes) /\ Len(elems[i]) \in Nat /\ Len(elems[i]) > 0 /\ Len(elems[i]) =< 400
    OBVIOUS
  <2>1. ElemOf(elems[i], nm[i], h[i])
    BY DEF ElemsOf
  <2>2. elems[i] \in Seq(Bytes) /\ Len(elems[i]) =< 400
    BY <2>1 DEF ElemOf
  <2>3. Len(elems[i]) > 0
    BY <2>1, ElemParts DEF ElemRead
  <2> QED
    BY <2>2, <2>3
<1>3. PICK f : /\ Placed(elems, f)
               /\ FlattenSeq(elems) = f[k]
               /\ \A j \in 0 .. k : FlattenSeq(SubSeq(elems, 1, j)) = f[j]
  BY <1>1, FlattenPlaced
<1>4. \A i \in 0 .. k : f[i] \in Seq(Bytes) /\ Len(f[i]) \in Nat
  BY <1>1, <1>3 DEF Placed
<1>5. \A i \in 1 .. k : Len(f[i]) = Len(f[i - 1]) + Len(elems[i])
  BY <1>1, <1>3 DEF Placed
<1>6. Len(f[0]) = 0
  BY <1>3 DEF Placed
<1> DEFINE Bad == {i \in 0 .. k : ~(Len(f[i]) =< 400 * i)}
<1>7. \A i \in 0 .. k : Len(f[i]) =< 400 * i
  <2>1. SUFFICES ASSUME Bad # {} PROVE FALSE
    OBVIOUS
  <2>2. PICK m \in Bad : \A n \in Bad : m =< n
    <3>1. Bad \subseteq Nat
      OBVIOUS
    <3> HIDE DEF Bad
    <3> QED
      BY <3>1, <2>1, LeastNumber
  <2>3. m # 0
    BY <1>6, <2>2
  <2>4. m \in 1 .. k /\ m - 1 \in 0 .. k /\ ~(m =< m - 1)
    BY <2>2, <2>3
  <2>5. Len(f[m - 1]) =< 400 * (m - 1)
    BY <2>2, <2>4
  <2>6. Len(f[m]) = Len(f[m - 1]) + Len(elems[m]) /\ Len(elems[m]) \in Nat /\ Len(elems[m]) =< 400
    BY <1>2, <1>5, <2>4
  <2>7. Len(f[m - 1]) \in Nat
    BY <1>4, <2>4
  <2>8. ~(Len(f[m]) =< 400 * m)
    BY <2>2
  <2>9. m \in Nat
    BY <2>4
  <2> DEFINE a == Len(f[m - 1])  b == Len(f[m])  c == Len(elems[m])
  <2>10. a =< 400 * (m - 1) /\ b = a + c /\ c \in Nat /\ c =< 400 /\ a \in Nat /\ ~(b =< 400 * m)
    BY <2>5, <2>6, <2>7, <2>8
  <2> HIDE DEF Bad, a, b, c
  <2> QED
    BY <2>9, <2>10
<1>8. ASSUME NEW i \in 1 .. k PROVE Len(f[i - 1]) < Len(f[i]) /\ Len(f[i]) =< Len(f[k])
  <2>1. i - 1 \in 0 .. k /\ i \in 0 .. k /\ k \in 0 .. k
    BY <1>1
  <2>2. Len(f[i - 1]) < Len(f[i])
    <3>1. Len(f[i]) = Len(f[i - 1]) + Len(elems[i]) /\ Len(elems[i]) \in Nat /\ Len(elems[i]) > 0
      BY <1>2, <1>5
    <3>2. Len(f[i - 1]) \in Nat
      BY <1>4, <2>1
    <3> DEFINE a == Len(f[i - 1])  b == Len(f[i])  c == Len(elems[i])
    <3>3. b = a + c /\ c \in Nat /\ c > 0 /\ a \in Nat
      BY <3>1, <3>2
    <3>4. a < b
      <4> HIDE DEF a, b, c
      <4> QED
        BY <3>3
    <3> QED
      BY <3>4
  <2>3. Len(f[i]) =< Len(f[k])
    BY <1>1, <1>3, <2>1 DEF Placed
  <2> QED
    BY <2>2, <2>3
<1> DEFINE ends == [i \in 1 .. k |-> Len(f[i])]
<1>9. GVArray(elems) = Framed(f[k], ends)
  <2>1. [i \in 1 .. Len(elems) |-> Len(FlattenSeq(SubSeq(elems, 1, i)))] = ends
    BY <1>1, <1>3
  <2> HIDE DEF ends
  <2> QED
    BY <1>3, <2>1 DEF GVArray
<1>10. \E w : FramedAs(Framed(f[k], ends), f[k], ends, k, w)
  <2>1. \A i \in 1 .. k : ends[i] \in 0 .. Len(f[k])
    BY <1>4, <1>8
  <2>2. Len(ends) = k
    BY <1>1
  <2>3. f[k] \in Seq(Bytes) /\ Len(f[k]) =< 400 * k
    BY <1>1, <1>4, <1>7
  <2>4. Len(f[k]) =< MaxBody + 1000
    <3>1. Len(f[k]) \in Nat
      BY <1>1, <1>4
    <3> QED
      BY <2>3, <3>1, SMT DEF MaxBody
  <2> HIDE DEF ends
  <2> QED
    BY <2>1, <2>2, <2>3, <2>4, FramedIs
<1> QED
  BY <1>3, <1>4, <1>7, <1>8, <1>9, <1>10 DEF ArrayOf

\* What a lookup gives that finds the entry of that name.
LooksUp(got, name, k, nm, h) ==
  /\ (\A i \in 1 .. k : nm[i] # name) => got = NotFound
  /\ \A i \in 1 .. k : nm[i] = name /\ (\A j \in 1 .. k : nm[j] = name => j = i)
                         => got = EncodeToString(h[i])

\* lookupGVArray finds the entry of a name, however many there are.
LEMMA ArrayLookup ==
  ASSUME NEW k \in 0 .. 255, NEW elems, NEW nm, NEW h, ElemsOf(elems, k, nm, h), NEW name
  PROVE  LooksUp(lookupGVArray(GVArray(elems), name), name, k, nm, h)
<1> DEFINE data == GVArray(elems)
           n == Len(data)
           offSize == gvariantOffsetSize(n)
           lastElemEnd == readLE(data, n - offSize, offSize)
           end(i) == readLE(data, lastElemEnd + (i - 1) * offSize, offSize)
           prev(i) == IF i = 1 THEN 0 ELSE end(i - 1)
           elem(i) == Slice(data, prev(i), end(i))
           nullPos(i) == Min({p \in DOMAIN elem(i) : elem(i)[p] = 0}) - 1
           malformed(i) == end(i) <= prev(i) \/ end(i) > lastElemEnd \/ 0 \notin ToSet(elem(i))
           stops == {i \in 1 .. (n - lastElemEnd) \div offSize :
                       malformed(i) \/ Slice(elem(i), 0, nullPos(i)) = name}
           at == Min(stops)
           hashStart == nullPos(at) + 1
           got == lookupGVArray(data, name)
<1>0. got = IF \/ n = 0 \/ lastElemEnd > n - offSize \/ stops = {}
               \/ malformed(at) \/ hashStart + HashLen > Len(elem(at))
            THEN NotFound
            ELSE EncodeToString(Slice(elem(at), hashStart, hashStart + HashLen))
  BY DEF lookupGVArray
<1>1. PICK f, w : ArrayOf(data, elems, k, f, w)
  BY ArrayIs
<1>2. /\ n = Len(f[k]) + k * w /\ w \in {1, 2, 4} /\ w = offSize
      /\ \A i \in 1 .. k : readLE(data, Len(f[k]) + (i - 1) * w, w) = Len(f[i])
      /\ \A i \in Nat, j \in Nat : j =< Len(f[k]) => SubSeq(data, i + 1, j) = SubSeq(f[k], i + 1, j)
  <2> DEFINE ends == [i \in 1 .. k |-> Len(f[i])]
  <2>1. FramedAs(data, f[k], ends, k, w)
    BY <1>1 DEF ArrayOf
  <2>2. \A i \in 1 .. k : ends[i] = Len(f[i])
    OBVIOUS
  <2> HIDE DEF ends, data
  <2> QED
    BY <2>1, <2>2 DEF FramedAs
<1>21. w \in Nat
  <2>1. w \in {1, 2, 4}
    BY <1>2, Zenon
  <2> QED
    BY <2>1
<1>3. \A i \in 0 .. k : f[i] \in Seq(Bytes) /\ Len(f[i]) \in Nat
  BY <1>1 DEF ArrayOf
<1>4. \A i \in 1 .. k : Len(f[i - 1]) < Len(f[i]) /\ Len(f[i]) =< Len(f[k])
  BY <1>1 DEF ArrayOf
<1>5. \A i \in 1 .. k : SubSeq(f[k], Len(f[i - 1]) + 1, Len(f[i])) = elems[i]
  <2>1. Len(elems) = k /\ Placed(elems, f) /\ k \in 0 .. k
    BY <1>1 DEF ArrayOf, ElemsOf
  <2> QED
    BY <2>1 DEF Placed
<1>6. Len(f[0]) = 0 /\ (k = 0 => f[k] = <<>>)
  BY <1>1 DEF ArrayOf, Placed
<1>7. \A i \in 1 .. k : ElemRead(elems[i], nm[i], h[i])
  <2>1. \A i \in 1 .. k : ElemOf(elems[i], nm[i], h[i])
    BY DEF ElemsOf
  <2> QED
    BY <2>1, ElemParts
<1>8. CASE k = 0
  <2>1. n = 0
    <3>0. 0 * w = 0
      BY <1>21
    <3>1. Len(f[k]) = 0 /\ k * w = 0
      BY <1>6, <1>8, <3>0
    <3> HIDE DEF n
    <3> QED
      BY <1>2, <3>1
  <2>2. got = NotFound
    BY <1>0, <2>1
  <2> HIDE DEF got
  <2> QED
    BY <1>8, <2>2 DEF LooksUp, got, data
<1>9. CASE k # 0
  <2>0. k \in 1 .. k /\ k \in Nat /\ Len(f[k]) \in Nat
    BY <1>3, <1>9
  <2> HIDE DEF data, n, offSize
  <2>1. n - offSize = Len(f[k]) + (k - 1) * w /\ n \in Nat
    <3> DEFINE z == Len(f[k])
    <3>1. n = z + k * w /\ z \in Nat /\ w \in {1, 2, 4} /\ w = offSize
      BY <1>2, <2>0
    <3>2. n - offSize = z + (k - 1) * w /\ n \in Nat
      <4> HIDE DEF z
      <4> QED
        BY <2>0, <3>1
    <3> QED
      BY <3>2
  <2>2. lastElemEnd = Len(f[k])
    BY <1>2, <2>0, <2>1
  <2> HIDE DEF lastElemEnd
  <2>3. ~(lastElemEnd > n - offSize) /\ n # 0
    <3> DEFINE z == Len(f[k])
    <3>1. /\ n = z + k * w /\ z \in Nat /\ w \in {1, 2, 4} /\ w = offSize
          /\ lastElemEnd = z /\ k >= 1
      BY <1>2, <2>0, <2>2
    <3> HIDE DEF z
    <3> QED
      BY <2>0, <3>1
  <2>4. \A i \in 1 .. k : end(i) = Len(f[i])
    BY <1>2, <2>2
  <2> HIDE DEF end
  <2>5. \A i \in 1 .. k : prev(i) = Len(f[i - 1])
    <3> SUFFICES ASSUME NEW i \in 1 .. k PROVE prev(i) = Len(f[i - 1])
      OBVIOUS
    <3>1. CASE i = 1
      BY <1>6, <3>1
    <3>2. CASE i # 1
      <4>1. i - 1 \in 1 .. k
        BY <3>2
      <4> QED
        BY <2>4, <3>2, <4>1
    <3> QED
      BY <3>1, <3>2
  <2> HIDE DEF prev
  <2>6. \A i \in 1 .. k : elem(i) = elems[i]
    <3> SUFFICES ASSUME NEW i \in 1 .. k PROVE elem(i) = elems[i]
      OBVIOUS
    <3> DEFINE p == Len(f[i - 1])  q == Len(f[i])
    <3>1. i - 1 \in 0 .. k /\ i \in 0 .. k
      BY <2>0
    <3>2. p \in Nat /\ q \in Nat /\ q =< Len(f[k])
      BY <1>3, <1>4, <3>1
    <3>3. elem(i) = SubSeq(data, p + 1, q)
      BY <2>4, <2>5 DEF Slice
    <3>4. SubSeq(f[k], p + 1, q) = elems[i]
      BY <1>5
    <3> HIDE DEF p, q, elem
    <3> QED
      BY <1>2, <3>2, <3>3, <3>4
  <2> HIDE DEF elem
  <2>7. \A i \in 1 .. k : nullPos(i) = Len(nm[i])
    BY <1>7, <2>6 DEF ElemRead
  <2> HIDE DEF nullPos
  <2>8. \A i \in 1 .. k : ~malformed(i)
    <3> SUFFICES ASSUME NEW i \in 1 .. k PROVE ~malformed(i)
      OBVIOUS
    <3>1. i - 1 \in 0 .. k /\ i \in 0 .. k
      BY <2>0
    <3> DEFINE p == Len(f[i - 1])  q == Len(f[i])
    <3>2. p \in Nat /\ q \in Nat /\ p < q /\ q =< lastElemEnd /\ prev(i) = p /\ end(i) = q
      BY <1>3, <1>4, <2>2, <2>4, <2>5, <3>1
    <3>3. 0 \in ToSet(elem(i))
      BY <1>7, <2>6 DEF ElemRead
    <3>4. lastElemEnd \in Nat
      BY <2>0, <2>2
    <3> HIDE DEF p, q
    <3> QED
      BY <3>2, <3>3, <3>4
  <2> HIDE DEF malformed
  <2>9. (n - lastElemEnd) \div offSize = k
    <3>1. n - lastElemEnd = k * w
      BY <1>2, <2>0, <2>2
    <3>2. (k * w) \div w = k
      <4>1. (k * 1) \div 1 = k /\ (k * 2) \div 2 = k /\ (k * 4) \div 4 = k
        BY <2>0
      <4> QED
        BY <1>2, <4>1
    <3> QED
      BY <1>2, <3>1, <3>2
  <2>10. \A i \in 1 .. k : Slice(elem(i), 0, nullPos(i)) = nm[i]
    BY <1>7, <2>6, <2>7 DEF ElemRead
  <2>11. stops = {i \in 1 .. k : nm[i] = name}
    <3>1. stops = {i \in 1 .. k : malformed(i) \/ Slice(elem(i), 0, nullPos(i)) = name}
      BY <2>9
    <3> HIDE DEF stops
    <3> QED
      BY <2>8, <2>10, <3>1
  <2> HIDE DEF stops
  <2>12. (\A i \in 1 .. k : nm[i] # name) => got = NotFound
    <3>1. (\A i \in 1 .. k : nm[i] # name) => stops = {}
      BY <2>11
    <3> HIDE DEF at, hashStart
    <3> QED
      BY <1>0, <3>1
  <2>13. ASSUME NEW i \in 1 .. k, nm[i] = name, \A j \in 1 .. k : nm[j] = name => j = i
         PROVE  got = EncodeToString(h[i])
    <3>1. stops = {i}
      BY <2>11, <2>13
    <3>2. at = i
      <4>1. {i} \in SUBSET (1 .. k) /\ {i} # {}
        OBVIOUS
      <4>2. Min({i}) \in {i}
        BY <2>0, <4>1, MinIs
      <4> QED
        BY <3>1, <4>2
    <3> HIDE DEF at
    <3>3. hashStart = Len(nm[i]) + 1
      BY <2>7, <3>2
    <3> HIDE DEF hashStart
    <3>4. ElemRead(elems[i], nm[i], h[i]) /\ elem(i) = elems[i]
      BY <1>7, <2>6
    <3>41. Len(nm[i]) \in Nat /\ HashLen \in Nat /\ Len(elems[i]) \in Nat
      <4>1. ElemOf(elems[i], nm[i], h[i])
        BY DEF ElemsOf
      <4> QED
        BY <4>1, HashAssumption DEF ElemOf, Names
    <3>5. /\ ~(hashStart + HashLen > Len(elem(i)))
          /\ Slice(elem(i), hashStart, hashStart + HashLen) = h[i]
      <4>1. Len(nm[i]) + 1 + HashLen =< Len(elems[i])
        BY <3>4 DEF ElemRead
      <4>2. Slice(elems[i], Len(nm[i]) + 1, Len(nm[i]) + 1 + HashLen) = h[i]
        BY <3>4 DEF ElemRead
      <4>3. ~(hashStart + HashLen > Len(elems[i]))
        <5> DEFINE a == Len(nm[i])  b == Len(elems[i])
        <5>1. a \in Nat /\ b \in Nat /\ a + 1 + HashLen =< b /\ hashStart = a + 1
          BY <3>3, <3>41, <4>1
        <5>2. ~(hashStart + HashLen > b)
          <6> HIDE DEF a, b
          <6> QED
            BY <3>41, <5>1
        <5> QED
          BY <5>2
      <4> QED
        BY <3>3, <3>4, <4>2, <4>3
    <3>6. ~malformed(at) /\ stops # {}
      BY <2>8, <3>1, <3>2
    <3> HIDE DEF got
    <3> QED
      BY <1>0, <2>3, <3>2, <3>5, <3>6
  <2> HIDE DEF got
  <2> QED
    BY <2>12, <2>13 DEF LooksUp, got, data
<1> QED
  BY <1>8, <1>9

-----------------------------------------------------------------------------
(* Reading an image: the entries of a directory *)

\* The nodes up to m that are in a directory, in their order.
Collected(s, tree, d, isDir, m) ==
  /\ s \in Seq(1 .. m) /\ Len(s) =< m
  /\ \A j \in 1 .. Len(s) : InDir(tree, d, isDir, s[j])
  /\ \A i \in 1 .. m : InDir(tree, d, isDir, i) => \E j \in 1 .. Len(s) : s[j] = i
  /\ \A a \in 1 .. Len(s), b \in 1 .. Len(s) : s[a] = s[b] => a = b

\* One more node.
LEMMA CollectOne ==
  ASSUME NEW m \in Nat, m # 0, NEW s, NEW tree, NEW d, NEW isDir, Collected(s, tree, d, isDir, m - 1)
  PROVE  /\ InDir(tree, d, isDir, m) => Collected(Append(s, m), tree, d, isDir, m)
         /\ ~InDir(tree, d, isDir, m) => Collected(s, tree, d, isDir, m)
<1> DEFINE P(i) == InDir(tree, d, isDir, i)
           n == Len(s)
<1>1. /\ s \in Seq(1 .. (m - 1)) /\ n \in Nat /\ n =< m - 1
      /\ \A j \in 1 .. n : P(s[j])
      /\ \A i \in 1 .. (m - 1) : P(i) => \E j \in 1 .. n : s[j] = i
      /\ \A a \in 1 .. n, b \in 1 .. n : s[a] = s[b] => a = b
  BY DEF Collected
<1>2. \A j \in 1 .. n : s[j] \in 1 .. (m - 1)
  BY <1>1
<1>21. \A j \in 1 .. n : s[j] \in 1 .. m /\ s[j] # m
  BY <1>2
<1>3. s \in Seq(1 .. m)
  <2>1. s = [j \in 1 .. n |-> s[j]]
    BY <1>1
  <2> HIDE DEF n
  <2> QED
    BY <1>1, <1>21, <2>1
<1> HIDE DEF P
<1>4. ASSUME ~P(m) PROVE Collected(s, tree, d, isDir, m)
  <2>1. \A i \in 1 .. m : P(i) => \E j \in 1 .. n : s[j] = i
    <3> SUFFICES ASSUME NEW i \in 1 .. m, P(i) PROVE \E j \in 1 .. n : s[j] = i
      OBVIOUS
    <3>1. i # m
      BY <1>4
    <3>2. i \in 1 .. (m - 1)
      BY <3>1
    <3> QED
      BY <1>1, <3>2
  <2>2. n =< m
    BY <1>1
  <2> QED
    BY <1>1, <1>3, <2>1, <2>2 DEF Collected, P
<1>5. ASSUME P(m) PROVE Collected(Append(s, m), tree, d, isDir, m)
  <2> DEFINE t == Append(s, m)
  <2>1. t \in Seq(1 .. m) /\ Len(t) = n + 1 /\ (\A j \in 1 .. n : t[j] = s[j]) /\ t[n + 1] = m
    <3>1. m \in 1 .. m
      OBVIOUS
    <3> QED
      BY <1>3, <3>1
  <2> HIDE DEF t, n
  <2>2. \A j \in 1 .. (n + 1) : j \in 1 .. n \/ j = n + 1
    BY <1>1
  <2>3. \A j \in 1 .. (n + 1) : P(t[j])
    BY <1>1, <1>5, <2>1, <2>2
  <2>4. \A i \in 1 .. m : P(i) => \E j \in 1 .. (n + 1) : t[j] = i
    <3> SUFFICES ASSUME NEW i \in 1 .. m, P(i) PROVE \E j \in 1 .. (n + 1) : t[j] = i
      OBVIOUS
    <3>1. CASE i = m
      BY <1>1, <2>1, <3>1
    <3>2. CASE i # m
      <4>1. i \in 1 .. (m - 1)
        BY <3>2
      <4>2. PICK j \in 1 .. n : s[j] = i
        BY <1>1, <4>1
      <4> QED
        BY <1>1, <2>1, <4>2
    <3> QED
      BY <3>1, <3>2
  <2>5. \A a \in 1 .. (n + 1), b \in 1 .. (n + 1) : t[a] = t[b] => a = b
    <3> SUFFICES ASSUME NEW a \in 1 .. (n + 1), NEW b \in 1 .. (n + 1), t[a] = t[b] PROVE a = b
      OBVIOUS
    <3>1. CASE a \in 1 .. n /\ b \in 1 .. n
      BY <1>1, <2>1, <3>1, Zenon
    <3>2. CASE a \in 1 .. n /\ b = n + 1
      BY <1>21, <2>1, <3>2, Zenon
    <3>3. CASE a = n + 1 /\ b \in 1 .. n
      BY <1>21, <2>1, <3>3, Zenon
    <3> QED
      BY <2>2, <3>1, <3>2, <3>3
  <2>6. n + 1 =< m
    BY <1>1
  <2> QED
    BY <2>1, <2>3, <2>4, <2>5, <2>6 DEF Collected, P, t
<1> QED
  BY <1>4, <1>5 DEF P

\* The nodes of a directory.
LEMMA InsideIs ==
  ASSUME NEW tree, NEW l \in Nat, Len(tree) = l, NEW d, NEW isDir
  PROVE  Collected(Inside(tree, d, isDir), tree, d, isDir, l)
<1>1. PICK it : /\ Inside(tree, d, isDir) = it[1 .. l]
                /\ it[1 .. 0] = <<>>
                /\ \A k \in 1 .. l :
                     it[1 .. k] = IF InDir(tree, d, isDir, k) THEN Append(it[1 .. (k - 1)], k)
                                  ELSE it[1 .. (k - 1)]
  BY NodesLoop
<1> DEFINE Good(m) == Collected(it[1 .. m], tree, d, isDir, m)
           Bad == {m \in 0 .. l : ~Good(m)}
<1>2. SUFFICES ASSUME Bad # {} PROVE FALSE
  BY <1>1
<1> HIDE DEF Good
<1>3. PICK m \in Bad : \A n \in Bad : m =< n
  <2>1. Bad \subseteq Nat
    OBVIOUS
  <2> HIDE DEF Bad
  <2> QED
    BY <2>1, <1>2, LeastNumber
<1>4. m # 0
  <2>1. Collected(<<>>, tree, d, isDir, 0)
    BY DEF Collected
  <2> QED
    BY <1>1, <1>3, <2>1 DEF Good
<1>5. m \in 1 .. l /\ m - 1 \in 0 .. l /\ ~(m =< m - 1)
  BY <1>3, <1>4
<1>6. Good(m - 1)
  BY <1>3, <1>5
<1>7. Good(m)
  <2> DEFINE s == it[1 .. (m - 1)]  t == it[1 .. m]
  <2>1. t = IF InDir(tree, d, isDir, m) THEN Append(s, m) ELSE s
    BY <1>1, <1>5
  <2>2. Collected(s, tree, d, isDir, m - 1)
    BY <1>6 DEF Good
  <2>3. m \in Nat /\ m # 0
    BY <1>5
  <2> HIDE DEF s, t
  <2>4. Collected(t, tree, d, isDir, m)
    BY <2>1, <2>2, <2>3, CollectOne
  <2> QED
    BY <2>4 DEF Good, t
<1> QED
  BY <1>3, <1>7

\* Bytes put after bytes.
LEMMA TwoTogether ==
  ASSUME NEW a \in Seq(Bytes), NEW b \in Seq(Bytes)
  PROVE  a \o b \in Seq(Bytes) /\ Len(a \o b) = Len(a) + Len(b)
  OBVIOUS

\* A body that starts with a name, a zero and a checksum.
Entails(b, nm, h, r) ==
  /\ b \in Seq(Bytes) /\ Len(b) = Len(nm) + 1 + Len(h) + r
  /\ SubSeq(b, 1, Len(nm)) = nm
  /\ SubSeq(b, Len(nm) + 1, Len(nm) + 1) = <<0>>
  /\ SubSeq(b, Len(nm) + 2, Len(nm) + 1 + Len(h)) = h

\* The body of a file's entry and that of a directory's are of this form.
LEMMA EntryParts ==
  ASSUME NEW nm \in Names, NEW h \in Seq(Bytes), NEW rest \in Seq(Bytes)
  PROVE  /\ Entails(nm \o <<0>> \o h, nm, h, 0)
         /\ Entails(nm \o <<0>> \o h \o rest, nm, h, Len(rest))
<1>0. nm \in Seq(Bytes) /\ <<0>> \in Seq(Bytes)
  BY DEF Names, Bytes
<1> DEFINE l == Len(nm)  n == Len(h)  r == Len(rest)
           x == nm \o <<0>>  y == x \o h  z == y \o rest
<1>1. l \in Nat /\ n \in Nat /\ r \in Nat
  BY <1>0
<1>2. x \in Seq(Bytes) /\ Len(x) = l + 1 /\ SubSeq(x, 1, l) = nm /\ SubSeq(x, l + 1, l + 1) = <<0>>
  <2> DEFINE c == <<0>>
  <2>1. c \in Seq(Bytes) /\ Len(c) = 1
    BY <1>0
  <2>2. SubSeq(nm, 0 + 1, l) = nm
    BY <1>0
  <2> HIDE DEF c
  <2>3. nm \o c \in Seq(Bytes) /\ Len(nm \o c) = l + 1
    <3>1. nm \o c \in Seq(Bytes) /\ Len(nm \o c) = Len(nm) + Len(c)
      BY <1>0, <2>1, TwoTogether
    <3> QED
      BY <2>1, <3>1
  <2>4. SubSeq(nm \o c, 0 + 1, l) = SubSeq(nm, 0 + 1, l)
    BY <1>0, <1>1, <2>1, SliceLeft
  <2>5. SubSeq(nm \o c, Len(nm) + 1, Len(nm) + Len(c)) = c
    BY <1>0, <2>1, SliceRight
  <2>6. SubSeq(nm \o c, l + 1, l + 1) = c /\ SubSeq(nm \o c, 1, l) = nm
    <3>1. Len(nm) + Len(c) = l + 1 /\ 0 + 1 = 1
      BY <2>1
    <3>2. SubSeq(nm \o c, l + 1, Len(nm) + Len(c)) = c
      BY <2>5
    <3> QED
      BY <2>2, <2>4, <3>1, <3>2, Zenon
  <2> QED
    BY <2>3, <2>6 DEF c
<1> HIDE DEF x
<1>3. /\ y \in Seq(Bytes) /\ Len(y) = l + 1 + n /\ SubSeq(y, 1, l) = nm
      /\ SubSeq(y, l + 1, l + 1) = <<0>> /\ SubSeq(y, l + 2, l + 1 + n) = h
  <2>1. y \in Seq(Bytes) /\ Len(y) = l + 1 + n
    BY <1>1, <1>2
  <2>2. SubSeq(y, 0 + 1, l) = SubSeq(x, 0 + 1, l) /\ SubSeq(y, l + 1, l + 1) = SubSeq(x, l + 1, l + 1)
    <3>1. 0 \in Nat /\ l \in Nat /\ l + 1 \in Nat /\ l =< Len(x) /\ l + 1 =< Len(x)
      BY <1>1, <1>2
    <3> HIDE DEF l
    <3> QED
      BY <1>2, <3>1, SliceLeft
  <2>3. SubSeq(y, Len(x) + 1, Len(x) + Len(h)) = h
    BY <1>2, SliceRight
  <2>4. Len(x) + 1 = l + 2 /\ 0 + 1 = 1
    BY <1>1, <1>2
  <2> QED
    BY <1>2, <2>1, <2>2, <2>3, <2>4
<1> HIDE DEF y
<1>4. /\ z \in Seq(Bytes) /\ Len(z) = l + 1 + n + r /\ SubSeq(z, 1, l) = nm
      /\ SubSeq(z, l + 1, l + 1) = <<0>> /\ SubSeq(z, l + 2, l + 1 + n) = h
  <2>1. z \in Seq(Bytes) /\ Len(z) = l + 1 + n + r
    <3>1. y \in Seq(Bytes)
      BY <1>3
    <3>2. z \in Seq(Bytes) /\ Len(z) = Len(y) + r
      BY <3>1
    <3> QED
      BY <1>3, <3>2
  <2>2. /\ SubSeq(z, 0 + 1, l) = SubSeq(y, 0 + 1, l) /\ SubSeq(z, l + 1, l + 1) = SubSeq(y, l + 1, l + 1)
        /\ SubSeq(z, (l + 1) + 1, l + 1 + n) = SubSeq(y, (l + 1) + 1, l + 1 + n)
    <3>1. /\ 0 \in Nat /\ l \in Nat /\ l + 1 \in Nat /\ l + 1 + n \in Nat
          /\ l =< Len(y) /\ l + 1 =< Len(y) /\ l + 1 + n =< Len(y)
      BY <1>1, <1>3
    <3> HIDE DEF l, n
    <3> QED
      BY <1>3, <3>1, SliceLeft
  <2>3. (l + 1) + 1 = l + 2 /\ 0 + 1 = 1
    BY <1>1
  <2> QED
    BY <1>3, <2>1, <2>2, <2>3
<1> HIDE DEF z
<1>5. Entails(y, nm, h, 0) /\ Entails(z, nm, h, r)
  BY <1>1, <1>3, <1>4 DEF Entails
<1> QED
  BY <1>5 DEF x, y, z

\* An entry in its frame: the offsets come after what is looked for.
LEMMA ElemFramed ==
  ASSUME NEW b, NEW nm \in Names, Len(nm) =< 255, NEW h \in Seq(Bytes), Len(h) = HashLen,
         NEW r \in 0 .. HashLen, Entails(b, nm, h, r),
         NEW data, NEW ends, NEW k \in 0 .. 2, NEW w, FramedAs(data, b, ends, k, w)
  PROVE  ElemOf(data, nm, h)
<1> DEFINE l == Len(nm)
<1>1. l \in Nat /\ l =< 255 /\ HashLen \in 1 .. 32
  BY HashAssumption DEF Names
<1>2. /\ b \in Seq(Bytes) /\ Len(b) = l + 1 + HashLen + r /\ SubSeq(b, 1, l) = nm
      /\ SubSeq(b, l + 1, l + 1) = <<0>> /\ SubSeq(b, l + 2, l + 1 + HashLen) = h
  BY DEF Entails
<1> HIDE DEF l
<1>3. /\ data \in Seq(Bytes) /\ Len(data) = Len(b) + k * w
      /\ \A i \in Nat, j \in Nat : j =< Len(b) => SubSeq(data, i + 1, j) = SubSeq(b, i + 1, j)
  BY DEF FramedAs
<1>30. w \in {1, 2, 4}
  BY DEF FramedAs
<1>31. k * w \in Nat /\ k * w =< 8
  BY <1>30
<1> DEFINE e == Len(b)  kw == k * w
<1>32. e \in Nat /\ e = l + 1 + HashLen + r /\ Len(data) = e + kw /\ kw \in Nat /\ kw =< 8
  BY <1>1, <1>2, <1>3, <1>31
<1>4. Len(data) =< 400 /\ l + 1 + HashLen =< Len(data) /\ l + 1 =< Len(data) /\ Len(data) \in Nat
  <2> HIDE DEF e, kw
  <2> QED
    BY <1>1, <1>32
<1>5. /\ SubSeq(data, 0 + 1, l) = SubSeq(b, 0 + 1, l)
      /\ SubSeq(data, l + 1, l + 1) = SubSeq(b, l + 1, l + 1)
      /\ SubSeq(data, (l + 1) + 1, l + 1 + HashLen) = SubSeq(b, (l + 1) + 1, l + 1 + HashLen)
  <2>1. /\ 0 \in Nat /\ l \in Nat /\ l + 1 \in Nat /\ l + 1 + HashLen \in Nat
        /\ l =< Len(b) /\ l + 1 =< Len(b) /\ l + 1 + HashLen =< Len(b)
    BY <1>1, <1>2
  <2> QED
    BY <1>3, <2>1
<1>6. 0 + 1 = 1 /\ (l + 1) + 1 = l + 2
  BY <1>1
<1>7. data[l + 1] = 0
  <2>1. SubSeq(data, l + 1, l + 1) = <<0>>
    BY <1>2, <1>5
  <2>2. SubSeq(data, l + 1, l + 1)[1] = data[l + 1]
    BY <1>1, <1>3, <1>4
  <2>3. <<0>>[1] = 0
    OBVIOUS
  <2> QED
    BY <2>1, <2>2, <2>3, Zenon
<1>8. SubSeq(data, 1, l) = nm /\ SubSeq(data, l + 2, l + 1 + HashLen) = h
  BY <1>2, <1>5, <1>6
<1> QED
  BY <1>3, <1>4, <1>7, <1>8 DEF ElemOf, l

\* Entries as ostree writes them.
LEMMA EntriesAre ==
  ASSUME NEW nm \in Names, Len(nm) =< 255, NEW h \in Seq(Bytes), Len(h) = HashLen
  PROVE  ElemOf(FileEntry(nm, h), nm, h) /\ ElemOf(DirEntry(nm, h), nm, h)
<1> DEFINE b == nm \o <<0>> \o h
           c == nm \o <<0>> \o h \o h
           f == <<Len(nm) + 1>>
           g == <<Len(nm) + 1 + HashLen, Len(nm) + 1>>
<1>1. Entails(b, nm, h, 0) /\ Entails(c, nm, h, HashLen)
  BY EntryParts
<1>2. Len(nm) \in Nat /\ HashLen \in 1 .. 32
  BY HashAssumption DEF Names
<1>3. /\ Len(f) = 1 /\ f[1] = Len(nm) + 1
      /\ Len(g) = 2 /\ g[1] = Len(nm) + 1 + HashLen /\ g[2] = Len(nm) + 1
  OBVIOUS
<1> HIDE DEF b, c, f, g
<1>4. /\ b \in Seq(Bytes) /\ Len(b) = Len(nm) + 1 + HashLen + 0
      /\ c \in Seq(Bytes) /\ Len(c) = Len(nm) + 1 + HashLen + HashLen
  BY <1>1 DEF Entails
<1>5. Len(b) =< MaxBody + 1000 /\ Len(c) =< MaxBody + 1000
  BY <1>2, <1>4, SMT DEF MaxBody
<1>6. /\ \A i \in 1 .. 1 : f[i] \in 0 .. Len(b)
      /\ \A i \in 1 .. 2 : g[i] \in 0 .. Len(c)
  <2>1. Len(nm) + 1 \in 0 .. Len(b) /\ Len(nm) + 1 \in 0 .. Len(c) /\ Len(nm) + 1 + HashLen \in 0 .. Len(c)
    BY <1>2, <1>4
  <2>2. \A i \in 1 .. 1 : i = 1
    OBVIOUS
  <2>3. \A i \in 1 .. 2 : i = 1 \/ i = 2
    OBVIOUS
  <2> QED
    BY <1>3, <2>1, <2>2, <2>3
<1>7. PICK w : FramedAs(Framed(b, f), b, f, 1, w)
  <2>1. 1 \in 0 .. 255
    OBVIOUS
  <2> QED
    BY <1>3, <1>4, <1>5, <1>6, <2>1, FramedIs
<1>8. PICK v : FramedAs(Framed(c, g), c, g, 2, v)
  <2>1. 2 \in 0 .. 255
    OBVIOUS
  <2> QED
    BY <1>3, <1>4, <1>5, <1>6, <2>1, FramedIs
<1>9. 0 \in 0 .. HashLen /\ HashLen \in 0 .. HashLen /\ 1 \in 0 .. 2 /\ 2 \in 0 .. 2
  BY <1>2
<1>10. ElemOf(Framed(b, f), nm, h)
  BY <1>1, <1>7, <1>9, ElemFramed
<1>11. ElemOf(Framed(c, g), nm, h)
  BY <1>1, <1>8, <1>9, ElemFramed
<1> QED
  BY <1>10, <1>11 DEF b, c, f, g, FileEntry, DirEntry

\* A checksum takes HashLen bytes.
LEMMA ChecksumIs ==
  ASSUME NEW i \in Bytes
  PROVE  Checksum(i) \in Seq(Bytes) /\ Len(Checksum(i)) = HashLen
  BY HashAssumption DEF Checksum

-----------------------------------------------------------------------------
(* Reading an image: directories *)

\* A tree of an image, in the form the proofs use.
LEMMA TreeNodes ==
  ASSUME NEW tree, IsTree(tree)
  PROVE  /\ Len(tree) \in 1 .. 255 /\ Len(tree) \in Nat /\ 1 \in 1 .. Len(tree)
         /\ tree[1].dir = TRUE /\ tree[1].path = <<>>
         /\ \A i \in 1 .. Len(tree) :
              /\ i \in Bytes /\ tree[i].dir \in BOOLEAN /\ tree[i].path \in Seq(Names)
              /\ tree[i].path # <<>> => Last(tree[i].path) \in Names /\ Len(Last(tree[i].path)) =< 255
         /\ \A i \in 1 .. Len(tree), j \in 1 .. Len(tree) : tree[i].path = tree[j].path => i = j
<1>1. /\ Len(tree) \in 1 .. 255 /\ DOMAIN tree = 1 .. Len(tree)
      /\ tree[1].dir /\ tree[1].path = <<>>
  BY DEF IsTree
<1>2. \A i \in 1 .. Len(tree) :
        /\ tree[i].dir \in BOOLEAN /\ tree[i].path \in Seq(Names)
        /\ i # 1 => tree[i].path # <<>> /\ Len(Last(tree[i].path)) <= 255
  BY <1>1 DEF IsTree
<1>3. \A i \in 1 .. Len(tree), j \in 1 .. Len(tree) : tree[i].path = tree[j].path => i = j
  BY <1>1 DEF IsTree
<1>4. 1 \in 1 .. Len(tree) /\ Len(tree) \in Nat
  BY <1>1
<1>5. tree[1].dir = TRUE
  BY <1>1, <1>2, <1>4
<1>6. ASSUME NEW i \in 1 .. Len(tree)
      PROVE  /\ i \in Bytes
             /\ tree[i].path # <<>> => Last(tree[i].path) \in Names /\ Len(Last(tree[i].path)) =< 255
  <2>1. i \in Bytes
    <3> DEFINE n == Len(tree)
    <3>1. n \in 1 .. 255 /\ i \in 1 .. n
      BY <1>1
    <3> HIDE DEF n
    <3> QED
      BY <3>1 DEF Bytes
  <2>2. ASSUME tree[i].path # <<>> PROVE Last(tree[i].path) \in Names /\ Len(Last(tree[i].path)) =< 255
    <3>1. i # 1
      BY <1>1, <2>2
    <3>2. Len(Last(tree[i].path)) <= 255 /\ tree[i].path \in Seq(Names)
      BY <1>2, <3>1
    <3>3. Last(tree[i].path) \in Names
      BY <2>2, <3>2 DEF Last
    <3> QED
      BY <3>2, <3>3
  <2> QED
    BY <2>1, <2>2
<1> QED
  BY <1>1, <1>2, <1>3, <1>4, <1>5, <1>6

\* The last directory or file of the path of a node of a directory, and back.
LEMMA PathOfEntry ==
  ASSUME NEW p \in Seq(Names), p # <<>>
  PROVE  p = Append(Front(p), Last(p)) /\ Front(p) \in Seq(Names) /\ Last(p) \in Names
  BY DEF Front, Last

\* The path of something in a directory.
LEMMA EntryOfPath ==
  ASSUME NEW p \in Seq(Names), NEW x \in Names
  PROVE  Append(p, x) # <<>> /\ Front(Append(p, x)) = p /\ Last(Append(p, x)) = x
  BY DEF Front, Last

\* No array is longer.
Ample == 200000

\* The arrays of the files and of the directories of a directory.
ArrayFor(tree, d, isDir) == IF isDir THEN DirsIn(tree, d) ELSE FilesIn(tree, d)

\* The node that a name in a directory stands for.
IsEntry(tree, d, isDir, name, i) ==
  /\ i \in 1 .. Len(tree) /\ tree[i].dir = isDir
  /\ tree[i].path = Append(tree[d].path, name)

\* What a lookup of a name in the array of a directory gives.
NodeFound(got, tree, d, isDir, name) ==
  /\ (~\E i \in 1 .. Len(tree) : IsEntry(tree, d, isDir, name, i)) => got = NotFound
  /\ \A i \in 1 .. Len(tree) : IsEntry(tree, d, isDir, name, i) => got = Text(i)

\* The arrays of a directory hold the checksum of each node in it by its name.
LEMMA DirectoryLookup ==
  ASSUME NEW tree, IsTree(tree), NEW d \in 1 .. Len(tree), NEW isDir \in BOOLEAN, NEW name \in Names
  PROVE  /\ NodeFound(lookupGVArray(ArrayFor(tree, d, isDir), name), tree, d, isDir, name)
         /\ ArrayFor(tree, d, isDir) \in Seq(Bytes) /\ Len(ArrayFor(tree, d, isDir)) =< Ample
<1> DEFINE l == Len(tree)
           F == Inside(tree, d, isDir)
           k == Len(F)
           nm == [j \in 1 .. k |-> Last(tree[F[j]].path)]
           h == [j \in 1 .. k |-> Checksum(F[j])]
           elems == [j \in 1 .. k |-> IF isDir THEN DirEntry(Last(tree[F[j]].path), Checksum(F[j]))
                                      ELSE FileEntry(Last(tree[F[j]].path), Checksum(F[j]))]
<1>1. /\ l \in 1 .. 255 /\ l \in Nat
      /\ \A i \in 1 .. l :
              /\ i \in Bytes /\ tree[i].dir \in BOOLEAN /\ tree[i].path \in Seq(Names)
              /\ tree[i].path # <<>> => Last(tree[i].path) \in Names /\ Len(Last(tree[i].path)) =< 255
      /\ \A i \in 1 .. l, j \in 1 .. l : tree[i].path = tree[j].path => i = j
  BY TreeNodes
<1>2. Collected(F, tree, d, isDir, l)
  BY <1>1, InsideIs
<1> HIDE DEF F, l
<1>3. /\ F \in Seq(1 .. l) /\ k =< l /\ k \in Nat
      /\ \A j \in 1 .. k : InDir(tree, d, isDir, F[j])
      /\ \A i \in 1 .. l : InDir(tree, d, isDir, i) => \E j \in 1 .. k : F[j] = i
      /\ \A a \in 1 .. k, b \in 1 .. k : F[a] = F[b] => a = b
  BY <1>2 DEF Collected
<1>4. \A j \in 1 .. k : F[j] \in 1 .. l
  <2>1. F \in Seq(1 .. l)
    BY <1>3
  <2> QED
    BY <2>1, ElementOfSeq
<1> HIDE DEF k
<1>41. k \in 0 .. 255
  BY <1>1, <1>3
<1>5. \A j \in 1 .. k :
        /\ tree[F[j]].dir = isDir /\ tree[F[j]].path # <<>> /\ Front(tree[F[j]].path) = tree[d].path
  BY <1>3 DEF InDir
<1>6. \A j \in 1 .. k : nm[j] = Last(tree[F[j]].path) /\ h[j] = Checksum(F[j])
  OBVIOUS
<1>7. \A j \in 1 .. k : elems[j] = IF isDir THEN DirEntry(nm[j], h[j]) ELSE FileEntry(nm[j], h[j])
  OBVIOUS
<1>8. elems = [j \in 1 .. k |-> elems[j]]
  OBVIOUS
<1>9. ArrayFor(tree, d, isDir) = GVArray(elems)
  <2>1. CASE isDir
    <3>1. elems = [j \in 1 .. k |-> DirEntry(Last(tree[F[j]].path), Checksum(F[j]))]
      BY <2>1
    <3>2. isDir = TRUE
      BY <2>1
    <3> HIDE DEF elems
    <3> QED
      BY <3>1, <3>2 DEF ArrayFor, DirsIn, F, k
  <2>2. CASE ~isDir
    <3>1. elems = [j \in 1 .. k |-> FileEntry(Last(tree[F[j]].path), Checksum(F[j]))]
      BY <2>2
    <3>2. isDir = FALSE
      BY <2>2
    <3> HIDE DEF elems
    <3> QED
      BY <3>1, <3>2 DEF ArrayFor, FilesIn, F, k
  <2> QED
    BY <2>1, <2>2
<1> HIDE DEF nm, h, elems
<1>10. ASSUME NEW j \in 1 .. k PROVE nm[j] \in Names /\ ElemOf(elems[j], nm[j], h[j])
  <2>1. F[j] \in 1 .. l /\ tree[F[j]].path # <<>>
    BY <1>4, <1>5
  <2>2. nm[j] \in Names /\ Len(nm[j]) =< 255
    BY <1>1, <1>6, <2>1
  <2>3. h[j] \in Seq(Bytes) /\ Len(h[j]) = HashLen
    <3>1. F[j] \in Bytes
      BY <1>1, <2>1
    <3> QED
      BY <1>6, <3>1, ChecksumIs
  <2>4. ElemOf(FileEntry(nm[j], h[j]), nm[j], h[j]) /\ ElemOf(DirEntry(nm[j], h[j]), nm[j], h[j])
    BY <2>2, <2>3, EntriesAre
  <2> QED
    BY <1>7, <2>2, <2>4
<1>11. ElemsOf(elems, k, nm, h)
  <2>1. \A j \in 1 .. k : elems[j] \in Seq(Bytes)
    BY <1>10 DEF ElemOf
  <2>2. elems \in Seq(Seq(Bytes)) /\ Len(elems) = k
    <3>1. k \in Nat
      BY <1>3
    <3> QED
      BY <3>1, <1>8, <2>1
  <2> QED
    BY <1>10, <2>2 DEF ElemsOf
<1>12. LooksUp(lookupGVArray(GVArray(elems), name), name, k, nm, h)
  BY <1>41, <1>11, ArrayLookup
<1> DEFINE got == lookupGVArray(GVArray(elems), name)
<1> HIDE DEF got
<1>13. ASSUME NEW i \in 1 .. l
       PROVE  IsEntry(tree, d, isDir, name, i) <=> \E j \in 1 .. k : F[j] = i /\ nm[j] = name
  <2>0. tree[i].path \in Seq(Names) /\ tree[d].path \in Seq(Names)
    BY <1>1 DEF l
  <2>1. ASSUME IsEntry(tree, d, isDir, name, i) PROVE \E j \in 1 .. k : F[j] = i /\ nm[j] = name
    <3>1. tree[i].dir = isDir /\ tree[i].path = Append(tree[d].path, name)
      BY <2>1 DEF IsEntry
    <3>2. tree[i].path # <<>> /\ Front(tree[i].path) = tree[d].path /\ Last(tree[i].path) = name
      BY <2>0, <3>1, EntryOfPath
    <3>3. InDir(tree, d, isDir, i)
      BY <3>1, <3>2 DEF InDir
    <3>4. PICK j \in 1 .. k : F[j] = i
      BY <1>3, <3>3
    <3> QED
      BY <1>6, <3>2, <3>4
  <2>2. ASSUME NEW j \in 1 .. k, F[j] = i, nm[j] = name PROVE IsEntry(tree, d, isDir, name, i)
    <3>1. tree[i].dir = isDir /\ tree[i].path # <<>> /\ Front(tree[i].path) = tree[d].path
      BY <1>5, <2>2
    <3>2. Last(tree[i].path) = name
      BY <1>6, <2>2
    <3>3. tree[i].path = Append(tree[d].path, name)
      BY <2>0, <3>1, <3>2, PathOfEntry
    <3> QED
      BY <3>1, <3>3 DEF IsEntry, l
  <2> QED
    BY <2>1, <2>2
<1>14. NodeFound(got, tree, d, isDir, name)
  <2>1. (~\E i \in 1 .. l : IsEntry(tree, d, isDir, name, i)) => got = NotFound
    <3> SUFFICES ASSUME ~\E i \in 1 .. l : IsEntry(tree, d, isDir, name, i) PROVE got = NotFound
      OBVIOUS
    <3>1. \A j \in 1 .. k : nm[j] # name
      BY <1>4, <1>13
    <3> QED
      BY <1>12, <3>1 DEF LooksUp, got
  <2>2. ASSUME NEW i \in 1 .. l, IsEntry(tree, d, isDir, name, i) PROVE got = Text(i)
    <3>1. PICK j \in 1 .. k : F[j] = i /\ nm[j] = name
      BY <1>13, <2>2
    <3>2. ASSUME NEW a \in 1 .. k, nm[a] = name PROVE a = j
      <4>1. F[a] \in 1 .. l
        BY <1>4
      <4>2. IsEntry(tree, d, isDir, name, F[a])
        BY <1>13, <3>2, <4>1
      <4>3. tree[F[a]].path = tree[i].path
        BY <2>2, <4>2 DEF IsEntry
      <4>4. F[a] = F[j]
        BY <1>1, <3>1, <4>1, <4>3
      <4> QED
        BY <1>3, <4>4
    <3>3. got = EncodeToString(h[j])
      BY <1>12, <3>1, <3>2 DEF LooksUp, got
    <3> QED
      BY <1>6, <3>1, <3>3 DEF Text
  <2> QED
    BY <2>1, <2>2 DEF NodeFound, l
<1>15. GVArray(elems) \in Seq(Bytes) /\ Len(GVArray(elems)) =< Ample
  <2>1. PICK f, w : ArrayOf(GVArray(elems), elems, k, f, w)
    BY <1>41, <1>11, ArrayIs
  <2> DEFINE data == GVArray(elems)  ends == [i \in 1 .. k |-> Len(f[i])]
  <2>2. FramedAs(data, f[k], ends, k, w)
    BY <2>1 DEF ArrayOf
  <2>3. Len(f[k]) \in Nat /\ Len(f[k]) =< 400 * k
    <3>1. k \in 0 .. k
      BY <1>41
    <3> QED
      BY <2>1, <3>1 DEF ArrayOf
  <2> HIDE DEF data, ends
  <2>4. data \in Seq(Bytes) /\ Len(data) = Len(f[k]) + k * w /\ w \in {1, 2, 4}
    BY <2>2 DEF FramedAs
  <2>5. k * w \in Nat /\ k * w =< 4 * k
    BY <1>41, <2>4
  <2> DEFINE z == Len(f[k])  kw == k * w
  <2>6. Len(data) = z + kw /\ z \in Nat /\ z =< 400 * k /\ kw \in Nat /\ kw =< 4 * k
    BY <2>3, <2>4, <2>5
  <2>7. Len(data) =< Ample
    <3> HIDE DEF z, kw
    <3> QED
      BY <1>41, <2>6, SMT DEF Ample
  <2> QED
    BY <2>4, <2>7 DEF data
<1> QED
  BY <1>9, <1>14, <1>15 DEF got

-----------------------------------------------------------------------------
(* Reading an image: checksums and the commit *)

\* The text of a checksum.
LEMMA TextIs ==
  ASSUME NEW i \in Bytes
  PROVE  /\ Text(i) \in Seq(0 .. 15) /\ Len(Text(i)) = 2 * HashLen
         /\ Text(i)[1] = i \div 16 /\ Text(i)[2] = i % 16 /\ Text(i) # NotFound
<1>0. HashLen \in Nat /\ HashLen >= 1 /\ i \in 0 .. 255
  BY HashAssumption DEF Bytes
<1> DEFINE c == Checksum(i)
<1>1. Len(c) = HashLen /\ \A j \in 1 .. HashLen : c[j] = i
  BY <1>0 DEF Checksum
<1> HIDE DEF c
<1> DEFINE t == [j \in 1 .. 2 * Len(c) |->
                   LET b == c[(j + 1) \div 2] IN IF j % 2 = 1 THEN b \div 16 ELSE b % 16]
<1>2. Text(i) = t
  BY DEF Text, EncodeToString, c
<1>3. \A j \in 1 .. 2 * HashLen : t[j] = IF j % 2 = 1 THEN i \div 16 ELSE i % 16
  <2> SUFFICES ASSUME NEW j \in 1 .. 2 * HashLen
               PROVE  t[j] = IF j % 2 = 1 THEN i \div 16 ELSE i % 16
    OBVIOUS
  <2>1. (j + 1) \div 2 \in 1 .. HashLen
    BY <1>0
  <2>2. c[(j + 1) \div 2] = i
    BY <1>1, <2>1
  <2>3. t[j] = LET b == c[(j + 1) \div 2] IN IF j % 2 = 1 THEN b \div 16 ELSE b % 16
    BY <1>1
  <2> HIDE DEF t
  <2> QED
    BY <2>2, <2>3
<1>4. i \div 16 \in 0 .. 15 /\ i % 16 \in 0 .. 15
  BY <1>0
<1>5. t = [j \in 1 .. 2 * HashLen |-> t[j]]
  BY <1>1
<1> HIDE DEF t
<1>6. \A j \in 1 .. 2 * HashLen : t[j] \in 0 .. 15
  BY <1>3, <1>4
<1>7. 2 * HashLen \in Nat
  BY <1>0
<1>8. t \in Seq(0 .. 15) /\ Len(t) = 2 * HashLen
  <2> DEFINE n == 2 * HashLen
  <2>1. t = [j \in 1 .. n |-> t[j]] /\ n \in Nat /\ \A j \in 1 .. n : t[j] \in 0 .. 15
    BY <1>5, <1>6, <1>7
  <2>2. t \in Seq(0 .. 15) /\ Len(t) = n
    <3> HIDE DEF n
    <3> QED
      BY <2>1
  <2> QED
    BY <2>2
<1>9. t[1] = i \div 16 /\ t[2] = i % 16
  <2>1. 1 \in 1 .. 2 * HashLen /\ 2 \in 1 .. 2 * HashLen /\ 1 % 2 = 1 /\ 2 % 2 = 0
    BY <1>0
  <2> QED
    BY <1>3, <2>1
<1>10. t # NotFound
  <2>1. Len(t) # 0
    BY <1>0, <1>8
  <2> QED
    BY <2>1 DEF NotFound
<1> QED
  BY <1>2, <1>8, <1>9, <1>10

\* Checksums have texts of their own.
LEMMA TextsDiffer ==
  ASSUME NEW i \in Bytes, NEW j \in Bytes, Text(i) = Text(j)
  PROVE  i = j
<1>1. i \div 16 = j \div 16 /\ i % 16 = j % 16
  BY TextIs
<1>2. i \in 0 .. 255 /\ j \in 0 .. 255
  BY DEF Bytes
<1>3. \A x \in Nat, y \in Nat : x \div 16 = y \div 16 /\ x % 16 = y % 16 => x = y
  OBVIOUS
<1>4. i \in Nat /\ j \in Nat
  BY <1>2
<1> QED
  BY <1>1, <1>3, <1>4

\* A ref is read without the white space at its end.
LEMMA TextTrimmed ==
  ASSUME NEW i \in Bytes
  PROVE  TrimSpace(Text(i) \o <<Blank>>) = Text(i) /\ isValidObjectHash(Text(i))
<1> DEFINE t == Text(i)  n == 2 * HashLen  u == t \o <<Blank>>
<1>0. HashLen \in Nat /\ HashLen >= 1
  BY HashAssumption
<1>1. t \in Seq(0 .. 15) /\ Len(t) = n /\ n \in Nat /\ n >= 1
  BY <1>0, TextIs
<1> HIDE DEF t, n
<1>2. \A j \in 1 .. n : t[j] \in 0 .. 15
  BY <1>1
<1>3. DOMAIN t = 1 .. n /\ t \in Seq(Int)
  BY <1>1
<1>4. Len(u) = n + 1 /\ DOMAIN u = 1 .. (n + 1) /\ (\A j \in 1 .. n : u[j] = t[j]) /\ u[n + 1] = 16
  BY <1>1, <1>3 DEF Blank
<1>5. SubSeq(u, 1, n) = t
  BY <1>1, <1>3
<1> HIDE DEF u
<1> DEFINE I == {j \in DOMAIN u : u[j] # Blank}
<1>6. I = 1 .. n
  <2>1. \A j \in 1 .. n : u[j] # 16
    <3>1. \A j \in 1 .. n : u[j] \in 0 .. 15
      BY <1>2, <1>4
    <3> QED
      BY <3>1
  <2>2. \A j \in 1 .. (n + 1) : j \in 1 .. n \/ j = n + 1
    BY <1>1
  <2>3. \A j \in 1 .. n : j \in 1 .. (n + 1) /\ j # n + 1
    BY <1>1
  <2> QED
    BY <1>4, <2>1, <2>2, <2>3 DEF Blank
<1>61. n \in Nat /\ n >= 1
  BY <1>1
<1>7. Min(1 .. n) = 1 /\ Max(1 .. n) = n
  <2>1. 1 .. n \in SUBSET (1 .. n) /\ 1 .. n # {} /\ 1 \in 1 .. n /\ n \in 1 .. n
    <3>1. 1 \in 1 .. n /\ n \in 1 .. n
      BY <1>61
    <3> QED
      BY <3>1
  <2>2. Min(1 .. n) \in 1 .. n /\ (\A y \in 1 .. n : Min(1 .. n) =< y)
    BY <1>1, <2>1, MinIs
  <2>3. Max(1 .. n) \in 1 .. n /\ (\A y \in 1 .. n : y =< Max(1 .. n))
    BY <1>1, <2>1, MaxIs
  <2> QED
    BY <1>1, <2>1, <2>2, <2>3
<1>8. TrimSpace(u) = IF I = {} THEN <<>> ELSE SubSeq(u, Min(I), Max(I))
  BY DEF TrimSpace
<1>9. TrimSpace(u) = t
  <2>1. 1 .. n # {}
    <3>1. 1 \in 1 .. n
      BY <1>61
    <3> QED
      BY <3>1
  <2> HIDE DEF I
  <2> QED
    BY <1>5, <1>6, <1>7, <1>8, <2>1
<1>10. isValidObjectHash(t)
  BY <1>1, <1>2, <1>3 DEF isValidObjectHash, n
<1> QED
  BY <1>9, <1>10 DEF t, u

\* The middle of three.
LEMMA Middle ==
  ASSUME NEW a \in Seq(Bytes), NEW b \in Seq(Bytes), NEW c \in Seq(Bytes)
  PROVE  /\ a \o b \o c \in Seq(Bytes) /\ Len(a \o b \o c) = Len(a) + Len(b) + Len(c)
         /\ SubSeq(a \o b \o c, Len(a) + 1, Len(a) + Len(b)) = b
<1> DEFINE x == a \o b
<1>1. x \in Seq(Bytes) /\ Len(x) = Len(a) + Len(b)
  BY TwoTogether
<1>2. SubSeq(x, Len(a) + 1, Len(a) + Len(b)) = b
  BY SliceRight
<1> HIDE DEF x
<1>3. x \o c \in Seq(Bytes) /\ Len(x \o c) = Len(x) + Len(c)
  BY <1>1, TwoTogether
<1>4. Len(a) \in Nat /\ Len(b) \in Nat /\ Len(a) + Len(b) \in Nat
  OBVIOUS
<1>5. SubSeq(x \o c, Len(a) + 1, Len(a) + Len(b)) = SubSeq(x, Len(a) + 1, Len(a) + Len(b))
  BY <1>1, <1>4, SliceLeft
<1>6. Len(x \o c) = Len(a) + Len(b) + Len(c)
  BY <1>1, <1>3
<1> QED
  BY <1>2, <1>3, <1>5, <1>6 DEF x

\* The entry of a name in a directory.
EntryFound(e, tree, d, name) ==
  /\ e.ok = TRUE
  /\ NodeFound(e.val.file, tree, d, FALSE, name)
  /\ NodeFound(e.val.subdir, tree, d, TRUE, name)

\* lookupDirtree finds the file or the directory of that name.
LEMMA DirtreeLookup ==
  ASSUME NEW tree, IsTree(tree), NEW d \in 1 .. Len(tree), NEW name \in Names
  PROVE  EntryFound(lookupDirtree(Dirtree(tree, d), name), tree, d, name)
<1> DEFINE A == FilesIn(tree, d)  B == DirsIn(tree, d)  body == A \o B
           ends == <<Len(A)>>
           data == Dirtree(tree, d)
           n == Len(data)
           offSize == gvariantOffsetSize(n)
           filesEnd == readLE(data, n - offSize, offSize)
           file == lookupGVArray(Slice(data, 0, filesEnd), name)
           subdir == IF file # NotFound THEN NotFound
                     ELSE lookupGVArray(Slice(data, filesEnd, n - offSize), name)
           got == lookupDirtree(data, name)
<1>0. got = IF n = 0 \/ n < offSize \/ filesEnd > n - offSize THEN Failed
            ELSE Ok([file |-> file, subdir |-> subdir])
  BY DEF lookupDirtree
<1>1. /\ NodeFound(lookupGVArray(A, name), tree, d, FALSE, name)
      /\ A \in Seq(Bytes) /\ Len(A) =< Ample
  <2>1. /\ NodeFound(lookupGVArray(ArrayFor(tree, d, FALSE), name), tree, d, FALSE, name)
        /\ ArrayFor(tree, d, FALSE) \in Seq(Bytes) /\ Len(ArrayFor(tree, d, FALSE)) =< Ample
    BY DirectoryLookup
  <2> QED
    BY <2>1 DEF ArrayFor
<1>2. /\ NodeFound(lookupGVArray(B, name), tree, d, TRUE, name)
      /\ B \in Seq(Bytes) /\ Len(B) =< Ample
  <2>1. /\ NodeFound(lookupGVArray(ArrayFor(tree, d, TRUE), name), tree, d, TRUE, name)
        /\ ArrayFor(tree, d, TRUE) \in Seq(Bytes) /\ Len(ArrayFor(tree, d, TRUE)) =< Ample
    BY DirectoryLookup
  <2> QED
    BY <2>1 DEF ArrayFor
<1>3. data = Framed(body, ends)
  BY DEF Dirtree
<1> HIDE DEF data
<1>4. Len(ends) = 1 /\ ends[1] = Len(A)
  OBVIOUS
<1> HIDE DEF ends
<1> HIDE DEF A, B
<1>5. body \in Seq(Bytes) /\ Len(body) = Len(A) + Len(B)
  BY <1>1, <1>2, TwoTogether
<1>51. SubSeq(body, Len(A) + 1, Len(A) + Len(B)) = B
  BY <1>1, <1>2, SliceRight
<1>52. SubSeq(body, 0 + 1, Len(A)) = A
  <2>1. Len(A) \in Nat /\ SubSeq(A, 0 + 1, Len(A)) = A
    BY <1>1
  <2>2. SubSeq(body, 0 + 1, Len(A)) = SubSeq(A, 0 + 1, Len(A))
    BY <1>1, <1>2, <2>1, SliceLeft
  <2> QED
    BY <2>1, <2>2
<1> HIDE DEF body
<1> DEFINE a == Len(A)  b == Len(body)
<1>6. a \in Nat /\ b \in Nat /\ a =< b /\ b =< Ample + Ample /\ Len(A) + Len(B) = b
  <2>1. Len(A) \in Nat /\ Len(B) \in Nat /\ Len(A) =< Ample /\ Len(B) =< Ample
    BY <1>1, <1>2
  <2>2. Ample \in Nat
    BY DEF Ample
  <2> QED
    BY <1>5, <2>1, <2>2
<1>7. PICK w : FramedAs(data, body, ends, 1, w)
  <2>1. 1 \in 0 .. 255 /\ \A i \in 1 .. 1 : ends[i] \in 0 .. Len(body)
    BY <1>4, <1>6
  <2>2. Len(body) =< MaxBody + 1000
    <3> HIDE DEF a, b
    <3>1. b =< MaxBody + 1000
      BY <1>6, SMT DEF MaxBody, Ample
    <3> QED
      BY <3>1 DEF b
  <2> QED
    BY <1>3, <1>4, <1>5, <2>1, <2>2, FramedIs
<1>8. /\ n = b + 1 * w /\ w \in {1, 2, 4} /\ w = offSize
      /\ readLE(data, b + (1 - 1) * w, w) = a
      /\ \A i \in Nat, j \in Nat : j =< b => SubSeq(data, i + 1, j) = SubSeq(body, i + 1, j)
  <2>1. 1 \in 1 .. 1
    OBVIOUS
  <2> QED
    BY <1>4, <1>7, <2>1 DEF FramedAs
<1> HIDE DEF n, offSize
<1>81. w \in {1, 2, 4} /\ w = offSize
  BY <1>8, Zenon
<1>82. w \in Nat /\ w >= 1
  BY <1>81
<1> HIDE DEF a, b
<1>83. b + (1 - 1) * w = b /\ b + 1 * w = b + w
  BY <1>6, <1>82
<1>84. n = b + w
  BY <1>8, <1>83, Zenon
<1>9. n - offSize = b
  BY <1>6, <1>81, <1>82, <1>84
<1>10. filesEnd = a
  <2>1. readLE(data, b, w) = a
    BY <1>8, <1>83, Zenon
  <2> QED
    BY <1>9, <1>81, <2>1, Zenon
<1> HIDE DEF filesEnd
<1>11. ~(n = 0 \/ n < offSize \/ filesEnd > n - offSize)
  BY <1>6, <1>81, <1>82, <1>84, <1>9, <1>10
<1>12. Slice(data, 0, filesEnd) = A
  <2>1. SubSeq(data, 0 + 1, a) = SubSeq(body, 0 + 1, a)
    BY <1>6, <1>8
  <2> QED
    BY <1>10, <1>52, <2>1 DEF Slice, a
<1>13. Slice(data, filesEnd, n - offSize) = B
  <2>1. SubSeq(data, a + 1, b) = SubSeq(body, a + 1, b)
    <3>1. \A i \in Nat, j \in Nat : j =< b => SubSeq(data, i + 1, j) = SubSeq(body, i + 1, j)
      BY <1>8, Zenon
    <3>2. a \in Nat /\ b \in Nat /\ b =< b
      BY <1>6
    <3> QED
      BY <3>1, <3>2, Zenon
  <2>2. SubSeq(body, a + 1, b) = B
    BY <1>51, <1>6 DEF a
  <2> QED
    BY <1>9, <1>10, <2>1, <2>2 DEF Slice
<1>14. /\ file = lookupGVArray(A, name)
       /\ subdir = IF file # NotFound THEN NotFound ELSE lookupGVArray(B, name)
  BY <1>12, <1>13
<1> DEFINE x == lookupGVArray(B, name)
<1>15. NodeFound(file, tree, d, FALSE, name) /\ NodeFound(x, tree, d, TRUE, name)
  BY <1>1, <1>2, <1>14
<1> HIDE DEF file, subdir, x
<1>16. subdir = IF file # NotFound THEN NotFound ELSE x
  BY <1>14 DEF x
<1>17. NodeFound(subdir, tree, d, TRUE, name)
  <2>1. CASE file = NotFound
    BY <1>15, <1>16, <2>1
  <2>2. CASE file # NotFound
    <3>1. PICK i \in 1 .. Len(tree) : IsEntry(tree, d, FALSE, name, i)
      BY <1>15, <2>2 DEF NodeFound
    <3>2. ASSUME NEW j \in 1 .. Len(tree), IsEntry(tree, d, TRUE, name, j) PROVE FALSE
      <4>1. tree[i].path = tree[j].path /\ tree[i].dir = FALSE /\ tree[j].dir = TRUE
        BY <3>1, <3>2 DEF IsEntry
      <4>2. i = j
        BY <4>1, TreeNodes
      <4> QED
        BY <4>1, <4>2
    <3> QED
      BY <1>16, <2>2, <3>2 DEF NodeFound
  <2> QED
    BY <2>1, <2>2
<1>18. got = Ok([file |-> file, subdir |-> subdir])
  BY <1>0, <1>11
<1> HIDE DEF got
<1>19. got.ok = TRUE /\ got.val.file = file /\ got.val.subdir = subdir
  BY <1>18 DEF Ok
<1> QED
  BY <1>15, <1>17, <1>19 DEF EntryFound, got, data

\* The bound on the body of a commit is a number.
LEMMA MaxBodyIs == MaxBody \in Nat
  BY SMT DEF MaxBody

\* The end of a body is a number within the bound.
LEMMA BodyBound ==
  ASSUME NEW x \in 0 .. MaxBody
  PROVE  x \in Nat /\ x =< MaxBody /\ MaxBody \in Nat
  BY MaxBodyIs

\* The root of a commit is found, whatever its size.
LEMMA CommitRoot ==
  ASSUME NEW bodyEnd \in 0 .. MaxBody, NEW root \in Seq(Bytes), Len(root) = HashLen
  PROVE  rootDirtreeHash(Commit(bodyEnd, root)) = Ok(EncodeToString(root))
<1> DEFINE A == Align8(bodyEnd) + 8
           pad == [i \in 1 .. A |-> 1]
           body == pad \o root \o root
           ends == <<A + HashLen, bodyEnd, bodyEnd, 1, 1, 1>>
           data == Commit(bodyEnd, root)
           n == Len(data)
           offSize == gvariantOffsetSize(n)
           framingBase == n - 6 * offSize
           oBody == readLE(data, framingBase + offSize, offSize)
           dirtreeStart == Align8(oBody) + 8
<1>0. rootDirtreeHash(data) =
        IF \/ n < 6 * offSize + 8 + HashLen
           \/ oBody >= framingBase
           \/ dirtreeStart + HashLen > framingBase
        THEN Failed
        ELSE Ok(EncodeToString(Slice(data, dirtreeStart, dirtreeStart + HashLen)))
  BY DEF rootDirtreeHash
<1>1. data = Framed(body, ends)
  BY DEF Commit
<1> HIDE DEF data
<1>2. HashLen \in 1 .. 32 /\ bodyEnd \in Nat
  <2>1. bodyEnd \in Nat
    BY BodyBound
  <2> QED
    BY <2>1, HashAssumption
<1>3. A \in Nat /\ A >= 8 /\ bodyEnd =< A /\ A =< bodyEnd + 15
  <2>1. ((bodyEnd + 7) \div 8) * 8 \in Nat /\ ((bodyEnd + 7) \div 8) * 8 >= bodyEnd /\ ((bodyEnd + 7) \div 8) * 8 =< bodyEnd + 7
    BY <1>2
  <2> QED
    BY <1>2, <2>1 DEF Align8
<1>4. /\ Len(ends) = 6 /\ ends[1] = A + HashLen /\ ends[2] = bodyEnd /\ ends[3] = bodyEnd
      /\ ends[4] = 1 /\ ends[5] = 1 /\ ends[6] = 1
  OBVIOUS
<1>41. dirtreeStart = Align8(oBody) + 8 /\ A = Align8(bodyEnd) + 8
  OBVIOUS
<1> HIDE DEF ends, A
<1>5. pad \in Seq(Bytes) /\ Len(pad) = A
  <2>1. 1 \in Bytes
    BY DEF Bytes
  <2> QED
    BY <1>3, <2>1
<1> HIDE DEF pad
<1>6. /\ body \in Seq(Bytes) /\ Len(body) = A + HashLen + HashLen
      /\ SubSeq(body, A + 1, A + HashLen) = root
  <2>1. /\ body \in Seq(Bytes) /\ Len(body) = Len(pad) + Len(root) + Len(root)
        /\ SubSeq(body, Len(pad) + 1, Len(pad) + Len(root)) = root
    BY <1>5, Middle
  <2> QED
    BY <1>5, <2>1
<1> HIDE DEF body
<1> DEFINE b == Len(body)
<1>61. b = A + HashLen + HashLen /\ b \in Nat
  BY <1>2, <1>3, <1>6
<1>7. PICK w : FramedAs(data, body, ends, 6, w)
  <2>1. \A i \in 1 .. 6 : ends[i] \in 0 .. Len(body)
    <3>1. A + HashLen \in 0 .. b /\ bodyEnd \in 0 .. b /\ 1 \in 0 .. b
      <4> HIDE DEF b
      <4> QED
        BY <1>2, <1>3, <1>61
    <3>2. \A i \in 1 .. 6 : i = 1 \/ i = 2 \/ i = 3 \/ i = 4 \/ i = 5 \/ i = 6
      OBVIOUS
    <3> QED
      BY <1>4, <3>1, <3>2
  <2>2. Len(body) =< MaxBody + 1000
    <3>1. MaxBody \in Nat /\ bodyEnd =< MaxBody
      BY BodyBound
    <3>2. b =< MaxBody + 1000
      <4> HIDE DEF b
      <4> QED
        BY <1>2, <1>3, <1>61, <3>1
    <3> QED
      BY <3>2
  <2>3. 6 \in 0 .. 255
    OBVIOUS
  <2> QED
    BY <1>1, <1>4, <1>6, <2>1, <2>2, <2>3, FramedIs
<1>8. /\ n = b + 6 * w /\ w \in {1, 2, 4} /\ w = offSize
      /\ readLE(data, b + (2 - 1) * w, w) = ends[2]
      /\ \A i \in Nat, j \in Nat : j =< b => SubSeq(data, i + 1, j) = SubSeq(body, i + 1, j)
  <2>1. 2 \in 1 .. 6
    OBVIOUS
  <2> QED
    BY <1>7, <2>1 DEF FramedAs
<1> HIDE DEF n, offSize, b
<1>9. w \in {1, 2, 4} /\ w = offSize /\ n = b + 6 * w
  BY <1>8, Zenon
<1>10. w \in Nat /\ b + (2 - 1) * w = b + w /\ framingBase = b
  BY <1>61, <1>9
<1> HIDE DEF framingBase
<1>11. oBody = bodyEnd
  <2>1. readLE(data, b + w, w) = bodyEnd
    BY <1>4, <1>8, <1>10, Zenon
  <2> QED
    BY <1>9, <1>10, <2>1, Zenon
<1> HIDE DEF oBody, dirtreeStart
<1>12. dirtreeStart = A
  BY <1>11, <1>41
<1>13. ~(\/ n < 6 * offSize + 8 + HashLen
         \/ oBody >= framingBase
         \/ dirtreeStart + HashLen > framingBase)
  BY <1>2, <1>3, <1>61, <1>9, <1>10, <1>11, <1>12
<1>14. Slice(data, dirtreeStart, dirtreeStart + HashLen) = root
  <2>1. A + HashLen \in Nat /\ A + HashLen =< b
    BY <1>2, <1>3, <1>61
  <2>2. SubSeq(data, A + 1, A + HashLen) = SubSeq(body, A + 1, A + HashLen)
    BY <1>3, <1>8, <2>1
  <2> QED
    BY <1>6, <1>12, <2>2 DEF Slice
<1> QED
  BY <1>0, <1>13, <1>14 DEF data

-----------------------------------------------------------------------------
(* Reading an image: files *)

\* The objects of a repository that ostree wrote.
HasObjects(repo, tree, bodyEnd) ==
  /\ ReadRef(repo, 1) = Ok(Text(0))
  /\ ReadObject(repo, Text(0), ".commit") = Ok(Commit(bodyEnd, Checksum(1)))
  /\ \A i \in 1 .. Len(tree) :
       /\ tree[i].dir = TRUE => ReadObject(repo, Text(i), ".dirtree") = Ok(Dirtree(tree, i))
       /\ tree[i].dir = FALSE => readContentObject(repo, Text(i)) = Ok(tree[i].content)

\* Encode gives each object the name by which the code asks for it.
LEMMA ObjectsAre ==
  ASSUME NEW tree, IsTree(tree), NEW bodyEnd, NEW compressed \in BOOLEAN
  PROVE  HasObjects(Encode(tree, bodyEnd, compressed), tree, bodyEnd)
<1> DEFINE repo == Encode(tree, bodyEnd, compressed)
           l == Len(tree)
           ext(i) == Extension(tree[i], compressed)
           D == {<<Text(i), ext(i)>> : i \in 1 .. l} \cup {<<Text(0), ".commit">>}
           objects == [n \in D |->
                         IF n[2] = ".commit" THEN Commit(bodyEnd, Checksum(1))
                         ELSE Object(tree, CHOOSE i \in 1 .. l : Text(i) = n[1], compressed)]
           head == Text(0) \o <<Blank>>
<1>1. repo.objects = objects /\ repo.heads = [r \in {1} |-> head]
  BY DEF Encode
<1>2. l \in Nat /\ \A i \in 1 .. l : i \in Bytes /\ tree[i].dir \in BOOLEAN
  BY TreeNodes
<1>3. 0 \in Bytes
  BY DEF Bytes
<1> HIDE DEF repo
<1>4. ReadRef(repo, 1) = Ok(Text(0))
  <2>1. TrimSpace(head) = Text(0) /\ isValidObjectHash(Text(0))
    BY <1>3, TextTrimmed
  <2> HIDE DEF head
  <2>2. 1 \in DOMAIN repo.heads /\ repo.heads[1] = head
    BY <1>1
  <2> QED
    BY <2>1, <2>2 DEF ReadRef
<1>5. \A i \in 1 .. l : ext(i) # ".commit"
  BY DEF Extension
<1>6. ReadObject(repo, Text(0), ".commit") = Ok(Commit(bodyEnd, Checksum(1)))
  <2> DEFINE n == <<Text(0), ".commit">>
  <2>1. n \in D /\ n[2] = ".commit"
    OBVIOUS
  <2> HIDE DEF D, n
  <2>2. n \in DOMAIN objects /\ objects[n] = Commit(bodyEnd, Checksum(1))
    BY <2>1
  <2> HIDE DEF objects
  <2> QED
    BY <1>1, <2>2 DEF ReadObject, n
<1>7. ASSUME NEW i \in 1 .. l
      PROVE  ReadObject(repo, Text(i), ext(i)) = Ok(Object(tree, i, compressed))
  <2> DEFINE n == <<Text(i), ext(i)>>
  <2>1. n \in D /\ n[2] # ".commit" /\ n[1] = Text(i)
    BY <1>5
  <2>2. (CHOOSE j \in 1 .. l : Text(j) = Text(i)) = i
    <3>1. \A j \in 1 .. l : Text(j) = Text(i) => j = i
      BY <1>2, TextsDiffer
    <3> HIDE DEF l
    <3> QED
      BY <3>1
  <2> HIDE DEF D, n, ext, l
  <2>3. n \in DOMAIN objects /\ objects[n] = Object(tree, i, compressed)
    BY <2>1, <2>2
  <2> HIDE DEF objects
  <2> QED
    BY <1>1, <2>3 DEF ReadObject, n
<1>8. ASSUME NEW i \in 1 .. l, tree[i].dir = TRUE
      PROVE  ReadObject(repo, Text(i), ".dirtree") = Ok(Dirtree(tree, i))
  <2>1. ext(i) = ".dirtree" /\ Object(tree, i, compressed) = Dirtree(tree, i)
    BY <1>8 DEF Extension, Object
  <2> HIDE DEF ext, objects, l
  <2> QED
    BY <1>7, <2>1
<1>9. ASSUME NEW i \in 1 .. l, tree[i].dir = FALSE
      PROVE  readContentObject(repo, Text(i)) = Ok(tree[i].content)
  <2>1. CASE compressed = FALSE
    <3>1. ext(i) = ".file" /\ Object(tree, i, compressed) = tree[i].content
      BY <1>9, <2>1 DEF Extension, Object
    <3>2. ReadObject(repo, Text(i), ".file") = Ok(tree[i].content)
      <4> HIDE DEF ext, objects, l
      <4> QED
        BY <1>7, <3>1
    <3> HIDE DEF ext, objects, l
    <3>3. Ok(tree[i].content).ok = TRUE
      BY DEF Ok
    <3> QED
      BY <3>2, <3>3 DEF readContentObject
  <2>2. CASE compressed = TRUE
    <3> DEFINE rec == [len |-> 40, headerSize |-> 20, start |-> 28, content |-> tree[i].content]
    <3>1. ext(i) = ".filez" /\ Object(tree, i, compressed) = rec
      BY <1>9, <2>2 DEF Extension, Object
    <3>2. ReadObject(repo, Text(i), ".filez") = Ok(rec)
      <4> HIDE DEF ext, objects, l, rec
      <4> QED
        BY <1>7, <3>1
    <3>3. ReadObject(repo, Text(i), ".file") = Failed
      <4>1. <<Text(i), ".file">> \notin D
        <5>1. \A j \in 1 .. l : ext(j) # ".file"
          BY <2>2 DEF Extension
        <5> HIDE DEF ext, l
        <5> QED
          BY <5>1
      <4>2. DOMAIN repo.objects = D
        <5> HIDE DEF D
        <5> QED
          BY <1>1
      <4> HIDE DEF D, objects
      <4> QED
        BY <4>1, <4>2 DEF ReadObject
    <3> DEFINE bare == ReadObject(repo, Text(i), ".file")
               raw == ReadObject(repo, Text(i), ".filez")
               contentStart == 8 + raw.val.headerSize
    <3>4. readContentObject(repo, Text(i)) =
            IF bare.ok THEN bare
            ELSE IF raw.ok /\ raw.val.len >= 8 /\ raw.val.headerSize # 0
                    /\ contentStart <= raw.val.len /\ contentStart = raw.val.start
            THEN Ok(raw.val.content)
            ELSE Failed
      BY DEF readContentObject
    <3>5. bare.ok = FALSE
      BY <3>3 DEF Failed
    <3>6. /\ raw.ok = TRUE /\ raw.val.len = 40 /\ raw.val.headerSize = 20
          /\ raw.val.start = 28 /\ raw.val.content = tree[i].content
      BY <3>2 DEF Ok
    <3> HIDE DEF bare, raw, ext, objects, l, D
    <3>7. contentStart = 28
      BY <3>6
    <3> HIDE DEF contentStart
    <3> QED
      BY <3>4, <3>5, <3>6, <3>7
  <2> QED
    BY <2>1, <2>2
<1> QED
  BY <1>4, <1>6, <1>8, <1>9 DEF HasObjects, repo

\* The directory that a path leads to, as far as reading it has come.
Reached(s, tree, p) ==
  /\ \A d \in 1 .. Len(tree) : tree[d].dir = TRUE /\ tree[d].path = p => s = Ok(Text(d))
  /\ (~\E d \in 1 .. Len(tree) : tree[d].dir = TRUE /\ tree[d].path = p) => s.ok = FALSE

\* The entry of a name in the directory of a path, and an error without one.
EntryThere(x, tree, p, name) ==
  /\ \A d \in 1 .. Len(tree) : tree[d].dir = TRUE /\ tree[d].path = p => EntryFound(x, tree, d, name)
  /\ (~\E d \in 1 .. Len(tree) : tree[d].dir = TRUE /\ tree[d].path = p) => x.ok = FALSE

\* The code finds that entry once it has reached the directory.
LEMMA EntryIs ==
  ASSUME NEW repo, NEW tree, IsTree(tree), NEW bodyEnd, HasObjects(repo, tree, bodyEnd),
         NEW s, NEW p \in Seq(Names), Reached(s, tree, p), NEW name \in Names
  PROVE  EntryThere(Entry(repo, s, name), tree, p, name)
<1>1. ASSUME NEW d \in 1 .. Len(tree), tree[d].dir = TRUE, tree[d].path = p
      PROVE  EntryFound(Entry(repo, s, name), tree, d, name)
  <2>1. s = Ok(Text(d))
    BY <1>1 DEF Reached
  <2>2. s.ok = TRUE /\ s.val = Text(d)
    BY <2>1 DEF Ok
  <2>3. ReadObject(repo, Text(d), ".dirtree") = Ok(Dirtree(tree, d))
    BY <1>1 DEF HasObjects
  <2>4. Ok(Dirtree(tree, d)).ok = TRUE /\ Ok(Dirtree(tree, d)).val = Dirtree(tree, d)
    BY DEF Ok
  <2>5. Entry(repo, s, name) = lookupDirtree(Dirtree(tree, d), name)
    BY <2>2, <2>3, <2>4 DEF Entry
  <2> QED
    BY <2>5, DirtreeLookup
<1>2. ASSUME ~\E d \in 1 .. Len(tree) : tree[d].dir = TRUE /\ tree[d].path = p
      PROVE  Entry(repo, s, name).ok = FALSE
  <2>1. s.ok = FALSE
    BY <1>2 DEF Reached
  <2>2. Entry(repo, s, name) = Failed
    BY <2>1 DEF Entry
  <2> QED
    BY <2>2 DEF Failed
<1> QED
  BY <1>1, <1>2 DEF EntryThere

\* Everything in an image is in a directory of it.
LEMMA ParentIs ==
  ASSUME NEW tree, IsTree(tree), NEW i \in 1 .. Len(tree), NEW p \in Seq(Names), NEW name \in Names,
         tree[i].path = Append(p, name)
  PROVE  \E d \in 1 .. Len(tree) : tree[d].dir = TRUE /\ tree[d].path = p
<1>1. Append(p, name) # <<>> /\ Front(Append(p, name)) = p
  BY EntryOfPath
<1>2. i # 1
  BY <1>1, TreeNodes
<1>3. PICK d \in DOMAIN tree : tree[d].dir /\ tree[d].path = Front(tree[i].path)
  BY <1>2 DEF IsTree
<1>4. d \in 1 .. Len(tree)
  BY <1>3 DEF IsTree
<1>5. tree[d].dir \in BOOLEAN
  BY <1>4, TreeNodes
<1> QED
  BY <1>1, <1>3, <1>4, <1>5

\* A step along a path.
LEMMA StepDown ==
  ASSUME NEW repo, NEW tree, IsTree(tree), NEW bodyEnd, HasObjects(repo, tree, bodyEnd),
         NEW s, NEW p \in Seq(Names), Reached(s, tree, p), NEW name \in Names
  PROVE  Reached(Subdir(repo, s, name), tree, Append(p, name))
<1> DEFINE e == Entry(repo, s, name)  t == Subdir(repo, s, name)  q == Append(p, name)
           There(d) == tree[d].dir = TRUE /\ tree[d].path = p
<1>0. t = IF e.ok /\ e.val.subdir # NotFound THEN Ok(e.val.subdir) ELSE Failed
  BY DEF Subdir
<1>1. /\ \A d \in 1 .. Len(tree) : There(d) => EntryFound(e, tree, d, name)
      /\ (~\E d \in 1 .. Len(tree) : There(d)) => e.ok = FALSE
  <2>1. EntryThere(e, tree, p, name)
    BY EntryIs
  <2> HIDE DEF e
  <2> QED
    BY <2>1 DEF EntryThere
<1> HIDE DEF e, t, There
<1>2. ASSUME NEW j \in 1 .. Len(tree), tree[j].dir = TRUE, tree[j].path = q
      PROVE  t = Ok(Text(j))
  <2>1. PICK d \in 1 .. Len(tree) : There(d)
    BY <1>2, ParentIs DEF There
  <2>2. e.ok = TRUE /\ NodeFound(e.val.subdir, tree, d, TRUE, name)
    BY <1>1, <2>1 DEF EntryFound
  <2>3. IsEntry(tree, d, TRUE, name, j)
    BY <1>2, <2>1 DEF IsEntry, There
  <2>4. e.val.subdir = Text(j)
    BY <2>2, <2>3 DEF NodeFound
  <2>5. Text(j) # NotFound
    BY TreeNodes, TextIs
  <2> QED
    BY <1>0, <2>2, <2>4, <2>5
<1>3. ASSUME ~\E j \in 1 .. Len(tree) : tree[j].dir = TRUE /\ tree[j].path = q
      PROVE  t.ok = FALSE
  <2>1. CASE \E d \in 1 .. Len(tree) : There(d)
    <3>1. PICK d \in 1 .. Len(tree) : There(d)
      BY <2>1
    <3>2. e.ok = TRUE /\ NodeFound(e.val.subdir, tree, d, TRUE, name)
      BY <1>1, <3>1 DEF EntryFound
    <3>3. ~\E j \in 1 .. Len(tree) : IsEntry(tree, d, TRUE, name, j)
      BY <1>3, <3>1 DEF IsEntry, There
    <3>4. e.val.subdir = NotFound
      BY <3>2, <3>3 DEF NodeFound
    <3>5. t = Failed
      BY <1>0, <3>4
    <3> QED
      BY <3>5 DEF Failed
  <2>2. CASE ~\E d \in 1 .. Len(tree) : There(d)
    <3>1. t = Failed
      BY <1>0, <1>1, <2>2
    <3> QED
      BY <3>1 DEF Failed
  <2> QED
    BY <2>1, <2>2
<1> QED
  BY <1>2, <1>3 DEF Reached, t

\* The root that the commit of the head names.
RootOf(repo) ==
  LET commit == ReadRef(repo, 1)
      data == ReadObject(repo, commit.val, ".commit")
  IN  IF commit.ok /\ data.ok THEN rootDirtreeHash(data.val) ELSE Failed

\* It is the root of the tree.
LEMMA RootReached ==
  ASSUME NEW repo, NEW tree, IsTree(tree), NEW bodyEnd \in 0 .. MaxBody, HasObjects(repo, tree, bodyEnd)
  PROVE  Reached(RootOf(repo), tree, <<>>)
<1> DEFINE c == Commit(bodyEnd, Checksum(1))
<1>1. ReadRef(repo, 1) = Ok(Text(0)) /\ ReadObject(repo, Text(0), ".commit") = Ok(c)
  BY DEF HasObjects
<1>2. rootDirtreeHash(c) = Ok(Text(1))
  <2>1. 1 \in Bytes
    BY DEF Bytes
  <2>2. Checksum(1) \in Seq(Bytes) /\ Len(Checksum(1)) = HashLen
    BY <2>1, ChecksumIs
  <2> HIDE DEF c
  <2>3. rootDirtreeHash(c) = Ok(EncodeToString(Checksum(1)))
    BY <2>2, CommitRoot DEF c
  <2> QED
    BY <2>3 DEF Text
<1> HIDE DEF c
<1>3. /\ Ok(Text(0)).ok = TRUE /\ Ok(Text(0)).val = Text(0)
      /\ Ok(c).ok = TRUE /\ Ok(c).val = c
  BY DEF Ok
<1>4. RootOf(repo) = Ok(Text(1))
  BY <1>1, <1>2, <1>3 DEF RootOf
<1>5. 1 \in 1 .. Len(tree) /\ tree[1].dir = TRUE /\ tree[1].path = <<>>
  BY TreeNodes
<1>6. \A d \in 1 .. Len(tree) : tree[d].path = <<>> => d = 1
  <2>1. \A i \in 1 .. Len(tree), j \in 1 .. Len(tree) : tree[i].path = tree[j].path => i = j
    BY TreeNodes
  <2> QED
    BY <1>5, <2>1
<1> QED
  BY <1>4, <1>5, <1>6 DEF Reached

\* The directory of a path, from the root along its parts.
LEMMA PathReached ==
  ASSUME NEW repo, NEW tree, IsTree(tree), NEW bodyEnd, HasObjects(repo, tree, bodyEnd),
         NEW root, Reached(root, tree, <<>>), NEW p \in Seq(Names)
  PROVE  Reached(Along(repo, root, p), tree, p)
<1> DEFINE l == Len(p)
           end == Along(repo, root, p)
<1>1. l \in Nat /\ DOMAIN p = 1 .. l
  OBVIOUS
<1> HIDE DEF l
<1>a. PICK it : Walks(it, repo, root, p, l)
  BY <1>1, PartsLoop
<1>2. /\ end = it[1 .. l] /\ it[1 .. 0] = root
      /\ \A k \in 1 .. l : it[1 .. k] = Subdir(repo, it[1 .. (k - 1)], p[k])
  BY <1>a DEF Walks
<1> HIDE DEF end
<1> DEFINE Right(k) == Reached(it[1 .. k], tree, SubSeq(p, 1, k))
           T == {k \in 0 .. l : ~Right(k)}
<1>3. T = {}
  <2>1. SUFFICES ASSUME T # {} PROVE FALSE
    OBVIOUS
  <2>2. T \subseteq Nat
    BY <1>1
  <2>3. PICK k \in T : \A m \in T : k =< m
    <3> HIDE DEF T
    <3> QED
      BY <2>1, <2>2, LeastNumber
  <2>4. k \in 0 .. l /\ ~Right(k)
    BY <2>3
  <2>5. k # 0
    <3>1. SubSeq(p, 1, 0) = <<>>
      OBVIOUS
    <3>2. Right(0)
      BY <1>2, <3>1
    <3> HIDE DEF Right
    <3> QED
      BY <2>4, <3>2
  <2>6. k \in 1 .. l /\ k - 1 \in 0 .. l /\ k - 1 \in Nat /\ ~(k =< k - 1)
    BY <1>1, <2>4, <2>5
  <2>7. Right(k - 1)
    <3> HIDE DEF Right
    <3> QED
      BY <2>3, <2>6
  <2>8. SubSeq(p, 1, k - 1) \in Seq(Names) /\ p[k] \in Names
        /\ SubSeq(p, 1, k) = Append(SubSeq(p, 1, k - 1), p[k])
    BY <1>1, <2>6 DEF l
  <2> DEFINE s == it[1 .. (k - 1)]  q == SubSeq(p, 1, k - 1)
  <2>9. Reached(s, tree, q)
    BY <2>7
  <2>10. it[1 .. k] = Subdir(repo, s, p[k])
    BY <1>2, <2>6
  <2> HIDE DEF s, q
  <2>11. Reached(Subdir(repo, s, p[k]), tree, Append(q, p[k]))
    BY <2>8, <2>9, StepDown DEF q
  <2>12. Right(k)
    BY <2>8, <2>10, <2>11 DEF q
  <2> QED
    BY <2>4, <2>12
<1>4. Right(l)
  <2> HIDE DEF Right
  <2> QED
    BY <1>1, <1>3
<1>5. SubSeq(p, 1, l) = p
  BY DEF l
<1> QED
  BY <1>2, <1>4, <1>5 DEF end

\* What reading a path of an image gives: the file's content, or an error.
FileRead(r, tree, path) ==
  /\ \A i \in 1 .. Len(tree) : tree[i].dir = FALSE /\ tree[i].path = path => r = Ok(tree[i].content)
  /\ (~\E i \in 1 .. Len(tree) : tree[i].dir = FALSE /\ tree[i].path = path) => r.ok = FALSE

\* ReadFile gives just that, for every path.
LEMMA FileIs ==
  ASSUME NEW repo, NEW tree, IsTree(tree), NEW bodyEnd \in 0 .. MaxBody, HasObjects(repo, tree, bodyEnd),
         NEW path \in Seq(Names), path # <<>>
  PROVE  FileRead(ReadFile(repo, 1, path), tree, path)
<1> DEFINE root == RootOf(repo)
           p == Front(path)
           name == Last(path)
           s == Along(repo, root, p)
           e == Entry(repo, s, name)
           r == ReadFile(repo, 1, path)
           There(d) == tree[d].dir = TRUE /\ tree[d].path = p
<1>0. r = IF e.ok /\ e.val.file # NotFound THEN readContentObject(repo, e.val.file) ELSE Failed
  BY DEF ReadFile, RootOf, Along
<1>1. path = Append(p, name) /\ p \in Seq(Names) /\ name \in Names
  BY PathOfEntry
<1> HIDE DEF p, name, r
<1>2. Reached(root, tree, <<>>)
  BY RootReached
<1> HIDE DEF root
<1>3. Reached(s, tree, p)
  BY <1>1, <1>2, PathReached
<1> HIDE DEF s
<1>4. EntryThere(e, tree, p, name)
  BY <1>1, <1>3, EntryIs
<1> HIDE DEF e
<1>5. /\ \A d \in 1 .. Len(tree) : There(d) => EntryFound(e, tree, d, name)
      /\ (~\E d \in 1 .. Len(tree) : There(d)) => e.ok = FALSE
  BY <1>4 DEF EntryThere
<1> HIDE DEF There
<1>6. ASSUME NEW i \in 1 .. Len(tree), tree[i].dir = FALSE, tree[i].path = path
      PROVE  r = Ok(tree[i].content)
  <2>1. PICK d \in 1 .. Len(tree) : There(d)
    <3>0. tree[i].path = Append(p, name) /\ p \in Seq(Names) /\ name \in Names
      BY <1>1, <1>6
    <3>1. \E d \in 1 .. Len(tree) : tree[d].dir = TRUE /\ tree[d].path = p
      BY <3>0, ParentIs
    <3> QED
      BY <3>1 DEF There
  <2>2. e.ok = TRUE /\ NodeFound(e.val.file, tree, d, FALSE, name)
    BY <1>5, <2>1 DEF EntryFound
  <2>3. IsEntry(tree, d, FALSE, name, i)
    BY <1>1, <1>6, <2>1 DEF IsEntry, There
  <2>4. e.val.file = Text(i)
    BY <2>2, <2>3 DEF NodeFound
  <2>5. Text(i) # NotFound
    BY TreeNodes, TextIs
  <2>6. readContentObject(repo, Text(i)) = Ok(tree[i].content)
    BY <1>6 DEF HasObjects
  <2> QED
    BY <1>0, <2>2, <2>4, <2>5, <2>6
<1>7. ASSUME ~\E i \in 1 .. Len(tree) : tree[i].dir = FALSE /\ tree[i].path = path
      PROVE  r.ok = FALSE
  <2>1. CASE \E d \in 1 .. Len(tree) : There(d)
    <3>1. PICK d \in 1 .. Len(tree) : There(d)
      BY <2>1
    <3>2. e.ok = TRUE /\ NodeFound(e.val.file, tree, d, FALSE, name)
      BY <1>5, <3>1 DEF EntryFound
    <3>3. ~\E i \in 1 .. Len(tree) : IsEntry(tree, d, FALSE, name, i)
      BY <1>1, <1>7, <3>1 DEF IsEntry, There
    <3>4. e.val.file = NotFound
      BY <3>2, <3>3 DEF NodeFound
    <3>5. r = Failed
      BY <1>0, <3>4
    <3> QED
      BY <3>5 DEF Failed
  <2>2. CASE ~\E d \in 1 .. Len(tree) : There(d)
    <3>1. r = Failed
      BY <1>0, <1>5, <2>2
    <3> QED
      BY <3>1 DEF Failed
  <2> QED
    BY <2>1, <2>2
<1> QED
  BY <1>6, <1>7 DEF FileRead, r

-----------------------------------------------------------------------------
(* What the probe of an image finds *)

\* A value of a file of an image, read from the repository: as the file has it.
LEMMA ValueRead ==
  ASSUME NEW r, NEW tree, IsTree(tree), NEW path, FileRead(r, tree, path), NEW key
  PROVE  (IF r.ok THEN parseKeyValue(r.val, key) ELSE 0) = TreeValue(tree, path, key)
<1> DEFINE I == {i \in DOMAIN tree : ~tree[i].dir /\ tree[i].path = path}
<1>1. TreeValue(tree, path, key) = IF I = {} THEN 0 ELSE parseKeyValue(tree[Min(I)].content, key)
  BY DEF TreeValue
<1>2. DOMAIN tree = 1 .. Len(tree)
  BY DEF IsTree
<1>3. \A i \in 1 .. Len(tree) : tree[i].dir \in BOOLEAN
  BY TreeNodes
<1>4. I = {i \in 1 .. Len(tree) : tree[i].dir = FALSE /\ tree[i].path = path}
  BY <1>2, <1>3
<1> HIDE DEF I
<1>5. CASE I = {}
  <2>1. r.ok = FALSE
    BY <1>4, <1>5 DEF FileRead
  <2> QED
    BY <1>1, <1>5, <2>1
<1>6. CASE I # {}
  <2>1. Len(tree) \in Nat /\ I \in SUBSET (1 .. Len(tree))
    BY <1>4, TreeNodes
  <2>2. Min(I) \in I
    BY <1>6, <2>1, MinIs
  <2> DEFINE m == Min(I)
  <2> HIDE DEF m
  <2>3. m \in 1 .. Len(tree) /\ tree[m].dir = FALSE /\ tree[m].path = path
    BY <1>4, <2>2 DEF m
  <2>4. r = Ok(tree[m].content)
    BY <2>3 DEF FileRead
  <2>5. r.ok = TRUE /\ r.val = tree[m].content
    BY <2>4 DEF Ok
  <2> QED
    BY <1>1, <1>6, <2>5 DEF m
<1> QED
  BY <1>5, <1>6

\* The architecture of an image by its loader.
ArchOf(tree) == IF \E i \in DOMAIN tree : ~tree[i].dir /\ tree[i].path = ArmLoader THEN arm64 ELSE amd64

\* detectArch finds it from what reading the loader gives.
LEMMA ArchRead ==
  ASSUME NEW r, NEW tree, IsTree(tree), FileRead(r, tree, ArmLoader)
  PROVE  (IF r.ok THEN arm64 ELSE amd64) = ArchOf(tree)
<1>2. DOMAIN tree = 1 .. Len(tree)
  BY DEF IsTree
<1>3. \A i \in 1 .. Len(tree) : tree[i].dir \in BOOLEAN
  BY TreeNodes
<1>5. CASE \E i \in 1 .. Len(tree) : tree[i].dir = FALSE /\ tree[i].path = ArmLoader
  <2>1. PICK i \in 1 .. Len(tree) : tree[i].dir = FALSE /\ tree[i].path = ArmLoader
    BY <1>5
  <2>2. r = Ok(tree[i].content)
    BY <2>1 DEF FileRead
  <2>3. r.ok = TRUE
    BY <2>2 DEF Ok
  <2> QED
    BY <1>2, <2>1, <2>3 DEF ArchOf
<1>6. CASE ~\E i \in 1 .. Len(tree) : tree[i].dir = FALSE /\ tree[i].path = ArmLoader
  <2>1. r.ok = FALSE
    BY <1>6 DEF FileRead
  <2>2. ~\E i \in DOMAIN tree : ~tree[i].dir /\ tree[i].path = ArmLoader
    BY <1>2, <1>3, <1>6
  <2> QED
    BY <2>1, <2>2 DEF ArchOf
<1> QED
  BY <1>5, <1>6

\* The paths that the probe reads.
LEMMA ProbedPaths ==
  /\ OsRelease \in Seq(Names) /\ OsRelease # <<>>
  /\ HardwareToml \in Seq(Names) /\ HardwareToml # <<>>
  /\ ArmLoader \in Seq(Names) /\ ArmLoader # <<>>
<1>1. /\ <<1>> \in Names /\ <<2>> \in Names /\ <<3>> \in Names /\ <<4>> \in Names
      /\ <<4, 4>> \in Names /\ <<5>> \in Names /\ <<6>> \in Names
  BY DEF Names
<1> HIDE DEF Names
<1> QED
  BY <1>1 DEF OsRelease, HardwareToml, ArmLoader

\* What the probe of an image finds: what its files say.
HardwareOf(tree) ==
  IF TreeValue(tree, HardwareToml, "primary_ecu_hardware_id") # 0
  THEN TreeValue(tree, HardwareToml, "primary_ecu_hardware_id") ELSE ArchOf(tree)
VersionOf(tree) == Atoi(TreeValue(tree, OsRelease, "IMAGE_VERSION"))

\* probeOstree finds that, for every tree and every size of a commit.
LEMMA ProbeIs ==
  ASSUME NEW tree, IsTree(tree), NEW bodyEnd \in 0 .. MaxBody, NEW compressed \in BOOLEAN
  PROVE  probeOstree(Encode(tree, bodyEnd, compressed))
           = Ok([hash |-> Text(0), hardwareId |-> HardwareOf(tree), appVersion |-> VersionOf(tree)])
<1> DEFINE repo == Encode(tree, bodyEnd, compressed)
           release == ReadFile(repo, 1, OsRelease)
           toml == ReadFile(repo, 1, HardwareToml)
           loader == ReadFile(repo, 1, ArmLoader)
           id == IF toml.ok THEN parseKeyValue(toml.val, "primary_ecu_hardware_id") ELSE 0
           ver == IF release.ok THEN Atoi(parseKeyValue(release.val, "IMAGE_VERSION")) ELSE 0
<1>1. HasObjects(repo, tree, bodyEnd)
  BY ObjectsAre
<1>2. DOMAIN repo.heads = {1}
  BY DEF Encode
<1> HIDE DEF repo
<1>3. ListHeads(repo) = {1} /\ Min({1}) = 1
  <2>1. Min({1}) = 1
    BY DEF Min
  <2> QED
    BY <1>2, <2>1 DEF ListHeads
<1>4. ReadRef(repo, 1) = Ok(Text(0)) /\ Ok(Text(0)).ok = TRUE /\ Ok(Text(0)).val = Text(0)
  BY <1>1 DEF HasObjects, Ok
<1>5. /\ FileRead(release, tree, OsRelease)
      /\ FileRead(toml, tree, HardwareToml)
      /\ FileRead(loader, tree, ArmLoader)
  BY <1>1, ProbedPaths, FileIs
<1>6. probeOstree(repo)
        = Ok([hash |-> Text(0), hardwareId |-> IF id # 0 THEN id ELSE IF loader.ok THEN arm64 ELSE amd64,
              appVersion |-> ver])
  BY <1>3, <1>4 DEF probeOstree, detectArch
<1> HIDE DEF release, toml, loader
<1>7. id = TreeValue(tree, HardwareToml, "primary_ecu_hardware_id")
  BY <1>5, ValueRead
<1>8. ver = VersionOf(tree)
  <2>1. (IF release.ok THEN parseKeyValue(release.val, "IMAGE_VERSION") ELSE 0)
          = TreeValue(tree, OsRelease, "IMAGE_VERSION")
    BY <1>5, ValueRead
  <2>2. Atoi(0) = 0
    BY DEF Atoi
  <2>3. CASE release.ok
    BY <2>1, <2>3 DEF VersionOf
  <2>4. CASE ~release.ok
    BY <2>1, <2>2, <2>4 DEF VersionOf
  <2> QED
    BY <2>3, <2>4
<1>9. (IF loader.ok THEN arm64 ELSE amd64) = ArchOf(tree)
  BY <1>5, ArchRead
<1> HIDE DEF id, ver
<1> QED
  BY <1>6, <1>7, <1>8, <1>9 DEF HardwareOf, repo

\* The options of an upload say of its image what the files of the image say.
Describes(from, hardwareId, version) ==
  \A d \in Descriptions : from = d.from => hardwareId = d.hardwareId /\ version = d.version

\* The options of every upload that is not refused do.
LEMMA OptionsDescribe ==
  ASSUME NEW o \in TargetOptions
  PROVE  Describes(o.from, o.opts.hardwareId, o.opts.appVersion)
<1> DEFINE probed(c) == IF c.repo = None THEN Ok(Unset) ELSE probeOstree(c.repo)
           options(c) == IF probed(c).ok THEN Override(c.given, probed(c).val) ELSE Unset
           hardware(c) == IF c.given.hardwareId # 0 THEN c.given.hardwareId ELSE HardwareOf(c.tree)
           version(c) == IF c.given.appVersion # 0 THEN c.given.appVersion ELSE VersionOf(c.tree)
<1>1. PICK i \in DOMAIN Contents : o = [from |-> i, opts |-> options(Contents[i])]
  BY DEF TargetOptions
<1>2. SUFFICES ASSUME NEW d \in Descriptions, o.from = d.from
               PROVE  o.opts.hardwareId = d.hardwareId /\ o.opts.appVersion = d.version
  BY DEF Describes
<1>3. PICK j \in {k \in DOMAIN Contents : Contents[k].tree # <<>>} :
        d = [from |-> j, hardwareId |-> hardware(Contents[j]), version |-> version(Contents[j])]
  BY DEF Descriptions, HardwareOf, VersionOf, ArchOf
<1> DEFINE c == Contents[i]
<1>4. /\ i = j /\ c.tree # <<>> /\ i \in DOMAIN Contents
      /\ o.opts = options(c) /\ d.hardwareId = hardware(c) /\ d.version = version(c)
  <2> HIDE DEF options, hardware, version
  <2>1. o.from = i /\ o.opts = options(c)
    BY <1>1
  <2>2. d.from = j /\ d.hardwareId = hardware(Contents[j]) /\ d.version = version(Contents[j])
    BY <1>3
  <2> QED
    BY <1>2, <1>3, <2>1, <2>2
<1>5. /\ IsTree(c.tree) /\ c.bodyEnd \in 0 .. MaxBody /\ c.compressed \in BOOLEAN
      /\ c.repo = Encode(c.tree, c.bodyEnd, c.compressed) /\ c.repo # None
  BY <1>4, ImageAssumption
<1> HIDE DEF c
<1> DEFINE found == [hash |-> Text(0), hardwareId |-> HardwareOf(c.tree), appVersion |-> VersionOf(c.tree)]
<1>6. probeOstree(c.repo) = Ok(found)
  BY <1>5, ProbeIs
<1>7. probed(c) = Ok(found)
  BY <1>5, <1>6
<1>8. probed(c).ok = TRUE /\ probed(c).val = found
  BY <1>7 DEF Ok
<1> HIDE DEF probed
<1>9. options(c) = Override(c.given, found)
  BY <1>8
<1> HIDE DEF options
<1>10. /\ Override(c.given, found).hardwareId = hardware(c)
       /\ Override(c.given, found).appVersion = version(c)
  BY DEF Override
<1> QED
  BY <1>4, <1>9, <1>10

-----------------------------------------------------------------------------
(* Targets describe their image *)

\* The targets file of a directory describes the image it was made for.
Truthful(d) ==
  \A x \in Descriptions :
    d.targets # NoFile /\ d.targets.of.from = x.from =>
      d.targets.of.hardwareId = x.hardwareId /\ x.version \in {0, d.targets.tgt}

\* The metadata of an upload describe its image, and so do those of the updates.
TruthInv ==
  /\ \A u \in Updates : Busy(u) => Truthful(upl[u].files)
  /\ \A u \in Updates : u \in rows \/ Saved(u) => Truthful(dir[u])

\* Targets that come with an upload are not about one of the images.
LEMMA SuppliedTruthful ==
  ASSUME NEW d \in Supplied
  PROVE  Truthful(d)
<1>1. d.targets.of.from = 0 /\ 0 \notin DOMAIN Contents
  BY SuppliedAssumption
<1>2. \A x \in Descriptions : x.from \in DOMAIN Contents
  BY DEF Descriptions
<1> QED
  BY <1>1, <1>2 DEF Truthful

\* GenerateTufMeta makes targets that describe the image of the upload.
LEMMA GeneratedTruthful ==
  ASSUME NEW o \in TargetOptions
  PROVE  Truthful(GenerateTufMeta(o))
<1> DEFINE v == getLatestVersions + 1
           app == o.opts.appVersion
           t == IF app # 0 THEN app ELSE getLatestTargetVersion + 1
           f == [from |-> o.from, hash |-> o.opts.hash, hardwareId |-> o.opts.hardwareId]
           d == Signed(v, t, f, now + TimestampExpiration, linkRoots, signers)
<1>1. GenerateTufMeta(o) = d
  BY DEF GenerateTufMeta
<1>2. Describes(o.from, o.opts.hardwareId, app)
  BY OptionsDescribe
<1> HIDE DEF v
<1>3. d.targets.of = f /\ d.targets.tgt = t
  BY DEF Signed, Targets
<1>4. f.from = o.from /\ f.hardwareId = o.opts.hardwareId
  OBVIOUS
<1> HIDE DEF f, d, app
<1>5. ASSUME NEW x \in Descriptions, d.targets.of.from = x.from
      PROVE  d.targets.of.hardwareId = x.hardwareId /\ x.version \in {0, d.targets.tgt}
  <2>1. o.opts.hardwareId = x.hardwareId /\ app = x.version
    BY <1>2, <1>3, <1>4, <1>5 DEF Describes
  <2> QED
    BY <1>3, <1>4, <2>1
<1> QED
  BY <1>1, <1>5 DEF Truthful

\* A step that keeps what is known of each directory keeps TruthInv.
LEMMA TruthFrame ==
  ASSUME TruthInv,
         \A u \in Updates : Busy(u)' => Busy(u) /\ upl'[u].files = upl[u].files,
         \A u \in Updates : u \in rows' \/ Saved(u)' =>
           (u \in rows \/ Saved(u)) /\ dir'[u].targets \in {dir[u].targets, NoFile}
  PROVE  TruthInv'
<1>1. ASSUME NEW u \in Updates, Busy(u)' PROVE Truthful(upl[u].files)'
  <2>1. Busy(u) /\ upl'[u].files = upl[u].files
    BY <1>1
  <2> QED
    BY <2>1 DEF TruthInv, Truthful
<1>2. ASSUME NEW u \in Updates, u \in rows' \/ Saved(u)' PROVE Truthful(dir[u])'
  <2>1. (u \in rows \/ Saved(u)) /\ dir'[u].targets \in {dir[u].targets, NoFile}
    BY <1>2
  <2> QED
    BY <2>1 DEF TruthInv, Truthful
<1> QED
  BY <1>1, <1>2 DEF TruthInv

\* Spec keeps TruthInv.
THEOREM TruthInvariant == Spec => []TruthInv
<1>1. Init => TruthInv
  BY DEF Init, TruthInv, Busy, Saved, NoUpload
<1>2. LifeInv /\ TruthInv /\ [Next]_vars => TruthInv'
  <2> SUFFICES ASSUME LifeInv, TruthInv, [Next]_vars
               PROVE  TruthInv'
    OBVIOUS
  <2>0. ASSUME UNCHANGED <<dir, upl, rows>>
        PROVE  TruthInv'
    BY <2>0, TruthFrame DEF Busy, Saved
  <2>1. CASE DiskStep
    BY <2>0, <2>1, DiskFrame
  <2>2. CASE \/ LoadTuf \/ CheckIn \/ metaTimestamp \/ Tick \/ RefreshTufTimestamps \/ ListFails
             \/ UNCHANGED vars
    BY <2>0, <2>2 DEF LoadTuf, CheckIn, metaTimestamp, Tick, RefreshTufTimestamps, ListFails, vars, store
  <2>3. CASE Crash
    <3>1. UNCHANGED <<dir, rows>> /\ \A u \in Updates : upl'[u] = NoUpload
      BY <2>3 DEF Crash
    <3> QED
      BY <3>1, TruthFrame DEF Busy, Saved, NoUpload
  <2>4. ASSUME NEW u \in Updates, NEW g, Unpacked(u, g), Truthful(g), UNCHANGED <<dir, rows>>
        PROVE  TruthInv'
    <3>1. Truthful(g)
      BY <2>4
    <3>2. /\ UNCHANGED <<dir, rows>>
          /\ upl' = [upl EXCEPT ![u] = [pc |-> "generated", files |-> g]]
      BY <2>4 DEF Unpacked
    <3>3. /\ upl'[u] = [pc |-> "generated", files |-> g]
          /\ \A w \in Updates \ {u} : upl'[w] = upl[w]
      BY <3>2 DEF LifeInv, Shapes
    <3>4. ~Saved(u)' /\ upl'[u].files = g
      BY <3>3 DEF Saved
    <3>5. ASSUME NEW w \in Updates, Busy(w)' PROVE Truthful(upl[w].files)'
      <4>1. CASE w = u
        BY <3>1, <3>4, <4>1 DEF Truthful
      <4>2. CASE w # u
        BY <3>3, <3>5, <4>2 DEF TruthInv, Truthful, Busy
      <4> QED
        BY <4>1, <4>2
    <3>6. ASSUME NEW w \in Updates, w \in rows' \/ Saved(w)' PROVE Truthful(dir[w])'
      <4>1. w \in rows \/ Saved(w)
        BY <3>2, <3>3, <3>4, <3>6 DEF Saved
      <4> QED
        BY <3>2, <4>1 DEF TruthInv, Truthful
    <3> QED
      BY <3>5, <3>6 DEF TruthInv
  <2>4a. ASSUME NEW u \in Updates, NEW o \in TargetOptions, generateUpdateTuf(u, o)
         PROVE  TruthInv'
    <3>1. PICK g : g = GenerateTufMeta(o)
      OBVIOUS
    <3>2. Unpacked(u, g) /\ UNCHANGED <<dir, rows>>
      BY <2>4a, <3>1 DEF generateUpdateTuf
    <3>3. Truthful(g)
      BY <3>1, GeneratedTruthful
    <3> QED
      BY <2>4, <3>2, <3>3
  <2>4b. ASSUME NEW u \in Updates, NEW d \in Supplied, sawTuf(u, d)
         PROVE  TruthInv'
    <3>1. Unpacked(u, d) /\ UNCHANGED <<dir, rows>>
      BY <2>4b DEF sawTuf
    <3> QED
      BY <2>4, <3>1, SuppliedTruthful
  <2>5. ASSUME NEW u \in Updates, SaveUpload(u)
        PROVE  TruthInv'
    <3>1. /\ dir' = [dir EXCEPT ![u] = upl[u].files] /\ UNCHANGED rows
          /\ upl' = [upl EXCEPT ![u].pc = "saved"] /\ upl[u].pc = "generated"
      BY <2>5 DEF SaveUpload
    <3>2. /\ dir'[u] = upl[u].files /\ \A w \in Updates \ {u} : dir'[w] = dir[w]
          /\ upl'[u].files = upl[u].files /\ \A w \in Updates \ {u} : upl'[w] = upl[w]
      BY <3>1 DEF LifeInv, Shapes
    <3>3. Busy(u)
      BY <3>1 DEF Busy, NoUpload
    <3>4. Truthful(upl[u].files)
      BY <3>3 DEF TruthInv
    <3>5. ASSUME NEW w \in Updates, Busy(w)' PROVE Truthful(upl[w].files)'
      <4>1. CASE w = u
        BY <3>2, <3>4, <4>1 DEF Truthful
      <4>2. CASE w # u
        BY <3>2, <3>5, <4>2 DEF TruthInv, Truthful, Busy
      <4> QED
        BY <4>1, <4>2
    <3>6. ASSUME NEW w \in Updates, w \in rows' \/ Saved(w)' PROVE Truthful(dir[w])'
      <4>1. CASE w = u
        BY <3>2, <3>4, <4>1 DEF Truthful
      <4>2. CASE w # u
        BY <3>1, <3>2, <3>6, <4>2 DEF TruthInv, Truthful, Saved
      <4> QED
        BY <4>1, <4>2
    <3> QED
      BY <3>5, <3>6 DEF TruthInv
  <2>6. ASSUME NEW u \in Updates, UpdateInsert(u) \/ UploadFails(u)
        PROVE  TruthInv'
    <3>1. /\ UNCHANGED dir
          /\ rows' = rows \/ (rows' = rows \cup {u} /\ Saved(u))
          /\ upl' = [upl EXCEPT ![u] = NoUpload]
      BY <2>6 DEF UpdateInsert, UploadFails, Saved
    <3>2. /\ upl'[u] = NoUpload /\ \A w \in Updates \ {u} : upl'[w] = upl[w]
      BY <3>1 DEF LifeInv, Shapes
    <3>3. ~Busy(u)' /\ ~Saved(u)'
      BY <3>2 DEF Busy, Saved, NoUpload
    <3>4. \A w \in Updates : Busy(w)' => Busy(w) /\ upl'[w].files = upl[w].files
      BY <3>2, <3>3 DEF Busy
    <3>5. \A w \in Updates : w \in rows' \/ Saved(w)' => w \in rows \/ Saved(w)
      BY <3>1, <3>2, <3>3 DEF Saved
    <3>6. \A w \in Updates : w \in rows' \/ Saved(w)' =>
            (w \in rows \/ Saved(w)) /\ dir'[w].targets \in {dir[w].targets, NoFile}
      BY <3>1, <3>5
    <3> QED
      BY <3>4, <3>6, TruthFrame
  <2>7. ASSUME NEW u \in Updates, DeleteUpdate(u) \/ RemoveFails(u)
        PROVE  TruthInv'
    <3>1. UNCHANGED <<dir, upl>> /\ rows' \subseteq rows
      BY <2>7 DEF DeleteUpdate, RemoveFails
    <3> QED
      BY <3>1, TruthFrame DEF Busy, Saved
  <2>8. ASSUME NEW u \in Updates, RemoveDir(u)
        PROVE  TruthInv'
    <3>1. UNCHANGED <<rows, upl>> /\ dir' = [dir EXCEPT ![u] = NoDir]
      BY <2>8 DEF RemoveDir
    <3>2. dir'[u] = NoDir /\ \A w \in Updates \ {u} : dir'[w] = dir[w]
      BY <3>1 DEF LifeInv, Shapes
    <3>3. \A w \in Updates : dir'[w].targets \in {dir[w].targets, NoFile}
      BY <3>2 DEF NoDir
    <3> QED
      BY <3>1, <3>3, TruthFrame DEF Busy, Saved
  <2>9. ASSUME NEW u \in Updates, ReadTimestamp(u) \/ refreshFails(u) \/ SetUpdateName(u)
        PROVE  TruthInv'
    BY <2>0, <2>9 DEF ReadTimestamp, refreshFails, SetUpdateName, store
  <2>10. CASE WriteTimestamp
    <3> DEFINE c == daemon.cur
               t == Refreshed(daemon.held)
    <3>1. c \in Updates /\ dir' = [dir EXCEPT ![c].timestamp = t] /\ UNCHANGED <<rows, upl>>
      BY <2>10 DEF WriteTimestamp, LifeInv, Stamps, Shapes
    <3> HIDE DEF c, t
    <3>2. /\ \A w \in Updates \ {c} : dir'[w] = dir[w]
          /\ dir'[c] = [roots |-> dir[c].roots, targets |-> dir[c].targets,
                        snapshot |-> dir[c].snapshot, timestamp |-> t]
      BY <3>1 DEF LifeInv, Shapes, IsDir
    <3>3. \A w \in Updates : dir'[w].targets = dir[w].targets
      BY <3>2
    <3> QED
      BY <3>1, <3>3, TruthFrame DEF Busy, Saved
  <2> QED
    BY <2>1, <2>2, <2>3, <2>4a, <2>4b, <2>5, <2>6, <2>7, <2>8, <2>9, <2>10 DEF Next, DiskStep
<1> QED
  BY <1>1, <1>2, LifeInvariant, PTL DEF Spec

\* The target of an update names the hardware and the version that its image's files
\* say, for any image of up to 255 directories and files of any names and contents,
\* whatever sizes decide how ostree encodes it (probeOstree, ReadFile,
\* GenerateTufMeta).
THEOREM TargetsAreTruthful == Spec => []TargetsDescribeImage
<1>1. LifeInv /\ TruthInv => TargetsDescribeImage
  BY DEF LifeInv, Shapes, TruthInv, Truthful, TargetsDescribeImage
<1> QED
  BY <1>1, LifeInvariant, TruthInvariant, PTL
=============================================================================
