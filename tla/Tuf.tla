--------------------------------- MODULE Tuf ---------------------------------
(***************************************************************************)
(* TUF keys and metadata: tuf-init with or without an import               *)
(* (storage/file_tuf.go, file_tuf_import.go, cmd/server/tuf_init.go), the   *)
(* metadata that an upload generates and the daemon that refreshes         *)
(* timestamps (storage/api/api_storage_tuf.go), and what a device is given *)
(* (server/gateway/handlers_meta.go).                                      *)
(*                                                                         *)
(* tuf-init is a process of its own and writes one file after the other.   *)
(* In the server, uploads, deletions and the daemon interleave; a crash    *)
(* stops any of them.  A tick is the day by which the daemon looks ahead;  *)
(* it makes several passes a day, of which the model has one.              *)
(*                                                                         *)
(* The four keys of one run of tuf-init have one name, its number.         *)
(***************************************************************************)
EXTENDS Integers, Sequences, FiniteSets, SequencesExt, Ostree

CONSTANTS
  Updates,             \* names of updates
  Archives,            \* the files of --import-roots and --import-keys
  Contents,            \* a sequence of uploads: the repository of an image, if any, and the
                       \* parameters of the request; for the properties, the image's files and
                       \* how ostree wrote them
  Supplied,            \* the tuf directories that uploads may bring: their roots are their own,
                       \* none of the server's, and from is 0
  TimestampExpiration, \* in ticks
  None,
  MaxInits, MaxUploads, MaxNow, MaxCrashes   \* bounds

Roles == <<"root", "targets", "snapshot", "timestamp">>
MetaFiles == {"targets", "snapshot", "timestamp"}

ASSUME TufAssumption ==
  /\ None \notin Updates
  /\ \A a \in Archives : IsFiniteSet(a)
  /\ \A i \in DOMAIN Contents :
       {Contents[i].given.hardwareId, Contents[i].given.appVersion} \subseteq Nat
  /\ {MaxInits, MaxUploads, MaxNow, MaxCrashes} \subseteq Nat
  \* A refreshed timestamp outlives the look-ahead of the daemon: 7 days against 1.
  /\ TimestampExpiration \in Nat \ {0, 1}

(* Nothing but the targets is looked at when a tuf directory comes with    *)
(* the upload.                                                             *)
ASSUME SuppliedAssumption ==
  /\ 0 \notin DOMAIN Contents
  /\ \A d \in Supplied :
       /\ d = [roots |-> 0, targets |-> d.targets, snapshot |-> d.snapshot, timestamp |-> d.timestamp]
       /\ d.targets.ver \in Nat /\ d.targets.tgt \in Nat /\ d.targets.of.from = 0
       /\ \/ d.timestamp = [ver |-> 0]
          \/ /\ d.timestamp = [ver |-> d.timestamp.ver, of |-> d.timestamp.of, exp |-> d.timestamp.exp,
                               by |-> d.timestamp.by]
             /\ d.timestamp.exp \in Int

(* The images whose files the properties know are as ostree wrote them.    *)
ASSUME ImageAssumption ==
  \A i \in DOMAIN Contents :
    Contents[i].tree # <<>> =>
      /\ IsTree(Contents[i].tree)
      /\ Contents[i].bodyEnd \in 0 .. MaxBody /\ Contents[i].compressed \in BOOLEAN
      /\ Contents[i].repo = Encode(Contents[i].tree, Contents[i].bodyEnd, Contents[i].compressed)
      /\ Contents[i].repo # None

VARIABLES
  hmac,     \* whether auth-init made the secret that encrypts the keys
  keyfile,  \* keys/<role>.key: the run of tuf-init that wrote it, 0 = none
  roots,    \* <version>.root.json by version
  deflt,    \* default/: the run that wrote it and the files it has
  job,      \* tuf-init: its number and the files it has still to write
  signers,  \* the server's keys by role; None while it is not running
  rows,     \* the updates table
  dir,      \* the tuf directory of each update
  upl,      \* the upload of each update
  del,      \* how many deletions of the update have still to remove its directory
  daemon,   \* the refresh daemon: updates to do, and the timestamp it holds
  passed,   \* auxiliary: when the daemon ended its last pass
  dev,      \* a device: its update, whether it has reported the tag of the updates, and the
            \* timestamp it has seen
  now, inits, uploads, crashes,
  crossed,  \* auxiliary: updates whose directory was replaced or removed beside a refresh, or
            \* removed by the deletion of an earlier one
  lapsing,  \* auxiliary: updates whose timestamp nobody has seen to: it came with the upload,
            \* its refresh failed, or it is gone
  early,    \* auxiliary: updates that were uploaded while tuf-init was running
  own,      \* auxiliary: updates that were uploaded with a tuf directory of their own
  reused,   \* auxiliary: a version may have been given twice
  spoiled   \* auxiliary: roots of an interrupted import, or of an earlier tuf-init

disk == <<hmac, keyfile, roots, deflt, job, inits, spoiled>>
store == <<rows, dir, upl, del, uploads, early, own, reused>>
vars == <<disk, store, signers, daemon, passed, dev, now, crashes, crossed, lapsing>>

-----------------------------------------------------------------------------
(* Metadata.  A file refers to another by its hash: by the file itself.    *)

NoFile == [ver |-> 0]
NoDir == [roots |-> 0, targets |-> NoFile, snapshot |-> NoFile, timestamp |-> NoFile]

Targets(v, tgt, opts, k) == [ver |-> v, tgt |-> tgt, of |-> opts, by |-> k["targets"]]
Snapshot(t, k) == [ver |-> t.ver, of |-> t, by |-> k["snapshot"]]
Timestamp(s, exp, k) == [ver |-> s.ver * 1000, of |-> s, exp |-> exp, by |-> k["timestamp"]]

(* targets, snapshot and timestamp, signed by the keys k.                  *)
Signed(v, tgt, opts, exp, rt, k) ==
  LET t == Targets(v, tgt, opts, k)
      s == Snapshot(t, k)
  IN  [roots |-> rt, targets |-> t, snapshot |-> s, timestamp |-> Timestamp(s, exp, k)]

KeysOf(n) == [r \in {Roles[i] : i \in 1 .. 4} |-> n]

NoJob == [n |-> 0, todo |-> <<>>]
NoUpload == [pc |-> "idle", files |-> NoDir]
Asleep == [todo |-> {}, cur |-> None, held |-> NoFile]
LastDay == MaxNow + TimestampExpiration

Init ==
  /\ hmac = FALSE
  /\ keyfile = KeysOf(0) /\ roots = <<>> /\ deflt = [n |-> 0, files |-> {}]
  /\ job = NoJob
  /\ signers = None
  /\ rows = {} /\ dir = [u \in Updates |-> NoDir]
  /\ upl = [u \in Updates |-> NoUpload] /\ del = [u \in Updates |-> 0]
  /\ daemon = Asleep /\ passed = -1
  /\ dev = [update |-> None, tagged |-> TRUE, seen |-> NoFile]
  /\ now = 0 /\ inits = 0 /\ uploads = 0 /\ crashes = 0
  /\ crossed = {} /\ lapsing = {} /\ early = {} /\ own = {} /\ reused = FALSE /\ spoiled = FALSE

-----------------------------------------------------------------------------
(* tuf-init *)

isInitialized == keyfile["root"] # 0 /\ roots # <<>>

authInit ==
  /\ hmac' = TRUE
  /\ UNCHANGED <<keyfile, roots, deflt, job, inits, spoiled, store, signers, daemon, passed, dev, now, crashes, crossed, lapsing>>

(* The writes of a run: a step is the file and, for a root, its content.   *)
writeKeys == [i \in 1 .. 4 |-> [file |-> "key", role |-> Roles[i]]]
writeRoot(v, root) == [file |-> "root", ver |-> v, root |-> root]
writeDefaultMeta == <<[file |-> "targets"], [file |-> "snapshot"], [file |-> "timestamp"]>>

Begin(todo) ==
  /\ inits < MaxInits /\ job = NoJob
  /\ ~isInitialized /\ hmac
  /\ job' = [n |-> inits + 1, todo |-> todo]
  /\ inits' = inits + 1
  /\ spoiled' = (spoiled \/ roots # <<>>)
  /\ UNCHANGED <<hmac, keyfile, roots, deflt, store, signers, daemon, passed, dev, now, crashes, crossed, lapsing>>

NewRoot(n, signedBy) == [keys |-> n, sigs |-> {n} \cup signedBy]

InitTuf == Begin(writeKeys \o <<writeRoot(1, NewRoot(inits + 1, {}))>> \o writeDefaultMeta)

(* Other files of an archive are passed over, and so are keys without      *)
(* their private part.                                                     *)
loadTufRootsArchive(a) == {f \in a : f.kind = ".root.json"}
loadTufKeysArchive(a) == {f \in a : f.kind = ".sec" /\ f.private}

Root(a, v) == CHOOSE f \in loadTufRootsArchive(a) : f.ver = v
Newest(a) == Cardinality(loadTufRootsArchive(a))

(* A key that can sign: of a supported type.                               *)
ImportSigners(a) == {f.id : f \in {g \in loadTufKeysArchive(a) : g.type \in {"ED25519", "RSA"}}}

(* All versions from 1 on, the last with a threshold of 1 and its root key *)
(* among the candidates.                                                   *)
Importable(a) ==
  /\ Newest(a) > 0
  /\ {f.ver : f \in loadTufRootsArchive(a)} = 1 .. Newest(a)
  /\ Root(a, Newest(a)).threshold <= 1
  /\ Root(a, Newest(a)).keys \in ImportSigners(a)

findFirstRootSigner(a) == Root(a, Newest(a)).keys

(* An imported root is stored as it is.                                    *)
Verbatim(f) == [keys |-> f.keys, sigs |-> f.sigs]

ImportTuf(a) ==
  LET n == Newest(a)
  IN  /\ Importable(a)
      /\ Begin(writeKeys
               \o [v \in 1 .. n |-> writeRoot(v, Verbatim(Root(a, v)))]
               \o <<writeRoot(n + 1, NewRoot(inits + 1, {findFirstRootSigner(a)}))>>
               \o writeDefaultMeta)

(* The next file of the run.                                               *)
writeFile ==
  /\ job.todo # <<>>
  /\ LET w == Head(job.todo)
     IN  /\ keyfile' = IF w.file = "key" THEN [keyfile EXCEPT ![w.role] = job.n] ELSE keyfile
         /\ roots' = IF w.file # "root" THEN roots
                     ELSE IF w.ver > Len(roots) THEN Append(roots, w.root)
                     ELSE [roots EXCEPT ![w.ver] = w.root]
         /\ deflt' = IF w.file \notin MetaFiles THEN deflt
                     ELSE IF deflt.n = job.n THEN [deflt EXCEPT !.files = @ \cup {w.file}]
                     ELSE [n |-> job.n, files |-> {w.file}]
  /\ job' = IF Len(job.todo) = 1 THEN NoJob ELSE [job EXCEPT !.todo = Tail(@)]
  /\ UNCHANGED <<hmac, inits, spoiled, store, signers, daemon, passed, dev, now, crashes, crossed, lapsing>>

(* tuf-init is interrupted.                                                *)
InitStops ==
  /\ job # NoJob /\ crashes < MaxCrashes
  /\ job' = NoJob
  /\ crashes' = crashes + 1
  /\ spoiled' = (spoiled \/ (roots # <<>> /\ \E i \in DOMAIN job.todo : job.todo[i].file = "root"))
  /\ UNCHANGED <<hmac, keyfile, roots, deflt, inits, store, signers, daemon, passed, dev, now, crossed, lapsing>>

(* The operator moves the root key away, as docs/tuf.md suggests.          *)
RemoveRootKey ==
  /\ keyfile["root"] # 0 /\ job = NoJob
  /\ keyfile' = [keyfile EXCEPT !["root"] = 0]
  /\ UNCHANGED <<hmac, roots, deflt, job, inits, spoiled, store, signers, daemon, passed, dev, now, crashes, crossed, lapsing>>

-----------------------------------------------------------------------------
(* The server *)

Readable == hmac /\ \A i \in 1 .. 4 : keyfile[Roles[i]] # 0

LoadTuf ==
  /\ signers = None
  /\ isInitialized /\ Readable
  /\ signers' = keyfile
  /\ UNCHANGED <<disk, store, daemon, passed, dev, now, crashes, crossed, lapsing>>

Up == signers # None

Crash ==
  /\ Up /\ crashes < MaxCrashes
  /\ signers' = None
  /\ upl' = [u \in Updates |-> NoUpload] /\ del' = [u \in Updates |-> 0]
  /\ daemon' = Asleep /\ passed' = -1
  /\ crashes' = crashes + 1
  /\ UNCHANGED <<disk, rows, dir, uploads, early, own, reused, dev, now, crossed, lapsing>>

Greatest(S, least) == CHOOSE m \in S \cup {least} : \A x \in S \cup {least} : x <= m

\* Mutant: the version of the default metadata is not taken into account.
getLatestVersionsFrom0 == Greatest({dir[u].targets.ver : u \in rows}, 0)

(* The highest version of all updates with metadata, and of the default.   *)
getLatestVersions == Greatest({dir[u].targets.ver : u \in rows}, 1)

getLatestTargetVersion ==
  Greatest({dir[u].targets.tgt : u \in {v \in rows : dir[v].targets # NoFile}}, 0)

(* The value of the first line with the key: 0 for none or an empty one.   *)
parseKeyValue(content, key) ==
  LET I == {i \in DOMAIN content : content[i].key = key}
  IN  IF I = {} THEN 0 ELSE content[Min(I)].val

(* A version that is not a number, -1, leaves it unset.                    *)
Atoi(v) == IF v < 0 THEN 0 ELSE v

(* /usr/lib/os-release, /usr/lib/sota/conf.d/40-hardware-id.toml and       *)
(* /lib/ld-linux-aarch64.so.1.  A name is a sequence of bytes.             *)
OsRelease == <<<<1>>, <<2>>, <<3>>>>
HardwareToml == <<<<1>>, <<2>>, <<4>>, <<4, 4>>, <<5>>>>
ArmLoader == <<<<2>>, <<6>>>>
arm64 == 101
amd64 == 102

detectArch(repo, ref) == IF ReadFile(repo, ref, ArmLoader).ok THEN arm64 ELSE amd64

(* What the image tells: the commit of its first head, its version and, of *)
(* the hardware file or else of the architecture's loader, its hardware.   *)
(* 0 = not set.                                                            *)
probeOstree(repo) ==
  LET heads == ListHeads(repo)
      ref == Min(heads)
      hash == ReadRef(repo, ref)
      release == ReadFile(repo, ref, OsRelease)
      toml == ReadFile(repo, ref, HardwareToml)
      id == IF toml.ok THEN parseKeyValue(toml.val, "primary_ecu_hardware_id") ELSE 0
  IN  IF heads = {} \/ ~hash.ok THEN Failed
      ELSE Ok([hash |-> hash.val,
               hardwareId |-> IF id # 0 THEN id ELSE detectArch(repo, ref),
               appVersion |-> IF release.ok THEN Atoi(parseKeyValue(release.val, "IMAGE_VERSION")) ELSE 0])

Unset == [hash |-> <<>>, hardwareId |-> 0, appVersion |-> 0]

(* The parameters of the request prevail over what was probed.             *)
Override(given, probed) ==
  [hash |-> IF given.hash # <<>> THEN given.hash ELSE probed.hash,
   hardwareId |-> IF given.hardwareId # 0 THEN given.hardwareId ELSE probed.hardwareId,
   appVersion |-> IF given.appVersion # 0 THEN given.appVersion ELSE probed.appVersion]

(* The options of the uploads that have them.  An upload is refused for an *)
(* image that cannot be read, and when its commit or its hardware is not   *)
(* known.  Which upload it is, from, is auxiliary.                         *)
TargetOptions ==
  LET options(c) ==
        LET probed == IF c.repo = None THEN Ok(Unset) ELSE probeOstree(c.repo)
        IN  IF probed.ok THEN Override(c.given, probed.val) ELSE Unset
  IN  {o \in {[from |-> i, opts |-> options(Contents[i])] : i \in DOMAIN Contents} :
         o.opts.hash # <<>> /\ o.opts.hardwareId # 0}

\* Mutant: the latest root is not linked.
linkAllButLast == Len(roots) - 1

(* The roots of the tuf directory by ascending version, the tenth after    *)
(* the ninth.                                                              *)
rootMetaNames == [v \in 1 .. Len(roots) |-> v]

(* All of them are linked into the update's directory.                     *)
linkRoots == Len(rootMetaNames)

(* The metadata made for an upload, in its temporary directory.            *)
GenerateTufMeta(o) ==
  Signed(getLatestVersions + 1,
         IF o.opts.appVersion # 0 THEN o.opts.appVersion ELSE getLatestTargetVersion + 1,
         [from |-> o.from, hash |-> o.opts.hash, hardwareId |-> o.opts.hardwareId],
         now + TimestampExpiration, linkRoots, signers)

(* CreateUpdate up to the metadata, with its check that there is no such   *)
(* update.                                                                 *)
Unpacked(u, files) ==
  /\ Up /\ uploads < MaxUploads
  /\ upl[u] = NoUpload /\ u \notin rows
  /\ upl' = [upl EXCEPT ![u] = [pc |-> "generated", files |-> files]]
  /\ uploads' = uploads + 1

generateUpdateTuf(u, o) ==
  /\ Unpacked(u, GenerateTufMeta(o))
  /\ own' = own \ {u}
  /\ early' = IF job # NoJob THEN early \cup {u} ELSE early \ {u}
  /\ reused' = (reused \/ \E w \in Updates : upl[w] # NoUpload)
  /\ UNCHANGED <<disk, rows, dir, del, signers, daemon, passed, dev, now, crashes, crossed, lapsing>>

(* The upload has a tuf directory, which is taken as it is.                *)
sawTuf(u, d) ==
  /\ Unpacked(u, d)
  /\ own' = own \cup {u}
  /\ early' = early \ {u}
  /\ reused' = TRUE
  /\ UNCHANGED <<disk, rows, dir, del, signers, daemon, passed, dev, now, crashes, crossed, lapsing>>

(* Unpacking, saving or inserting failed.                                  *)
UploadFails(u) ==
  /\ upl[u] # NoUpload
  /\ upl' = [upl EXCEPT ![u] = NoUpload]
  /\ UNCHANGED <<disk, rows, dir, del, uploads, early, own, reused, signers, daemon, passed, dev, now, crashes,
                 crossed, lapsing>>

Crosses(u) == IF daemon.cur = u THEN crossed \cup {u} ELSE crossed \ {u}

(* The upload's directory takes the place of any that was left.            *)
SaveUpload(u) ==
  /\ upl[u].pc = "generated"
  /\ dir' = [dir EXCEPT ![u] = upl[u].files]
  /\ upl' = [upl EXCEPT ![u].pc = "saved"]
  /\ crossed' = Crosses(u)
  /\ lapsing' = IF u \in own THEN lapsing \cup {u} ELSE lapsing \ {u}
  /\ UNCHANGED <<disk, rows, del, uploads, early, own, reused, signers, daemon, passed, dev, now, crashes>>

UpdateInsert(u) ==
  /\ upl[u].pc = "saved"
  /\ rows' = rows \cup {u}
  /\ upl' = [upl EXCEPT ![u] = NoUpload]
  /\ UNCHANGED <<disk, dir, del, uploads, early, own, reused, signers, daemon, passed, dev, now, crashes, crossed, lapsing>>

(* A device of the update keeps it from being deleted, if its last report  *)
(* had the update's tag.                                                   *)
DeleteUpdate(u) ==
  /\ Up /\ u \in rows /\ ~(dev.update = u /\ dev.tagged)
  /\ rows' = rows \ {u}
  /\ del' = [del EXCEPT ![u] = @ + 1]
  /\ reused' = TRUE
  /\ UNCHANGED <<disk, dir, upl, uploads, early, own, signers, daemon, passed, dev, now, crashes, crossed, lapsing>>

(* The directory that is removed may be the one of a later upload.         *)
RemoveDir(u) ==
  /\ del[u] > 0
  /\ dir' = [dir EXCEPT ![u] = NoDir]
  /\ del' = [del EXCEPT ![u] = @ - 1]
  /\ crossed' = IF u \in rows \/ upl[u].pc = "saved" THEN crossed \cup {u} ELSE Crosses(u)
  /\ lapsing' = lapsing \cup {u}
  /\ UNCHANGED <<disk, rows, upl, uploads, early, own, reused, signers, daemon, passed, dev, now, crashes>>

RemoveFails(u) ==
  /\ del[u] > 0
  /\ del' = [del EXCEPT ![u] = @ - 1]
  /\ UNCHANGED <<disk, rows, dir, upl, uploads, early, own, reused, signers, daemon, passed, dev, now, crashes,
                 crossed, lapsing>>

-----------------------------------------------------------------------------
(* The refresh daemon *)

(* A pass begins with the list of updates.                                 *)
RefreshTufTimestamps ==
  /\ Up /\ daemon = Asleep /\ passed # now
  /\ daemon' = [Asleep EXCEPT !.todo = rows]
  /\ passed' = IF rows = {} THEN now ELSE passed
  /\ UNCHANGED <<disk, store, signers, dev, now, crashes, crossed, lapsing>>

(* The list cannot be read: the daemon tries again at its next pass.       *)
ListFails ==
  /\ Up /\ daemon = Asleep /\ passed # now
  /\ passed' = now
  /\ lapsing' = lapsing \cup rows
  /\ UNCHANGED <<disk, store, signers, daemon, dev, now, crashes, crossed>>

ExpiresSoon(ts) == ts.exp <= now + 1

(* The daemon goes on with the next update; the last one ends the pass.    *)
Done(u) ==
  /\ daemon' = [Asleep EXCEPT !.todo = daemon.todo \ {u}]
  /\ passed' = IF daemon.todo \subseteq {u} THEN now ELSE passed

(* Of an update without a timestamp the daemon logs that, and goes on.     *)
ReadTimestamp(u) ==
  /\ u \in daemon.todo /\ daemon.cur = None
  /\ CASE dir[u].timestamp = NoFile -> Done(u) /\ lapsing' = lapsing \cup {u}
       [] dir[u].timestamp # NoFile /\ ~ExpiresSoon(dir[u].timestamp) ->
            Done(u) /\ lapsing' = lapsing \ {u}
       [] dir[u].timestamp # NoFile /\ ExpiresSoon(dir[u].timestamp) ->
            /\ daemon' = [daemon EXCEPT !.cur = u, !.held = dir[u].timestamp]
            /\ UNCHANGED <<passed, lapsing>>
  /\ UNCHANGED <<disk, store, signers, dev, now, crashes, crossed>>

\* Mutant: the refreshed timestamp is made from scratch for the latest snapshot of all.
RefreshedLatest(ts) ==
  LET newest == CHOOSE s \in {dir[v].snapshot : v \in rows \cup {daemon.cur}} :
                  \A v \in rows : dir[v].snapshot.ver <= s.ver
  IN  [ts EXCEPT !.of = newest, !.exp = now + TimestampExpiration]

(* A new expiry, signed anew; the version stays.                           *)
Refreshed(ts) == [ts EXCEPT !.exp = now + TimestampExpiration, !.by = signers["timestamp"]]

(* The write makes the directory if it is gone.                            *)
WriteTimestamp ==
  /\ daemon.cur # None
  /\ dir' = [dir EXCEPT ![daemon.cur].timestamp = Refreshed(daemon.held)]
  /\ Done(daemon.cur)
  /\ lapsing' = lapsing \ {daemon.cur}
  /\ UNCHANGED <<disk, rows, upl, del, uploads, early, own, reused, signers, dev, now, crashes, crossed>>

(* Reading, signing or writing failed, which is logged.                    *)
refreshFails(u) ==
  /\ u \in daemon.todo /\ daemon.cur \in {None, u}
  /\ Done(u)
  /\ lapsing' = lapsing \cup {u}
  /\ UNCHANGED <<disk, store, signers, dev, now, crashes, crossed>>

-----------------------------------------------------------------------------
(* A device *)

(* A rollout gives the device another update of its tag.                   *)
SetUpdateName(u) ==
  /\ Up /\ u \in rows /\ dev.tagged /\ dev.update # u
  /\ dev' = [dev EXCEPT !.update = u]
  /\ UNCHANGED <<disk, store, signers, daemon, passed, now, crashes, crossed, lapsing>>

(* The device reports another tag, or again that of the updates.           *)
CheckIn ==
  /\ Up
  /\ dev' = [dev EXCEPT !.tagged = ~@]
  /\ UNCHANGED <<disk, store, signers, daemon, passed, now, crashes, crossed, lapsing>>

DefaultMeta == Signed(1, 0, None, LastDay, 0, KeysOf(deflt.n))

GetTufMeta(file) ==
  IF dev.update # None THEN dir[dev.update][file]
  ELSE IF file \in deflt.files THEN DefaultMeta[file]
  ELSE NoFile

(* ReadRoot and the links in the update's directory: the roots that the    *)
(* device can ask for one after the other.                                 *)
ReadRoots == IF dev.update # None THEN SubSeq(roots, 1, dir[dev.update].roots) ELSE roots

metaTimestamp ==
  LET ts == GetTufMeta("timestamp")
  IN  /\ Up /\ ts # NoFile
      /\ dev' = [dev EXCEPT !.seen = [ver |-> ts.ver, of |-> ts.of]]
      /\ UNCHANGED <<disk, store, signers, daemon, passed, now, crashes, crossed, lapsing>>

(* The server's daemon makes its passes in time, and no request that has   *)
(* made or dropped metadata takes days to end.                             *)
Tick ==
  /\ now < MaxNow
  /\ Up => passed = now /\ daemon = Asleep
  /\ \A u \in Updates : upl[u] = NoUpload /\ del[u] = 0
  /\ now' = now + 1
  /\ UNCHANGED <<disk, store, signers, daemon, passed, dev, crashes, crossed, lapsing>>

Next ==
  \/ authInit \/ InitTuf \/ writeFile \/ InitStops \/ RemoveRootKey
  \/ \E a \in Archives : ImportTuf(a)
  \/ LoadTuf \/ Crash
  \/ \E u \in Updates :
       \/ \E o \in TargetOptions : generateUpdateTuf(u, o)
       \/ \E d \in Supplied : sawTuf(u, d)
       \/ SaveUpload(u) \/ UpdateInsert(u) \/ UploadFails(u)
       \/ DeleteUpdate(u) \/ RemoveDir(u) \/ RemoveFails(u)
       \/ ReadTimestamp(u) \/ refreshFails(u) \/ SetUpdateName(u)
  \/ RefreshTufTimestamps \/ ListFails \/ WriteTimestamp
  \/ CheckIn \/ metaTimestamp
  \/ Tick

Spec == Init /\ [][Next]_vars
-----------------------------------------------------------------------------
(* Properties *)

(* A device given the three files of an update finds that they belong      *)
(* together (GenerateTufMeta, refreshTufTimestamp), with uploads,          *)
(* deletions and the daemon at work; unless they came with the upload, or  *)
(* the update's directory was removed or replaced between the daemon's     *)
(* read and its write or removed for an earlier update of the name.        *)
FilesBelongTogether ==
  \A u \in rows \ (crossed \cup own) :
    dir[u].timestamp.of = dir[u].snapshot /\ dir[u].snapshot.of = dir[u].targets

(* A device can trust what it is given.  From any of the roots it can walk *)
(* to the latest: each is signed by itself and by the one before           *)
(* (importTuf), whatever tuf-init was interrupted at.  Its timestamp is    *)
(* signed by a key of the last root that it can reach from here            *)
(* (WriteMeta's links, ReadDefaultMeta, LoadTuf, the daemon's signature).  *)
(* Not so for an import that is interrupted among its roots, or for a      *)
(* second initialization after the root key was removed: both leave roots  *)
(* that list other keys; nor for an update that was uploaded while         *)
(* tuf-init was running, which has the roots of that moment, or with a tuf *)
(* directory of its own, whose roots do not list the daemon's key, nor for *)
(* one whose directory was crossed or that is deleted.  And once the       *)
(* daemon has made a pass since the server started, no timestamp of an     *)
(* update has expired (refreshTufTimestamp's look-ahead), except where the *)
(* daemon's last try failed or none has been made for a timestamp that came*)
(* with the upload.                                                        *)
DeviceTrusts ==
  LET ts == GetTufMeta("timestamp")
  IN  /\ ~spoiled =>
           \A v \in DOMAIN roots :
             /\ roots[v].keys \in roots[v].sigs
             /\ v > 1 => roots[v - 1].keys \in roots[v].sigs
      /\ Up /\ ~spoiled /\ job = NoJob /\ ts # NoFile
           /\ dev.update \in {None} \cup (rows \ (early \cup own \cup crossed))
           => ReadRoots # <<>> /\ Last(ReadRoots).keys = ts.by
      /\ Up /\ passed >= 0 => \A u \in rows \ lapsing : dir[u].timestamp.exp > now

(* Two timestamps with one version that a device is given refer to one     *)
(* snapshot (getLatestVersions, writeDefaultMeta): neither the default     *)
(* metadata nor another update has used the version.  Not so for uploads   *)
(* that overlap, after a deletion, and once an upload has brought its own  *)
(* metadata, whose version nobody compares.                                *)
SameVersionSameContent ==
  [][dev.seen # NoFile /\ dev'.seen.ver = dev.seen.ver
       => dev'.seen.of = dev.seen.of \/ reused' \/ spoiled']_vars

(* What the tree of an image holds, without the encoding.                  *)
TreeValue(tree, path, key) ==
  LET I == {i \in DOMAIN tree : ~tree[i].dir /\ tree[i].path = path}
  IN  IF I = {} THEN 0 ELSE parseKeyValue(tree[Min(I)].content, key)

Descriptions ==
  LET id(t) == TreeValue(t, HardwareToml, "primary_ecu_hardware_id")
      arch(t) == IF \E i \in DOMAIN t : ~t[i].dir /\ t[i].path = ArmLoader THEN arm64 ELSE amd64
      of(i) ==
        LET c == Contents[i]
        IN  [from |-> i,
             hardwareId |-> IF c.given.hardwareId # 0 THEN c.given.hardwareId
                            ELSE IF id(c.tree) # 0 THEN id(c.tree) ELSE arch(c.tree),
             version |-> IF c.given.appVersion # 0 THEN c.given.appVersion
                         ELSE Atoi(TreeValue(c.tree, OsRelease, "IMAGE_VERSION"))]
  IN  {of(i) : i \in {j \in DOMAIN Contents : Contents[j].tree # <<>>}}

(* The target of an update names the hardware and the version that the     *)
(* files of its image say, unless the request said otherwise (probeOstree, *)
(* ReadFile), whatever the sizes that decide how the objects are encoded:  *)
(* a device of other hardware would take an image that is not for it.      *)
TargetsDescribeImage ==
  \A u \in rows : \A d \in Descriptions :
    LET t == dir[u].targets
    IN  t # NoFile /\ t.of.from = d.from =>
          t.of.hardwareId = d.hardwareId /\ d.version \in {0, t.tgt}

=============================================================================
