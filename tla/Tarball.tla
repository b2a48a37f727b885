------------------------------ MODULE Tarball -------------------------------
(***************************************************************************)
(* What a tarball unpacks to, and whether it is accepted as an update: the *)
(* walk over its entries with the limits on paths and sizes (_unpackTar    *)
(* and its helpers in storage/file_tar.go), and what an update must        *)
(* contain (SaveUpload in storage/file_updates.go).                        *)
(*                                                                         *)
(* An entry has a type, a path, which is a sequence of names, a size and,  *)
(* for a targets.json, the set of tags of each of its targets.  The length *)
(* of a path is counted in names.                                          *)
(***************************************************************************)
EXTENDS Integers, Sequences, FiniteSets, SequencesExt

CONSTANTS
  MaxItemSize, MaxDiskSize, MaxNumItems, MaxPathLen, BlockSize,  \* tarUnpackConfig
  TufEnabled,  \* the server has TUF keys and generates metadata that is missing
  Tarballs,    \* the entries and the tag of each payload
  Samples      \* further tarballs, to check the walk on

\* The header of an entry, as far as the walk looks at it, with what a targets.json says.
Entries == [type : STRING, path : Seq(STRING), size : Nat, targets : SUBSET SUBSET STRING]

ASSUME TarballAssumption ==
  /\ {MaxItemSize, MaxDiskSize, MaxNumItems, MaxPathLen, BlockSize} \subseteq Nat
  /\ TufEnabled \in BOOLEAN
  /\ \A p \in DOMAIN Tarballs : Tarballs[p].entries \in Seq(Entries)
  /\ Samples \subseteq Seq(Entries)

(* The path below the destination; not ok if it leads outside.  A path that *)
(* climbs out and comes back by the destination's own name is left out: the *)
(* name of an upload's directory is random.                                 *)
AbsPathNoEscape(path) ==
  FoldLeft(LAMBDA p, name :
             CASE ~p.ok \/ name = "." -> p
               [] p.ok /\ name = ".." /\ p.rel = <<>> -> [p EXCEPT !.ok = FALSE]
               [] p.ok /\ name = ".." /\ p.rel # <<>> -> [p EXCEPT !.rel = Front(@)]
               [] OTHER -> [p EXCEPT !.rel = Append(@, name)],
           [ok |-> TRUE, rel |-> <<>>], path)

\* A path and the directories above it, without the destination.
WithParents(path) ==
  IF path = <<>> THEN {path} ELSE {SubSeq(path, 1, i) : i \in 1 .. Len(path)}

NewLimiter == [total |-> 0, entries |-> {}]

Charge(lim, size, entries, blocks) ==
  LET total == lim.total + size + BlockSize * blocks
  IN  [ok |-> /\ size <= MaxItemSize
              /\ total <= MaxDiskSize
              /\ Cardinality(entries) <= MaxNumItems
              /\ \A path \in entries : Len(path) <= MaxPathLen,
       total |-> total, entries |-> entries]

\* Mutant: a new path is charged for a block, the directories it brings are not.
LimiterForgetsDirs(lim, path, size) ==
  Charge(lim, size, lim.entries \cup {path}, IF path \in lim.entries THEN 0 ELSE 1)

(* A call of the limiter: the size, and a block for every path that was not *)
(* met before.  A refusal ends the unpacking.                               *)
diskSizeLimiter(lim, path, size) ==
  LET new == WithParents(path) \ lim.entries
  IN  Charge(lim, size, lim.entries \cup new, Cardinality(new))

-----------------------------------------------------------------------------
(* The walk: what is on disk, and the limiters of declared and real sizes. *)

Start == [ok |-> TRUE, declared |-> NewLimiter, real |-> NewLimiter,
          dirs |-> {<<>>}, files |-> [path \in {} |-> 0]]

Stopped(w) == [w EXCEPT !.ok = FALSE]

\* The limits are asked and the directories made.  The size of the entry counts
\* as declared before it is read.
createDirForTarItem(w, e, path) ==
  LET declared == diskSizeLimiter(w.declared, path, e.size)
      real == diskSizeLimiter(w.real, path, 0)
      need == {<<>>} \cup WithParents(IF e.type = "dir" THEN path ELSE Front(path))
  IN  IF ~declared.ok \/ ~real.ok \/ need \cap DOMAIN w.files # {}
        THEN Stopped(w)
        ELSE [w EXCEPT !.declared = declared, !.real = real, !.dirs = @ \cup need]

\* The file is opened without truncating it: the tail of a longer file stays, and
\* such a targets.json is no JSON.
copyAndCloseOut(w, e, path) ==
  LET limit == 1 + (IF MaxItemSize < MaxDiskSize - w.real.total
                      THEN MaxItemSize ELSE MaxDiskSize - w.real.total)
      copied == IF e.size < limit THEN e.size ELSE limit
      real == diskSizeLimiter(w.real, path, copied)
      shorter == path \in DOMAIN w.files /\ copied < w.files[path].size
      file == IF shorter THEN [size |-> w.files[path].size, targets |-> {}]
              ELSE [size |-> copied, targets |-> e.targets]
  IN  [w EXCEPT !.ok = real.ok, !.real = real,
                !.files = [p \in DOMAIN @ \cup {path} |-> IF p = path THEN file ELSE @[p]]]

\* A file in the place of a directory fails to open.  A file named as the
\* destination does too, or leaves no place for the directories of an update.
UnpackEntry(w, e) ==
  LET abs == AbsPathNoEscape(e.path)
      made == createDirForTarItem(w, e, abs.rel)
  IN  CASE ~w.ok -> w
        [] e.type \notin {"reg", "dir"} \/ ~abs.ok -> Stopped(w)
        [] e.type = "reg" /\ abs.rel \in w.dirs -> Stopped(w)
        [] OTHER -> IF made.ok /\ e.type = "reg"
                      THEN copyAndCloseOut(made, e, abs.rel) ELSE made

unpackEntries(entries) == FoldLeft(UnpackEntry, Start, entries)

\* The walk gets to the end: no limit, type, path or malformed header stops it.
Unpacks(entries) == unpackEntries(entries).ok

-----------------------------------------------------------------------------
(* SaveUpload *)

TargetsJson == <<"tuf", "targets.json">>

\* Some target of the metadata carries the tag.
checkUpdateTargets(files, tag) ==
  TargetsJson \in DOMAIN files /\ \E tags \in files[TargetsJson].targets : tag \in tags

\* onTarHeaderSeen: an entry's name, as it stands, starts with the directory.
Saw(entries, dir) ==
  \E i \in 1 .. Len(entries) :
     LET e == entries[i]
     IN  e.path # <<>> /\ e.path[1] = dir /\ (e.type = "dir" \/ Len(e.path) > 1)

\* The tarball unpacks and onUnpackComplete returns no error.  The metadata that
\* the server generates, see module Tuf, carries the tag of the upload.
SaveUpload(entries, tag) ==
  LET w == unpackEntries(entries)
  IN  /\ w.ok
      /\ Saw(entries, "ostree_repo") \/ Saw(entries, "apps")
      /\ IF Saw(entries, "tuf") THEN checkUpdateTargets(w.files, tag) ELSE TufEnabled

Acceptable == {p \in DOMAIN Tarballs : SaveUpload(Tarballs[p].entries, Tarballs[p].tag)}

-----------------------------------------------------------------------------
(* Reference definitions *)

\* What a walk has left on disk: entries, and a block for each with the bytes.
OnDisk(w) == (w.dirs \ {<<>>}) \cup DOMAIN w.files

DiskUse(w) ==
  BlockSize * Cardinality(OnDisk(w))
    + MapThenSumSet(LAMBDA p : w.files[p].size, DOMAIN w.files)

\* The limits hold of what a walk has left on disk.
WithinLimits(w) ==
  /\ DiskUse(w) <= MaxDiskSize
  /\ Cardinality(OnDisk(w)) <= MaxNumItems
  /\ \A p \in DOMAIN w.files : w.files[p].size <= MaxItemSize
  /\ \A p \in OnDisk(w) : \A i \in 1 .. Len(p) : p[i] \notin {".", ".."}

SamplesWithinLimits == \A t \in Samples : WithinLimits(unpackEntries(t))

=============================================================================
