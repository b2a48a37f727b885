------------------------------- MODULE Ostree --------------------------------
(***************************************************************************)
(* Reading an uploaded ostree repository (storage/ostree/ostree.go): refs, *)
(* commits and directories in the GVariant encoding, and file objects,     *)
(* down to their bytes.                                                    *)
(*                                                                         *)
(* A repository is a record: heads and remotes give the text of each ref,  *)
(* objects the data of each object by its name and extension.  Refs are    *)
(* numbered in the order in which a walk of the directory meets them.      *)
(* Positions are counted from 0, as in the code.                           *)
(***************************************************************************)
EXTENDS Integers, Sequences, SequencesExt

CONSTANT HashLen   \* bytes of a checksum: 32

ASSUME HashAssumption == HashLen \in 1 .. 32

Failed == [ok |-> FALSE]
Ok(x) == [ok |-> TRUE, val |-> x]

Slice(data, from, to) == SubSeq(data, from + 1, to)

(* The text of a checksum: hexadecimal digits are 0 .. 15, Blank is white  *)
(* space and every other number another character.                         *)
Blank == 16
EncodeToString(bytes) ==
  [i \in 1 .. 2 * Len(bytes) |->
     LET b == bytes[(i + 1) \div 2] IN IF i % 2 = 1 THEN b \div 16 ELSE b % 16]

TrimSpace(text) ==
  LET I == {i \in DOMAIN text : text[i] # Blank}
  IN  IF I = {} THEN <<>> ELSE SubSeq(text, Min(I), Max(I))

isValidObjectHash(text) ==
  Len(text) = 2 * HashLen /\ \A i \in DOMAIN text : text[i] \in 0 .. 15

ReadObject(repo, hash, ext) ==
  IF <<hash, ext>> \in DOMAIN repo.objects THEN Ok(repo.objects[<<hash, ext>>]) ELSE Failed

(* The ref of that name among the heads, else among the remotes.           *)
ReadRef(repo, ref) ==
  LET base == IF ref \in DOMAIN repo.heads THEN repo.heads ELSE repo.remotes
  IN  IF ref \in DOMAIN base /\ isValidObjectHash(TrimSpace(base[ref]))
      THEN Ok(TrimSpace(base[ref]))
      ELSE Failed

(* All heads.  The code lists them in the order of the walk: by number.    *)
ListHeads(repo) == DOMAIN repo.heads

-----------------------------------------------------------------------------
(* GVariant *)

\* Mutant: a container of 255 bytes is taken to have offsets of two.
OffsetSizeOffByOne(n) == IF n < 255 THEN 1 ELSE IF n < 65535 THEN 2 ELSE 4

gvariantOffsetSize(n) == IF n <= 255 THEN 1 ELSE IF n <= 65535 THEN 2 ELSE 4

readLE(data, pos, size) ==
  FoldRight(LAMBDA b, rest : b + 256 * rest, Slice(data, pos, pos + size), 0)

Align8(pos) == ((pos + 7) \div 8) * 8

(* Of the six offsets at the end of a commit the second is the end of its  *)
(* body; a time of eight bytes and the checksum of the root follow.        *)
rootDirtreeHash(data) ==
  LET n == Len(data)
      offSize == gvariantOffsetSize(n)
      framingBase == n - 6 * offSize
      oBody == readLE(data, framingBase + offSize, offSize)
      dirtreeStart == Align8(oBody) + 8
  IN  IF \/ n < 6 * offSize + 8 + HashLen
         \/ oBody >= framingBase
         \/ dirtreeStart + HashLen > framingBase
      THEN Failed
      ELSE Ok(EncodeToString(Slice(data, dirtreeStart, dirtreeStart + HashLen)))

NotFound == <<>>

(* The checksum that follows the name in an array of entries.  The ends of *)
(* the entries are at its end; the search stops at an entry that cannot be.*)
lookupGVArray(data, name) ==
  LET n == Len(data)
      offSize == gvariantOffsetSize(n)
      lastElemEnd == readLE(data, n - offSize, offSize)
      end(i) == readLE(data, lastElemEnd + (i - 1) * offSize, offSize)
      prev(i) == IF i = 1 THEN 0 ELSE end(i - 1)
      elem(i) == Slice(data, prev(i), end(i))
      nullPos(i) == Min({p \in DOMAIN elem(i) : elem(i)[p] = 0}) - 1
      malformed(i) == end(i) <= prev(i) \/ end(i) > lastElemEnd \/ 0 \notin ToSet(elem(i))
      stops == {i \in 1 .. (n - lastElemEnd) \div offSize :
                  malformed(i) \/ Slice(elem(i), 0, nullPos(i)) = name}
      at == Min(stops)
      hashStart == nullPos(at) + 1
  IN  IF \/ n = 0 \/ lastElemEnd > n - offSize \/ stops = {}
         \/ malformed(at) \/ hashStart + HashLen > Len(elem(at))
      THEN NotFound
      ELSE EncodeToString(Slice(elem(at), hashStart, hashStart + HashLen))

(* A directory: its files, its directories and the end of the first array. *)
lookupDirtree(data, name) ==
  LET n == Len(data)
      offSize == gvariantOffsetSize(n)
      filesEnd == readLE(data, n - offSize, offSize)
      file == lookupGVArray(Slice(data, 0, filesEnd), name)
  IN  IF n = 0 \/ n < offSize \/ filesEnd > n - offSize THEN Failed
      ELSE Ok([file |-> file,
               subdir |-> IF file # NotFound THEN NotFound
                          ELSE lookupGVArray(Slice(data, filesEnd, n - offSize), name)])

-----------------------------------------------------------------------------
(* Files *)

(* As it is, or compressed after a header; the compressed data make sense  *)
(* only from their own start.                                              *)
readContentObject(repo, hash) ==
  LET bare == ReadObject(repo, hash, ".file")
      raw == ReadObject(repo, hash, ".filez")
      contentStart == 8 + raw.val.headerSize
  IN  IF bare.ok THEN bare
      ELSE IF raw.ok /\ raw.val.len >= 8 /\ raw.val.headerSize # 0
              /\ contentStart <= raw.val.len /\ contentStart = raw.val.start
      THEN Ok(raw.val.content)
      ELSE Failed

(* The entry of that name in a directory, which may be an earlier error.   *)
Entry(repo, dir, name) ==
  LET data == ReadObject(repo, dir.val, ".dirtree")
  IN  IF dir.ok /\ data.ok THEN lookupDirtree(data.val, name) ELSE Failed

Subdir(repo, dir, name) ==
  LET e == Entry(repo, dir, name)
  IN  IF e.ok /\ e.val.subdir # NotFound THEN Ok(e.val.subdir) ELSE Failed

(* From the commit of the ref along the directories to the file.           *)
ReadFile(repo, ref, path) ==
  LET commit == ReadRef(repo, ref)
      data == ReadObject(repo, commit.val, ".commit")
      root == IF commit.ok /\ data.ok THEN rootDirtreeHash(data.val) ELSE Failed
      e == Entry(repo, FoldLeft(LAMBDA d, part : Subdir(repo, d, part), root, Front(path)), Last(path))
  IN  IF e.ok /\ e.val.file # NotFound THEN readContentObject(repo, e.val.file) ELSE Failed

-----------------------------------------------------------------------------
(* A repository as ostree writes it: the code under src/ only reads it.    *)

Weight == <<1, 256, 65536, 16777216>>
WriteLE(x, size) == [i \in 1 .. size |-> (x \div Weight[i]) % 256]

(* A container of the given body and end offsets, as wide as its size asks. *)
Framed(body, ends) ==
  LET size == IF Len(body) + Len(ends) < 256 THEN 1
              ELSE IF Len(body) + 2 * Len(ends) < 65536 THEN 2 ELSE 4
  IN  body \o FlattenSeq([i \in 1 .. Len(ends) |-> WriteLE(ends[i], size)])

GVArray(elems) ==
  Framed(FlattenSeq(elems),
         [i \in 1 .. Len(elems) |-> Len(FlattenSeq(SubSeq(elems, 1, i)))])

(* An entry: a name and one checksum for a file, two for a directory.      *)
FileEntry(name, hash) == Framed(name \o <<0>> \o hash, <<Len(name) + 1>>)
DirEntry(name, hash) ==
  Framed(name \o <<0>> \o hash \o hash, <<Len(name) + 1 + HashLen, Len(name) + 1>>)

\* Bound: the fields of a commit up to its body take at most one GiB.
MaxBody == 1073741824

(* A commit whose fields up to its body take the given number of bytes.    *)
Commit(bodyEnd, root) ==
  Framed([i \in 1 .. Align8(bodyEnd) + 8 |-> 1] \o root \o root,
         <<Align8(bodyEnd) + 8 + HashLen, bodyEnd, bodyEnd, 1, 1, 1>>)

(* The files of an image: a sequence of directories and files by path, the *)
(* root first.  A name has at most 255 bytes, none of them 0.              *)
Names == Seq(1 .. 255)
IsTree(tree) ==
  /\ Len(tree) \in 1 .. 255 /\ DOMAIN tree = 1 .. Len(tree)
  /\ tree[1].dir /\ tree[1].path = <<>>
  /\ \A i \in DOMAIN tree :
       /\ tree[i].dir \in BOOLEAN /\ tree[i].path \in Seq(Names)
       /\ i # 1 => /\ tree[i].path # <<>> /\ Len(Last(tree[i].path)) <= 255
                   /\ \E d \in DOMAIN tree : tree[d].dir /\ tree[d].path = Front(tree[i].path)
       /\ \A j \in DOMAIN tree : tree[i].path = tree[j].path => i = j

(* The checksum of the i-th is i, in every byte; the commit's is 0.        *)
Checksum(i) == [j \in 1 .. HashLen |-> i]
Text(i) == EncodeToString(Checksum(i))

(* The files or the directories in a directory.                            *)
Inside(tree, d, isDir) ==
  FoldLeft(LAMBDA s, i : IF /\ tree[i].dir = isDir /\ tree[i].path # <<>>
                            /\ Front(tree[i].path) = tree[d].path
                         THEN Append(s, i) ELSE s,
           <<>>, [i \in 1 .. Len(tree) |-> i])

FilesIn(tree, d) ==
  LET F == Inside(tree, d, FALSE)
  IN  GVArray([j \in 1 .. Len(F) |-> FileEntry(Last(tree[F[j]].path), Checksum(F[j]))])
DirsIn(tree, d) ==
  LET D == Inside(tree, d, TRUE)
  IN  GVArray([j \in 1 .. Len(D) |-> DirEntry(Last(tree[D[j]].path), Checksum(D[j]))])

Dirtree(tree, d) == Framed(FilesIn(tree, d) \o DirsIn(tree, d), <<Len(FilesIn(tree, d))>>)

Extension(node, compressed) ==
  IF node.dir THEN ".dirtree" ELSE IF compressed THEN ".filez" ELSE ".file"

Object(tree, i, compressed) ==
  IF tree[i].dir THEN Dirtree(tree, i)
  ELSE IF compressed
  THEN [len |-> 40, headerSize |-> 20, start |-> 28, content |-> tree[i].content]
  ELSE tree[i].content

(* The repository with one head for a tree.                                *)
Encode(tree, bodyEnd, compressed) ==
  [heads |-> [r \in {1} |-> Text(0) \o <<Blank>>],
   remotes |-> [r \in {} |-> Text(0)],
   objects |->
     [n \in {<<Text(i), Extension(tree[i], compressed)>> : i \in 1 .. Len(tree)}
            \cup {<<Text(0), ".commit">>} |->
        IF n[2] = ".commit" THEN Commit(bodyEnd, Checksum(1))
        ELSE Object(tree, CHOOSE i \in 1 .. Len(tree) : Text(i) = n[1], compressed)]]
=============================================================================
