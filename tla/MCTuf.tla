-------------------------------- MODULE MCTuf --------------------------------
(***************************************************************************)
(* Instances of Tuf for TLC.                                               *)
(***************************************************************************)
EXTENDS Tuf, TLC

\* A factory with one rotation of its root, whose offline keys hold both;
\* the same without the first root, and with a threshold of two.
Factory ==
  {[kind |-> ".root.json", ver |-> 1, keys |-> 11, sigs |-> {11}, threshold |-> 1],
   [kind |-> ".root.json", ver |-> 2, keys |-> 12, sigs |-> {11, 12}, threshold |-> 1],
   [kind |-> ".sec", id |-> 11, type |-> "RSA", private |-> TRUE],
   [kind |-> ".sec", id |-> 12, type |-> "ED25519", private |-> TRUE],
   [kind |-> "other"]}

MCArchives ==
  {Factory,
   {f \in Factory : f.kind # ".root.json" \/ f.ver = 2},
   {IF f.kind = ".root.json" THEN [f EXCEPT !.threshold = 2] ELSE f : f \in Factory}}

\* The files of an image: with a hardware file, and so many other files in
\* /usr/lib that their array takes the given number of bytes, at 5 for each...
Dir(path) == [dir |-> TRUE, path |-> path]
File(path, lines) == [dir |-> FALSE, path |-> path, content |-> lines]
Line(key, val) == [key |-> key, val |-> val]

Lib == <<<<1>>, <<2>>>>
Base(n) ==
  <<Dir(<<>>), Dir(SubSeq(Lib, 1, 1)), Dir(Lib)>>
  \o [i \in 1 .. n |-> File(Append(Lib, <<100 + i>>), <<>>)]

Hardware ==
  Base(50)
  \o <<Dir(SubSeq(HardwareToml, 1, 3)), Dir(SubSeq(HardwareToml, 1, 4)),
       File(HardwareToml, <<Line("other", 8), Line("primary_ecu_hardware_id", 7)>>),
       File(OsRelease, <<Line("IMAGE_VERSION", 5), Line("IMAGE_VERSION", 6)>>)>>

\* ...and one of Arm, known by its loader, whose version is not a number.
Arm ==
  Base(60)
  \o <<Dir(SubSeq(ArmLoader, 1, 1)), File(ArmLoader, <<>>),
       File(OsRelease, <<Line("IMAGE_VERSION", -1)>>)>>

Damaged == [Encode(Arm, 20, FALSE) EXCEPT !.heads = [r \in {1} |-> <<1, 99>>]]
Headless == [Encode(Arm, 20, FALSE) EXCEPT !.heads = [r \in {} |-> <<>>]]

Image(tree, bodyEnd, compressed) ==
  [tree |-> tree, bodyEnd |-> bodyEnd, compressed |-> compressed,
   repo |-> Encode(tree, bodyEnd, compressed), given |-> Unset]
Other(repo, given) == [tree |-> <<>>, repo |-> repo, given |-> given]

\* The images; refused: apps alone, with a commit but no hardware, and damaged
\* images.
Images ==
  <<Image(Hardware, 20, FALSE),
    Image(Arm, 245, TRUE),
    Other(None, Unset),
    Other(None, [Unset EXCEPT !.hash = <<2>>]),
    Other(Damaged, Unset),
    Other(Headless, Unset)>>

\* Also apps whose upload says all there is to say.
MCContents == Append(Images, Other(None, [Unset EXCEPT !.hash = <<2>>, !.hardwareId = 7]))

\* What fioctl makes of a factory's target: signed with the factory's keys, of a
\* version that may be in use here, and expiring; and targets alone.
OwnTargets == [ver |-> 2, tgt |-> 3, of |-> [from |-> 0, hash |-> <<3>>, hardwareId |-> 7], by |-> 12]
OwnSnapshot == [ver |-> 2, of |-> OwnTargets, by |-> 12]

MCSupplied ==
  {[roots |-> 0, targets |-> OwnTargets, snapshot |-> OwnSnapshot,
    timestamp |-> [ver |-> 2000, of |-> OwnSnapshot, exp |-> 1, by |-> 12]],
   [NoDir EXCEPT !.targets = OwnTargets]}

\* Bound: tuf-init and uploads are explored one after the other, and uploads
\* only with roots that fit the keys and all of the default metadata.
InitFirst ==
  uploads > 0 => ~spoiled /\ job = NoJob /\ keyfile["root"] # 0 /\ deflt.files = MetaFiles

HasImage(files) == files.targets # NoFile /\ files.targets.of.from \in DOMAIN Images

\* Bound: while there is an image no other update has metadata, no day has passed
\* and no crash has come.
ImageAlone ==
  \A u \in Updates :
    HasImage(dir[u]) \/ (upl[u].pc = "generated" /\ HasImage(upl[u].files)) =>
      /\ now = 0 /\ crashes = 0
      /\ \A w \in Updates \ {u} : dir[w] = NoDir /\ upl[w] = NoUpload

\* Bound: a device without an update reports the one tag.
TaggedFirst == dev.tagged \/ dev.update # None

Symmetry == Permutations(Updates)
=============================================================================
