--------------------------- MODULE MCUpdateStore ----------------------------
(***************************************************************************)
(* Instances of UpdateStore for TLC.                                       *)
(***************************************************************************)
EXTENDS UpdateStore

CONSTANTS u1, u2, p1, p2, p3, bad, odd

\* Three uploads under one name, one with a tarball that is refused, and one of a
\* tarball that does not unpack under another name beside them.
MCUploads ==
  {[id |-> 1, dest |-> u1, payload |-> p1],
   [id |-> 2, dest |-> u1, payload |-> p2],
   [id |-> 3, dest |-> u1, payload |-> bad],
   [id |-> 4, dest |-> u2, payload |-> odd]}

MCDeletes == {[id |-> 1, dest |-> u1]}

Dir(path) == [type |-> "dir", path |-> path, size |-> 0, targets |-> {}]
Reg(path, size) == [type |-> "reg", path |-> path, size |-> size, targets |-> {}]
Targets(size, tags) == [Reg(<<"tuf", "targets.json">>, size) EXCEPT !.targets = {tags}]

App == Reg(<<"apps", "a">>, 1)

\* p1 brings its metadata, p2 leaves it to the server, p3 replaces its metadata by
\* a longer one.  The metadata of bad ends in the tail of a longer one; odd has a
\* symbolic link.
MCTarballs ==
  [p \in Payloads |->
     [tag |-> "main",
      entries |-> CASE p = p1 -> <<Dir(<<"apps">>), App, Targets(2, {"main", "devel"})>>
                    [] p = p2 -> <<Dir(<<"ostree_repo">>), App>>
                    [] p = p3 -> <<Targets(1, {}), App, Targets(2, {"main"})>>
                    [] p = bad -> <<App, Targets(2, {"main"}), Targets(1, {"main"})>>
                    [] p = odd -> <<App, [Reg(<<"apps", "l">>, 0) EXCEPT !.type = "symlink"]>>
                    [] p = Void -> <<>>]]

ASSUME TarballsJudged == Acceptable = {p1, p2, p3}

\* Entries that share, repeat and leave directories, around the limits.
SampleEntries ==
  {Dir(<<"a">>), Dir(<<"a", "b">>), Dir(<<"a", "b", "c", "d">>), Dir(<<".">>),
   Reg(<<"a">>, 1), Reg(<<"a", "b">>, 3), Reg(<<"a", "b">>, 1), Reg(<<"a", "b">>, 4),
   Reg(<<"a", "b", "c">>, 3), Reg(<<"d">>, 3), Reg(<<"e", ".", "f", "g">>, 0),
   Reg(<<"a", "..", "d">>, 2), Reg(<<"..", "x">>, 1), Reg(<<"a", "..", "..", "x">>, 1),
   [Reg(<<"l">>, 0) EXCEPT !.type = "symlink"]}

MCSamples == BoundedSeq(SampleEntries, 3)

=============================================================================
