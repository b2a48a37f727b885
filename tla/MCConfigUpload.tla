--------------------------- MODULE MCConfigUpload ---------------------------
(***************************************************************************)
(* Instances of ConfigUpload for TLC.                                      *)
(***************************************************************************)
EXTENDS ConfigUpload

CONSTANTS configs, old, p1, p2, bad

\* Two good uploads, a tarball that does not unpack and an empty one.
MCUploads ==
  {[id |-> 1, dest |-> configs, payload |-> p1],
   [id |-> 2, dest |-> configs, payload |-> p2],
   [id |-> 3, dest |-> configs, payload |-> bad],
   [id |-> 4, dest |-> configs, payload |-> Void]}

=============================================================================
