---------------------------- MODULE ConfigUpload ----------------------------
(***************************************************************************)
(* PUT /configs: the whole configs directory is replaced by an upload.     *)
(***************************************************************************)
EXTENDS Unpack

CONSTANT
  OldConfigs  \* contents of the configs directory at the start

ASSUME OldConfigsAssumption == OldConfigs \in Payloads

ConfigsInit ==
  /\ UnpackInit
  /\ dirs = [u \in Dests |-> OldConfigs]

Running == Unpacking \cup {"unpacked"}

\* configsUpload calls SaveUpload; uploads come one at a time.
ConfigsUpload(q) ==
  /\ upc[q] = "idle"
  /\ \A p \in Uploads : upc[p] \notin Running
  /\ Goto(q, "check")
  /\ UNCHANGED <<dirs, tx, result>> /\ NoFault

ConfigsAnswered(q) ==
  /\ upc[q] = "unpacked"
  /\ Goto(q, "done")
  /\ UNCHANGED <<dirs, tx, result>> /\ NoFault

ConfigsRestart ==
  LET lost == {q \in Uploads : upc[q] \in Running}
  IN  /\ faults < MaxFaults /\ faults' = faults + 1
      /\ hit' = hit \cup lost
      /\ upc' = [q \in Uploads |-> IF q \in lost THEN "dead" ELSE upc[q]]
      /\ UNCHANGED <<dirs, tx, result>>

ConfigsNext ==
  \/ \E q \in Uploads : \/ ConfigsUpload(q)
                        \/ UnpackStep(q)
                        \/ ConfigsAnswered(q)
  \/ ConfigsRestart

ConfigsSpec == ConfigsInit /\ [][ConfigsNext]_unpackVars

-----------------------------------------------------------------------------
(* Properties *)

\* When the upload is answered with 200 its configs are the active ones.
AnsweredIsActive ==
  [][\A q \in Uploads :
       upc[q] = "unpacked" /\ upc'[q] = "done" => dirs[q.dest] = q.payload]_unpackVars

\* "It can be fixed by uploading the same file again": whatever state a failed,
\* broken or interrupted upload has left, an upload with entries in it succeeds
\* unless something fails under it.
UploadRepairs ==
  \A q \in Uploads :
    upc[q] \in {"failed", "broken"} /\ q.payload # Void => q \in hit

=============================================================================
