--------------------------- MODULE ConfigHistory ----------------------------
(***************************************************************************)
(* The history of one configuration directory: the factory's, a group's or *)
(* a device's.  The directory holds config files named by the sha256 of    *)
(* their content and .journal, whose last line names the current config.   *)
(*                                                                         *)
(* A save writes the config file, appends its name to the journal and      *)
(* purges the files that the last KeepLatest lines do not name.  Saves come*)
(* from the API (PUT /configs/..., which reads the current config first    *)
(* and does nothing if it would not change) and, in a device's directory,  *)
(* from the gateway (PATCH /config, which merges into the current config   *)
(* and always saves).                                                      *)
(***************************************************************************)
EXTENDS Integers, Sequences, FiniteSets

CONSTANTS
  Contents,       \* config contents; a content is also its own file name
  Requests,       \* the PUT and PATCH requests that may arrive, once each
  Merge,          \* Merge[current content or None][files of a PATCH] is the result
  KeepLatest,     \* ConfigHistoryLimit
  MaxFaults,      \* bound: failed writes and crashes of one behaviour
  None            \* no config yet

ASSUME ConfigAssumption ==
  /\ Requests \subseteq [id : Nat, kind : {"put", "patch"}, content : Contents]
  /\ Merge \in [Contents \cup {None} -> [Contents -> Contents]]
  /\ KeepLatest \in Nat \ {0}
  /\ MaxFaults \in Nat
  /\ None \notin Contents

VARIABLES
  files,    \* names of the config files in the directory
  journal,  \* names in .journal, oldest first
  pc,       \* where each request is
  seen,     \* the current config's name as the request read it
  target,   \* the content the request saves
  todo,     \* files its purge saw, then files its purge has to delete
  cut,      \* auxiliary: files that a failed save deleted and no save wrote since
  landed,   \* auxiliary: requests whose append failed with their line in the journal
  overlapped,  \* auxiliary: a save has begun while another was running
  faults

vars == <<files, journal, pc, seen, target, todo, cut, landed, overlapped, faults>>

Purging == {"list", "names", "delete"}
Running == {"readFile", "write", "append"} \cup Purging

Init ==
  /\ files = {}
  /\ journal = <<>>
  /\ pc = [q \in Requests |-> "idle"]
  /\ seen = [q \in Requests |-> None]
  /\ target = [q \in Requests |-> None]
  /\ todo = [q \in Requests |-> {}]
  /\ cut = {}
  /\ landed = {}
  /\ overlapped = FALSE
  /\ faults = 0

Fault == faults < MaxFaults /\ faults' = faults + 1

\* Names on the last KeepLatest lines of the journal.
LastNames(j) == {j[i] : i \in {n \in 1..Len(j) : n > Len(j) - KeepLatest}}

-----------------------------------------------------------------------------
\* Mutant: a PATCH of a directory without a config saves what it read.
NewContentUnmerged(q, prev) == IF q.kind = "put" THEN q.content ELSE prev

\* What a request saves when the current config is prev.
NewContent(q, prev) == IF q.kind = "put" THEN q.content ELSE Merge[prev][q.content]

\* Mutant: a PUT that changes nothing is saved again.
DecideAlwaysSaves(q, prev) ==
  /\ target' = [target EXCEPT ![q] = NewContent(q, prev)]
  /\ pc' = [pc EXCEPT ![q] = "write"]

\* The request knows the current config: a PUT that changes nothing is done.
Decide(q, prev) ==
  /\ target' = [target EXCEPT ![q] = NewContent(q, prev)]
  /\ pc' = [pc EXCEPT ![q] = IF q.kind = "put" /\ q.content = prev THEN "done" ELSE "write"]

\* readHistory(1, true) reads the journal...
ReadJournal(q) ==
  /\ pc[q] = "idle"
  /\ IF journal = <<>>
       THEN Decide(q, None) /\ UNCHANGED seen
       ELSE /\ seen' = [seen EXCEPT ![q] = journal[Len(journal)]]
            /\ pc' = [pc EXCEPT ![q] = "readFile"]
            /\ UNCHANGED target
  /\ overlapped' = (overlapped \/ \E p \in Requests : pc[p] \in Running)
  /\ UNCHANGED <<files, journal, todo, cut, landed, faults>>

\* Mutant: a missing file is read as no config.
ReadFileMissingIsNone(q) ==
  /\ pc[q] = "readFile"
  /\ Decide(q, IF seen[q] \in files THEN seen[q] ELSE None)
  /\ UNCHANGED <<files, journal, seen, todo, cut, landed, overlapped, faults>>

\* ...and then the file that its last line names: a missing file is an error.
ReadFile(q) ==
  /\ pc[q] = "readFile"
  /\ IF seen[q] \in files
       THEN Decide(q, seen[q])
       ELSE pc' = [pc EXCEPT ![q] = "failed"] /\ UNCHANGED target
  /\ UNCHANGED <<files, journal, seen, todo, cut, landed, overlapped, faults>>

-----------------------------------------------------------------------------
(* writeConfig *)

WriteFile(q) ==
  /\ pc[q] = "write"
  /\ \/ /\ files' = files \cup {target[q]}
        /\ cut' = cut \ {target[q]}
        /\ pc' = [pc EXCEPT ![q] = "append"]
        /\ UNCHANGED faults
     \/ /\ pc' = [pc EXCEPT ![q] = "failed"]
        /\ Fault
        /\ UNCHANGED <<files, cut>>
  /\ UNCHANGED <<journal, seen, target, todo, landed, overlapped>>

AppendJournal(q) ==
  /\ pc[q] = "append"
  /\ journal' = Append(journal, target[q])
  /\ pc' = [pc EXCEPT ![q] = "list"]
  /\ UNCHANGED <<files, seen, target, todo, cut, landed, overlapped, faults>>

\* The append fails, before or after the line is in the journal: the file that
\* was written is deleted, and an error of that deletion is ignored.
AppendFails(q) ==
  /\ pc[q] = "append"
  /\ \/ UNCHANGED <<journal, landed>>
     \/ journal' = Append(journal, target[q]) /\ landed' = landed \cup {q}
  /\ \/ files' = files \ {target[q]} /\ cut' = cut \cup {target[q]}
     \/ UNCHANGED <<files, cut>>
  /\ pc' = [pc EXCEPT ![q] = "failed"]
  /\ Fault
  /\ UNCHANGED <<seen, target, todo, overlapped>>

-----------------------------------------------------------------------------
(* purgeHistory *)

\* Mutant: the listing is compared with the limit as if it had no .journal.
ListFilesWithoutJournal(q) ==
  /\ pc[q] = "list"
  /\ todo' = [todo EXCEPT ![q] = files]
  /\ pc' = [pc EXCEPT ![q] = IF Cardinality(files) <= KeepLatest THEN "done" ELSE "names"]
  /\ UNCHANGED <<files, journal, seen, target, cut, landed, overlapped, faults>>

\* The directory listing counts .journal too.
ListFiles(q) ==
  /\ pc[q] = "list"
  /\ todo' = [todo EXCEPT ![q] = files]
  /\ pc' = [pc EXCEPT ![q] = IF Cardinality(files) + 1 <= KeepLatest THEN "done" ELSE "names"]
  /\ UNCHANGED <<files, journal, seen, target, cut, landed, overlapped, faults>>

\* Mutant: one name too few is kept.
ReadNamesOffByOne(q) ==
  /\ pc[q] = "names"
  /\ todo' = [todo EXCEPT ![q] = @ \ {journal[i] : i \in {n \in 1..Len(journal) :
                                                         n > Len(journal) - KeepLatest + 1}}]
  /\ pc' = [pc EXCEPT ![q] = "delete"]
  /\ UNCHANGED <<files, journal, seen, target, cut, landed, overlapped, faults>>

ReadNames(q) ==
  /\ pc[q] = "names"
  /\ todo' = [todo EXCEPT ![q] = @ \ LastNames(journal)]
  /\ pc' = [pc EXCEPT ![q] = "delete"]
  /\ UNCHANGED <<files, journal, seen, target, cut, landed, overlapped, faults>>

PurgeFile(q) ==
  /\ pc[q] = "delete"
  /\ \E n \in todo[q] :
       /\ files' = files \ {n}
       /\ todo' = [todo EXCEPT ![q] = @ \ {n}]
  /\ UNCHANGED <<journal, pc, seen, target, cut, landed, overlapped, faults>>

PurgeDone(q) ==
  /\ pc[q] = "delete"
  /\ todo[q] = {}
  /\ pc' = [pc EXCEPT ![q] = "done"]
  /\ UNCHANGED <<files, journal, seen, target, todo, cut, landed, overlapped, faults>>

\* A step of the purge fails: it is logged and the save has succeeded.
PurgeFails(q) ==
  /\ pc[q] \in Purging
  /\ pc' = [pc EXCEPT ![q] = "done"]
  /\ Fault
  /\ UNCHANGED <<files, journal, seen, target, todo, cut, landed, overlapped>>

-----------------------------------------------------------------------------
\* The process dies: every running request with it.
Restart ==
  /\ pc' = [q \in Requests |-> IF pc[q] \in Running THEN "failed" ELSE pc[q]]
  /\ Fault
  /\ UNCHANGED <<files, journal, seen, target, todo, cut, landed, overlapped>>

Step(q) ==
  \/ ReadJournal(q) \/ ReadFile(q)
  \/ WriteFile(q) \/ AppendJournal(q) \/ AppendFails(q)
  \/ ListFiles(q) \/ ReadNames(q) \/ PurgeFile(q) \/ PurgeDone(q) \/ PurgeFails(q)

Next == (\E q \in Requests : Step(q)) \/ Restart

Spec == Init /\ [][Next]_vars

-----------------------------------------------------------------------------
(* Properties *)

\* Every variable stays in its domain.
TypeOK ==
  /\ files \subseteq Contents
  /\ journal \in Seq(Contents)
  /\ pc \in [Requests -> Running \cup {"idle", "done", "failed"}]
  /\ seen \in [Requests -> Contents \cup {None}]
  /\ target \in [Requests -> Contents \cup {None}]
  /\ todo \in [Requests -> SUBSET Contents]
  /\ cut \subseteq Contents
  /\ landed \subseteq Requests
  /\ overlapped \in BOOLEAN
  /\ faults \in 0..MaxFaults

\* The current config can be read: the file that the journal's last line names
\* exists.  Otherwise GET and PUT of the config answer 500 from then on, and so
\* does the gateway to the devices concerned.
LatestReadable == journal # <<>> => journal[Len(journal)] \in files

LinesReadable == LastNames(journal) \ cut \subseteq files

\* The whole history that readHistory may be asked for can be read, but for the
\* files that failed saves took away: until two saves overlap, no purge and no
\* crash removes a file that one of the last lines names.
HistoryReadable == overlapped \/ LinesReadable

LostByFailedSave ==
  \/ LatestReadable
  \/ \E q \in Requests : /\ pc[q] = "failed"
                         /\ target[q] = journal[Len(journal)]
                         /\ q.kind = "patch" \/ q \in landed

\* Until two saves overlap, the current config is lost only by a save of that
\* very content that failed: a device's PATCH, which saves what it merged even if
\* nothing changed, or a save whose append failed after the line was in the
\* journal.  The check for a change keeps every other PUT from saving, and on
\* failure deleting, what is already current.
LatestLostByFailedSave == overlapped \/ LostByFailedSave

\* A purge that ran to its end has removed the files of failed and interrupted
\* saves along with the old ones, unless the directory is below the limit or
\* saves have overlapped.
PurgeRemovesOrphans ==
  [][\A q \in Requests :
       /\ pc[q] \in {"list", "delete"}
       /\ pc'[q] = "done"
       /\ faults' = faults
       /\ ~overlapped
       => \/ Cardinality(files') < KeepLatest
          \/ files' \subseteq LastNames(journal')]_vars

\* The register the directory stands for: the content that the journal's last
\* line names, replaced at the moment a request appends its line.
Latest == IF journal = <<>> THEN None ELSE journal[Len(journal)]

Status(q) == CASE pc[q] = "idle" -> "open"
               [] pc[q] \in Purging \cup {"done"} -> "applied"
               [] pc[q] = "failed" -> "failed"
               [] OTHER -> "begun"

Register == INSTANCE ConfigRegister WITH
  latest <- Latest,
  status <- [q \in Requests |-> Status(q)],
  found <- seen

\* However saves overlap, fail and are interrupted, the directory is a register:
\* its value changes only when a request replaces it, once, by what the request
\* makes of the value it found when it began.  A request that is answered with
\* success has done that or found its content current; a config that cannot be
\* read is an error and never taken for an empty one.
ImplementsRegister == Register!Spec

=============================================================================
