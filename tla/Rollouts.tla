------------------------------ MODULE Rollouts ------------------------------
(***************************************************************************)
(* The rollout commit protocol of the update server.                       *)
(*                                                                         *)
(* PUT /updates/{u}/rollouts/{r} appends a line to the rollout journal,    *)
(* writes the rollout file and answers 202; a goroutine then assigns the   *)
(* update to the selected devices in the database and rewrites the file    *)
(* with commit=true.  Any of these writes may fail and the process may die *)
(* between any two of them.  The rollout watchdog re-reads the journal     *)
(* every five minutes and commits whatever is not committed.               *)
(*                                                                         *)
(* Around the protocol: devices check in with a tag, change group, are     *)
(* denied and allowed back, and updates are deleted.  Uploading updates is *)
(* not part of this module: every update starts with its row in the        *)
(* database, and a deleted one does not come back.                         *)
(***************************************************************************)
EXTENDS Integers, Sequences

CONSTANTS
  Devices,       \* device uuids
  Tags,          \* tags of devices and updates
  Groups,        \* values of the "group" label
  Updates,       \* update names
  RolloutNames,  \* rollout names
  Requests,      \* the rollout PUT requests that may arrive, once each
  UpdateTag,     \* tag of every update row at the start
  Fleet,         \* tag and group of every device at the start
  MaxFaults,     \* bound: failed writes and crashes of one behaviour
  NoTag,         \* the update has no row
  NoGroup,       \* the device has no "group" label
  NoUpdate,      \* the device has an empty update_name
  NoFile         \* no rollout file under this name

\* A PUT request: path parameters and JSON body (uuids, groups, committed).  The
\* id keeps apart requests that are otherwise equal.
RequestType == [id : Nat, update : Updates, rollout : RolloutNames,
                uuids : SUBSET Devices, groups : SUBSET Groups, committed : BOOLEAN]

ASSUME ConstantsAssumption ==
  /\ Requests \subseteq RequestType
  /\ UpdateTag \in [Updates -> Tags]
  /\ Fleet \in [Devices -> [tag : Tags, group : Groups \cup {NoGroup}]]
  /\ MaxFaults \in Nat
  /\ NoTag \notin Tags
  /\ NoGroup \notin Groups
  /\ NoUpdate \notin Updates
  /\ NoFile \notin [req : Requests, effect : SUBSET Devices, commit : BOOLEAN]

VARIABLES
  \* SQLite (survives a crash)
  updates,     \* row of each update: its tag, or NoTag
  devices,     \* row of each device
  \* files (survive a crash)
  files,       \* <<update, rollout>> -> rollout file
  part,        \* lines of rollouts.journal..part, where requests append
  partExists,  \* that file exists
  journal,     \* lines of rollouts.journal, which the watchdog processes
  \* memory of the process
  pc,          \* where each PUT request is
  tagOf,       \* update.Tag as the request read it
  effect,      \* devices the request's SetUpdateName returned
  fd,          \* which journal file the request opened
  removing,    \* deleted updates whose directory is still to be removed
  wpc,         \* where the watchdog is
  wIdx,        \* journal line it is at
  wFile,       \* rollout it read for that line
  wEffect,     \* devices its SetUpdateName returned
  wSuccess,    \* processJournal's result so far
  firstRun,    \* the watchdog has not finished its first pass
  \* auxiliary
  applied,     \* requests whose SetUpdateName took effect
  faults       \* faults so far

db    == <<updates, devices>>
disk  == <<files, part, partExists, journal>>
puts  == <<pc, tagOf, effect, fd>>
wd    == <<wpc, wIdx, wFile, wEffect, wSuccess, firstRun>>
vars  == <<updates, devices, files, part, partExists, journal,
           pc, tagOf, effect, fd, removing,
           wpc, wIdx, wFile, wEffect, wSuccess, firstRun, applied, faults>>

-----------------------------------------------------------------------------
(* Data *)

Keys == Updates \X RolloutNames

Key(q) == <<q.update, q.rollout>>

\* A line of the journal: tag|update|rollout.
Line == [tag : Tags, update : Updates, rollout : RolloutNames]

\* A rollout file: the body it was created from, the devices it took effect
\* on, and whether it is committed.
RolloutFile == [req : Requests, effect : SUBSET Devices, commit : BOOLEAN]

DeviceRow == [tag : Tags, group : Groups \cup {NoGroup},
              update : Updates \cup {NoUpdate}, deleted : BOOLEAN]

Uncommitted(k) == files[k] # NoFile /\ ~files[k].commit

InFlight == {"check", "open", "append", "write", "apply", "save"}

PcValues == InFlight \cup {"idle", "refused", "done", "orphaned"}

\* The client got 202.
Accepted(q) == pc[q] \in {"apply", "save", "done", "orphaned"}

-----------------------------------------------------------------------------
Init ==
  /\ updates = UpdateTag
  /\ devices = [d \in Devices |->
                  [tag |-> Fleet[d].tag, group |-> Fleet[d].group,
                   update |-> NoUpdate, deleted |-> FALSE]]
  /\ files = [k \in Keys |-> NoFile]
  /\ part = <<>>
  /\ partExists = FALSE
  /\ journal = <<>>
  /\ pc = [q \in Requests |-> "idle"]
  /\ tagOf = [q \in Requests |-> NoTag]
  /\ effect = [q \in Requests |-> {}]
  /\ fd = [q \in Requests |-> "none"]
  /\ removing = {}
  /\ wpc = "process"
  /\ wIdx = 1
  /\ wFile = NoFile
  /\ wEffect = {}
  /\ wSuccess = TRUE
  /\ firstRun = TRUE
  /\ applied = {}
  /\ faults = 0

Fault == faults < MaxFaults /\ faults' = faults + 1

NoFault == UNCHANGED faults

-----------------------------------------------------------------------------
(* PUT /updates/{update}/rollouts/{rollout} *)

\* Mutant: the nil check on the update is missing.
RolloutPutAnyUpdate(q) ==
  /\ pc[q] = "idle"
  /\ pc' = [pc EXCEPT ![q] = IF q.uuids = {} /\ q.groups = {} THEN "refused" ELSE "check"]
  /\ tagOf' = [tagOf EXCEPT ![q] = updates[q.update]]
  /\ UNCHANGED <<db, disk, effect, fd, removing, wd, applied, faults>>

\* The body is bound and validated and the update is looked up: 400, 404, or on.
RolloutPut(q) ==
  /\ pc[q] = "idle"
  /\ IF \/ q.uuids = {} /\ q.groups = {}
        \/ updates[q.update] = NoTag
       THEN /\ pc' = [pc EXCEPT ![q] = "refused"]
            /\ UNCHANGED tagOf
       ELSE /\ pc' = [pc EXCEPT ![q] = "check"]
            /\ tagOf' = [tagOf EXCEPT ![q] = updates[q.update]]
  /\ UNCHANGED <<db, disk, effect, fd, removing, wd, applied, faults>>

\* GetRollout must say that the file does not exist: 409 otherwise.
CheckName(q) ==
  /\ pc[q] = "check"
  /\ pc' = [pc EXCEPT ![q] = IF files[Key(q)] = NoFile THEN "open" ELSE "refused"]
  /\ UNCHANGED <<db, disk, tagOf, effect, fd, removing, wd, applied, faults>>

\* AppendJournal opens (and creates) the partial journal...
OpenJournal(q) ==
  /\ pc[q] = "open"
  /\ pc' = [pc EXCEPT ![q] = "append"]
  /\ fd' = [fd EXCEPT ![q] = "part"]
  /\ partExists' = TRUE
  /\ UNCHANGED <<db, files, part, journal, tagOf, effect, removing, wd, applied, faults>>

\* ...and appends to the file it opened, under whatever name it now has.
AddLine(q) ==
  LET line == [tag |-> tagOf[q], update |-> q.update, rollout |-> q.rollout]
  IN  /\ part' = IF fd[q] = "part" THEN Append(part, line) ELSE part
      /\ journal' = IF fd[q] = "part" THEN journal ELSE Append(journal, line)

AppendJournal(q) ==
  /\ pc[q] = "append"
  /\ AddLine(q)
  /\ pc' = [pc EXCEPT ![q] = "write"]
  /\ UNCHANGED <<db, files, partExists, tagOf, effect, fd, removing, wd, applied, faults>>

\* CreateRollout writes the file, the handler starts the goroutine and answers
\* 202.  The body is written as it was bound: committed as the client says.
WriteRollout(q) ==
  /\ pc[q] = "write"
  /\ files' = [files EXCEPT ![Key(q)] = [req |-> q, effect |-> {}, commit |-> q.committed]]
  /\ pc' = [pc EXCEPT ![q] = "apply"]
  /\ UNCHANGED <<db, part, partExists, journal, tagOf, effect, fd, removing, wd, applied, faults>>

\* Mutant: the error of CreateRollout is logged and the request goes on.
CreateRolloutErrorIgnored(q) ==
  /\ pc[q] \in {"open", "append", "write"}
  /\ pc' = [pc EXCEPT ![q] = "apply"]
  /\ Fault
  /\ UNCHANGED <<db, disk, tagOf, effect, fd, removing, wd, applied>>

\* GetRollout, AppendJournal or WriteFile fails: 500.  An append may fail after
\* the line is in the file.
CreateRolloutFails(q) ==
  /\ pc[q] \in {"check", "open", "append", "write"}
  /\ \/ UNCHANGED <<part, journal>>
     \/ pc[q] = "append" /\ AddLine(q)
  /\ pc' = [pc EXCEPT ![q] = "refused"]
  /\ Fault
  /\ UNCHANGED <<db, files, partExists, tagOf, effect, fd, removing, wd, applied>>

-----------------------------------------------------------------------------
(* CommitRollout, run by the request's goroutine and by the watchdog *)

\* UPDATE devices SET update_name ... WHERE tag = t AND (uuid IN .. OR group IN ..)
Selected(q, t) ==
  {d \in Devices : /\ devices[d].tag = t
                   /\ d \in q.uuids \/ devices[d].group \in q.groups}

SetUpdateName(q, t) ==
  /\ devices' = [d \in Devices |->
                   IF d \in Selected(q, t)
                     THEN [devices[d] EXCEPT !.update = q.update]
                     ELSE devices[d]]
  /\ applied' = applied \cup {q}

SaveRollout(k, q, eff) ==
  files' = [files EXCEPT ![k] = [req |-> q, effect |-> eff, commit |-> TRUE]]

CommitApply(q) ==
  /\ pc[q] = "apply"
  /\ SetUpdateName(q, tagOf[q])
  /\ effect' = [effect EXCEPT ![q] = Selected(q, tagOf[q])]
  /\ pc' = [pc EXCEPT ![q] = "save"]
  /\ UNCHANGED <<updates, disk, tagOf, fd, removing, wd, faults>>

CommitSave(q) ==
  /\ pc[q] = "save"
  /\ SaveRollout(Key(q), q, effect[q])
  /\ pc' = [pc EXCEPT ![q] = "done"]
  /\ UNCHANGED <<db, part, partExists, journal, tagOf, effect, fd, removing, wd, applied, faults>>

\* Mutant: the error of SetUpdateName does not stop CommitRollout.
CommitErrorIgnored(q) ==
  /\ pc[q] \in {"apply", "save"}
  /\ pc' = [pc EXCEPT ![q] = IF pc[q] = "apply" THEN "save" ELSE "orphaned"]
  /\ Fault
  /\ UNCHANGED <<db, disk, tagOf, effect, fd, removing, wd, applied>>

\* Either half of the commit fails: the error is only logged.
CommitFails(q) ==
  /\ pc[q] \in {"apply", "save"}
  /\ pc' = [pc EXCEPT ![q] = "orphaned"]
  /\ Fault
  /\ UNCHANGED <<db, disk, tagOf, effect, fd, removing, wd, applied>>

-----------------------------------------------------------------------------
(* rolloutWatchdog and processJournal *)

\* The interval has passed.  The code relies on it being long enough for a
\* request that had the partial journal open when it was moved to finish both
\* its append and its file write; that is the second conjunct.
WatchdogWake ==
  /\ wpc = "wait"
  /\ \A q \in Requests : pc[q] \in {"append", "write"} => fd[q] = "part"
  /\ wpc' = "process"
  /\ wIdx' = 1
  /\ wSuccess' = TRUE
  /\ UNCHANGED <<db, disk, puts, removing, wFile, wEffect, firstRun, applied, faults>>

AtLine == wpc = "process" /\ wIdx <= Len(journal)

LineKey(l) == <<l.update, l.rollout>>

\* The line's rollout file is gone or already committed.
WatchdogSkip ==
  /\ AtLine
  /\ ~Uncommitted(LineKey(journal[wIdx]))
  /\ wIdx' = wIdx + 1
  /\ UNCHANGED <<db, disk, puts, removing, wpc, wFile, wEffect, wSuccess, firstRun, applied, faults>>

\* The line's rollout is not committed: commit what was read.
WatchdogRead ==
  /\ AtLine
  /\ Uncommitted(LineKey(journal[wIdx]))
  /\ wFile' = files[LineKey(journal[wIdx])]
  /\ wpc' = "apply"
  /\ UNCHANGED <<db, disk, puts, removing, wIdx, wEffect, wSuccess, firstRun, applied, faults>>

WatchdogApply ==
  /\ wpc = "apply"
  /\ SetUpdateName(wFile.req, journal[wIdx].tag)
  /\ wEffect' = Selected(wFile.req, journal[wIdx].tag)
  /\ wpc' = "save"
  /\ UNCHANGED <<updates, disk, puts, removing, wIdx, wFile, wSuccess, firstRun, faults>>

WatchdogSave ==
  /\ wpc = "save"
  /\ SaveRollout(LineKey(journal[wIdx]), wFile.req, wEffect)
  /\ wpc' = "process"
  /\ wIdx' = wIdx + 1
  /\ wFile' = NoFile
  /\ wEffect' = {}
  /\ UNCHANGED <<db, part, partExists, journal, puts, removing, wSuccess, firstRun, applied, faults>>

\* Reading the rollout or committing it fails: go on with the next line.
WatchdogLineFails ==
  /\ AtLine \/ wpc \in {"apply", "save"}
  /\ wpc' = "process"
  /\ wIdx' = wIdx + 1
  /\ wSuccess' = FALSE
  /\ wFile' = NoFile
  /\ wEffect' = {}
  /\ Fault
  /\ UNCHANGED <<db, disk, puts, removing, firstRun, applied>>

\* Mutant: the break on a read error leaves success as it was.
WatchdogReadFailsSilently ==
  /\ wpc = "process"
  /\ wIdx' = Len(journal) + 1
  /\ Fault
  /\ UNCHANGED <<db, disk, puts, removing, wpc, wFile, wEffect, wSuccess, firstRun, applied>>

\* Reading the journal fails: give up this pass.
WatchdogReadFails ==
  /\ wpc = "process"
  /\ wIdx' = Len(journal) + 1
  /\ wSuccess' = FALSE
  /\ Fault
  /\ UNCHANGED <<db, disk, puts, removing, wpc, wFile, wEffect, firstRun, applied>>

\* The requests that have the moved file open keep it open.
Moved == [q \in Requests |-> IF fd[q] = "part" THEN "journal" ELSE fd[q]]

\* Mutant: the journal is rolled over whether or not the pass succeeded.
WatchdogFinishAlways ==
  /\ wpc = "process"
  /\ wIdx > Len(journal)
  /\ IF ~firstRun /\ partExists
       THEN /\ journal' = part
            /\ part' = <<>>
            /\ partExists' = FALSE
            /\ fd' = Moved
       ELSE UNCHANGED <<journal, part, partExists, fd>>
  /\ firstRun' = FALSE
  /\ wpc' = "wait"
  /\ UNCHANGED <<db, files, pc, tagOf, effect, removing, wIdx, wFile, wEffect, wSuccess,
                 applied, faults>>

\* The pass is over.  After the first pass, and after one that failed, the
\* journal stays; otherwise the partial journal replaces it, if there is one.
WatchdogFinish ==
  /\ wpc = "process"
  /\ wIdx > Len(journal)
  /\ IF ~firstRun /\ wSuccess /\ partExists
       THEN /\ journal' = part
            /\ part' = <<>>
            /\ partExists' = FALSE
            /\ fd' = Moved
       ELSE UNCHANGED <<journal, part, partExists, fd>>
  /\ firstRun' = FALSE
  /\ wpc' = "wait"
  /\ UNCHANGED <<db, files, pc, tagOf, effect, removing, wIdx, wFile, wEffect, wSuccess,
                 applied, faults>>

\* RolloverJournal fails.
RolloverFails ==
  /\ wpc = "process"
  /\ wIdx > Len(journal)
  /\ ~firstRun /\ wSuccess
  /\ wpc' = "wait"
  /\ Fault
  /\ UNCHANGED <<db, disk, puts, removing, wIdx, wFile, wEffect, wSuccess, firstRun, applied>>

-----------------------------------------------------------------------------
(* DELETE /updates/{update} *)

\* The trigger prevent_delete_update_in_use.
InUse(u) ==
  \E d \in Devices : /\ devices[d].tag = updates[u]
                     /\ devices[d].update = u
                     /\ ~devices[d].deleted

DeleteUpdateRow(u) ==
  /\ updates[u] # NoTag
  /\ ~InUse(u)
  /\ updates' = [updates EXCEPT ![u] = NoTag]
  /\ removing' = removing \cup {u}
  /\ UNCHANGED <<devices, disk, puts, wd, applied, faults>>

RemoveUpdateDir(u) ==
  /\ u \in removing
  /\ removing' = removing \ {u}
  /\ \/ /\ files' = [k \in Keys |-> IF k[1] = u THEN NoFile ELSE files[k]]
        /\ NoFault
     \/ /\ Fault
        /\ UNCHANGED files
  /\ UNCHANGED <<db, part, partExists, journal, puts, wd, applied>>

-----------------------------------------------------------------------------
(* Devices.  The lookup that finds the device active and the UPDATE that      *)
(* follows it are one step here.                                             *)

\* A request of a device passes authDevice and checks in with a tag.
CheckIn(d, t) ==
  /\ ~devices[d].deleted
  /\ devices' = [devices EXCEPT ![d].tag = t]
  /\ UNCHANGED <<updates, disk, puts, removing, wd, applied, faults>>

PatchDeviceLabels(d, g) ==
  /\ ~devices[d].deleted
  /\ devices' = [devices EXCEPT ![d].group = g]
  /\ UNCHANGED <<updates, disk, puts, removing, wd, applied, faults>>

DeleteDevice(d) ==
  /\ ~devices[d].deleted
  /\ devices' = [devices EXCEPT ![d].deleted = TRUE, ![d].group = NoGroup]
  /\ UNCHANGED <<updates, disk, puts, removing, wd, applied, faults>>

UndenyDevice(d) ==
  /\ devices[d].deleted
  /\ devices' = [devices EXCEPT ![d].deleted = FALSE]
  /\ UNCHANGED <<updates, disk, puts, removing, wd, applied, faults>>

-----------------------------------------------------------------------------
\* The process dies and starts again: everything in memory is lost, the
\* watchdog starts with its first pass.
Restart ==
  /\ pc' = [q \in Requests |->
              CASE pc[q] \in {"apply", "save"}             -> "orphaned"
                [] pc[q] \in InFlight \ {"apply", "save"}  -> "refused"
                [] OTHER                                   -> pc[q]]
  /\ removing' = {}
  /\ wpc' = "process"
  /\ wIdx' = 1
  /\ wSuccess' = TRUE
  /\ firstRun' = TRUE
  /\ wFile' = NoFile
  /\ wEffect' = {}
  /\ Fault
  /\ UNCHANGED <<db, disk, tagOf, effect, fd, applied>>

-----------------------------------------------------------------------------
PutStep(q) ==
  \/ RolloutPut(q) \/ CheckName(q) \/ OpenJournal(q) \/ AppendJournal(q)
  \/ WriteRollout(q) \/ CreateRolloutFails(q)
  \/ CommitApply(q) \/ CommitSave(q) \/ CommitFails(q)

WatchdogStep ==
  \/ WatchdogWake \/ WatchdogSkip \/ WatchdogRead \/ WatchdogApply
  \/ WatchdogSave \/ WatchdogLineFails \/ WatchdogReadFails
  \/ WatchdogFinish \/ RolloverFails

Next ==
  \/ \E q \in Requests : PutStep(q)
  \/ WatchdogStep
  \/ \E u \in Updates : DeleteUpdateRow(u) \/ RemoveUpdateDir(u)
  \/ \E d \in Devices : \/ \E t \in Tags : CheckIn(d, t)
                        \/ \E g \in Groups \cup {NoGroup} : PatchDeviceLabels(d, g)
                        \/ DeleteDevice(d)
                        \/ UndenyDevice(d)
  \/ Restart

Spec == Init /\ [][Next]_vars

\* A handler or goroutine that has been started runs, and so does the
\* watchdog.  Clients owe nothing: no request has to arrive.
Fairness ==
  /\ \A q \in Requests : WF_vars(pc[q] # "idle" /\ PutStep(q))
  /\ WF_vars(WatchdogStep)

FairSpec == Spec /\ Fairness

-----------------------------------------------------------------------------
(* Properties *)

\* Every variable stays in its domain; in particular the watchdog in the middle
\* of a commit is at a line of the journal and has read a rollout.
TypeOK ==
  /\ updates \in [Updates -> Tags \cup {NoTag}]
  /\ devices \in [Devices -> DeviceRow]
  /\ files \in [Keys -> RolloutFile \cup {NoFile}]
  /\ part \in Seq(Line)
  /\ partExists \in BOOLEAN
  /\ journal \in Seq(Line)
  /\ pc \in [Requests -> PcValues]
  /\ tagOf \in [Requests -> Tags \cup {NoTag}]
  /\ effect \in [Requests -> SUBSET Devices]
  /\ fd \in [Requests -> {"none", "part", "journal"}]
  /\ removing \subseteq Updates
  /\ wpc \in {"process", "apply", "save", "wait"}
  /\ wIdx \in Nat \ {0}
  /\ wFile \in RolloutFile \cup {NoFile}
  /\ wEffect \in SUBSET Devices
  /\ wSuccess \in BOOLEAN
  /\ firstRun \in BOOLEAN
  /\ applied \subseteq Requests
  /\ faults \in 0..MaxFaults
  /\ \A q \in Requests : pc[q] \in InFlight => tagOf[q] \in Tags
  /\ wpc \in {"apply", "save"} => wFile \in RolloutFile /\ wIdx <= Len(journal)

InPart(k) == \E i \in 1..Len(part) : LineKey(part[i]) = k

\* The watchdog will read line i of the journal again before it drops it.
Pending(i) == wpc = "wait" \/ firstRun \/ ~wSuccess \/ i >= wIdx

InPendingJournal(k) == \E i \in 1..Len(journal) : LineKey(journal[i]) = k /\ Pending(i)

\* A rollout file that is not committed has a line in one of the journals that
\* the watchdog has still to act on: whatever write failed and wherever the
\* process died, CreateRollout's journal-first order and the watchdog's rollover
\* rule never lose track of it.
JournalCovers ==
  \A k \in Keys : Uncommitted(k) => InPart(k) \/ InPendingJournal(k)

\* The commit flag is what makes the watchdog skip a rollout, so a file carries
\* it only if the rollout it holds was applied to the database, whichever of
\* the request's goroutine and the watchdog wrote it; or if the client sent it,
\* which rolloutPut does not refuse.
CommittedWasApplied ==
  \A k \in Keys : files[k] # NoFile /\ files[k].commit =>
    files[k].req \in applied \/ files[k].req.committed

\* No other request for the same rollout name has come past the name check.
SoleRequest(q) ==
  \A p \in Requests \ {q} :
    Key(p) = Key(q) => pc[p] \in {"idle", "check", "refused"}

\* What rolloutPut promises with its 202: if the goroutine could not finish,
\* either the devices were updated all the same or the rollout is on disk,
\* uncommitted, for the watchdog (unless the update was deleted since).
Recoverable(q) ==
  \/ q \in applied
  \/ files[Key(q)] # NoFile /\ files[Key(q)].req = q /\ ~files[Key(q)].commit
  \/ updates[q.update] = NoTag

\* An accepted rollout that no other request for the same name competes with
\* stays recoverable, unless its client sent it as committed.
SoleAcceptedRecoverable ==
  \A q \in Requests : Accepted(q) /\ SoleRequest(q) /\ ~q.committed => Recoverable(q)

\* Every rollout file that is not committed becomes committed or is removed,
\* once writes stop failing and the process stops crashing.
RolloutsConverge ==
  \A k \in Keys : Uncommitted(k) ~> ~Uncommitted(k)

=============================================================================
