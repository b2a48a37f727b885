--------------------------- MODULE RolloutsProofs ---------------------------
(***************************************************************************)
(* Proofs about the rollout commit protocol, for any sets of devices,      *)
(* updates and requests and any number of faults, and about the stream of  *)
(* a rollouts log, for any lines, connections and faults.                  *)
(***************************************************************************)
EXTENDS Rollouts, LogTail, FiniteSetTheorems, SequenceTheorems, WellFoundedInduction, TLAPS

-----------------------------------------------------------------------------
(* The inductive invariant *)

InJournal(k) == \E i \in 1..Len(journal) : LineKey(journal[i]) = k

\* Where a request that is about to append or has just appended stands: the
\* file it opened is still the partial journal, or it has been moved and the
\* watchdog is waiting.
OpenFiles ==
  \A q \in Requests : pc[q] \in {"append", "write"} =>
    \/ fd[q] = "part" /\ partExists
    \/ fd[q] = "journal" /\ wpc = "wait"

\* A request that has appended finds its line in the file it appended to.
LineWritten ==
  \A q \in Requests : pc[q] = "write" =>
    /\ fd[q] = "part" => InPart(Key(q))
    /\ fd[q] = "journal" => InJournal(Key(q))

\* Lines are only in a partial journal that exists.
PartLines == ~partExists => part = <<>>

\* The second half of a commit is only reached through the first.
SaveAfterApply ==
  /\ \A q \in Requests : pc[q] = "save" => q \in applied
  /\ wpc = "save" => wFile.req \in applied

JournalInv == JournalCovers /\ OpenFiles /\ LineWritten /\ PartLines

CommitInv == CommittedWasApplied /\ SaveAfterApply

-----------------------------------------------------------------------------
(* Type correctness *)

\* What SetUpdateName returns is a set of devices.
LEMMA SelectedType ==
  ASSUME NEW q, NEW t
  PROVE  Selected(q, t) \in SUBSET Devices
BY DEF Selected

\* Assigning an update keeps the device rows well-formed.
LEMMA SetUpdateNameType ==
  ASSUME TypeOK, NEW q \in Requests, NEW t, SetUpdateName(q, t)
  PROVE  /\ devices' \in [Devices -> DeviceRow]
         /\ applied' \subseteq Requests
<1>1. q.update \in Updates
  BY ConstantsAssumption DEF RequestType
<1>2. \A d \in Devices : [devices[d] EXCEPT !.update = q.update] \in DeviceRow
  BY <1>1 DEF TypeOK, DeviceRow
<1> QED
  BY <1>2 DEF TypeOK, SetUpdateName

\* The append of a request, whether or not it then fails.
AppendStep(q) ==
  /\ pc[q] = "append"
  /\ AddLine(q)
  /\ \/ pc' = [pc EXCEPT ![q] = "write"] /\ UNCHANGED faults
     \/ pc' = [pc EXCEPT ![q] = "refused"] /\ Fault
  /\ UNCHANGED <<db, files, partExists, tagOf, effect, fd, removing, wd, applied>>

\* The failure of CreateRollout that comes after the line is an append too.
LEMMA AppendSteps ==
  ASSUME NEW q
  PROVE  /\ AppendJournal(q) => AppendStep(q)
         /\ CreateRolloutFails(q) => AppendStep(q) \/ UNCHANGED <<part, journal>>
BY DEF AppendJournal, CreateRolloutFails, AppendStep

\* Every variable stays in its domain (the type invariant).
LEMMA PutTypes ==
  ASSUME TypeOK, NEW q \in Requests, PutStep(q)
  PROVE  TypeOK'
<1> USE DEF TypeOK, db, disk, puts, wd, PcValues, InFlight
<1>0. Key(q) \in Keys /\ q.update \in Updates /\ q.rollout \in RolloutNames
  BY ConstantsAssumption DEF RequestType, Key, Keys
<1>1. CASE RolloutPut(q)
  BY <1>0, <1>1 DEF RolloutPut
<1>2. CASE CheckName(q)
  BY <1>2 DEF CheckName
<1>3. CASE OpenJournal(q)
  BY <1>3 DEF OpenJournal
<1>4. CASE AppendStep(q)
  <2>1. [tag |-> tagOf[q], update |-> q.update, rollout |-> q.rollout] \in Line
    BY <1>0, <1>4 DEF AppendStep, Line
  <2>2. part' \in Seq(Line) /\ journal' \in Seq(Line) /\ Len(journal) <= Len(journal')
    BY <2>1, <1>4 DEF AppendStep, AddLine
  <2>3. faults' \in 0..MaxFaults
    BY <1>4, ConstantsAssumption DEF AppendStep, Fault
  <2>4. pc' \in [Requests -> PcValues] /\ \A p \in Requests : pc'[p] \in InFlight => pc[p] \in InFlight
    BY <1>4 DEF AppendStep
  <2> QED
    BY <2>2, <2>3, <2>4, <1>4 DEF AppendStep
<1>5. CASE WriteRollout(q)
  <2>1. [req |-> q, effect |-> {}, commit |-> q.committed] \in RolloutFile
    BY ConstantsAssumption DEF RolloutFile, RequestType
  <2> QED
    BY <2>1, <1>0, <1>5 DEF WriteRollout
<1>6. CASE CreateRolloutFails(q) /\ UNCHANGED <<part, journal>>
  BY <1>6, ConstantsAssumption DEF CreateRolloutFails, Fault
<1>7. CASE CommitApply(q)
  <2>1. devices' \in [Devices -> DeviceRow] /\ applied' \subseteq Requests
    BY <1>7, SetUpdateNameType DEF CommitApply
  <2> QED
    BY <2>1, <1>7, SelectedType DEF CommitApply
<1>8. CASE CommitSave(q)
  <2>1. [req |-> q, effect |-> effect[q], commit |-> TRUE] \in RolloutFile
    BY DEF RolloutFile
  <2> QED
    BY <2>1, <1>0, <1>8 DEF CommitSave, SaveRollout
<1>9. CASE CommitFails(q)
  BY <1>9, ConstantsAssumption DEF CommitFails, Fault
<1> QED
  BY <1>1, <1>2, <1>3, <1>4, <1>5, <1>6, <1>7, <1>8, <1>9, AppendSteps DEF PutStep

\* A line of the journal names a rollout.
LEMMA LineTypes ==
  ASSUME TypeOK
  PROVE  /\ \A i \in 1..Len(journal) : LineKey(journal[i]) \in Keys
         /\ wIdx <= Len(journal) => LineKey(journal[wIdx]) \in Keys
<1>1. \A l \in Line : LineKey(l) \in Keys
  BY DEF Line, LineKey, Keys
<1>2. journal \in Seq(Line) /\ wIdx \in Nat \ {0}
  BY DEF TypeOK
<1>3. \A i \in 1..Len(journal) : journal[i] \in Line
  BY <1>2
<1>4. wIdx <= Len(journal) => wIdx \in 1..Len(journal)
  BY <1>2
<1> QED
  BY <1>1, <1>3, <1>4

\* The watchdog's steps keep every variable in its domain.
LEMMA WatchdogTypes ==
  ASSUME TypeOK, WatchdogStep
  PROVE  TypeOK'
<1> USE DEF TypeOK, db, disk, puts, wd
<1>0. wIdx <= Len(journal) => LineKey(journal[wIdx]) \in Keys
  BY LineTypes
<1>1. CASE WatchdogWake
  BY <1>1 DEF WatchdogWake
<1>2. CASE WatchdogSkip
  BY <1>2 DEF WatchdogSkip, AtLine
<1>3. CASE WatchdogRead
  <2>1. files[LineKey(journal[wIdx])] \in RolloutFile
    BY <1>0, <1>3 DEF WatchdogRead, Uncommitted, AtLine
  <2> QED
    BY <2>1, <1>3 DEF WatchdogRead, AtLine
<1>4. CASE WatchdogApply
  <2>1. wFile.req \in Requests
    BY <1>4 DEF WatchdogApply, RolloutFile
  <2>2. devices' \in [Devices -> DeviceRow] /\ applied' \subseteq Requests
    BY <2>1, <1>4, SetUpdateNameType DEF WatchdogApply
  <2> QED
    BY <2>2, <1>4, SelectedType DEF WatchdogApply
<1>5. CASE WatchdogSave
  <2>1. LineKey(journal[wIdx]) \in Keys
    BY <1>0, <1>5 DEF WatchdogSave
  <2>2. [req |-> wFile.req, effect |-> wEffect, commit |-> TRUE] \in RolloutFile
    BY <1>5 DEF WatchdogSave, RolloutFile
  <2> QED
    BY <2>1, <2>2, <1>5 DEF WatchdogSave, SaveRollout
<1>6. CASE WatchdogLineFails
  <2>1. faults' \in 0..MaxFaults
    BY <1>6, ConstantsAssumption DEF WatchdogLineFails, Fault
  <2>2. wIdx' \in Nat \ {0}
    BY <1>6 DEF WatchdogLineFails
  <2> QED
    BY <2>1, <2>2, <1>6 DEF WatchdogLineFails
<1>7. CASE WatchdogReadFails
  <2>1. faults' \in 0..MaxFaults
    BY <1>7, ConstantsAssumption DEF WatchdogReadFails, Fault
  <2>2. Len(journal) \in Nat
    OBVIOUS
  <2>3. wIdx' \in Nat \ {0}
    BY <2>2, <1>7 DEF WatchdogReadFails
  <2> QED
    BY <2>1, <2>3, <1>7 DEF WatchdogReadFails
<1>8. CASE WatchdogFinish
  <2>1. Moved \in [Requests -> {"none", "part", "journal"}]
    BY DEF Moved
  <2>2. fd' \in [Requests -> {"none", "part", "journal"}]
    BY <2>1, <1>8 DEF WatchdogFinish
  <2>3. part' \in Seq(Line) /\ journal' \in Seq(Line) /\ partExists' \in BOOLEAN
    <3>1. CASE ~firstRun /\ wSuccess /\ partExists
      <4>1. journal' = part /\ part' = <<>> /\ partExists' = FALSE
        BY <3>1, <1>8, Zenon DEF WatchdogFinish
      <4>2. <<>> \in Seq(Line) /\ FALSE \in BOOLEAN
        OBVIOUS
      <4> QED
        BY <4>1, <4>2, Zenon
    <3>2. CASE ~(~firstRun /\ wSuccess /\ partExists)
      <4>1. UNCHANGED <<journal, part, partExists, fd>>
        BY <3>2, <1>8, Zenon DEF WatchdogFinish
      <4> QED
        BY <4>1
    <3> QED
      BY <3>1, <3>2
  <2> QED
    BY <2>2, <2>3, <1>8 DEF WatchdogFinish
<1>9. CASE RolloverFails
  BY <1>9, ConstantsAssumption DEF RolloverFails, Fault
<1> QED
  BY <1>1, <1>2, <1>3, <1>4, <1>5, <1>6, <1>7, <1>8, <1>9 DEF WatchdogStep

\* Type correctness of the protocol: Spec keeps TypeOK.
THEOREM TypeCorrect == Spec => []TypeOK
<1>1. Init => TypeOK
  <2> SUFFICES ASSUME Init PROVE TypeOK
    OBVIOUS
  <2>1. updates \in [Updates -> Tags \cup {NoTag}]
    BY ConstantsAssumption DEF Init
  <2>2. devices \in [Devices -> DeviceRow]
    BY ConstantsAssumption DEF Init, DeviceRow
  <2>3. part \in Seq(Line) /\ journal \in Seq(Line)
    BY DEF Init
  <2>4. /\ pc \in [Requests -> PcValues]
        /\ \A q \in Requests : pc[q] \notin InFlight
    BY DEF Init, PcValues, InFlight
  <2>5. /\ files \in [Keys -> RolloutFile \cup {NoFile}]
        /\ tagOf \in [Requests -> Tags \cup {NoTag}]
        /\ effect \in [Requests -> SUBSET Devices]
        /\ fd \in [Requests -> {"none", "part", "journal"}]
    BY DEF Init
  <2>6. partExists \in BOOLEAN /\ wSuccess \in BOOLEAN /\ firstRun \in BOOLEAN
    BY Zenon DEF Init
  <2>7. wIdx \in Nat \ {0} /\ faults \in 0..MaxFaults
    BY ConstantsAssumption DEF Init
  <2> QED
    BY <2>1, <2>2, <2>3, <2>4, <2>5, <2>6, <2>7 DEF Init, TypeOK
<1>2. TypeOK /\ [Next]_vars => TypeOK'
  <2> SUFFICES ASSUME TypeOK, [Next]_vars PROVE TypeOK'
    OBVIOUS
  <2>1. CASE \E q \in Requests : PutStep(q)
    BY <2>1, PutTypes
  <2>2. CASE WatchdogStep
    BY <2>2, WatchdogTypes
  <2>3. ASSUME NEW u \in Updates, DeleteUpdateRow(u) PROVE TypeOK'
    BY <2>3 DEF DeleteUpdateRow, TypeOK, disk, puts, wd
  <2>4. ASSUME NEW u \in Updates, RemoveUpdateDir(u) PROVE TypeOK'
    <3>1. files' \in [Keys -> RolloutFile \cup {NoFile}]
      BY <2>4 DEF RemoveUpdateDir, TypeOK
    <3>2. faults' \in 0..MaxFaults
      BY <2>4, ConstantsAssumption DEF RemoveUpdateDir, TypeOK, Fault, NoFault
    <3> QED
      BY <3>1, <3>2, <2>4 DEF RemoveUpdateDir, TypeOK, db, puts, wd
  <2>5. ASSUME NEW d \in Devices,
               \/ \E t \in Tags : CheckIn(d, t)
               \/ \E g \in Groups \cup {NoGroup} : PatchDeviceLabels(d, g)
               \/ DeleteDevice(d)
               \/ UndenyDevice(d)
        PROVE  TypeOK'
    <3>1. devices' \in [Devices -> DeviceRow]
      <4>0. devices \in [Devices -> DeviceRow] /\ devices[d] \in DeviceRow
        BY DEF TypeOK
      <4>1. ASSUME NEW t \in Tags, CheckIn(d, t) PROVE devices' \in [Devices -> DeviceRow]
        <5>1. [devices[d] EXCEPT !.tag = t] \in DeviceRow
          BY <4>0 DEF DeviceRow
        <5> QED
          BY <4>0, <4>1, <5>1 DEF CheckIn
      <4>2. ASSUME NEW g \in Groups \cup {NoGroup}, PatchDeviceLabels(d, g)
            PROVE  devices' \in [Devices -> DeviceRow]
        <5>1. [devices[d] EXCEPT !.group = g] \in DeviceRow
          BY <4>0 DEF DeviceRow
        <5> QED
          BY <4>0, <4>2, <5>1 DEF PatchDeviceLabels
      <4>3. CASE DeleteDevice(d)
        <5> DEFINE denied == [devices[d] EXCEPT !.deleted = TRUE]
        <5>1. denied \in DeviceRow
          BY <4>0 DEF DeviceRow
        <5>2. [denied EXCEPT !.group = NoGroup] \in DeviceRow
          BY <5>1 DEF DeviceRow
        <5>3. devices' = [devices EXCEPT ![d] = [denied EXCEPT !.group = NoGroup]]
          BY <4>0, <4>3 DEF DeleteDevice
        <5> HIDE DEF denied
        <5> QED
          BY <4>0, <5>2, <5>3
      <4>4. CASE UndenyDevice(d)
        <5>1. [devices[d] EXCEPT !.deleted = FALSE] \in DeviceRow
          BY <4>0 DEF DeviceRow
        <5> QED
          BY <4>0, <4>4, <5>1 DEF UndenyDevice
      <4> QED
        BY <2>5, <4>1, <4>2, <4>3, <4>4
    <3> QED
      BY <3>1, <2>5
      DEF TypeOK, CheckIn, PatchDeviceLabels, DeleteDevice, UndenyDevice, disk, puts, wd
  <2>6. CASE Restart
    <3>1. pc' \in [Requests -> PcValues]
      BY <2>6 DEF Restart, TypeOK, PcValues, InFlight
    <3>2. \A q \in Requests : pc'[q] \notin InFlight
      BY <2>6 DEF Restart, TypeOK, PcValues, InFlight
    <3> QED
      BY <3>1, <3>2, <2>6, ConstantsAssumption DEF Restart, TypeOK, Fault, db, disk
  <2>7. CASE UNCHANGED vars
    BY <2>7 DEF vars, TypeOK
  <2> QED
    BY <2>1, <2>2, <2>3, <2>4, <2>5, <2>6, <2>7 DEF Next
<1> QED
  BY <1>1, <1>2, PTL DEF Spec

-----------------------------------------------------------------------------
(* No rollout is lost *)

\* Appending a line to a journal keeps the lines it has and adds its own.
LEMMA AppendLine ==
  ASSUME NEW s \in Seq(Line), NEW l \in Line
  PROVE  /\ Len(Append(s, l)) = Len(s) + 1
         /\ \A i \in 1..Len(s) : Append(s, l)[i] = s[i]
         /\ Append(s, l)[Len(s) + 1] = l
OBVIOUS

\* A step that leaves the journals and the watchdog alone and makes no rollout
\* uncommitted keeps JournalCovers.
LEMMA CoversFrame ==
  ASSUME JournalCovers,
         UNCHANGED <<part, journal, wpc, wIdx, wSuccess, firstRun>>,
         \A k \in Keys : Uncommitted(k)' => Uncommitted(k)
  PROVE  JournalCovers'
BY DEF JournalCovers, InPart, InPendingJournal, Pending, LineKey

\* Committing or removing rollout files makes none of them uncommitted.
LEMMA SaveUncommitted ==
  ASSUME TypeOK, NEW k0 \in Keys, NEW q, NEW eff, SaveRollout(k0, q, eff)
  PROVE  /\ \A k \in Keys : Uncommitted(k)' => Uncommitted(k)
         /\ ~Uncommitted(k0)'
BY DEF TypeOK, SaveRollout, Uncommitted

\* A request's step keeps the journal invariant.
LEMMA PutJournal ==
  ASSUME TypeOK, JournalInv, NEW q \in Requests, PutStep(q)
  PROVE  JournalInv'
<1> USE DEF JournalInv, db, disk, puts, wd
<1>0. Key(q) \in Keys /\ q.update \in Updates /\ q.rollout \in RolloutNames
  BY ConstantsAssumption DEF RequestType, Key, Keys
<1>1. ASSUME NEW c, pc' = [pc EXCEPT ![q] = c], c \notin {"append", "write"},
             UNCHANGED <<part, partExists, journal, fd, wpc, wIdx, wSuccess, firstRun>>,
             \A k \in Keys : Uncommitted(k)' => Uncommitted(k)
      PROVE  JournalInv'
  <2>1. JournalCovers'
    BY <1>1, CoversFrame
  <2>2. OpenFiles'
    BY <1>1 DEF OpenFiles, TypeOK
  <2>3. LineWritten'
    BY <1>1 DEF LineWritten, TypeOK, InPart, InJournal, LineKey
  <2>4. PartLines'
    BY <1>1 DEF PartLines
  <2> QED
    BY <2>1, <2>2, <2>3, <2>4
<1>2. ASSUME UNCHANGED files PROVE \A k \in Keys : Uncommitted(k)' => Uncommitted(k)
  BY <1>2 DEF Uncommitted
<1>3. CASE RolloutPut(q)
  <2>1. PICK c \in {"refused", "check"} : pc' = [pc EXCEPT ![q] = c]
    BY <1>3 DEF RolloutPut
  <2> QED
    BY <2>1, <1>1, <1>2, <1>3 DEF RolloutPut
<1>4. CASE CheckName(q)
  <2>1. PICK c \in {"refused", "open"} : pc' = [pc EXCEPT ![q] = c]
    BY <1>4 DEF CheckName
  <2> QED
    BY <2>1, <1>1, <1>2, <1>4 DEF CheckName
<1>5. CASE OpenJournal(q)
  <2>1. JournalCovers'
    BY <1>5, <1>2, CoversFrame DEF OpenJournal
  <2>2. OpenFiles'
    BY <1>5 DEF OpenJournal, OpenFiles, TypeOK
  <2>3. LineWritten'
    BY <1>5 DEF OpenJournal, LineWritten, TypeOK, InPart, InJournal, LineKey
  <2>4. PartLines'
    BY <1>5 DEF OpenJournal, PartLines
  <2> QED
    BY <2>1, <2>2, <2>3, <2>4
<1>6. CASE AppendStep(q)
  <2> DEFINE line == [tag |-> tagOf[q], update |-> q.update, rollout |-> q.rollout]
  <2>1. line \in Line /\ LineKey(line) = Key(q)
    BY <1>0, <1>6 DEF AppendStep, TypeOK, InFlight, Line, LineKey, Key
  <2>2. /\ part \in Seq(Line) /\ journal \in Seq(Line)
        /\ Len(part) \in Nat /\ Len(journal) \in Nat
    BY DEF TypeOK
  <2> HIDE DEF line
  <2>3. CASE fd[q] = "part"
    <3>1. part' = Append(part, line) /\ journal' = journal /\ files' = files
      BY <1>6, <2>3 DEF AppendStep, AddLine, line
    <3>2. \A k : InPart(k) => InPart(k)'
      BY <2>1, <2>2, <3>1, AppendLine DEF InPart
    <3>3. InPart(Key(q))'
      <4>1. part'[Len(part) + 1] = line /\ Len(part') = Len(part) + 1
        BY <2>1, <2>2, <3>1, AppendLine
      <4>2. Len(part) + 1 \in 1..Len(part')
        BY <4>1, <2>2
      <4> QED
        BY <4>1, <4>2, <2>1 DEF InPart, LineKey
    <3>4. \A k : InPendingJournal(k)' <=> InPendingJournal(k)
      BY <3>1, <1>6 DEF AppendStep, InPendingJournal, Pending, LineKey
    <3>5. JournalCovers'
      BY <3>1, <3>2, <3>4 DEF JournalCovers, Uncommitted
    <3>6. OpenFiles'
      BY <1>6 DEF AppendStep, OpenFiles, TypeOK
    <3>7. \A k : InJournal(k)' <=> InJournal(k)
      BY <3>1 DEF InJournal, LineKey
    <3>8. LineWritten'
      BY <3>2, <3>3, <3>7, <2>3, <1>6 DEF AppendStep, LineWritten, TypeOK
    <3>9. PartLines'
      BY <1>6, <2>3 DEF AppendStep, PartLines, OpenFiles
    <3> QED
      BY <3>5, <3>6, <3>8, <3>9
  <2>4. CASE fd[q] # "part"
    <3>1. part' = part /\ journal' = Append(journal, line) /\ files' = files
      BY <1>6, <2>4 DEF AppendStep, AddLine, line
    <3>2. wpc = "wait" /\ wpc' = "wait" /\ fd[q] = "journal"
      BY <1>6, <2>4 DEF AppendStep, OpenFiles
    <3>3. \A k : InJournal(k) => InJournal(k)'
      BY <2>1, <2>2, <3>1, AppendLine DEF InJournal
    <3>4. InJournal(Key(q))'
      <4>1. journal'[Len(journal) + 1] = line /\ Len(journal') = Len(journal) + 1
        BY <2>1, <2>2, <3>1, AppendLine
      <4>2. Len(journal) + 1 \in 1..Len(journal')
        BY <4>1, <2>2
      <4> QED
        BY <4>1, <4>2, <2>1 DEF InJournal, LineKey
    <3>5. \A k : /\ InPendingJournal(k) => InJournal(k)
                 /\ InJournal(k)' => InPendingJournal(k)'
      BY <3>2 DEF InPendingJournal, InJournal, Pending
    <3>6. \A k : InPart(k)' <=> InPart(k)
      BY <3>1 DEF InPart, LineKey
    <3>7. JournalCovers'
      BY <3>1, <3>3, <3>5, <3>6 DEF JournalCovers, Uncommitted
    <3>8. OpenFiles'
      BY <1>6 DEF AppendStep, OpenFiles, TypeOK
    <3>9. LineWritten'
      BY <3>2, <3>3, <3>4, <3>6, <1>6 DEF AppendStep, LineWritten, TypeOK
    <3>10. PartLines'
      BY <1>6, <3>1 DEF AppendStep, PartLines
    <3> QED
      BY <3>7, <3>8, <3>9, <3>10
  <2> QED
    BY <2>3, <2>4
<1>7. CASE WriteRollout(q)
  <2>1. \A k \in Keys : k # Key(q) => (Uncommitted(k)' <=> Uncommitted(k))
    BY <1>7, <1>0 DEF WriteRollout, Uncommitted, TypeOK
  <2>2. InPart(Key(q)) \/ InPendingJournal(Key(q))
    <3>1. CASE fd[q] = "part"
      BY <3>1, <1>7 DEF WriteRollout, LineWritten
    <3>2. CASE fd[q] = "journal" /\ wpc = "wait"
      BY <3>2, <1>7 DEF WriteRollout, LineWritten, InJournal, InPendingJournal, Pending
    <3> QED
      BY <3>1, <3>2, <1>7 DEF WriteRollout, OpenFiles
  <2>3. \A k : /\ InPart(k) => InPart(k)'
               /\ InPendingJournal(k) => InPendingJournal(k)'
    BY <1>7 DEF WriteRollout, InPart, InPendingJournal, Pending, LineKey
  <2>4. JournalCovers'
    BY <2>1, <2>2, <2>3, <1>0 DEF JournalCovers
  <2>5. OpenFiles'
    BY <1>7 DEF WriteRollout, OpenFiles, TypeOK
  <2>6. LineWritten'
    BY <1>7 DEF WriteRollout, LineWritten, TypeOK, InPart, InJournal, LineKey
  <2>7. PartLines'
    BY <1>7 DEF WriteRollout, PartLines
  <2> QED
    BY <2>4, <2>5, <2>6, <2>7
<1>8. CASE CreateRolloutFails(q) /\ UNCHANGED <<part, journal>>
  <2>1. PICK c \in {"refused"} : pc' = [pc EXCEPT ![q] = c]
    BY <1>8 DEF CreateRolloutFails
  <2> QED
    BY <2>1, <1>1, <1>2, <1>8 DEF CreateRolloutFails
<1>9. CASE CommitApply(q)
  <2>1. PICK c \in {"save"} : pc' = [pc EXCEPT ![q] = c]
    BY <1>9 DEF CommitApply
  <2> QED
    BY <2>1, <1>1, <1>2, <1>9 DEF CommitApply
<1>10. CASE CommitSave(q)
  <2>1. \A k \in Keys : Uncommitted(k)' => Uncommitted(k)
    BY <1>10, <1>0, SaveUncommitted DEF CommitSave
  <2>2. PICK c \in {"done"} : pc' = [pc EXCEPT ![q] = c]
    BY <1>10 DEF CommitSave
  <2> QED
    BY <2>1, <2>2, <1>10, <1>1 DEF CommitSave
<1>11. CASE CommitFails(q)
  <2>1. PICK c \in {"orphaned"} : pc' = [pc EXCEPT ![q] = c]
    BY <1>11 DEF CommitFails
  <2> QED
    BY <2>1, <1>1, <1>2, <1>11 DEF CommitFails
<1> QED
  BY <1>3, <1>4, <1>5, <1>6, <1>7, <1>8, <1>9, <1>10, <1>11, AppendSteps DEF PutStep

\* A step of the watchdog keeps the journal invariant.
LEMMA WatchdogJournal ==
  ASSUME TypeOK, JournalInv, WatchdogStep
  PROVE  JournalInv'
<1> USE DEF JournalInv, db, disk, puts, wd
<1>1. ASSUME UNCHANGED files PROVE \A k \in Keys : Uncommitted(k)' <=> Uncommitted(k)
  BY <1>1 DEF Uncommitted
<1>2. ASSUME UNCHANGED <<part, partExists, journal, pc, fd>>, wpc # "wait"
      PROVE  OpenFiles' /\ LineWritten' /\ PartLines'
  <2>1. OpenFiles'
    BY <1>2 DEF OpenFiles, TypeOK
  <2>2. LineWritten'
    BY <1>2 DEF LineWritten, InPart, InJournal, LineKey
  <2>3. PartLines'
    BY <1>2 DEF PartLines
  <2> QED
    BY <2>1, <2>2, <2>3
<1>3. ASSUME UNCHANGED part PROVE \A k : InPart(k)' <=> InPart(k)
  BY <1>3 DEF InPart, LineKey
<1>4. ASSUME UNCHANGED <<part, journal, files>>,
             \A i \in 1..Len(journal) : Pending(i)'
      PROVE  JournalCovers'
  <2>1. \A k : InPendingJournal(k) => InPendingJournal(k)'
    BY <1>4 DEF InPendingJournal, LineKey
  <2> QED
    BY <2>1, <1>1, <1>3, <1>4 DEF JournalCovers
<1>5. CASE WatchdogWake
  <2>1. \A i \in 1..Len(journal) : Pending(i)'
    BY <1>5 DEF WatchdogWake, Pending
  <2>2. JournalCovers'
    BY <2>1, <1>4, <1>5 DEF WatchdogWake
  <2>3. OpenFiles'
    BY <1>5 DEF WatchdogWake, OpenFiles
  <2>4. LineWritten' /\ PartLines'
    BY <1>5 DEF WatchdogWake, LineWritten, PartLines, InPart, InJournal, LineKey
  <2> QED
    BY <2>2, <2>3, <2>4
<1>6. CASE WatchdogSkip
  <2>1. \A k \in Keys : Uncommitted(k) /\ InPendingJournal(k) => InPendingJournal(k)'
    <3> SUFFICES ASSUME NEW k \in Keys, Uncommitted(k), InPendingJournal(k)
                 PROVE  InPendingJournal(k)'
      OBVIOUS
    <3>1. PICK i \in 1..Len(journal) : LineKey(journal[i]) = k /\ Pending(i)
      BY DEF InPendingJournal
    <3>2. i # wIdx
      BY <3>1, <1>6 DEF WatchdogSkip
    <3>3. Pending(i)'
      BY <3>1, <3>2, <1>6 DEF WatchdogSkip, Pending, TypeOK
    <3> QED
      BY <3>1, <3>3, <1>6 DEF WatchdogSkip, InPendingJournal, LineKey
  <2>2. JournalCovers'
    BY <2>1, <1>1, <1>3, <1>6 DEF WatchdogSkip, JournalCovers
  <2> QED
    BY <2>2, <1>2, <1>6 DEF WatchdogSkip, AtLine
<1>7. CASE WatchdogRead
  <2>1. \A k : InPendingJournal(k) => InPendingJournal(k)'
    BY <1>7 DEF WatchdogRead, AtLine, InPendingJournal, Pending, LineKey
  <2>2. JournalCovers'
    BY <2>1, <1>1, <1>3, <1>7 DEF WatchdogRead, JournalCovers
  <2> QED
    BY <2>2, <1>2, <1>7 DEF WatchdogRead, AtLine
<1>8. CASE WatchdogApply
  <2>1. \A k : InPendingJournal(k) => InPendingJournal(k)'
    BY <1>8 DEF WatchdogApply, InPendingJournal, Pending, LineKey
  <2>2. JournalCovers'
    BY <2>1, <1>1, <1>3, <1>8 DEF WatchdogApply, JournalCovers
  <2> QED
    BY <2>2, <1>2, <1>8 DEF WatchdogApply
<1>9. CASE WatchdogSave
  <2>0. PICK k0 \in Keys : k0 = LineKey(journal[wIdx])
    BY <1>9, LineTypes DEF WatchdogSave, TypeOK
  <2>1. /\ \A k \in Keys : Uncommitted(k)' => Uncommitted(k)
        /\ ~Uncommitted(k0)'
    BY <2>0, <1>9, SaveUncommitted DEF WatchdogSave
  <2>2. \A k \in Keys : Uncommitted(k)' /\ InPendingJournal(k) => InPendingJournal(k)'
    <3> SUFFICES ASSUME NEW k \in Keys, Uncommitted(k)', InPendingJournal(k)
                 PROVE  InPendingJournal(k)'
      OBVIOUS
    <3>1. PICK i \in 1..Len(journal) : LineKey(journal[i]) = k /\ Pending(i)
      BY DEF InPendingJournal
    <3>2. i # wIdx
      BY <2>0, <2>1, <3>1
    <3>3. Pending(i)'
      BY <3>1, <3>2, <1>9 DEF WatchdogSave, Pending, TypeOK
    <3> QED
      BY <3>1, <3>3, <1>9 DEF WatchdogSave, InPendingJournal, LineKey
  <2>3. JournalCovers'
    BY <2>1, <2>2, <1>3, <1>9 DEF WatchdogSave, JournalCovers
  <2> QED
    BY <2>3, <1>2, <1>9 DEF WatchdogSave
<1>10. CASE WatchdogLineFails
  <2>1. \A i \in 1..Len(journal) : Pending(i)'
    BY <1>10 DEF WatchdogLineFails, Pending
  <2> QED
    BY <2>1, <1>2, <1>4, <1>10 DEF WatchdogLineFails, AtLine
<1>11. CASE WatchdogReadFails
  <2>1. \A i \in 1..Len(journal) : Pending(i)'
    BY <1>11 DEF WatchdogReadFails, Pending
  <2> QED
    BY <2>1, <1>2, <1>4, <1>11 DEF WatchdogReadFails
<1>12. CASE WatchdogFinish
  <2>1. wpc = "process" /\ wpc' = "wait" /\ files' = files /\ pc' = pc
    BY <1>12 DEF WatchdogFinish
  <2>2. CASE ~firstRun /\ wSuccess /\ partExists
    <3>1. journal' = part /\ part' = <<>> /\ partExists' = FALSE /\ fd' = Moved
      BY <2>2, <1>12, Zenon DEF WatchdogFinish
    <3>2. \A k : ~InPendingJournal(k)
      BY <2>1, <2>2, <1>12 DEF WatchdogFinish, InPendingJournal, Pending, TypeOK
    <3>3. \A k : InPart(k) => InPendingJournal(k)'
      BY <2>1, <3>1 DEF InPart, InPendingJournal, Pending, LineKey
    <3>4. JournalCovers'
      BY <2>1, <3>2, <3>3, <1>1 DEF JournalCovers
    <3>5. \A q \in Requests : pc[q] \in {"append", "write"} => fd[q] = "part" /\ fd'[q] = "journal"
      BY <2>1, <3>1 DEF OpenFiles, Moved
    <3>6. OpenFiles'
      BY <2>1, <3>5 DEF OpenFiles
    <3>7. LineWritten'
      BY <2>1, <3>1, <3>5 DEF LineWritten, InPart, InJournal, LineKey
    <3>8. PartLines'
      BY <3>1 DEF PartLines
    <3> QED
      BY <3>4, <3>6, <3>7, <3>8
  <2>3. CASE ~(~firstRun /\ wSuccess /\ partExists)
    <3>1. UNCHANGED <<journal, part, partExists, fd>>
      BY <2>3, <1>12, Zenon DEF WatchdogFinish
    <3>2. \A i \in 1..Len(journal) : Pending(i)'
      BY <2>1 DEF Pending
    <3>3. JournalCovers'
      BY <2>1, <3>1, <3>2, <1>4
    <3> QED
      BY <2>1, <3>1, <3>3, <1>2
  <2> QED
    BY <2>2, <2>3
<1>13. CASE RolloverFails
  <2>1. \A i \in 1..Len(journal) : Pending(i)'
    BY <1>13 DEF RolloverFails, Pending
  <2> QED
    BY <2>1, <1>2, <1>4, <1>13 DEF RolloverFails
<1> QED
  BY <1>5, <1>6, <1>7, <1>8, <1>9, <1>10, <1>11, <1>12, <1>13 DEF WatchdogStep

\* A step that is neither a request's nor the watchdog's keeps it as well.
LEMMA OtherJournal ==
  ASSUME JournalInv,
         UNCHANGED <<part, partExists, journal, pc, fd, wpc, wIdx, wSuccess, firstRun>>,
         \A k \in Keys : Uncommitted(k)' => Uncommitted(k)
  PROVE  JournalInv'
<1>1. JournalCovers'
  BY CoversFrame DEF JournalInv
<1>2. OpenFiles' /\ LineWritten' /\ PartLines'
  BY DEF JournalInv, OpenFiles, LineWritten, PartLines, InPart, InJournal, LineKey
<1> QED
  BY <1>1, <1>2 DEF JournalInv

\* The journals cover every uncommitted rollout, for any number of requests,
\* failed writes and crashes.
THEOREM NoRolloutLost == Spec => []JournalCovers
<1>1. Init => JournalInv
  BY DEF Init, JournalInv, JournalCovers, Uncommitted, OpenFiles, LineWritten, PartLines
<1>2. TypeOK /\ JournalInv /\ [Next]_vars => JournalInv'
  <2> SUFFICES ASSUME TypeOK, JournalInv, [Next]_vars PROVE JournalInv'
    OBVIOUS
  <2>0. ASSUME UNCHANGED files PROVE \A k \in Keys : Uncommitted(k)' => Uncommitted(k)
    BY <2>0 DEF Uncommitted
  <2>1. CASE \E q \in Requests : PutStep(q)
    BY <2>1, PutJournal
  <2>2. CASE WatchdogStep
    BY <2>2, WatchdogJournal
  <2>3. ASSUME NEW u \in Updates, DeleteUpdateRow(u) PROVE JournalInv'
    BY <2>0, <2>3, OtherJournal DEF DeleteUpdateRow, disk, puts, wd
  <2>4. ASSUME NEW u \in Updates, RemoveUpdateDir(u) PROVE JournalInv'
    <3>1. \A k \in Keys : Uncommitted(k)' => Uncommitted(k)
      BY <2>4 DEF RemoveUpdateDir, Uncommitted, TypeOK
    <3> QED
      BY <3>1, <2>4, OtherJournal DEF RemoveUpdateDir, puts, wd
  <2>5. ASSUME NEW d \in Devices,
               \/ \E t \in Tags : CheckIn(d, t)
               \/ \E g \in Groups \cup {NoGroup} : PatchDeviceLabels(d, g)
               \/ DeleteDevice(d)
               \/ UndenyDevice(d)
        PROVE  JournalInv'
    BY <2>0, <2>5, OtherJournal
    DEF CheckIn, PatchDeviceLabels, DeleteDevice, UndenyDevice, disk, puts, wd
  <2>6. CASE Restart
    <3>1. \A q \in Requests : pc'[q] \notin {"append", "write"}
      BY <2>6 DEF Restart, TypeOK, PcValues, InFlight
    <3>2. \A k : /\ InPart(k) => InPart(k)'
                 /\ InPendingJournal(k) => InPendingJournal(k)'
      BY <2>6 DEF Restart, disk, InPart, InPendingJournal, Pending, LineKey
    <3>3. JournalCovers'
      BY <2>0, <2>6, <3>2 DEF Restart, disk, JournalInv, JournalCovers
    <3>4. PartLines'
      BY <2>6 DEF Restart, disk, JournalInv, PartLines
    <3>5. OpenFiles' /\ LineWritten'
      BY <3>1 DEF OpenFiles, LineWritten
    <3> QED
      BY <3>3, <3>4, <3>5 DEF JournalInv
  <2>7. CASE UNCHANGED vars
    BY <2>0, <2>7, OtherJournal DEF vars
  <2> QED
    BY <2>1, <2>2, <2>3, <2>4, <2>5, <2>6, <2>7 DEF Next
<1> QED
  BY <1>1, <1>2, TypeCorrect, PTL DEF Spec, JournalInv

-----------------------------------------------------------------------------
(* A committed rollout was applied *)

\* CommitInv is inductive: SetUpdateName comes before the commit flag is written,
\* in the request's goroutine and in the watchdog.
THEOREM CommitInvariant == Spec => []CommitInv
<1>1. Init => CommitInv
  BY DEF Init, CommitInv, CommittedWasApplied, SaveAfterApply
<1>2. TypeOK /\ CommitInv /\ [Next]_vars => CommitInv'
  <2> SUFFICES ASSUME TypeOK, CommitInv, [Next]_vars PROVE CommitInv'
    OBVIOUS
  <2> USE DEF CommitInv, db, disk, puts, wd
  <2>1. ASSUME NEW q \in Requests, PutStep(q) PROVE CommitInv'
    <3>0. Key(q) \in Keys
      BY ConstantsAssumption DEF RequestType, Key, Keys
    <3>1. CASE RolloutPut(q)
      BY <3>1 DEF RolloutPut, CommittedWasApplied, SaveAfterApply, TypeOK
    <3>2. CASE CheckName(q)
      BY <3>2 DEF CheckName, CommittedWasApplied, SaveAfterApply, TypeOK
    <3>3. CASE OpenJournal(q)
      BY <3>3 DEF OpenJournal, CommittedWasApplied, SaveAfterApply, TypeOK
    <3>4. CASE AppendJournal(q)
      BY <3>4 DEF AppendJournal, CommittedWasApplied, SaveAfterApply, TypeOK
    <3>5. CASE WriteRollout(q)
      BY <3>0, <3>5 DEF WriteRollout, CommittedWasApplied, SaveAfterApply, TypeOK
    <3>6. CASE CreateRolloutFails(q)
      BY <3>6 DEF CreateRolloutFails, CommittedWasApplied, SaveAfterApply, TypeOK
    <3>7. CASE CommitApply(q)
      <4>1. applied' = applied \cup {q}
        BY <3>7 DEF CommitApply, SetUpdateName
      <4> QED
        BY <4>1, <3>7 DEF CommitApply, CommittedWasApplied, SaveAfterApply, TypeOK
    <3>8. CASE CommitSave(q)
      BY <3>0, <3>8 DEF CommitSave, SaveRollout, CommittedWasApplied, SaveAfterApply, TypeOK
    <3>9. CASE CommitFails(q)
      BY <3>9 DEF CommitFails, CommittedWasApplied, SaveAfterApply, TypeOK
    <3> QED
      BY <2>1, <3>1, <3>2, <3>3, <3>4, <3>5, <3>6, <3>7, <3>8, <3>9 DEF PutStep
  <2>2. CASE WatchdogStep
    <3>1. CASE WatchdogApply
      <4>1. applied' = applied \cup {wFile.req}
        BY <3>1 DEF WatchdogApply, SetUpdateName
      <4> QED
        BY <4>1, <3>1 DEF WatchdogApply, CommittedWasApplied, SaveAfterApply
    <3>2. CASE WatchdogSave
      <4>1. LineKey(journal[wIdx]) \in Keys
        BY <3>2, LineTypes DEF WatchdogSave, TypeOK
      <4> QED
        BY <4>1, <3>2
        DEF WatchdogSave, SaveRollout, CommittedWasApplied, SaveAfterApply, TypeOK
    <3>3. CASE \/ WatchdogWake \/ WatchdogSkip \/ WatchdogRead \/ WatchdogLineFails
               \/ WatchdogReadFails \/ WatchdogFinish \/ RolloverFails
      <4>1. UNCHANGED <<files, pc, applied>> /\ wpc' # "save"
        BY <3>3 DEF WatchdogWake, WatchdogSkip, WatchdogRead, WatchdogLineFails,
                    WatchdogReadFails, WatchdogFinish, RolloverFails, AtLine
      <4> QED
        BY <4>1 DEF CommittedWasApplied, SaveAfterApply
    <3> QED
      BY <2>2, <3>1, <3>2, <3>3 DEF WatchdogStep
  <2>3. ASSUME NEW u \in Updates, DeleteUpdateRow(u) PROVE CommitInv'
    BY <2>3 DEF DeleteUpdateRow, CommittedWasApplied, SaveAfterApply
  <2>4. ASSUME NEW u \in Updates, RemoveUpdateDir(u) PROVE CommitInv'
    BY <2>4 DEF RemoveUpdateDir, CommittedWasApplied, SaveAfterApply, TypeOK
  <2>5. ASSUME NEW d \in Devices,
               \/ \E t \in Tags : CheckIn(d, t)
               \/ \E g \in Groups \cup {NoGroup} : PatchDeviceLabels(d, g)
               \/ DeleteDevice(d)
               \/ UndenyDevice(d)
        PROVE  CommitInv'
    <3>1. UNCHANGED <<files, pc, wpc, wFile, applied>>
      BY <2>5 DEF CheckIn, PatchDeviceLabels, DeleteDevice, UndenyDevice
    <3> QED
      BY <3>1 DEF CommittedWasApplied, SaveAfterApply
  <2>6. CASE Restart
    <3>1. UNCHANGED <<files, applied>> /\ wpc' # "save"
      BY <2>6 DEF Restart
    <3>2. \A q \in Requests : pc'[q] # "save"
      BY <2>6 DEF Restart, TypeOK, PcValues, InFlight
    <3> QED
      BY <3>1, <3>2 DEF CommittedWasApplied, SaveAfterApply
  <2>7. CASE UNCHANGED vars
    BY <2>7 DEF vars, CommittedWasApplied, SaveAfterApply
  <2> QED
    BY <2>1, <2>2, <2>3, <2>4, <2>5, <2>6, <2>7 DEF Next
<1> QED
  BY <1>1, <1>2, TypeCorrect, PTL DEF Spec

\* The commit flag of a rollout file implies that its devices were updated.
THEOREM CommitImpliesApplied == Spec => []CommittedWasApplied
<1>1. CommitInv => CommittedWasApplied
  BY DEF CommitInv
<1> QED
  BY <1>1, CommitInvariant, PTL

-----------------------------------------------------------------------------
(* An accepted rollout without a rival stays recoverable *)

\* No other request for the same name was answered 202.  Unlike SoleRequest, of
\* which it is a consequence, it never comes back once it is lost.
Unrivalled(q) ==
  \A p \in Requests \ {q} : Key(p) = Key(q) => ~Accepted(p)

\* A rollout file holds an accepted request for its own name.
FilesAccepted ==
  \A k \in Keys : files[k] # NoFile =>
    Key(files[k].req) = k /\ Accepted(files[k].req)

\* So does what the watchdog has read for the line it is at.
WatchdogAccepted ==
  wpc \in {"apply", "save"} =>
    Key(wFile.req) = LineKey(journal[wIdx]) /\ Accepted(wFile.req)

\* Directories are removed only once the row is gone.
RowsFirst == \A u \in removing : updates[u] = NoTag

UnrivalledRecoverable ==
  \A q \in Requests : Accepted(q) /\ Unrivalled(q) /\ ~q.committed => Recoverable(q)

SoleInv == FilesAccepted /\ WatchdogAccepted /\ RowsFirst /\ UnrivalledRecoverable

\* A step that answers no request, writes no rollout file and loses nothing that
\* was applied keeps SoleInv, whatever it does to the devices.
LEMMA SoleFrame ==
  ASSUME SoleInv,
         UNCHANGED <<files, updates, removing>>,
         applied \subseteq applied',
         \A q \in Requests : Accepted(q)' <=> Accepted(q),
         files \in [Keys -> RolloutFile \cup {NoFile}],
         WatchdogAccepted'
  PROVE  SoleInv'
<1> USE DEF SoleInv
<1>1. FilesAccepted'
  <2>1. \A k \in Keys : files[k] # NoFile => files[k].req \in Requests
    BY DEF RolloutFile
  <2> QED
    BY <2>1 DEF FilesAccepted, Key
<1>2. RowsFirst'
  BY DEF RowsFirst
<1>3. UnrivalledRecoverable'
  BY DEF UnrivalledRecoverable, Unrivalled, Recoverable, Key
<1> QED
  BY <1>1, <1>2, <1>3

\* The watchdog's view of its line survives a step that leaves the watchdog and
\* the line alone and takes no answer back.
LEMMA WatchdogAcceptedFrame ==
  ASSUME TypeOK, WatchdogAccepted,
         UNCHANGED <<wpc, wFile, wIdx>>,
         wIdx <= Len(journal) => journal'[wIdx] = journal[wIdx],
         \A q \in Requests : Accepted(q) => Accepted(q)'
  PROVE  WatchdogAccepted'
<1>1. wpc \in {"apply", "save"} => wFile.req \in Requests /\ wIdx <= Len(journal)
  BY DEF TypeOK, RolloutFile
<1> QED
  BY <1>1 DEF WatchdogAccepted, Key, LineKey

\* A request's step: only WriteRollout answers 202, and it leaves its own
\* rollout on disk; only a commit that was applied overwrites a file.
LEMMA PutSole ==
  ASSUME TypeOK, SoleInv, CommitInv, NEW q \in Requests, PutStep(q)
  PROVE  SoleInv'
<1> USE DEF db, disk, puts, wd
<1>0. Key(q) \in Keys
  BY ConstantsAssumption DEF RequestType, Key, Keys
<1>1. files \in [Keys -> RolloutFile \cup {NoFile}] /\ pc \in [Requests -> PcValues]
  BY DEF TypeOK
<1>2. \A p \in Requests : Accepted(p) => Accepted(p)'
  BY <1>1 DEF PutStep, RolloutPut, CheckName, OpenJournal, AppendJournal, WriteRollout,
     CreateRolloutFails, CommitApply, CommitSave, CommitFails, Accepted
<1>3. WatchdogAccepted'
  <2>1. UNCHANGED <<wpc, wFile, wIdx>>
    BY DEF PutStep, RolloutPut, CheckName, OpenJournal, AppendJournal, WriteRollout,
       CreateRolloutFails, CommitApply, CommitSave, CommitFails
  <2>2. wIdx <= Len(journal) => journal'[wIdx] = journal[wIdx]
    <3>1. CASE AppendStep(q)
      <4> DEFINE line == [tag |-> tagOf[q], update |-> q.update, rollout |-> q.rollout]
      <4>1. line \in Line
        BY <3>1, ConstantsAssumption DEF AppendStep, TypeOK, InFlight, Line, RequestType
      <4>2. journal' = journal \/ journal' = Append(journal, line)
        BY <3>1 DEF AppendStep, AddLine
      <4> HIDE DEF line
      <4>3. journal \in Seq(Line) /\ wIdx \in Nat \ {0}
        BY DEF TypeOK
      <4> QED
        BY <4>1, <4>2, <4>3, AppendLine
    <3>2. CASE ~AppendStep(q)
      BY <3>2, AppendSteps DEF PutStep, RolloutPut, CheckName, OpenJournal, WriteRollout,
         CreateRolloutFails, CommitApply, CommitSave, CommitFails
    <3> QED
      BY <3>1, <3>2
  <2> QED
    BY <1>2, <2>1, <2>2, WatchdogAcceptedFrame DEF SoleInv
<1>4. CASE WriteRollout(q)
  <2>1. /\ files' = [files EXCEPT ![Key(q)] = [req |-> q, effect |-> {}, commit |-> q.committed]]
        /\ pc' = [pc EXCEPT ![q] = "apply"]
        /\ UNCHANGED <<updates, removing, applied>>
    BY <1>4 DEF WriteRollout
  <2>2. Accepted(q)' /\ \A p \in Requests \ {q} : Accepted(p)' <=> Accepted(p)
    BY <1>1, <2>1 DEF Accepted
  <2>3. FilesAccepted'
    <3>1. \A k \in Keys : files[k] # NoFile => files[k].req \in Requests
      BY <1>1 DEF RolloutFile
    <3>2. \A k \in Keys : k # Key(q) => files'[k] = files[k]
      BY <1>1, <2>1
    <3>3. files'[Key(q)].req = q
      BY <1>0, <1>1, <2>1
    <3> QED
      BY <1>2, <2>2, <3>1, <3>2, <3>3 DEF SoleInv, FilesAccepted, Key
  <2>4. RowsFirst'
    BY <2>1 DEF SoleInv, RowsFirst
  <2>5. UnrivalledRecoverable'
    <3>1. ~q.committed => Recoverable(q)'
      <4>1. files'[Key(q)] = [req |-> q, effect |-> {}, commit |-> q.committed]
        BY <1>0, <1>1, <2>1
      <4>2. [req |-> q, effect |-> {}, commit |-> q.committed] # NoFile
        <5>1. NoFile \notin RolloutFile
          BY ConstantsAssumption, Zenon DEF RolloutFile
        <5>2. [req |-> q, effect |-> {}, commit |-> q.committed] \in RolloutFile
          BY ConstantsAssumption DEF RolloutFile, RequestType
        <5> QED
          BY <5>1, <5>2, Zenon
      <4> QED
        BY <4>1, <4>2 DEF Recoverable, Key
    <3>2. ASSUME NEW p \in Requests \ {q}, Accepted(p)', Unrivalled(p)', ~p.committed
          PROVE  Recoverable(p)'
      <4>1. Key(p) # Key(q)
        BY <2>2, <3>2 DEF Unrivalled, Key
      <4>2. Accepted(p) /\ Unrivalled(p)
        BY <2>2, <3>2, <4>1 DEF Unrivalled, Key
      <4>3. Recoverable(p)
        BY <3>2, <4>2 DEF SoleInv, UnrivalledRecoverable
      <4>4. Key(p) \in Keys
        BY ConstantsAssumption DEF RequestType, Key, Keys
      <4>5. files'[Key(p)] = files[Key(p)]
        BY <1>1, <2>1, <4>1, <4>4
      <4> QED
        BY <2>1, <4>3, <4>5 DEF Recoverable, Key
    <3> QED
      BY <3>1, <3>2 DEF UnrivalledRecoverable
  <2> QED
    BY <1>3, <2>3, <2>4, <2>5 DEF SoleInv
<1>5. CASE CommitSave(q)
  <2>1. /\ files' = [files EXCEPT ![Key(q)] = [req |-> q, effect |-> effect[q], commit |-> TRUE]]
        /\ UNCHANGED <<updates, removing, applied>>
        /\ pc[q] = "save" /\ pc' = [pc EXCEPT ![q] = "done"]
    BY <1>5 DEF CommitSave, SaveRollout
  <2>2. Accepted(q) /\ q \in applied /\ \A p \in Requests : Accepted(p)' <=> Accepted(p)
    BY <1>1, <2>1 DEF Accepted, CommitInv, SaveAfterApply
  <2>3. FilesAccepted'
    <3>1. \A k \in Keys : files[k] # NoFile => files[k].req \in Requests
      BY <1>1 DEF RolloutFile
    <3>2. \A k \in Keys : k # Key(q) => files'[k] = files[k]
      BY <1>1, <2>1
    <3>3. files'[Key(q)].req = q
      BY <1>0, <1>1, <2>1
    <3> QED
      BY <2>2, <3>1, <3>2, <3>3 DEF SoleInv, FilesAccepted, Key
  <2>4. RowsFirst'
    BY <2>1 DEF SoleInv, RowsFirst
  <2>5. UnrivalledRecoverable'
    <3> SUFFICES ASSUME NEW p \in Requests, Accepted(p)', Unrivalled(p)', ~p.committed
                 PROVE  Recoverable(p)'
      BY DEF UnrivalledRecoverable
    <3>1. Recoverable(p)
      BY <2>2 DEF SoleInv, UnrivalledRecoverable, Unrivalled, Key
    <3>2. CASE p = q
      BY <2>1, <2>2, <3>2 DEF Recoverable
    <3>3. CASE p # q
      <4>1. Key(p) # Key(q)
        BY <2>2, <3>3 DEF Unrivalled, Key
      <4>2. Key(p) \in Keys
        BY ConstantsAssumption DEF RequestType, Key, Keys
      <4>3. files'[Key(p)] = files[Key(p)]
        BY <1>1, <2>1, <4>1, <4>2
      <4> QED
        BY <2>1, <3>1, <4>3 DEF Recoverable, Key
    <3> QED
      BY <3>2, <3>3
  <2> QED
    BY <1>3, <2>3, <2>4, <2>5 DEF SoleInv
<1>6. CASE ~WriteRollout(q) /\ ~CommitSave(q)
  <2>1. UNCHANGED <<files, updates, removing>> /\ applied \subseteq applied'
    BY <1>6 DEF PutStep, RolloutPut, CheckName, OpenJournal, AppendJournal,
       CreateRolloutFails, CommitApply, CommitFails, SetUpdateName
  <2>2. \A p \in Requests : Accepted(p)' <=> Accepted(p)
    BY <1>1, <1>6 DEF PutStep, RolloutPut, CheckName, OpenJournal, AppendJournal,
       CreateRolloutFails, CommitApply, CommitFails, Accepted
  <2> QED
    BY <1>1, <1>3, <2>1, <2>2, SoleFrame
<1> QED
  BY <1>4, <1>5, <1>6

\* A step of the watchdog: what it writes over a rollout file is an accepted
\* request for the same name that it has applied.
LEMMA WatchdogSole ==
  ASSUME TypeOK, SoleInv, CommitInv, WatchdogStep
  PROVE  SoleInv'
<1> USE DEF db, disk, puts, wd
<1>1. files \in [Keys -> RolloutFile \cup {NoFile}]
  BY DEF TypeOK
<1>2. \A p \in Requests : Accepted(p)' <=> Accepted(p)
  BY DEF WatchdogStep, WatchdogWake, WatchdogSkip, WatchdogRead, WatchdogApply, WatchdogSave,
     WatchdogLineFails, WatchdogReadFails, WatchdogFinish, RolloverFails, Accepted
<1>3. CASE WatchdogSave
  <2> DEFINE k0 == LineKey(journal[wIdx])
             q0 == wFile.req
  <2>1. /\ k0 \in Keys /\ q0 \in Requests
        /\ Key(q0) = k0 /\ Accepted(q0) /\ q0 \in applied
    <3>1. k0 \in Keys
      BY <1>3, LineTypes DEF WatchdogSave, TypeOK
    <3>2. q0 \in Requests
      BY <1>3 DEF WatchdogSave, TypeOK, RolloutFile
    <3> QED
      BY <1>3, <3>1, <3>2
      DEF WatchdogSave, SoleInv, WatchdogAccepted, CommitInv, SaveAfterApply
  <2>2. /\ files' = [files EXCEPT ![k0] = [req |-> q0, effect |-> wEffect, commit |-> TRUE]]
        /\ UNCHANGED <<updates, removing, applied>>
        /\ wpc' = "process"
    BY <1>3 DEF WatchdogSave, SaveRollout
  <2> HIDE DEF k0, q0
  <2>3. FilesAccepted'
    <3>1. \A k \in Keys : files[k] # NoFile => files[k].req \in Requests
      BY <1>1 DEF RolloutFile
    <3>2. \A k \in Keys : k # k0 => files'[k] = files[k]
      BY <1>1, <2>2
    <3>3. files'[k0].req = q0
      BY <1>1, <2>1, <2>2
    <3> QED
      BY <1>2, <2>1, <3>1, <3>2, <3>3 DEF SoleInv, FilesAccepted, Key
  <2>4. RowsFirst' /\ WatchdogAccepted'
    BY <2>2 DEF SoleInv, RowsFirst, WatchdogAccepted
  <2>5. UnrivalledRecoverable'
    <3> SUFFICES ASSUME NEW p \in Requests, Accepted(p)', Unrivalled(p)', ~p.committed
                 PROVE  Recoverable(p)'
      BY DEF UnrivalledRecoverable
    <3>1. Recoverable(p)
      BY <1>2 DEF SoleInv, UnrivalledRecoverable, Unrivalled, Key
    <3>2. CASE p = q0
      BY <2>1, <2>2, <3>2 DEF Recoverable
    <3>3. CASE p # q0
      <4>1. Key(p) # k0
        BY <1>2, <2>1, <3>3 DEF Unrivalled, Key
      <4>2. Key(p) \in Keys
        BY ConstantsAssumption DEF RequestType, Key, Keys
      <4>3. files'[Key(p)] = files[Key(p)]
        BY <1>1, <2>2, <4>1, <4>2
      <4> QED
        BY <2>2, <3>1, <4>3 DEF Recoverable, Key
    <3> QED
      BY <3>2, <3>3
  <2> QED
    BY <2>3, <2>4, <2>5 DEF SoleInv
<1>4. CASE ~WatchdogSave
  <2>1. UNCHANGED <<files, updates, removing>> /\ applied \subseteq applied'
    BY <1>4 DEF WatchdogStep, WatchdogWake, WatchdogSkip, WatchdogRead, WatchdogApply,
       WatchdogLineFails, WatchdogReadFails, WatchdogFinish, RolloverFails, SetUpdateName
  <2>2. WatchdogAccepted'
    <3>1. CASE WatchdogRead
      <4>1. /\ wIdx <= Len(journal)
            /\ files[LineKey(journal[wIdx])] # NoFile
            /\ wFile' = files[LineKey(journal[wIdx])]
            /\ UNCHANGED <<journal, wIdx>>
        BY <3>1 DEF WatchdogRead, AtLine, Uncommitted
      <4>2. LineKey(journal[wIdx]) \in Keys
        BY <4>1, LineTypes
      <4>3. /\ wFile'.req \in Requests
            /\ Key(wFile'.req) = LineKey(journal[wIdx]) /\ Accepted(wFile'.req)
        BY <1>1, <4>1, <4>2 DEF SoleInv, FilesAccepted, RolloutFile
      <4> QED
        BY <1>2, <4>1, <4>3 DEF WatchdogAccepted, Key, LineKey, Accepted
    <3>2. CASE WatchdogApply
      <4>1. UNCHANGED <<journal, wIdx, wFile, pc>> /\ wpc = "apply"
        BY <3>2 DEF WatchdogApply
      <4> QED
        BY <4>1 DEF SoleInv, WatchdogAccepted, Key, LineKey, Accepted
    <3>3. CASE WatchdogReadFails \/ WatchdogSkip
      <4>1. wpc' = "process"
        BY <3>3 DEF WatchdogReadFails, WatchdogSkip, AtLine
      <4> QED
        BY <4>1 DEF WatchdogAccepted
    <3>4. CASE WatchdogWake \/ WatchdogLineFails \/ WatchdogFinish \/ RolloverFails
      <4>1. wpc' \in {"process", "wait"}
        BY <3>4 DEF WatchdogWake, WatchdogLineFails, WatchdogFinish, RolloverFails
      <4> QED
        BY <4>1 DEF WatchdogAccepted
    <3> QED
      BY <1>4, <3>1, <3>2, <3>3, <3>4 DEF WatchdogStep
  <2> QED
    BY <1>1, <1>2, <2>1, <2>2, SoleFrame
<1> QED
  BY <1>3, <1>4

\* What 202 promises: an accepted rollout that has no rival was applied, or is on
\* disk uncommitted for the watchdog, or its update was deleted.
THEOREM AcceptedIsKept == Spec => []SoleAcceptedRecoverable
<1>1. Init => SoleInv
  BY DEF Init, SoleInv, FilesAccepted, WatchdogAccepted, RowsFirst,
     UnrivalledRecoverable, Accepted
<1>2. TypeOK /\ CommitInv /\ SoleInv /\ [Next]_vars => SoleInv'
  <2> SUFFICES ASSUME TypeOK, CommitInv, SoleInv, [Next]_vars PROVE SoleInv'
    OBVIOUS
  <2> USE DEF db, disk, puts, wd
  <2>0. files \in [Keys -> RolloutFile \cup {NoFile}]
    BY DEF TypeOK
  <2>1. CASE \E q \in Requests : PutStep(q)
    BY <2>1, PutSole
  <2>2. CASE WatchdogStep
    BY <2>2, WatchdogSole
  <2>3. ASSUME NEW u \in Updates, DeleteUpdateRow(u) PROVE SoleInv'
    <3>1. /\ updates' = [updates EXCEPT ![u] = NoTag]
          /\ removing' = removing \cup {u}
          /\ UNCHANGED <<files, journal, pc, wpc, wIdx, wFile, applied>>
      BY <2>3 DEF DeleteUpdateRow
    <3>2. \A v \in Updates : v = u \/ updates[v] = NoTag => updates'[v] = NoTag
      BY <3>1 DEF TypeOK
    <3>3. FilesAccepted' /\ WatchdogAccepted'
      BY <3>1 DEF SoleInv, FilesAccepted, WatchdogAccepted, Key, LineKey, Accepted
    <3>4. RowsFirst'
      BY <3>1, <3>2 DEF SoleInv, RowsFirst, TypeOK
    <3>5. \A q \in Requests : q.update \in Updates
      BY ConstantsAssumption DEF RequestType
    <3>6. UnrivalledRecoverable'
      BY <3>1, <3>2, <3>5
      DEF SoleInv, UnrivalledRecoverable, Unrivalled, Recoverable, Key, Accepted
    <3> QED
      BY <3>3, <3>4, <3>6 DEF SoleInv
  <2>4. ASSUME NEW u \in Updates, RemoveUpdateDir(u) PROVE SoleInv'
    <3>1. /\ u \in removing /\ removing' = removing \ {u}
          /\ UNCHANGED <<updates, journal, pc, wpc, wIdx, wFile, applied>>
          /\ \A k \in Keys : files'[k] = files[k] \/ (k[1] = u /\ files'[k] = NoFile)
      BY <2>0, <2>4 DEF RemoveUpdateDir
    <3>2. updates[u] = NoTag
      BY <3>1 DEF SoleInv, RowsFirst
    <3>3. FilesAccepted' /\ WatchdogAccepted'
      BY <3>1 DEF SoleInv, FilesAccepted, WatchdogAccepted, Key, LineKey, Accepted
    <3>4. RowsFirst'
      BY <3>1 DEF SoleInv, RowsFirst
    <3>5. \A q \in Requests : Key(q) \in Keys /\ Key(q)[1] = q.update
      BY ConstantsAssumption DEF RequestType, Key, Keys
    <3>6. UnrivalledRecoverable'
      <4> SUFFICES ASSUME NEW q \in Requests, Accepted(q)', Unrivalled(q)', ~q.committed
                   PROVE  Recoverable(q)'
        BY DEF UnrivalledRecoverable
      <4>1. Recoverable(q)
        BY <3>1 DEF SoleInv, UnrivalledRecoverable, Unrivalled, Key, Accepted
      <4>2. CASE q.update = u
        BY <3>1, <3>2, <4>2 DEF Recoverable
      <4>3. CASE q.update # u
        <5>1. files'[Key(q)] = files[Key(q)]
          BY <3>1, <3>5, <4>3
        <5> QED
          BY <3>1, <4>1, <5>1 DEF Recoverable, Key
      <4> QED
        BY <4>2, <4>3
    <3> QED
      BY <3>3, <3>4, <3>6 DEF SoleInv
  <2>5. ASSUME NEW d \in Devices,
               \/ \E t \in Tags : CheckIn(d, t)
               \/ \E g \in Groups \cup {NoGroup} : PatchDeviceLabels(d, g)
               \/ DeleteDevice(d)
               \/ UndenyDevice(d)
        PROVE  SoleInv'
    <3>1. UNCHANGED <<files, updates, removing, journal, pc, wpc, wIdx, wFile, applied>>
      BY <2>5 DEF CheckIn, PatchDeviceLabels, DeleteDevice, UndenyDevice
    <3> QED
      BY <2>0, <3>1, SoleFrame, WatchdogAcceptedFrame DEF SoleInv, Accepted
  <2>6. CASE Restart
    <3>1. \A q \in Requests : Accepted(q)' <=> Accepted(q)
      BY <2>6 DEF Restart, Accepted, TypeOK, PcValues, InFlight
    <3>2. /\ UNCHANGED <<files, updates, applied>>
          /\ removing' = {} /\ wpc' = "process"
      BY <2>6 DEF Restart
    <3>3. \A k \in Keys : files[k] # NoFile => files[k].req \in Requests
      BY <2>0 DEF RolloutFile
    <3>4. FilesAccepted'
      BY <3>1, <3>2, <3>3 DEF SoleInv, FilesAccepted, Key
    <3>5. WatchdogAccepted' /\ RowsFirst'
      BY <3>2 DEF WatchdogAccepted, RowsFirst
    <3>6. UnrivalledRecoverable'
      BY <3>1, <3>2 DEF SoleInv, UnrivalledRecoverable, Unrivalled, Recoverable, Key
    <3> QED
      BY <3>4, <3>5, <3>6 DEF SoleInv
  <2>7. CASE UNCHANGED vars
    <3>1. UNCHANGED <<files, updates, removing, journal, pc, wpc, wIdx, wFile, applied>>
      BY <2>7 DEF vars
    <3> QED
      BY <2>0, <3>1, SoleFrame, WatchdogAcceptedFrame DEF SoleInv, Accepted
  <2> QED
    BY <2>1, <2>2, <2>3, <2>4, <2>5, <2>6, <2>7 DEF Next
<1>3. SoleInv => SoleAcceptedRecoverable
  BY DEF SoleInv, UnrivalledRecoverable, SoleAcceptedRecoverable, SoleRequest,
     Unrivalled, Accepted
<1> QED
  BY <1>1, <1>2, <1>3, TypeCorrect, CommitInvariant, PTL DEF Spec

-----------------------------------------------------------------------------
(* Counting the lines of a stream *)

\* Every non-empty set of numbers has a least one: the form of induction the proofs
\* about files and loops use.
LEMMA LeastNumber ==
  ASSUME NEW T, T \subseteq Nat, T # {}
  PROVE  \E n \in T : \A m \in T : n =< m
<1>1. PICK x \in T : \A y \in T : ~(<<y, x>> \in OpToRel(<, Nat))
  BY NatLessThanWellFounded, WFMin
<1>2. \A y \in T : ~(y < x)
  BY <1>1, x \in Nat, \A y \in T : y \in Nat DEF OpToRel
<1> QED
  BY <1>2

UpTo(P, i) == {j \in P : j =< i}

\* The places of a stream among the first n lines of a file.
Among(P, n) == \A x \in P : x \in 1..n

\* The places up to one are finitely many, and no more than there are in the file.
LEMMA PlacesUpTo ==
  ASSUME NEW n \in Nat, NEW P, Among(P, n)
  PROVE  /\ IsFiniteSet(P) /\ Cardinality(P) \in Nat
         /\ \A i : IsFiniteSet(UpTo(P, i)) /\ Rank(P, i) \in 0..Cardinality(P)
         /\ \A i : Rank(P, i) = Cardinality(UpTo(P, i))
<1>1. IsFiniteSet(1..n)
  BY FS_Interval
<1>2. P \in SUBSET (1..n)
  BY DEF Among
<1>3. IsFiniteSet(P)
  BY <1>1, <1>2, FS_Subset
<1>4. Cardinality(P) \in Nat
  BY <1>3, FS_CardinalityType
<1>5. ASSUME NEW i
      PROVE  /\ IsFiniteSet(UpTo(P, i)) /\ Cardinality(UpTo(P, i)) \in Nat
             /\ Cardinality(UpTo(P, i)) =< Cardinality(P)
  <2>1. UpTo(P, i) \in SUBSET P
    BY DEF UpTo
  <2> QED
    BY <1>3, <2>1, FS_Subset, FS_CardinalityType
<1>6. \A i : Rank(P, i) = Cardinality(UpTo(P, i))
  BY DEF Rank, UpTo
<1> QED
  BY <1>3, <1>4, <1>5, <1>6

\* No line is before the first, and a line more counts one more exactly when the stream
\* is about it (the counter of the read loop).
LEMMA RankStep ==
  ASSUME NEW n \in Nat, NEW P, Among(P, n)
  PROVE  /\ Rank(P, n) = Cardinality(P)
         /\ Rank(P, 0) = 0
         /\ \A i \in 0..(n - 1) :
              Rank(P, i + 1) = IF i + 1 \in P THEN Rank(P, i) + 1 ELSE Rank(P, i)
<1>1. UpTo(P, n) = P
  BY DEF UpTo, Among
<1>2. UpTo(P, 0) = {}
  BY DEF UpTo, Among
<1>3. ASSUME NEW i \in 0..(n - 1)
      PROVE  Rank(P, i + 1) = IF i + 1 \in P THEN Rank(P, i) + 1 ELSE Rank(P, i)
  <2>1. CASE i + 1 \in P
    <3>1. UpTo(P, i + 1) = UpTo(P, i) \cup {i + 1} /\ i + 1 \notin UpTo(P, i)
      BY <2>1 DEF UpTo, Among
    <3>2. IsFiniteSet(UpTo(P, i))
      BY PlacesUpTo
    <3>3. Cardinality(UpTo(P, i) \cup {i + 1}) = Cardinality(UpTo(P, i)) + 1
      BY <3>1, <3>2, FS_AddElement
    <3> QED
      BY <2>1, <3>1, <3>3, PlacesUpTo
  <2>2. CASE i + 1 \notin P
    <3>1. UpTo(P, i + 1) = UpTo(P, i)
      BY <2>2 DEF UpTo, Among
    <3> QED
      BY <2>2, <3>1, PlacesUpTo
  <2> QED
    BY <2>1, <2>2
<1> QED
  BY <1>1, <1>2, <1>3, PlacesUpTo, FS_EmptySet

\* A line of the stream has a greater number than any place before it.
LEMMA RankGrows ==
  ASSUME NEW n \in Nat, NEW P, Among(P, n), NEW i \in 0..n, NEW j \in P, i < j
  PROVE  Rank(P, i) < Rank(P, j)
<1>1. j \in 1..n
  BY DEF Among
<1>2. UpTo(P, i) \cup {j} \in SUBSET UpTo(P, j)
  <2>1. \A x \in UpTo(P, i) : x \in P /\ x \in 1..n /\ x =< i
    BY DEF UpTo, Among
  <2>2. \A x \in UpTo(P, i) \cup {j} : x \in UpTo(P, j)
    BY <1>1, <2>1 DEF UpTo
  <2> QED
    BY <2>2
<1>3. j \notin UpTo(P, i)
  BY <1>1 DEF UpTo
<1>4. IsFiniteSet(UpTo(P, i)) /\ IsFiniteSet(UpTo(P, j)) /\ Rank(P, i) \in Nat /\ Rank(P, j) \in Nat
  BY PlacesUpTo
<1>5. Cardinality(UpTo(P, i) \cup {j}) = Cardinality(UpTo(P, i)) + 1
  BY <1>3, <1>4, FS_AddElement
<1>6. Cardinality(UpTo(P, i) \cup {j}) =< Cardinality(UpTo(P, j))
  BY <1>2, <1>4, FS_Subset
<1> QED
  BY <1>4, <1>5, <1>6, PlacesUpTo

\* Every number up to the length of the stream is that of one line.
LEMMA RankOnto ==
  ASSUME NEW n \in Nat, NEW P, Among(P, n), NEW k \in 1..Cardinality(P)
  PROVE  \E i \in P : Rank(P, i) = k
<1> DEFINE T == {i \in 0..n : Rank(P, i) >= k}
<1>1. n \in T /\ 0 \notin T
  BY RankStep, PlacesUpTo
<1>2. PICK i \in T : \A m \in T : i =< m
  <2>1. T \subseteq Nat /\ T # {}
    BY <1>1
  <2> HIDE DEF T
  <2> QED
    BY <2>1, LeastNumber
<1>3. i \in 1..n /\ i - 1 \in 0..(n - 1) /\ i - 1 \notin T
  BY <1>1, <1>2
<1>4. Rank(P, i - 1) \in Nat /\ Rank(P, i) \in Nat /\ Rank(P, i - 1) < k /\ Rank(P, i) >= k
  BY <1>2, <1>3, PlacesUpTo
<1>5. Rank(P, i) = IF i \in P THEN Rank(P, i - 1) + 1 ELSE Rank(P, i - 1)
  <2>1. Rank(P, (i - 1) + 1) = IF (i - 1) + 1 \in P THEN Rank(P, i - 1) + 1 ELSE Rank(P, i - 1)
    BY <1>3, RankStep
  <2>2. (i - 1) + 1 = i
    BY <1>3
  <2> QED
    BY <2>1, <2>2
<1> QED
  BY <1>4, <1>5

\* The line with number k of the stream is the line that has k of them up to it.
LEMMA NumberedAt ==
  ASSUME NEW n \in Nat, NEW P, Among(P, n), NEW ls
  PROVE  /\ DOMAIN Numbered(ls, P) = 1..Cardinality(P)
         /\ \A i \in P : Rank(P, i) \in 1..Cardinality(P) /\ Numbered(ls, P)[Rank(P, i)] = ls[i]
         /\ \A k \in 1..Cardinality(P) : \E i \in P : Rank(P, i) = k /\ Numbered(ls, P)[k] = ls[i]
<1>1. \A i, j \in P : Rank(P, i) = Rank(P, j) => i = j
  <2>1. SUFFICES ASSUME NEW i \in P, NEW j \in P, Rank(P, i) = Rank(P, j), i # j
                 PROVE  FALSE
    OBVIOUS
  <2>2. i \in 0..n /\ j \in 0..n /\ Rank(P, i) \in Nat
    BY PlacesUpTo DEF Among
  <2>3. CASE i < j
    BY <2>1, <2>2, <2>3, RankGrows
  <2>4. CASE j < i
    BY <2>1, <2>2, <2>4, RankGrows
  <2> QED
    BY <2>1, <2>2, <2>3, <2>4
<1>2. \A i \in P : Rank(P, i) \in 1..Cardinality(P)
  <2>1. SUFFICES ASSUME NEW i \in P PROVE Rank(P, i) \in 1..Cardinality(P)
    OBVIOUS
  <2>2. i \in 1..n /\ 0 \in 0..n /\ 0 < i
    BY DEF Among
  <2>3. /\ Rank(P, 0) < Rank(P, i) /\ Rank(P, 0) = 0
        /\ Rank(P, i) \in 0..Cardinality(P) /\ Cardinality(P) \in Nat
    BY <2>2, RankGrows, RankStep, PlacesUpTo
  <2> QED
    BY <2>3
<1>3. \A i \in P : Numbered(ls, P)[Rank(P, i)] = ls[i]
  <2>1. SUFFICES ASSUME NEW i \in P PROVE Numbered(ls, P)[Rank(P, i)] = ls[i]
    OBVIOUS
  <2>2. (CHOOSE x \in P : Rank(P, x) = Rank(P, i)) = i
    BY <1>1
  <2>3. Numbered(ls, P)[Rank(P, i)] = ls[CHOOSE x \in P : Rank(P, x) = Rank(P, i)]
    BY <1>2 DEF Numbered
  <2> QED
    BY <2>2, <2>3
<1>4. \A k \in 1..Cardinality(P) : \E i \in P : Rank(P, i) = k
  BY RankOnto
<1>5. DOMAIN Numbered(ls, P) = 1..Cardinality(P)
  BY DEF Numbered
<1> QED
  BY <1>2, <1>3, <1>4, <1>5

\* One line more may be one of the stream, and the lines before it are the same.
Grown(P, Q, n) == P \subseteq Q /\ Q \subseteq P \cup {n + 1}
Agree(ls, ms, n) == \A i \in 1..n : ls[i] = ms[i]

\* A line that is appended to the file leaves the numbers of the others and the stream so
\* far alone.
LEMMA NumberedGrows ==
  ASSUME NEW n \in Nat, NEW P, Among(P, n), NEW Q, Grown(P, Q, n),
         NEW ls, NEW ms, Agree(ls, ms, n)
  PROVE  /\ \A i \in 0..n : Rank(Q, i) = Rank(P, i)
         /\ Cardinality(Q) \in Nat /\ Cardinality(P) =< Cardinality(Q)
         /\ \A k \in 1..Cardinality(P) : Numbered(ms, Q)[k] = Numbered(ls, P)[k]
<1>1. n + 1 \in Nat /\ Among(Q, n + 1)
  BY DEF Among, Grown
<1>2. \A i \in 0..n : Rank(Q, i) = Rank(P, i)
  <2>1. \A i \in 0..n : {j \in Q : j =< i} = {j \in P : j =< i}
    BY <1>1 DEF Among, Grown
  <2> QED
    BY <2>1 DEF Rank
<1>3. Cardinality(Q) \in Nat /\ Cardinality(P) =< Cardinality(Q)
  <2>1. IsFiniteSet(Q) /\ P \in SUBSET Q
    BY <1>1, PlacesUpTo DEF Grown
  <2> QED
    BY <1>1, <2>1, PlacesUpTo, FS_Subset
<1>4. ASSUME NEW k \in 1..Cardinality(P)
      PROVE  Numbered(ms, Q)[k] = Numbered(ls, P)[k]
  <2>1. PICK i \in P : Rank(P, i) = k /\ Numbered(ls, P)[k] = ls[i]
    BY NumberedAt
  <2>2. i \in Q /\ i \in 1..n /\ i \in 0..n /\ Rank(Q, i) = k
    BY <2>1, <1>2 DEF Among, Grown
  <2>3. Numbered(ms, Q)[Rank(Q, i)] = ms[i]
    BY <1>1, <2>2, NumberedAt
  <2> QED
    BY <2>1, <2>2, <2>3 DEF Agree
<1> QED
  BY <1>2, <1>3, <1>4

-----------------------------------------------------------------------------
(* The inductive invariant of the stream *)

\* The events of a stream that carry a place.
LogEvents == [event : {"log"}, id : Nat, line : Range(Lines)]
ErrorEvents == [event : {"error"}, id : Nat]
Events == LogEvents \cup ErrorEvents

SlotType ==
  [reader : {"read", "check", "offer", "end"}, pos : Nat, index : Nat, lastId : Nat,
   held : {Nothing} \cup Events,
   handler : {"select", "write", "stop", "gone"},
   out : {Nothing, Keepalive} \cup Events,
   done : BOOLEAN, net : BOOLEAN]

\* There is a stream to read: without one the client is told to come back.
Open == log # NoLog /\ (kind = "rollout" => committed)

TailShapes ==
  /\ kind \in {"update", "rollout"} /\ committed \in BOOLEAN /\ back \in BOOLEAN
  /\ log # NoLog => \E n \in 0..Len(Lines) : log = SubSeq(Lines, 1, n)
  /\ srv \in [Slots -> SlotType]
  /\ client = [conn |-> client.conn, lastId |-> client.lastId, got |-> client.got]
  /\ client.conn \in Slots \cup {Nothing} /\ client.lastId \in Nat
  /\ client.got \in Seq(Range(Lines))

\* What the reader has in hand, and the handler.
Holds(s, kinds) == s.reader \in {"check", "offer"} /\ s.held \in kinds
Writes(s, kinds) == s.handler = "write" /\ s.out \in kinds

\* A reader is at its place in the file and has counted the lines of the stream up to
\* there, and neither it nor its handler has anything of a stream that is not open.
AtItsPlace(s, open, lg, places, readable) ==
  /\ s.reader = "read" => open
  /\ s.reader \in {"check", "offer"} => s.held \in Events
  /\ s.handler = "write" => s.out \in {Keepalive} \cup Events
  /\ lg = NoLog => s.pos = 0 /\ s.index = 0
  /\ lg # NoLog => s.pos =< Len(lg) /\ s.index = Rank(places, s.pos) /\ 1..s.pos \subseteq readable
  /\ ~open => s.lastId = 0 /\ ~Holds(s, LogEvents) /\ ~Writes(s, LogEvents)

\* Where the client is when the event that is being written has reached it.
Reached(s, last) == IF Writes(s, Events) THEN s.out.id ELSE last

\* The place of the reader: the lines it has passed, and at least the client's own.
Passed(s) == IF s.index < s.lastId THEN s.lastId ELSE s.index

\* On the client's connection every event is the one after what the client has when the
\* events before it have arrived.
InOrder(s, last, bk, stream) ==
  /\ Writes(s, LogEvents) =>
       s.out.id = last + 1 /\ s.out.id =< Len(stream) /\ s.out.line = stream[s.out.id]
  /\ Writes(s, ErrorEvents) =>
       s.reader = "end" /\ s.out.id =< last /\ (~bk => s.out.id = last)
  /\ s.reader = "read" => Reached(s, last) = Passed(s)
  /\ Holds(s, LogEvents) =>
       /\ s.held.id = Reached(s, last) + 1 /\ s.held.id = s.index /\ s.held.id > s.lastId
       /\ s.held.id =< Len(stream) /\ s.held.line = stream[s.held.id]
  /\ Holds(s, ErrorEvents) =>
       s.held.id =< Reached(s, last) /\ (~bk => s.held.id = Reached(s, last))

\* What the client has is the stream up to a place at or behind its own.
HasAll(got, last, bk, stream) ==
  /\ \E n \in 0..Len(stream) :
       /\ Range(got) = Range(SubSeq(stream, 1, n))
       /\ last =< n
  /\ ~bk => last =< Len(stream) /\ got = SubSeq(stream, 1, last)

TailInv ==
  /\ TailShapes
  /\ ~Open => client.lastId = 0
  /\ HasAll(client.got, client.lastId, back, Stream)
  /\ \A k \in Slots : AtItsPlace(srv[k], Open, log, Places, Readable)
  /\ \A k \in Slots :
       srv[k].net => client.conn = k /\ InOrder(srv[k], client.lastId, back, Stream)

-----------------------------------------------------------------------------
(* What the client has *)

\* The lines among the first n of the stream.
LEMMA FirstLines ==
  ASSUME NEW S, NEW st \in Seq(S), NEW n \in 0..Len(st)
  PROVE  /\ SubSeq(st, 1, n) \in Seq(S) /\ Len(SubSeq(st, 1, n)) = n
         /\ \A i \in 1..n : SubSeq(st, 1, n)[i] = st[i]
         /\ Range(SubSeq(st, 1, n)) = {st[i] : i \in 1..n}
<1>1. /\ SubSeq(st, 1, n) \in Seq(S) /\ Len(SubSeq(st, 1, n)) = n
      /\ \A i \in 1..n : SubSeq(st, 1, n)[i] = st[i]
  OBVIOUS
<1>2. DOMAIN SubSeq(st, 1, n) = 1..n
  BY <1>1
<1> QED
  BY <1>1, <1>2 DEF Range

\* The next line of the stream keeps what the client has a beginning of the stream.
LEMMA NextLineArrives ==
  ASSUME NEW S, NEW st \in Seq(S), NEW got \in Seq(S), NEW last \in Nat, NEW bk \in BOOLEAN,
         HasAll(got, last, bk, st), last + 1 =< Len(st)
  PROVE  HasAll(Append(got, st[last + 1]), last + 1, bk, st)
<1>1. last + 1 \in 1..Len(st) /\ st[last + 1] \in S
  OBVIOUS
<1>2. Range(Append(got, st[last + 1])) = Range(got) \cup {st[last + 1]}
  <2>1. /\ DOMAIN got = 1..Len(got) /\ DOMAIN Append(got, st[last + 1]) = 1..(Len(got) + 1)
        /\ Append(got, st[last + 1])[Len(got) + 1] = st[last + 1]
        /\ \A i \in 1..Len(got) : Append(got, st[last + 1])[i] = got[i]
        /\ Len(got) \in Nat
    BY <1>1
  <2>2. 1..(Len(got) + 1) = 1..Len(got) \cup {Len(got) + 1}
    BY <2>1
  <2> QED
    BY <2>1, <2>2 DEF Range
<1>3. PICK n \in 0..Len(st) : Range(got) = Range(SubSeq(st, 1, n)) /\ last =< n
  BY DEF HasAll
<1>4. \E m \in 0..Len(st) :
        Range(Append(got, st[last + 1])) = Range(SubSeq(st, 1, m)) /\ last + 1 =< m
  <2>1. CASE last + 1 =< n
    <3>1. st[last + 1] \in Range(SubSeq(st, 1, n))
      BY <1>1, <2>1, FirstLines
    <3> QED
      BY <1>2, <1>3, <2>1, <3>1
  <2>2. CASE last = n
    <3>1. n + 1 \in 0..Len(st)
      BY <1>1, <2>2
    <3>2. /\ Range(SubSeq(st, 1, n)) = {st[i] : i \in 1..n}
          /\ Range(SubSeq(st, 1, n + 1)) = {st[i] : i \in 1..(n + 1)}
      BY <3>1, FirstLines
    <3>3. {st[i] : i \in 1..(n + 1)} = {st[i] : i \in 1..n} \cup {st[n + 1]}
      BY <3>1
    <3>4. Range(Append(got, st[last + 1])) = Range(SubSeq(st, 1, n + 1))
      BY <1>2, <1>3, <2>2, <3>2, <3>3
    <3> QED
      BY <2>2, <3>1, <3>4
  <2> QED
    BY <1>3, <2>1, <2>2
<1>5. ASSUME ~bk
      PROVE  Append(got, st[last + 1]) = SubSeq(st, 1, last + 1)
  <2>1. got = SubSeq(st, 1, last) /\ last \in 0..Len(st) /\ last + 1 \in 0..Len(st)
    BY <1>1, <1>5 DEF HasAll
  <2>2. /\ Len(got) = last /\ \A i \in 1..last : got[i] = st[i]
        /\ SubSeq(st, 1, last + 1) \in Seq(S) /\ Len(SubSeq(st, 1, last + 1)) = last + 1
        /\ \A i \in 1..(last + 1) : SubSeq(st, 1, last + 1)[i] = st[i]
    BY <2>1, FirstLines
  <2>3. /\ Append(got, st[last + 1]) \in Seq(S) /\ Len(Append(got, st[last + 1])) = last + 1
        /\ \A i \in 1..(last + 1) : Append(got, st[last + 1])[i] = st[i]
    BY <1>1, <2>2
  <2> QED
    BY <2>2, <2>3, SeqEqual
<1> QED
  BY <1>1, <1>4, <1>5 DEF HasAll

\* A client that is sent back has what it had.
LEMMA SentBack ==
  ASSUME NEW got, NEW last \in Nat, NEW id \in Nat, NEW bk \in BOOLEAN, NEW b2 \in BOOLEAN, NEW st,
         Len(st) \in Nat,
         HasAll(got, last, bk, st), id =< last, bk => b2, ~b2 => id = last
  PROVE  HasAll(got, id, b2, st)
<1>1. \A n \in 0..Len(st) : last =< n => id =< n
  OBVIOUS
<1> QED
  BY <1>1 DEF HasAll

\* A line that is appended takes nothing from what the client has.
LEMMA StreamGrows ==
  ASSUME NEW S, NEW st \in Seq(S), NEW st2 \in Seq(S), NEW got, NEW last \in Nat, NEW bk \in BOOLEAN,
         Len(st) =< Len(st2), \A i \in 1..Len(st) : st2[i] = st[i],
         HasAll(got, last, bk, st)
  PROVE  HasAll(got, last, bk, st2)
<1>1. ASSUME NEW n \in 0..Len(st)
      PROVE  n \in 0..Len(st2) /\ SubSeq(st2, 1, n) = SubSeq(st, 1, n)
  <2>1. n \in 0..Len(st2)
    OBVIOUS
  <2>2. /\ SubSeq(st, 1, n) \in Seq(S) /\ Len(SubSeq(st, 1, n)) = n
        /\ \A i \in 1..n : SubSeq(st, 1, n)[i] = st[i]
        /\ SubSeq(st2, 1, n) \in Seq(S) /\ Len(SubSeq(st2, 1, n)) = n
        /\ \A i \in 1..n : SubSeq(st2, 1, n)[i] = st2[i]
    BY <2>1, FirstLines
  <2>3. \A i \in 1..n : st2[i] = st[i]
    OBVIOUS
  <2> QED
    BY <2>1, <2>2, <2>3, SeqEqual
<1>2. Len(st) \in Nat /\ Len(st2) \in Nat
  OBVIOUS
<1>3. \E n \in 0..Len(st2) : Range(got) = Range(SubSeq(st2, 1, n)) /\ last =< n
  BY <1>1 DEF HasAll
<1>4. ~bk => last =< Len(st2) /\ got = SubSeq(st2, 1, last)
  BY <1>1, <1>2 DEF HasAll
<1> QED
  BY <1>3, <1>4 DEF HasAll

-----------------------------------------------------------------------------
(* The stream of a state *)

\* The lines that are numbered make a sequence.
LEMMA NumberedShape ==
  ASSUME NEW n \in Nat, NEW P, Among(P, n), NEW S, NEW ls, \A i \in 1..n : ls[i] \in S
  PROVE  Numbered(ls, P) \in Seq(S) /\ Len(Numbered(ls, P)) = Cardinality(P)
<1>1. Cardinality(P) \in Nat
  BY PlacesUpTo
<1>2. \A k \in 1..Cardinality(P) : Numbered(ls, P)[k] \in S
  <2>1. SUFFICES ASSUME NEW k \in 1..Cardinality(P) PROVE Numbered(ls, P)[k] \in S
    OBVIOUS
  <2>2. PICK i \in P : Rank(P, i) = k /\ Numbered(ls, P)[k] = ls[i]
    BY NumberedAt
  <2> QED
    BY <2>2 DEF Among
<1>3. Numbered(ls, P) \in [1..Cardinality(P) -> S]
  BY <1>2 DEF Numbered
<1> QED
  BY <1>1, <1>3

\* The stream is a sequence of lines, and as long as the file has lines of it.
LEMMA StreamShape ==
  ASSUME TailShapes
  PROVE  /\ Stream \in Seq(Range(Lines)) /\ Len(Stream) \in Nat
         /\ log = NoLog => Stream = <<>> /\ Len(Stream) = 0
         /\ log # NoLog =>
              /\ Len(log) \in Nat /\ Len(log) =< Len(Lines) /\ DOMAIN log = 1..Len(log)
              /\ log \in Seq(Range(Lines))
              /\ \A i \in 1..Len(log) : log[i] = Lines[i] /\ log[i] \in Range(Lines)
              /\ Among(Places, Len(log))
              /\ Stream = Numbered(log, Places)
              /\ Len(Stream) = Cardinality(Places)
<1>1. CASE log = NoLog
  BY <1>1 DEF Stream
<1>2. CASE log # NoLog
  <2>1. Lines \in Seq(Range(Lines))
    BY TailAssumption
  <2>2. PICK n \in 0..Len(Lines) : log = SubSeq(Lines, 1, n)
    BY <1>2 DEF TailShapes
  <2>3. log \in Seq(Range(Lines)) /\ Len(log) = n /\ \A i \in 1..n : log[i] = Lines[i]
    BY <2>1, <2>2, FirstLines
  <2>4. DOMAIN log = 1..n /\ \A i \in 1..n : log[i] \in Range(Lines)
    BY <2>3
  <2>5. Among(Places, n)
    BY <2>4 DEF Among, Places, Readable
  <2>6. Stream = Numbered(log, Places)
    BY <1>2 DEF Stream
  <2>7. Numbered(log, Places) \in Seq(Range(Lines)) /\ Len(Numbered(log, Places)) = Cardinality(Places)
    BY <2>4, <2>5, NumberedShape
  <2> QED
    BY <1>2, <2>3, <2>4, <2>5, <2>6, <2>7
<1> QED
  BY <1>1, <1>2

\* What the stream is only depends on the file and on what was asked for.
LEMMA StreamUnchanged ==
  ASSUME UNCHANGED <<kind, log>>
  PROVE  Stream' = Stream /\ Places' = Places /\ Readable' = Readable
BY DEF Stream, Places, Readable, Wanted, Unreadable

\* A place that the error event has sent the client back to does no harm when reading
\* had failed before: the order of events is not claimed any more.
LEMMA InOrderBack ==
  ASSUME NEW s, NEW last, NEW bk \in BOOLEAN, NEW b2 \in BOOLEAN, NEW st, bk => b2,
         InOrder(s, last, bk, st)
  PROVE  InOrder(s, last, b2, st)
BY DEF InOrder

\* A stream that grows leaves the order of the events on a connection as it is.
LEMMA OrderGrows ==
  ASSUME NEW s \in SlotType, NEW last \in Nat, NEW bk, NEW st, NEW st2,
         Len(st) \in Nat, Len(st2) \in Nat, Len(st) =< Len(st2), \A i \in 1..Len(st) : st2[i] = st[i],
         InOrder(s, last, bk, st)
  PROVE  InOrder(s, last, bk, st2)
<1>1. Writes(s, LogEvents) => s.out.id \in Nat /\ s.out.id >= 1
  BY DEF Writes, LogEvents, InOrder
<1>2. Holds(s, LogEvents) => s.held.id \in Nat /\ s.held.id > s.lastId /\ s.lastId \in Nat
  BY DEF Holds, LogEvents, InOrder, SlotType
<1>3. Writes(s, LogEvents) => s.out.id =< Len(st2) /\ st2[s.out.id] = st[s.out.id]
  BY <1>1 DEF InOrder
<1>4. Holds(s, LogEvents) => s.held.id =< Len(st2) /\ st2[s.held.id] = st[s.held.id]
  BY <1>2 DEF InOrder
<1> QED
  BY <1>3, <1>4 DEF InOrder

\* A step of one connection that leaves the client and the file alone keeps the
\* invariant when it keeps that connection's part of it.
LEMMA SlotStep ==
  ASSUME TailInv, NEW k \in Slots, NEW s \in SlotType, Upd(k, s),
         UNCHANGED <<kind, log, committed, client>>, back' \in BOOLEAN, back => back',
         AtItsPlace(s, Open, log, Places, Readable),
         s.net => srv[k].net,
         srv[k].net /\ s.net => InOrder(s, client.lastId, back', Stream)
  PROVE  TailInv'
<1>1. Stream' = Stream /\ Places' = Places /\ Readable' = Readable /\ Open' = Open
  BY StreamUnchanged DEF Open
<1>2. srv' = [srv EXCEPT ![k] = s] /\ srv \in [Slots -> SlotType]
  BY DEF Upd, TailInv, TailShapes
<1>3. srv' \in [Slots -> SlotType] /\ srv'[k] = s /\ \A j \in Slots : j # k => srv'[j] = srv[j]
  BY <1>2
<1>4. TailShapes'
  BY <1>3 DEF TailInv, TailShapes
<1>5. HasAll(client.got, client.lastId, back', Stream)
  BY StreamShape, SentBack DEF TailInv, TailShapes
<1>6. \A j \in Slots : AtItsPlace(srv'[j], Open, log, Places, Readable)
  BY <1>3 DEF TailInv
<1>7. \A j \in Slots : srv'[j].net => client.conn = j /\ InOrder(srv'[j], client.lastId, back', Stream)
  <2>1. SUFFICES ASSUME NEW j \in Slots, srv'[j].net
                 PROVE  client.conn = j /\ InOrder(srv'[j], client.lastId, back', Stream)
    OBVIOUS
  <2>2. CASE j = k
    BY <1>3, <2>1, <2>2 DEF TailInv
  <2>3. CASE j # k
    BY <1>3, <2>1, <2>3, InOrderBack DEF TailInv, TailShapes
  <2> QED
    BY <2>2, <2>3
<1> QED
  BY <1>1, <1>4, <1>5, <1>6, <1>7 DEF TailInv

-----------------------------------------------------------------------------
(* The steps of reader and handler *)

\* Connections that are not in use are in their place.
LEMMA UnusedShape ==
  /\ Unused \in SlotType
  /\ ~Unused.net
BY DEF Unused, SlotType, Keepalive

\* The next line: its number is its place in the stream, and the reader offers it
\* exactly when it is the one after what the client has.
LEMMA ReadKeeps ==
  ASSUME TailInv, NEW k \in Slots, Read(k)
  PROVE  TailInv'
<1> DEFINE s == srv[k]
           line == log[s.pos + 1]
           skip == [s EXCEPT !.pos = @ + 1]
           pass == [s EXCEPT !.pos = s.pos + 1, !.index = s.index + 1]
           give == [s EXCEPT !.pos = s.pos + 1, !.index = s.index + 1, !.reader = "check",
                             !.held = LogEvent(s.index + 1, line)]
<1>1. /\ s.reader = "read" /\ s.pos < Len(log) /\ ~Unreadable(line)
      /\ UNCHANGED <<kind, log, committed, client, back>>
      /\ Upd(k, IF ~Wanted(line) THEN skip ELSE IF s.index + 1 =< s.lastId THEN pass ELSE give)
  BY DEF Read, WorldUnchanged
<1>2. s \in SlotType /\ AtItsPlace(s, Open, log, Places, Readable) /\ back \in BOOLEAN
  BY DEF TailInv, TailShapes
<1>3. log # NoLog /\ Open
  BY <1>1, <1>2 DEF AtItsPlace, Open
<1>4. /\ Len(log) \in Nat /\ s.pos \in Nat /\ s.index \in Nat /\ s.lastId \in Nat
      /\ s.pos + 1 \in 1..Len(log) /\ s.pos \in 0..(Len(log) - 1)
      /\ Among(Places, Len(log)) /\ line \in Range(Lines)
  BY <1>1, <1>2, <1>3, StreamShape DEF TailInv, SlotType
<1>0. s.index = Rank(Places, s.pos) /\ 1..s.pos \subseteq Readable
  BY <1>2, <1>3 DEF AtItsPlace
<1>5. s.pos + 1 \in Readable /\ 1..(s.pos + 1) \subseteq Readable
  <2>1. DOMAIN log = 1..Len(log)
    BY <1>3, StreamShape DEF TailInv
  <2>2. \A j \in 1..(s.pos + 1) : j \in 1..s.pos \/ j = s.pos + 1
    BY <1>4
  <2>3. \A j \in 1..s.pos : ~Unreadable(log[j])
    BY <1>0, <1>4 DEF Readable
  <2>4. \A j \in 1..(s.pos + 1) : ~Unreadable(log[j])
    BY <1>1, <2>2, <2>3
  <2> HIDE DEF s
  <2>5. s.pos + 1 \in Readable
    BY <1>4, <2>1, <2>4 DEF Readable
  <2> QED
    BY <1>0, <2>2, <2>5
<1>5a. Wanted(line) <=> s.pos + 1 \in Places
  BY <1>5 DEF Places
<1>6. Rank(Places, s.pos + 1) = IF Wanted(line) THEN s.index + 1 ELSE s.index
  BY <1>0, <1>4, <1>5a, RankStep
<1>7. Wanted(line) => s.index + 1 =< Len(Stream) /\ Stream[s.index + 1] = line
  <2>1. SUFFICES ASSUME Wanted(line)
                 PROVE  s.index + 1 =< Len(Stream) /\ Stream[s.index + 1] = line
    OBVIOUS
  <2>2. s.pos + 1 \in Places /\ Rank(Places, s.pos + 1) = s.index + 1
    BY <1>5a, <1>6, <2>1
  <2>3. Stream = Numbered(log, Places) /\ Len(Stream) = Cardinality(Places)
    BY <1>3, StreamShape DEF TailInv
  <2>4. /\ Rank(Places, s.pos + 1) \in 1..Cardinality(Places)
        /\ Numbered(log, Places)[Rank(Places, s.pos + 1)] = log[s.pos + 1]
    BY <1>4, <2>2, NumberedAt
  <2>5. Cardinality(Places) \in Nat
    BY <1>4, PlacesUpTo
  <2> QED
    BY <2>2, <2>3, <2>4, <2>5
<1>8. s.net => InOrder(s, client.lastId, back, Stream)
  BY DEF TailInv
<1> HIDE DEF s, line
<1>9. CASE ~Wanted(line)
  <2>1. skip \in SlotType /\ skip.net = s.net
    BY <1>2, <1>4 DEF SlotType
  <2>2. AtItsPlace(skip, Open, log, Places, Readable)
    BY <1>1, <1>2, <1>3, <1>4, <1>5, <1>6, <1>9 DEF SlotType, AtItsPlace, Holds, Writes
  <2>3. s.net => InOrder(skip, client.lastId, back, Stream)
    BY <1>1, <1>2, <1>8 DEF SlotType, InOrder, Holds, Writes, Reached, Passed
  <2>4. Upd(k, skip)
    BY <1>1, <1>9
  <2> QED
    BY <1>1, <1>2, <2>1, <2>2, <2>3, <2>4, SlotStep DEF s
<1>10. CASE Wanted(line) /\ s.index + 1 =< s.lastId
  <2>0. s.pos + 1 \in Nat /\ s.index + 1 \in Nat
    BY <1>4
  <2>1. pass \in SlotType /\ pass.net = s.net
    BY <1>2, <2>0 DEF SlotType
  <2>2. AtItsPlace(pass, Open, log, Places, Readable)
    BY <1>1, <1>2, <1>3, <1>4, <1>5, <1>6, <1>10 DEF SlotType, AtItsPlace, Holds, Writes
  <2>3. s.net => InOrder(pass, client.lastId, back, Stream)
    BY <1>1, <1>2, <1>4, <1>8, <1>10 DEF SlotType, InOrder, Holds, Writes, Reached, Passed
  <2>4. Upd(k, pass)
    BY <1>1, <1>10
  <2> QED
    BY <1>1, <1>2, <2>1, <2>2, <2>3, <2>4, SlotStep DEF s
<1>11. CASE Wanted(line) /\ ~(s.index + 1 =< s.lastId)
  <2>0. LogEvent(s.index + 1, line) \in LogEvents /\ LogEvent(s.index + 1, line) \notin ErrorEvents
    BY <1>4 DEF LogEvent, LogEvents, ErrorEvents
  <2>1. give \in SlotType /\ give.net = s.net
    <3>1. s.pos + 1 \in Nat /\ s.index + 1 \in Nat /\ LogEvent(s.index + 1, line) \in Events
      BY <1>4, <2>0 DEF Events
    <3> HIDE DEF LogEvent
    <3> QED
      BY <1>2, <3>1 DEF SlotType
  <2>2. AtItsPlace(give, Open, log, Places, Readable)
    BY <1>1, <1>2, <1>3, <1>4, <1>5, <1>6, <1>11, <2>0 DEF SlotType, AtItsPlace, Holds, Writes, Events
  <2>3. s.net => InOrder(give, client.lastId, back, Stream)
    BY <1>1, <1>2, <1>4, <1>7, <1>8, <1>11, <2>0
    DEF SlotType, InOrder, Holds, Writes, Reached, Passed, LogEvent
  <2>4. Upd(k, give)
    BY <1>1, <1>11
  <2> QED
    BY <1>1, <1>2, <2>1, <2>2, <2>3, <2>4, SlotStep DEF s
<1> QED
  BY <1>9, <1>10, <1>11

\* Reading fails: the error carries the number of the last line that was read, which the
\* client has or is about to get.
LEMMA InterruptKeeps ==
  ASSUME TailInv, NEW k \in Slots, Interrupt(k)
  PROVE  TailInv'
<1> DEFINE s == srv[k]
           t == [s EXCEPT !.reader = "check", !.held = ErrorEvent(s.index)]
<1>1. /\ s.reader = "read" /\ Upd(k, t)
      /\ UNCHANGED <<kind, log, committed, client>>
      /\ back' = (back \/ s.index < s.lastId)
  BY DEF Interrupt
<1>2. s \in SlotType /\ AtItsPlace(s, Open, log, Places, Readable) /\ back \in BOOLEAN /\ client.lastId \in Nat
  BY DEF TailInv, TailShapes
<1>3. ErrorEvent(s.index) \in ErrorEvents /\ ErrorEvent(s.index) \notin LogEvents
  BY <1>2 DEF ErrorEvent, ErrorEvents, LogEvents, SlotType
<1>4. s.net => InOrder(s, client.lastId, back, Stream)
  BY DEF TailInv
<1>5. back' \in BOOLEAN /\ (back => back') /\ (~back' => ~(s.index < s.lastId))
  BY <1>1
<1> HIDE DEF s
<1>6. t \in SlotType /\ t.net = s.net
  BY <1>2, <1>3 DEF SlotType, Events
<1>7. AtItsPlace(t, Open, log, Places, Readable)
  BY <1>1, <1>2, <1>3 DEF SlotType, AtItsPlace, Holds, Writes, Events
<1>8. s.net => InOrder(t, client.lastId, back', Stream)
  BY <1>1, <1>2, <1>3, <1>4, <1>5 DEF SlotType, InOrder, Holds, Writes, Reached, Passed, ErrorEvent
<1> QED
  BY <1>1, <1>5, <1>6, <1>7, <1>8, SlotStep DEF s

\* The other steps of a reader, and those of a handler that give the client nothing.
LEMMA QuietSteps ==
  ASSUME TailInv, NEW k \in Slots, AtEnd(k) \/ Check(k) \/ Take(k) \/ Idle(k) \/ ChannelClosed(k)
  PROVE  TailInv'
<1> DEFINE s == srv[k]
<1>1. s \in SlotType /\ AtItsPlace(s, Open, log, Places, Readable) /\ back \in BOOLEAN /\ client.lastId \in Nat
  BY DEF TailInv, TailShapes
<1>2. s.net => InOrder(s, client.lastId, back, Stream)
  BY DEF TailInv
<1>3. UNCHANGED <<kind, log, committed, client, back>>
  BY DEF AtEnd, Check, Take, Idle, ChannelClosed, WorldUnchanged
<1>4. ASSUME NEW t \in SlotType, t.net = s.net, Upd(k, t),
             AtItsPlace(t, Open, log, Places, Readable),
             s.net => InOrder(t, client.lastId, back, Stream)
      PROVE  TailInv'
  BY <1>1, <1>3, <1>4, SlotStep
<1>5. CASE AtEnd(k)
  <2> DEFINE t == [s EXCEPT !.reader = "end"]
  <2>1. Upd(k, t) /\ s.reader = "read"
    BY <1>5 DEF AtEnd
  <2> HIDE DEF s
  <2>2. t \in SlotType /\ t.net = s.net
    BY <1>1 DEF SlotType
  <2>3. AtItsPlace(t, Open, log, Places, Readable)
    BY <1>1, <2>1 DEF SlotType, AtItsPlace, Holds, Writes
  <2>4. s.net => InOrder(t, client.lastId, back, Stream)
    BY <1>1, <1>2, <2>1 DEF SlotType, InOrder, Holds, Writes, Reached
  <2> QED
    BY <1>4, <2>1, <2>2, <2>3, <2>4
<1>6. CASE Check(k) /\ s.done
  <2> DEFINE t == [s EXCEPT !.reader = "end", !.held = Nothing]
  <2>1. Upd(k, t) /\ s.reader = "check"
    BY <1>6 DEF Check
  <2> HIDE DEF s
  <2>2. t \in SlotType /\ t.net = s.net
    BY <1>1 DEF SlotType
  <2>3. AtItsPlace(t, Open, log, Places, Readable)
    BY <1>1, <2>1 DEF SlotType, AtItsPlace, Holds, Writes
  <2>4. s.net => InOrder(t, client.lastId, back, Stream)
    BY <1>1, <1>2, <2>1 DEF SlotType, InOrder, Holds, Writes, Reached
  <2> QED
    BY <1>4, <2>1, <2>2, <2>3, <2>4
<1>7. CASE Check(k) /\ ~s.done
  <2> DEFINE t == [s EXCEPT !.reader = "offer"]
  <2>1. Upd(k, t) /\ s.reader = "check"
    BY <1>7 DEF Check
  <2> HIDE DEF s
  <2>2. t \in SlotType /\ t.net = s.net
    BY <1>1 DEF SlotType
  <2>3. AtItsPlace(t, Open, log, Places, Readable)
    BY <1>1, <2>1 DEF SlotType, AtItsPlace, Holds, Writes
  <2>4. s.net => InOrder(t, client.lastId, back, Stream)
    BY <1>1, <1>2, <2>1 DEF SlotType, InOrder, Holds, Writes, Reached, Passed
  <2> QED
    BY <1>4, <2>1, <2>2, <2>3, <2>4
<1>8. CASE Take(k)
  <2> DEFINE t == [s EXCEPT !.handler = "write", !.out = s.held, !.held = Nothing,
                            !.reader = IF s.held.event = "error" THEN "end" ELSE "read"]
  <2>1. Upd(k, t) /\ s.reader = "offer" /\ s.handler = "select"
    BY <1>8 DEF Take
  <2> HIDE DEF s
  <2>2. s.held \in LogEvents \/ s.held \in ErrorEvents
    BY <1>1, <2>1 DEF AtItsPlace, Events
  <2>3. CASE s.held \in LogEvents
    <3>1. s.held.event = "log" /\ s.held \notin ErrorEvents /\ s.held \in Events /\ s.held.id \in Nat
      BY <2>3 DEF LogEvents, ErrorEvents, Events
    <3>2. t = [s EXCEPT !.handler = "write", !.out = s.held, !.held = Nothing, !.reader = "read"]
      BY <3>1
    <3> HIDE DEF t
    <3>3. t \in SlotType /\ t.net = s.net
      BY <1>1, <3>1, <3>2 DEF SlotType
    <3>4. /\ t.reader = "read" /\ t.handler = "write" /\ t.out = s.held /\ t.pos = s.pos
          /\ t.index = s.index /\ t.lastId = s.lastId
      BY <1>1, <3>2 DEF SlotType
    <3>5. Open
      BY <1>1, <2>1, <2>3 DEF AtItsPlace, Holds
    <3>6. AtItsPlace(t, Open, log, Places, Readable)
      BY <1>1, <2>1, <3>1, <3>4, <3>5 DEF AtItsPlace
    <3>7. s.net => InOrder(t, client.lastId, back, Stream)
      <4>1. SUFFICES ASSUME s.net PROVE InOrder(t, client.lastId, back, Stream)
        OBVIOUS
      <4>2. Holds(s, LogEvents) /\ Reached(s, client.lastId) = client.lastId
        BY <2>1, <2>3 DEF Holds, Reached, Writes
      <4>3. /\ s.held.id = client.lastId + 1 /\ s.held.id = s.index /\ s.held.id > s.lastId
            /\ s.held.id =< Len(Stream) /\ s.held.line = Stream[s.held.id]
        BY <1>2, <4>1, <4>2 DEF InOrder
      <4>4. Reached(t, client.lastId) = s.held.id /\ Passed(t) = s.index
        BY <1>1, <3>1, <3>4, <4>3 DEF Reached, Passed, Writes, SlotType
      <4> QED
        BY <3>1, <3>4, <4>3, <4>4 DEF InOrder, Holds, Writes
    <3> QED
      BY <1>4, <2>1, <3>3, <3>6, <3>7
  <2>4. CASE s.held \in ErrorEvents
    <3>1. s.held.event = "error" /\ s.held \notin LogEvents /\ s.held \in Events /\ s.held.id \in Nat
      BY <2>4 DEF LogEvents, ErrorEvents, Events
    <3>2. t = [s EXCEPT !.handler = "write", !.out = s.held, !.held = Nothing, !.reader = "end"]
      BY <3>1
    <3> HIDE DEF t
    <3>3. t \in SlotType /\ t.net = s.net
      BY <1>1, <3>1, <3>2 DEF SlotType
    <3>4. /\ t.reader = "end" /\ t.handler = "write" /\ t.out = s.held /\ t.pos = s.pos
          /\ t.index = s.index /\ t.lastId = s.lastId
      BY <1>1, <3>2 DEF SlotType
    <3>5. AtItsPlace(t, Open, log, Places, Readable)
      BY <1>1, <2>1, <3>1, <3>4 DEF AtItsPlace, Holds, Writes
    <3>6. s.net => InOrder(t, client.lastId, back, Stream)
      <4>1. SUFFICES ASSUME s.net PROVE InOrder(t, client.lastId, back, Stream)
        OBVIOUS
      <4>2. Holds(s, ErrorEvents) /\ Reached(s, client.lastId) = client.lastId
        BY <2>1, <2>4 DEF Holds, Reached, Writes
      <4>3. s.held.id =< client.lastId /\ (~back => s.held.id = client.lastId)
        BY <1>2, <4>1, <4>2 DEF InOrder
      <4> QED
        BY <3>1, <3>4, <4>3 DEF InOrder, Holds, Writes
    <3> QED
      BY <1>4, <2>1, <3>3, <3>5, <3>6
  <2> QED
    BY <2>2, <2>3, <2>4
<1>9. CASE Idle(k)
  <2> DEFINE t == [s EXCEPT !.handler = "write", !.out = Keepalive]
  <2>1. Upd(k, t) /\ s.handler = "select" /\ s.reader \in {"read", "check"}
    BY <1>9 DEF Idle
  <2>2. Keepalive \notin LogEvents /\ Keepalive \notin ErrorEvents /\ Keepalive \notin Events
    BY DEF Keepalive, LogEvents, ErrorEvents, Events
  <2> HIDE DEF s
  <2>3. t \in SlotType /\ t.net = s.net
    BY <1>1 DEF SlotType
  <2>4. AtItsPlace(t, Open, log, Places, Readable)
    BY <1>1, <2>1, <2>2 DEF SlotType, AtItsPlace, Holds, Writes
  <2>5. s.net => InOrder(t, client.lastId, back, Stream)
    BY <1>1, <1>2, <2>1, <2>2 DEF SlotType, InOrder, Holds, Writes, Reached, Passed
  <2> QED
    BY <1>4, <2>1, <2>3, <2>4, <2>5
<1>10. CASE ChannelClosed(k)
  <2> DEFINE t == [s EXCEPT !.handler = "stop"]
  <2>1. Upd(k, t) /\ s.handler = "select" /\ s.reader = "end"
    BY <1>10 DEF ChannelClosed
  <2> HIDE DEF s
  <2>2. t \in SlotType /\ t.net = s.net
    BY <1>1 DEF SlotType
  <2>3. AtItsPlace(t, Open, log, Places, Readable)
    BY <1>1, <2>1 DEF SlotType, AtItsPlace, Holds, Writes
  <2>4. s.net => InOrder(t, client.lastId, back, Stream)
    BY <1>1, <1>2, <2>1 DEF SlotType, InOrder, Holds, Writes, Reached
  <2> QED
    BY <1>4, <2>1, <2>2, <2>3, <2>4
<1> QED
  BY <1>5, <1>6, <1>7, <1>8, <1>9, <1>10

\* A connection starts where the client is, and without a stream with the error that
\* tells it to come back.
LEMMA ConnectKeeps ==
  ASSUME TailInv, NEW k \in Slots, Connect(k)
  PROVE  TailInv'
<1> DEFINE start == [Unused EXCEPT !.lastId = client.lastId, !.handler = "select",
                                   !.done = FALSE, !.net = TRUE]
           t == IF Open THEN [start EXCEPT !.reader = "read"]
                ELSE [start EXCEPT !.reader = "check", !.held = ErrorEvent(0)]
<1>1. /\ client.conn = Nothing /\ client' = [client EXCEPT !.conn = k]
      /\ Upd(k, IF (kind = "rollout" /\ ~committed) \/ log = NoLog
                THEN [start EXCEPT !.reader = "check", !.held = ErrorEvent(0)]
                ELSE [start EXCEPT !.reader = "read"])
      /\ UNCHANGED <<kind, log, committed, back>>
  BY DEF Connect, WorldUnchanged
<1>2. Upd(k, t)
  BY <1>1 DEF Open
<1>3. Stream' = Stream /\ Places' = Places /\ Readable' = Readable /\ Open' = Open
  BY <1>1, StreamUnchanged DEF Open
<1>4. /\ client' = [conn |-> k, lastId |-> client.lastId, got |-> client.got]
      /\ client.lastId \in Nat /\ back \in BOOLEAN /\ srv \in [Slots -> SlotType]
  BY <1>1 DEF TailInv, TailShapes
<1>5. /\ ErrorEvent(0) \in ErrorEvents /\ ErrorEvent(0) \notin LogEvents
      /\ ErrorEvent(0) \in Events /\ ErrorEvent(0).id = 0
  BY DEF ErrorEvent, ErrorEvents, LogEvents, Events
<1>6. /\ t \in SlotType /\ t.handler = "select" /\ t.pos = 0 /\ t.index = 0
      /\ t.lastId = client.lastId
      /\ Open => t.reader = "read"
      /\ ~Open => t.reader = "check" /\ t.held = ErrorEvent(0)
  BY <1>4, <1>5 DEF SlotType, Unused
<1>7. srv' \in [Slots -> SlotType] /\ srv'[k] = t /\ \A j \in Slots : j # k => srv'[j] = srv[j]
  BY <1>2, <1>4, <1>6 DEF Upd
<1> HIDE DEF t
<1>8. TailShapes'
  BY <1>1, <1>4, <1>7 DEF TailInv, TailShapes
<1>9. AtItsPlace(t, Open, log, Places, Readable)
  <2>1. log # NoLog => Len(log) \in Nat /\ Rank(Places, 0) = 0
    BY StreamShape, RankStep DEF TailInv
  <2>2. ~Open => client.lastId = 0
    BY DEF TailInv
  <2> QED
    BY <1>5, <1>6, <2>1, <2>2 DEF AtItsPlace, Holds, Writes
<1>10. InOrder(t, client.lastId, back, Stream)
  <2>1. ~Open => client.lastId = 0
    BY DEF TailInv
  <2>2. Reached(t, client.lastId) = client.lastId /\ Passed(t) = client.lastId
    BY <1>4, <1>6 DEF Reached, Writes, Passed
  <2> QED
    BY <1>4, <1>5, <1>6, <2>1, <2>2 DEF InOrder, Holds, Writes
<1>11. \A j \in Slots : ~srv[j].net
  BY <1>1, TailAssumption DEF TailInv
<1>12. \A j \in Slots : srv'[j].net => j = k
  BY <1>7, <1>11
<1> QED
  BY <1>1, <1>3, <1>4, <1>7, <1>8, <1>9, <1>10, <1>12 DEF TailInv

\* What reaches the client with the event that is being written: the next line, or a
\* place it has passed.
LEMMA EventArrives ==
  ASSUME TailInv, NEW k \in Slots, srv[k].handler = "write", srv[k].net
  PROVE  /\ Received(srv[k].out).conn = client.conn
         /\ Received(srv[k].out) = [conn |-> client.conn, lastId |-> Received(srv[k].out).lastId,
                                    got |-> Received(srv[k].out).got]
         /\ Received(srv[k].out).lastId \in Nat
         /\ Received(srv[k].out).lastId = Reached(srv[k], client.lastId)
         /\ Received(srv[k].out).got \in Seq(Range(Lines))
         /\ ~Open => Received(srv[k].out).lastId = 0
         /\ HasAll(Received(srv[k].out).got, Received(srv[k].out).lastId, back, Stream)
<1> DEFINE s == srv[k]
<1>1. /\ s \in SlotType /\ AtItsPlace(s, Open, log, Places, Readable) /\ back \in BOOLEAN
      /\ client.lastId \in Nat /\ client.got \in Seq(Range(Lines))
      /\ client = [conn |-> client.conn, lastId |-> client.lastId, got |-> client.got]
      /\ HasAll(client.got, client.lastId, back, Stream)
      /\ ~Open => client.lastId = 0
      /\ InOrder(s, client.lastId, back, Stream)
  BY DEF TailInv, TailShapes
<1>2. Stream \in Seq(Range(Lines)) /\ Len(Stream) \in Nat
  BY StreamShape DEF TailInv
<1>3. s.out \in LogEvents \/ s.out \in ErrorEvents \/ s.out = Keepalive
  BY <1>1 DEF AtItsPlace, Events
<1> HIDE DEF s
<1>4. CASE s.out \in LogEvents
  <2>1. Writes(s, LogEvents) /\ Writes(s, Events) /\ s.out.event = "log"
    BY <1>4 DEF Writes, LogEvents, Events, s
  <2>2. /\ s.out.id = client.lastId + 1 /\ s.out.id =< Len(Stream)
        /\ s.out.line = Stream[client.lastId + 1] /\ Open
    BY <1>1, <2>1 DEF InOrder, AtItsPlace
  <2>3. Received(s.out) = [conn |-> client.conn, lastId |-> client.lastId + 1,
                           got |-> Append(client.got, Stream[client.lastId + 1])]
    BY <1>1, <2>1, <2>2 DEF Received
  <2>4. HasAll(Append(client.got, Stream[client.lastId + 1]), client.lastId + 1, back, Stream)
    BY <1>1, <1>2, <2>2, NextLineArrives
  <2>5. Append(client.got, Stream[client.lastId + 1]) \in Seq(Range(Lines)) /\ client.lastId + 1 \in Nat
    BY <1>1, <1>2, <2>2
  <2>6. Reached(s, client.lastId) = client.lastId + 1
    BY <2>1, <2>2 DEF Reached
  <2> QED
    BY <2>2, <2>3, <2>4, <2>5, <2>6 DEF s
<1>5. CASE s.out \in ErrorEvents
  <2>1. /\ Writes(s, ErrorEvents) /\ Writes(s, Events) /\ s.out.event = "error" /\ s.out.id \in Nat
    BY <1>5 DEF Writes, ErrorEvents, Events, s
  <2>2. s.out.id =< client.lastId /\ (~back => s.out.id = client.lastId)
    BY <1>1, <2>1 DEF InOrder
  <2>3. Received(s.out) = [conn |-> client.conn, lastId |-> s.out.id, got |-> client.got]
    BY <1>1, <2>1 DEF Received
  <2>4. HasAll(client.got, s.out.id, back, Stream)
    BY <1>1, <1>2, <2>1, <2>2, SentBack
  <2>5. Reached(s, client.lastId) = s.out.id
    BY <2>1 DEF Reached
  <2> QED
    BY <1>1, <2>1, <2>2, <2>3, <2>4, <2>5 DEF s
<1>6. CASE s.out = Keepalive
  <2>1. s.out.event = "idle" /\ ~Writes(s, Events)
    BY <1>6 DEF Writes, Keepalive, LogEvents, ErrorEvents, Events
  <2>2. Received(s.out) = client /\ Reached(s, client.lastId) = client.lastId
    BY <2>1 DEF Received, Reached
  <2> QED
    BY <1>1, <2>2 DEF s
<1> QED
  BY <1>3, <1>4, <1>5, <1>6

\* An event that is written reaches the client of that connection only; on a connection
\* that is down it is lost.
LEMMA WriteKeeps ==
  ASSUME TailInv, NEW k \in Slots, Write(k)
  PROVE  TailInv'
<1> DEFINE s == srv[k]
<1>1. s.handler = "write" /\ UNCHANGED <<kind, log, committed, back>>
  BY DEF Write, WorldUnchanged
<1>2. /\ s \in SlotType /\ AtItsPlace(s, Open, log, Places, Readable) /\ back \in BOOLEAN
      /\ srv \in [Slots -> SlotType] /\ client.lastId \in Nat
  BY DEF TailInv, TailShapes
<1>3. s.net => client.conn = k /\ InOrder(s, client.lastId, back, Stream)
  BY DEF TailInv
<1>4. Stream' = Stream /\ Places' = Places /\ Readable' = Readable /\ Open' = Open
  BY <1>1, StreamUnchanged DEF Open
<1>5. CASE ~s.net
  <2>1. UNCHANGED client
    BY <1>5 DEF Write
  <2>2. PICK next \in {"select", "stop"} : Upd(k, [s EXCEPT !.handler = next, !.out = Nothing])
    BY <1>5 DEF Write
  <2> DEFINE t == [s EXCEPT !.handler = next, !.out = Nothing]
  <2>3. Upd(k, t)
    BY <2>2
  <2> HIDE DEF s
  <2>4. t \in SlotType /\ t.net = s.net
    BY <1>2, <2>2 DEF SlotType
  <2>5. AtItsPlace(t, Open, log, Places, Readable)
    BY <1>1, <1>2, <2>2 DEF SlotType, AtItsPlace, Holds, Writes
  <2> QED
    BY <1>1, <1>2, <1>5, <2>1, <2>3, <2>4, <2>5, SlotStep DEF s
<1>6. CASE s.net
  <2> DEFINE t == [s EXCEPT !.handler = "select", !.out = Nothing]
  <2>1. client' = Received(s.out) /\ Upd(k, t)
    BY <1>6 DEF Write
  <2>2. /\ client'.conn = client.conn
        /\ client' = [conn |-> client'.conn, lastId |-> client'.lastId, got |-> client'.got]
        /\ client'.lastId \in Nat /\ client'.lastId = Reached(s, client.lastId)
        /\ client'.got \in Seq(Range(Lines))
        /\ ~Open => client'.lastId = 0
        /\ HasAll(client'.got, client'.lastId, back, Stream)
    BY <1>1, <1>6, <2>1, EventArrives
  <2>3. client.conn = k /\ InOrder(s, client.lastId, back, Stream)
    BY <1>3, <1>6
  <2> HIDE DEF s
  <2>4. t \in SlotType /\ t.net = s.net
    BY <1>2 DEF SlotType
  <2>5. AtItsPlace(t, Open, log, Places, Readable)
    BY <1>1, <1>2 DEF SlotType, AtItsPlace, Holds, Writes
  <2>6. InOrder(t, client'.lastId, back, Stream)
    <3>1. /\ t.handler = "select" /\ t.reader = s.reader /\ t.held = s.held
          /\ t.index = s.index /\ t.lastId = s.lastId
      BY <1>2 DEF SlotType
    <3>2. Reached(t, client'.lastId) = Reached(s, client.lastId) /\ Passed(t) = Passed(s)
      BY <2>2, <3>1 DEF Reached, Passed, Writes
    <3> QED
      BY <2>3, <3>1, <3>2 DEF InOrder, Holds, Writes
  <2>7. srv' \in [Slots -> SlotType] /\ srv'[k] = t /\ \A j \in Slots : j # k => srv'[j] = srv[j]
    BY <1>2, <2>1, <2>4 DEF Upd
  <2> HIDE DEF t
  <2>8. TailShapes'
    BY <1>1, <2>2, <2>7 DEF TailInv, TailShapes
  <2>9. \A j \in Slots : srv[j].net => j = k
    BY <2>3 DEF TailInv
  <2>10. \A j \in Slots : srv'[j].net => j = k
    BY <2>7, <2>9
  <2>11. \A j \in Slots : AtItsPlace(srv'[j], Open, log, Places, Readable)
    BY <2>5, <2>7 DEF TailInv
  <2> QED
    BY <1>1, <1>4, <2>2, <2>3, <2>6, <2>7, <2>8, <2>10, <2>11 DEF TailInv
<1> QED
  BY <1>5, <1>6

\* A connection that ends, by the handler's return or because it breaks, is not the
\* client's any more; the client has what it had.
LEMMA ConnectionEnds ==
  ASSUME TailInv, NEW k \in Slots, Stop(k) \/ Break(k)
  PROVE  TailInv'
<1> DEFINE s == srv[k]
           t == IF Stop(k) THEN [s EXCEPT !.handler = "gone", !.done = TRUE, !.net = FALSE]
                ELSE [s EXCEPT !.net = FALSE]
<1>1. /\ UNCHANGED <<kind, log, committed, back>> /\ Upd(k, t)
      /\ Stop(k) => s.handler = "stop"
      /\ client' = [client EXCEPT !.conn = IF @ = k THEN Nothing ELSE @]
  BY DEF Stop, Break, WorldUnchanged
<1>2. /\ s \in SlotType /\ AtItsPlace(s, Open, log, Places, Readable) /\ srv \in [Slots -> SlotType]
      /\ client = [conn |-> client.conn, lastId |-> client.lastId, got |-> client.got]
  BY DEF TailInv, TailShapes
<1>3. Stream' = Stream /\ Places' = Places /\ Readable' = Readable /\ Open' = Open
  BY <1>1, StreamUnchanged DEF Open
<1>4. client' = [conn |-> IF client.conn = k THEN Nothing ELSE client.conn,
                 lastId |-> client.lastId, got |-> client.got]
  BY <1>1, <1>2
<1> HIDE DEF s
<1>5. /\ t \in SlotType /\ ~t.net /\ t.reader = s.reader /\ t.pos = s.pos /\ t.index = s.index
      /\ t.lastId = s.lastId /\ t.held = s.held /\ t.out = s.out
      /\ t.handler = "write" => s.handler = "write"
  BY <1>1, <1>2 DEF SlotType
<1> HIDE DEF t
<1>6. AtItsPlace(t, Open, log, Places, Readable)
  BY <1>2, <1>5 DEF AtItsPlace, Holds, Writes
<1>7. srv' \in [Slots -> SlotType] /\ srv'[k] = t /\ \A j \in Slots : j # k => srv'[j] = srv[j]
  BY <1>1, <1>2, <1>5 DEF Upd
<1>8. TailShapes'
  BY <1>1, <1>4, <1>7 DEF TailInv, TailShapes
<1>9. \A j \in Slots : AtItsPlace(srv'[j], Open, log, Places, Readable)
  BY <1>6, <1>7 DEF TailInv
<1>10. \A j \in Slots : srv'[j].net =>
         client'.conn = j /\ InOrder(srv'[j], client'.lastId, back, Stream)
  BY <1>4, <1>5, <1>7 DEF TailInv
<1> QED
  BY <1>1, <1>3, <1>4, <1>8, <1>9, <1>10 DEF TailInv

\* After a restart of the server no connection is left, and the client has what it had.
LEMMA CrashKeeps ==
  ASSUME TailInv, Crash
  PROVE  TailInv'
<1>1. /\ UNCHANGED <<kind, log, committed, back>> /\ srv' = [k \in Slots |-> Unused]
      /\ client' = [client EXCEPT !.conn = Nothing]
  BY DEF Crash, WorldUnchanged
<1>2. Stream' = Stream /\ Places' = Places /\ Readable' = Readable /\ Open' = Open
  BY <1>1, StreamUnchanged DEF Open
<1>3. client' = [conn |-> Nothing, lastId |-> client.lastId, got |-> client.got]
  BY <1>1 DEF TailInv, TailShapes
<1>4. srv' \in [Slots -> SlotType] /\ \A j \in Slots : srv'[j] = Unused
  BY <1>1, UnusedShape
<1>5. TailShapes'
  BY <1>1, <1>3, <1>4 DEF TailInv, TailShapes
<1>6. AtItsPlace(Unused, Open, log, Places, Readable)
  <2>1. log # NoLog => Len(log) \in Nat /\ Rank(Places, 0) = 0
    BY StreamShape, RankStep DEF TailInv
  <2> QED
    BY <2>1 DEF AtItsPlace, Unused, Holds, Writes
<1> QED
  BY <1>1, <1>2, <1>3, <1>4, <1>5, <1>6, UnusedShape DEF TailInv

\* A status that reaches the log leaves the numbers of the lines before it alone.
LEMMA AppendKeeps ==
  ASSUME TailInv, AppendStatus
  PROVE  TailInv'
<1> DEFINE n == IF log = NoLog THEN 0 ELSE Len(log)
           P == IF log = NoLog THEN {} ELSE Places
           Q == Places'
           R == IF log = NoLog THEN {} ELSE Readable
           lg == log'
<1>1. /\ n < Len(Lines) /\ UNCHANGED <<kind, committed, client, srv, back>>
      /\ lg = IF log = NoLog THEN <<Lines[1]>> ELSE Append(log, Lines[n + 1])
  BY DEF AppendStatus
<1>2. /\ Lines \in Seq(Range(Lines)) /\ n \in Nat /\ n + 1 \in 1..Len(Lines) /\ n + 1 \in 0..Len(Lines)
      /\ log # NoLog => log \in Seq(Range(Lines)) /\ Len(log) = n /\ DOMAIN log = 1..n
      /\ \A i \in 1..n : log[i] = Lines[i]
      /\ Among(P, n)
  BY <1>1, TailAssumption, StreamShape DEF TailInv, Among
<1>3. /\ SubSeq(Lines, 1, n + 1) \in Seq(Range(Lines)) /\ Len(SubSeq(Lines, 1, n + 1)) = n + 1
      /\ \A i \in 1..(n + 1) : SubSeq(Lines, 1, n + 1)[i] = Lines[i]
  BY <1>2, FirstLines
<1>4. /\ lg \in Seq(Range(Lines)) /\ Len(lg) = n + 1 /\ DOMAIN lg = 1..(n + 1)
      /\ \A i \in 1..(n + 1) : lg[i] = Lines[i]
  <2>1. Lines[n + 1] \in Range(Lines)
    BY <1>2
  <2>2. CASE log = NoLog
    <3>1. n = 0 /\ lg = <<Lines[n + 1]>>
      BY <1>1, <2>2
    <3> HIDE DEF n, lg
    <3> QED
      BY <2>1, <3>1
  <2>3. CASE log # NoLog
    <3>1. log \in Seq(Range(Lines)) /\ Len(log) = n /\ lg = Append(log, Lines[n + 1])
      BY <1>1, <1>2, <2>3
    <3> HIDE DEF n, lg
    <3> QED
      BY <1>2, <2>1, <3>1
  <2> QED
    BY <2>2, <2>3
<1>5. lg = SubSeq(Lines, 1, n + 1)
  <2> HIDE DEF n, lg
  <2> QED
    BY <1>3, <1>4, SeqEqual
<1>6. lg # NoLog
  BY <1>2, <1>5, TailAssumption
<1>6a. /\ Readable' = {i \in 1..(n + 1) : \A j \in 1..i : ~Unreadable(Lines[j])}
       /\ R = {i \in 1..n : \A j \in 1..i : ~Unreadable(Lines[j])}
  <2>1. \A j \in 1..(n + 1) : Unreadable(log[j])' <=> Unreadable(Lines[j])
    BY <1>1, <1>4 DEF Unreadable
  <2>2. \A i \in 1..(n + 1) : \A j \in 1..i : j \in 1..(n + 1)
    BY <1>2
  <2>3. Readable' = {i \in 1..(n + 1) : \A j \in 1..i : ~Unreadable(log[j])'}
    BY <1>4 DEF Readable
  <2>4. \A i \in 1..n : \A j \in 1..i : j \in 1..n
    BY <1>2
  <2>5. R = {i \in 1..n : \A j \in 1..i : ~Unreadable(Lines[j])}
    <3>1. CASE log = NoLog
      <4>1. n = 0 /\ 1..0 = {}
        BY <3>1
      <4> QED
        BY <3>1, <4>1
    <3>2. CASE log # NoLog
      <4>1. R = {i \in 1..n : \A j \in 1..i : ~Unreadable(log[j])}
        BY <1>2, <3>2 DEF Readable
      <4> HIDE DEF R, n
      <4> QED
        BY <1>2, <2>4, <4>1
    <3> QED
      BY <3>1, <3>2
  <2> HIDE DEF R, n
  <2> QED
    BY <2>1, <2>2, <2>3, <2>5
<1>6b. 1..(n + 1) = 1..n \cup {n + 1}
  BY <1>2
<1>6c. R \subseteq Readable' /\ Readable' \subseteq R \cup {n + 1} /\ R \subseteq 1..n
  <2> HIDE DEF R, n
  <2> QED
    BY <1>6a, <1>6b
<1>7. Among(Q, n + 1) /\ Grown(P, Q, n)
  <2>1. Q = {i \in Readable' : kind = "update" \/ Lines[i].uuid \in Effect}
    BY <1>1, <1>4, <1>6a DEF Places, Wanted
  <2>2. P = {i \in R : kind = "update" \/ Lines[i].uuid \in Effect}
    <3>1. \A i \in R : log[i] = Lines[i]
      BY <1>2, <1>6c
    <3> QED
      BY <3>1 DEF Places, Wanted
  <2> HIDE DEF P, Q, R, n
  <2> QED
    BY <1>2, <1>6a, <1>6b, <1>6c, <2>1, <2>2 DEF Among, Grown
<1>8. Stream' = Numbered(lg, Q) /\ Stream = Numbered(log, P)
  <2>1. Stream' = Numbered(lg, Q)
    BY <1>6 DEF Stream
  <2>2. CASE log = NoLog
    <3>1. Cardinality({}) = 0
      BY FS_EmptySet
    <3>2. Numbered(log, {}) = <<>>
      BY <3>1 DEF Numbered
    <3> QED
      BY <2>1, <2>2, <3>2 DEF Stream
  <2>3. CASE log # NoLog
    BY <2>1, <2>3 DEF Stream
  <2> QED
    BY <2>2, <2>3
<1>9. /\ \A i \in 0..n : Rank(Q, i) = Rank(P, i)
      /\ Cardinality(Q) \in Nat /\ Cardinality(P) =< Cardinality(Q)
      /\ \A i \in 1..Cardinality(P) : Numbered(lg, Q)[i] = Numbered(log, P)[i]
  <2>1. Agree(log, lg, n)
    BY <1>2, <1>4 DEF Agree
  <2>2. n \in Nat /\ Among(P, n)
    BY <1>2
  <2> HIDE DEF P, Q, n, lg
  <2> QED
    BY <1>7, <2>1, <2>2, NumberedGrows
<1>10. TailShapes'
  BY <1>1, <1>2, <1>5 DEF TailInv, TailShapes
<1>11. Stream' \in Seq(Range(Lines)) /\ Len(Stream') = Cardinality(Q)
  <2>1. Numbered(lg, Q) \in Seq(Range(Lines)) /\ Len(Numbered(lg, Q)) = Cardinality(Q)
    <3>1. n + 1 \in Nat /\ \A i \in 1..(n + 1) : lg[i] \in Range(Lines)
      BY <1>2, <1>4
    <3> HIDE DEF Q, n, lg
    <3> QED
      BY <1>7, <3>1, NumberedShape
  <2> QED
    BY <1>8, <2>1
<1>12. /\ Stream \in Seq(Range(Lines)) /\ Len(Stream) = Cardinality(P)
  <2>1. Cardinality({}) = 0
    BY FS_EmptySet
  <2> QED
    BY <2>1, StreamShape DEF TailInv
<1>13. Len(Stream) =< Len(Stream') /\ \A i \in 1..Len(Stream) : Stream'[i] = Stream[i]
  BY <1>8, <1>9, <1>11, <1>12
<1>14. Open => Open'
  BY <1>1, <1>6 DEF Open
<1>15. HasAll(client.got, client.lastId, back, Stream')
  BY <1>11, <1>12, <1>13, StreamGrows DEF TailInv, TailShapes
<1>16. ASSUME NEW k \in Slots
       PROVE  AtItsPlace(srv[k], Open', lg, Q, Readable')
  <2>1. /\ srv[k] \in SlotType /\ AtItsPlace(srv[k], Open, log, Places, Readable)
    BY DEF TailInv, TailShapes
  <2>2. srv[k].pos \in 0..n /\ srv[k].index = Rank(P, srv[k].pos)
    <3>1. CASE log = NoLog
      <4>1. srv[k].pos = 0 /\ srv[k].index = 0 /\ n = 0
        BY <2>1, <3>1 DEF AtItsPlace
      <4>2. Rank(P, 0) = 0
        <5> HIDE DEF P, n
        <5> QED
          BY <1>2, RankStep
      <4> QED
        BY <4>1, <4>2
    <3>2. CASE log # NoLog
      BY <1>2, <2>1, <3>2 DEF AtItsPlace, SlotType
    <3> QED
      BY <3>1, <3>2
  <2>3. srv[k].pos =< n + 1 /\ srv[k].index = Rank(Q, srv[k].pos)
    <3> HIDE DEF P, Q, n
    <3> QED
      BY <1>2, <1>9, <2>2
  <2>4. 1..srv[k].pos \subseteq Readable'
    <3>1. CASE log = NoLog
      <4>1. srv[k].pos = 0 /\ 1..0 = {}
        BY <2>1, <3>1 DEF AtItsPlace
      <4> QED
        BY <4>1
    <3>2. CASE log # NoLog
      BY <1>6c, <2>1, <3>2 DEF AtItsPlace
    <3> QED
      BY <3>1, <3>2
  <2> HIDE DEF lg, Q, n
  <2> QED
    BY <1>4, <1>6, <1>14, <2>1, <2>3, <2>4 DEF AtItsPlace
<1>17. ASSUME NEW k \in Slots, srv[k].net
       PROVE  client.conn = k /\ InOrder(srv[k], client.lastId, back, Stream')
  <2>1. /\ srv[k] \in SlotType /\ AtItsPlace(srv[k], Open, log, Places, Readable)
        /\ client.conn = k /\ InOrder(srv[k], client.lastId, back, Stream) /\ client.lastId \in Nat
    BY <1>17 DEF TailInv, TailShapes
  <2>2. Len(Stream) \in Nat /\ Len(Stream') \in Nat
    BY <1>11, <1>12
  <2> QED
    BY <1>13, <2>1, <2>2, OrderGrows
<1> QED
  BY <1>1, <1>10, <1>14, <1>15, <1>16, <1>17 DEF TailInv

\* Committing the rollout opens its stream; until then nobody had anything of it.
LEMMA CommitKeeps ==
  ASSUME TailInv, CommitRollout
  PROVE  TailInv'
<1>1. UNCHANGED <<kind, log, client, srv, back>> /\ committed' = TRUE
  BY DEF CommitRollout
<1>2. Stream' = Stream /\ Places' = Places /\ Readable' = Readable /\ (Open => Open')
  BY <1>1, StreamUnchanged DEF Open
<1>3. TailShapes'
  BY <1>1 DEF TailInv, TailShapes
<1>4. \A k \in Slots : AtItsPlace(srv[k], Open', log, Places, Readable)
  BY <1>2 DEF TailInv, AtItsPlace
<1> QED
  BY <1>1, <1>2, <1>3, <1>4 DEF TailInv

\* The inductive invariant holds when the server starts and after every step.
THEOREM TailInvariant == TailSpec => []TailInv
<1>1. TailInit => TailInv
  <2>1. SUFFICES ASSUME TailInit PROVE TailInv
    OBVIOUS
  <2>2. Lines \in Seq(Range(Lines)) /\ 0 \in 0..Len(Lines)
    BY TailAssumption
  <2>3. SubSeq(Lines, 1, 0) = <<>>
    BY <2>2
  <2>4. TailShapes
    <3>1. srv \in [Slots -> SlotType]
      BY <2>1, UnusedShape DEF TailInit
    <3>2. /\ client = [conn |-> client.conn, lastId |-> client.lastId, got |-> client.got]
          /\ client.conn \in Slots \cup {Nothing} /\ client.lastId \in Nat
          /\ client.got \in Seq(Range(Lines))
      BY <2>1 DEF TailInit
    <3>3. log # NoLog => \E n \in 0..Len(Lines) : log = SubSeq(Lines, 1, n)
      BY <2>1, <2>2, <2>3 DEF TailInit
    <3> QED
      BY <2>1, <3>1, <3>2, <3>3 DEF TailInit, TailShapes
  <2>5. Stream = <<>>
    <3>1. CASE log = NoLog
      BY <3>1 DEF Stream
    <3>2. CASE log # NoLog
      <4>1. Places = {}
        BY <2>1, <3>2 DEF TailInit, Places, Readable
      <4>2. Len(Stream) = 0 /\ Stream \in Seq(Range(Lines))
        BY <2>4, <3>2, <4>1, StreamShape, FS_EmptySet
      <4> QED
        BY <4>2
    <3> QED
      BY <3>1, <3>2
  <2>6. HasAll(client.got, client.lastId, back, Stream)
    <3>1. client.got = <<>> /\ client.lastId = 0
      BY <2>1 DEF TailInit
    <3>2. Len(Stream) = 0 /\ SubSeq(Stream, 1, 0) = client.got /\ 0 \in 0..Len(Stream)
      BY <2>5, <3>1
    <3>3. Range(client.got) = Range(SubSeq(Stream, 1, 0)) /\ client.lastId =< 0
      <4>1. SubSeq(Stream, 1, 0) = client.got
        BY <3>2
      <4>2. Range(client.got) = Range(SubSeq(Stream, 1, 0))
        BY <4>1, Zenon
      <4> QED
        BY <3>1, <4>2
    <3>4. \E n \in 0..Len(Stream) : Range(client.got) = Range(SubSeq(Stream, 1, n)) /\ client.lastId =< n
      BY <3>2, <3>3
    <3> QED
      BY <3>1, <3>2, <3>4 DEF HasAll
  <2>7. AtItsPlace(Unused, Open, log, Places, Readable)
    <3>1. log # NoLog => Len(log) \in Nat /\ Rank(Places, 0) = 0
      BY <2>4, StreamShape, RankStep
    <3> QED
      BY <3>1 DEF AtItsPlace, Unused, Holds, Writes
  <2> QED
    BY <2>1, <2>4, <2>6, <2>7, UnusedShape DEF TailInit, TailInv
<1>2. TailInv /\ [TailNext]_tailVars => TailInv'
  <2>1. SUFFICES ASSUME TailInv, [TailNext]_tailVars PROVE TailInv'
    OBVIOUS
  <2>2. CASE UNCHANGED tailVars
    <3>1. /\ UNCHANGED <<kind, log, committed, client, srv, back>>
          /\ Stream' = Stream /\ Places' = Places /\ Readable' = Readable /\ Open' = Open
      BY <2>2, StreamUnchanged DEF tailVars, Open
    <3> QED
      BY <2>1, <3>1 DEF TailInv, TailShapes
  <2>3. ASSUME NEW k \in Slots,
               \/ Connect(k) \/ Break(k) \/ ReadFails(k) \/ Idle(k)
               \/ ReaderStep(k) \/ HandlerStep(k)
        PROVE  TailInv'
    BY <2>1, <2>3, ConnectKeeps, ConnectionEnds, InterruptKeeps, QuietSteps, ReadKeeps, WriteKeeps
    DEF ReaderStep, HandlerStep, ReadStuck, ReadFails
  <2>4. CASE AppendStatus \/ CommitRollout \/ Crash
    BY <2>1, <2>4, AppendKeeps, CommitKeeps, CrashKeeps
  <2> QED
    BY <2>1, <2>2, <2>3, <2>4 DEF TailNext
<1> QED
  BY <1>1, <1>2, PTL DEF TailSpec

\* However often the connection breaks, the server restarts or reading fails, the client
\* has every line of the stream before the last one it has, and none twice unless an
\* error has sent it back (streamUpdateLogs, keepaliveReader, parseLastEventId): for any
\* number of connections, lines and faults.
THEOREM TailIsExact == TailSpec => []TailExact
<1>1. TailInv => TailExact
  <2>1. SUFFICES ASSUME TailInv PROVE TailExact
    OBVIOUS
  <2>2. HasAll(client.got, client.lastId, back, Stream) /\ client.lastId \in Nat
    BY <2>1 DEF TailInv, TailShapes
  <2>3. Stream \in Seq(Range(Lines))
    BY <2>1, StreamShape DEF TailInv
  <2>4. ASSUME ~back
        PROVE  IsPrefix(client.got, Stream) /\ client.lastId = Len(client.got)
    <3>1. client.lastId \in 0..Len(Stream) /\ client.got = SubSeq(Stream, 1, client.lastId)
      BY <2>2, <2>3, <2>4 DEF HasAll
    <3>2. client.got \in Seq(Range(Lines)) /\ Len(client.got) = client.lastId
      BY <2>3, <3>1, FirstLines
    <3>3. SubSeq(client.got, 1, Len(client.got)) = client.got
      BY <3>2
    <3> QED
      BY <2>3, <3>1, <3>2, <3>3 DEF IsPrefix
  <2> QED
    BY <2>2, <2>4 DEF TailExact, HasAll
<1> QED
  BY <1>1, TailInvariant, PTL

=============================================================================
