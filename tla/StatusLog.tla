------------------------------ MODULE StatusLog ------------------------------
(***************************************************************************)
(* What the server makes of the events of devices: the status an event     *)
(* gives (storage.DeviceUpdateEvent.ParseStatus), and the reports over the  *)
(* lines of an update's rollouts log (storage/api/api_storage_update.go).   *)
(*                                                                         *)
(* An event is [id, success, target, ...], a line of the log               *)
(* [uuid, target, status], a status the pair of a name and a result: the    *)
(* wording is left out.  A log is a sequence of lines, or NoLog.            *)
(***************************************************************************)
EXTENDS Naturals, Sequences, FiniteSets, SequencesExt, Functions

CONSTANTS
  NoLog,     \* the file does not exist
  NoTarget,  \* an event without a target name
  NoTargets  \* the update has no targets metadata: nil

\* The event types that are known, and those that report a result.
evtIdToStatus ==
  {"MetadataUpdateCompleted", "EcuDownloadStarted", "EcuDownloadCompleted",
   "EcuInstallationStarted", "EcuInstallationApplied", "EcuInstallationCompleted",
   "CertRotationStarted", "CertRotationCompleted"}

WithResult ==
  {"EcuDownloadCompleted", "EcuInstallationCompleted",
   "CertRotationCompleted", "MetadataUpdateCompleted"}

ParseStatus(e) ==
  [name   |-> IF e.id \in evtIdToStatus THEN e.id ELSE "Unknown event type",
   result |-> IF e.id \in WithResult THEN e.success ELSE "no result"]

Installation(result) == [name |-> "EcuInstallationCompleted", result |-> result]
installationFailedState == Installation("failed")
installationSucceededState == Installation("succeeded")
MissingState == [name |-> "Missing", result |-> "no result"]
RolledBackState == [name |-> "Rolled back", result |-> "no result"]

-----------------------------------------------------------------------------
\* The targets an update installs: of those with its tag, the latest version of
\* every hardware id.  meta: the targets of targets.json, or NoTargets.  Two
\* targets of one version for one hardware id make the code pick either.
latestUpdateTargets(meta, tag) ==
  LET Candidate(t) == tag \in t.tags
      Latest(t) == \E hw \in t.hardwareIds :
                     \A o \in meta : Candidate(o) /\ hw \in o.hardwareIds
                                       => o.version =< t.version
  IN  IF meta = NoTargets \/ ~\E t \in meta : Candidate(t) /\ t.hardwareIds # {}
      THEN NoTargets
      ELSE {t.name : t \in {x \in meta : Candidate(x) /\ Latest(x)}}

Foreign(line, targets) ==
  targets # NoTargets /\ line.target # NoTarget /\ line.target \notin targets

\* Mutant: a later event of another target counts as one of this update.
EveryTarget(acc, line, targets) ==
  [acc EXCEPT !.last = [@ EXCEPT ![line.uuid] = line.status],
              !.failed = [@ EXCEPT ![line.uuid] = line.status = installationFailedState]]

\* One line of the log: the body of the loop of lastKnownStates.
NextState(acc, line, targets) ==
  IF Foreign(line, targets)
  THEN IF acc.failed[line.uuid] /\ line.status = installationSucceededState
       THEN [acc EXCEPT !.last[line.uuid] = RolledBackState]
       ELSE acc
  ELSE [last   |-> [acc.last EXCEPT ![line.uuid] = line.status],
        failed |-> [acc.failed EXCEPT ![line.uuid] = line.status = installationFailedState]]

\* The loop of lastKnownStates: what it has after each line.  Lines of devices that
\* are not in the filter are passed over.
StatesAfter(log, targets, filter) ==
  LET state[i \in 0 .. Len(log)] ==
        IF i = 0
        THEN [last |-> [d \in filter |-> MissingState], failed |-> [d \in filter |-> FALSE]]
        ELSE IF log[i].uuid \in filter THEN NextState(state[i - 1], log[i], targets)
        ELSE state[i - 1]
  IN  state

\* The last state of every device of the filter that the log tells of.  The
\* result is a function on these devices.
lastKnownStates(log, targets, filter) ==
  LET last == StatesAfter(log, targets, filter)[Len(log)].last
  IN  Restrict(last, {d \in filter : last[d] # MissingState})

\* The number of devices in each state.  With a filter (a rollout's effect)
\* devices without a line are Missing; without a log the report is empty.
updateSummary(log, targets, filter) ==
  LET last    == lastKnownStates(log, targets, filter)
      missing == filter \ DOMAIN last
      states  == Range(last) \cup IF missing = {} THEN {} ELSE {MissingState}
  IN  IF log = NoLog THEN <<>>
      ELSE [s \in states |-> IF s = MissingState THEN Cardinality(missing)
                             ELSE Cardinality({d \in DOMAIN last : last[d] = s})]

\* The report of an update looks at every device and never at missing ones; that
\* of a rollout at the devices it took effect on.
UpdateSummary(log, targets, devices) ==
  LET sum == updateSummary(log, targets, devices)
  IN  Restrict(sum, DOMAIN sum \ {MissingState})

RolloutSummary(log, targets, rollout) == updateSummary(log, targets, rollout.effect)

\* The devices of the filter in a state.
updateStateFor(log, targets, state, filter) ==
  LET last == lastKnownStates(log, targets, filter)
  IN  IF log = NoLog THEN {}
      ELSE IF state = MissingState THEN filter \ DOMAIN last
      ELSE {d \in DOMAIN last : last[d] = state}

UpdateStateFor(log, targets, state, devices) ==
  IF state = MissingState THEN {} ELSE updateStateFor(log, targets, state, devices)

RolloutStateFor(log, targets, state, rollout) ==
  updateStateFor(log, targets, state, rollout.effect)

-----------------------------------------------------------------------------
\* What the report should say of device d, without the loop: the last line about
\* this update's targets, unless that is a failed installation after which the
\* device installed something else.
Reported(log, targets, d) ==
  LET own == {i \in DOMAIN log : log[i].uuid = d /\ ~Foreign(log[i], targets)}
      i   == CHOOSE k \in own : \A j \in own : j =< k
  IN  IF own = {} THEN MissingState
      ELSE IF /\ log[i].status = installationFailedState
              /\ \E j \in DOMAIN log :
                   /\ j > i /\ log[j].uuid = d
                   /\ log[j].status = installationSucceededState
           THEN RolledBackState
           ELSE log[i].status

\* The report of a rollout gives every device the state its lines call for.
ReportRight(log, targets, rollout) ==
  log # NoLog =>
    \A d \in rollout.effect :
      d \in RolloutStateFor(log, targets, Reported(log, targets, d), rollout)

Total(counts) == FoldFunction(+, 0, counts)

\* The counts add up to the devices of the rollout, each in one state, and the
\* update's own report counts no device less.
CountsAddUp(log, targets, rollout, devices) ==
  LET sum == RolloutSummary(log, targets, rollout)
      all == UpdateSummary(log, targets, devices)
  IN  log # NoLog =>
        /\ Total(sum) = Cardinality(rollout.effect)
        /\ \A s \in DOMAIN sum :
             /\ sum[s] = Cardinality(RolloutStateFor(log, targets, s, rollout))
             /\ s = MissingState \/ (s \in DOMAIN all /\ all[s] >= sum[s])
        /\ \A s \in DOMAIN all :
             all[s] = Cardinality(UpdateStateFor(log, targets, s, devices))
=============================================================================
