--------------------------- MODULE ConfigDelivery ---------------------------
(***************************************************************************)
(* How a change of the configuration reaches a device.                     *)
(*                                                                         *)
(* The factory, every group and the device have a config each: a set of    *)
(* files with the second of its save.  The API, the web UI, the command    *)
(* line client and the device itself change them, the last three by reading*)
(* a config, editing it and writing it back.  A device polls GET /config:  *)
(* the gateway reads the device's row and then the three configs one after *)
(* another, merges them, and answers 304 unless something is newer than the*)
(* Date of the answer the device got last.                                 *)
(*                                                                         *)
(* A directory's journal and purge are in ConfigHistory: here each         *)
(* directory is its latest entry, and whether that entry's file is there.  *)
(***************************************************************************)
EXTENDS Integers, FiniteSets, FiniteSetsExt

CONSTANTS
  Groups,         \* group names
  NoGroup,        \* the device is in no group
  Changes,        \* the requests that change a config
  Scenarios,      \* bound: the sets of requests that come in one behaviour, once each
  Archives,       \* contents of archives that may be uploaded
  Sota,           \* z-50-fioctl.toml, whose value maps keys to values
  PatchNames,     \* the files a device may set
  BadToml,        \* a value of the sota override that does not parse
  NoFiles,        \* a config saved without a file set: JSON null
  NoValue,        \* no answer yet, no value of a key
  MaxTime,        \* bound: seconds
  MaxOverlap,     \* bound: requests in progress at a time
  MaxEvents       \* bound: changes of the device's group, uploads, failed saves and
                  \* reads, lost answers of one behaviour

Levels == {"factory", "device"} \cup Groups
ClientKinds == {"edit", "remove", "set", "updates"}

\* The value of the sota override is itself a table, unless it does not parse: any
\* string is accepted.
IsTable(f) == f = [x \in DOMAIN f |-> f[x]]
WellFormed(files) ==
  files # NoFiles /\ Sota \in DOMAIN files =>
    IF files[Sota] = BadToml THEN TRUE ELSE IsTable(files[Sota])

\* The requests, archives and bounds are what their names say.
ValidConstants ==
  /\ {NoGroup, "factory", "device"} \cap Groups = {}
  /\ \A q \in Changes :
       /\ q.kind \in ClientKinds \cup {"put", "patch"} /\ q.level \in Levels
       /\ WellFormed(q.files) /\ (q.kind # "put" => q.files # NoFiles)
  /\ Scenarios \subseteq SUBSET Changes
  /\ \A a \in Archives :
       /\ a = [l \in Levels |-> a[l]]
       /\ \A l \in Levels : WellFormed(a[l].files) /\ a[l].at \in Nat
  /\ {MaxTime, MaxOverlap, MaxEvents} \subseteq Nat

ASSUME DeliveryAssumption == ValidConstants

VARIABLES
  latest,   \* of each level: its files and when they were saved
  gone,     \* config files deleted by failed saves or uploads: levels and their files
  row,      \* of the device: its group, and when that changed
  now,      \* the server's clock, in seconds
  place,    \* where each request is
  body,     \* the files it saves
  stamp,    \* the time it puts into the journal
  poll,     \* the GET /config in progress
  device,   \* the files the device has, and the Date of the answer they came in
  applied,  \* config-applied of the device
  late,     \* auxiliary: see MakesLate
  events    \* auxiliary: how many of those there have been

deliveryVars == <<latest, gone, row, now, place, body, stamp, poll, device, applied, late, events>>
requestVars == <<place, body, stamp>>
deviceVars == <<poll, device, applied>>

\* There is no config yet: it was never saved, the clock being past the first second.
NoConfig == [files |-> NoFiles, at |-> 0]

NoPoll == [pc |-> "idle", row |-> [group |-> NoGroup, at |-> 0],
           got |-> <<NoConfig, NoConfig, NoConfig>>, passed |-> {}]

DeliveryInit ==
  /\ latest = [l \in Levels |-> NoConfig]
  /\ gone = {}
  /\ row \in {[group |-> NoGroup, at |-> 0]} \cup [group : Groups, at : {1}]
  /\ now = 1
  /\ \E S \in Scenarios : place = [q \in Changes |-> IF q \in S THEN "idle" ELSE "done"]
  /\ body = [q \in Changes |-> NoFiles]
  /\ stamp = [q \in Changes |-> 0]
  /\ poll = NoPoll
  /\ device = [files |-> NoValue, since |-> 0]
  /\ applied = NoValue
  /\ late = FALSE
  /\ events = 0

Event == events < MaxEvents /\ events' = events + 1

\* One more request may begin.
MayBegin == Cardinality({q \in Changes : place[q] \in {"send", "write", "append"}}) < MaxOverlap

Tick ==
  /\ now < MaxTime
  /\ now' = now + 1
  /\ UNCHANGED <<latest, gone, row, place, body, stamp, deviceVars, late, events>>

-----------------------------------------------------------------------------
(* What the device is to have *)

\* What f says, and otherwise what g says.
Over(f, g) == [x \in DOMAIN f \cup DOMAIN g |-> IF x \in DOMAIN f THEN f[x] ELSE g[x]]

\* Mutant: a level's sota override replaces the one below it.
AddLevelReplaces(files, cfg) ==
  IF cfg.files = NoFiles THEN files ELSE Over(cfg.files, files)

\* The files of one level laid over those of the levels below it; of the sota
\* override, key by key.
AddLevel(files, cfg) ==
  IF cfg.files = NoFiles THEN files
  ELSE [n \in DOMAIN files \cup DOMAIN cfg.files |->
          IF n \notin DOMAIN cfg.files THEN files[n]
          ELSE IF n = Sota /\ n \in DOMAIN files THEN Over(cfg.files[n], files[n])
          ELSE cfg.files[n]]

\* The sota override of one of the configs does not parse.
Broken(cfgs) ==
  \E i \in 1..3 : /\ cfgs[i].files # NoFiles
                  /\ Sota \in DOMAIN cfgs[i].files /\ cfgs[i].files[Sota] = BadToml

MergeLevels(cfgs) == AddLevel(AddLevel(AddLevel(<<>>, cfgs[1]), cfgs[2]), cfgs[3])

\* The time of the last change.
LatestOf(groupAt, cfgs) == Max({groupAt} \cup {cfgs[i].at : i \in 1..3})

\* The configs that a device of group g gets.
ConfigsOf(all, g) ==
  <<all["factory"], IF g = NoGroup THEN NoConfig ELSE all[g], all["device"]>>
CurrentConfigs == ConfigsOf(latest, row.group)

\* The journal's last line names a file that is gone: whoever reads the config fails.
Unreadable(l) ==
  l # NoGroup /\ latest[l] # NoConfig /\ <<l, latest[l].files>> \in gone

-----------------------------------------------------------------------------
(* Requests that change a config *)

ReadConfig(l) == latest[l].files

\* Groups with a device or a directory.
KnownGroups == {row.group} \cup {g \in Groups : latest[g] # NoConfig}

\* A group that is not known is not found.
Found(l) == l \notin Groups \/ l \in KnownGroups

Files(base) == IF base = NoFiles THEN <<>> ELSE base

(* What the web UI and the command line client make of the config they fetched. *)

EditFile(files, base) == Over(files, Files(base))

RemoveFile(names, base) == [n \in DOMAIN Files(base) \ names |-> Files(base)[n]]

SetConfigs(files, base) == Over(files, Files(base))

SotaOf(base) == IF Sota \in DOMAIN Files(base) THEN Files(base)[Sota] ELSE <<>>

\* Sets keys of the sota override, or removes those that are given NoValue.
SetUpdates(keys, base) ==
  LET new == Over(keys, SotaOf(base))
      kept == [k \in {i \in DOMAIN new : new[i] # NoValue} |-> new[k]]
  IN  Over([n \in {Sota} |-> kept], Files(base))

Edited(q, base) ==
  CASE q.kind = "edit" -> EditFile(q.files, base)
    [] q.kind = "remove" -> RemoveFile(DOMAIN q.files, base)
    [] q.kind = "set" -> SetConfigs(q.files, base)
    [] q.kind = "updates" -> SetUpdates(q.files[Sota], base)

\* The web UI does not write when there is nothing to remove from, the command line
\* client not when the sota override stays the same.
NothingToSend(q, base) ==
  \/ q.kind = "remove" /\ base = NoFiles
  \/ q.kind = "updates" /\ SotaOf(Edited(q, base)) = SotaOf(base)

Ends(q, how) ==
  /\ place' = [place EXCEPT ![q] = how]
  /\ body' = [body EXCEPT ![q] = NoFiles]
  /\ stamp' = [stamp EXCEPT ![q] = 0]

Saves(q, files) ==
  /\ place' = [place EXCEPT ![q] = "write"]
  /\ body' = [body EXCEPT ![q] = files]
  /\ UNCHANGED stamp

\* The command line client parses the sota override that it is to change.
Unparsed(q, base) == q.kind = "updates" /\ SotaOf(base) = BadToml

\* A client that edits: GET, then PUT.
Fetch(q) ==
  /\ place[q] = "idle" /\ q.kind \in ClientKinds /\ MayBegin
  /\ LET base == ReadConfig(q.level)
     IN  IF ~Found(q.level) \/ Unreadable(q.level) \/ Unparsed(q, base) THEN Ends(q, "failed")
         ELSE IF NothingToSend(q, base) THEN Ends(q, "done")
         ELSE /\ body' = [body EXCEPT ![q] = Edited(q, base)]
              /\ place' = [place EXCEPT ![q] = "send"]
              /\ UNCHANGED stamp
  /\ UNCHANGED <<latest, gone, row, now, deviceVars, late, events>>

\* Without a file set the factory gets an empty one, a group or the device JSON null.
\* The factory may not have a sota override.
Content(q, files) == IF q.level = "factory" THEN Files(files) ELSE files
Refused(q, files) == q.level = "factory" /\ Sota \in DOMAIN Files(files)

\* PUT reads the config it replaces: a body that changes nothing is not saved.
Put(q) ==
  LET sent == IF q.kind = "put" THEN q.files ELSE body[q]
      files == Content(q, sent)
  IN  /\ \/ place[q] = "idle" /\ q.kind = "put" /\ MayBegin
         \/ place[q] = "send"
      /\ IF Refused(q, sent) \/ Unreadable(q.level) THEN Ends(q, "failed")
         ELSE IF latest[q.level] # NoConfig /\ files = latest[q.level].files THEN Ends(q, "done")
         ELSE Saves(q, files)
      /\ UNCHANGED <<latest, gone, row, now, deviceVars, late, events>>

GetDeviceConfig == IF latest["device"] = NoConfig THEN <<>> ELSE latest["device"].files

\* PATCH from the device, of the config it has been given: of JSON null there is no map
\* to set a file in, and the handler panics.
Patch(q) ==
  LET old == GetDeviceConfig
  IN  /\ place[q] = "idle" /\ q.kind = "patch" /\ MayBegin
      /\ IF \/ ~(DOMAIN q.files \subseteq PatchNames) \/ q.files = <<>>
            \/ Unreadable("device") \/ old = NoFiles
           THEN Ends(q, "failed")
           ELSE Saves(q, Over(q.files, old))
      /\ UNCHANGED <<latest, gone, row, now, deviceVars, late, events>>

\* writeConfig writes the file, looks at the clock...
Stamp(q) ==
  /\ place[q] = "write"
  /\ stamp' = [stamp EXCEPT ![q] = now]
  /\ place' = [place EXCEPT ![q] = "append"]
  /\ gone' = gone \ {<<q.level, body[q]>>}
  /\ UNCHANGED <<latest, row, now, body, deviceVars, late, events>>

WriteFails(q) ==
  /\ place[q] = "write"
  /\ Ends(q, "failed")
  /\ Event
  /\ UNCHANGED <<latest, gone, row, now, deviceVars, late>>

-----------------------------------------------------------------------------
(* Auxiliary: a change that the device's next poll may take for an old one. *)

Reads == <<"factory", "group", "device">>
Position(l) == CASE l = "factory" -> 1 [] l = "device" -> 3 [] OTHER -> 2

\* The running poll is past the place where it would have seen a change of level l.
PollPassed(l) ==
  /\ poll.pc # "idle"
  /\ IF poll.pc = "answer" THEN TRUE
     ELSE Position(l) < (CHOOSE i \in 1..3 : Reads[i] = poll.pc)

\* A change dated t comes too late for the device if t is not after the Date that the
\* device has, or not after the one that a poll which does not see it will answer with.
MakesLate(passed, t) ==
  /\ late' = (late \/ t =< device.since)
  /\ poll' = [poll EXCEPT !.passed = IF passed THEN @ \cup {t} ELSE @]

-----------------------------------------------------------------------------
\* The line is in the journal: from now on this is the current config.
Appended(q) ==
  /\ latest' = [latest EXCEPT ![q.level] = [files |-> body[q], at |-> stamp[q]]]
  /\ MakesLate(PollPassed(q.level), stamp[q])

\* ...and appends to the journal.
AppendConfig(q) ==
  /\ place[q] = "append"
  /\ Appended(q)
  /\ Ends(q, "done")
  /\ UNCHANGED <<gone, row, now, device, applied, events>>

\* The append fails, before or after the line is in the journal: the file is deleted,
\* and an error of that deletion is ignored.
SaveFails(q) ==
  /\ place[q] = "append"
  /\ Appended(q) \/ UNCHANGED <<latest, poll, late>>
  /\ gone' = gone \cup {<<q.level, body[q]>>} \/ UNCHANGED gone
  /\ Ends(q, "failed")
  /\ Event
  /\ UNCHANGED <<row, now, device, applied>>

\* The row after its group changed: the trigger notes the time.
InGroup(g) == [group |-> g, at |-> now]

\* PATCH of the labels, with another group.
Move(g) ==
  /\ g # row.group
  /\ Event
  /\ row' = InGroup(g)
  /\ MakesLate(poll.pc # "idle", now)
  /\ UNCHANGED <<latest, gone, now, requestVars, device, applied>>

\* An archive replaces all configs, with the times its journals have, and takes away
\* the files that saves have written and not yet put into a journal.  (A poll that is
\* running may have read some of both.)
Upload(a) ==
  /\ Event
  /\ latest' = a
  /\ gone' = {<<q.level, body[q]>> :
                q \in {r \in Changes : place[r] = "append" /\ body[r] # a[r.level].files}}
  /\ late' = (late \/ LatestOf(row.at, ConfigsOf(a, row.group)) =< device.since)
  /\ poll' = [poll EXCEPT !.passed = IF poll.pc = "idle" THEN @ ELSE {0}]
  /\ UNCHANGED <<row, now, requestVars, device, applied>>

-----------------------------------------------------------------------------
(* GET /config *)

\* authDevice reads the row...
PollStart ==
  /\ poll.pc = "idle"
  /\ poll' = [NoPoll EXCEPT !.pc = "factory", !.row = row]
  /\ UNCHANGED <<latest, gone, row, now, requestVars, device, applied, late, events>>

\* ...GetConfigs the configs, in this order; a file that is gone makes it a 500.
PollRead ==
  /\ poll.pc \in {"factory", "group", "device"}
  /\ LET i == CHOOSE n \in 1..3 : Reads[n] = poll.pc
     IN  IF Unreadable(<<"factory", poll.row.group, "device">>[i]) THEN poll' = NoPoll
         ELSE poll' = [poll EXCEPT !.got[i] = ConfigsOf(latest, poll.row.group)[i],
                                   !.pc = IF i = 3 THEN "answer" ELSE Reads[i + 1]]
  /\ UNCHANGED <<latest, gone, row, now, requestVars, device, applied, late, events>>

\* A read fails, the process dies: the device gets no answer.
PollFails ==
  /\ poll.pc # "idle"
  /\ poll' = NoPoll
  /\ Event
  /\ UNCHANGED <<latest, gone, row, now, requestVars, device, applied, late>>

\* Mutant: only the device's own config is compared with what the device has.
NotModifiedOwn(ts) ==
  device.files # NoValue /\ poll.got[3].at =< device.since

\* The device has this already: its If-Modified-Since is the Date of its last answer.
NotModified(ts) == device.files # NoValue /\ ts =< device.since

\* 204 or 304: the device keeps what it has.
PollUnchanged ==
  /\ poll.pc = "answer"
  /\ LET ts == LatestOf(poll.row.at, poll.got) IN ts = 0 \/ NotModified(ts)
  /\ poll' = NoPoll
  /\ UNCHANGED <<latest, gone, row, now, requestVars, device, applied, late, events>>

\* 500: a sota override that does not parse cannot be merged.
PollRefused ==
  /\ poll.pc = "answer"
  /\ LET ts == LatestOf(poll.row.at, poll.got) IN ts # 0 /\ ~NotModified(ts)
  /\ Broken(poll.got)
  /\ poll' = NoPoll
  /\ UNCHANGED <<latest, gone, row, now, requestVars, device, applied, late, events>>

\* 200: config-applied is written (a failure is logged), the answer sent or lost.
PollSends ==
  LET ts == LatestOf(poll.row.at, poll.got)
      files == MergeLevels(poll.got)
      Noted == applied' = files
      Arrives == /\ device' = [files |-> files, since |-> ts]
                 /\ late' = \E t \in poll.passed : t =< ts
  IN  /\ poll.pc = "answer"
      /\ ts # 0 /\ ~NotModified(ts) /\ ~Broken(poll.got)
      /\ \/ Noted /\ Arrives /\ UNCHANGED events
         \/ Noted /\ Event /\ UNCHANGED <<device, late>>
         \/ Arrives /\ Event /\ UNCHANGED applied
      /\ poll' = NoPoll
      /\ UNCHANGED <<latest, gone, row, now, requestVars>>

-----------------------------------------------------------------------------
Change(q) ==
  \/ Fetch(q) \/ Put(q) \/ Patch(q)
  \/ Stamp(q) \/ WriteFails(q) \/ AppendConfig(q) \/ SaveFails(q)

Poll == PollStart \/ PollRead \/ PollUnchanged \/ PollRefused \/ PollSends

DeliveryNext ==
  \/ Tick
  \/ \E q \in Changes : Change(q)
  \/ \E g \in Groups \cup {NoGroup} : Move(g)
  \/ \E a \in Archives : Upload(a)
  \/ Poll \/ PollFails

\* A device keeps polling.
DeliverySpec == DeliveryInit /\ [][DeliveryNext]_deliveryVars /\ WF_deliveryVars(Poll)

-----------------------------------------------------------------------------
(* Properties *)

\* What the device is to have, without the order of merging: of each file the one of
\* the highest level that has it, of the sota override each key likewise.
ToHave ==
  LET files(i) == Files(CurrentConfigs[i].files)
      keys(i)  == SotaOf(files(i))
  IN  [n \in UNION {DOMAIN files(i) : i \in 1..3} |->
         IF n # Sota THEN files(Max({i \in 1..3 : n \in DOMAIN files(i)}))[n]
         ELSE [k \in UNION {DOMAIN keys(i) : i \in 1..3} |->
                 keys(Max({i \in 1..3 : k \in DOMAIN keys(i)}))[k]]]

\* The device has what the three levels say now.
HasCurrent ==
  \/ ~Broken(CurrentConfigs) /\ device.files = ToHave
  \/ device.files = NoValue /\ LatestOf(row.at, CurrentConfigs) = 0

\* Whatever the device lacks, its next poll will bring: a change of any level or of its
\* group makes the configs newer than the Date the device has, but for the changes
\* that come too late (within the second of the last answer, dated before it and
\* appended after it, or behind the back of a running poll); and the merge has given
\* it each file and each key of the sota override from the right level (configGet,
\* pacmanConfig.merge).
UpToDate == late \/ HasCurrent \/ LatestOf(row.at, CurrentConfigs) > device.since

\* One of the device's configs cannot be read, or its sota override does not parse.
Blocked ==
  \/ \E l \in {"factory", row.group, "device"} : Unreadable(l)
  \/ Broken(CurrentConfigs)

\* A device that keeps polling gets every change, but for those that came too late, and
\* as long as none of its configs is blocked: a save that failed has deleted the file
\* of the config in force, until an archive replaces it (every PUT reads it and fails),
\* or a sota override was saved that does not parse, until another one is (configGet,
\* writeConfig).
Delivered == <>[](late \/ HasCurrent \/ Blocked)
=============================================================================
