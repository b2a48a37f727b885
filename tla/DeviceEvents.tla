---------------------------- MODULE DeviceEvents -----------------------------
(***************************************************************************)
(* What devices report to the gateway and where it is kept: the files of a *)
(* device (events per update, apps states, tests and their artifacts, info *)
(* files) with their rollover, and the statuses appended to the log of the  *)
(* update the device is assigned.                                           *)
(*                                                                         *)
(* A request works on the device as it was read when it was authenticated,  *)
(* takes no lock and touches one file per step; requests of one device,     *)
(* the deletion of the device or of its update, readers and a crash may     *)
(* come between any two steps.  A deleted device is denied; it can be       *)
(* allowed back, with nothing of what it had reported.                      *)
(***************************************************************************)
EXTENDS StatusLog

CONSTANTS
  Devices, Updates,
  Requests,    \* requests that may arrive, once each: [id, dev, kind, ...]
  TargetsOf,   \* the targets each update installs
  None,        \* a device is assigned no update
  Assigned,    \* the updates devices are assigned to begin with
  TagOf,       \* the tag of each update
  NoTag,       \* the empty tag
  Tagged,      \* the tags of the devices to begin with
  MaxFiles,         \* how many event (states) files of a device are kept
  MaxTime,     \* bound: clock ticks of a few milliseconds
  Workloads,   \* bound: the sets of requests that arrive together
  MaxStirs     \* bound: faults, restarts, readers and operator's requests in all

\* What a device may post; info stands for the files that are replaced as a whole.
Kinds == {"events", "states", "info", "testCreate", "testComplete", "testArtifact"}

ASSUME EventsAssumption ==
  /\ MaxFiles \in Nat \ {0} /\ IsFiniteSet(Devices)
  /\ {MaxTime, MaxStirs} \subseteq Nat /\ Workloads \subseteq SUBSET Requests
  /\ None \notin Updates /\ DOMAIN Tagged = Devices /\ Assigned \in [Devices -> Updates \cup {None}]
  /\ \A r \in Requests : r.dev \in Devices /\ r.kind \in Kinds

ASSUME BatchAssumption ==
  \A r \in Requests : r.kind = "events" => r.batch \in Seq(Range(r.batch))

VARIABLES
  files,     \* [dev -> [name -> [at, data]]]: the files of a device and their ModTime
  parts,     \* [dev -> set of names]: partial files left by writeFile
  log,       \* [update -> Seq(line) or NoLog]: rollouts.log
  exists,    \* updates with a row
  assigned,  \* [dev -> update or None]: devices.update_name
  tag,       \* [dev -> tag]: devices.tag
  removed,   \* [dev -> how far its deletion is]: see Denied and Removing
  req,       \* [request -> its local state]
  view,      \* the reader of apps states
  now,
  faulty,    \* history: a file operation has failed
  stirs,     \* how many faults, restarts, readers and operator's requests there were
  mixed,     \* history: devices that had two requests, or a deletion, at a time, or
             \* of which a deletion removed only a part
  late,      \* history: updates that went while a request held them or a device was
             \* assigned them, or that a device was assigned afterwards
  void       \* history: requests whose device's directory was removed since

vars == <<files, parts, log, exists, assigned, tag, removed, req, view, now,
          faulty, stirs, mixed, late, void>>

Running == {"event", "status", "match", "delete", "sleep", "read", "write", "rename",
            "check", "open", "copy"}
Idle == [pc |-> "idle", upd |-> None, tag |-> NoTag, todo |-> <<>>, n |-> 1, at |-> 0, name |-> <<"none">>]
NoView == [pc |-> "idle", dev |-> None, todo |-> <<>>, clean |-> TRUE]

Init ==
  /\ files = [d \in Devices |-> <<>>] /\ parts = [d \in Devices |-> {}]
  /\ log = [u \in Updates |-> <<>>] /\ exists = Updates
  /\ assigned = Assigned /\ tag = Tagged
  /\ removed = [d \in Devices |-> "no"]
  /\ \E w \in Workloads :
       req = [r \in Requests |-> IF r \in w THEN Idle ELSE [Idle EXCEPT !.pc = "none"]]
  /\ view = NoView
  /\ now = 0 /\ faulty = FALSE /\ stirs = 0 /\ mixed = {} /\ late = {} /\ void = {}

-----------------------------------------------------------------------------
(* Helpers *)

\* The row of a device is marked deleted: its removal goes on ("row"), is over
\* ("done"), or was given up ("left").
Denied(d) == removed[d] \in {"row", "done", "left"}

\* A deletion is about to remove the directory of the device, which may be allowed
\* ("tried": the statement failed, or the device was allowed back meanwhile).
Removing(d) == removed[d] \in {"row", "tried"}

Begun(r) == req[r].pc \notin {"none", "idle"}
Active(d) == {r \in Requests : r.dev = d /\ req[r].pc \in Running}
Set(r, s) == req' = [req EXCEPT ![r] = s]
Goto(r, pc) == Set(r, [req[r] EXCEPT !.pc = pc])
Stir == stirs < MaxStirs /\ stirs' = stirs + 1
Calm == UNCHANGED <<faulty, stirs>>
FilesUnchanged == UNCHANGED <<files, parts, log>>
RowsUnchanged == UNCHANGED <<exists, assigned, tag>>
RestUnchanged == RowsUnchanged /\ UNCHANGED <<removed, view, now, mixed, late, void>>

\* appendFile and the rename of writeFile: the file is there with what is new and
\* the present time; the device's directory is made if it is gone.
Put(d, name, data) ==
  files' = [files EXCEPT ![d] = [n \in DOMAIN @ \cup {name} |->
              IF n = name THEN [at |-> now, data |-> data] ELSE @[n]]]

Content(d, name) == IF name \in DOMAIN files[d] THEN files[d][name].data ELSE <<>>

\* Mutant: the newest files come first.
NewestFirst(d, prefix) ==
  {s \in SetToSeqs({n \in DOMAIN files[d] : n[1] = prefix}) :
     \A i, j \in DOMAIN s : i < j => files[d][s[i]].at >= files[d][s[j]].at}

\* The names of a prefix, oldest first.  The order of files of one millisecond is
\* not determined.  Partial files are left out.
matchFiles(d, prefix) ==
  {s \in SetToSeqs({n \in DOMAIN files[d] : n[1] = prefix}) :
     \A i, j \in DOMAIN s : i < j => files[d][s[i]].at =< files[d][s[j]].at}

\* entry.Info fails for a file that is deleted while the directory is listed.
Vanishing(d) == \E q \in Active(d) : req[q].pc = "delete"

-----------------------------------------------------------------------------
(* Requests of devices *)

\* eventsUpload skips events without an id or with an invalid correlation id.
Valid(r) ==
  LET kept[i \in 0 .. Len(r.batch)] ==
        IF i = 0 THEN <<>>
        ELSE IF r.batch[i].valid THEN Append(kept[i - 1], r.batch[i])
        ELSE kept[i - 1]
  IN  kept[Len(r.batch)]

\* The line of an event of r in a log.
StatusLine(r, e) == [uuid |-> r.dev, target |-> e.target, status |-> ParseStatus(e)]

\* A missing log is none of the logs that requests can leave.
ASSUME LogAssumption ==
  NoLog \notin Seq(UNION {{StatusLine(r, Valid(r)[i]) : i \in DOMAIN Valid(r)} :
                           r \in {q \in Requests : q.kind = "events"}})

\* What the handlers of tests check: the test id, the status, the path.
FirstOfTest(r) ==
  CASE r.kind = "testCreate" -> IF r.valid THEN "write" ELSE "400"
    [] r.kind = "testComplete" -> IF r.valid THEN "read" ELSE "500"
    [] r.kind = "testArtifact" -> IF r.valid THEN "check" ELSE "500"

\* Where a request goes from the checks of its handler: info files and apps states
\* must parse, events never fail.
First(r) ==
  CASE r.kind = "events" -> IF Valid(r) = <<>> THEN "200" ELSE "event"
    [] r.kind = "states" -> IF r.valid THEN "sleep" ELSE "400"
    [] r.kind = "info" -> IF r.valid THEN "write" ELSE "400"
    [] OTHER -> FirstOfTest(r)

FileName(r) ==
  CASE r.kind \in {"testCreate", "testComplete"} -> <<"tests", r.test>>
    [] r.kind = "testArtifact" -> <<"test-artifacts", r.test>>
    [] r.kind = "states" -> <<"apps-states", now>>
    [] OTHER -> <<"info", 0>>

\* The tag a request names, or else the one on record.
TagFor(r) == IF r.tag = NoTag THEN tag[r.dev] ELSE r.tag

\* CheckIn records the tag; that it could not is only logged.
CheckIn(r) ==
  \/ tag' = [tag EXCEPT ![r.dev] = TagFor(r)] /\ Calm
  \/ TagFor(r) # tag[r.dev] /\ Stir /\ UNCHANGED <<tag, faulty>>

\* The request is authenticated and checks in: it has the device's row as it is now.
Begin(r) ==
  /\ req[r].pc = "idle"
  /\ ~Denied(r.dev)
  /\ Set(r, [Idle EXCEPT !.pc = First(r), !.upd = assigned[r.dev], !.tag = TagFor(r),
                         !.at = now, !.name = FileName(r)])
  /\ CheckIn(r)
  /\ mixed' = IF Active(r.dev) # {} \/ Removing(r.dev) THEN mixed \cup {r.dev} ELSE mixed
  /\ view' = [view EXCEPT !.clean = @ /\ view.dev # r.dev]
  /\ FilesUnchanged /\ UNCHANGED <<exists, assigned, removed, now, late, void>>

\* A step of a request that fails: the request is answered with 500.  A line that was
\* appended all the same is the step, and then this.
Fails(r) ==
  /\ req[r].pc \in Running
  /\ Stir
  /\ faulty' = TRUE
  /\ Goto(r, "500")
  /\ FilesUnchanged /\ RestUnchanged

Event(r) == Valid(r)[req[r].n]

\* ProcessEvents: the event goes to the file of its correlation id.  Before an
\* event of another file the clock moves on.
AppendEvent(r) ==
  LET name == <<"events", Event(r).corr>>
  IN  /\ req[r].pc = "event"
      /\ req[r].n > 1 /\ Valid(r)[req[r].n - 1].corr # Event(r).corr => now > req[r].at
      /\ Put(r.dev, name, Append(Content(r.dev, name), Event(r)))
      /\ Set(r, [req[r] EXCEPT !.pc = "status", !.at = now])
      /\ UNCHANGED <<parts, log>> /\ Calm /\ RestUnchanged

\* The device has an update and a tag: statuses of its events are logged.
Reports(s) == s.upd # None /\ s.tag # NoTag

\* ... and its status to the log of the update the request found assigned; the
\* directory of the update is made if it is gone.
AppendStatus(r) ==
  /\ req[r].pc = "status"
  /\ log' = IF Reports(req[r])
            THEN [log EXCEPT ![req[r].upd] =
                    Append(IF @ = NoLog THEN <<>> ELSE @, StatusLine(r, Event(r)))]
            ELSE log
  /\ IF req[r].n < Len(Valid(r))
     THEN Set(r, [req[r] EXCEPT !.pc = "event", !.n = @ + 1])
     ELSE Goto(r, "match")
  /\ UNCHANGED <<files, parts>> /\ Calm /\ RestUnchanged

\* SaveAppsStates waits, and names the file by the time.
SaveAppsStates(r) ==
  /\ req[r].pc = "sleep"
  /\ now > req[r].at
  /\ Set(r, [req[r] EXCEPT !.pc = "write", !.name = FileName(r)])
  /\ FilesUnchanged /\ Calm /\ RestUnchanged

\* TestComplete: the test must be there; readFile makes a missing one empty.
TestComplete(r) ==
  /\ req[r].pc = "read"
  /\ Goto(r, IF Content(r.dev, req[r].name) = <<>> THEN "500" ELSE "write")
  /\ FilesUnchanged /\ Calm /\ RestUnchanged

\* TestStoreArtifact: the test must be there.
TestStoreArtifact(r) ==
  /\ req[r].pc = "check"
  /\ Goto(r, IF Content(r.dev, <<"tests", r.test>>) = <<>> THEN "500" ELSE "open")
  /\ FilesUnchanged /\ Calm /\ RestUnchanged

\* writeFileStream: the artifact is written in place, what there was is gone first.
TruncateArtifact(r) ==
  /\ req[r].pc = "open"
  /\ Put(r.dev, req[r].name, <<"part">>)
  /\ Goto(r, "copy")
  /\ UNCHANGED <<parts, log>> /\ Calm /\ RestUnchanged

CopyArtifact(r) ==
  /\ req[r].pc = "copy"
  /\ Put(r.dev, req[r].name, <<"whole">>)
  /\ Goto(r, "200")
  /\ UNCHANGED <<parts, log>> /\ Calm /\ RestUnchanged

\* writeFile: first a partial file, then the rename, which fails if the partial
\* file is gone (with the device, or renamed by a request writing the same file).
WritePartial(r) ==
  /\ req[r].pc = "write"
  /\ parts' = [parts EXCEPT ![r.dev] = @ \cup {req[r].name}]
  /\ Goto(r, "rename")
  /\ UNCHANGED <<files, log>> /\ Calm /\ RestUnchanged

Rename(r) ==
  /\ req[r].pc = "rename"
  /\ IF req[r].name \in parts[r.dev]
     THEN /\ Put(r.dev, req[r].name, <<r.kind>>)
          /\ parts' = [parts EXCEPT ![r.dev] = @ \ {req[r].name}]
          /\ Goto(r, IF r.kind = "states" THEN "match" ELSE "200")
     ELSE UNCHANGED <<files, parts>> /\ Goto(r, "500")
  /\ UNCHANGED log /\ Calm /\ RestUnchanged

Prefix(r) == IF r.kind = "events" THEN "events" ELSE "apps-states"

\* RolloverFiles: all but the newest MaxFiles files are to go.
RolloverFiles(r) ==
  /\ req[r].pc = "match"
  /\ \/ \E s \in matchFiles(r.dev, Prefix(r)) :
          Set(r, [req[r] EXCEPT !.pc = "delete",
                    !.todo = SubSeq(s, 1, IF Len(s) > MaxFiles THEN Len(s) - MaxFiles ELSE 0)])
     \/ Vanishing(r.dev) /\ Goto(r, "500")
  /\ FilesUnchanged /\ Calm /\ RestUnchanged

\* Mutant: the loop deletes its first file again and again.
DeleteFirst(r) ==
  LET name == Head(req[r].todo)
  IN  /\ req[r].pc = "delete"
      /\ IF req[r].todo = <<>> THEN Goto(r, "200") /\ UNCHANGED files
         ELSE IF name \notin DOMAIN files[r.dev] THEN Goto(r, "500") /\ UNCHANGED files
         ELSE /\ files' = [files EXCEPT ![r.dev] = Restrict(@, DOMAIN @ \ {name})]
              /\ UNCHANGED req
      /\ UNCHANGED <<parts, log>> /\ Calm /\ RestUnchanged

\* One file of the list is deleted; one that is gone is an error.
DeleteFile(r) ==
  LET name == Head(req[r].todo)
  IN  /\ req[r].pc = "delete"
      /\ IF req[r].todo = <<>> THEN Goto(r, "200") /\ UNCHANGED files
         ELSE IF name \notin DOMAIN files[r.dev] THEN Goto(r, "500") /\ UNCHANGED files
         ELSE /\ files' = [files EXCEPT ![r.dev] = Restrict(@, DOMAIN @ \ {name})]
              /\ Set(r, [req[r] EXCEPT !.todo = Tail(@)])
      /\ UNCHANGED <<parts, log>> /\ Calm /\ RestUnchanged

-----------------------------------------------------------------------------
(* The operator's side *)

\* DELETE of a device: its row, then its directory, even when the statement for the
\* row failed.  A second DELETE waits for the first.
DeleteRow(d) ==
  /\ removed[d] = "no"
  /\ \E state \in {"row", "tried"} : removed' = [removed EXCEPT ![d] = state]
  /\ mixed' = IF Active(d) # {} THEN mixed \cup {d} ELSE mixed
  /\ view' = [view EXCEPT !.clean = @ /\ view.dev # d]
  /\ Stir /\ FilesUnchanged /\ RowsUnchanged /\ UNCHANGED <<req, now, faulty, late, void>>

\* Mutant: partial files stay.
RemoveListed(d) ==
  /\ Removing(d)
  /\ removed' = [removed EXCEPT ![d] = IF @ = "row" THEN "done" ELSE "no"]
  /\ files' = [files EXCEPT ![d] = <<>>]
  /\ void' = void \cup {r \in Requests : r.dev = d /\ Begun(r)}
  /\ Calm /\ RowsUnchanged /\ UNCHANGED <<parts, log, req, view, now, mixed, late>>

RemoveAll(d) ==
  /\ Removing(d)
  /\ removed' = [removed EXCEPT ![d] = IF @ = "row" THEN "done" ELSE "no"]
  /\ files' = [files EXCEPT ![d] = <<>>]
  /\ parts' = [parts EXCEPT ![d] = {}]
  /\ void' = void \cup {r \in Requests : r.dev = d /\ Begun(r)}
  /\ Calm /\ RowsUnchanged /\ UNCHANGED <<log, req, view, now, mixed, late>>

\* The removal fails with some of the files gone.
RemoveFails(d) ==
  /\ Removing(d)
  /\ removed' = [removed EXCEPT ![d] = IF @ = "row" THEN "left" ELSE "no"]
  /\ \E names \in SUBSET DOMAIN files[d] : files' = [files EXCEPT ![d] = Restrict(@, names)]
  /\ mixed' = mixed \cup {d}
  /\ Stir /\ faulty' = TRUE
  /\ RowsUnchanged /\ UNCHANGED <<parts, log, req, view, now, late, void>>

\* UndenyDevice: nothing but the mark goes.
UndenyDevice(d) ==
  /\ Denied(d)
  /\ removed' = [removed EXCEPT ![d] = IF @ = "row" THEN "tried" ELSE "no"]
  /\ Stir /\ FilesUnchanged /\ RowsUnchanged
  /\ UNCHANGED <<req, view, now, faulty, mixed, late, void>>

\* A rollout assigns an update to a device of its tag, a denied one too.  The update
\* may have been deleted since the rollout was accepted.
SetUpdate(d, u) ==
  /\ tag[d] = TagOf[u] /\ u # assigned[d]
  /\ assigned' = [assigned EXCEPT ![d] = u]
  /\ late' = IF u \in exists THEN late ELSE late \cup {u}
  /\ Stir /\ FilesUnchanged
  /\ UNCHANGED <<exists, tag, removed, req, view, now, faulty, mixed, void>>

\* The row goes unless a device that is not denied is assigned the update and still
\* has its tag (prevent_delete_update_in_use), and with it the directory (see
\* UpdateStore for a crash in between).
DeleteUpdate(u) ==
  /\ u \in exists
  /\ \A d \in Devices : assigned[d] = u /\ tag[d] = TagOf[u] => Denied(d)
  /\ exists' = exists \ {u}
  /\ log' = [log EXCEPT ![u] = NoLog]
  /\ late' = IF \/ \E r \in Requests : req[r].pc \in Running /\ req[r].upd = u
                \/ \E d \in Devices : assigned[d] = u
             THEN late \cup {u} ELSE late
  /\ Stir /\ UNCHANGED <<files, parts, assigned, tag, removed, req, view, now, faulty, mixed, void>>

\* AppsStates: the names are listed, newest first, then every file is read.  A
\* file that went in between reads as empty and fails to parse.
ListStates(d) ==
  /\ view.pc \in {"idle", "200", "500"}
  /\ ~Denied(d)
  /\ \E s \in matchFiles(d, "apps-states") :
       view' = [pc |-> "read", dev |-> d, todo |-> Reverse(s),
                clean |-> Active(d) = {} /\ ~Removing(d)]
  /\ Stir /\ FilesUnchanged /\ RowsUnchanged
  /\ UNCHANGED <<removed, req, now, faulty, mixed, late, void>>

ReadState ==
  /\ view.pc = "read"
  /\ view' = IF view.todo = <<>> THEN [view EXCEPT !.pc = "200"]
             ELSE IF Content(view.dev, Head(view.todo)) = <<>> THEN [view EXCEPT !.pc = "500", !.todo = <<>>]
             ELSE [view EXCEPT !.todo = Tail(@)]
  /\ FilesUnchanged /\ Calm /\ RowsUnchanged /\ UNCHANGED <<removed, req, now, mixed, late, void>>

\* Updates and Events: the updates a device reported, newest first, and the events
\* of one.
DeviceUpdates(d) == {Reverse(s) : s \in matchFiles(d, "events")}
DeviceEventsOf(d, corr) == Content(d, <<"events", corr>>)

\* The events that leave nothing to show once they have succeeded.
clearingEventTypes == {"EcuInstallationCompleted", "CertRotationCompleted", "MetadataUpdateCompleted"}

NoStatus == [name |-> "none", result |-> "no result"]

StatusOf(e) ==
  IF e.id \in clearingEventTypes /\ e.success = "succeeded" THEN NoStatus ELSE ParseStatus(e)

\* DeviceGet: the info file, and the status of the last line of the newest events
\* file.  Files of one millisecond give either status.
DeviceGet(d) ==
  [info   |-> Content(d, <<"info", 0>>),
   status |-> {IF s = <<>> THEN NoStatus ELSE StatusOf(Last(Content(d, Last(s)))) :
                 s \in matchFiles(d, "events")}]

\* GetTest: what was written last of a test, and its artifacts.
GetTest(d, test) ==
  [status |-> Content(d, <<"tests", test>>),
   artifacts |-> (UNION {Range(s) : s \in matchFiles(d, "test-artifacts")}) \cap {<<"test-artifacts", test>>}]

GetTestArtifact(d, test) == Content(d, <<"test-artifacts", test>>)

Tick ==
  /\ now < MaxTime
  /\ now' = now + 1
  /\ FilesUnchanged /\ Calm /\ RowsUnchanged
  /\ UNCHANGED <<removed, req, view, mixed, late, void>>

\* The server restarts: what is running ends without an answer, deletions too.
Crash ==
  /\ Stir
  /\ removed' = [d \in Devices |-> CASE removed[d] = "row" -> "left"
                                     [] removed[d] = "tried" -> "no"
                                     [] OTHER -> removed[d]]
  /\ req' = [r \in Requests |-> IF req[r].pc \in Running THEN [req[r] EXCEPT !.pc = "lost"] ELSE req[r]]
  /\ view' = NoView
  /\ FilesUnchanged /\ RowsUnchanged /\ UNCHANGED <<now, faulty, mixed, late, void>>

Next ==
  \/ \E r \in Requests :
       \/ Begin(r) \/ Fails(r)
       \/ AppendEvent(r) \/ AppendStatus(r)
       \/ SaveAppsStates(r) \/ TestComplete(r)
       \/ TestStoreArtifact(r) \/ TruncateArtifact(r) \/ CopyArtifact(r)
       \/ WritePartial(r) \/ Rename(r)
       \/ RolloverFiles(r) \/ DeleteFile(r)
  \/ \E d \in Devices :
       \/ DeleteRow(d) \/ RemoveAll(d) \/ RemoveFails(d) \/ UndenyDevice(d) \/ ListStates(d)
       \/ \E u \in Updates : SetUpdate(d, u)
  \/ \E u \in Updates : DeleteUpdate(u)
  \/ ReadState \/ Tick \/ Crash

Spec == Init /\ [][Next]_vars

-----------------------------------------------------------------------------
(* Properties *)

\* A later request has an event of the update that the last event of r is about.
FollowedUp(r) ==
  \E q \in Requests \ {r} :
    /\ q.dev = r.dev /\ q.kind = "events" /\ Begun(q) /\ req[q].at >= req[r].at
    /\ \E i \in DOMAIN Valid(q) : Valid(q)[i].corr = Event(r).corr

\* The file of the request's last event holds it, unless MaxFiles files of later (or
\* equally late) updates have displaced it: then there is none, or one that a later
\* request began.
InItsFile(r) ==
  LET last  == Event(r)
      newer == {n \in UNION {Range(s) : s \in DeviceUpdates(r.dev)} : files[r.dev][n].at >= req[r].at}
      held  == DeviceEventsOf(r.dev, last.corr)
  IN  \/ \E i \in DOMAIN held : held[i] = last
      \/ Cardinality(newer) >= MaxFiles /\ (held = <<>> \/ FollowedUp(r))

\* The log of the update that was assigned has a status for every valid event, in
\* their order, with no other line of the device between them.
OnTheLog(r) ==
  LET lines == log[req[r].upd]
  IN  \E at \in [DOMAIN Valid(r) -> DOMAIN lines] :
        /\ \A i \in DOMAIN at : lines[at[i]] = StatusLine(r, Valid(r)[i])
        /\ \A i, j \in DOMAIN at : i < j => at[i] < at[j]
        /\ \A i \in DOMAIN at, k \in DOMAIN lines :
             i > 1 /\ at[i - 1] < k /\ k < at[i] => lines[k].uuid # r.dev

\* The request's events are the device's latest.
LatestOfDevice(r) ==
  \A q \in Requests : /\ q # r /\ q.dev = r.dev /\ q.kind = "events"
                      /\ Begun(q) => req[q].at < req[r].at

\* The requests of a kind about the test of r.
OfTheTest(r, kind) ==
  {q \in Requests : q.kind = kind /\ q.dev = r.dev /\ q.test = r.test /\ Begun(q)}

\* The test of r was not created again since.
NotCreatedAgain(r) ==
  \A q \in OfTheTest(r, "testCreate") :
    req[q].at < req[r].at \/ OfTheTest(r, "testCreate") = {q}

\* No later upload of the artifact of r broke off or is still under way.
NotBrokenOff(r) ==
  \A q \in OfTheTest(r, "testArtifact") : req[q].pc # "200" => req[q].at < req[r].at

\* What a request was told is saved is there: events are in the file of their update
\* and their statuses on the log of the update the device was assigned; the page of
\* the device shows the status that the last event left, whichever file that went to
\* and whatever was rolled over since, and the info; a completed test shows as
\* completed until it is created again, an artifact is listed, and whole unless a later
\* upload of it has begun and not succeeded.  All this as long as the requests of the
\* device come one at a time and no deletion, failed or not, has removed its directory
\* since: of what a device reports after that, allowed back, it is true again
\* (ProcessEvents, rolloverFiles, DeviceGet, TestComplete, TestStoreArtifact, GetTest,
\* Device.Delete, UndenyDevice).
AnsweredKept ==
  \A r \in Requests :
    req[r].pc = "200" /\ r.dev \notin mixed =>
      /\ r.kind = "events" /\ Reports(req[r]) /\ req[r].upd \in exists => OnTheLog(r)
      /\ r \notin void =>
           /\ r.kind = "events" /\ Valid(r) # <<>> => InItsFile(r)
           /\ r.kind = "events" /\ Valid(r) # <<>> /\ LatestOfDevice(r)
                => DeviceGet(r.dev).status = {StatusOf(Event(r))}
           /\ r.kind = "info" => DeviceGet(r.dev).info = <<"info">>
           /\ r.kind = "testComplete" /\ NotCreatedAgain(r)
                => GetTest(r.dev, r.test).status = <<"testComplete">>
           /\ r.kind = "testArtifact" =>
                /\ req[r].name \in GetTest(r.dev, r.test).artifacts
                /\ NotBrokenOff(r) => GetTestArtifact(r.dev, r.test) = <<"whole">>

\* The report of a rollout gives each device the state its lines call for, a
\* device that went back to another target included, and its counts add up to the
\* devices of the rollout (lastKnownStates, updateSummary, updateStateFor).
ReportsRight ==
  \A u \in {v \in exists : log[v] # <<>>}, effect \in (SUBSET Devices) \ {{}} :
    /\ ReportRight(log[u], TargetsOf[u], [effect |-> effect])
    /\ CountsAddUp(log[u], TargetsOf[u], [effect |-> effect], Devices)

\* A request of a device fails only with a fault of the file system, a test that is
\* not there or is refused, or another request or the deletion of the device beside
\* it: rolling over never trips over itself (rolloverFiles).  The apps states can be
\* read whenever nothing is written beside the read, after a crash that left a partial
\* file too (matchFiles, AppsStates).
FailsForAReason ==
  /\ \A r \in Requests :
       req[r].pc = "500" => faulty \/ r.dev \in mixed \/ r.kind \in {"testComplete", "testArtifact"}
  /\ view.pc = "500" => ~view.clean

\* Once a device is deleted its directory is gone for as long as it is denied, partial
\* files and all, unless a request was running when the deletion began (Device.Delete);
\* once an update is deleted its log does not come back, unless a request of a device
\* that had been assigned it was running, a device was still assigned it (a denied one,
\* or one whose tag has changed: prevent_delete_update_in_use lets that pass), or a
\* rollout accepted earlier assigns it only then (DeleteUpdate, ProcessEvents).
DeletedStaysGone ==
  /\ \A d \in Devices :
       removed[d] = "done" /\ d \notin mixed => files[d] = <<>> /\ parts[d] = {}
  /\ \A u \in Updates : u \notin exists /\ u \notin late => log[u] = NoLog
=============================================================================
