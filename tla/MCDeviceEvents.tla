--------------------------- MODULE MCDeviceEvents ----------------------------
(***************************************************************************)
(* An instance of DeviceEvents for TLC.                                    *)
(***************************************************************************)
EXTENDS DeviceEvents

CONSTANTS d1, d2, u1, u2, OwnTarget, OldTarget

Evt(id, success, target, corr) ==
  [valid |-> TRUE, id |-> id, success |-> success, target |-> target, corr |-> corr]

Installed(success, target, corr) == Evt("EcuInstallationCompleted", success, target, corr)

\* A device that fails the update and goes back, one that installs it, and what
\* devices report besides.
MCRequests ==
  {[id |-> 1, dev |-> d1, kind |-> "events", tag |-> NoTag,
    batch |-> <<Installed("failed", OwnTarget, 1),
                [valid |-> FALSE, corr |-> 9],
                Installed("succeeded", OldTarget, 2)>>],
   [id |-> 2, dev |-> d1, kind |-> "events", tag |-> "devel",
    batch |-> <<Evt("EcuDownloadStarted", "unknown", NoTarget, 1)>>],
   [id |-> 3, dev |-> d1, kind |-> "states", tag |-> NoTag, valid |-> TRUE],
   [id |-> 4, dev |-> d2, kind |-> "events", tag |-> NoTag, batch |-> <<Installed("succeeded", OwnTarget, 3)>>],
   [id |-> 5, dev |-> d1, kind |-> "states", tag |-> NoTag, valid |-> TRUE],
   [id |-> 6, dev |-> d1, kind |-> "testCreate", tag |-> NoTag, valid |-> TRUE, test |-> 1],
   [id |-> 7, dev |-> d1, kind |-> "testComplete", tag |-> NoTag, valid |-> TRUE, test |-> 1],
   [id |-> 8, dev |-> d1, kind |-> "testArtifact", tag |-> NoTag, valid |-> TRUE, test |-> 1],
   [id |-> 9, dev |-> d1, kind |-> "info", tag |-> NoTag, valid |-> TRUE],
   [id |-> 10, dev |-> d1, kind |-> "events", tag |-> NoTag, batch |-> <<[valid |-> FALSE, corr |-> 9]>>],
   [id |-> 11, dev |-> d1, kind |-> "states", tag |-> NoTag, valid |-> FALSE],
   [id |-> 12, dev |-> d1, kind |-> "testCreate", tag |-> NoTag, valid |-> TRUE, test |-> 1],
   [id |-> 13, dev |-> d1, kind |-> "testArtifact", tag |-> NoTag, valid |-> TRUE, test |-> 1]}

MCWorkloads ==
  {{r \in MCRequests : r.id \in ids} : ids \in {{1, 2}, {1, 4}, {3, 5}, {6, 7, 12}, {6, 8, 13}, {9, 10, 11}}}

MCTagOf == [u \in Updates |-> "main"]
MCTagged == [d \in Devices |-> "main"]
MCAssigned == [d \in Devices |-> IF d = d1 THEN u1 ELSE u2]

MCTargetsOf ==
  [u \in Updates |-> IF u = u1
     THEN latestUpdateTargets(
            {[name |-> OwnTarget, tags |-> {"main"}, hardwareIds |-> {"hw"}, version |-> 2],
             [name |-> OldTarget, tags |-> {"main"}, hardwareIds |-> {"hw"}, version |-> 1]}, "main")
     ELSE latestUpdateTargets(NoTargets, "main")]

Arrives(kind) == \E r \in Requests : r.kind = kind /\ req[r].pc # "none"

\* Bound: only d1 is deleted, read and assigned another update; updates are assigned
\* and deleted beside events only, apps states are read beside apps states only.
OneDevice ==
  /\ removed[d2] = "no" /\ view.dev # d2 /\ assigned[d2] = u2
  /\ Arrives("events") \/ (assigned = Assigned /\ exists = Updates)
  /\ Arrives("states") \/ view.dev = None
=============================================================================
