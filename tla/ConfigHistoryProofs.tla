------------------------ MODULE ConfigHistoryProofs -------------------------
(***************************************************************************)
(* Proofs about the history of a configuration directory, for any set of   *)
(* requests, any merge, any ConfigHistoryLimit and any number of failed    *)
(* writes and crashes, and about the delivery of configs to a device, for  *)
(* any changes, archives and groups, without a bound on time or events.    *)
(***************************************************************************)
EXTENDS ConfigHistory, ConfigDelivery, FiniteSetTheorems, TLAPS

-----------------------------------------------------------------------------
(* The inductive invariants: of the types, and of a directory as long as its *)
(* clients have saved one at a time                                          *)

\* A request that is about to write or to append has a content to save.
TargetKnown ==
  \A q \in Requests : pc[q] \in {"write", "append"} => target[q] \in Contents

TypeInv == TypeOK /\ TargetKnown

OneSave == \A p, q \in Requests : pc[p] \in Running /\ pc[q] \in Running => p = q

\* What a request has read of the directory is still the case.
ReadsCurrent ==
  \A q \in Requests :
    /\ pc[q] = "readFile" => journal # <<>> /\ seen[q] = Latest
    /\ pc[q] \in {"write", "append"} =>
         target[q] = NewContent(q, Latest) /\ (q.kind = "put" => target[q] # Latest)

\* A request that is about to append its line has written the file.
FileWritten ==
  \A q \in Requests : pc[q] = "append" => target[q] \in files \ cut

\* A purge has seen every file, and what it has left to delete is every file
\* that the last lines do not name.
PurgeExact ==
  \A q \in Requests :
    /\ pc[q] = "names" => files \subseteq todo[q]
    /\ pc[q] = "delete" => /\ todo[q] \cap LastNames(journal) = {}
                           /\ files \ LastNames(journal) \subseteq todo[q]

FilesFinite == IsFiniteSet(files)

HistoryInv ==
  /\ TypeInv
  /\ OneSave
  /\ ReadsCurrent
  /\ FileWritten
  /\ PurgeExact
  /\ FilesFinite
  /\ LinesReadable
  /\ LostByFailedSave

-----------------------------------------------------------------------------
(* The operators *)

\* A PUT saves its content and a PATCH what the merge gives: a config either way.
LEMMA NewContentType ==
  ASSUME NEW q \in Requests, NEW prev \in Contents \cup {None}
  PROVE  NewContent(q, prev) \in Contents
<1>1. q \in [id : Nat, kind : {"put", "patch"}, content : Contents]
  BY ConfigAssumption
<1>2. Merge[prev][q.content] \in Contents
  BY <1>1, ConfigAssumption
<1> QED
  BY <1>1, <1>2 DEF NewContent

\* What the journal's last line names is a config, or there is no line.
LEMMA LatestType ==
  ASSUME TypeOK
  PROVE  /\ Latest \in Contents \cup {None}
         /\ journal # <<>> => Latest = journal[Len(journal)] /\ Latest \in Contents
<1>1. journal \in Seq(Contents)
  BY DEF TypeOK
<1>2. journal # <<>> => Len(journal) \in 1..Len(journal)
  BY <1>1
<1> QED
  BY <1>1, <1>2 DEF Latest

\* The limit is at least one, so the last line is among those a purge keeps.
LEMMA LatestKept ==
  ASSUME TypeOK, journal # <<>>
  PROVE  Latest \in LastNames(journal)
<1>1. journal \in Seq(Contents) /\ KeepLatest \in Nat \ {0}
  BY ConfigAssumption DEF TypeOK
<1>2. Len(journal) \in {n \in 1..Len(journal) : n > Len(journal) - KeepLatest}
  BY <1>1
<1> QED
  BY <1>2 DEF Latest, LastNames

\* Appending a line adds at most its name to those that a purge keeps.
LEMMA LastNamesAppend ==
  ASSUME TypeOK, NEW x \in Contents
  PROVE  /\ LastNames(Append(journal, x)) \subseteq LastNames(journal) \cup {x}
         /\ Append(journal, x) # <<>>
         /\ Append(journal, x)[Len(Append(journal, x))] = x
<1> DEFINE j == Append(journal, x)
<1>1. journal \in Seq(Contents) /\ KeepLatest \in Nat \ {0}
  BY ConfigAssumption DEF TypeOK
<1>2. /\ Len(j) = Len(journal) + 1
      /\ j[Len(j)] = x
      /\ \A i \in 1..Len(journal) : j[i] = journal[i]
      /\ j # <<>>
  BY <1>1
<1>3. ASSUME NEW i \in 1..Len(j), i > Len(j) - KeepLatest
      PROVE  j[i] \in LastNames(journal) \cup {x}
  <2>1. CASE i = Len(j)
    BY <1>2, <2>1
  <2>2. CASE i # Len(j)
    <3>1. i \in 1..Len(journal) /\ i > Len(journal) - KeepLatest
      BY <1>1, <1>2, <1>3, <2>2
    <3> QED
      BY <1>2, <3>1 DEF LastNames
  <2> QED
    BY <2>1, <2>2
<1>4. LastNames(j) \subseteq LastNames(journal) \cup {x}
  BY <1>3 DEF LastNames
<1> QED
  BY <1>2, <1>4

-----------------------------------------------------------------------------
(* Type correctness, also for saves that run side by side *)

\* Every step keeps every variable in its domain, and leaves a request that has
\* passed the check for a change with a content to save.
LEMMA TypeStep ==
  ASSUME TypeInv, [Next]_vars
  PROVE  TypeInv'
<1> USE DEF TypeInv, TypeOK, TargetKnown
<1>0. ASSUME NEW q \in Requests, NEW prev \in Contents \cup {None}, Decide(q, prev)
      PROVE  /\ target' \in [Requests -> Contents \cup {None}]
             /\ pc' \in [Requests -> Running \cup {"idle", "done", "failed"}]
             /\ TargetKnown'
  BY <1>0, NewContentType DEF Decide, Running
<1>1. ASSUME NEW q \in Requests, ReadJournal(q)
      PROVE  TypeInv'
  <2>1. CASE journal = <<>>
    BY <1>0, <1>1, <2>1 DEF ReadJournal
  <2>2. CASE journal # <<>>
    BY <1>1, <2>2, LatestType DEF ReadJournal, Running
  <2> QED
    BY <2>1, <2>2
<1>2. ASSUME NEW q \in Requests, ReadFile(q)
      PROVE  TypeInv'
  <2>1. CASE seen[q] \in files
    BY <1>0, <1>2, <2>1 DEF ReadFile
  <2>2. CASE seen[q] \notin files
    BY <1>2, <2>2 DEF ReadFile, Running
  <2> QED
    BY <2>1, <2>2
<1>3. ASSUME NEW q \in Requests, WriteFile(q)
      PROVE  TypeInv'
  <2>1. target[q] \in Contents
    BY <1>3 DEF WriteFile
  <2>2. pc' \in [Requests -> Running \cup {"idle", "done", "failed"}] /\ TargetKnown'
    BY <1>3 DEF WriteFile, Running
  <2>3. files' \subseteq Contents /\ cut' \subseteq Contents
    BY <1>3, <2>1 DEF WriteFile
  <2> QED
    BY <1>3, <2>2, <2>3, ConfigAssumption DEF WriteFile, Fault
<1>4. ASSUME NEW q \in Requests, AppendJournal(q)
      PROVE  TypeInv'
  <2>1. target[q] \in Contents
    BY <1>4 DEF AppendJournal
  <2>2. journal' \in Seq(Contents)
    BY <1>4, <2>1 DEF AppendJournal
  <2> QED
    BY <1>4, <2>2 DEF AppendJournal, Running, Purging
<1>5. ASSUME NEW q \in Requests, AppendFails(q)
      PROVE  TypeInv'
  <2>1. target[q] \in Contents
    BY <1>5 DEF AppendFails
  <2>2. journal' \in Seq(Contents)
    BY <1>5, <2>1 DEF AppendFails
  <2>3. files' \subseteq Contents /\ cut' \subseteq Contents /\ landed' \subseteq Requests
    BY <1>5, <2>1 DEF AppendFails
  <2> QED
    BY <1>5, <2>2, <2>3, ConfigAssumption DEF AppendFails, Running, Fault
<1>6. ASSUME NEW q \in Requests,
             ListFiles(q) \/ ReadNames(q) \/ PurgeFile(q) \/ PurgeDone(q)
      PROVE  TypeInv'
  BY <1>6 DEF ListFiles, ReadNames, PurgeFile, PurgeDone, Running, Purging
<1>7. ASSUME NEW q \in Requests, PurgeFails(q)
      PROVE  TypeInv'
  BY <1>7, ConfigAssumption DEF PurgeFails, Running, Purging, Fault
<1>8. CASE Restart
  BY <1>8, ConfigAssumption DEF Restart, Running, Fault
<1>9. CASE UNCHANGED vars
  BY <1>9 DEF vars
<1> QED
  BY <1>1, <1>2, <1>3, <1>4, <1>5, <1>6, <1>7, <1>8, <1>9 DEF Next, Step

\* Nothing has overlapped at first.
LEMMA NoOverlapFirst == Init => overlapped \in BOOLEAN /\ ~overlapped
BY Zenon DEF Init

\* Every variable stays in its domain, whether or not saves are serial.
THEOREM ConfigTypeCorrect == Spec => []TypeOK
<1>1. Init => TypeInv
  BY ConfigAssumption, NoOverlapFirst DEF Init, TypeInv, TypeOK, TargetKnown
<1>2. TypeInv => TypeOK
  BY DEF TypeInv
<1> QED
  BY <1>1, <1>2, TypeStep, PTL DEF Spec

-----------------------------------------------------------------------------
(* Saves one at a time: the inductive invariant *)

\* While a request runs no other does, and its step moves no other.
LEMMA OthersRest ==
  ASSUME ~overlapped', TypeInv, OneSave, NEW q \in Requests, Step(q)
  PROVE  /\ \A p \in Requests \ {q} : pc'[p] = pc[p] /\ pc'[p] \notin Running
         /\ OneSave'
<1> USE DEF TypeInv, TypeOK
<1>1. \A p \in Requests \ {q} : pc'[p] = pc[p]
  BY DEF Step, ReadJournal, ReadFile, Decide, WriteFile, AppendJournal, AppendFails,
         ListFiles, ReadNames, PurgeFile, PurgeDone, PurgeFails
<1>2. pc[q] \in Running \/ \A p \in Requests : pc[p] \notin Running
  BY DEF Step, ReadJournal, ReadFile, Decide, WriteFile, AppendJournal, AppendFails,
         ListFiles, ReadNames, PurgeFile, PurgeDone, PurgeFails, Running, Purging
<1>3. \A p \in Requests \ {q} : pc[p] \notin Running
  BY <1>2 DEF OneSave
<1> QED
  BY <1>1, <1>3 DEF OneSave

\* Reading the directory changes nothing in it.  The check for a change leaves a
\* PUT to write only if its content is not the current one.
LEMMA ReadInv ==
  ASSUME ~overlapped', HistoryInv, NEW q \in Requests, ReadJournal(q) \/ ReadFile(q)
  PROVE  HistoryInv'
<1> USE DEF HistoryInv
<1>1. TypeInv' /\ OneSave' /\ \A p \in Requests \ {q} : pc'[p] = pc[p] /\ pc'[p] \notin Running
  BY OthersRest, TypeStep DEF Next, Step
<1>2. UNCHANGED <<files, journal, cut, landed, todo>> /\ Latest' = Latest
  BY DEF ReadJournal, ReadFile, Latest
<1>3. ASSUME NEW prev, prev = Latest, Decide(q, prev), pc[q] \in {"idle", "readFile"}
      PROVE  /\ pc'[q] \in {"write", "done"}
             /\ pc'[q] = "write" => /\ target'[q] = NewContent(q, Latest)
                                    /\ q.kind = "put" => target'[q] # Latest
             /\ \A p \in Requests \ {q} : target'[p] = target[p]
  BY <1>3 DEF Decide, NewContent, TypeInv, TypeOK
<1>4. \/ /\ pc'[q] = "readFile" /\ journal # <<>> /\ seen'[q] = Latest
         /\ target' = target
      \/ /\ pc'[q] \in {"write", "done"}
         /\ pc'[q] = "write" => /\ target'[q] = NewContent(q, Latest)
                                /\ q.kind = "put" => target'[q] # Latest
         /\ \A p \in Requests \ {q} : target'[p] = target[p]
      \/ pc'[q] = "failed" /\ target' = target
  <2>1. CASE ReadJournal(q) /\ journal = <<>>
    BY <1>3, <2>1 DEF ReadJournal, Latest
  <2>2. CASE ReadJournal(q) /\ journal # <<>>
    BY <2>2 DEF ReadJournal, Latest, TypeInv, TypeOK
  <2>3. CASE ReadFile(q) /\ seen[q] \in files
    <3>1. seen[q] = Latest
      BY <2>3 DEF ReadFile, ReadsCurrent
    <3> QED
      BY <1>3, <2>3, <3>1 DEF ReadFile
  <2>4. CASE ReadFile(q) /\ seen[q] \notin files
    BY <2>4 DEF ReadFile, TypeInv, TypeOK
  <2> QED
    BY <2>1, <2>2, <2>3, <2>4
<1>5. ReadsCurrent'
  BY <1>1, <1>2, <1>4 DEF ReadsCurrent, Running, NewContent
<1>6. FileWritten' /\ PurgeExact'
  BY <1>1, <1>2, <1>4 DEF FileWritten, PurgeExact, Running, Purging
<1>7. FilesFinite' /\ LinesReadable'
  BY <1>2 DEF FilesFinite, LinesReadable
<1>8. LostByFailedSave'
  <2>1. pc[q] # "failed"
    BY DEF ReadJournal, ReadFile
  <2>2. \A p \in Requests : pc[p] = "failed" => pc'[p] = "failed" /\ target'[p] = target[p]
    BY <1>1, <1>4, <2>1
  <2> QED
    BY <1>2, <2>2 DEF LostByFailedSave, LatestReadable
<1> QED
  BY <1>1, <1>5, <1>6, <1>7, <1>8

\* A config file is written: nothing that could be read before is lost.
LEMMA WriteInv ==
  ASSUME ~overlapped', HistoryInv, NEW q \in Requests, WriteFile(q)
  PROVE  HistoryInv'
<1> USE DEF HistoryInv
<1>1. TypeInv' /\ OneSave' /\ \A p \in Requests \ {q} : pc'[p] = pc[p] /\ pc'[p] \notin Running
  BY OthersRest, TypeStep DEF Next, Step
<1>2. UNCHANGED <<journal, seen, target, landed, todo>> /\ Latest' = Latest /\ pc[q] = "write"
  BY DEF WriteFile, Latest
<1>3. \/ /\ pc'[q] = "append" /\ files' = files \cup {target[q]}
         /\ cut' = cut \ {target[q]}
      \/ pc'[q] = "failed" /\ UNCHANGED <<files, cut>>
  BY DEF WriteFile, TypeInv, TypeOK
<1>4. ReadsCurrent'
  BY <1>1, <1>2, <1>3 DEF ReadsCurrent, Running, NewContent
<1>5. FileWritten' /\ PurgeExact'
  BY <1>1, <1>2, <1>3 DEF FileWritten, PurgeExact, Running, Purging
<1>6. FilesFinite'
  BY <1>3, FS_AddElement DEF FilesFinite
<1>7. LinesReadable'
  BY <1>2, <1>3 DEF LinesReadable
<1>8. LostByFailedSave'
  BY <1>1, <1>2, <1>3 DEF LostByFailedSave, LatestReadable
<1> QED
  BY <1>1, <1>4, <1>5, <1>6, <1>7, <1>8

\* A line is appended: it names a file that exists and that no failed save has
\* deleted.
LEMMA AppendInv ==
  ASSUME ~overlapped', HistoryInv, NEW q \in Requests, AppendJournal(q)
  PROVE  HistoryInv'
<1> USE DEF HistoryInv
<1>1. TypeInv' /\ OneSave' /\ \A p \in Requests \ {q} : pc'[p] = pc[p] /\ pc'[p] \notin Running
  BY OthersRest, TypeStep DEF Next, Step
<1>2. /\ UNCHANGED <<files, cut, seen, target, todo>>
      /\ pc[q] = "append" /\ pc'[q] = "list"
      /\ journal' = Append(journal, target[q])
  BY DEF AppendJournal, TypeInv, TypeOK
<1>3. target[q] \in Contents /\ target[q] \in files \ cut
  BY <1>2 DEF TypeInv, TargetKnown, FileWritten
<1>4. /\ LastNames(journal') \subseteq LastNames(journal) \cup {target[q]}
      /\ journal' # <<>> /\ journal'[Len(journal')] = target[q]
  BY <1>2, <1>3, LastNamesAppend DEF TypeInv
<1>5. ReadsCurrent' /\ FileWritten' /\ PurgeExact'
  BY <1>1, <1>2 DEF ReadsCurrent, FileWritten, PurgeExact, Running, Purging
<1>6. FilesFinite' /\ LinesReadable'
  BY <1>2, <1>3, <1>4 DEF FilesFinite, LinesReadable
<1>7. LostByFailedSave'
  BY <1>2, <1>3, <1>4 DEF LostByFailedSave, LatestReadable
<1> QED
  BY <1>1, <1>5, <1>6, <1>7

\* The append fails and the file is deleted again: if the request is a PUT that
\* left no line, the current config's file is another.
LEMMA AppendFailsInv ==
  ASSUME ~overlapped', HistoryInv, NEW q \in Requests, AppendFails(q)
  PROVE  HistoryInv'
<1> USE DEF HistoryInv
<1>1. TypeInv' /\ OneSave' /\ \A p \in Requests \ {q} : pc'[p] = pc[p] /\ pc'[p] \notin Running
  BY OthersRest, TypeStep DEF Next, Step
<1>2. /\ UNCHANGED <<seen, target, todo>>
      /\ pc[q] = "append" /\ pc'[q] = "failed"
  BY DEF AppendFails, TypeInv, TypeOK
<1>3. \/ UNCHANGED <<journal, landed>>
      \/ journal' = Append(journal, target[q]) /\ landed' = landed \cup {q}
  BY DEF AppendFails
<1>4. \/ files' = files \ {target[q]} /\ cut' = cut \cup {target[q]}
      \/ UNCHANGED <<files, cut>>
  BY DEF AppendFails
<1>5. target[q] \in Contents /\ target[q] \in files \ cut
  BY <1>2 DEF TypeInv, TargetKnown, FileWritten
<1>6. ReadsCurrent' /\ FileWritten' /\ PurgeExact'
  BY <1>1, <1>2 DEF ReadsCurrent, FileWritten, PurgeExact, Running, Purging
<1>7. FilesFinite'
  BY <1>4, FS_RemoveElement DEF FilesFinite
<1>8. LinesReadable'
  <2>1. LastNames(journal') \subseteq LastNames(journal) \cup {target[q]}
    BY <1>3, <1>5, LastNamesAppend DEF TypeInv
  <2> QED
    BY <1>4, <1>5, <2>1 DEF LinesReadable
<1>9. LostByFailedSave'
  <2>1. q.kind = "put" => target[q] # Latest
    BY <1>2 DEF ReadsCurrent
  <2>2. q.kind \in {"put", "patch"}
    BY ConfigAssumption
  <2>3. CASE journal' = Append(journal, target[q]) /\ landed' = landed \cup {q}
    <3>1. journal'[Len(journal')] = target[q] /\ q \in landed'
      BY <1>5, <2>3, LastNamesAppend DEF TypeInv
    <3> QED
      BY <1>2, <3>1 DEF LostByFailedSave
  <2>4. CASE UNCHANGED <<journal, landed>> /\ journal # <<>> /\ target[q] = Latest
    BY <1>2, <2>1, <2>2, <2>4 DEF LostByFailedSave, Latest
  <2>5. CASE UNCHANGED <<journal, landed>> /\ (journal = <<>> \/ target[q] # Latest)
    BY <1>1, <1>2, <1>4, <2>5 DEF LostByFailedSave, LatestReadable, Latest
  <2> QED
    BY <1>3, <2>3, <2>4, <2>5
<1> QED
  BY <1>1, <1>6, <1>7, <1>8, <1>9

\* The purge deletes nothing that one of the last lines names, and after a
\* listing that is over the limit it has every other file on its list.
LEMMA PurgeInv ==
  ASSUME ~overlapped', HistoryInv, NEW q \in Requests,
         ListFiles(q) \/ ReadNames(q) \/ PurgeFile(q) \/ PurgeDone(q) \/ PurgeFails(q)
  PROVE  HistoryInv'
<1> USE DEF HistoryInv
<1>1. TypeInv' /\ OneSave' /\ \A p \in Requests \ {q} : pc'[p] = pc[p] /\ pc'[p] \notin Running
  BY OthersRest, TypeStep DEF Next, Step
<1>2. UNCHANGED <<journal, seen, target, cut, landed>> /\ pc[q] \in Purging
  BY DEF ListFiles, ReadNames, PurgeFile, PurgeDone, PurgeFails, Purging
<1>3. \/ pc'[q] = "names" /\ todo'[q] = files /\ files' = files
      \/ /\ pc[q] = "names" /\ pc'[q] = "delete" /\ files' = files
         /\ todo'[q] = todo[q] \ LastNames(journal)
      \/ \E n \in todo[q] : /\ pc[q] = "delete" /\ pc'[q] = "delete"
                            /\ files' = files \ {n} /\ todo'[q] = todo[q] \ {n}
      \/ pc'[q] = "done" /\ files' = files
  BY DEF ListFiles, ReadNames, PurgeFile, PurgeDone, PurgeFails, TypeInv, TypeOK
<1>4. files' \subseteq files /\ (files \ files') \cap LastNames(journal) = {}
  BY <1>3 DEF PurgeExact
<1>5. ReadsCurrent' /\ FileWritten'
  BY <1>1, <1>2, <1>3 DEF ReadsCurrent, FileWritten, Running
<1>6. PurgeExact'
  <2>1. pc'[q] = "names" => files' \subseteq todo'[q]
    BY <1>2, <1>3
  <2>2. pc'[q] = "delete" => /\ todo'[q] \cap LastNames(journal') = {}
                             /\ files' \ LastNames(journal') \subseteq todo'[q]
    BY <1>2, <1>3 DEF PurgeExact
  <2> QED
    BY <1>1, <2>1, <2>2 DEF PurgeExact, Running, Purging
<1>7. FilesFinite'
  BY <1>4, FS_Subset DEF FilesFinite
<1>8. LinesReadable'
  BY <1>2, <1>4 DEF LinesReadable
<1>9. LostByFailedSave'
  <2>1. LatestReadable => LatestReadable'
    BY <1>2, <1>4, LatestKept DEF LatestReadable, Latest, TypeInv
  <2>2. \A p \in Requests : pc[p] = "failed" => pc'[p] = "failed"
    BY <1>1, <1>2 DEF Purging
  <2> QED
    BY <1>2, <2>1, <2>2 DEF LostByFailedSave
<1> QED
  BY <1>1, <1>5, <1>6, <1>7, <1>8, <1>9

\* Every step keeps the invariant unless it makes two saves overlap: a crash
\* ends the running save and leaves the directory as it is.
LEMMA HistoryStep ==
  ASSUME ~overlapped', HistoryInv, [Next]_vars
  PROVE  HistoryInv'
<1>1. CASE Restart
  <2> USE DEF HistoryInv
  <2>1. TypeInv' /\ UNCHANGED <<files, journal, seen, target, todo, cut, landed>>
    BY <1>1, TypeStep DEF Restart
  <2>2. \A p \in Requests : /\ pc'[p] \notin Running
                            /\ pc[p] = "failed" => pc'[p] = "failed"
    BY <1>1 DEF Restart, Running, Purging
  <2>3. OneSave' /\ ReadsCurrent' /\ FileWritten' /\ PurgeExact'
    BY <2>2 DEF OneSave, ReadsCurrent, FileWritten, PurgeExact, Running, Purging
  <2>4. FilesFinite' /\ LinesReadable' /\ LostByFailedSave'
    BY <2>1, <2>2 DEF FilesFinite, LinesReadable, LostByFailedSave, LatestReadable
  <2> QED
    BY <2>1, <2>3, <2>4
<1>2. CASE UNCHANGED vars
  BY <1>2 DEF vars, HistoryInv, TypeInv, TypeOK, TargetKnown, OneSave, ReadsCurrent, Latest,
              NewContent, FileWritten, PurgeExact, FilesFinite, LinesReadable,
              LostByFailedSave, LatestReadable
<1> QED
  BY <1>1, <1>2, ReadInv, WriteInv, AppendInv, AppendFailsInv, PurgeInv DEF Next, Step

\* That two saves have overlapped stays known.
LEMMA OverlapKept ==
  ASSUME overlapped, [Next]_vars
  PROVE  overlapped'
BY DEF Next, Step, Restart, ReadJournal, ReadFile, WriteFile, AppendJournal, AppendFails,
       ListFiles, ReadNames, PurgeFile, PurgeDone, PurgeFails, vars

\* The inductive invariant holds until two saves overlap.
THEOREM HistoryInvariant == Spec => [](overlapped \/ HistoryInv)
<1>1. Init => HistoryInv
  BY ConfigAssumption, NoOverlapFirst, FS_EmptySet
  DEF Init, HistoryInv, TypeInv, TypeOK, TargetKnown, OneSave, ReadsCurrent, FileWritten,
      PurgeExact, FilesFinite, LinesReadable, LastNames, LostByFailedSave, LatestReadable,
      Running, Purging
<1>2. (overlapped \/ HistoryInv) /\ [Next]_vars => (overlapped \/ HistoryInv)'
  BY HistoryStep, OverlapKept
<1> QED
  BY <1>1, <1>2, PTL DEF Spec

\* Until two saves overlap, no purge, failed write or crash removes a file that
\* one of the last ConfigHistoryLimit lines names; only the cleanup of a failed
\* append can.
THEOREM HistoryStaysReadable == Spec => []HistoryReadable
<1>1. overlapped \/ HistoryInv => HistoryReadable
  BY DEF HistoryInv, HistoryReadable
<1> QED
  BY <1>1, HistoryInvariant, PTL

\* Until two saves overlap, the current config is lost only to a save of that
\* content whose append failed: a device's PATCH, or a save whose line reached the
\* journal all the same.
THEOREM OnlyFailedSaveLosesLatest == Spec => []LatestLostByFailedSave
<1>1. overlapped \/ HistoryInv => LatestLostByFailedSave
  BY DEF HistoryInv, LatestLostByFailedSave
<1> QED
  BY <1>1, HistoryInvariant, PTL

-----------------------------------------------------------------------------
(* The purge *)

\* A purge that runs to its end leaves a directory below the limit, or one with
\* no file but those that the last lines name, until two saves overlap.
THEOREM PurgeIsComplete == Spec => PurgeRemovesOrphans
<1> DEFINE Complete ==
      \A q \in Requests :
        /\ pc[q] \in {"list", "delete"}
        /\ pc'[q] = "done"
        /\ faults' = faults
        /\ ~overlapped
        => \/ Cardinality(files') < KeepLatest
           \/ files' \subseteq LastNames(journal')
<1>1. Spec => [](overlapped \/ HistoryInv)
  BY HistoryInvariant
<1>2. (overlapped \/ HistoryInv) /\ [Next]_vars => Complete
  <2> SUFFICES ASSUME HistoryInv, Next, NEW q \in Requests,
                      pc[q] \in {"list", "delete"}, pc'[q] = "done", faults' = faults
               PROVE  \/ Cardinality(files') < KeepLatest
                      \/ files' \subseteq LastNames(journal')
    BY DEF vars
  <2>1. faults \in Nat /\ KeepLatest \in Nat /\ Cardinality(files) \in Nat
    BY FS_CardinalityType, ConfigAssumption DEF HistoryInv, TypeInv, TypeOK, FilesFinite
  <2>2. ~Fault
    BY <2>1 DEF Fault
  <2>3. PICK p \in Requests : Step(p)
    BY <2>2 DEF Next, Restart
  <2>4. p = q
    BY <2>3 DEF HistoryInv, TypeInv, TypeOK, Step, ReadJournal, ReadFile, Decide, WriteFile,
                AppendJournal, AppendFails, ListFiles, ReadNames, PurgeFile, PurgeDone,
                PurgeFails
  <2>5. ListFiles(q) \/ PurgeDone(q)
    BY <2>2, <2>3, <2>4
    DEF HistoryInv, TypeInv, TypeOK, Step, ReadJournal, ReadFile, WriteFile,
        AppendJournal, AppendFails, ReadNames, PurgeFile, PurgeFails
  <2>6. CASE ListFiles(q)
    <3>1. files' = files /\ Cardinality(files) + 1 <= KeepLatest
      BY <2>6 DEF ListFiles, HistoryInv, TypeInv, TypeOK
    <3> QED
      BY <2>1, <3>1
  <2>7. CASE PurgeDone(q)
    BY <2>7 DEF PurgeDone, HistoryInv, PurgeExact
  <2> QED
    BY <2>5, <2>6, <2>7
<1> QED
  BY <1>1, <1>2, PTL DEF Spec, PurgeRemovesOrphans

-----------------------------------------------------------------------------
(* The directory implements the register *)

\* A request has read the register before it saves, and saves what it makes of
\* that value.
SavesFound ==
  \A q \in Requests :
    /\ pc[q] = "idle" => seen[q] = None
    /\ pc[q] \in {"write", "append"} => target[q] = NewContent(q, seen[q])

RegisterInv == TypeInv /\ SavesFound

\* A request that goes to place c leaves the status of the others alone.
LEMMA StatusMoves ==
  ASSUME TypeOK, NEW q \in Requests, NEW c, pc' = [pc EXCEPT ![q] = c]
  PROVE  /\ \A p \in Requests \ {q} : Status(p)' = Status(p)
         /\ c = pc[q] => Status(q)' = Status(q)
         /\ c \in Purging \cup {"done"} => Status(q)' = "applied"
         /\ c = "failed" => Status(q)' = "failed"
         /\ c \in {"readFile", "write", "append"} => Status(q)' = "begun"
BY DEF Status, TypeOK, Purging

\* Where a request is says how the register sees it.
LEMMA StatusIs ==
  ASSUME NEW q \in Requests
  PROVE  /\ pc[q] = "idle" => Status(q) = "open"
         /\ pc[q] \in Purging \cup {"done"} => Status(q) = "applied"
         /\ pc[q] \in {"readFile", "write", "append"} => Status(q) = "begun"
BY DEF Status, Purging

\* A step that moves no status, and leaves the value and what was found, is none of
\* the register.
RegisterStutters ==
  (\A p \in Requests : Status(p)' = Status(p)) /\ Latest' = Latest /\ seen' = seen

\* A step that ends the requests in qs without touching the value.
Ended(qs) ==
  /\ \A q \in qs : Status(q) \in {"begun", "applied"}
  /\ \A p \in Requests : Status(p)' = IF p \in qs THEN "failed" ELSE Status(p)
  /\ Latest' = Latest /\ seen' = seen

\* A step that makes of one request's status what end says.
Moves(q, end) ==
  \A p \in Requests : Status(p)' = IF p = q THEN end ELSE Status(p)

\* Every step of the directory, whatever else is in progress, is a step of the
\* register or none.
RegisterDoes ==
  \/ RegisterStutters
  \/ \E q \in Requests :
       \/ /\ Status(q) = "open" /\ Moves(q, "begun")
          /\ seen' = [seen EXCEPT ![q] = Latest] /\ Latest' = Latest
       \/ /\ Status(q) = "begun"
          /\ Moves(q, "applied") \/ Moves(q, "failed")
          /\ Latest' = NewContent(q, seen[q]) /\ seen' = seen
       \/ /\ Status(q) = "begun" /\ Moves(q, "applied")
          /\ NewContent(q, seen[q]) = seen[q] /\ Latest' = Latest /\ seen' = seen
  \/ \E qs \in SUBSET Requests : Ended(qs)

\* Reading begins the request, with the value of the register.
LEMMA ReadJournalDoes ==
  ASSUME RegisterInv, NEW q \in Requests, ReadJournal(q)
  PROVE  RegisterDoes /\ SavesFound'
<1> USE DEF RegisterInv, TypeInv
<1>1. pc[q] = "idle" /\ Status(q) = "open" /\ Latest' = Latest /\ seen[q] = None
  BY StatusIs DEF ReadJournal, Latest, SavesFound
<1>2. PICK c \in {"readFile", "write"} : pc' = [pc EXCEPT ![q] = c]
  <2>1. q.content # None
    BY ConfigAssumption
  <2> QED
    BY <2>1 DEF ReadJournal, Decide
<1>3. Moves(q, "begun")
  BY <1>2, StatusMoves DEF Moves
<1>4. seen' = [seen EXCEPT ![q] = Latest]
  <2>1. CASE journal = <<>>
    BY <1>1, <2>1 DEF ReadJournal, Latest, TypeOK
  <2>2. CASE journal # <<>>
    BY <2>2 DEF ReadJournal, Latest
  <2> QED
    BY <2>1, <2>2
<1>5. SavesFound'
  <2>1. \A p \in Requests \ {q} : pc'[p] = pc[p] /\ seen'[p] = seen[p] /\ target'[p] = target[p]
    BY <1>2, <1>4 DEF ReadJournal, Decide, TypeOK
  <2>2. pc'[q] # "idle" /\ pc'[q] # "append"
    BY <1>2 DEF TypeOK
  <2>3. pc'[q] = "write" => target'[q] = NewContent(q, seen'[q])
    <3>1. CASE journal = <<>>
      BY <1>1, <3>1 DEF ReadJournal, Decide, TypeOK, NewContent
    <3>2. CASE journal # <<>>
      BY <3>2 DEF ReadJournal, TypeOK
    <3> QED
      BY <3>1, <3>2
  <2> QED
    BY <2>1, <2>2, <2>3 DEF SavesFound, NewContent
<1> QED
  BY <1>1, <1>3, <1>4, <1>5 DEF RegisterDoes

\* A missing file fails the request; a content that is already there ends it.
LEMMA ReadFileDoes ==
  ASSUME RegisterInv, NEW q \in Requests, ReadFile(q)
  PROVE  RegisterDoes /\ SavesFound'
<1> USE DEF RegisterInv, TypeInv
<1>1. pc[q] = "readFile" /\ Status(q) = "begun" /\ Latest' = Latest /\ seen' = seen
  BY StatusIs DEF ReadFile, Latest
<1>2. CASE seen[q] \in files
  <2>1. /\ target' = [target EXCEPT ![q] = NewContent(q, seen[q])]
        /\ pc' = [pc EXCEPT ![q] = IF q.kind = "put" /\ q.content = seen[q]
                                     THEN "done" ELSE "write"]
    BY <1>2 DEF ReadFile, Decide
  <2>2. SavesFound'
    BY <1>1, <2>1 DEF SavesFound, TypeOK, NewContent
  <2>3. CASE q.kind = "put" /\ q.content = seen[q]
    <3>1. Moves(q, "applied")
      BY <2>1, <2>3, StatusMoves DEF Moves
    <3>2. NewContent(q, seen[q]) = seen[q]
      BY <2>3 DEF NewContent
    <3> QED
      BY <1>1, <2>2, <3>1, <3>2 DEF RegisterDoes
  <2>4. CASE ~(q.kind = "put" /\ q.content = seen[q])
    <3>1. pc' = [pc EXCEPT ![q] = "write"]
      BY <2>1, <2>4
    <3>2. Moves(q, "begun")
      BY <3>1, StatusMoves DEF Moves
    <3> QED
      BY <1>1, <2>2, <3>2 DEF RegisterDoes, RegisterStutters, Moves
  <2> QED
    BY <2>3, <2>4
<1>3. CASE seen[q] \notin files
  <2>1. pc' = [pc EXCEPT ![q] = "failed"] /\ target' = target
    BY <1>3 DEF ReadFile
  <2>2. Ended({q})
    BY <1>1, <2>1, StatusMoves DEF Ended
  <2>3. SavesFound'
    BY <1>1, <2>1 DEF SavesFound, TypeOK, NewContent
  <2> QED
    BY <2>2, <2>3 DEF RegisterDoes
<1> QED
  BY <1>2, <1>3

\* Writing the file is not visible; if it fails the request ends.
LEMMA WriteFileDoes ==
  ASSUME RegisterInv, NEW q \in Requests, WriteFile(q)
  PROVE  RegisterDoes /\ SavesFound'
<1> USE DEF RegisterInv, TypeInv
<1>1. /\ pc[q] = "write" /\ Status(q) = "begun" /\ Latest' = Latest
      /\ seen' = seen /\ target' = target
  BY StatusIs DEF WriteFile, Latest
<1>2. PICK c \in {"append", "failed"} : pc' = [pc EXCEPT ![q] = c]
  BY DEF WriteFile
<1>3. SavesFound'
  BY <1>1, <1>2 DEF SavesFound, TypeOK, NewContent
<1>4. CASE c = "append"
  <2>1. Moves(q, "begun")
    BY <1>2, <1>4, StatusMoves DEF Moves
  <2> QED
    BY <1>1, <1>3, <2>1 DEF RegisterDoes, RegisterStutters, Moves
<1>5. CASE c = "failed"
  <2>1. Ended({q})
    BY <1>1, <1>2, <1>5, StatusMoves DEF Ended
  <2> QED
    BY <1>3, <2>1 DEF RegisterDoes
<1> QED
  BY <1>2, <1>4, <1>5

\* The line replaces the value by what the request made of the one it found, also
\* if the append is then reported as failed.
LEMMA AppendDoes ==
  ASSUME RegisterInv, NEW q \in Requests, AppendJournal(q) \/ AppendFails(q)
  PROVE  RegisterDoes /\ SavesFound'
<1> USE DEF RegisterInv, TypeInv
<1>1. /\ pc[q] = "append" /\ Status(q) = "begun"
      /\ seen' = seen /\ target' = target
  BY StatusIs DEF AppendJournal, AppendFails
<1>2. target[q] \in Contents /\ target[q] = NewContent(q, seen[q])
  BY <1>1 DEF TargetKnown, SavesFound
<1>3. PICK c \in {"list", "failed"} : pc' = [pc EXCEPT ![q] = c]
  BY DEF AppendJournal, AppendFails
<1>4. SavesFound'
  BY <1>1, <1>3 DEF SavesFound, TypeOK, NewContent
<1>5. CASE journal' = Append(journal, target[q])
  <2>1. Latest' = NewContent(q, seen[q])
    BY <1>2, <1>5, LastNamesAppend DEF Latest
  <2>2. Moves(q, "applied") \/ Moves(q, "failed")
    BY <1>3, StatusMoves DEF Moves, Purging
  <2> QED
    BY <1>1, <1>4, <2>1, <2>2 DEF RegisterDoes
<1>6. CASE AppendFails(q) /\ journal' = journal
  <2>1. pc' = [pc EXCEPT ![q] = "failed"]
    BY <1>6 DEF AppendFails
  <2>2. Latest' = Latest
    BY <1>6 DEF Latest
  <2>3. Ended({q})
    BY <1>1, <2>1, <2>2, StatusMoves DEF Ended
  <2> QED
    BY <1>4, <2>3 DEF RegisterDoes
<1> QED
  BY <1>5, <1>6 DEF AppendJournal, AppendFails

\* The purge is not visible.
LEMMA PurgeDoes ==
  ASSUME RegisterInv, NEW q \in Requests,
         ListFiles(q) \/ ReadNames(q) \/ PurgeFile(q) \/ PurgeDone(q) \/ PurgeFails(q)
  PROVE  RegisterDoes /\ SavesFound'
<1> USE DEF RegisterInv, TypeInv
<1>1. pc[q] \in Purging /\ Latest' = Latest /\ seen' = seen /\ target' = target
  BY DEF ListFiles, ReadNames, PurgeFile, PurgeDone, PurgeFails, Purging, Latest
<1>2. PICK c \in Purging \cup {"done"} : pc' = [pc EXCEPT ![q] = c]
  BY DEF ListFiles, ReadNames, PurgeFile, PurgeDone, PurgeFails, Purging, TypeOK
<1>3. SavesFound'
  BY <1>1, <1>2 DEF SavesFound, TypeOK, NewContent, Purging
<1>4. Status(q) = "applied" /\ Moves(q, "applied")
  BY <1>1, <1>2, StatusIs, StatusMoves DEF Moves
<1> QED
  BY <1>1, <1>3, <1>4 DEF RegisterDoes, RegisterStutters, Moves

\* Every step of the directory is a step of the register or leaves it alone.
LEMMA RegisterStep ==
  ASSUME RegisterInv, [Next]_vars
  PROVE  RegisterDoes /\ RegisterInv'
<1>1. TypeInv'
  BY TypeStep DEF RegisterInv
<1>2. CASE Restart
  <2> DEFINE qs == {q \in Requests : pc[q] \in Running}
  <2>1. Latest' = Latest /\ seen' = seen /\ target' = target
    BY <1>2 DEF Restart, Latest
  <2>2. \A p \in Requests : pc'[p] = IF p \in qs THEN "failed" ELSE pc[p]
    BY <1>2 DEF Restart
  <2>3. \A p \in Requests : Status(p)' = IF p \in qs THEN "failed" ELSE Status(p)
    BY <2>2 DEF Status, Purging
  <2>4. \A p \in qs : Status(p) \in {"begun", "applied"}
    BY DEF Status, Running, Purging
  <2>5. Ended(qs) /\ qs \in SUBSET Requests
    BY <2>1, <2>3, <2>4 DEF Ended
  <2>6. SavesFound'
    BY <2>1, <2>2 DEF RegisterInv, SavesFound, NewContent, Running, Purging
  <2> QED
    BY <1>1, <2>5, <2>6 DEF RegisterDoes, RegisterInv
<1>3. CASE UNCHANGED vars
  BY <1>1, <1>3 DEF vars, RegisterDoes, RegisterStutters, RegisterInv, SavesFound, NewContent,
                    Status, Latest
<1> QED
  BY <1>1, <1>2, <1>3, ReadJournalDoes, ReadFileDoes, WriteFileDoes, AppendDoes, PurgeDoes
  DEF Next, Step, RegisterInv

\* A directory is a register to its clients, also if they save side by side: no
\* crash, failed write or purge shows them anything else.
THEOREM DirectoryIsRegister == Spec => ImplementsRegister
<1>1. Init => RegisterInv /\ Register!Init
  BY ConfigAssumption, NoOverlapFirst
  DEF Init, RegisterInv, TypeInv, TypeOK, TargetKnown, SavesFound, Register!Init, Latest,
      Status, Purging
<1>2. RegisterInv /\ [Next]_vars => [Register!Next]_(Register!vars)
  <2> SUFFICES ASSUME RegisterInv, [Next]_vars
               PROVE  Register!Next \/ UNCHANGED Register!vars
    OBVIOUS
  <2>1. RegisterDoes
    BY RegisterStep
  <2>2. CASE RegisterStutters
    BY <2>2 DEF RegisterStutters, Register!vars
  <2>3. CASE \E qs \in SUBSET Requests : Ended(qs)
    BY <2>3 DEF Ended, Register!Next, Register!Fail
  <2>4. CASE ~RegisterStutters /\ ~\E qs \in SUBSET Requests : Ended(qs)
    <3>1. PICK q \in Requests :
            \/ /\ Status(q) = "open" /\ Moves(q, "begun")
               /\ seen' = [seen EXCEPT ![q] = Latest] /\ Latest' = Latest
            \/ /\ Status(q) = "begun"
               /\ Moves(q, "applied") \/ Moves(q, "failed")
               /\ Latest' = NewContent(q, seen[q]) /\ seen' = seen
            \/ /\ Status(q) = "begun" /\ Moves(q, "applied")
               /\ NewContent(q, seen[q]) = seen[q] /\ Latest' = Latest /\ seen' = seen
      BY <2>1, <2>4 DEF RegisterDoes
    <3> DEFINE st == [p \in Requests |-> Status(p)]
    <3>2. \A end : Moves(q, end) => st' = [st EXCEPT ![q] = end]
      BY DEF Moves
    <3>3. st[q] = Status(q)
      OBVIOUS
    <3> HIDE DEF st
    <3>4. Register!Begin(q) \/ Register!Apply(q) \/ Register!Skip(q)
      BY <3>1, <3>2, <3>3 DEF Register!Begin, Register!Apply, Register!Skip, st
    <3> QED
      BY <3>4 DEF Register!Next
  <2> QED
    BY <2>2, <2>3, <2>4
<1>3. RegisterInv /\ [Next]_vars => RegisterInv'
  BY RegisterStep
<1> QED
  BY <1>1, <1>2, <1>3, PTL DEF Spec, ImplementsRegister, Register!Spec

-----------------------------------------------------------------------------
(* Delivery.  Each directory is its latest entry here; nothing below rests   *)
(* on ConfigAssumption.                                                     *)

IsConfig(c) == c.at \in Nat /\ WellFormed(c.files)

PollStates == {"idle", "factory", "group", "device", "answer"}

RequestShapes ==
  /\ place = [q \in Changes |-> place[q]]
  /\ body = [q \in Changes |-> body[q]] /\ \A q \in Changes : WellFormed(body[q])
  /\ stamp = [q \in Changes |-> stamp[q]] /\ \A q \in Changes : stamp[q] \in Nat

Shapes ==
  /\ latest = [l \in Levels |-> latest[l]] /\ \A l \in Levels : IsConfig(latest[l])
  /\ row.group \in Groups \cup {NoGroup} /\ row.at \in Nat
  /\ now \in Nat
  /\ RequestShapes
  /\ DOMAIN poll = {"pc", "row", "got", "passed"} /\ IsTable(poll)
  /\ poll.pc \in PollStates /\ poll.row.group \in Groups \cup {NoGroup} /\ poll.row.at \in Nat
  /\ poll.got = <<poll.got[1], poll.got[2], poll.got[3]>>
  /\ \A i \in 1..3 : poll.got[i].at \in Nat
  /\ device.since \in Nat
  /\ late \in BOOLEAN

\* The running poll has read level i.
HasRead(i) ==
  \/ poll.pc = "group" /\ i = 1
  \/ poll.pc = "device" /\ i \in {1, 2}
  \/ poll.pc = "answer"

\* What the running poll has read is current, or the change is on record.
PollInv ==
  poll.pc # "idle" =>
    \/ 0 \in poll.passed \/ row.at \in poll.passed
    \/ /\ row = poll.row
       /\ \A i \in 1..3 : HasRead(i) =>
            CurrentConfigs[i] = poll.got[i] \/ CurrentConfigs[i].at \in poll.passed

\* UpToDate, with the merge as the code makes it.
MergedInv ==
  \/ late
  \/ ~Broken(CurrentConfigs) /\ device.files = MergeLevels(CurrentConfigs)
  \/ device.files = NoValue /\ LatestOf(row.at, CurrentConfigs) = 0
  \/ LatestOf(row.at, CurrentConfigs) > device.since

DeliveryInv == Shapes /\ PollInv /\ MergedInv

-----------------------------------------------------------------------------
(* Times and merging *)

\* The latest of a time and the times of three configs (GetConfigs).
LEMMA LatestIs ==
  ASSUME NEW g \in Nat, NEW c, \A i \in 1..3 : c[i].at \in Nat
  PROVE  /\ LatestOf(g, c) \in Nat /\ LatestOf(g, c) >= g
         /\ \A i \in 1..3 : LatestOf(g, c) >= c[i].at
         /\ LatestOf(g, c) = g \/ \E i \in 1..3 : LatestOf(g, c) = c[i].at
<1> DEFINE S == {g} \cup {c[i].at : i \in 1..3}
           a1 == c[1].at
           a2 == c[2].at
           a3 == c[3].at
<1>1. S = {g, a1, a2, a3} /\ a1 \in Nat /\ a2 \in Nat /\ a3 \in Nat
  OBVIOUS
<1>2. LatestOf(g, c) = CHOOSE x \in S : \A y \in S : x >= y
  BY DEF LatestOf, Max
<1> HIDE DEF S, a1, a2, a3
<1>3. \E x \in S : \A y \in S : x >= y
  BY <1>1
<1>4. LatestOf(g, c) \in S /\ \A y \in S : LatestOf(g, c) >= y
  BY <1>2, <1>3
<1>5. \A i \in 1..3 : c[i].at \in S
  BY DEF S
<1>6. g \in S /\ \A x \in S : x = g \/ \E i \in 1..3 : x = c[i].at
  BY DEF S
<1> QED
  BY <1>1, <1>4, <1>5, <1>6

\* An overlay keeps the sota override well formed.
LEMMA OverFormed ==
  ASSUME NEW f, NEW g, WellFormed(f), WellFormed(g), f # NoFiles, g # NoFiles
  PROVE  WellFormed(Over(f, g))
BY DEF WellFormed, Over, IsTable

\* Files that are there.
LEMMA FilesFormed ==
  ASSUME NEW base, WellFormed(base)
  PROVE  WellFormed(Files(base)) /\ (Files(base) # NoFiles \/ DOMAIN Files(base) = {})
BY DEF Files, WellFormed

\* y is f laid over x; of the sota override, key by key.
Laid(x, f, y) ==
  /\ IsTable(y) /\ DOMAIN y = DOMAIN x \cup DOMAIN f
  /\ \A n \in DOMAIN f : y[n] = IF n = Sota /\ n \in DOMAIN x THEN Over(f[n], x[n]) ELSE f[n]
  /\ \A n \in DOMAIN x : n \notin DOMAIN f => y[n] = x[n]

\* One level laid over the levels below it.
LEMMA LevelLaid ==
  ASSUME NEW x, IsTable(x), NEW c
  PROVE  Laid(x, Files(c.files), AddLevel(x, c))
<1> DEFINE f == Files(c.files)
           y == AddLevel(x, c)
<1>1. CASE c.files = NoFiles
  <2>1. f = <<>> /\ y = x
    BY <1>1 DEF Files, AddLevel
  <2>2. DOMAIN f = {}
    BY <2>1
  <2> HIDE DEF f, y
  <2>3. Laid(x, f, y)
    BY <2>1, <2>2 DEF Laid
  <2> QED
    BY <2>3 DEF f, y
<1>2. CASE c.files # NoFiles
  <2>1. f = c.files
    BY <1>2 DEF Files
  <2>2. y = [n \in DOMAIN x \cup DOMAIN f |->
               IF n \notin DOMAIN f THEN x[n]
               ELSE IF n = Sota /\ n \in DOMAIN x THEN Over(f[n], x[n]) ELSE f[n]]
    BY <1>2, <2>1 DEF AddLevel
  <2> HIDE DEF f, y
  <2>3. Laid(x, f, y)
    BY <2>2 DEF Laid, IsTable
  <2> QED
    BY <2>3 DEF f, y
<1> QED
  BY <1>1, <1>2

\* The highest of the levels 1 to 3 that have something.
LEMMA HighestIs ==
  ASSUME NEW S, S \subseteq 1..3
  PROVE  /\ 3 \in S => Max(S) = 3
         /\ 3 \notin S /\ 2 \in S => Max(S) = 2
         /\ S = {1} => Max(S) = 1
<1>1. Max(S) = CHOOSE x \in S : \A y \in S : x >= y
  BY DEF Max
<1>2. ASSUME NEW m \in S, \A y \in S : m >= y
      PROVE  Max(S) = m
  <2>1. Max(S) \in S /\ \A y \in S : Max(S) >= y
    BY <1>1, <1>2
  <2> DEFINE x == Max(S)
  <2>2. x \in S /\ m \in S /\ m >= x /\ x >= m
    BY <1>2, <2>1
  <2> HIDE DEF x
  <2>3. x \in Int /\ m \in Int
    BY <2>2
  <2>4. x = m
    BY <2>2, <2>3
  <2> QED
    BY <2>4 DEF x
<1>3. 3 \in S => Max(S) = 3
  BY <1>2
<1>4. 3 \notin S /\ 2 \in S => Max(S) = 2
  BY <1>2
<1>5. S = {1} => Max(S) = 1
  BY <1>2
<1> QED
  BY <1>3, <1>4, <1>5

\* Nothing laid over a table, and a table laid over nothing.
LEMMA OverNothing ==
  ASSUME NEW f, IsTable(f), NEW e, DOMAIN e = {}
  PROVE  Over(f, e) = f /\ Over(e, f) = f
BY DEF Over, IsTable

\* Three tables laid over one another.
Three(f, g, h) ==
  [x \in DOMAIN f \cup DOMAIN g \cup DOMAIN h |->
     IF x \in DOMAIN h THEN h[x] ELSE IF x \in DOMAIN g THEN g[x] ELSE f[x]]

\* The keys of three levels.
LEMMA OverThree ==
  ASSUME NEW f, NEW g, NEW h
  PROVE  Over(h, Over(g, f)) = Three(f, g, h)
<1>1. Over(g, f) = [x \in DOMAIN g \cup DOMAIN f |-> IF x \in DOMAIN g THEN g[x] ELSE f[x]]
  BY DEF Over
<1> DEFINE o == Over(g, f)
<1>2. DOMAIN o = DOMAIN g \cup DOMAIN f
      /\ \A x \in DOMAIN o : o[x] = IF x \in DOMAIN g THEN g[x] ELSE f[x]
  BY <1>1
<1> HIDE DEF o
<1>3. Over(h, o) = [x \in DOMAIN h \cup DOMAIN o |-> IF x \in DOMAIN h THEN h[x] ELSE o[x]]
  BY DEF Over
<1>4. DOMAIN h \cup DOMAIN o = DOMAIN f \cup DOMAIN g \cup DOMAIN h
  BY <1>2
<1>5. \A x \in DOMAIN f \cup DOMAIN g \cup DOMAIN h :
        (IF x \in DOMAIN h THEN h[x] ELSE o[x])
        = (IF x \in DOMAIN h THEN h[x] ELSE IF x \in DOMAIN g THEN g[x] ELSE f[x])
  BY <1>2
<1>6. Over(h, o) = [x \in DOMAIN f \cup DOMAIN g \cup DOMAIN h |->
              IF x \in DOMAIN h THEN h[x] ELSE IF x \in DOMAIN g THEN g[x] ELSE f[x]]
  BY <1>3, <1>4, <1>5
<1> QED
  BY <1>6 DEF o, Three

\* What configGet merges is, of each file and of each key of the sota override, the
\* one of the highest level that has it.
LEMMA MergeIs ==
  ASSUME \A i \in 1..3 : WellFormed(CurrentConfigs[i].files), ~Broken(CurrentConfigs)
  PROVE  MergeLevels(CurrentConfigs) = ToHave
<1> DEFINE F(i) == Files(CurrentConfigs[i].files)
           K(i) == SotaOf(F(i))
           D(n) == {i \in 1..3 : n \in DOMAIN F(i)}
           E(k) == {i \in 1..3 : k \in DOMAIN K(i)}
           y1 == AddLevel(<<>>, CurrentConfigs[1])
           y2 == AddLevel(y1, CurrentConfigs[2])
           y3 == AddLevel(y2, CurrentConfigs[3])
           sota == Over(K(3), Over(K(2), K(1)))
<1>1. MergeLevels(CurrentConfigs) = y3
  BY DEF MergeLevels
<1>2. ToHave = [n \in UNION {DOMAIN F(i) : i \in 1..3} |->
                  IF n # Sota THEN F(Max(D(n)))[n]
                  ELSE [k \in UNION {DOMAIN K(i) : i \in 1..3} |-> K(Max(E(k)))[k]]]
  BY DEF ToHave
<1>3. /\ IsTable(y1) /\ DOMAIN y1 = DOMAIN F(1)
      /\ \A n \in DOMAIN F(1) : y1[n] = F(1)[n]
  <2>1. IsTable(<<>>) /\ DOMAIN <<>> = {}
    BY DEF IsTable
  <2>2. Laid(<<>>, F(1), y1)
    BY <2>1, LevelLaid
  <2> HIDE DEF F, y1
  <2> QED
    BY <2>1, <2>2 DEF Laid
<1>4. /\ IsTable(y2) /\ DOMAIN y2 = DOMAIN y1 \cup DOMAIN F(2)
      /\ \A n \in DOMAIN F(2) : y2[n] = IF n = Sota /\ n \in DOMAIN y1 THEN Over(F(2)[n], y1[n]) ELSE F(2)[n]
      /\ \A n \in DOMAIN y1 : n \notin DOMAIN F(2) => y2[n] = y1[n]
  <2>1. Laid(y1, F(2), y2)
    BY <1>3, LevelLaid
  <2> HIDE DEF F, y1, y2
  <2> QED
    BY <2>1 DEF Laid
<1>5. /\ IsTable(y3) /\ DOMAIN y3 = DOMAIN y2 \cup DOMAIN F(3)
      /\ \A n \in DOMAIN F(3) : y3[n] = IF n = Sota /\ n \in DOMAIN y2 THEN Over(F(3)[n], y2[n]) ELSE F(3)[n]
      /\ \A n \in DOMAIN y2 : n \notin DOMAIN F(3) => y3[n] = y2[n]
  <2>1. Laid(y2, F(3), y3)
    BY <1>4, LevelLaid
  <2> HIDE DEF F, y2, y3
  <2> QED
    BY <2>1 DEF Laid
<1>6. \A i \in 1..3 : /\ Sota \in DOMAIN F(i) => K(i) = F(i)[Sota] /\ IsTable(K(i))
                      /\ Sota \notin DOMAIN F(i) => DOMAIN K(i) = {}
  <2> SUFFICES ASSUME NEW i \in 1..3
               PROVE  /\ Sota \in DOMAIN F(i) => K(i) = F(i)[Sota] /\ IsTable(K(i))
                      /\ Sota \notin DOMAIN F(i) => DOMAIN K(i) = {}
    OBVIOUS
  <2>1. Files(F(i)) = F(i) /\ WellFormed(F(i)) /\ DOMAIN <<>> = {}
    BY DEF Files, WellFormed
  <2>2. K(i) = IF Sota \in DOMAIN F(i) THEN F(i)[Sota] ELSE <<>>
    BY <2>1 DEF SotaOf
  <2>3. F(i) = NoFiles => DOMAIN F(i) = {}
    BY <2>1 DEF Files
  <2>4. Sota \in DOMAIN F(i) => F(i)[Sota] # BadToml
    <3>1. CASE CurrentConfigs[i].files = NoFiles
      <4>1. F(i) = <<>>
        BY <3>1 DEF Files
      <4> QED
        BY <2>1, <4>1
    <3>2. CASE CurrentConfigs[i].files # NoFiles
      <4>1. F(i) = CurrentConfigs[i].files
        BY <3>2 DEF Files
      <4> QED
        BY <3>2, <4>1 DEF Broken
    <3> QED
      BY <3>1, <3>2
  <2> HIDE DEF F, K
  <2> QED
    BY <2>1, <2>2, <2>3, <2>4 DEF WellFormed
<1>7. \A n : /\ 3 \in D(n) => Max(D(n)) = 3
             /\ 3 \notin D(n) /\ 2 \in D(n) => Max(D(n)) = 2
             /\ 3 \notin D(n) /\ 2 \notin D(n) /\ 1 \in D(n) => Max(D(n)) = 1
  <2> SUFFICES ASSUME NEW n
               PROVE  /\ 3 \in D(n) => Max(D(n)) = 3
                      /\ 3 \notin D(n) /\ 2 \in D(n) => Max(D(n)) = 2
                      /\ 3 \notin D(n) /\ 2 \notin D(n) /\ 1 \in D(n) => Max(D(n)) = 1
    OBVIOUS
  <2>1. D(n) \subseteq 1..3
    OBVIOUS
  <2> HIDE DEF D
  <2>2. 3 \notin D(n) /\ 2 \notin D(n) /\ 1 \in D(n) => D(n) = {1}
    BY <2>1
  <2> QED
    BY <2>1, <2>2, HighestIs
<1>8. \A k : /\ 3 \in E(k) => Max(E(k)) = 3
             /\ 3 \notin E(k) /\ 2 \in E(k) => Max(E(k)) = 2
             /\ 3 \notin E(k) /\ 2 \notin E(k) /\ 1 \in E(k) => Max(E(k)) = 1
  <2> SUFFICES ASSUME NEW k
               PROVE  /\ 3 \in E(k) => Max(E(k)) = 3
                      /\ 3 \notin E(k) /\ 2 \in E(k) => Max(E(k)) = 2
                      /\ 3 \notin E(k) /\ 2 \notin E(k) /\ 1 \in E(k) => Max(E(k)) = 1
    OBVIOUS
  <2>1. E(k) \subseteq 1..3
    OBVIOUS
  <2> HIDE DEF E
  <2>2. 3 \notin E(k) /\ 2 \notin E(k) /\ 1 \in E(k) => E(k) = {1}
    BY <2>1
  <2> QED
    BY <2>1, <2>2, HighestIs
<1>9. \A n : /\ 1 \in D(n) <=> n \in DOMAIN F(1)
             /\ 2 \in D(n) <=> n \in DOMAIN F(2)
             /\ 3 \in D(n) <=> n \in DOMAIN F(3)
  BY DEF D
<1>10. \A k : /\ 1 \in E(k) <=> k \in DOMAIN K(1)
              /\ 2 \in E(k) <=> k \in DOMAIN K(2)
              /\ 3 \in E(k) <=> k \in DOMAIN K(3)
  BY DEF E
<1>11. /\ UNION {DOMAIN F(i) : i \in 1..3} = DOMAIN F(1) \cup DOMAIN F(2) \cup DOMAIN F(3)
       /\ UNION {DOMAIN K(i) : i \in 1..3} = DOMAIN K(1) \cup DOMAIN K(2) \cup DOMAIN K(3)
  <2> HIDE DEF F, K
  <2>1. 1..3 = {1, 2, 3}
    OBVIOUS
  <2> QED
    BY <2>1
<1> HIDE DEF F, K, D, E, y1, y2, y3
<1>12. sota = [k \in UNION {DOMAIN K(i) : i \in 1..3} |-> K(Max(E(k)))[k]]
  <2>1. sota = [k \in DOMAIN K(1) \cup DOMAIN K(2) \cup DOMAIN K(3) |->
                  IF k \in DOMAIN K(3) THEN K(3)[k] ELSE IF k \in DOMAIN K(2) THEN K(2)[k] ELSE K(1)[k]]
    <3>1. sota = Three(K(1), K(2), K(3))
      BY OverThree
    <3> QED
      BY <3>1 DEF Three
  <2>2. \A k \in DOMAIN K(1) \cup DOMAIN K(2) \cup DOMAIN K(3) :
          (IF k \in DOMAIN K(3) THEN K(3)[k] ELSE IF k \in DOMAIN K(2) THEN K(2)[k] ELSE K(1)[k])
          = K(Max(E(k)))[k]
    BY <1>8, <1>10
  <2> HIDE DEF sota
  <2> QED
    BY <1>11, <2>1, <2>2
<1>13. Sota \in DOMAIN y3 => y3[Sota] = sota
  <2> HAVE Sota \in DOMAIN y3
  <2>1. Sota \in DOMAIN F(1) \/ Sota \in DOMAIN F(2) \/ Sota \in DOMAIN F(3)
    BY <1>3, <1>4, <1>5
  <2>2. CASE Sota \notin DOMAIN F(3)
    <3>1. Sota \in DOMAIN y2 /\ y3[Sota] = y2[Sota] /\ DOMAIN K(3) = {}
      BY <1>3, <1>4, <1>5, <1>6, <2>1, <2>2
    <3>2. CASE Sota \notin DOMAIN F(2)
      <4>1. y2[Sota] = K(1) /\ DOMAIN K(2) = {} /\ IsTable(K(1))
        BY <1>3, <1>4, <1>6, <2>1, <2>2, <3>2
      <4>2. Over(K(2), K(1)) = K(1)
        BY <4>1, OverNothing
      <4>3. Over(K(3), K(1)) = K(1)
        BY <3>1, <4>1, OverNothing
      <4> QED
        BY <3>1, <4>1, <4>2, <4>3
    <3>3. CASE Sota \in DOMAIN F(2) /\ Sota \notin DOMAIN F(1)
      <4>1. y2[Sota] = K(2) /\ DOMAIN K(1) = {} /\ IsTable(K(2))
        BY <1>3, <1>4, <1>6, <3>3
      <4>2. Over(K(2), K(1)) = K(2)
        BY <4>1, OverNothing
      <4>3. Over(K(3), K(2)) = K(2)
        BY <3>1, <4>1, OverNothing
      <4> QED
        BY <3>1, <4>1, <4>2, <4>3
    <3>4. CASE Sota \in DOMAIN F(2) /\ Sota \in DOMAIN F(1)
      <4> DEFINE o == Over(K(2), K(1))
      <4>1. y2[Sota] = o
        BY <1>3, <1>4, <1>6, <3>4
      <4>2. IsTable(o)
        BY DEF Over, IsTable
      <4> HIDE DEF o
      <4>3. Over(K(3), o) = o
        BY <3>1, <4>2, OverNothing
      <4> QED
        BY <3>1, <4>1, <4>3 DEF o
    <3> QED
      BY <3>2, <3>3, <3>4
  <2>3. CASE Sota \in DOMAIN F(3) /\ Sota \notin DOMAIN y2
    <3>1. y3[Sota] = K(3) /\ DOMAIN K(1) = {} /\ DOMAIN K(2) = {} /\ IsTable(K(3))
      BY <1>3, <1>4, <1>5, <1>6, <2>3
    <3>2. DOMAIN Over(K(2), K(1)) = {}
      BY <3>1 DEF Over
    <3> QED
      BY <3>1, <3>2, OverNothing
  <2>4. CASE Sota \in DOMAIN F(3) /\ Sota \in DOMAIN y2
    <3>1. y3[Sota] = Over(K(3), y2[Sota])
      BY <1>5, <1>6, <2>4
    <3>2. CASE Sota \notin DOMAIN F(2)
      <4>1. y2[Sota] = K(1) /\ DOMAIN K(2) = {} /\ IsTable(K(1))
        BY <1>3, <1>4, <1>6, <2>4, <3>2
      <4>2. Over(K(2), K(1)) = K(1)
        BY <4>1, OverNothing
      <4> QED
        BY <3>1, <4>1, <4>2
    <3>3. CASE Sota \in DOMAIN F(2) /\ Sota \notin DOMAIN F(1)
      <4>1. y2[Sota] = K(2) /\ DOMAIN K(1) = {} /\ IsTable(K(2))
        BY <1>3, <1>4, <1>6, <3>3
      <4>2. Over(K(2), K(1)) = K(2)
        BY <4>1, OverNothing
      <4> QED
        BY <3>1, <4>1, <4>2
    <3>4. CASE Sota \in DOMAIN F(2) /\ Sota \in DOMAIN F(1)
      <4>1. y2[Sota] = Over(K(2), K(1))
        BY <1>3, <1>4, <1>6, <3>4
      <4> QED
        BY <3>1, <4>1
    <3> QED
      BY <3>2, <3>3, <3>4
  <2> QED
    BY <2>2, <2>3, <2>4
<1>14. \A n \in DOMAIN y3 : n # Sota => y3[n] = F(Max(D(n)))[n]
  <2> SUFFICES ASSUME NEW n \in DOMAIN y3, n # Sota
               PROVE  y3[n] = F(Max(D(n)))[n]
    OBVIOUS
  <2>1. CASE n \in DOMAIN F(3)
    BY <1>5, <1>7, <1>9, <2>1
  <2>2. CASE n \notin DOMAIN F(3) /\ n \in DOMAIN F(2)
    BY <1>4, <1>5, <1>7, <1>9, <2>2
  <2>3. CASE n \notin DOMAIN F(3) /\ n \notin DOMAIN F(2)
    BY <1>3, <1>4, <1>5, <1>7, <1>9, <2>3
  <2> QED
    BY <2>1, <2>2, <2>3
<1>15. DOMAIN y3 = UNION {DOMAIN F(i) : i \in 1..3}
  BY <1>3, <1>4, <1>5, <1>11
<1>16. y3 = [n \in DOMAIN y3 |-> IF n # Sota THEN F(Max(D(n)))[n] ELSE sota]
  <2> HIDE DEF sota
  <2>1. \A n \in DOMAIN y3 : y3[n] = IF n # Sota THEN F(Max(D(n)))[n] ELSE sota
    BY <1>13, <1>14
  <2> QED
    BY <1>5, <2>1 DEF IsTable
<1> HIDE DEF sota
<1>17. ToHave = [n \in UNION {DOMAIN F(i) : i \in 1..3} |-> IF n # Sota THEN F(Max(D(n)))[n] ELSE sota]
  BY <1>2, <1>12
<1> QED
  BY <1>1, <1>15, <1>16, <1>17

-----------------------------------------------------------------------------
(* The steps *)

\* What GetConfigs gives for a group is three configs.
LEMMA ConfigsAre ==
  ASSUME NEW all, \A l \in Levels : IsConfig(all[l]), NEW g \in Groups \cup {NoGroup}
  PROVE  \A i \in 1..3 : IsConfig(ConfigsOf(all, g)[i])
<1>1. IsConfig(NoConfig)
  BY DEF IsConfig, NoConfig, WellFormed
<1>2. "factory" \in Levels /\ "device" \in Levels /\ (g # NoGroup => g \in Levels)
  BY DEF Levels
<1> DEFINE c == ConfigsOf(all, g)
<1>3. /\ c[1] = all["factory"]
      /\ c[2] = IF g = NoGroup THEN NoConfig ELSE all[g]
      /\ c[3] = all["device"]
  BY DEF ConfigsOf
<1> HIDE DEF c
<1>4. IsConfig(c[1]) /\ IsConfig(c[2]) /\ IsConfig(c[3])
  BY <1>1, <1>2, <1>3
<1> QED
  BY <1>4 DEF c

\* So are the device's current ones.
LEMMA CurrentAre ==
  ASSUME Shapes
  PROVE  \A i \in 1..3 : IsConfig(CurrentConfigs[i])
BY ConfigsAre DEF Shapes, CurrentConfigs

\* Files with others laid over them, none of which need be there.
LEMMA EditFormed ==
  ASSUME NEW f, NEW g, WellFormed(f), f # NoFiles, WellFormed(g)
  PROVE  WellFormed(Over(f, Files(g)))
<1>1. CASE Files(g) # NoFiles
  BY <1>1, OverFormed, FilesFormed
<1>2. CASE Files(g) = NoFiles
  <2>1. DOMAIN Files(g) = {}
    BY <1>2 DEF Files
  <2> DEFINE e == Files(g)
  <2> HIDE DEF e
  <2>2. DOMAIN e = {} => WellFormed(Over(f, e))
    BY DEF WellFormed, Over, IsTable
  <2> QED
    BY <2>1, <2>2 DEF e
<1> QED
  BY <1>1, <1>2

\* What a client makes of a config.
LEMMA EditedFormed ==
  ASSUME ValidConstants, NEW q \in Changes, q.kind \in ClientKinds, NEW base, WellFormed(base)
  PROVE  WellFormed(Edited(q, base))
<1>1. WellFormed(q.files) /\ q.files # NoFiles
  BY DEF ValidConstants, ClientKinds
<1>2. CASE q.kind = "edit" \/ q.kind = "set"
  <2>1. Edited(q, base) = Over(q.files, Files(base))
    BY <1>2 DEF Edited, EditFile, SetConfigs
  <2> QED
    BY <1>1, <2>1, EditFormed
<1>3. CASE q.kind = "remove"
  <2> DEFINE g == Files(base)
             names == DOMAIN q.files
  <2>1. Edited(q, base) = [n \in DOMAIN g \ names |-> g[n]]
    BY <1>3 DEF Edited, RemoveFile
  <2>2. WellFormed(g) /\ (g # NoFiles \/ DOMAIN g = {})
    BY FilesFormed
  <2> HIDE DEF g, names
  <2> QED
    BY <2>1, <2>2 DEF WellFormed
<1>4. CASE q.kind = "updates"
  <2> DEFINE new == Over(q.files[Sota], SotaOf(base))
             kept == [k \in {i \in DOMAIN new : new[i] # NoValue} |-> new[k]]
             g == Files(base)
             h == [n \in {Sota} |-> kept]
  <2>1. Edited(q, base) = Over(h, g)
    BY <1>4 DEF Edited, SetUpdates
  <2>2. IsTable(kept)
    BY DEF IsTable
  <2> HIDE DEF kept, g
  <2>3. Sota \in DOMAIN Over(h, g) /\ Over(h, g)[Sota] = kept
    BY DEF Over
  <2> QED
    BY <2>1, <2>2, <2>3 DEF WellFormed
<1> QED
  BY <1>2, <1>3, <1>4 DEF ClientKinds

\* A step that changes only the requests, the clock or config-applied.
LEMMA QuietKeeps ==
  ASSUME DeliveryInv, UNCHANGED <<latest, row, poll, device, late>>, Shapes'
  PROVE  DeliveryInv'
<1>1. PollInv'
  BY DEF DeliveryInv, PollInv, HasRead, CurrentConfigs
<1>2. MergedInv'
  BY DEF DeliveryInv, MergedInv, CurrentConfigs
<1> QED
  BY <1>1, <1>2 DEF DeliveryInv

\* The steps of a request before its append.
LEMMA RequestKeeps ==
  ASSUME ValidConstants, DeliveryInv, NEW q \in Changes,
         Fetch(q) \/ Put(q) \/ Patch(q) \/ Stamp(q) \/ WriteFails(q)
  PROVE  DeliveryInv'
<1>0. /\ Shapes /\ q.level \in Levels /\ WellFormed(q.files) /\ (q.kind # "put" => q.files # NoFiles)
      /\ WellFormed(NoFiles)
  BY DEF ValidConstants, DeliveryInv, WellFormed
<1>1. UNCHANGED <<latest, row, now, poll, device, late>>
  BY DEF Fetch, Put, Patch, Stamp, WriteFails, deviceVars
<1>2. \A r \in Changes : WellFormed(body[r])
  BY <1>0 DEF Shapes, RequestShapes
<1>3. \A l \in Levels : WellFormed(latest[l].files)
  BY <1>0 DEF Shapes, IsConfig
<1>4. RequestShapes'
  <2>0. /\ place = [r \in Changes |-> place[r]] /\ body = [r \in Changes |-> body[r]]
        /\ stamp = [r \in Changes |-> stamp[r]] /\ \A r \in Changes : stamp[r] \in Nat
        /\ now \in Nat
    BY <1>0 DEF Shapes, RequestShapes
  <2>1. ASSUME NEW how, Ends(q, how)
        PROVE  RequestShapes'
    BY <1>0, <1>2, <2>0, <2>1 DEF Ends, RequestShapes
  <2>2. ASSUME NEW fs, WellFormed(fs), Saves(q, fs)
        PROVE  RequestShapes'
    BY <1>2, <2>0, <2>2 DEF Saves, RequestShapes
  <2>3. CASE Fetch(q)
    <3> DEFINE base == ReadConfig(q.level)
    <3>1. WellFormed(Edited(q, base))
      BY <1>0, <1>3, <2>3, EditedFormed DEF Fetch, ReadConfig
    <3>2. CASE Ends(q, "failed") \/ Ends(q, "done")
      BY <2>1, <3>2
    <3>3. CASE /\ body' = [body EXCEPT ![q] = Edited(q, base)]
               /\ place' = [place EXCEPT ![q] = "send"]
               /\ UNCHANGED stamp
      <4> HIDE DEF base
      <4> QED
        BY <1>2, <2>0, <3>1, <3>3 DEF RequestShapes
    <3> QED
      BY <2>3, <3>2, <3>3 DEF Fetch
  <2>4. CASE Put(q)
    <3> DEFINE sent == IF q.kind = "put" THEN q.files ELSE body[q]
               fs == Content(q, sent)
    <3>1. WellFormed(sent)
      BY <1>0, <1>2
    <3>2. WellFormed(fs)
      BY <3>1, FilesFormed DEF Content
    <3>3. Ends(q, "failed") \/ Ends(q, "done") \/ Saves(q, fs)
      BY <2>4 DEF Put
    <3> QED
      BY <2>1, <2>2, <3>2, <3>3
  <2>5. CASE Patch(q)
    <3> DEFINE old == GetDeviceConfig
    <3>1. q.files # NoFiles /\ "device" \in Levels
      BY <1>0, <2>5 DEF Patch, Levels
    <3>2. WellFormed(old)
      <4>1. WellFormed(<<>>)
        BY DEF WellFormed
      <4> QED
        BY <1>3, <3>1, <4>1 DEF GetDeviceConfig
    <3>3. Ends(q, "failed") \/ (old # NoFiles /\ Saves(q, Over(q.files, old)))
      BY <2>5 DEF Patch
    <3>4. old # NoFiles => WellFormed(Over(q.files, old))
      BY <1>0, <3>1, <3>2, OverFormed
    <3> QED
      BY <2>1, <2>2, <3>3, <3>4
  <2>6. CASE Stamp(q)
    BY <1>2, <2>0, <2>6 DEF Stamp, RequestShapes
  <2>7. CASE WriteFails(q)
    BY <2>1, <2>7 DEF WriteFails
  <2> QED
    BY <2>3, <2>4, <2>5, <2>6, <2>7
<1>5. Shapes'
  BY <1>0, <1>1, <1>4 DEF Shapes
<1> QED
  BY <1>1, <1>5, QuietKeeps

\* A poll is past the place where it reads level i once it has read it.
LEMMA PassedIsRead ==
  ASSUME poll.pc \in PollStates, NEW l \in Levels
  PROVE  PollPassed(l) <=> HasRead(Position(l))
<1> DEFINE at == CHOOSE i \in 1..3 : Reads[i] = poll.pc
           n == Position(l)
<1>1. /\ poll.pc = "factory" => at = 1
      /\ poll.pc = "group" => at = 2
      /\ poll.pc = "device" => at = 3
  BY DEF Reads
<1>2. n \in {1, 2, 3}
  BY DEF Position
<1>3. PollPassed(l) <=> poll.pc # "idle" /\ (poll.pc = "answer" \/ n < at)
  BY DEF PollPassed
<1> HIDE DEF at, n
<1>4. PollPassed(l) <=> HasRead(n)
  BY <1>1, <1>2, <1>3 DEF HasRead, PollStates
<1> QED
  BY <1>4 DEF n

\* The append of a journal line: either the device's configs are newer now, or they
\* are the same, and the running poll sees the change or has it on record.
LEMMA AppendKeeps ==
  ASSUME ValidConstants, DeliveryInv, NEW q \in Changes, Appended(q),
         NEW how, Ends(q, how), UNCHANGED <<row, now, device>>
  PROVE  DeliveryInv'
<1> DEFINE c == [files |-> body[q], at |-> stamp[q]]
           old == CurrentConfigs
           i0 == Position(q.level)
<1>0. /\ Shapes /\ q.level \in Levels /\ WellFormed(NoFiles)
      /\ {NoGroup, "factory", "device"} \cap Groups = {}
  BY DEF ValidConstants, DeliveryInv, WellFormed
<1>1. /\ latest' = [latest EXCEPT ![q.level] = c]
      /\ row' = row /\ now' = now /\ device' = device
      /\ late' = (late \/ stamp[q] =< device.since)
      /\ poll' = [poll EXCEPT !.passed = IF PollPassed(q.level) THEN @ \cup {stamp[q]} ELSE @]
  BY DEF Appended, MakesLate
<1>2. IsConfig(c) /\ c.at = stamp[q] /\ stamp[q] \in Nat
  BY <1>0 DEF Shapes, RequestShapes, IsConfig
<1>3. RequestShapes'
  BY <1>0 DEF Ends, Shapes, RequestShapes
<1> HIDE DEF c
<1>4. /\ latest' = [l \in Levels |-> latest'[l]]
      /\ \A l \in Levels : latest'[l] = IF l = q.level THEN c ELSE latest[l]
  BY <1>0, <1>1 DEF Shapes
<1>5. /\ DOMAIN poll' = {"pc", "row", "got", "passed"} /\ IsTable(poll')
      /\ poll'.pc = poll.pc /\ poll'.row = poll.row /\ poll'.got = poll.got
      /\ poll.passed \subseteq poll'.passed
      /\ PollPassed(q.level) => stamp[q] \in poll'.passed
  BY <1>0, <1>1 DEF Shapes, IsTable
<1>6. Shapes'
  BY <1>0, <1>1, <1>2, <1>3, <1>4, <1>5 DEF Shapes
<1>7. i0 \in 1..3 /\ \A i \in 1..3 : \/ CurrentConfigs'[i] = old[i]
                                     \/ i = i0 /\ CurrentConfigs'[i] = c
  <2>1. /\ CurrentConfigs[1] = latest["factory"]
        /\ CurrentConfigs[2] = IF row.group = NoGroup THEN NoConfig ELSE latest[row.group]
        /\ CurrentConfigs[3] = latest["device"]
    BY DEF CurrentConfigs, ConfigsOf
  <2>2. /\ CurrentConfigs'[1] = latest'["factory"]
        /\ CurrentConfigs'[2] = IF row.group = NoGroup THEN NoConfig ELSE latest'[row.group]
        /\ CurrentConfigs'[3] = latest'["device"]
    BY <1>1 DEF CurrentConfigs, ConfigsOf
  <2>3. "factory" \in Levels /\ "device" \in Levels
        /\ (row.group # NoGroup => row.group \in Groups /\ row.group \in Levels)
    BY <1>0 DEF Shapes, Levels
  <2>4. /\ i0 \in 1..3
        /\ q.level = "factory" => i0 = 1
        /\ q.level = "device" => i0 = 3
        /\ q.level \in Groups => i0 = 2
    BY <1>0 DEF Position
  <2>5. CurrentConfigs'[1] = old[1] \/ (1 = i0 /\ CurrentConfigs'[1] = c)
    BY <1>4, <2>1, <2>2, <2>3, <2>4
  <2>6. CurrentConfigs'[2] = old[2] \/ (2 = i0 /\ CurrentConfigs'[2] = c)
    BY <1>4, <2>1, <2>2, <2>3, <2>4
  <2>7. CurrentConfigs'[3] = old[3] \/ (3 = i0 /\ CurrentConfigs'[3] = c)
    BY <1>4, <2>1, <2>2, <2>3, <2>4
  <2> QED
    BY <2>4, <2>5, <2>6, <2>7
<1>8. PollPassed(q.level) <=> HasRead(i0)
  BY <1>0, PassedIsRead DEF Shapes
<1>9. \A i : HasRead(i)' <=> HasRead(i)
  BY <1>5 DEF HasRead
<1> HIDE DEF i0, old
<1>10. PollInv'
  <2> SUFFICES ASSUME poll.pc # "idle", 0 \notin poll'.passed, row.at \notin poll'.passed
               PROVE  /\ row = poll.row
                      /\ \A i \in 1..3 : HasRead(i) =>
                           CurrentConfigs'[i] = poll.got[i] \/ CurrentConfigs'[i].at \in poll'.passed
    BY <1>1, <1>5, <1>9 DEF PollInv
  <2>1. /\ row = poll.row
        /\ \A i \in 1..3 : HasRead(i) =>
             old[i] = poll.got[i] \/ old[i].at \in poll.passed
    BY <1>5 DEF DeliveryInv, PollInv, old
  <2> QED
    BY <1>2, <1>5, <1>7, <1>8, <2>1
<1>11. MergedInv'
  <2>1. CASE \E i \in 1..3 : CurrentConfigs'[i] = c
    <3>1. \A i \in 1..3 : CurrentConfigs'[i].at \in Nat
      BY <1>2, <1>7, <1>0, CurrentAre DEF IsConfig, old
    <3>2. row.at \in Nat /\ device.since \in Nat
      BY <1>0 DEF Shapes
    <3>3. LatestOf(row.at, CurrentConfigs') \in Nat /\ LatestOf(row.at, CurrentConfigs') >= stamp[q]
      BY <1>2, <2>1, <3>1, <3>2, LatestIs
    <3>4. LatestOf(row.at, CurrentConfigs') > device.since \/ stamp[q] =< device.since
      BY <1>2, <3>2, <3>3
    <3> QED
      BY <1>1, <3>4 DEF MergedInv
  <2>2. CASE \A i \in 1..3 : CurrentConfigs'[i] = old[i]
    <3>1. CurrentConfigs' = CurrentConfigs
      BY <2>2 DEF CurrentConfigs, ConfigsOf, old
    <3> QED
      BY <1>1, <3>1 DEF DeliveryInv, MergedInv
  <2> QED
    BY <1>7, <2>1, <2>2
<1> QED
  BY <1>6, <1>10, <1>11 DEF DeliveryInv

\* An append that succeeds, or fails before or after the line is in the journal.
LEMMA SaveKeeps ==
  ASSUME ValidConstants, DeliveryInv, NEW q \in Changes, AppendConfig(q) \/ SaveFails(q)
  PROVE  DeliveryInv'
<1>1. /\ UNCHANGED <<row, now, device>>
      /\ Ends(q, "done") \/ Ends(q, "failed")
      /\ Appended(q) \/ UNCHANGED <<latest, poll, late>>
  BY DEF AppendConfig, SaveFails
<1>2. CASE Appended(q)
  BY <1>1, <1>2, AppendKeeps
<1>3. CASE UNCHANGED <<latest, poll, late>>
  <2>1. RequestShapes'
    BY <1>1 DEF Ends, DeliveryInv, Shapes, RequestShapes, WellFormed
  <2>2. Shapes'
    BY <1>1, <1>3, <2>1 DEF DeliveryInv, Shapes
  <2> QED
    BY <1>1, <1>3, <2>2, QuietKeeps
<1> QED
  BY <1>1, <1>2, <1>3

\* A device that changes its group gets the configs of another level, at a time that
\* the row notes.
LEMMA MoveKeeps ==
  ASSUME DeliveryInv, NEW g \in Groups \cup {NoGroup}, Move(g)
  PROVE  DeliveryInv'
<1>0. Shapes
  BY DEF DeliveryInv
<1>1. /\ row' = [group |-> g, at |-> now]
      /\ UNCHANGED <<latest, now, place, body, stamp, device>>
      /\ late' = (late \/ now =< device.since)
      /\ poll' = [poll EXCEPT !.passed = IF poll.pc # "idle" THEN @ \cup {now} ELSE @]
  BY DEF Move, MakesLate, InGroup, requestVars
<1>2. /\ DOMAIN poll' = {"pc", "row", "got", "passed"} /\ IsTable(poll')
      /\ poll'.pc = poll.pc /\ poll'.row = poll.row /\ poll'.got = poll.got
      /\ poll.pc # "idle" => now \in poll'.passed
  BY <1>0, <1>1 DEF Shapes, IsTable
<1>3. row'.group = g /\ row'.at = now /\ now \in Nat /\ device.since \in Nat
  BY <1>0, <1>1 DEF Shapes
<1>4. RequestShapes'
  BY <1>0, <1>1 DEF Shapes, RequestShapes
<1>5. Shapes'
  BY <1>0, <1>1, <1>2, <1>3, <1>4 DEF Shapes
<1>6. PollInv'
  BY <1>2, <1>3 DEF PollInv
<1>7. MergedInv'
  <2>1. \A i \in 1..3 : CurrentConfigs'[i].at \in Nat
    <3>1. \A i \in 1..3 : IsConfig(CurrentConfigs'[i])
      BY <1>5, ConfigsAre DEF Shapes, CurrentConfigs
    <3> QED
      BY <3>1 DEF IsConfig
  <2>2. LatestOf(now, CurrentConfigs') \in Nat /\ LatestOf(now, CurrentConfigs') >= now
    BY <1>3, <2>1, LatestIs
  <2>3. LatestOf(now, CurrentConfigs') > device.since \/ now =< device.since
    BY <1>3, <2>2
  <2> QED
    BY <1>1, <1>3, <2>3 DEF MergedInv
<1> QED
  BY <1>5, <1>6, <1>7 DEF DeliveryInv

\* An archive: what the running poll has read may be nothing of it, and it is newer
\* than what the device has or late.
LEMMA UploadKeeps ==
  ASSUME ValidConstants, DeliveryInv, NEW a \in Archives, Upload(a)
  PROVE  DeliveryInv'
<1>0. Shapes
  BY DEF DeliveryInv
<1>1. /\ latest' = a
      /\ UNCHANGED <<row, now, place, body, stamp, device>>
      /\ late' = (late \/ LatestOf(row.at, ConfigsOf(a, row.group)) =< device.since)
      /\ poll' = [poll EXCEPT !.passed = IF poll.pc = "idle" THEN @ ELSE {0}]
  BY DEF Upload, requestVars
<1>2. /\ DOMAIN poll' = {"pc", "row", "got", "passed"} /\ IsTable(poll')
      /\ poll'.pc = poll.pc /\ poll'.row = poll.row /\ poll'.got = poll.got
      /\ poll.pc # "idle" => 0 \in poll'.passed
  BY <1>0, <1>1 DEF Shapes, IsTable
<1>3. latest' = [l \in Levels |-> latest'[l]] /\ \A l \in Levels : IsConfig(latest'[l])
  BY <1>1 DEF IsConfig, ValidConstants
<1>4. RequestShapes'
  BY <1>0, <1>1 DEF Shapes, RequestShapes
<1>5. Shapes'
  BY <1>0, <1>1, <1>2, <1>3, <1>4 DEF Shapes
<1>6. PollInv'
  BY <1>2 DEF PollInv
<1>7. MergedInv'
  <2>1. \A i \in 1..3 : CurrentConfigs'[i].at \in Nat
    <3>1. \A i \in 1..3 : IsConfig(CurrentConfigs'[i])
      BY <1>5, ConfigsAre DEF Shapes, CurrentConfigs
    <3> QED
      BY <3>1 DEF IsConfig
  <2>2. row.at \in Nat /\ device.since \in Nat
    BY <1>0 DEF Shapes
  <2>3. LatestOf(row.at, CurrentConfigs') \in Nat
    BY <2>1, <2>2, LatestIs
  <2>4. CurrentConfigs' = ConfigsOf(a, row.group)
    BY <1>1 DEF CurrentConfigs
  <2>5. LatestOf(row.at, CurrentConfigs') > device.since
        \/ LatestOf(row.at, ConfigsOf(a, row.group)) =< device.since
    BY <2>2, <2>3, <2>4
  <2> QED
    BY <1>1, <2>5 DEF MergedInv
<1> QED
  BY <1>5, <1>6, <1>7 DEF DeliveryInv

\* NoPoll, as a poll.
LEMMA NoPollShape ==
  ASSUME Shapes, poll' = NoPoll, UNCHANGED <<latest, row, now, place, body, stamp>>,
         device'.since \in Nat, late' \in BOOLEAN
  PROVE  Shapes' /\ PollInv' /\ CurrentConfigs' = CurrentConfigs
<1>1. /\ poll' = [pc |-> "idle", row |-> [group |-> NoGroup, at |-> 0],
                  got |-> <<NoConfig, NoConfig, NoConfig>>, passed |-> {}]
      /\ NoConfig.at \in Nat
  BY DEF NoPoll, NoConfig
<1>2. RequestShapes'
  BY DEF Shapes, RequestShapes
<1> QED
  BY <1>1, <1>2 DEF Shapes, PollStates, IsTable, PollInv, CurrentConfigs

\* A poll reads the row, then the three configs.
LEMMA PollReads ==
  ASSUME DeliveryInv, PollStart \/ PollRead
  PROVE  DeliveryInv'
<1>0. Shapes
  BY DEF DeliveryInv
<1>1. UNCHANGED <<latest, row, now, place, body, stamp, device, late>>
  BY DEF PollStart, PollRead, requestVars
<1>2. MergedInv' /\ CurrentConfigs' = CurrentConfigs /\ RequestShapes'
  BY <1>0, <1>1 DEF DeliveryInv, MergedInv, CurrentConfigs, Shapes, RequestShapes
<1>3. CASE PollStart
  <2>1. /\ poll' = [pc |-> "factory", row |-> row, got |-> <<NoConfig, NoConfig, NoConfig>>, passed |-> {}]
        /\ NoConfig.at \in Nat
    BY <1>3 DEF PollStart, NoPoll, NoConfig
  <2>2. Shapes'
    BY <1>0, <1>1, <1>2, <2>1 DEF Shapes, PollStates, IsTable
  <2>3. PollInv'
    BY <1>1, <2>1 DEF PollInv, HasRead
  <2> QED
    BY <1>2, <2>2, <2>3 DEF DeliveryInv
<1>4. CASE PollRead /\ poll' = NoPoll
  <2>1. Shapes' /\ PollInv'
    BY <1>0, <1>1, <1>4, NoPollShape DEF Shapes
  <2> QED
    BY <1>2, <2>1 DEF DeliveryInv
<1>5. CASE PollRead /\ poll' # NoPoll
  <2> DEFINE i == CHOOSE n \in 1..3 : Reads[n] = poll.pc
             c == ConfigsOf(latest, poll.row.group)[i]
  <2>1. /\ i \in 1..3 /\ Reads[i] = poll.pc
        /\ i = 1 <=> poll.pc = "factory"
        /\ i = 2 <=> poll.pc = "group"
        /\ i = 3 <=> poll.pc = "device"
    BY <1>5 DEF PollRead, Reads
  <2>2. poll' = [poll EXCEPT !.got[i] = c, !.pc = IF i = 3 THEN "answer" ELSE Reads[i + 1]]
    BY <1>5 DEF PollRead
  <2>3. c.at \in Nat
    BY <1>0, <2>1, ConfigsAre DEF Shapes, IsConfig
  <2>4. poll.row = row => c = CurrentConfigs[i]
    BY DEF CurrentConfigs
  <2> HIDE DEF i, c
  <2>5. /\ i = 1 => Reads[i + 1] = "group"
        /\ i = 2 => Reads[i + 1] = "device"
    BY DEF Reads
  <2>6. /\ DOMAIN poll' = {"pc", "row", "got", "passed"} /\ IsTable(poll')
        /\ poll'.pc = IF i = 1 THEN "group" ELSE IF i = 2 THEN "device" ELSE "answer"
        /\ poll'.row = poll.row /\ poll'.passed = poll.passed
        /\ poll'.got = [poll.got EXCEPT ![i] = c]
    <3> DEFINE next == IF i = 3 THEN "answer" ELSE Reads[i + 1]
               got == [poll.got EXCEPT ![i] = c]
    <3>1. next = IF i = 1 THEN "group" ELSE IF i = 2 THEN "device" ELSE "answer"
      BY <2>1, <2>5
    <3>2. poll' = [poll EXCEPT !.got = got, !.pc = next]
      BY <2>2
    <3> HIDE DEF next, got
    <3>3. /\ DOMAIN poll' = {"pc", "row", "got", "passed"} /\ IsTable(poll')
          /\ poll'.pc = next /\ poll'.got = got
          /\ poll'.row = poll.row /\ poll'.passed = poll.passed
      BY <1>0, <3>2 DEF Shapes, IsTable
    <3> QED
      BY <3>1, <3>3 DEF got
  <2>7. /\ poll'.got = <<poll'.got[1], poll'.got[2], poll'.got[3]>>
        /\ \A n \in 1..3 : poll'.got[n] = IF n = i THEN c ELSE poll.got[n]
    BY <1>0, <2>1, <2>6 DEF Shapes
  <2>8. Shapes'
    BY <1>0, <1>1, <1>2, <2>3, <2>6, <2>7 DEF Shapes, PollStates
  <2>9. \A n \in 1..3 : HasRead(n)' => n = i \/ HasRead(n)
    BY <2>1, <2>6 DEF HasRead
  <2>10. poll.pc # "idle"
    BY <1>5 DEF PollRead
  <2>11. PollInv'
    BY <1>1, <1>2, <2>4, <2>6, <2>7, <2>9, <2>10 DEF DeliveryInv, PollInv
  <2> QED
    BY <1>2, <2>8, <2>11 DEF DeliveryInv
<1> QED
  BY <1>3, <1>4, <1>5

\* A poll that ends without a new answer leaves the device what it had.
LEMMA PollEnds ==
  ASSUME DeliveryInv, PollFails \/ PollUnchanged \/ PollRefused
  PROVE  DeliveryInv'
<1>1. poll' = NoPoll /\ UNCHANGED <<latest, row, now, place, body, stamp, device, late>>
  BY DEF PollFails, PollUnchanged, PollRefused, requestVars
<1>2. Shapes' /\ PollInv' /\ CurrentConfigs' = CurrentConfigs
  BY <1>1, NoPollShape DEF DeliveryInv, Shapes
<1> QED
  BY <1>1, <1>2 DEF DeliveryInv, MergedInv

\* A poll that is answered: what it has read is still current, or something is newer
\* than the answer's Date, or the change came late.
LEMMA PollSendsKeeps ==
  ASSUME DeliveryInv, PollSends
  PROVE  DeliveryInv'
<1> DEFINE ts == LatestOf(poll.row.at, poll.got)
           last == LatestOf(row.at, CurrentConfigs)
<1>0. Shapes
  BY DEF DeliveryInv
<1>1. /\ poll.pc = "answer" /\ poll' = NoPoll /\ ~Broken(poll.got)
      /\ UNCHANGED <<latest, row, now, place, body, stamp>>
  BY DEF PollSends, requestVars
<1>2. \/ UNCHANGED <<device, late>>
      \/ /\ device' = [files |-> MergeLevels(poll.got), since |-> ts]
         /\ late' = \E t \in poll.passed : t =< ts
  BY DEF PollSends
<1>3. ts \in Nat
  BY <1>0, LatestIs DEF Shapes
<1>4. row.at \in Nat /\ \A i \in 1..3 : CurrentConfigs[i].at \in Nat
  BY <1>0, CurrentAre DEF Shapes, IsConfig
<1>5. last \in Nat /\ last >= row.at /\ \A i \in 1..3 : last >= CurrentConfigs[i].at
  BY <1>4, LatestIs
<1> HIDE DEF ts, last
<1>6. CASE UNCHANGED <<device, late>>
  <2>1. Shapes' /\ PollInv' /\ CurrentConfigs' = CurrentConfigs
    BY <1>0, <1>1, <1>6, NoPollShape DEF Shapes
  <2> QED
    BY <1>1, <1>6, <2>1 DEF DeliveryInv, MergedInv
<1>7. CASE /\ device' = [files |-> MergeLevels(poll.got), since |-> ts]
           /\ late' = \E t \in poll.passed : t =< ts
  <2>1. device'.since = ts /\ device'.files = MergeLevels(poll.got) /\ late' \in BOOLEAN
    BY <1>7
  <2>2. Shapes' /\ PollInv' /\ CurrentConfigs' = CurrentConfigs
    BY <1>0, <1>1, <1>3, <2>1, NoPollShape
  <2>3. \/ \E t \in poll.passed : t =< ts
        \/ poll.got = CurrentConfigs
        \/ last > ts
    <3> SUFFICES ASSUME \A t \in poll.passed : ~(t =< ts), ~(last > ts)
                 PROVE  poll.got = CurrentConfigs
      OBVIOUS
    <3>1. 0 \notin poll.passed
      BY <1>3
    <3>2. row.at \notin poll.passed
      BY <1>3, <1>4, <1>5
    <3>3. \A i \in 1..3 : CurrentConfigs[i].at \notin poll.passed
      BY <1>3, <1>4, <1>5
    <3>4. \A i \in 1..3 : CurrentConfigs[i] = poll.got[i]
      BY <1>1, <3>1, <3>2, <3>3 DEF DeliveryInv, PollInv, HasRead
    <3>5. CurrentConfigs = <<CurrentConfigs[1], CurrentConfigs[2], CurrentConfigs[3]>>
      BY DEF CurrentConfigs, ConfigsOf
    <3> QED
      BY <1>0, <3>4, <3>5 DEF Shapes
  <2>4. LatestOf(row.at, CurrentConfigs)' = last
    BY <1>1, <2>2 DEF last
  <2>5. MergedInv'
    BY <1>1, <1>7, <2>1, <2>2, <2>3, <2>4 DEF MergedInv
  <2> QED
    BY <2>2, <2>5 DEF DeliveryInv
<1> QED
  BY <1>2, <1>6, <1>7

\* At first there is nothing to have.
LEMMA DeliveryStarts == DeliveryInit => DeliveryInv
<1> SUFFICES ASSUME DeliveryInit PROVE DeliveryInv
  OBVIOUS
<1>1. IsConfig(NoConfig) /\ NoConfig.at = 0 /\ WellFormed(NoFiles)
  BY DEF IsConfig, NoConfig, WellFormed
<1>2. row.group \in Groups \cup {NoGroup} /\ row.at \in Nat
  BY DEF DeliveryInit
<1>3. RequestShapes
  BY <1>1 DEF DeliveryInit, RequestShapes
<1>4. /\ poll = [pc |-> "idle", row |-> [group |-> NoGroup, at |-> 0],
                 got |-> <<NoConfig, NoConfig, NoConfig>>, passed |-> {}]
  BY DEF DeliveryInit, NoPoll
<1>5. Shapes
  <2>1. latest = [l \in Levels |-> latest[l]] /\ \A l \in Levels : IsConfig(latest[l])
    BY <1>1 DEF DeliveryInit
  <2>2. now \in Nat /\ device.since \in Nat /\ late \in BOOLEAN
    BY DEF DeliveryInit
  <2> QED
    BY <1>1, <1>2, <1>3, <1>4, <2>1, <2>2 DEF Shapes, PollStates, IsTable
<1>6. PollInv
  BY <1>4 DEF PollInv
<1>7. MergedInv
  <2> DEFINE last == LatestOf(row.at, CurrentConfigs)
  <2>1. last \in Nat
    BY <1>2, <1>5, CurrentAre, LatestIs DEF IsConfig
  <2>2. device.files = NoValue /\ device.since = 0
    BY DEF DeliveryInit
  <2> HIDE DEF last
  <2>3. last = 0 \/ last > 0
    BY <2>1
  <2> QED
    BY <2>2, <2>3 DEF MergedInv, last
<1> QED
  BY <1>5, <1>6, <1>7 DEF DeliveryInv

\* The inductive invariant of config delivery holds in every state.
THEOREM DeliveryInvariant == DeliverySpec => []DeliveryInv
<1>1. DeliveryInv /\ [DeliveryNext]_deliveryVars => DeliveryInv'
  <2> SUFFICES ASSUME DeliveryInv, [DeliveryNext]_deliveryVars PROVE DeliveryInv'
    OBVIOUS
  <2>0. ValidConstants
    BY DeliveryAssumption
  <2>1. CASE Tick
    <3>1. Shapes'
      BY <2>1 DEF Tick, deviceVars, DeliveryInv, Shapes, RequestShapes
    <3> QED
      BY <2>1, <3>1, QuietKeeps DEF Tick, deviceVars
  <2>2. CASE UNCHANGED deliveryVars
    <3>1. Shapes'
      BY <2>2 DEF deliveryVars, DeliveryInv, Shapes, RequestShapes
    <3> QED
      BY <2>2, <3>1, QuietKeeps DEF deliveryVars
  <2> QED
    BY <2>0, <2>1, <2>2, RequestKeeps, SaveKeeps, MoveKeeps, UploadKeeps, PollReads, PollEnds, PollSendsKeeps
    DEF DeliveryNext, Change, Poll
<1> QED
  BY <1>1, DeliveryStarts, PTL DEF DeliverySpec

\* Whatever the device lacks its next poll brings, for all requests, groups, archives
\* and crashes, unless the change came too late, and the merge gives it each file and
\* each key of the sota override from the right level (configGet).
THEOREM ChangesArrive == DeliverySpec => []UpToDate
<1>1. DeliveryInv => UpToDate
  <2> SUFFICES ASSUME DeliveryInv PROVE UpToDate
    OBVIOUS
  <2>1. ~Broken(CurrentConfigs) => MergeLevels(CurrentConfigs) = ToHave
    BY CurrentAre, MergeIs DEF DeliveryInv, IsConfig
  <2> QED
    BY <2>1 DEF DeliveryInv, MergedInv, UpToDate, HasCurrent
<1> QED
  BY <1>1, DeliveryInvariant, PTL

=============================================================================
