------------------------- MODULE DeviceEventsProofs -------------------------
(***************************************************************************)
(* Proofs about the files that devices' reports are kept in, for any       *)
(* devices, updates and requests, any number of files to keep, and faults  *)
(* and deletions without a bound.                                          *)
(***************************************************************************)
EXTENDS DeviceEvents, FiniteSetTheorems, SequenceTheorems, WellFoundedInduction, TLAPS

-----------------------------------------------------------------------------
(* The inductive invariants *)

IsRunning(r) == req[r].pc \in Running

\* The lines of a file: events, what was written of a test or an artifact.
Items ==
  {"whole", "part"} \cup {r.kind : r \in Requests}
    \cup UNION {{Valid(r)[n] : n \in Nat} : r \in Requests}

IsReq(s) == DOMAIN s = {"pc", "upd", "tag", "todo", "n", "at", "name"} /\ s.n \in Nat

\* How far the deletion of a device can be.
Removals == {"no", "row", "tried", "done", "left"}

\* The files of a device: finitely many, and none is empty.
FilesOK(f) ==
  /\ IsFiniteSet(DOMAIN f)
  /\ \A n \in DOMAIN f : f[n].data \in Seq(Items) /\ f[n].data # <<>>

Shapes ==
  /\ files = [d \in Devices |-> files[d]] /\ \A d \in Devices : FilesOK(files[d])
  /\ parts = [d \in Devices |-> parts[d]]
  /\ log = [u \in Updates |-> log[u]]
  /\ exists \subseteq Updates
  /\ assigned \in [Devices -> Updates \cup {None}]
  /\ removed \in [Devices -> Removals]
  /\ req = [r \in Requests |-> req[r]]
  /\ \A r \in Requests :
       IsReq(req[r]) /\ req[r].upd \in Updates \cup {None}
  /\ view = [pc |-> view.pc, dev |-> view.dev, todo |-> view.todo, clean |-> view.clean]

\* A device that is not marked has one request at a time, and none once its deletion
\* has begun.
AloneInv ==
  \A r \in Requests : IsRunning(r) /\ r.dev \notin mixed =>
    /\ removed[r.dev] = "no"
    /\ \A q \in Requests : IsRunning(q) /\ q.dev = r.dev => q = r

\* What was deleted is gone, and no request can bring it back.
GoneInv ==
  /\ \A d \in Devices : removed[d] = "done" /\ d \notin mixed => files[d] = <<>> /\ parts[d] = {}
  /\ \A u \in Updates : u \notin exists /\ u \notin late =>
       /\ log[u] = NoLog /\ \A d \in Devices : assigned[d] # u
       /\ \A r \in Requests : IsRunning(r) => req[r].upd # u

\* A list of files that are there, none of them twice.
Listing(s, f) ==
  s \in Seq(DOMAIN f) /\ \A i, j \in 1 .. Len(s) : i # j => s[i] # s[j]

\* Where a request is it will not fail: its partial file is there, and so are the
\* files it is to delete.
Unhindered(r) ==
  /\ req[r].pc = "read" => r.kind = "testComplete"
  /\ req[r].pc \in {"check", "open", "copy"} => r.kind = "testArtifact"
  /\ req[r].pc = "rename" /\ r.dev \notin mixed => req[r].name \in parts[r.dev]
  /\ req[r].pc = "delete" /\ r.dev \notin mixed => Listing(req[r].todo, files[r.dev])
  /\ req[r].pc = "500" => faulty \/ r.dev \in mixed \/ r.kind \in {"testComplete", "testArtifact"}

\* The files that a reader of apps states has listed are there while nothing else
\* happens to the device.
ViewInv ==
  /\ view.pc = "500" => ~view.clean
  /\ view.pc = "read" =>
       /\ view.dev \in Devices
       /\ view.clean =>
            /\ removed[view.dev] = "no"
            /\ \A r \in Requests : IsRunning(r) => r.dev # view.dev
            /\ view.todo \in Seq(DOMAIN files[view.dev])

FailInv == (\A r \in Requests : Unhindered(r)) /\ ViewInv

EventsInv == Shapes /\ AloneInv /\ GoneInv /\ FailInv

-----------------------------------------------------------------------------
(* Lemmas *)

\* A file that is deleted is gone, and the others stay.
LEMMA RestrictOK ==
  ASSUME NEW f, FilesOK(f), NEW name
  PROVE  LET g == Restrict(f, DOMAIN f \ {name})
         IN  /\ FilesOK(g)
             /\ DOMAIN g = DOMAIN f \ {name}
<1> DEFINE g == Restrict(f, DOMAIN f \ {name})
<1>1. DOMAIN g = DOMAIN f \ {name} /\ \A n \in DOMAIN g : g[n] = f[n]
  BY DEF Restrict
<1>2. IsFiniteSet(DOMAIN g)
  BY <1>1, FS_RemoveElement DEF FilesOK
<1>3. \A n \in DOMAIN g : g[n].data \in Seq(Items) /\ g[n].data # <<>>
  BY <1>1 DEF FilesOK
<1> QED
  BY <1>1, <1>2, <1>3 DEF FilesOK

\* So it is when some files are left.
LEMMA RestrictPart ==
  ASSUME NEW f, FilesOK(f), NEW names \in SUBSET DOMAIN f
  PROVE  FilesOK(Restrict(f, names))
<1>1. DOMAIN Restrict(f, names) = names /\ \A n \in names : Restrict(f, names)[n] = f[n]
  BY DEF Restrict
<1>2. IsFiniteSet(names)
  BY FS_Subset DEF FilesOK
<1> QED
  BY <1>1, <1>2 DEF FilesOK

\* matchFiles lists files that are there, each once.
LEMMA MatchLists ==
  ASSUME NEW d, FilesOK(files[d]), NEW prefix, NEW s \in matchFiles(d, prefix)
  PROVE  Listing(s, files[d])
<1> DEFINE S == {n \in DOMAIN files[d] : n[1] = prefix}
           m == Cardinality(S)
<1>1. IsFiniteSet(S)
  BY FS_Subset DEF FilesOK
<1>2. m \in Nat
  BY <1>1, FS_CardinalityType
<1>3. s \in [1 .. m -> S] /\ \A i, j \in 1 .. m : i # j => s[i] # s[j]
  BY DEF matchFiles, SetToSeqs
<1> HIDE DEF m
<1>4. s \in Seq(S) /\ Len(s) = m
  BY <1>2, <1>3
<1>5. s \in Seq(DOMAIN files[d])
  BY <1>4
<1> QED
  BY <1>3, <1>4, <1>5 DEF Listing

\* The oldest files of a listing (RolloverFiles).
LEMMA ListingPart ==
  ASSUME NEW f, NEW s, Listing(s, f), NEW m \in Nat, m <= Len(s)
  PROVE  Listing(SubSeq(s, 1, m), f)
BY DEF Listing

\* What is left of a listing when its first file is deleted (rolloverFiles).
LEMMA ListingTail ==
  ASSUME NEW f, NEW s, Listing(s, f), s # <<>>, NEW g, DOMAIN g = DOMAIN f \ {Head(s)}
  PROVE  Head(s) \in DOMAIN f /\ Listing(Tail(s), g)
<1>1. /\ s \in Seq(DOMAIN f) /\ Len(s) \in Nat /\ Len(s) > 0
      /\ Head(s) = s[1] /\ Head(s) \in DOMAIN f
  BY DEF Listing
<1>2. /\ Len(Tail(s)) = Len(s) - 1
      /\ \A i \in 1 .. Len(Tail(s)) : Tail(s)[i] = s[i + 1]
      /\ Tail(s) \in Seq(DOMAIN f)
  BY <1>1
<1>3. \A i \in 1 .. Len(Tail(s)) : Tail(s)[i] \in DOMAIN g
  <2> SUFFICES ASSUME NEW i \in 1 .. Len(Tail(s))
               PROVE  Tail(s)[i] \in DOMAIN g
    OBVIOUS
  <2>1. i + 1 \in 1 .. Len(s) /\ i + 1 # 1 /\ 1 \in 1 .. Len(s)
    BY <1>1, <1>2
  <2>2. s[i + 1] # s[1] /\ s[i + 1] \in DOMAIN f
    BY <1>1, <2>1 DEF Listing
  <2> QED
    BY <1>1, <1>2, <2>2
<1>4. Tail(s) \in Seq(DOMAIN g)
  <2> DEFINE n == Len(Tail(s))
             t == Tail(s)
             D == DOMAIN g
  <2>1. n \in Nat
    BY <1>2
  <2>2. t \in [1 .. n -> D]
    BY <1>2, <1>3, LenProperties
  <2> HIDE DEF n, t, D
  <2>3. t \in Seq(D)
    BY <2>1, <2>2
  <2> QED
    BY <2>3 DEF t, D
<1>5. \A i, j \in 1 .. Len(Tail(s)) : i # j => Tail(s)[i] # Tail(s)[j]
  BY <1>1, <1>2 DEF Listing
<1> QED
  BY <1>1, <1>4, <1>5 DEF Listing

-----------------------------------------------------------------------------
(* A step of a running request *)

RequestStep(r) ==
  \/ Fails(r)
  \/ AppendEvent(r) \/ AppendStatus(r)
  \/ SaveAppsStates(r) \/ TestComplete(r)
  \/ TestStoreArtifact(r) \/ TruncateArtifact(r) \/ CopyArtifact(r)
  \/ WritePartial(r) \/ Rename(r)
  \/ RolloverFiles(r) \/ DeleteFile(r)

\* What a step of request r may change: its own state, the files of its device, and
\* the log of the update it found assigned.
Only(r) ==
  /\ IsRunning(r)
  /\ req' = [q \in Requests |-> IF q = r THEN req'[r] ELSE req[q]]
  /\ IsReq(req'[r]) /\ req'[r].upd = req[r].upd /\ req'[r].tag = req[r].tag
  /\ files' = [d \in Devices |-> IF d = r.dev THEN files'[d] ELSE files[d]]
  /\ FilesOK(files'[r.dev])
  /\ parts' = [d \in Devices |-> IF d = r.dev THEN parts'[d] ELSE parts[d]]
  /\ log' = [u \in Updates |-> IF u = req[r].upd THEN log'[u] ELSE log[u]]
  /\ faulty => faulty'
  /\ RestUnchanged

\* A request's state with another place, list, position, time or name.
LEMMA ReqFields ==
  ASSUME Shapes, NEW r \in Requests, NEW s, IsReq(s), s.upd = req[r].upd /\ s.tag = req[r].tag, Set(r, s)
  PROVE  /\ req' = [q \in Requests |-> IF q = r THEN req'[r] ELSE req[q]]
         /\ req'[r] = s /\ IsReq(req'[r]) /\ req'[r].upd = req[r].upd /\ req'[r].tag = req[r].tag
BY DEF Shapes, Set

\* Moving on keeps the rest of a request's state.
LEMMA GotoFields ==
  ASSUME Shapes, NEW r \in Requests, NEW pc, Goto(r, pc)
  PROVE  /\ req' = [q \in Requests |-> IF q = r THEN req'[r] ELSE req[q]]
         /\ req'[r].pc = pc /\ req'[r].name = req[r].name
         /\ IsReq(req'[r]) /\ req'[r].upd = req[r].upd /\ req'[r].tag = req[r].tag
<1> DEFINE s == [req[r] EXCEPT !.pc = pc]
<1>1. IsReq(req[r])
  BY DEF Shapes
<1>2. IsReq(s) /\ s.upd = req[r].upd /\ s.tag = req[r].tag /\ s.pc = pc /\ s.name = req[r].name
  BY <1>1 DEF IsReq
<1>3. Set(r, s)
  BY DEF Goto
<1> HIDE DEF s
<1> QED
  BY <1>2, <1>3, ReqFields

\* Writing a file changes the files of its device alone, and leaves none empty.
LEMMA PutFiles ==
  ASSUME Shapes, NEW d \in Devices, NEW name, NEW data \in Seq(Items), data # <<>>,
         Put(d, name, data)
  PROVE  /\ files' = [e \in Devices |-> IF e = d THEN files'[e] ELSE files[e]]
         /\ FilesOK(files'[d])
<1> DEFINE f == files[d]
           g == [n \in DOMAIN f \cup {name} |->
                   IF n = name THEN [at |-> now, data |-> data] ELSE f[n]]
<1>1. files' = [files EXCEPT ![d] = g]
  BY DEF Put
<1>2. FilesOK(f)
  BY DEF Shapes
<1> HIDE DEF f
<1>3. DOMAIN g = DOMAIN f \cup {name}
  OBVIOUS
<1>4. IsFiniteSet(DOMAIN g)
  BY <1>2, <1>3, FS_AddElement DEF FilesOK
<1>5. \A n \in DOMAIN g : g[n].data \in Seq(Items) /\ g[n].data # <<>>
  BY <1>2 DEF FilesOK
<1>6. FilesOK(g)
  BY <1>4, <1>5 DEF FilesOK
<1> HIDE DEF g
<1> QED
  BY <1>1, <1>6 DEF Shapes

\* A step that leaves files alone.
LEMMA KeepFiles ==
  ASSUME Shapes, NEW d \in Devices, UNCHANGED files
  PROVE  /\ files' = [e \in Devices |-> IF e = d THEN files'[e] ELSE files[e]]
         /\ FilesOK(files'[d])
BY DEF Shapes

\* A step that leaves the log or the partial files alone.
LEMMA KeepRest ==
  ASSUME Shapes, NEW d, NEW u
  PROVE  /\ UNCHANGED log => log' = [v \in Updates |-> IF v = u THEN log'[v] ELSE log[v]]
         /\ UNCHANGED parts => parts' = [e \in Devices |-> IF e = d THEN parts'[e] ELSE parts[e]]
<1>1. log = [v \in Updates |-> log[v]] /\ parts = [e \in Devices |-> parts[e]]
  BY DEF Shapes
<1>2. ASSUME log' = log
      PROVE  log' = [v \in Updates |-> IF v = u THEN log'[v] ELSE log[v]]
  BY <1>1, <1>2
<1>3. ASSUME parts' = parts
      PROVE  parts' = [e \in Devices |-> IF e = d THEN parts'[e] ELSE parts[e]]
  BY <1>1, <1>3
<1> QED
  BY <1>2, <1>3

\* Every step of a request keeps to its own device and its own update, and fails only
\* for a reason.
LEMMA RequestOnly ==
  ASSUME Shapes, AloneInv, NEW r \in Requests, Unhindered(r), RequestStep(r)
  PROVE  Only(r) /\ Unhindered(r)'
<1>0. r.dev \in Devices /\ r.kind \in Kinds
  BY EventsAssumption
<1>s. IsReq(req[r])
  BY DEF Shapes
<1>1. CASE Fails(r)
  <2>1. /\ IsRunning(r) /\ faulty' = TRUE /\ Goto(r, "500")
        /\ UNCHANGED <<files, parts, log>> /\ RestUnchanged
    BY <1>1 DEF Fails, IsRunning, FilesUnchanged
  <2>2. req'[r].pc = "500"
    BY <2>1, GotoFields
  <2>3. Unhindered(r)'
    BY <2>1, <2>2 DEF Unhindered
  <2> QED
    BY <1>0, <2>1, <2>3, GotoFields, KeepFiles, KeepRest DEF Only
<1>2. CASE AppendEvent(r)
  <2> DEFINE name == <<"events", Event(r).corr>>
             data == Append(Content(r.dev, name), Event(r))
             s == [req[r] EXCEPT !.pc = "status", !.at = now]
  <2>1. /\ req[r].pc = "event" /\ Put(r.dev, name, data) /\ Set(r, s)
        /\ UNCHANGED <<parts, log, faulty>> /\ RestUnchanged
    BY <1>2 DEF AppendEvent, Calm
  <2>3. IsReq(s) /\ s.upd = req[r].upd /\ s.tag = req[r].tag /\ s.pc = "status"
    BY <1>s DEF IsReq
  <2>4. data \in Seq(Items) /\ data # <<>>
    <3>1. Event(r) \in Items
      BY <1>s DEF Event, Items, IsReq
    <3>2. Content(r.dev, name) \in Seq(Items)
      BY <1>0 DEF Content, Shapes, FilesOK
    <3> DEFINE c == Content(r.dev, name)
               e == Event(r)
    <3> HIDE DEF c, e
    <3>3. Append(c, e) \in Seq(Items) /\ Append(c, e) # <<>>
      BY <3>1, <3>2, AppendProperties DEF c, e
    <3> QED
      BY <3>3 DEF c, e
  <2> HIDE DEF s, data, name
  <2>5. /\ files' = [d \in Devices |-> IF d = r.dev THEN files'[d] ELSE files[d]]
        /\ FilesOK(files'[r.dev])
    BY <1>0, <2>1, <2>4, PutFiles
  <2>6. /\ req' = [q \in Requests |-> IF q = r THEN req'[r] ELSE req[q]]
        /\ IsReq(req'[r]) /\ req'[r].upd = req[r].upd /\ req'[r].tag = req[r].tag /\ req'[r].pc = "status"
    BY <2>1, <2>3, ReqFields
  <2>7. Unhindered(r)'
    BY <2>6 DEF Unhindered
  <2> QED
    BY <2>1, <2>5, <2>6, <2>7, KeepRest DEF Only, IsRunning, Running
<1>3. CASE AppendStatus(r)
  <2> DEFINE s == [req[r] EXCEPT !.pc = "event", !.n = @ + 1]
  <2>1. /\ req[r].pc = "status"
        /\ Set(r, s) \/ Goto(r, "match")
        /\ UNCHANGED <<files, parts, faulty>> /\ RestUnchanged
    BY <1>3 DEF AppendStatus, Calm
  <2>3. IsReq(s) /\ s.upd = req[r].upd /\ s.tag = req[r].tag /\ s.pc = "event"
    BY <1>s DEF IsReq
  <2> HIDE DEF s
  <2>4. /\ req' = [q \in Requests |-> IF q = r THEN req'[r] ELSE req[q]]
        /\ IsReq(req'[r]) /\ req'[r].upd = req[r].upd /\ req'[r].tag = req[r].tag /\ req'[r].pc \in {"event", "match"}
    BY <2>1, <2>3, ReqFields, GotoFields
  <2>5. log' = [u \in Updates |-> IF u = req[r].upd THEN log'[u] ELSE log[u]]
    <3>1. CASE ~Reports(req[r])
      BY <1>3, <3>1, KeepRest DEF AppendStatus
    <3>2. CASE Reports(req[r])
      <4>1. PICK l : log' = [log EXCEPT ![req[r].upd] = l]
        BY <1>3, <3>2 DEF AppendStatus
      <4> QED
        BY <4>1 DEF Shapes
    <3> QED
      BY <3>1, <3>2
  <2>6. Unhindered(r)'
    BY <2>4 DEF Unhindered
  <2> QED
    BY <1>0, <2>1, <2>4, <2>5, <2>6, KeepFiles, KeepRest DEF Only, IsRunning, Running
<1>4. CASE SaveAppsStates(r)
  <2> DEFINE s == [req[r] EXCEPT !.pc = "write", !.name = FileName(r)]
  <2>1. /\ req[r].pc = "sleep" /\ Set(r, s)
        /\ UNCHANGED <<files, parts, log, faulty>> /\ RestUnchanged
    BY <1>4 DEF SaveAppsStates, Calm, FilesUnchanged
  <2>3. IsReq(s) /\ s.upd = req[r].upd /\ s.tag = req[r].tag /\ s.pc = "write"
    BY <1>s DEF IsReq
  <2> HIDE DEF s
  <2>4. /\ req' = [q \in Requests |-> IF q = r THEN req'[r] ELSE req[q]]
        /\ IsReq(req'[r]) /\ req'[r].upd = req[r].upd /\ req'[r].tag = req[r].tag /\ req'[r].pc = "write"
    BY <2>1, <2>3, ReqFields
  <2>5. Unhindered(r)'
    BY <2>4 DEF Unhindered
  <2> QED
    BY <1>0, <2>1, <2>4, <2>5, KeepFiles, KeepRest DEF Only, IsRunning, Running
<1>5. CASE TestComplete(r)
  <2>1. /\ req[r].pc = "read" /\ r.kind = "testComplete"
        /\ Goto(r, "500") \/ Goto(r, "write")
        /\ UNCHANGED <<files, parts, log, faulty>> /\ RestUnchanged
    BY <1>5 DEF TestComplete, Calm, FilesUnchanged, Unhindered
  <2>2. req'[r].pc \in {"500", "write"}
    BY <2>1, GotoFields
  <2>3. Unhindered(r)'
    BY <2>1, <2>2 DEF Unhindered
  <2> QED
    BY <1>0, <2>1, <2>3, GotoFields, KeepFiles, KeepRest DEF Only, IsRunning, Running
<1>6. CASE TestStoreArtifact(r)
  <2>1. /\ req[r].pc = "check" /\ r.kind = "testArtifact"
        /\ Goto(r, "500") \/ Goto(r, "open")
        /\ UNCHANGED <<files, parts, log, faulty>> /\ RestUnchanged
    BY <1>6 DEF TestStoreArtifact, Calm, FilesUnchanged, Unhindered
  <2>2. req'[r].pc \in {"500", "open"}
    BY <2>1, GotoFields
  <2>3. Unhindered(r)'
    BY <2>1, <2>2 DEF Unhindered
  <2> QED
    BY <1>0, <2>1, <2>3, GotoFields, KeepFiles, KeepRest DEF Only, IsRunning, Running
<1>11. CASE TruncateArtifact(r) \/ CopyArtifact(r)
  <2>1. /\ req[r].pc \in {"open", "copy"} /\ r.kind = "testArtifact"
        /\ Goto(r, "copy") \/ Goto(r, "200")
        /\ UNCHANGED <<parts, log, faulty>> /\ RestUnchanged
        /\ Put(r.dev, req[r].name, <<"whole">>) \/ Put(r.dev, req[r].name, <<"part">>)
    BY <1>11 DEF TruncateArtifact, CopyArtifact, Calm, Unhindered
  <2>2. req'[r].pc \in {"copy", "200"}
    BY <2>1, GotoFields
  <2>3. Unhindered(r)'
    BY <2>1, <2>2 DEF Unhindered
  <2>4. <<"whole">> \in Seq(Items) /\ <<"part">> \in Seq(Items)
    BY DEF Items
  <2>5. /\ files' = [d \in Devices |-> IF d = r.dev THEN files'[d] ELSE files[d]]
        /\ FilesOK(files'[r.dev])
    BY <1>0, <2>1, <2>4, PutFiles
  <2> QED
    BY <2>1, <2>3, <2>5, GotoFields, KeepRest DEF Only, IsRunning, Running
<1>7. CASE WritePartial(r)
  <2>1. /\ req[r].pc = "write" /\ Goto(r, "rename")
        /\ parts' = [parts EXCEPT ![r.dev] = @ \cup {req[r].name}]
        /\ UNCHANGED <<files, log, faulty>> /\ RestUnchanged
    BY <1>7 DEF WritePartial, Calm
  <2>2. req'[r].pc = "rename" /\ req'[r].name = req[r].name
    BY <2>1, GotoFields
  <2>3. req[r].name \in parts'[r.dev]
    BY <1>0, <2>1 DEF Shapes
  <2>4. Unhindered(r)'
    BY <2>2, <2>3 DEF Unhindered
  <2>5. parts' = [d \in Devices |-> IF d = r.dev THEN parts'[d] ELSE parts[d]]
    BY <1>0, <2>1 DEF Shapes
  <2> QED
    BY <1>0, <2>1, <2>4, <2>5, GotoFields, KeepFiles, KeepRest DEF Only, IsRunning, Running
<1>8. CASE Rename(r)
  <2>1. /\ req[r].pc = "rename"
        /\ UNCHANGED <<log, faulty>> /\ RestUnchanged
    BY <1>8 DEF Rename, Calm
  <2>2. CASE req[r].name \in parts[r.dev]
    <3>1. /\ Put(r.dev, req[r].name, <<r.kind>>)
          /\ parts' = [parts EXCEPT ![r.dev] = @ \ {req[r].name}]
          /\ Goto(r, "match") \/ Goto(r, "200")
      BY <1>8, <2>2 DEF Rename
    <3>2. <<r.kind>> \in Seq(Items)
      BY DEF Items
    <3>3. /\ files' = [d \in Devices |-> IF d = r.dev THEN files'[d] ELSE files[d]]
          /\ FilesOK(files'[r.dev])
      BY <1>0, <3>1, <3>2, PutFiles
    <3>4. parts' = [d \in Devices |-> IF d = r.dev THEN parts'[d] ELSE parts[d]]
      BY <1>0, <3>1 DEF Shapes
    <3>5. req'[r].pc \in {"match", "200"}
      BY <3>1, GotoFields
    <3>6. Unhindered(r)'
      BY <3>5 DEF Unhindered
    <3> QED
      BY <2>1, <3>1, <3>3, <3>4, <3>6, GotoFields, KeepRest DEF Only, IsRunning, Running
  <2>3. CASE req[r].name \notin parts[r.dev]
    <3>1. UNCHANGED <<files, parts>> /\ Goto(r, "500")
      BY <1>8, <2>3 DEF Rename
    <3>2. r.dev \in mixed /\ mixed' = mixed
      BY <2>1, <2>3 DEF Unhindered, RestUnchanged
    <3>3. req'[r].pc = "500"
      BY <3>1, GotoFields
    <3>4. Unhindered(r)'
      BY <3>2, <3>3 DEF Unhindered
    <3> QED
      BY <1>0, <2>1, <3>1, <3>4, GotoFields, KeepFiles, KeepRest DEF Only, IsRunning, Running
  <2> QED
    BY <2>2, <2>3
<1>9. CASE RolloverFiles(r)
  <2>1. /\ req[r].pc = "match"
        /\ UNCHANGED <<files, parts, log, faulty, mixed>> /\ RestUnchanged
    BY <1>9 DEF RolloverFiles, Calm, FilesUnchanged, RestUnchanged
  <2>2. CASE \E s \in matchFiles(r.dev, Prefix(r)) :
               Set(r, [req[r] EXCEPT !.pc = "delete",
                         !.todo = SubSeq(s, 1, IF Len(s) > MaxFiles THEN Len(s) - MaxFiles ELSE 0)])
    <3>1. PICK s \in matchFiles(r.dev, Prefix(r)) :
               Set(r, [req[r] EXCEPT !.pc = "delete",
                         !.todo = SubSeq(s, 1, IF Len(s) > MaxFiles THEN Len(s) - MaxFiles ELSE 0)])
      BY <2>2
    <3> DEFINE m == IF Len(s) > MaxFiles THEN Len(s) - MaxFiles ELSE 0
               t == SubSeq(s, 1, m)
               w == [req[r] EXCEPT !.pc = "delete", !.todo = t]
    <3>2. Listing(s, files[r.dev])
      BY <1>0, MatchLists DEF Shapes
    <3>3. Len(s) \in Nat /\ MaxFiles \in Nat
      BY <3>2, EventsAssumption DEF Listing
    <3>4. m \in Nat /\ m <= Len(s)
      BY <3>3
    <3>5. Set(r, w)
      BY <3>1
    <3> HIDE DEF m
    <3>6. Listing(t, files[r.dev])
      BY <3>2, <3>4, ListingPart
    <3> HIDE DEF t
    <3>8. IsReq(w) /\ w.upd = req[r].upd /\ w.tag = req[r].tag /\ w.pc = "delete" /\ w.todo = t
      BY <1>s DEF IsReq
    <3> HIDE DEF w
    <3>9. /\ req' = [q \in Requests |-> IF q = r THEN req'[r] ELSE req[q]]
          /\ IsReq(req'[r]) /\ req'[r].upd = req[r].upd /\ req'[r].tag = req[r].tag
          /\ req'[r].pc = "delete" /\ req'[r].todo = t
      BY <3>5, <3>8, ReqFields
    <3>10. Unhindered(r)'
      BY <2>1, <3>6, <3>9 DEF Unhindered
    <3> QED
      BY <1>0, <2>1, <3>9, <3>10, KeepFiles, KeepRest DEF Only, IsRunning, Running
  <2>3. CASE Vanishing(r.dev) /\ Goto(r, "500")
    <3>1. PICK q \in Requests : q.dev = r.dev /\ IsRunning(q) /\ req[q].pc = "delete"
      BY <2>3 DEF Vanishing, Active, IsRunning
    <3>2. r.dev \in mixed
      BY <2>1, <3>1 DEF AloneInv, IsRunning, Running
    <3>3. req'[r].pc = "500"
      BY <2>3, GotoFields
    <3>4. Unhindered(r)'
      BY <2>1, <3>2, <3>3 DEF Unhindered
    <3> QED
      BY <1>0, <2>1, <2>3, <3>4, GotoFields, KeepFiles, KeepRest DEF Only, IsRunning, Running
  <2> QED
    BY <1>9, <2>2, <2>3 DEF RolloverFiles
<1>10. CASE DeleteFile(r)
  <2> DEFINE name == Head(req[r].todo)
             f == files[r.dev]
             g == Restrict(f, DOMAIN f \ {name})
  <2>1. /\ req[r].pc = "delete"
        /\ UNCHANGED <<parts, log, faulty, mixed>> /\ RestUnchanged
    BY <1>10 DEF DeleteFile, Calm, RestUnchanged
  <2>2. CASE req[r].todo = <<>>
    <3>1. Goto(r, "200") /\ UNCHANGED files
      BY <1>10, <2>2 DEF DeleteFile
    <3>2. req'[r].pc = "200"
      BY <3>1, GotoFields
    <3>3. Unhindered(r)'
      BY <3>2 DEF Unhindered
    <3> QED
      BY <1>0, <2>1, <3>1, <3>3, GotoFields, KeepFiles, KeepRest DEF Only, IsRunning, Running
  <2>3. CASE req[r].todo # <<>> /\ name \notin DOMAIN f
    <3>1. Goto(r, "500") /\ UNCHANGED files
      BY <1>10, <2>3 DEF DeleteFile
    <3>2. r.dev \in mixed
      BY <2>1, <2>3 DEF Unhindered, Listing
    <3>3. req'[r].pc = "500"
      BY <3>1, GotoFields
    <3>4. Unhindered(r)'
      BY <2>1, <3>2, <3>3 DEF Unhindered
    <3> QED
      BY <1>0, <2>1, <3>1, <3>4, GotoFields, KeepFiles, KeepRest DEF Only, IsRunning, Running
  <2>4. CASE req[r].todo # <<>> /\ name \in DOMAIN f
    <3> DEFINE s == [req[r] EXCEPT !.todo = Tail(@)]
    <3>1. files' = [files EXCEPT ![r.dev] = g] /\ Set(r, s)
      BY <1>10, <2>4 DEF DeleteFile
    <3>3. IsReq(s) /\ s.upd = req[r].upd /\ s.tag = req[r].tag /\ s.pc = "delete" /\ s.todo = Tail(req[r].todo)
      BY <1>s, <2>1 DEF IsReq
    <3>4. FilesOK(g) /\ DOMAIN g = DOMAIN f \ {name}
      BY <1>0, RestrictOK DEF Shapes
    <3> HIDE DEF s, g
    <3>5. /\ req' = [q \in Requests |-> IF q = r THEN req'[r] ELSE req[q]]
          /\ IsReq(req'[r]) /\ req'[r].upd = req[r].upd /\ req'[r].tag = req[r].tag
          /\ req'[r].pc = "delete" /\ req'[r].todo = Tail(req[r].todo)
      BY <3>1, <3>3, ReqFields
    <3>6. /\ files' = [d \in Devices |-> IF d = r.dev THEN files'[d] ELSE files[d]]
          /\ files'[r.dev] = g
      BY <1>0, <3>1 DEF Shapes
    <3>7. r.dev \notin mixed => Listing(Tail(req[r].todo), g)
      BY <2>1, <2>4, <3>4, ListingTail DEF Unhindered
    <3>8. Unhindered(r)'
      BY <2>1, <3>5, <3>6, <3>7 DEF Unhindered
    <3> QED
      BY <1>0, <2>1, <3>4, <3>5, <3>6, <3>8, KeepRest DEF Only, IsRunning, Running
  <2> QED
    BY <2>2, <2>3, <2>4
<1> QED
  BY <1>1, <1>2, <1>3, <1>4, <1>5, <1>6, <1>7, <1>8, <1>9, <1>10, <1>11 DEF RequestStep

\* A step of a request keeps the invariant: a device that is not marked has no other
\* request it could disturb.
LEMMA RequestKeeps ==
  ASSUME EventsInv, NEW r \in Requests, RequestStep(r)
  PROVE  EventsInv'
<1>0. r.dev \in Devices
  BY EventsAssumption
<1>1. Only(r) /\ Unhindered(r)'
  BY RequestOnly DEF EventsInv, FailInv
<1>2. /\ IsRunning(r)
      /\ \A q \in Requests \ {r} : req'[q] = req[q]
      /\ req' = [q \in Requests |-> req'[q]]
      /\ IsReq(req'[r]) /\ req'[r].upd = req[r].upd /\ req'[r].tag = req[r].tag
      /\ \A d \in Devices \ {r.dev} : files'[d] = files[d] /\ parts'[d] = parts[d]
      /\ files' = [d \in Devices |-> files'[d]] /\ parts' = [d \in Devices |-> parts'[d]]
      /\ FilesOK(files'[r.dev])
      /\ \A u \in Updates \ {req[r].upd} : log'[u] = log[u]
      /\ log' = [u \in Updates |-> log'[u]]
      /\ faulty => faulty'
      /\ UNCHANGED <<exists, assigned, removed, view, now, mixed, late>>
  BY <1>1 DEF Only, RestUnchanged, RowsUnchanged
<1>3. \A q \in Requests : IsRunning(q)' => IsRunning(q)
  BY <1>2 DEF IsRunning
<1>4. Shapes'
  BY <1>2 DEF EventsInv, Shapes
<1>5. AloneInv'
  BY <1>2, <1>3 DEF EventsInv, AloneInv
<1>6. GoneInv'
  <2>1. ASSUME NEW d \in Devices, removed[d] = "done", d \notin mixed
        PROVE  files'[d] = <<>> /\ parts'[d] = {}
    <3>1. d # r.dev
      BY <1>2, <2>1 DEF EventsInv, AloneInv
    <3> QED
      BY <1>2, <2>1, <3>1 DEF EventsInv, GoneInv
  <2>2. ASSUME NEW u \in Updates, u \notin exists, u \notin late
        PROVE  /\ log'[u] = NoLog /\ \A d \in Devices : assigned'[d] # u
               /\ \A q \in Requests : IsRunning(q)' => req'[q].upd # u
    <3>1. req[r].upd # u /\ log[u] = NoLog /\ \A d \in Devices : assigned[d] # u
      BY <1>2, <2>2 DEF EventsInv, GoneInv
    <3>2. \A q \in Requests : IsRunning(q)' => req'[q].upd # u
      BY <1>2, <1>3, <2>2 DEF EventsInv, GoneInv
    <3> QED
      BY <1>2, <3>1, <3>2
  <2> QED
    BY <1>2, <2>1, <2>2 DEF EventsInv, GoneInv
<1>7. ASSUME NEW q \in Requests
      PROVE  Unhindered(q)'
  <2>1. CASE q = r
    BY <1>1, <2>1
  <2>2. CASE q # r
    <3>1. req'[q] = req[q] /\ Unhindered(q)
      BY <1>2, <2>2 DEF EventsInv, FailInv
    <3>2. q.dev = r.dev /\ IsRunning(q) => q.dev \in mixed
      BY <1>2, <2>2 DEF EventsInv, AloneInv
    <3>3. q.dev # r.dev => files'[q.dev] = files[q.dev] /\ parts'[q.dev] = parts[q.dev]
      BY <1>2, EventsAssumption
    <3> QED
      BY <1>2, <3>1, <3>2, <3>3 DEF Unhindered, IsRunning, Running
  <2> QED
    BY <2>1, <2>2
<1>8. ViewInv'
  <2>1. view.pc = "read" /\ view.clean => view.dev # r.dev
    BY <1>2 DEF EventsInv, FailInv, ViewInv
  <2> QED
    BY <1>2, <1>3, <2>1 DEF EventsInv, FailInv, ViewInv
<1> QED
  BY <1>4, <1>5, <1>6, <1>7, <1>8 DEF EventsInv, FailInv

\* A request that begins while another runs marks its device, and takes the update
\* that the row names at that moment.
LEMMA BeginKeeps ==
  ASSUME EventsInv, NEW r \in Requests, Begin(r)
  PROVE  EventsInv'
<1> DEFINE s == [Idle EXCEPT !.pc = First(r), !.upd = assigned[r.dev], !.tag = TagFor(r),
                            !.at = now, !.name = FileName(r)]
<1>0. r.dev \in Devices /\ r.kind \in Kinds
  BY EventsAssumption
<1>1. /\ ~IsRunning(r) /\ ~Denied(r.dev)
      /\ req' = [req EXCEPT ![r] = s]
      /\ mixed' = IF Active(r.dev) # {} \/ Removing(r.dev) THEN mixed \cup {r.dev} ELSE mixed
      /\ view' = [view EXCEPT !.clean = @ /\ view.dev # r.dev]
      /\ UNCHANGED <<files, parts, log, faulty, exists, assigned, removed, now, late>>
  BY DEF Begin, CheckIn, IsRunning, Running, Set, FilesUnchanged, Calm
<1>2. IsReq(s) /\ s.upd = assigned[r.dev] /\ s.pc = First(r)
  BY DEF IsReq, Idle
<1> HIDE DEF s
<1>3. /\ req' = [q \in Requests |-> req'[q]] /\ req'[r] = s
      /\ \A q \in Requests \ {r} : req'[q] = req[q]
  BY <1>1 DEF EventsInv, Shapes
<1>4. /\ assigned[r.dev] \in Updates \cup {None}
      /\ r.dev \notin mixed' => removed[r.dev] = "no"
  BY <1>0, <1>1 DEF EventsInv, Shapes, Removals, Denied, Removing
<1>5. /\ mixed \subseteq mixed'
      /\ \A q \in Requests : IsRunning(q) /\ q.dev = r.dev => r.dev \in mixed'
      /\ \A d : d # r.dev => (d \in mixed' <=> d \in mixed)
  BY <1>1 DEF Active, IsRunning
<1>6. /\ view'.pc = view.pc /\ view'.dev = view.dev /\ view'.todo = view.todo
      /\ view'.clean <=> view.clean /\ view.dev # r.dev
      /\ view' = [pc |-> view'.pc, dev |-> view'.dev, todo |-> view'.todo, clean |-> view'.clean]
  BY <1>1 DEF EventsInv, Shapes
<1>7. /\ First(r) = "read" => r.kind = "testComplete"
      /\ First(r) = "check" => r.kind = "testArtifact"
      /\ First(r) \notin {"rename", "delete", "open", "copy"}
      /\ First(r) = "500" => r.kind \in {"testComplete", "testArtifact"}
  BY <1>0 DEF First, FirstOfTest, Kinds
<1>8. Shapes'
  BY <1>1, <1>2, <1>3, <1>4, <1>6 DEF EventsInv, Shapes
<1>9. AloneInv'
  <2> SUFFICES ASSUME NEW q \in Requests, IsRunning(q)', q.dev \notin mixed'
               PROVE  /\ removed[q.dev] = "no"
                      /\ \A p \in Requests : IsRunning(p)' /\ p.dev = q.dev => p = q
    BY <1>1 DEF AloneInv
  <2>1. CASE q.dev = r.dev
    <3>1. \A p \in Requests : IsRunning(p) => p.dev # q.dev
      BY <1>5, <2>1
    <3>2. \A p \in Requests : IsRunning(p)' /\ p.dev = q.dev => p = r
      BY <1>3, <3>1 DEF IsRunning
    <3> QED
      BY <1>4, <2>1, <3>2
  <2>2. CASE q.dev # r.dev
    <3>1. IsRunning(q) /\ q.dev \notin mixed
      BY <1>3, <1>5, <2>2 DEF IsRunning
    <3>2. \A p \in Requests : IsRunning(p)' /\ p.dev = q.dev => IsRunning(p)
      BY <1>3, <2>2 DEF IsRunning
    <3> QED
      BY <3>1, <3>2 DEF EventsInv, AloneInv
  <2> QED
    BY <2>1, <2>2
<1>10. GoneInv'
  <2>1. \A d \in Devices : removed[d] = "done" /\ d \notin mixed' => files[d] = <<>> /\ parts[d] = {}
    BY <1>5 DEF EventsInv, GoneInv
  <2>2. ASSUME NEW u \in Updates, u \notin exists, u \notin late
        PROVE  /\ log[u] = NoLog /\ \A d \in Devices : assigned[d] # u
               /\ \A q \in Requests : IsRunning(q)' => req'[q].upd # u
    <3>1. req'[r].upd # u
      BY <1>0, <1>2, <1>3, <2>2 DEF EventsInv, GoneInv
    <3> QED
      BY <1>3, <2>2, <3>1 DEF EventsInv, GoneInv, IsRunning
  <2> QED
    BY <1>1, <2>1, <2>2 DEF EventsInv, GoneInv
<1>11. \A q \in Requests : Unhindered(q)'
  <2>1. Unhindered(r)'
    BY <1>1, <1>2, <1>3, <1>7 DEF Unhindered
  <2>2. \A q \in Requests \ {r} : Unhindered(q)'
    BY <1>1, <1>3, <1>5 DEF EventsInv, FailInv, Unhindered
  <2> QED
    BY <2>1, <2>2
<1>12. ViewInv'
  <2>1. view.pc = "500" => ~view'.clean
    BY <1>6 DEF EventsInv, FailInv, ViewInv
  <2>2. view.pc = "read" => view.dev \in Devices
    BY DEF EventsInv, FailInv, ViewInv
  <2>3. ASSUME view.pc = "read", view'.clean
        PROVE  /\ removed[view.dev] = "no"
               /\ \A q \in Requests : IsRunning(q)' => q.dev # view.dev
               /\ view.todo \in Seq(DOMAIN files[view.dev])
    BY <1>3, <1>6, <2>3 DEF EventsInv, FailInv, ViewInv, IsRunning
  <2> QED
    BY <1>1, <1>6, <2>1, <2>2, <2>3 DEF ViewInv
<1> QED
  BY <1>8, <1>9, <1>10, <1>11, <1>12 DEF EventsInv, FailInv

-----------------------------------------------------------------------------
(* The operator's side, readers and restarts *)

\* Deleting a device marks it if a request is running, and stops a reader's promise;
\* then its files go at once, or it is marked.
LEMMA DeleteDeviceKeeps ==
  ASSUME EventsInv, NEW d \in Devices,
         DeleteRow(d) \/ RemoveAll(d) \/ RemoveFails(d) \/ UndenyDevice(d)
  PROVE  EventsInv'
<1>1. CASE DeleteRow(d)
  <2>0. PICK state \in {"row", "tried"} : removed' = [removed EXCEPT ![d] = state]
    BY <1>1 DEF DeleteRow
  <2>1. /\ removed[d] = "no"
        /\ mixed' = IF Active(d) # {} THEN mixed \cup {d} ELSE mixed
        /\ view' = [view EXCEPT !.clean = @ /\ view.dev # d]
        /\ UNCHANGED <<files, parts, log, faulty, exists, assigned, req, now, late>>
    BY <1>1 DEF DeleteRow, FilesUnchanged, RowsUnchanged
  <2>2. /\ removed' \in [Devices -> Removals]
        /\ removed'[d] = state /\ \A e \in Devices \ {d} : removed'[e] = removed[e]
    BY <2>0 DEF EventsInv, Shapes, Removals
  <2>3. /\ mixed \subseteq mixed'
        /\ \A q \in Requests : IsRunning(q) /\ q.dev = d => d \in mixed'
    BY <2>1 DEF Active, IsRunning
  <2>4. /\ view'.pc = view.pc /\ view'.dev = view.dev /\ view'.todo = view.todo
        /\ view'.clean <=> view.clean /\ view.dev # d
        /\ view' = [pc |-> view'.pc, dev |-> view'.dev, todo |-> view'.todo, clean |-> view'.clean]
    BY <2>1 DEF EventsInv, Shapes
  <2>5. Shapes'
    BY <2>1, <2>2, <2>4 DEF EventsInv, Shapes
  <2>6. AloneInv'
    <3> SUFFICES ASSUME NEW q \in Requests, IsRunning(q), q.dev \notin mixed'
                 PROVE  /\ removed'[q.dev] = "no"
                        /\ \A p \in Requests : IsRunning(p) /\ p.dev = q.dev => p = q
      BY <2>1 DEF AloneInv, IsRunning
    <3>1. q.dev # d /\ q.dev \notin mixed /\ q.dev \in Devices
      BY <2>3, EventsAssumption
    <3> QED
      BY <2>2, <3>1 DEF EventsInv, AloneInv
  <2>7. GoneInv'
    BY <2>1, <2>2, <2>3 DEF EventsInv, GoneInv, IsRunning
  <2>8. \A q \in Requests : Unhindered(q)'
    BY <2>1, <2>3 DEF EventsInv, FailInv, Unhindered
  <2>9. ViewInv'
    BY <2>1, <2>2, <2>4 DEF EventsInv, FailInv, ViewInv, IsRunning
  <2> QED
    BY <2>5, <2>6, <2>7, <2>8, <2>9 DEF EventsInv, FailInv
<1>2. CASE RemoveAll(d)
  <2>1. /\ removed[d] # "no" /\ removed' = [removed EXCEPT ![d] = IF @ = "row" THEN "done" ELSE "no"]
        /\ files' = [files EXCEPT ![d] = <<>>] /\ parts' = [parts EXCEPT ![d] = {}]
        /\ UNCHANGED <<log, faulty, exists, assigned, req, view, now, mixed, late>>
    BY <1>2 DEF RemoveAll, Removing, Calm, RowsUnchanged
  <2>2. /\ removed' \in [Devices -> Removals]
        /\ \A e \in Devices \ {d} : removed'[e] = removed[e]
        /\ files' = [e \in Devices |-> files'[e]] /\ parts' = [e \in Devices |-> parts'[e]]
        /\ files'[d] = <<>> /\ parts'[d] = {}
        /\ \A e \in Devices \ {d} : files'[e] = files[e] /\ parts'[e] = parts[e]
    BY <2>1 DEF EventsInv, Shapes, Removals
  <2>3. DOMAIN files'[d] = {}
    BY <2>2
  <2>4. FilesOK(files'[d])
    BY <2>3, FS_EmptySet DEF FilesOK
  <2>5. \A q \in Requests : IsRunning(q) /\ q.dev = d => d \in mixed
    BY <2>1 DEF EventsInv, AloneInv
  <2>6. Shapes'
    BY <2>1, <2>2, <2>4 DEF EventsInv, Shapes
  <2>7. AloneInv'
    BY <2>1, <2>2, <2>5, EventsAssumption DEF EventsInv, AloneInv, IsRunning
  <2>8. GoneInv'
    BY <2>1, <2>2 DEF EventsInv, GoneInv, IsRunning
  <2>9. \A q \in Requests : Unhindered(q)'
    <3> SUFFICES ASSUME NEW q \in Requests
                 PROVE  Unhindered(q)'
      OBVIOUS
    <3>1. Unhindered(q) /\ q.dev \in Devices
      BY EventsAssumption DEF EventsInv, FailInv
    <3>2. IsRunning(q) /\ q.dev \notin mixed => q.dev # d
      BY <2>5
    <3> QED
      BY <2>1, <2>2, <3>1, <3>2 DEF Unhindered, IsRunning, Running
  <2>10. ViewInv'
    BY <2>1, <2>2 DEF EventsInv, FailInv, ViewInv, IsRunning
  <2> QED
    BY <2>6, <2>7, <2>8, <2>9, <2>10 DEF EventsInv, FailInv
<1>3. CASE RemoveFails(d)
  <2>0. PICK names \in SUBSET DOMAIN files[d] : files' = [files EXCEPT ![d] = Restrict(@, names)]
    BY <1>3 DEF RemoveFails
  <2> DEFINE g == Restrict(files[d], names)
  <2>1. /\ removed[d] # "no" /\ removed' = [removed EXCEPT ![d] = IF @ = "row" THEN "left" ELSE "no"]
        /\ files' = [files EXCEPT ![d] = g]
        /\ mixed' = mixed \cup {d} /\ faulty' = TRUE
        /\ UNCHANGED <<parts, log, exists, assigned, req, view, now, late>>
    BY <1>3, <2>0 DEF RemoveFails, Removing, RowsUnchanged
  <2>2. FilesOK(g)
    BY RestrictPart DEF EventsInv, Shapes
  <2> HIDE DEF g
  <2>3. /\ removed' \in [Devices -> Removals]
        /\ \A e \in Devices \ {d} : removed'[e] = removed[e]
        /\ files' = [e \in Devices |-> files'[e]] /\ files'[d] = g
        /\ \A e \in Devices \ {d} : files'[e] = files[e]
    BY <2>1 DEF EventsInv, Shapes, Removals
  <2>4. Shapes'
    BY <2>1, <2>2, <2>3 DEF EventsInv, Shapes
  <2>5. AloneInv'
    BY <2>1, <2>3, EventsAssumption DEF EventsInv, AloneInv, IsRunning
  <2>6. GoneInv'
    BY <2>1, <2>3 DEF EventsInv, GoneInv, IsRunning
  <2>7. \A q \in Requests : Unhindered(q)'
    <3> SUFFICES ASSUME NEW q \in Requests
                 PROVE  Unhindered(q)'
      OBVIOUS
    <3>1. Unhindered(q) /\ q.dev \in Devices
      BY EventsAssumption DEF EventsInv, FailInv
    <3>2. q.dev \notin mixed' => q.dev \notin mixed /\ files'[q.dev] = files[q.dev]
      BY <2>1, <2>3, <3>1
    <3> QED
      BY <2>1, <3>1, <3>2 DEF Unhindered
  <2>8. ViewInv'
    BY <2>1, <2>3 DEF EventsInv, FailInv, ViewInv, IsRunning
  <2> QED
    BY <2>4, <2>5, <2>6, <2>7, <2>8 DEF EventsInv, FailInv
<1>4. CASE UndenyDevice(d)
  <2>1. /\ removed[d] # "no" /\ removed' = [removed EXCEPT ![d] = IF @ = "row" THEN "tried" ELSE "no"]
        /\ UNCHANGED <<files, parts, log, faulty, exists, assigned, req, view, now, mixed, late>>
    BY <1>4 DEF UndenyDevice, Denied, FilesUnchanged, RowsUnchanged
  <2>2. /\ removed' \in [Devices -> Removals] /\ removed'[d] \in {"no", "tried"}
        /\ \A e \in Devices \ {d} : removed'[e] = removed[e]
    BY <2>1 DEF EventsInv, Shapes, Removals
  <2>3. Shapes'
    BY <2>1, <2>2 DEF EventsInv, Shapes
  <2>4. AloneInv'
    BY <2>1, <2>2, EventsAssumption DEF EventsInv, AloneInv, IsRunning
  <2>5. GoneInv'
    BY <2>1, <2>2 DEF EventsInv, GoneInv, IsRunning
  <2>6. FailInv'
    BY <2>1, <2>2 DEF EventsInv, FailInv, Unhindered, ViewInv, IsRunning
  <2> QED
    BY <2>3, <2>4, <2>5, <2>6 DEF EventsInv
<1> QED
  BY <1>1, <1>2, <1>3, <1>4

\* An update that goes while a device is assigned it or a request holds it is marked,
\* and so is one that is assigned afterwards.
LEMMA UpdatesKeep ==
  ASSUME EventsInv, NEW u \in Updates, DeleteUpdate(u) \/ \E d \in Devices : SetUpdate(d, u)
  PROVE  EventsInv'
<1>1. CASE DeleteUpdate(u)
  <2>1. /\ exists' = exists \ {u}
        /\ log' = [log EXCEPT ![u] = NoLog]
        /\ late' = IF \/ \E r \in Requests : req[r].pc \in Running /\ req[r].upd = u
                      \/ \E d \in Devices : assigned[d] = u
                   THEN late \cup {u} ELSE late
        /\ UNCHANGED <<files, parts, assigned, removed, req, view, now, faulty, mixed>>
    BY <1>1 DEF DeleteUpdate
  <2>2. /\ log' = [v \in Updates |-> log'[v]] /\ log'[u] = NoLog
        /\ \A v \in Updates \ {u} : log'[v] = log[v]
        /\ late \subseteq late'
        /\ \A r \in Requests : IsRunning(r) /\ req[r].upd = u => u \in late'
        /\ \A d \in Devices : assigned[d] = u => u \in late'
    BY <2>1 DEF EventsInv, Shapes, IsRunning
  <2>3. Shapes'
    BY <2>1, <2>2 DEF EventsInv, Shapes
  <2>4. GoneInv'
    BY <2>1, <2>2 DEF EventsInv, GoneInv, IsRunning
  <2>5. AloneInv' /\ FailInv'
    BY <2>1 DEF EventsInv, AloneInv, FailInv, Unhindered, ViewInv, IsRunning
  <2> QED
    BY <2>3, <2>4, <2>5 DEF EventsInv
<1>2. ASSUME NEW d \in Devices, SetUpdate(d, u)
      PROVE  EventsInv'
  <2>1. /\ u \in exists \cup late' /\ late \subseteq late' /\ assigned' = [assigned EXCEPT ![d] = u]
        /\ UNCHANGED <<files, parts, log, exists, removed, req, view, now, faulty, mixed>>
    BY <1>2 DEF SetUpdate, FilesUnchanged
  <2>2. /\ assigned' \in [Devices -> Updates \cup {None}] /\ assigned'[d] = u
        /\ \A e \in Devices \ {d} : assigned'[e] = assigned[e]
    BY <2>1 DEF EventsInv, Shapes
  <2>3. Shapes'
    BY <2>1, <2>2 DEF EventsInv, Shapes
  <2>4. GoneInv'
    BY <2>1, <2>2 DEF EventsInv, GoneInv, IsRunning
  <2>5. AloneInv' /\ FailInv'
    BY <2>1 DEF EventsInv, AloneInv, FailInv, Unhindered, ViewInv, IsRunning
  <2> QED
    BY <2>3, <2>4, <2>5 DEF EventsInv
<1> QED
  BY <1>1, <1>2

\* A reader of apps states lists what is there; no file it listed is empty, and none
\* goes while nothing happens to the device (matchFiles, AppsStates).
LEMMA ReaderKeeps ==
  ASSUME EventsInv, ReadState \/ \E d \in Devices : ListStates(d)
  PROVE  EventsInv'
<1>0. UNCHANGED <<files, parts, log, exists, assigned, removed, req, now, faulty, mixed, late>>
  BY DEF ReadState, ListStates, FilesUnchanged, RowsUnchanged, Calm
<1>1. ASSUME view' = [pc |-> view'.pc, dev |-> view'.dev, todo |-> view'.todo, clean |-> view'.clean],
             ViewInv'
      PROVE  EventsInv'
  <2>1. Shapes'
    BY <1>0, <1>1 DEF EventsInv, Shapes
  <2>2. AloneInv' /\ GoneInv' /\ \A r \in Requests : Unhindered(r)'
    BY <1>0 DEF EventsInv, AloneInv, GoneInv, FailInv, Unhindered, IsRunning
  <2> QED
    BY <1>1, <2>1, <2>2 DEF EventsInv, FailInv
<1>2. ASSUME NEW d \in Devices, ListStates(d)
      PROVE  EventsInv'
  <2>1. ~Removing(d) => removed[d] = "no"
    BY <1>2 DEF ListStates, EventsInv, Shapes, Removals, Denied, Removing
  <2>2. PICK s \in matchFiles(d, "apps-states") :
          view' = [pc |-> "read", dev |-> d, todo |-> Reverse(s),
                   clean |-> Active(d) = {} /\ ~Removing(d)]
    BY <1>2 DEF ListStates
  <2>3. s \in Seq(DOMAIN files[d])
    BY MatchLists DEF EventsInv, Shapes, Listing
  <2>4. Reverse(s) \in Seq(DOMAIN files[d])
    <3> DEFINE D == DOMAIN files[d]
    <3>1. Len(s) \in Nat /\ \A i \in 1 .. Len(s) : s[i] \in D
      BY <2>3
    <3> HIDE DEF D
    <3>2. \A i \in 1 .. Len(s) : s[(Len(s) - i) + 1] \in D
      BY <3>1
    <3>3. Reverse(s) \in [1 .. Len(s) -> D]
      BY <3>2 DEF Reverse
    <3>4. Reverse(s) \in Seq(D)
      BY <3>1, <3>3
    <3> QED
      BY <3>4 DEF D
  <2> DEFINE t == Reverse(s)
  <2> HIDE DEF t
  <2>5. /\ view'.pc = "read" /\ view'.dev = d /\ view'.todo = t
        /\ view'.clean <=> Active(d) = {} /\ ~Removing(d)
    BY <2>2 DEF t
  <2>6. Active(d) = {} => \A r \in Requests : IsRunning(r) => r.dev # d
    BY DEF Active, IsRunning
  <2>7. ViewInv'
    BY <1>0, <2>1, <2>4, <2>5, <2>6 DEF ViewInv, IsRunning, t
  <2> QED
    BY <1>1, <2>2, <2>5, <2>7 DEF t
<1>3. CASE ReadState
  <2> DEFINE c == Content(view.dev, Head(view.todo))
  <2>1. /\ view.pc = "read"
        /\ view' = IF view.todo = <<>> THEN [view EXCEPT !.pc = "200"]
                   ELSE IF c = <<>> THEN [view EXCEPT !.pc = "500", !.todo = <<>>]
                   ELSE [view EXCEPT !.todo = Tail(@)]
    BY <1>3 DEF ReadState
  <2>2. view = [pc |-> view.pc, dev |-> view.dev, todo |-> view.todo, clean |-> view.clean]
    BY DEF EventsInv, Shapes
  <2>3. CASE view.todo = <<>>
    <3>1. view' = [pc |-> "200", dev |-> view.dev, todo |-> view.todo, clean |-> view.clean]
      BY <2>1, <2>2, <2>3
    <3>2. view'.pc = "200"
      BY <3>1
    <3>3. ViewInv'
      BY <3>2 DEF ViewInv
    <3> QED
      BY <1>1, <3>1, <3>3
  <2>4. CASE view.todo # <<>> /\ c = <<>>
    <3>1. view' = [pc |-> "500", dev |-> view.dev, todo |-> <<>>, clean |-> view.clean]
      BY <2>1, <2>2, <2>4
    <3>2. ~view.clean
      BY <2>1, <2>4 DEF EventsInv, FailInv, ViewInv, Shapes, Content, FilesOK
    <3>3. view'.pc = "500" /\ ~view'.clean
      BY <3>1, <3>2
    <3>4. ViewInv'
      BY <3>3 DEF ViewInv
    <3> QED
      BY <1>1, <3>1, <3>4
  <2>5. CASE view.todo # <<>> /\ c # <<>>
    <3> DEFINE t == Tail(view.todo)
    <3>1. view' = [pc |-> view.pc, dev |-> view.dev, todo |-> t, clean |-> view.clean]
      BY <2>1, <2>2, <2>5
    <3>2. ASSUME view.clean
          PROVE  t \in Seq(DOMAIN files[view.dev])
      <4>1. view.todo \in Seq(DOMAIN files[view.dev])
        BY <2>1, <3>2 DEF EventsInv, FailInv, ViewInv
      <4> QED
        BY <2>5, <4>1, HeadTailProperties
    <3> HIDE DEF t
    <3>3. /\ view'.pc = view.pc /\ view'.dev = view.dev /\ view'.todo = t
          /\ view'.clean = view.clean
      BY <3>1
    <3>4. ViewInv'
      BY <1>0, <2>1, <3>2, <3>3 DEF EventsInv, FailInv, ViewInv, IsRunning
    <3> QED
      BY <1>1, <3>1, <3>3, <3>4
  <2> QED
    BY <2>3, <2>4, <2>5
<1> QED
  BY <1>2, <1>3

\* A restart ends what is running.
LEMMA RestartKeeps ==
  ASSUME EventsInv, Crash \/ Tick
  PROVE  EventsInv'
<1>1. CASE Tick
  <2>1. UNCHANGED <<files, parts, log, exists, assigned, removed, req, view, faulty, mixed, late>>
    BY <1>1 DEF Tick, FilesUnchanged, RowsUnchanged, Calm
  <2> QED
    BY <2>1 DEF EventsInv, Shapes, AloneInv, GoneInv, FailInv, Unhindered, ViewInv, IsRunning
<1>2. CASE Crash
  <2>1. /\ req' = [r \in Requests |->
                     IF req[r].pc \in Running THEN [req[r] EXCEPT !.pc = "lost"] ELSE req[r]]
        /\ view' = NoView
        /\ removed' = [d \in Devices |-> CASE removed[d] = "row" -> "left"
                                          [] removed[d] = "tried" -> "no"
                                          [] OTHER -> removed[d]]
        /\ UNCHANGED <<files, parts, log, exists, assigned, now, faulty, mixed, late>>
    BY <1>2 DEF Crash, FilesUnchanged, RowsUnchanged
  <2>0. /\ removed' \in [Devices -> Removals]
        /\ \A d \in Devices : removed'[d] = "done" => removed[d] = "done"
    <3>1. \A d \in Devices : removed[d] \in Removals
      BY DEF EventsInv, Shapes
    <3>2. \A d \in Devices : /\ removed'[d] \in Removals
                             /\ removed'[d] = "done" => removed[d] = "done"
      BY <2>1, <3>1 DEF Removals
    <3> QED
      BY <2>1, <3>2
  <2>2. ASSUME NEW r \in Requests
        PROVE  /\ IsReq(req'[r]) /\ req'[r].upd = req[r].upd /\ req'[r].tag = req[r].tag
               /\ ~IsRunning(r)'
               /\ req'[r].pc = "500" => req[r].pc = "500"
    <3>1. IsReq(req[r])
      BY DEF EventsInv, Shapes
    <3>2. CASE req[r].pc \in Running
      <4>1. req'[r] = [req[r] EXCEPT !.pc = "lost"]
        BY <2>1, <3>2
      <4>2. IsReq(req'[r]) /\ req'[r].upd = req[r].upd /\ req'[r].tag = req[r].tag /\ req'[r].pc = "lost"
        BY <3>1, <4>1 DEF IsReq
      <4> QED
        BY <4>2 DEF IsRunning, Running
    <3>3. CASE req[r].pc \notin Running
      BY <2>1, <3>1, <3>3 DEF IsRunning
    <3> QED
      BY <3>2, <3>3
  <2>3. Shapes'
    BY <2>0, <2>1, <2>2 DEF EventsInv, Shapes, NoView
  <2>4. AloneInv' /\ GoneInv'
    BY <2>0, <2>1, <2>2 DEF EventsInv, AloneInv, GoneInv
  <2>5. \A r \in Requests : Unhindered(r)'
    BY <2>1, <2>2 DEF EventsInv, FailInv, Unhindered, IsRunning, Running
  <2>6. ViewInv'
    BY <2>1 DEF ViewInv, NoView
  <2> QED
    BY <2>3, <2>4, <2>5, <2>6 DEF EventsInv, FailInv
<1> QED
  BY <1>1, <1>2

-----------------------------------------------------------------------------
\* Spec keeps EventsInv.
THEOREM EventsInvariant == Spec => []EventsInv
<1>1. Init => EventsInv
  <2> SUFFICES ASSUME Init
               PROVE  EventsInv
    OBVIOUS
  <2>1. PICK w \in Workloads :
          req = [r \in Requests |-> IF r \in w THEN Idle ELSE [Idle EXCEPT !.pc = "none"]]
    BY DEF Init
  <2>2. \A r \in Requests : IsReq(req[r]) /\ req[r].upd = None /\ req[r].pc \in {"idle", "none"}
    BY <2>1 DEF Idle, IsReq
  <2>3. DOMAIN <<>> = {}
    OBVIOUS
  <2>4. \A d \in Devices : FilesOK(files[d])
    BY <2>3, FS_EmptySet DEF Init, FilesOK
  <2>5. Shapes
    BY <2>1, <2>2, <2>4, EventsAssumption DEF Init, Shapes, NoView, Removals
  <2>6. AloneInv /\ GoneInv
    BY <2>2, EventsAssumption DEF Init, AloneInv, GoneInv, IsRunning, Running
  <2>7. FailInv
    BY <2>2 DEF Init, FailInv, Unhindered, ViewInv, NoView
  <2> QED
    BY <2>5, <2>6, <2>7 DEF EventsInv
<1>2. EventsInv /\ [Next]_vars => EventsInv'
  <2> SUFFICES ASSUME EventsInv, [Next]_vars
               PROVE  EventsInv'
    OBVIOUS
  <2>1. CASE UNCHANGED vars
    BY <2>1 DEF vars, EventsInv, Shapes, AloneInv, GoneInv, FailInv, Unhindered, ViewInv, IsRunning
  <2>2. CASE \E r \in Requests : Begin(r) \/ RequestStep(r)
    BY <2>2, BeginKeeps, RequestKeeps
  <2>3. CASE \E d \in Devices : DeleteRow(d) \/ RemoveAll(d) \/ RemoveFails(d) \/ UndenyDevice(d)
    BY <2>3, DeleteDeviceKeeps
  <2>4. CASE \E u \in Updates : DeleteUpdate(u) \/ \E d \in Devices : SetUpdate(d, u)
    BY <2>4, UpdatesKeep
  <2>5. CASE ReadState \/ \E d \in Devices : ListStates(d)
    BY <2>5, ReaderKeeps
  <2>6. CASE Crash \/ Tick
    BY <2>6, RestartKeeps
  <2> QED
    BY <2>1, <2>2, <2>3, <2>4, <2>5, <2>6 DEF Next, RequestStep
<1> QED
  BY <1>1, <1>2, PTL DEF Spec

\* A deleted device's directory and a deleted update's log stay gone, whatever comes
\* after, unless a request was running when the deletion began.
THEOREM DeletionIsFinal == Spec => []DeletedStaysGone
<1>1. EventsInv => DeletedStaysGone
  BY DEF EventsInv, GoneInv, DeletedStaysGone
<1> QED
  BY <1>1, EventsInvariant, PTL

\* Rolling over never trips over itself, nor a write over a partial file that a crash
\* left, and no reader that nothing happens beside finds a file missing or empty.
THEOREM FailuresHaveReasons == Spec => []FailsForAReason
<1>1. EventsInv => FailsForAReason
  BY DEF EventsInv, FailInv, Unhindered, ViewInv, FailsForAReason
<1> QED
  BY <1>1, EventsInvariant, PTL

-----------------------------------------------------------------------------
(* The reports over a log.  The loop over the lines is a recursive function, and  *)
(* what it has after any number of them is found by induction on that number.     *)

\* Every non-empty set of numbers has a least one: the form of induction the proofs
\* about the loops over a log and over the states of a report use.
LEMMA LeastNumber ==
  ASSUME NEW T, T \subseteq Nat, T # {}
  PROVE  \E n \in T : \A m \in T : n =< m
<1>1. PICK x \in T : \A y \in T : ~(<<y, x>> \in OpToRel(<, Nat))
  BY NatLessThanWellFounded, WFMin
<1>2. \A y \in T : ~(y < x)
  BY <1>1, x \in Nat, \A y \in T : y \in Nat DEF OpToRel
<1> QED
  BY <1>2

LoopStart(filter) == [last |-> [d \in filter |-> MissingState], failed |-> [d \in filter |-> FALSE]]

AfterLine(acc, line, targets, filter) ==
  IF line.uuid \in filter THEN NextState(acc, line, targets) ELSE acc

\* f is what the loop has after each of the first n lines.
IsLoop(f, n, lg, targets, filter) ==
  f = [i \in 0 .. n |-> IF i = 0 THEN LoopStart(filter)
                        ELSE AfterLine(f[i - 1], lg[i], targets, filter)]

\* The loop over the lines is defined for any number of them.
LEMMA LoopExists ==
  ASSUME NEW lg, NEW targets, NEW filter, NEW n \in Nat
  PROVE  \E f : IsLoop(f, n, lg, targets, filter)
<1> DEFINE T == {m \in Nat : ~\E f : IsLoop(f, m, lg, targets, filter)}
<1>1. SUFFICES T = {}
  OBVIOUS
<1>2. SUFFICES ASSUME T # {} PROVE FALSE
  OBVIOUS
<1>3. PICK m \in T : \A k \in T : m =< k
  <2>1. T \subseteq Nat /\ T # {}
    BY <1>2
  <2> HIDE DEF T
  <2> QED
    BY <2>1, LeastNumber
<1>4. m # 0
  <2>1. IsLoop([i \in 0 .. 0 |-> LoopStart(filter)], 0, lg, targets, filter)
    BY DEF IsLoop
  <2> QED
    BY <2>1
<1>5. m - 1 \in Nat /\ m - 1 \notin T
  BY <1>3, <1>4
<1>6. PICK f : IsLoop(f, m - 1, lg, targets, filter)
  BY <1>5
<1> DEFINE g == [i \in 0 .. m |-> IF i = m THEN AfterLine(f[m - 1], lg[m], targets, filter) ELSE f[i]]
<1>7. IsLoop(g, m, lg, targets, filter)
  <2>1. \A i \in 0 .. m - 1 : f[i] = IF i = 0 THEN LoopStart(filter)
                                ELSE AfterLine(f[i - 1], lg[i], targets, filter)
    BY <1>6 DEF IsLoop
  <2>2. \A i \in 0 .. m : g[i] = IF i = 0 THEN LoopStart(filter)
                                ELSE AfterLine(g[i - 1], lg[i], targets, filter)
    <3> TAKE i \in 0 .. m
    <3>1. CASE i = m
      <4>1. m - 1 \in 0 .. m /\ m - 1 # m /\ m \in 0 .. m
        BY <1>5
      <4>2. g[m - 1] = f[m - 1] /\ g[m] = AfterLine(f[m - 1], lg[m], targets, filter)
        BY <4>1
      <4> QED
        BY <3>1, <4>2, <1>4
    <3>2. CASE i # m
      <4>1. i \in 0 .. m - 1 /\ g[i] = f[i] /\ (i # 0 => i - 1 \in 0 .. m /\ i - 1 # m)
        BY <3>2
      <4> QED
        BY <4>1, <2>1
    <3> QED
      BY <3>1, <3>2
  <2>3. g = [i \in 0 .. m |-> g[i]]
    OBVIOUS
  <2> HIDE DEF g
  <2> QED
    BY <2>2, <2>3 DEF IsLoop
<1> QED
  BY <1>3, <1>7

\* The loop of lastKnownStates is the one with these steps.
LEMMA LoopRuns ==
  ASSUME NEW lg, NEW targets, NEW filter, Len(lg) \in Nat
  PROVE  IsLoop(StatesAfter(lg, targets, filter), Len(lg), lg, targets, filter)
<1>1. StatesAfter(lg, targets, filter) = CHOOSE f : IsLoop(f, Len(lg), lg, targets, filter)
  BY DEF StatesAfter, IsLoop, LoopStart, AfterLine
<1> QED
  BY <1>1, LoopExists

OwnLine(lg, k, targets, d) == lg[k].uuid = d /\ ~Foreign(lg[k], targets)

\* Line k is the last of the first n lines that is about this update and device d.
IsLastOwn(lg, n, targets, d, k) ==
  /\ k \in 1 .. n /\ OwnLine(lg, k, targets, d)
  /\ \A j \in 1 .. n : OwnLine(lg, j, targets, d) => j =< k

WentBack(lg, n, d, k) ==
  /\ lg[k].status = installationFailedState
  /\ \E j \in 1 .. n : j > k /\ lg[j].uuid = d /\ lg[j].status = installationSucceededState

NoOwn(lg, n, targets, d) == \A j \in 1 .. n : ~OwnLine(lg, j, targets, d)

\* What the first n lines say of device d.
Says(lg, n, targets, d, state, failed) ==
  \/ NoOwn(lg, n, targets, d) /\ state = MissingState /\ ~failed
  \/ \E k \in 1 .. n :
       /\ IsLastOwn(lg, n, targets, d, k)
       /\ failed <=> lg[k].status = installationFailedState
       /\ state = IF WentBack(lg, n, d, k) THEN RolledBackState ELSE lg[k].status

\* The states of the loop are functions on the filter.
IsState(acc, filter) ==
  acc = [last |-> [d \in filter |-> acc.last[d]], failed |-> [d \in filter |-> acc.failed[d]]]

\* A line of another device, or passed over, changes nothing of what is said of d.
LEMMA SaysOther ==
  ASSUME NEW lg, NEW n \in Nat, NEW targets, NEW d, NEW state, NEW failed,
         Says(lg, n, targets, d, state, failed), lg[n + 1].uuid # d
  PROVE  Says(lg, n + 1, targets, d, state, failed)
<1>1. ~OwnLine(lg, n + 1, targets, d)
  BY DEF OwnLine
<1>2. \A j : j \in 1 .. n + 1 <=> j \in 1 .. n \/ j = n + 1
  OBVIOUS
<1>3. CASE NoOwn(lg, n, targets, d) /\ state = MissingState /\ ~failed
  BY <1>1, <1>2, <1>3 DEF Says, NoOwn
<1>4. ASSUME NEW k \in 1 .. n, IsLastOwn(lg, n, targets, d, k),
             failed <=> lg[k].status = installationFailedState,
             state = IF WentBack(lg, n, d, k) THEN RolledBackState ELSE lg[k].status
      PROVE  Says(lg, n + 1, targets, d, state, failed)
  <2>1. IsLastOwn(lg, n + 1, targets, d, k)
    BY <1>1, <1>2, <1>4 DEF IsLastOwn
  <2>2. WentBack(lg, n + 1, d, k) <=> WentBack(lg, n, d, k)
    BY <1>2 DEF WentBack
  <2>3. k \in 1 .. n + 1
    BY <1>2
  <2> QED
    BY <2>1, <2>2, <2>3, <1>4 DEF Says
<1> QED
  BY <1>3, <1>4 DEF Says

\* A line about this update: the device is in the state that the line gives.
LEMMA SaysOwn ==
  ASSUME NEW lg, NEW n \in Nat, NEW targets, NEW d, OwnLine(lg, n + 1, targets, d)
  PROVE  Says(lg, n + 1, targets, d, lg[n + 1].status, lg[n + 1].status = installationFailedState)
<1>1. \A j \in 1 .. n + 1 : j =< n + 1
  OBVIOUS
<1>2. n + 1 \in 1 .. n + 1
  OBVIOUS
<1>3. IsLastOwn(lg, n + 1, targets, d, n + 1)
  BY <1>1, <1>2 DEF IsLastOwn
<1>4. ~WentBack(lg, n + 1, d, n + 1)
  <2>1. \A j \in 1 .. n + 1 : ~(j > n + 1)
    OBVIOUS
  <2> QED
    BY <2>1 DEF WentBack
<1> QED
  BY <1>2, <1>3, <1>4 DEF Says

\* A line of the device about another target: it went back if its installation had
\* failed and this one succeeded.
LEMMA SaysForeign ==
  ASSUME NEW lg, NEW n \in Nat, NEW targets, NEW d, NEW state, NEW failed,
         Says(lg, n, targets, d, state, failed),
         lg[n + 1].uuid = d, Foreign(lg[n + 1], targets)
  PROVE  Says(lg, n + 1, targets, d,
              IF failed /\ lg[n + 1].status = installationSucceededState
              THEN RolledBackState ELSE state,
              failed)
<1> DEFINE back == lg[n + 1].status = installationSucceededState
<1>1. ~OwnLine(lg, n + 1, targets, d)
  BY DEF OwnLine
<1>2. \A j : j \in 1 .. n + 1 <=> j \in 1 .. n \/ j = n + 1
  OBVIOUS
<1>3. CASE NoOwn(lg, n, targets, d) /\ state = MissingState /\ ~failed
  BY <1>1, <1>2, <1>3 DEF Says, NoOwn
<1>4. ASSUME NEW k \in 1 .. n, IsLastOwn(lg, n, targets, d, k),
             failed <=> lg[k].status = installationFailedState,
             state = IF WentBack(lg, n, d, k) THEN RolledBackState ELSE lg[k].status
      PROVE  Says(lg, n + 1, targets, d, IF failed /\ back THEN RolledBackState ELSE state, failed)
  <2>1. IsLastOwn(lg, n + 1, targets, d, k)
    BY <1>1, <1>2, <1>4 DEF IsLastOwn
  <2>2. n + 1 > k
    OBVIOUS
  <2>3. WentBack(lg, n + 1, d, k) <=> WentBack(lg, n, d, k) \/ (failed /\ back)
    BY <1>2, <2>2, <1>4 DEF WentBack
  <2>4. k \in 1 .. n + 1
    BY <1>2
  <2> HIDE DEF back
  <2> QED
    BY <2>1, <2>3, <2>4, <1>4 DEF Says
<1> QED
  BY <1>3, <1>4 DEF Says

\* The loop of lastKnownStates says of every device what the lines so far do.
LEMMA LoopSays ==
  ASSUME NEW lg, NEW targets, NEW filter, NEW n \in Nat, NEW f, IsLoop(f, n, lg, targets, filter),
         NEW m \in 0 .. n
  PROVE  /\ IsState(f[m], filter)
         /\ \A d \in filter : Says(lg, m, targets, d, f[m].last[d], f[m].failed[d])
<1> DEFINE Fine(k) == /\ IsState(f[k], filter)
                      /\ \A d \in filter : Says(lg, k, targets, d, f[k].last[d], f[k].failed[d])
           T == {k \in 0 .. n : ~Fine(k)}
<1>1. SUFFICES ASSUME T # {} PROVE FALSE
  OBVIOUS
<1>2. PICK k \in T : \A j \in T : k =< j
  <2>1. T \subseteq Nat /\ T # {}
    BY <1>1
  <2> HIDE DEF T
  <2> QED
    BY <2>1, LeastNumber
<1>3. \A i \in 0 .. n : f[i] = IF i = 0 THEN LoopStart(filter)
                               ELSE AfterLine(f[i - 1], lg[i], targets, filter)
  BY DEF IsLoop
<1>4. k # 0
  <2>1. f[0] = LoopStart(filter)
    BY <1>3
  <2>2. IsState(LoopStart(filter), filter)
    BY DEF IsState, LoopStart
  <2>3. \A d \in filter : LoopStart(filter).last[d] = MissingState /\ LoopStart(filter).failed[d] = FALSE
    BY DEF LoopStart
  <2>4. \A d \in filter : Says(lg, 0, targets, d, MissingState, FALSE)
    BY DEF Says, NoOwn
  <2> QED
    BY <2>1, <2>2, <2>3, <2>4
<1>5. PICK p \in Nat : k = p + 1 /\ p \in 0 .. n /\ p \notin T /\ p + 1 \in 0 .. n
  <2>1. k - 1 \in Nat /\ k = (k - 1) + 1 /\ k - 1 \in 0 .. n /\ k - 1 \notin T /\ k \in 0 .. n
    BY <1>2, <1>4
  <2> HIDE DEF T
  <2> QED
    BY <2>1
<1>6. Fine(p)
  BY <1>5
<1> DEFINE acc == f[p]  line == lg[p + 1]
<1>7. f[p + 1] = AfterLine(acc, line, targets, filter)
  <2>1. p + 1 # 0 /\ (p + 1) - 1 = p
    OBVIOUS
  <2> QED
    BY <1>3, <1>5, <2>1
<1>8. IsState(acc, filter) /\ \A d \in filter : Says(lg, p, targets, d, acc.last[d], acc.failed[d])
  BY <1>6
<1>9. ~Fine(p + 1)
  BY <1>5
<1>10. SUFFICES /\ IsState(AfterLine(acc, line, targets, filter), filter)
                /\ \A d \in filter : Says(lg, p + 1, targets, d, AfterLine(acc, line, targets, filter).last[d],
                                          AfterLine(acc, line, targets, filter).failed[d])
  BY <1>7, <1>9
<1> DEFINE res == AfterLine(acc, line, targets, filter)
<1>11. CASE line.uuid \notin filter
  <2>1. res = acc
    BY <1>11 DEF AfterLine
  <2>2. \A d \in filter : lg[p + 1].uuid # d
    BY <1>11
  <2> HIDE DEF res, acc
  <2>3. \A d \in filter : Says(lg, p + 1, targets, d, acc.last[d], acc.failed[d])
    BY <1>8, <2>2, SaysOther
  <2>4. \A d \in filter : res.last[d] = acc.last[d] /\ res.failed[d] = acc.failed[d]
    BY <2>1
  <2>5. \A d \in filter : Says(lg, p + 1, targets, d, res.last[d], res.failed[d])
    BY <2>3, <2>4, Zenon
  <2>6. IsState(res, filter)
    BY <2>1, <1>8
  <2> QED
    BY <2>5, <2>6 DEF res
<1>12. CASE line.uuid \in filter /\ ~Foreign(line, targets)
  <2>1. res = [last   |-> [acc.last EXCEPT ![line.uuid] = line.status],
               failed |-> [acc.failed EXCEPT ![line.uuid] = line.status = installationFailedState]]
    BY <1>12 DEF AfterLine, NextState
  <2> HIDE DEF res, acc
  <2>2. acc.last = [d \in filter |-> acc.last[d]] /\ acc.failed = [d \in filter |-> acc.failed[d]]
    BY <1>8 DEF IsState
  <2>3. /\ res.last = [d \in filter |-> IF d = line.uuid THEN line.status ELSE acc.last[d]]
        /\ res.failed = [d \in filter |-> IF d = line.uuid THEN line.status = installationFailedState
                                          ELSE acc.failed[d]]
        /\ res = [last |-> res.last, failed |-> res.failed]
    <3>1. [acc.last EXCEPT ![line.uuid] = line.status]
            = [d \in filter |-> IF d = line.uuid THEN line.status ELSE acc.last[d]]
      BY <2>2, Zenon
    <3>2. [acc.failed EXCEPT ![line.uuid] = line.status = installationFailedState]
            = [d \in filter |-> IF d = line.uuid THEN line.status = installationFailedState
                                          ELSE acc.failed[d]]
      BY <2>2, Zenon
    <3> QED
      BY <2>1, <3>1, <3>2, Zenon
  <2>4. IsState(res, filter)
    BY <2>3 DEF IsState
  <2>5. \A d \in filter : Says(lg, p + 1, targets, d, res.last[d], res.failed[d])
    <3> TAKE d \in filter
    <3>1. CASE d = line.uuid
      <4>1. res.last[d] = line.status
        BY <2>3, <3>1
      <4>2. res.failed[d] = (line.status = installationFailedState)
        BY <2>3, <3>1, Zenon
      <4>3. OwnLine(lg, p + 1, targets, d)
        BY <1>12, <3>1 DEF OwnLine
      <4>4. Says(lg, p + 1, targets, d, lg[p + 1].status, lg[p + 1].status = installationFailedState)
        BY <4>3, SaysOwn
      <4> QED
        BY <4>1, <4>2, <4>4, Zenon
    <3>2. CASE d # line.uuid
      <4>1. res.last[d] = acc.last[d] /\ res.failed[d] = acc.failed[d]
        BY <2>3, <3>2, Zenon
      <4>2. Says(lg, p + 1, targets, d, acc.last[d], acc.failed[d])
        BY <1>8, <3>2, SaysOther
      <4> QED
        BY <4>1, <4>2, Zenon
    <3> QED
      BY <3>1, <3>2
  <2> QED
    BY <2>4, <2>5 DEF res
<1>13. CASE line.uuid \in filter /\ Foreign(line, targets)
  <2> DEFINE back == acc.failed[line.uuid] /\ line.status = installationSucceededState
  <2>1. res = IF back THEN [acc EXCEPT !.last[line.uuid] = RolledBackState] ELSE acc
    BY <1>13 DEF AfterLine, NextState
  <2> HIDE DEF res, acc
  <2>2. /\ acc.last = [d \in filter |-> acc.last[d]] /\ acc.failed = [d \in filter |-> acc.failed[d]]
        /\ acc = [last |-> acc.last, failed |-> acc.failed]
    BY <1>8 DEF IsState
  <2>3. /\ res = [last |-> res.last, failed |-> res.failed]
        /\ res.failed = acc.failed
        /\ res.last = [d \in filter |-> IF d = line.uuid /\ back THEN RolledBackState ELSE acc.last[d]]
    <3>1. CASE back
      <4>1. res = [last |-> [acc.last EXCEPT ![line.uuid] = RolledBackState], failed |-> acc.failed]
        BY <2>1, <2>2, <3>1
      <4>2. [acc.last EXCEPT ![line.uuid] = RolledBackState]
              = [d \in filter |-> IF d = line.uuid THEN RolledBackState ELSE acc.last[d]]
        BY <2>2, Zenon
      <4> QED
        BY <4>1, <4>2, <3>1
    <3>2. CASE ~back
      BY <2>1, <2>2, <3>2
    <3> QED
      BY <3>1, <3>2
  <2>4. IsState(res, filter)
    BY <2>2, <2>3 DEF IsState
  <2>5. \A d \in filter : Says(lg, p + 1, targets, d, res.last[d], res.failed[d])
    <3> TAKE d \in filter
    <3>0. res.failed[d] = acc.failed[d]
      BY <2>3
    <3>1. CASE d = line.uuid
      <4>1. res.last[d] = IF acc.failed[d] /\ lg[p + 1].status = installationSucceededState
                          THEN RolledBackState ELSE acc.last[d]
        BY <2>3, <3>1
      <4>2. Says(lg, p, targets, d, acc.last[d], acc.failed[d])
            /\ lg[p + 1].uuid = d /\ Foreign(lg[p + 1], targets)
        BY <1>8, <1>13, <3>1
      <4>3. Says(lg, p + 1, targets, d,
                 IF acc.failed[d] /\ lg[p + 1].status = installationSucceededState
                          THEN RolledBackState ELSE acc.last[d], acc.failed[d])
        BY <4>2, SaysForeign
      <4> QED
        BY <4>1, <3>0, <4>3, Zenon
    <3>2. CASE d # line.uuid
      <4>1. res.last[d] = acc.last[d]
        BY <2>3, <3>2
      <4>2. Says(lg, p + 1, targets, d, acc.last[d], acc.failed[d])
        BY <1>8, <3>2, SaysOther
      <4> QED
        BY <4>1, <3>0, <4>2, Zenon
    <3> QED
      BY <3>1, <3>2
  <2> QED
    BY <2>4, <2>5 DEF res
<1> QED
  BY <1>10, <1>11, <1>12, <1>13

\* What Says determines is what Reported gives.
LEMMA SaysReported ==
  ASSUME NEW lg, Len(lg) \in Nat, DOMAIN lg = 1 .. Len(lg), NEW targets, NEW d, NEW state, NEW failed,
         Says(lg, Len(lg), targets, d, state, failed)
  PROVE  state = Reported(lg, targets, d)
<1> DEFINE own == {i \in DOMAIN lg : lg[i].uuid = d /\ ~Foreign(lg[i], targets)}
           last == CHOOSE k \in own : \A j \in own : j =< k
<1>0. Reported(lg, targets, d)
        = IF own = {} THEN MissingState
          ELSE IF WentBack(lg, Len(lg), d, last) THEN RolledBackState ELSE lg[last].status
  BY DEF Reported, WentBack
<1>1. \A k : k \in own <=> k \in 1 .. Len(lg) /\ OwnLine(lg, k, targets, d)
  BY DEF OwnLine
<1>2. CASE NoOwn(lg, Len(lg), targets, d) /\ state = MissingState
  <2>1. own = {}
    BY <1>1, <1>2 DEF NoOwn
  <2> QED
    BY <1>0, <1>2, <2>1
<1>3. ASSUME NEW k \in 1 .. Len(lg), IsLastOwn(lg, Len(lg), targets, d, k),
             state = IF WentBack(lg, Len(lg), d, k) THEN RolledBackState ELSE lg[k].status
      PROVE  state = Reported(lg, targets, d)
  <2>1. k \in own /\ \A j \in own : j =< k
    BY <1>1, <1>3 DEF IsLastOwn
  <2>2. \A x \in own : x \in 1 .. Len(lg)
    BY <1>1
  <2>3. last \in own /\ \A j \in own : j =< last
    BY <2>1
  <2>4. last = k
    <3>1. last =< k /\ k =< last /\ last \in Nat /\ k \in Nat
      BY <2>1, <2>2, <2>3
    <3> HIDE DEF last, own
    <3> QED
      BY <3>1
  <2>5. own # {}
    BY <2>1
  <2> HIDE DEF last, own
  <2> QED
    BY <1>0, <1>3, <2>4, <2>5
<1> QED
  BY <1>2, <1>3 DEF Says

\* lastKnownStates gives every device of the filter that lines tell of the state these
\* call for, and leaves out the others.
LEMMA LastKnown ==
  ASSUME NEW lg, Len(lg) \in Nat, DOMAIN lg = 1 .. Len(lg), NEW targets, NEW filter
  PROVE  lastKnownStates(lg, targets, filter)
           = [d \in {e \in filter : Reported(lg, targets, e) # MissingState} |-> Reported(lg, targets, d)]
<1> DEFINE f == StatesAfter(lg, targets, filter)
           last == f[Len(lg)].last
<1>1. IsLoop(f, Len(lg), lg, targets, filter)
  BY LoopRuns
<1>2. Len(lg) \in 0 .. Len(lg)
  OBVIOUS
<1>3. \A d \in filter : Says(lg, Len(lg), targets, d, f[Len(lg)].last[d], f[Len(lg)].failed[d])
  <2> HIDE DEF f
  <2> QED
    BY <1>1, <1>2, LoopSays
<1>4. \A d \in filter : last[d] = Reported(lg, targets, d)
  <2> HIDE DEF f
  <2> QED
    BY <1>3, SaysReported
<1>5. lastKnownStates(lg, targets, filter) = Restrict(last, {d \in filter : last[d] # MissingState})
  BY DEF lastKnownStates
<1> HIDE DEF last
<1>6. {d \in filter : last[d] # MissingState} = {d \in filter : Reported(lg, targets, d) # MissingState}
  BY <1>4
<1> QED
  BY <1>4, <1>5, <1>6 DEF Restrict

\* updateStateFor: the devices of the filter whose lines call for the state.
LEMMA StateFor ==
  ASSUME NEW lg, Len(lg) \in Nat, DOMAIN lg = 1 .. Len(lg), lg # NoLog, NEW targets, NEW filter, NEW s
  PROVE  updateStateFor(lg, targets, s, filter) = {d \in filter : Reported(lg, targets, d) = s}
<1> DEFINE last == lastKnownStates(lg, targets, filter)
           Known == {d \in filter : Reported(lg, targets, d) # MissingState}
<1>0. last = [d \in Known |-> Reported(lg, targets, d)]
  BY LastKnown
<1>1. DOMAIN last = Known /\ \A d \in Known : last[d] = Reported(lg, targets, d)
  <2> HIDE DEF last, Known
  <2> QED
    BY <1>0
<1>2. updateStateFor(lg, targets, s, filter)
        = IF s = MissingState THEN filter \ DOMAIN last ELSE {d \in DOMAIN last : last[d] = s}
  BY DEF updateStateFor
<1> HIDE DEF last
<1> QED
  BY <1>1, <1>2

\* A count for every state that some device of the filter is in.
Counts(sum, lg, targets, filter) ==
  /\ DOMAIN sum = {Reported(lg, targets, d) : d \in filter}
  /\ \A s \in DOMAIN sum : sum[s] = Cardinality({d \in filter : Reported(lg, targets, d) = s})

\* updateSummary: a count for every state that some device of the filter is in.
LEMMA Summary ==
  ASSUME NEW lg, Len(lg) \in Nat, DOMAIN lg = 1 .. Len(lg), lg # NoLog, NEW targets, NEW filter
  PROVE  Counts(updateSummary(lg, targets, filter), lg, targets, filter)
<1> DEFINE last == lastKnownStates(lg, targets, filter)
           R(d) == Reported(lg, targets, d)
           Known == {d \in filter : R(d) # MissingState}
           missing == filter \ DOMAIN last
           states == Range(last) \cup IF missing = {} THEN {} ELSE {MissingState}
<1>0. last = [d \in Known |-> R(d)]
  BY LastKnown
<1>1. DOMAIN last = Known /\ \A d \in Known : last[d] = R(d)
  <2> HIDE DEF last, Known
  <2> QED
    BY <1>0
<1>2. updateSummary(lg, targets, filter)
        = [s \in states |-> IF s = MissingState THEN Cardinality(missing)
                            ELSE Cardinality({d \in DOMAIN last : last[d] = s})]
  BY DEF updateSummary
<1> HIDE DEF last, R
<1>3. missing = {d \in filter : R(d) = MissingState}
  BY <1>1
<1>4. \A s : s # MissingState => {d \in DOMAIN last : last[d] = s} = {d \in filter : R(d) = s}
  BY <1>1
<1>5. states = {R(d) : d \in filter}
  <2>1. \A s : s \in Range(last) <=> \E d \in filter : R(d) # MissingState /\ s = R(d)
    BY <1>1 DEF Range
  <2>2. missing = {} <=> ~\E d \in filter : R(d) = MissingState
    BY <1>3
  <2> HIDE DEF missing
  <2>3. \A s : s \in states <=> s \in {R(d) : d \in filter}
    BY <2>1, <2>2
  <2> QED
    BY <2>3
<1>6. [s \in states |-> IF s = MissingState THEN Cardinality(missing)
                            ELSE Cardinality({d \in DOMAIN last : last[d] = s})]
       = [s \in {R(d) : d \in filter} |-> Cardinality({d \in filter : R(d) = s})]
  BY <1>3, <1>4, <1>5
<1> DEFINE sum == updateSummary(lg, targets, filter)
<1>7. sum = [s \in {R(d) : d \in filter} |-> Cardinality({d \in filter : R(d) = s})]
  BY <1>2, <1>6
<1> HIDE DEF sum
<1>8. /\ DOMAIN sum = {R(d) : d \in filter}
      /\ \A s \in DOMAIN sum : sum[s] = Cardinality({d \in filter : R(d) = s})
  BY <1>7
<1> QED
  BY <1>8 DEF Counts, R, sum

Pick(s) == CHOOSE x \in s : TRUE

FoldStep(it, fun, s) == IF s = {} THEN 0 ELSE fun[Pick(s)] + it[s \ {Pick(s)}]

\* it adds up the values of fun over the sets of a family.
IsFold(it, fun, F) == it = [s \in F |-> FoldStep(it, fun, s)]

\* The sets of at most n elements of S.
Small(S, n) == {s \in SUBSET S : Cardinality(s) =< n}

\* A sum over a function is defined, for a finite domain.
LEMMA FoldExists ==
  ASSUME NEW fun, NEW S, IsFiniteSet(S), NEW n \in Nat
  PROVE  \E it : IsFold(it, fun, Small(S, n))
<1> DEFINE T == {m \in Nat : ~\E it : IsFold(it, fun, Small(S, m))}
<1>1. SUFFICES ASSUME T # {} PROVE FALSE
  OBVIOUS
<1>2. PICK m \in T : \A k \in T : m =< k
  <2>1. T \subseteq Nat /\ T # {}
    BY <1>1
  <2> HIDE DEF T
  <2> QED
    BY <2>1, LeastNumber
<1>3. \A s \in SUBSET S : IsFiniteSet(s) /\ Cardinality(s) \in Nat
  BY FS_Subset, FS_CardinalityType
<1>4. m # 0
  <2>1. \A s \in Small(S, 0) : s = {}
    BY <1>3, FS_EmptySet DEF Small
  <2>2. IsFold([s \in Small(S, 0) |-> 0], fun, Small(S, 0))
    BY <2>1 DEF IsFold, FoldStep
  <2> QED
    BY <2>2
<1>5. PICK p \in Nat : m = p + 1 /\ p \notin T
  <2>1. m - 1 \in Nat /\ m = (m - 1) + 1 /\ m - 1 \notin T
    BY <1>2, <1>4
  <2> HIDE DEF T
  <2> QED
    BY <2>1
<1>6. PICK it : IsFold(it, fun, Small(S, p))
  BY <1>5
<1> DEFINE A == Small(S, p)  B == Small(S, p + 1)
           g == [s \in B |-> FoldStep(it, fun, s)]
<1>7. \A s \in B : s # {} => Pick(s) \in s /\ s \ {Pick(s)} \in A
  <2> SUFFICES ASSUME NEW s \in B, s # {} PROVE Pick(s) \in s /\ s \ {Pick(s)} \in A
    OBVIOUS
  <2>1. Pick(s) \in s
    BY DEF Pick
  <2>2. s \in SUBSET S /\ Cardinality(s) =< p + 1 /\ IsFiniteSet(s) /\ Cardinality(s) \in Nat
    BY <1>3 DEF Small
  <2>3. Cardinality(s \ {Pick(s)}) = Cardinality(s) - 1
    BY <2>1, <2>2, FS_RemoveElement
  <2>4. Cardinality(s \ {Pick(s)}) =< p
    BY <2>2, <2>3
  <2> QED
    BY <2>1, <2>2, <2>4 DEF Small
<1>8. \A s \in A : s \in B
  BY <1>3 DEF Small
<1>9. \A s \in A : it[s] = FoldStep(it, fun, s)
  BY <1>6 DEF IsFold
<1> HIDE DEF A, B
<1>10. \A s \in A : g[s] = it[s]
  BY <1>8, <1>9
<1>11. \A s \in B : FoldStep(it, fun, s) = FoldStep(g, fun, s)
  BY <1>7, <1>10 DEF FoldStep
<1>12. g = [s \in B |-> FoldStep(g, fun, s)]
  <2>1. \A s \in B : g[s] = FoldStep(g, fun, s)
    BY <1>11
  <2>2. g = [s \in B |-> g[s]]
    OBVIOUS
  <2> HIDE DEF g
  <2> QED
    BY <2>1, <2>2
<1> QED
  BY <1>2, <1>5, <1>12 DEF IsFold, B

\* The devices, counted by the state that r gives them, are all the devices.
LEMMA CountsSum ==
  ASSUME NEW S, IsFiniteSet(S), NEW r, r = [d \in S |-> r[d]],
         NEW fun, DOMAIN fun = {r[d] : d \in S},
         \A s \in DOMAIN fun : fun[s] = Cardinality({d \in S : r[d] = s})
  PROVE  Total(fun) = Cardinality(S)
<1> DEFINE D == DOMAIN fun
           it == CHOOSE f : IsFold(f, fun, SUBSET D)
           In(s) == {d \in S : r[d] \in s}
<1>1. Total(fun) = it[D]
  BY DEF Total, FoldFunction, FoldFunctionOnSet, MapThenFoldSet, IsFold, FoldStep, Pick
<1>2. IsFiniteSet(D) /\ Cardinality(D) \in Nat
  <2>1. r \in Surjection(S, D)
    BY DEF Surjection
  <2> QED
    BY <2>1, FS_Surjection, FS_CardinalityType DEF ExistsSurjection
<1>3. \A s \in SUBSET D : IsFiniteSet(s) /\ Cardinality(s) \in Nat /\ Cardinality(s) =< Cardinality(D)
  BY <1>2, FS_Subset, FS_CardinalityType
<1>4. Small(D, Cardinality(D)) = SUBSET D
  BY <1>3 DEF Small
<1>5. IsFold(it, fun, SUBSET D)
  <2>1. \E f : IsFold(f, fun, SUBSET D)
    <3>1. \E f : IsFold(f, fun, Small(D, Cardinality(D)))
      <4> HIDE DEF D
      <4> QED
        BY <1>2, FoldExists
    <3> QED
      BY <3>1, <1>4
  <2> HIDE DEF D
  <2> QED
    BY <2>1
<1>6. \A s \in SUBSET D : it[s] = FoldStep(it, fun, s)
  <2> HIDE DEF it
  <2> QED
    BY <1>5 DEF IsFold
<1>7. \A s : IsFiniteSet(In(s)) /\ Cardinality(In(s)) \in Nat
  BY FS_Subset, FS_CardinalityType
<1> HIDE DEF it
<1> DEFINE Bad == {n \in Nat : \E s \in SUBSET D : Cardinality(s) = n /\ it[s] # Cardinality(In(s))}
<1>8. Bad = {}
  <2>1. SUFFICES ASSUME Bad # {} PROVE FALSE
    OBVIOUS
  <2>2. PICK n \in Bad : \A k \in Bad : n =< k
    <3>1. Bad \subseteq Nat /\ Bad # {}
      BY <2>1
    <3> HIDE DEF Bad
    <3> QED
      BY <3>1, LeastNumber
  <2>3. PICK s \in SUBSET D : Cardinality(s) = n /\ it[s] # Cardinality(In(s))
    BY <2>2
  <2>4. s # {}
    <3>1. ASSUME s = {} PROVE FALSE
      <4>1. it[s] = 0
        BY <1>6, <3>1 DEF FoldStep
      <4>2. In(s) = {}
        BY <3>1
      <4> QED
        BY <4>1, <4>2, <2>3, FS_EmptySet
    <3> QED
      BY <3>1
  <2> DEFINE c == Pick(s)  rest == s \ {c}
  <2>5. c \in s /\ c \in D /\ rest \in SUBSET D
    BY <2>4 DEF Pick
  <2>6. it[s] = fun[c] + it[rest]
    BY <1>6, <2>4 DEF FoldStep
  <2>7. Cardinality(rest) = n - 1 /\ Cardinality(rest) \in Nat
    BY <1>3, <2>3, <2>5, FS_RemoveElement
  <2> HIDE DEF c
  <2>8. Cardinality(rest) \notin Bad
    <3>1. n \in Nat /\ n - 1 \in Nat
      BY <2>7
    <3> HIDE DEF rest, Bad
    <3> QED
      BY <2>2, <2>7, <3>1
  <2>9. it[rest] = Cardinality(In(rest))
    <3> HIDE DEF rest, In
    <3> QED
      BY <2>5, <2>7, <2>8
  <2>10. fun[c] = Cardinality(In({c}))
    <3>1. In({c}) = {d \in S : r[d] = c}
      OBVIOUS
    <3> QED
      BY <3>1, <2>5
  <2>11. In(s) = In({c}) \cup In(rest) /\ In({c}) \cap In(rest) = {}
    BY <2>5
  <2> HIDE DEF In, rest
  <2>12. Cardinality(In(s)) = Cardinality(In({c})) + Cardinality(In(rest))
    <3>1. Cardinality(In({c}) \cup In(rest))
            = Cardinality(In({c})) + Cardinality(In(rest)) - Cardinality(In({c}) \cap In(rest))
      BY <1>7, FS_Union
    <3>2. Cardinality(In({c}) \cap In(rest)) = 0
      BY <2>11, FS_EmptySet
    <3>3. Cardinality(In({c})) \in Nat /\ Cardinality(In(rest)) \in Nat
      BY <1>7
    <3> QED
      BY <3>1, <3>2, <3>3, <2>11
  <2> QED
    BY <2>3, <2>6, <2>9, <2>10, <2>12
<1>9. it[D] = Cardinality(In(D))
  <2>1. Cardinality(D) \notin Bad
    BY <1>8
  <2> HIDE DEF In, D
  <2> QED
    BY <2>1, <1>2
<1>10. In(D) = S
  OBVIOUS
<1> QED
  BY <1>1, <1>9, <1>10

\* lastKnownStates and the reports over it, for any log, targets and rollout: every
\* device is given the state its lines call for, the counts of a rollout add up to its
\* devices, the lists have as many devices as is counted, and the update's own report
\* counts no device less (updateSummary, updateStateFor).
THEOREM ReportsAreRight ==
  ASSUME NEW lg, lg = NoLog \/ (Len(lg) \in Nat /\ DOMAIN lg = 1 .. Len(lg)),
         NEW targets, NEW devices, IsFiniteSet(devices), NEW effect \in SUBSET devices
  PROVE  /\ ReportRight(lg, targets, [effect |-> effect])
         /\ CountsAddUp(lg, targets, [effect |-> effect], devices)
<1>1. CASE lg = NoLog
  BY <1>1 DEF ReportRight, CountsAddUp
<1>2. CASE lg # NoLog
  <2> USE <1>2
  <2>0. Len(lg) \in Nat /\ DOMAIN lg = 1 .. Len(lg)
    OBVIOUS
  <2> DEFINE R(d) == Reported(lg, targets, d)
             sum == RolloutSummary(lg, targets, [effect |-> effect])
             whole == updateSummary(lg, targets, devices)
             all == UpdateSummary(lg, targets, devices)
             r == [d \in effect |-> R(d)]
  <2>1. IsFiniteSet(effect)
    BY FS_Subset
  <2>2. \A s : RolloutStateFor(lg, targets, s, [effect |-> effect]) = {d \in effect : R(d) = s}
    BY <2>0, StateFor DEF RolloutStateFor
  <2>3. \A s : s # MissingState => UpdateStateFor(lg, targets, s, devices) = {d \in devices : R(d) = s}
    BY <2>0, StateFor DEF UpdateStateFor
  <2>4. Counts(sum, lg, targets, effect)
    <3>1. sum = updateSummary(lg, targets, effect)
      BY DEF RolloutSummary
    <3> QED
      BY <2>0, <3>1, Summary
  <2>5. Counts(whole, lg, targets, devices)
    BY <2>0, Summary
  <2>6. all = Restrict(whole, DOMAIN whole \ {MissingState})
    BY DEF UpdateSummary
  <2>7. DOMAIN sum = {R(d) : d \in effect}
        /\ \A s \in DOMAIN sum : sum[s] = Cardinality({d \in effect : R(d) = s})
    <3> HIDE DEF sum
    <3> QED
      BY <2>4 DEF Counts
  <2>8. DOMAIN all = {R(d) : d \in devices} \ {MissingState}
        /\ \A s \in DOMAIN all : all[s] = Cardinality({d \in devices : R(d) = s})
    <3> HIDE DEF whole, all
    <3> QED
      BY <2>5, <2>6 DEF Restrict, Counts
  <2> HIDE DEF R, sum, whole, all
  <2>9. ReportRight(lg, targets, [effect |-> effect])
    BY <2>2 DEF ReportRight, R
  <2>10. Total(sum) = Cardinality(effect)
    <3>1. r = [d \in effect |-> r[d]] /\ {r[d] : d \in effect} = {R(d) : d \in effect}
          /\ \A s : {d \in effect : r[d] = s} = {d \in effect : R(d) = s}
      OBVIOUS
    <3>2. /\ DOMAIN sum = {r[d] : d \in effect}
          /\ \A s \in DOMAIN sum : sum[s] = Cardinality({d \in effect : r[d] = s})
      <4> HIDE DEF r
      <4> QED
        BY <3>1, <2>7
    <3> HIDE DEF r
    <3> QED
      BY <3>1, <3>2, <2>1, CountsSum
  <2>11. ASSUME NEW s \in DOMAIN sum
         PROVE  /\ sum[s] = Cardinality(RolloutStateFor(lg, targets, s, [effect |-> effect]))
                /\ s = MissingState \/ (s \in DOMAIN all /\ all[s] >= sum[s])
    <3>1. sum[s] = Cardinality(RolloutStateFor(lg, targets, s, [effect |-> effect]))
      BY <2>2, <2>7
    <3>2. ASSUME s # MissingState
          PROVE  s \in DOMAIN all /\ all[s] >= sum[s]
      <4>1. s \in DOMAIN all
        BY <2>7, <2>8, <3>2
      <4> DEFINE P == {d \in effect : R(d) = s}  Q == {d \in devices : R(d) = s}
      <4>2. P \in SUBSET Q /\ Q \in SUBSET devices
        OBVIOUS
      <4>3. sum[s] = Cardinality(P) /\ all[s] = Cardinality(Q)
        BY <2>7, <2>8, <4>1
      <4> HIDE DEF P, Q
      <4>4. IsFiniteSet(Q) /\ IsFiniteSet(P) /\ Cardinality(P) =< Cardinality(Q)
        BY <4>2, FS_Subset
      <4>5. Cardinality(P) \in Nat /\ Cardinality(Q) \in Nat
        BY <4>4, FS_CardinalityType
      <4> QED
        BY <4>1, <4>3, <4>4, <4>5
    <3> QED
      BY <3>1, <3>2
  <2>12. \A s \in DOMAIN all : all[s] = Cardinality(UpdateStateFor(lg, targets, s, devices))
    BY <2>3, <2>8
  <2>13. CountsAddUp(lg, targets, [effect |-> effect], devices)
    BY <2>10, <2>11, <2>12 DEF CountsAddUp, sum, all
  <2> QED
    BY <2>9, <2>13
<1> QED
  BY <1>1, <1>2

-----------------------------------------------------------------------------
\* The lines that requests can append.
StatusLines ==
  {StatusLine(r, Valid(r)[n]) : r \in Requests, n \in Nat}

\* Logs are sequences of such lines, or there is none.
LogsInv == \A u \in Updates : log[u] = NoLog \/ log[u] \in Seq(StatusLines)

\* Only a request's status and the deletion of an update touch a log (AppendStatus,
\* DeleteUpdate), and both leave one.
LEMMA LogsKeep ==
  ASSUME EventsInv, LogsInv, [Next]_vars
  PROVE  LogsInv'
<1>1. ASSUME NEW r \in Requests, AppendStatus(r)
      PROVE  LogsInv'
  <2> DEFINE line == StatusLine(r, Event(r))
             u == req[r].upd
             old == IF log[u] = NoLog THEN <<>> ELSE log[u]
  <2>1. line \in StatusLines
    BY DEF StatusLines, Event, EventsInv, Shapes, IsReq
  <2>2. log' = log \/ log' = [log EXCEPT ![u] = Append(old, line)]
    BY <1>1 DEF AppendStatus
  <2>3. log = [v \in Updates |-> log[v]] /\ u \in Updates \cup {None}
    BY DEF EventsInv, Shapes
  <2>4. u \in Updates => Append(old, line) \in Seq(StatusLines)
    <3> HIDE DEF line
    <3> QED
      BY <2>1 DEF LogsInv
  <2> HIDE DEF old, line, u
  <2>5. \A v \in Updates : log'[v] = log[v] \/ (v = u /\ log'[v] = Append(old, line))
    BY <2>2, <2>3
  <2> QED
    BY <2>4, <2>5 DEF LogsInv
<1>2. ASSUME NEW u \in Updates, DeleteUpdate(u)
      PROVE  LogsInv'
  <2>1. log' = [log EXCEPT ![u] = NoLog]
    BY <1>2 DEF DeleteUpdate
  <2>2. log = [v \in Updates |-> log[v]]
    BY DEF EventsInv, Shapes
  <2>3. \A v \in Updates : log'[v] = log[v] \/ log'[v] = NoLog
    BY <2>1, <2>2
  <2> QED
    BY <2>3 DEF LogsInv
<1>3. CASE log' = log
  BY <1>3 DEF LogsInv
<1>4. ASSUME NEW r \in Requests,
             Begin(r) \/ Fails(r) \/ AppendEvent(r) \/ SaveAppsStates(r) \/ TestComplete(r)
               \/ TestStoreArtifact(r) \/ TruncateArtifact(r) \/ CopyArtifact(r)
               \/ WritePartial(r) \/ Rename(r) \/ RolloverFiles(r) \/ DeleteFile(r)
      PROVE  log' = log
  BY <1>4 DEF Begin, Fails, AppendEvent, SaveAppsStates, TestComplete, TestStoreArtifact,
              TruncateArtifact, CopyArtifact,
              WritePartial, Rename, RolloverFiles, DeleteFile, FilesUnchanged
<1>5. ASSUME NEW d \in Devices,
             \/ DeleteRow(d) \/ RemoveAll(d) \/ RemoveFails(d) \/ UndenyDevice(d) \/ ListStates(d)
             \/ \E u \in Updates : SetUpdate(d, u)
      PROVE  log' = log
  BY <1>5 DEF DeleteRow, RemoveAll, RemoveFails, UndenyDevice, ListStates, SetUpdate, FilesUnchanged
<1>6. CASE ReadState \/ Tick \/ Crash \/ UNCHANGED vars
  BY <1>3, <1>6 DEF ReadState, Tick, Crash, FilesUnchanged, vars
<1> QED
  BY <1>1, <1>2, <1>3, <1>4, <1>5, <1>6 DEF Next

\* Whatever devices reported, in whatever order and with whatever faults: the report of
\* a rollout gives each of its devices the state its lines call for, one that went back
\* to another target included, and its counts add up to the devices (lastKnownStates,
\* updateSummary, updateStateFor).
THEOREM ReportsStayRight == Spec => []ReportsRight
<1>1. Init => LogsInv
  BY DEF Init, LogsInv
<1>2. EventsInv /\ LogsInv /\ [Next]_vars => LogsInv'
  BY LogsKeep
<1>3. EventsInv /\ LogsInv => ReportsRight
  <2> SUFFICES ASSUME EventsInv, LogsInv,
                      NEW u \in {v \in exists : log[v] # <<>>}, NEW effect \in (SUBSET Devices) \ {{}}
               PROVE  /\ ReportRight(log[u], TargetsOf[u], [effect |-> effect])
                      /\ CountsAddUp(log[u], TargetsOf[u], [effect |-> effect], Devices)
    BY DEF ReportsRight
  <2>1. u \in Updates
    BY DEF EventsInv, Shapes
  <2>2. log[u] = NoLog \/ (Len(log[u]) \in Nat /\ DOMAIN log[u] = 1 .. Len(log[u]))
    <3> DEFINE l == log[u]
    <3>1. l = NoLog \/ l \in Seq(StatusLines)
      BY <2>1 DEF LogsInv
    <3> HIDE DEF l
    <3>2. l = NoLog \/ (Len(l) \in Nat /\ DOMAIN l = 1 .. Len(l))
      BY <3>1
    <3> QED
      BY <3>2 DEF l
  <2>3. IsFiniteSet(Devices) /\ effect \in SUBSET Devices
    BY EventsAssumption
  <2> QED
    BY <2>2, <2>3, ReportsAreRight
<1> QED
  BY <1>1, <1>2, <1>3, EventsInvariant, PTL DEF Spec

-----------------------------------------------------------------------------
(* What devices were told is saved.  A device whose requests come one at a time is *)
(* looked at by itself: DeviceInv says of its files and requests what its next     *)
(* requests rely on, and is shown of every step of one of them (Step), of one that *)
(* begins and of one that a restart ends; then the actions are shown to be such    *)
(* steps of their device and none of any other.                                    *)
\* What eventsUpload has taken of the first n events of a request.
KeptTo(f, n, b) ==
  f = [i \in 0 .. n |-> IF i = 0 THEN <<>>
                        ELSE IF b[i].valid THEN Append(f[i - 1], b[i]) ELSE f[i - 1]]

\* eventsUpload takes events one by one: what it has taken after any number of them is
\* defined.
LEMMA KeptExists ==
  ASSUME NEW b, NEW n \in Nat
  PROVE  \E f : KeptTo(f, n, b)
<1> DEFINE T == {k \in Nat : ~\E f : KeptTo(f, k, b)}
<1>1. SUFFICES ASSUME T # {} PROVE FALSE
  OBVIOUS
<1>2. PICK m \in T : \A k \in T : m =< k
  <2>1. T \subseteq Nat /\ T # {}
    BY <1>1
  <2> HIDE DEF T
  <2> QED
    BY <2>1, LeastNumber
<1>3. m # 0
  <2>1. KeptTo([i \in 0 .. 0 |-> <<>>], 0, b)
    BY DEF KeptTo
  <2> QED
    BY <2>1
<1>4. m - 1 \in Nat /\ m - 1 \notin T
  BY <1>2, <1>3
<1>5. PICK f : KeptTo(f, m - 1, b)
  BY <1>4
<1> DEFINE last == IF b[m].valid THEN Append(f[m - 1], b[m]) ELSE f[m - 1]
           g == [i \in 0 .. m |-> IF i = m THEN last ELSE f[i]]
<1>6. \A i \in 0 .. m - 1 : f[i] = IF i = 0 THEN <<>>
                                   ELSE IF b[i].valid THEN Append(f[i - 1], b[i]) ELSE f[i - 1]
  BY <1>5 DEF KeptTo
<1>7. \A i \in 0 .. m : g[i] = IF i = 0 THEN <<>>
                               ELSE IF b[i].valid THEN Append(g[i - 1], b[i]) ELSE g[i - 1]
  <2> TAKE i \in 0 .. m
  <2>1. CASE i = m
    <3>1. m - 1 \in 0 .. m /\ m - 1 # m /\ m \in 0 .. m
      BY <1>4
    <3>2. g[m - 1] = f[m - 1] /\ g[m] = last
      BY <3>1
    <3> HIDE DEF g
    <3> QED
      BY <1>3, <2>1, <3>2
  <2>2. CASE i # m
    <3>1. i \in 0 .. m - 1 /\ g[i] = f[i] /\ (i # 0 => i - 1 \in 0 .. m /\ i - 1 # m)
      BY <2>2
    <3>2. i # 0 => g[i - 1] = f[i - 1]
      BY <3>1
    <3> HIDE DEF g
    <3> QED
      BY <1>6, <3>1, <3>2
  <2> QED
    BY <2>1, <2>2
<1>8. g = [i \in 0 .. m |-> g[i]]
  OBVIOUS
<1> HIDE DEF g
<1>9. KeptTo(g, m, b)
  BY <1>7, <1>8 DEF KeptTo
<1> QED
  BY <1>2, <1>9

\* ... and is a sequence of its events.
LEMMA KeptSeq ==
  ASSUME NEW S, NEW b \in Seq(S), NEW f, KeptTo(f, Len(b), b), NEW n \in 0 .. Len(b)
  PROVE  f[n] \in Seq(S)
<1> DEFINE T == {k \in 0 .. Len(b) : f[k] \notin Seq(S)}
<1>1. SUFFICES ASSUME T # {} PROVE FALSE
  OBVIOUS
<1>2. PICK m \in T : \A k \in T : m =< k
  <2>1. T \subseteq Nat /\ T # {}
    BY <1>1
  <2> HIDE DEF T
  <2> QED
    BY <2>1, LeastNumber
<1>3. m \in 0 .. Len(b) /\ f[m] \notin Seq(S)
  BY <1>2
<1>4. f[m] = IF m = 0 THEN <<>> ELSE IF b[m].valid THEN Append(f[m - 1], b[m]) ELSE f[m - 1]
  BY <1>3 DEF KeptTo
<1>5. m # 0
  BY <1>3, <1>4
<1>6. m - 1 \in 0 .. Len(b) /\ m - 1 \notin T /\ m \in 1 .. Len(b)
  BY <1>2, <1>3, <1>5
<1>7. f[m - 1] \in Seq(S) /\ b[m] \in S
  BY <1>6
<1> QED
  BY <1>3, <1>4, <1>5, <1>7

\* The valid events of a request are a sequence.
LEMMA ValidSeq ==
  ASSUME NEW r \in Requests, r.kind = "events"
  PROVE  /\ Len(Valid(r)) \in Nat /\ DOMAIN Valid(r) = 1 .. Len(Valid(r))
         /\ Valid(r) # <<>> => Len(Valid(r)) > 0
<1> DEFINE b == r.batch  S == Range(r.batch)
           f == CHOOSE h : KeptTo(h, Len(b), b)
<1>1. b \in Seq(S)
  BY BatchAssumption
<1>2. Valid(r) = f[Len(b)]
  BY DEF Valid, KeptTo
<1> HIDE DEF b, S
<1>3. Len(b) \in Nat /\ Len(b) \in 0 .. Len(b)
  BY <1>1
<1>4. KeptTo(f, Len(b), b)
  <2>1. \E h : KeptTo(h, Len(b), b)
    BY <1>3, KeptExists
  <2> QED
    BY <2>1
<1> HIDE DEF f
<1>5. f[Len(b)] \in Seq(S)
  BY <1>1, <1>3, <1>4, KeptSeq
<1> DEFINE v == f[Len(b)]
<1> HIDE DEF v
<1>6. v \in Seq(S) => Len(v) \in Nat /\ DOMAIN v = 1 .. Len(v) /\ (v # <<>> => Len(v) > 0)
  OBVIOUS
<1> QED
  BY <1>2, <1>5, <1>6 DEF v

\* The request with state s has begun.
IsBegun(s) == s.pc \notin {"none", "idle"}

\* The state s of a request r fits the kind of r: where it is, how far it is with its
\* events, the name of its file and the files it is to delete.
OnItsWay(r, s) ==
  /\ s.pc \in {"event", "status"} => r.kind = "events" /\ s.n \in 1 .. Len(Valid(r))
  /\ s.pc \in {"match", "delete", "200"} /\ r.kind = "events" /\ Valid(r) # <<>> => s.n = Len(Valid(r))
  /\ s.pc = "match" => r.kind \in {"events", "states"}
  /\ s.pc \in {"match", "delete"} /\ r.kind = "events" => Valid(r) # <<>>
  /\ s.pc = "delete" => /\ r.kind \in {"events", "states"}
                        /\ \A i \in DOMAIN s.todo : s.todo[i][1] = Prefix(r)
  /\ s.pc = "sleep" => r.kind = "states"
  /\ s.pc = "read" => r.kind = "testComplete"
  /\ s.pc \in {"check", "open", "copy"} => r.kind = "testArtifact"
  /\ s.pc \in {"write", "rename"} => r.kind \in {"states", "info", "testCreate", "testComplete"}
  /\ r.kind = "states" => s.name[1] # "events" /\ s.name[1] \notin {"info", "tests", "test-artifacts"}
  /\ IsBegun(s) =>
       /\ r.kind = "info" => s.name = <<"info", 0>>
       /\ r.kind \in {"testCreate", "testComplete"} => s.name = <<"tests", r.test>>
       /\ r.kind = "testArtifact" => s.name = <<"test-artifacts", r.test>>

\* The requests of a device.
Mine(d) == {r \in Requests : r.dev = d}

\* Times of a device's files and requests.
Timed(d, f, rq, time) ==
  /\ time \in Nat
  /\ \A n \in DOMAIN f : f[n].at \in Nat /\ f[n].at =< time
  /\ \A r \in Mine(d) : rq[r].at \in Nat /\ rq[r].at =< time

\* The requests of a device that are one at a time are on their way.
WayOf(d, f, rq, time) == Timed(d, f, rq, time) /\ \A r \in Mine(d) : OnItsWay(r, rq[r])

WayInv == now \in Nat /\ \A d \in Devices : d \notin mixed => WayOf(d, files[d], req, now)

-----------------------------------------------------------------------------
\* ... and not ended.
Runs(s) == s.pc \in Running

\* One request at a time: who began before the one that is running is done, and was
\* earlier.
OneByOne(d, rq) ==
  \A q, r \in Mine(d) : q # r /\ Runs(rq[q]) /\ IsBegun(rq[r]) => ~Runs(rq[r]) /\ rq[r].at =< rq[q].at

\* The file of the k-th event of r.
EventFile(r, k) == <<"events", Valid(r)[k].corr>>

\* The file that a request wrote last.
AtFile(q, s, n) ==
  IF s.pc = "event" THEN s.n > 1 /\ n = EventFile(q, s.n - 1) ELSE n = EventFile(q, s.n)

\* q may have been the last to write file n, at time t.
WroteLast(q, s, n, t) ==
  /\ q.kind = "events" /\ IsBegun(s) /\ t =< s.at
  /\ t = s.at /\ s.pc \in {"event", "status", "match", "delete", "200"} => AtFile(q, s, n)

\* Every file of events was last written by a request that is at that file, or has gone
\* on to another later.
Written(d, f, rq) ==
  \A n \in DOMAIN f : n[1] = "events" => \E q \in Mine(d) : WroteLast(q, rq[q], n, f[n].at)

\* The events of r are the device's latest.
Latest(r, rq) ==
  \A q \in Mine(r.dev) : q # r /\ q.kind = "events" /\ IsBegun(rq[q]) => rq[q].at < rq[r].at

HasEvents(r) == r.kind = "events" /\ Valid(r) # <<>>
IsSaved(s) == s.pc \in {"status", "match", "delete", "200"}

\* The last event of the latest request ends the file it went to, which is not about to
\* be deleted.
ShownAs(r, s, f) ==
  LET c == EventFile(r, s.n)
  IN  /\ c \in DOMAIN f /\ f[c].at = s.at
      /\ Len(f[c].data) > 0 /\ f[c].data[Len(f[c].data)] = Valid(r)[s.n]
      /\ s.pc = "delete" => \A i \in DOMAIN s.todo : s.todo[i] # c

Shown(d, f, rq) ==
  \A r \in Mine(d) : HasEvents(r) /\ IsSaved(rq[r]) /\ Latest(r, rq) => ShownAs(r, rq[r], f)

EventNames(f) == {n \in DOMAIN f : n[1] = "events"}
Newer(f, t) == {n \in EventNames(f) : f[n].at >= t}

Follows(r, rq) ==
  \E q \in Mine(r.dev) :
    /\ q # r /\ q.kind = "events" /\ IsBegun(rq[q]) /\ rq[q].at >= rq[r].at
    /\ \E i \in DOMAIN Valid(q) : Valid(q)[i].corr = Valid(r)[rq[r].n].corr

HeldIn(r, s, f) ==
  LET c == EventFile(r, s.n)
  IN  c \in DOMAIN f /\ f[c].at >= s.at /\ \E i \in DOMAIN f[c].data : f[c].data[i] = Valid(r)[s.n]

Displaced(r, f, rq) ==
  /\ Cardinality(Newer(f, rq[r].at)) >= MaxFiles
  /\ EventFile(r, rq[r].n) \notin DOMAIN f \/ Follows(r, rq)

\* The last event of a request is in its file, or the file was displaced.
Held(d, f, rq) ==
  \A r \in Mine(d) : HasEvents(r) /\ IsSaved(rq[r]) => HeldIn(r, rq[r], f) \/ Displaced(r, f, rq)

\* What is left when the listed files are deleted: MaxFiles files, none of them older.
Remaining(f, todo) == {n \in EventNames(f) : \A i \in DOMAIN todo : todo[i] # n}

SafeToDelete(f, todo) ==
  todo # <<>> =>
    /\ Cardinality(Remaining(f, todo)) >= MaxFiles
    /\ \A n \in Remaining(f, todo), i \in DOMAIN todo : f[todo[i]].at =< f[n].at

RollsOver(d, f, rq) ==
  \A q \in Mine(d) : q.kind = "events" /\ rq[q].pc = "delete" => SafeToDelete(f, rq[q].todo)

\* The requests about a test that have begun.
About(d, t, kind, rq) ==
  {q \in Mine(d) : q.kind = kind /\ q.test = t /\ IsBegun(rq[q])}

InfoKept(d, f, rq) ==
  \A r \in Mine(d) : r.kind = "info" /\ rq[r].pc = "200" =>
    <<"info", 0>> \in DOMAIN f /\ f[<<"info", 0>>].data = <<"info">>

ArtifactKept(r, f, rq) ==
  LET n == <<"test-artifacts", r.test>>
  IN  /\ n \in DOMAIN f
      /\ (\A q \in About(r.dev, r.test, "testArtifact", rq) : rq[q].pc # "200" => rq[q].at < rq[r].at)
           => f[n].data = <<"whole">>

\* A test that is there was created.
TestsCreated(d, f, rq) ==
  /\ \A r \in Mine(d) : r.kind \in {"testCreate", "testComplete", "testArtifact"} /\ <<"tests", r.test>> \in DOMAIN f
       => About(d, r.test, "testCreate", rq) # {}
  /\ \A r \in Mine(d) : r.kind = "testComplete" /\ rq[r].pc \in {"write", "rename", "200"}
       => \E c \in About(d, r.test, "testCreate", rq) : ~Runs(rq[c])

TestKept(r, f, rq) ==
  LET n == <<"tests", r.test>>
      creates == About(r.dev, r.test, "testCreate", rq)
  IN  (\A q \in creates : rq[q].at < rq[r].at \/ creates = {q})
        => n \in DOMAIN f /\ f[n].data = <<"testComplete">>

TestsKept(d, f, rq) ==
  \A r \in Mine(d) : rq[r].pc = "200" =>
    /\ r.kind = "testArtifact" => ArtifactKept(r, f, rq)
    /\ r.kind = "testComplete" => TestKept(r, f, rq)

DeviceInv(d, f, rq) ==
  /\ OneByOne(d, rq)
  /\ Written(d, f, rq) /\ Shown(d, f, rq) /\ Held(d, f, rq) /\ RollsOver(d, f, rq)
  /\ InfoKept(d, f, rq) /\ TestsCreated(d, f, rq) /\ TestsKept(d, f, rq)

\* The requests, those that a removal of the directory has made void taken back.
Fresh(rq, gone) == [r \in Requests |-> IF r \in gone THEN [rq[r] EXCEPT !.pc = "none"] ELSE rq[r]]

\* What is kept of a device is kept of the requests since; those before have ended.
Good(d, f, rq, gone) ==
  /\ DeviceInv(d, f, Fresh(rq, gone))
  /\ \A r \in Mine(d) : r \in gone => IsBegun(rq[r]) /\ ~Runs(rq[r])

KeptInv == \A d \in Devices : d \notin mixed => Good(d, files[d], req, void)

-----------------------------------------------------------------------------
\* The first m statuses of r are at the places at of a log, in their order, with no other
\* line of the device between them.
PlacedAt(lines, r, m, at) ==
  /\ at \in [1 .. m -> DOMAIN lines]
  /\ \A i \in 1 .. m : lines[at[i]] = StatusLine(r, Valid(r)[i])
  /\ \A i, j \in 1 .. m : i < j => at[i] < at[j]
  /\ \A i \in 1 .. m, k \in DOMAIN lines :
       i > 1 /\ at[i - 1] < k /\ k < at[i] => lines[k].uuid # r.dev

\* ... and the last of them is the last line of the device.
EndsAt(lines, r, m, at) ==
  m > 0 => \A k \in DOMAIN lines : k > at[m] => lines[k].uuid # r.dev

Logged(lines, r, s) ==
  /\ s.pc \in {"event", "status"} =>
       \E at : PlacedAt(lines, r, s.n - 1, at) /\ EndsAt(lines, r, s.n - 1, at)
  /\ s.pc \in {"match", "delete", "200"} => \E at : PlacedAt(lines, r, Len(Valid(r)), at)

\* The lines that requests can leave.
ReportLines ==
  UNION {{StatusLine(r, Valid(r)[i]) : i \in DOMAIN Valid(r)} : r \in {q \in Requests : q.kind = "events"}}

\* A request is at one of its events.
AtEvent(r, s) == s.pc \in {"event", "status"} => r.kind = "events" /\ s.n \in 1 .. Len(Valid(r))

PlacesInv ==
  /\ \A r \in Requests : AtEvent(r, req[r])
  /\ \A u \in exists : log[u] \in Seq(ReportLines)
  /\ \A r \in Requests : r.kind = "events" /\ r.dev \notin mixed /\ Reports(req[r]) /\ req[r].upd \in exists
       => Logged(log[req[r].upd], r, req[r])
-----------------------------------------------------------------------------
(* The steps of a request q, as changes of its state s to t and of its device's files *)
(* f to g.                                                                            *)

\* Files of a prefix, oldest first: matchFiles.
OldestFirst(l, f, prefix) ==
  /\ l \in Seq(DOMAIN f)
  /\ \A i \in 1 .. Len(l) : l[i][1] = prefix
  /\ \A n \in DOMAIN f : n[1] = prefix => \E i \in 1 .. Len(l) : l[i] = n
  /\ \A i, j \in 1 .. Len(l) : i # j => l[i] # l[j]
  /\ \A i, j \in 1 .. Len(l) : i < j => f[l[i]].at =< f[l[j]].at

\* The request goes on, or fails, without touching a file.
GoesOn(q, s, t, f, g) ==
  /\ Runs(s) /\ g = f /\ t.at = s.at
  /\ \/ t.pc = "500"
     \/ s.pc = "status" /\ t.pc = "event" /\ t.n = s.n + 1
     \/ s.pc = "status" /\ t.pc = "match" /\ t.n = s.n
     \/ s.pc = "sleep" /\ t.pc = "write"
     \/ s.pc = "read" /\ t.pc = "write" /\ <<"tests", q.test>> \in DOMAIN f
     \/ s.pc = "check" /\ t.pc = "open"
     \/ s.pc = "write" /\ t.pc = "rename"
     \/ /\ s.pc = "match" /\ t.pc = "delete" /\ t.n = s.n
        /\ \E l : /\ OldestFirst(l, f, Prefix(q))
                  /\ t.todo = SubSeq(l, 1, IF Len(l) > MaxFiles THEN Len(l) - MaxFiles ELSE 0)
     \/ s.pc = "delete" /\ t.pc = "200" /\ t.n = s.n

Puts(f, g, name, time, data) ==
  /\ DOMAIN g = DOMAIN f \cup {name}
  /\ g[name] = [at |-> time, data |-> data]
  /\ \A n \in DOMAIN f : n # name => g[n] = f[n]

\* An event is appended.
Appends(q, s, t, f, g, time) ==
  LET c == EventFile(q, s.n)
  IN  /\ s.pc = "event" /\ t.pc = "status" /\ t.n = s.n /\ t.at = time /\ s.at =< time
      /\ s.n > 1 /\ Valid(q)[s.n - 1].corr # Valid(q)[s.n].corr => time > s.at
      /\ \E old \in Seq(Items) :
           /\ c \in DOMAIN f => old = f[c].data
           /\ Puts(f, g, c, time, Append(old, Valid(q)[s.n]))

\* A file is written as a whole.
Writes(q, s, t, f, g, time) ==
  /\ t.at = s.at /\ t.n = s.n
  /\ \/ /\ s.pc = "rename" /\ t.pc = (IF q.kind = "states" THEN "match" ELSE "200")
        /\ Puts(f, g, s.name, time, <<q.kind>>)
     \/ /\ s.pc = "open" /\ t.pc = "copy" /\ Puts(f, g, s.name, time, <<"part">>)
     \/ /\ s.pc = "copy" /\ t.pc = "200" /\ Puts(f, g, s.name, time, <<"whole">>)

\* The first file of the list is deleted.
Deletes(q, s, t, f, g) ==
  /\ s.pc = "delete" /\ t.pc = "delete" /\ t.at = s.at /\ t.n = s.n
  /\ Listing(s.todo, f) /\ s.todo # <<>> /\ t.todo = Tail(s.todo)
  /\ DOMAIN g = DOMAIN f \ {Head(s.todo)}
  /\ \A n \in DOMAIN g : g[n] = f[n]

Moves(q, s, t, f, g, time) ==
  \/ GoesOn(q, s, t, f, g) \/ Appends(q, s, t, f, g, time)
  \/ Writes(q, s, t, f, g, time) \/ Deletes(q, s, t, f, g)

\* A step of q alone, with the device's other requests as they were.
Alone(d, q, rq, rq2) == q \in Mine(d) /\ \A r \in Mine(d) : r # q => rq2[r] = rq[r]

\* The common hypotheses of the lemmas below.
Step(d, q, rq, rq2, f, g, time) ==
  /\ Alone(d, q, rq, rq2)
  /\ FilesOK(f) /\ Timed(d, f, rq, time)
  /\ \A r \in Mine(d) : OnItsWay(r, rq[r]) /\ OnItsWay(r, rq2[r])
  /\ Moves(q, rq[q], rq2[q], f, g, time)

\* q runs before a step, and its time does not go back.
LEMMA StepRuns ==
  ASSUME NEW d, NEW q, NEW rq, NEW rq2, NEW f, NEW g, NEW time, Step(d, q, rq, rq2, f, g, time)
  PROVE  /\ Runs(rq[q]) /\ IsBegun(rq[q]) /\ IsBegun(rq2[q])
         /\ rq[q].at \in Nat /\ rq2[q].at \in Nat /\ rq[q].at =< rq2[q].at /\ rq2[q].at =< time
         /\ rq2[q].pc # "event" => rq2[q].n = rq[q].n \/ rq2[q].pc \in {"500", "write", "rename", "open"}
         /\ q \in Mine(d) /\ \A r \in Mine(d) : r # q => rq2[r] = rq[r]
<1>1. /\ q \in Mine(d) /\ \A r \in Mine(d) : r # q => rq2[r] = rq[r]
      /\ rq[q].at \in Nat /\ rq[q].at =< time /\ time \in Nat
  BY DEF Step, Alone, Timed
<1> DEFINE s == rq[q]  t == rq2[q]
<1>2. Moves(q, s, t, f, g, time)
  BY DEF Step
<1> HIDE DEF s, t
<1>3. /\ Runs(s) /\ t.pc \notin {"none", "idle"} /\ (t.at = s.at \/ (t.at = time /\ s.at =< time))
      /\ t.pc # "event" => t.n = s.n \/ t.pc \in {"500", "write", "rename", "open"}
  <2>1. CASE GoesOn(q, s, t, f, g)
    BY <2>1 DEF GoesOn
  <2>2. CASE Appends(q, s, t, f, g, time)
    BY <2>2 DEF Appends, Runs, Running
  <2>3. CASE Writes(q, s, t, f, g, time)
    BY <2>3 DEF Writes, Runs, Running
  <2>4. CASE Deletes(q, s, t, f, g)
    BY <2>4 DEF Deletes, Runs, Running
  <2> QED
    BY <1>2, <2>1, <2>2, <2>3, <2>4 DEF Moves
<1>4. IsBegun(s)
  BY <1>3 DEF Runs, Running, IsBegun
<1> QED
  BY <1>1, <1>3, <1>4 DEF s, t, IsBegun

\* A request that steps is the only one that runs, and the latest.
LEMMA StepOneByOne ==
  ASSUME NEW d, NEW q, NEW rq, NEW rq2, NEW f, NEW g, NEW time, Step(d, q, rq, rq2, f, g, time),
         OneByOne(d, rq)
  PROVE  OneByOne(d, rq2)
<1>1. /\ Runs(rq[q]) /\ IsBegun(rq[q]) /\ q \in Mine(d) /\ \A r \in Mine(d) : r # q => rq2[r] = rq[r]
      /\ rq[q].at \in Nat /\ rq2[q].at \in Nat /\ rq[q].at =< rq2[q].at
  BY StepRuns
<1>2. \A r \in Mine(d) : r # q /\ IsBegun(rq[r]) => ~Runs(rq[r]) /\ rq[r].at =< rq[q].at
  BY <1>1 DEF OneByOne
<1>3. \A r \in Mine(d) : r # q => ~Runs(rq[r])
  BY <1>2 DEF Runs, Running, IsBegun
<1>4. \A r \in Mine(d) : rq[r].at \in Nat
  BY DEF Step, Timed
<1> SUFFICES ASSUME NEW p \in Mine(d), NEW r \in Mine(d), p # r, Runs(rq2[p]), IsBegun(rq2[r])
             PROVE  ~Runs(rq2[r]) /\ rq2[r].at =< rq2[p].at
  BY DEF OneByOne
<1>5. p = q
  BY <1>1, <1>3
<1> QED
  BY <1>1, <1>2, <1>3, <1>4, <1>5

\* The files of events are as they were.
SameEvents(f, g) ==
  \A n : n[1] = "events" => /\ n \in DOMAIN f <=> n \in DOMAIN g
                            /\ n \in DOMAIN f => g[n] = f[n]

\* A request about events that leaves the files of events alone.
EventsGoOn(q, s, t, f) ==
  /\ t.at = s.at
  /\ \/ t.pc = "500"
     \/ s.pc = "status" /\ t.pc = "event" /\ t.n = s.n + 1
     \/ s.pc = "status" /\ t.pc = "match" /\ t.n = s.n
     \/ /\ s.pc = "match" /\ t.pc = "delete" /\ t.n = s.n
        /\ \E l : /\ OldestFirst(l, f, "events")
                  /\ t.todo = SubSeq(l, 1, IF Len(l) > MaxFiles THEN Len(l) - MaxFiles ELSE 0)
     \/ s.pc = "delete" /\ t.pc = "200" /\ t.n = s.n

\* Only requests about events touch files of events (FileName, Prefix).
LEMMA StepEvents ==
  ASSUME NEW d, NEW q, NEW rq, NEW rq2, NEW f, NEW g, NEW time, Step(d, q, rq, rq2, f, g, time)
  PROVE  \/ /\ SameEvents(f, g)
            /\ q.kind = "events" => EventsGoOn(q, rq[q], rq2[q], f)
         \/ /\ q.kind = "events"
            /\ Appends(q, rq[q], rq2[q], f, g, time) \/ Deletes(q, rq[q], rq2[q], f, g)
<1> DEFINE s == rq[q]  t == rq2[q]
<1>1. Moves(q, s, t, f, g, time) /\ OnItsWay(q, s) /\ OnItsWay(q, t)
  BY DEF Step, Alone
<1> HIDE DEF s, t
<1>2. CASE GoesOn(q, s, t, f, g)
  <2>1. SameEvents(f, g)
    BY <1>2 DEF GoesOn, SameEvents
  <2>2. ASSUME q.kind = "events" PROVE EventsGoOn(q, s, t, f)
    <3>1. Prefix(q) = "events"
      BY <2>2 DEF Prefix
    <3>2. s.pc \notin {"sleep", "read", "write", "check"}
      BY <1>1, <2>2 DEF OnItsWay
    <3> QED
      BY <1>2, <3>1, <3>2 DEF GoesOn, EventsGoOn
  <2> QED
    BY <2>1, <2>2 DEF s, t
<1>3. CASE Appends(q, s, t, f, g, time)
  <2>1. q.kind = "events"
    BY <1>1, <1>3 DEF Appends, OnItsWay
  <2> QED
    BY <1>3, <2>1 DEF s, t
<1>4. CASE Writes(q, s, t, f, g, time)
  <2>0. s.pc \in {"rename", "open", "copy"} /\ \E data : Puts(f, g, s.name, time, data)
    BY <1>4 DEF Writes
  <2>1. q.kind # "events"
    BY <1>1, <2>0 DEF OnItsWay
  <2>2. s.name[1] # "events"
    <3>1. IsBegun(s)
      BY <2>0 DEF IsBegun
    <3>2. \A x : <<"info", x>>[1] # "events" /\ <<"tests", x>>[1] # "events" /\ <<"test-artifacts", x>>[1] # "events"
      OBVIOUS
    <3> QED
      BY <1>1, <2>0, <3>1, <3>2 DEF OnItsWay
  <2>3. SameEvents(f, g)
    BY <2>0, <2>2 DEF Puts, SameEvents
  <2> QED
    BY <2>1, <2>3
<1>5. CASE Deletes(q, s, t, f, g)
  <2>1. CASE q.kind = "events"
    BY <1>5, <2>1 DEF s, t
  <2>2. CASE q.kind # "events"
    <3>1. Prefix(q) # "events"
      BY <2>2 DEF Prefix
    <3>2. s.todo \in Seq(DOMAIN f) /\ s.todo # <<>>
      BY <1>5 DEF Deletes, Listing
    <3>3. Head(s.todo) = s.todo[1] /\ 1 \in DOMAIN s.todo
      BY <3>2
    <3>4. Head(s.todo)[1] # "events"
      BY <1>1, <1>5, <3>1, <3>3 DEF OnItsWay, Deletes
    <3>5. SameEvents(f, g)
      BY <1>5, <3>4 DEF Deletes, SameEvents
    <3> QED
      BY <2>2, <3>5
  <2> QED
    BY <2>1, <2>2
<1> QED
  BY <1>1, <1>2, <1>3, <1>4, <1>5 DEF Moves

\* The name of a file of events.
LEMMA EventFileName ==
  ASSUME NEW r, NEW k
  PROVE  EventFile(r, k)[1] = "events"
BY DEF EventFile

\* A request that goes on stays the last writer of its file (ProcessEvents moves the
\* clock on before it writes another).
LEMMA StepWritten ==
  ASSUME NEW d, NEW q, NEW rq, NEW rq2, NEW f, NEW g, NEW time, Step(d, q, rq, rq2, f, g, time),
         Written(d, f, rq)
  PROVE  Written(d, g, rq2)
<1> DEFINE s == rq[q]  t == rq2[q]
<1>0. /\ q \in Mine(d) /\ \A r \in Mine(d) : r # q => rq2[r] = rq[r]
      /\ IsBegun(s) /\ IsBegun(t) /\ s.at \in Nat /\ t.at \in Nat
  BY StepRuns
<1>1. SUFFICES ASSUME NEW n \in DOMAIN g, n[1] = "events"
               PROVE  \E p \in Mine(d) : WroteLast(p, rq2[p], n, g[n].at)
  BY DEF Written
<1>2. ASSUME n \in DOMAIN f, g[n] = f[n],
             \A x \in Nat : q.kind = "events" /\ WroteLast(q, s, n, x) => WroteLast(q, t, n, x)
      PROVE  \E p \in Mine(d) : WroteLast(p, rq2[p], n, g[n].at)
  <2>1. PICK p \in Mine(d) : WroteLast(p, rq[p], n, f[n].at)
    BY <1>1, <1>2 DEF Written
  <2>2. p.kind = "events" /\ f[n].at \in Nat
    BY <1>2, <2>1 DEF WroteLast, Step, Timed
  <2>3. CASE p = q
    BY <1>0, <1>2, <2>1, <2>2, <2>3
  <2>4. CASE p # q
    BY <1>0, <1>2, <2>1, <2>4
  <2> QED
    BY <2>3, <2>4
<1>3. CASE SameEvents(f, g) /\ (q.kind = "events" => EventsGoOn(q, s, t, f))
  <2>1. n \in DOMAIN f /\ g[n] = f[n]
    BY <1>1, <1>3 DEF SameEvents
  <2>2. ASSUME NEW x \in Nat, q.kind = "events", WroteLast(q, s, n, x) PROVE WroteLast(q, t, n, x)
    <3>1. EventsGoOn(q, s, t, f)
      BY <1>3, <2>2
    <3>2. OnItsWay(q, s)
      BY DEF Step, Alone
    <3> HIDE DEF s, t
    <3>3. s.pc = "status" => s.n \in Nat /\ s.n + 1 > 1 /\ (s.n + 1) - 1 = s.n
      BY <3>2 DEF OnItsWay
    <3> QED
      BY <1>0, <2>2, <3>1, <3>3 DEF EventsGoOn, WroteLast, AtFile
  <2> QED
    BY <1>2, <2>1, <2>2
<1>4. CASE q.kind = "events" /\ Appends(q, s, t, f, g, time)
  <2> DEFINE c == EventFile(q, s.n)
  <2>0. OnItsWay(q, s) /\ OnItsWay(q, t)
    BY DEF Step, Alone
  <2> HIDE DEF s, t
  <2>1. PICK old : Puts(f, g, c, time, Append(old, Valid(q)[s.n]))
    BY <1>4 DEF Appends
  <2>2. CASE n = c
    <3>1. g[n].at = time
      BY <2>1, <2>2 DEF Puts
    <3>2. WroteLast(q, t, n, time)
      BY <1>0, <1>4, <2>2 DEF Appends, WroteLast, AtFile
    <3> QED
      BY <1>0, <3>1, <3>2 DEF t
  <2>3. CASE n # c
    <3>1. n \in DOMAIN f /\ g[n] = f[n]
      BY <2>1, <2>3 DEF Puts
    <3>2. ASSUME NEW x \in Nat, WroteLast(q, s, n, x) PROVE WroteLast(q, t, n, x)
      <4>1. x =< s.at /\ s.pc = "event" /\ (x = s.at => s.n > 1 /\ n = EventFile(q, s.n - 1))
        BY <1>4, <3>2 DEF WroteLast, AtFile, Appends
      <4>2. t.at = time /\ s.at =< time /\ t.n = s.n /\ t.pc = "status"
        BY <1>4 DEF Appends
      <4>3. s.n > 1 /\ n = EventFile(q, s.n - 1) => s.at < time
        <5>1. ASSUME s.n > 1, n = EventFile(q, s.n - 1) PROVE s.at < time
          <6>1. Valid(q)[s.n - 1].corr # Valid(q)[s.n].corr
            BY <2>3, <5>1 DEF EventFile
          <6> QED
            BY <1>0, <1>4, <4>2, <5>1, <6>1 DEF Appends
        <5> QED
          BY <5>1
      <4>4. x # time
        BY <1>0, <4>1, <4>2, <4>3
      <4>5. x =< time
        BY <1>0, <4>1, <4>2, <3>2
      <4> QED
        BY <1>0, <1>4, <4>2, <4>4, <4>5 DEF WroteLast
    <3> QED
      BY <1>2, <3>1, <3>2 DEF s, t
  <2> QED
    BY <2>2, <2>3
<1>5. CASE q.kind = "events" /\ Deletes(q, s, t, f, g)
  <2>1. n \in DOMAIN f /\ g[n] = f[n]
    BY <1>5 DEF Deletes
  <2>2. \A x \in Nat : WroteLast(q, s, n, x) => WroteLast(q, t, n, x)
    <3> HIDE DEF s, t
    <3> QED
      BY <1>0, <1>5 DEF Deletes, WroteLast, AtFile
  <2> QED
    BY <1>2, <2>1, <2>2
<1> QED
  BY <1>3, <1>4, <1>5, StepEvents


\* What is to be deleted of a sorted list leaves MaxFiles files, none of them older
\* (rolloverFiles).
LEMMA SortedSafe ==
  ASSUME NEW f, FilesOK(f), NEW l, OldestFirst(l, f, "events"),
         NEW todo, todo = SubSeq(l, 1, IF Len(l) > MaxFiles THEN Len(l) - MaxFiles ELSE 0)
  PROVE  /\ SafeToDelete(f, todo)
         /\ \A i \in DOMAIN todo : i \in 1 .. Len(l) /\ i < Len(l) /\ todo[i] = l[i]
<1> DEFINE m == IF Len(l) > MaxFiles THEN Len(l) - MaxFiles ELSE 0
<1>0. MaxFiles \in Nat /\ MaxFiles > 0
  BY EventsAssumption
<1>1. l \in Seq(DOMAIN f) /\ Len(l) \in Nat
  BY DEF OldestFirst
<1>2. m \in 0 .. Len(l) /\ (Len(l) > 0 => m < Len(l)) /\ (m # 0 => Len(l) - m = MaxFiles)
  BY <1>0, <1>1
<1> HIDE DEF m
<1>3. DOMAIN todo = 1 .. m /\ \A i \in 1 .. m : todo[i] = l[i]
  BY <1>1, <1>2 DEF m
<1>4. \A i \in DOMAIN todo : i \in 1 .. Len(l) /\ i < Len(l) /\ todo[i] = l[i]
  <2> DEFINE N == Len(l)
  <2>1. N \in Nat /\ m \in 0 .. N /\ (N > 0 => m < N)
    BY <1>1, <1>2
  <2> HIDE DEF N
  <2>2. \A i \in 1 .. m : i \in 1 .. N /\ i < N
    BY <2>1
  <2> QED
    BY <1>3, <2>2 DEF N
<1>5. ASSUME todo # <<>>
      PROVE  m # 0
  <2>1. m = 0 => todo = <<>>
    BY <1>1 DEF m
  <2> QED
    BY <1>5, <2>1
<1>6. ASSUME m # 0
      PROVE  Cardinality(Remaining(f, todo)) >= MaxFiles
  <2> DEFINE I == (m + 1) .. Len(l)
             R == Remaining(f, todo)
             h == [j \in I |-> l[j]]
  <2>1. IsFiniteSet(R) /\ Cardinality(R) \in Nat
    <3>1. R \in SUBSET DOMAIN f
      BY DEF Remaining, EventNames
    <3> QED
      BY <3>1, FS_Subset, FS_CardinalityType DEF FilesOK
  <2>2. Cardinality(I) = MaxFiles
    <3>1. m + 1 \in Int /\ Len(l) \in Int /\ m + 1 =< Len(l)
      BY <1>0, <1>1, <1>2, <1>6
    <3>2. Cardinality((m + 1) .. Len(l)) = IF m + 1 > Len(l) THEN 0 ELSE Len(l) - (m + 1) + 1
      BY <3>1, FS_Interval
    <3> QED
      BY <1>0, <1>1, <1>2, <1>6, <3>1, <3>2
  <2>3. \A j \in I : j \in 1 .. Len(l) /\ \A i \in DOMAIN todo : i \in 1 .. Len(l) /\ i # j
    <3> DEFINE N == Len(l)
    <3>1. N \in Nat /\ m \in 0 .. N
      BY <1>1, <1>2
    <3> HIDE DEF N
    <3>2. \A j \in (m + 1) .. N : j \in 1 .. N /\ \A i \in 1 .. m : i \in 1 .. N /\ i # j
      BY <3>1
    <3> QED
      BY <1>3, <3>2 DEF N
  <2>4. \A j \in I : l[j] \in R
    <3>1. \A j \in I : l[j] \in DOMAIN f /\ l[j][1] = "events"
      BY <1>1, <2>3 DEF OldestFirst
    <3>2. \A j \in I : \A i \in DOMAIN todo : todo[i] # l[j]
      BY <1>4, <2>3 DEF OldestFirst
    <3> QED
      BY <3>1, <3>2 DEF Remaining, EventNames
  <2>5. h \in Injection(I, R)
    <3>1. h \in [I -> R]
      BY <2>4
    <3>2. \A i, j \in I : h[i] = h[j] => i = j
      BY <2>3 DEF OldestFirst
    <3> HIDE DEF h, I, R
    <3> QED
      BY <3>1, <3>2 DEF Injection, IsInjective
  <2> HIDE DEF h, I, R
  <2>6. Cardinality(I) =< Cardinality(R)
    BY <2>1, <2>5, FS_Injection
  <2> QED
    BY <1>0, <2>1, <2>2, <2>6 DEF R
<1>7. ASSUME NEW n \in Remaining(f, todo), NEW i \in DOMAIN todo
      PROVE  f[todo[i]].at =< f[n].at
  <2>1. n \in DOMAIN f /\ n[1] = "events" /\ \A k \in DOMAIN todo : todo[k] # n
    BY <1>7 DEF Remaining, EventNames
  <2>2. PICK j \in 1 .. Len(l) : l[j] = n
    BY <2>1 DEF OldestFirst
  <2>3. ~(j \in 1 .. m)
    BY <1>3, <2>1, <2>2
  <2>4. i < j /\ i \in 1 .. Len(l)
    <3> DEFINE N == Len(l)
    <3>1. N \in Nat /\ m \in 0 .. N /\ i \in 1 .. m /\ j \in 1 .. N
      BY <1>1, <1>2, <1>3
    <3> HIDE DEF N
    <3>2. i < j /\ i \in 1 .. N
      BY <3>1, <2>3
    <3> QED
      BY <3>2 DEF N
  <2> QED
    BY <1>4, <2>2, <2>4 DEF OldestFirst
<1> QED
  BY <1>4, <1>5, <1>6, <1>7 DEF SafeToDelete

\* A list of files to delete is safe for as long as it is worked off.
LEMMA StepRollsOver ==
  ASSUME NEW d, NEW q, NEW rq, NEW rq2, NEW f, NEW g, NEW time, Step(d, q, rq, rq2, f, g, time),
         OneByOne(d, rq), RollsOver(d, f, rq)
  PROVE  RollsOver(d, g, rq2)
<1> DEFINE s == rq[q]  t == rq2[q]
<1>0. /\ q \in Mine(d) /\ \A r \in Mine(d) : r # q => rq2[r] = rq[r]
      /\ Runs(s)
  BY StepRuns
<1>f. FilesOK(f)
  BY DEF Step
<1>1. SUFFICES ASSUME NEW p \in Mine(d), p.kind = "events", rq2[p].pc = "delete"
               PROVE  SafeToDelete(g, rq2[p].todo)
  BY DEF RollsOver
<1>2. p = q
  <2>1. SUFFICES ASSUME p # q PROVE FALSE
    OBVIOUS
  <2>2. rq[p].pc = "delete"
    BY <1>0, <1>1, <2>1
  <2>3. IsBegun(rq[p]) /\ Runs(rq[p])
    BY <2>2 DEF IsBegun, Runs, Running
  <2> QED
    BY <1>0, <2>1, <2>3 DEF OneByOne
<1>3. q.kind = "events" /\ t.pc = "delete"
  BY <1>1, <1>2
<1>4. CASE SameEvents(f, g) /\ EventsGoOn(q, s, t, f)
  <2>1. PICK l : /\ OldestFirst(l, f, "events")
                 /\ t.todo = SubSeq(l, 1, IF Len(l) > MaxFiles THEN Len(l) - MaxFiles ELSE 0)
    BY <1>3, <1>4 DEF EventsGoOn
  <2> HIDE DEF t
  <2>2. SafeToDelete(f, t.todo) /\ \A i \in DOMAIN t.todo : i \in 1 .. Len(l) /\ t.todo[i] = l[i]
    BY <1>f, <2>1, SortedSafe
  <2>3. \A i \in DOMAIN t.todo : t.todo[i] \in DOMAIN f /\ t.todo[i][1] = "events"
    <3>1. \A i \in 1 .. Len(l) : l[i] \in DOMAIN f /\ l[i][1] = "events"
      BY <2>1 DEF OldestFirst
    <3> QED
      BY <2>2, <3>1
  <2> DEFINE todo == t.todo
  <2> HIDE DEF todo
  <2>4. Remaining(g, todo) = Remaining(f, todo)
    BY <1>4 DEF Remaining, EventNames, SameEvents
  <2>5. \A n \in Remaining(f, todo) : g[n] = f[n]
    BY <1>4 DEF Remaining, EventNames, SameEvents
  <2>6. \A i \in DOMAIN todo : g[todo[i]] = f[todo[i]]
    BY <1>4, <2>3 DEF SameEvents, todo
  <2>7. SafeToDelete(g, todo)
    BY <2>2, <2>4, <2>5, <2>6 DEF SafeToDelete, todo
  <2> QED
    BY <1>2, <2>7 DEF t, todo
<1>5. CASE Deletes(q, s, t, f, g)
  <2> DEFINE todo == s.todo  rest == t.todo
  <2>1. /\ Listing(todo, f) /\ todo # <<>> /\ rest = Tail(todo)
        /\ DOMAIN g = DOMAIN f \ {Head(todo)} /\ \A n \in DOMAIN g : g[n] = f[n]
        /\ s.pc = "delete"
    BY <1>5 DEF Deletes
  <2>2. SafeToDelete(f, todo)
    BY <1>0, <1>3, <2>1 DEF RollsOver
  <2> HIDE DEF s, t, todo, rest
  <2>3. todo \in Seq(DOMAIN f) /\ Len(todo) \in Nat /\ Len(todo) > 0 /\ Head(todo) = todo[1]
    BY <2>1 DEF Listing
  <2>4. /\ DOMAIN todo = 1 .. Len(todo) /\ DOMAIN rest = 1 .. (Len(todo) - 1)
        /\ \A i \in DOMAIN rest : rest[i] = todo[i + 1] /\ i + 1 \in DOMAIN todo /\ i + 1 # 1
        /\ 1 \in DOMAIN todo
    BY <2>1, <2>3
  <2>5. \A j \in DOMAIN todo : j # 1 => \E i \in DOMAIN rest : rest[i] = todo[j]
    <3> TAKE j \in DOMAIN todo
    <3>1. SUFFICES ASSUME j # 1 PROVE \E i \in DOMAIN rest : rest[i] = todo[j]
      OBVIOUS
    <3>2. j - 1 \in DOMAIN rest /\ (j - 1) + 1 = j
      BY <2>3, <2>4, <3>1
    <3> QED
      BY <2>4, <3>2
  <2>6. Remaining(g, rest) = Remaining(f, todo)
    <3>1. \A n : n \in Remaining(g, rest) => n \in Remaining(f, todo)
      <4> TAKE n
      <4> HAVE n \in Remaining(g, rest)
      <4>1. n \in DOMAIN f /\ n # todo[1] /\ n[1] = "events" /\ \A i \in DOMAIN rest : rest[i] # n
        BY <2>1, <2>3 DEF Remaining, EventNames
      <4>2. \A j \in DOMAIN todo : todo[j] # n
        BY <2>5, <4>1
      <4> QED
        BY <4>1, <4>2 DEF Remaining, EventNames
    <3>2. \A n : n \in Remaining(f, todo) => n \in Remaining(g, rest)
      <4> TAKE n
      <4> HAVE n \in Remaining(f, todo)
      <4>1. n \in DOMAIN f /\ n[1] = "events" /\ \A j \in DOMAIN todo : todo[j] # n
        BY DEF Remaining, EventNames
      <4>2. n \in DOMAIN g /\ \A i \in DOMAIN rest : rest[i] # n
        BY <2>1, <2>3, <2>4, <4>1
      <4> QED
        BY <4>1, <4>2 DEF Remaining, EventNames
    <3> QED
      BY <3>1, <3>2
  <2>7. \A n \in Remaining(g, rest) : n \in DOMAIN g
    BY DEF Remaining, EventNames
  <2>8. \A i \in DOMAIN rest : rest[i] \in DOMAIN g
    <3> TAKE i \in DOMAIN rest
    <3>1. i + 1 \in 1 .. Len(todo) /\ 1 \in 1 .. Len(todo) /\ i + 1 # 1 /\ rest[i] = todo[i + 1]
      BY <2>4
    <3>2. todo[i + 1] # todo[1] /\ todo[i + 1] \in DOMAIN f
      BY <2>1, <2>3, <3>1 DEF Listing
    <3> QED
      BY <2>1, <2>3, <3>1, <3>2
  <2>9. SafeToDelete(g, rest)
    BY <2>1, <2>2, <2>4, <2>6, <2>7, <2>8 DEF SafeToDelete
  <2> QED
    BY <1>2, <2>9 DEF rest, t
<1> QED
  BY <1>3, <1>4, <1>5, StepEvents DEF Appends


\* A request whose events are the latest after a step of another one had the latest
\* before, and the other is not about events.
LEMMA LatestBefore ==
  ASSUME NEW d, NEW q, NEW rq, NEW rq2, NEW f, NEW g, NEW time, Step(d, q, rq, rq2, f, g, time),
         OneByOne(d, rq), NEW r \in Mine(d), r # q, IsBegun(rq[r]), Latest(r, rq2)
  PROVE  Latest(r, rq) /\ q.kind # "events"
<1>0. /\ q \in Mine(d) /\ \A p \in Mine(d) : p # q => rq2[p] = rq[p]
      /\ Runs(rq[q]) /\ IsBegun(rq[q]) /\ IsBegun(rq2[q])
      /\ rq[q].at \in Nat /\ rq2[q].at \in Nat /\ rq[q].at =< rq2[q].at
  BY StepRuns
<1>1. r.dev = d /\ rq2[r] = rq[r]
  BY <1>0 DEF Mine
<1>2. rq[r].at =< rq[q].at /\ rq[r].at \in Nat
  BY <1>0 DEF OneByOne, Step, Timed
<1>3. q.kind # "events"
  <2>1. SUFFICES ASSUME q.kind = "events" PROVE FALSE
    OBVIOUS
  <2>2. rq2[q].at < rq[r].at
    BY <1>0, <1>1, <2>1 DEF Latest
  <2> QED
    BY <1>0, <1>2, <2>2
<1>4. Latest(r, rq)
  BY <1>0, <1>1, <1>3 DEF Latest
<1> QED
  BY <1>3, <1>4

\* What the page of a device shows stays the last event of its latest request: the file
\* it is in is the newest, so no rollover takes it (rolloverFiles, DeviceGet).
LEMMA StepShown ==
  ASSUME NEW d, NEW q, NEW rq, NEW rq2, NEW f, NEW g, NEW time, Step(d, q, rq, rq2, f, g, time),
         OneByOne(d, rq), Written(d, f, rq), Shown(d, f, rq)
  PROVE  Shown(d, g, rq2)
<1> DEFINE s == rq[q]  t == rq2[q]
<1>0. /\ q \in Mine(d) /\ \A r \in Mine(d) : r # q => rq2[r] = rq[r]
      /\ Runs(s) /\ s.at \in Nat
  BY StepRuns
<1>f. /\ FilesOK(f) /\ OnItsWay(q, s) /\ OnItsWay(q, t)
      /\ \A n \in DOMAIN f : f[n].at \in Nat
      /\ \A r \in Mine(d) : rq[r].at \in Nat
  BY DEF Step, Alone, Timed
<1>1. SUFFICES ASSUME NEW r \in Mine(d), HasEvents(r), IsSaved(rq2[r]), Latest(r, rq2)
               PROVE  ShownAs(r, rq2[r], g)
  BY DEF Shown
<1>2. ASSUME NEW u, NEW x, ShownAs(r, u, f), SameEvents(f, g), x.at = u.at, x.n = u.n,
             x.pc = "delete" => \A i \in DOMAIN x.todo : x.todo[i] # EventFile(r, x.n)
      PROVE  ShownAs(r, x, g)
  <2> DEFINE c == EventFile(r, u.n)
  <2>1. c \in DOMAIN f /\ c \in DOMAIN g /\ g[c] = f[c]
    BY <1>2, EventFileName DEF ShownAs, SameEvents
  <2> HIDE DEF c
  <2> QED
    BY <1>2, <2>1 DEF ShownAs, c
<1>3. CASE r # q
  <2>1. rq2[r] = rq[r] /\ IsBegun(rq[r])
    BY <1>0, <1>1, <1>3 DEF IsSaved, IsBegun
  <2>2. Latest(r, rq) /\ q.kind # "events"
    BY <1>1, <1>3, <2>1, LatestBefore
  <2>3. SameEvents(f, g)
    BY <2>2, StepEvents
  <2>4. ShownAs(r, rq[r], f)
    BY <1>1, <2>1, <2>2 DEF Shown
  <2>5. rq[r].pc = "delete" => \A i \in DOMAIN rq[r].todo : rq[r].todo[i] # EventFile(r, rq[r].n)
    BY <2>4 DEF ShownAs
  <2> QED
    BY <1>2, <2>1, <2>3, <2>4, <2>5
<1>4. CASE r = q
  <2>0. q.kind = "events" /\ IsSaved(t) /\ HasEvents(q) /\ q.dev = d
    BY <1>1, <1>4 DEF HasEvents, Mine
  <2> DEFINE c == EventFile(q, s.n)
  <2>1. t.at = s.at => Latest(q, rq)
    BY <1>0, <1>1, <1>4, <2>0 DEF Latest, Mine
  <2>2. CASE SameEvents(f, g) /\ EventsGoOn(q, s, t, f)
    <3>1. t.at = s.at /\ t.n = s.n /\ IsSaved(s)
      BY <2>0, <2>2 DEF EventsGoOn, IsSaved
    <3>2. ShownAs(q, s, f)
      BY <1>0, <2>0, <2>1, <3>1 DEF Shown
    <3>3. t.pc = "delete" => \A i \in DOMAIN t.todo : t.todo[i] # EventFile(q, t.n)
      <4>1. SUFFICES ASSUME t.pc = "delete", NEW i \in DOMAIN t.todo, t.todo[i] = c PROVE FALSE
        BY <3>1
      <4>2. PICK l : /\ OldestFirst(l, f, "events") /\ s.pc = "match"
                     /\ t.todo = SubSeq(l, 1, IF Len(l) > MaxFiles THEN Len(l) - MaxFiles ELSE 0)
        BY <2>2, <4>1 DEF EventsGoOn
      <4> HIDE DEF t
      <4>3. i \in 1 .. Len(l) /\ i < Len(l) /\ t.todo[i] = l[i]
        BY <1>f, <4>1, <4>2, SortedSafe
      <4> DEFINE e == l[Len(l)]
      <4>4. Len(l) \in 1 .. Len(l) /\ Len(l) # i
        BY <4>3
      <4>5. e # c /\ e \in DOMAIN f /\ e[1] = "events" /\ f[c].at =< f[e].at
        <5>1. e \in DOMAIN f /\ e[1] = "events"
          BY <4>2, <4>4 DEF OldestFirst
        <5>2. l[i] # e /\ f[l[i]].at =< f[e].at
          BY <4>2, <4>3, <4>4 DEF OldestFirst
        <5>3. l[i] = c
          BY <4>1, <4>3
        <5> HIDE DEF e, c
        <5> QED
          BY <5>1, <5>2, <5>3
      <4> HIDE DEF e
      <4>6. PICK p \in Mine(d) : WroteLast(p, rq[p], e, f[e].at)
        BY <4>5 DEF Written
      <4>7. f[c].at = s.at /\ f[e].at \in Nat /\ f[c].at \in Nat
        BY <1>f, <3>2, <4>5 DEF ShownAs
      <4>8. CASE p = q
        <5>1. f[e].at =< s.at /\ (f[e].at = s.at => e = c)
          BY <4>2, <4>6, <4>8 DEF WroteLast, AtFile
        <5> QED
          BY <1>0, <4>5, <4>7, <5>1
      <4>9. CASE p # q
        <5>1. p.kind = "events" /\ IsBegun(rq[p]) /\ f[e].at =< rq[p].at
          BY <4>6 DEF WroteLast
        <5>2. rq[p].at < s.at
          BY <2>0, <2>1, <3>1, <4>9, <5>1 DEF Latest
        <5> QED
          BY <1>0, <1>f, <4>5, <4>7, <5>1, <5>2
      <4> QED
        BY <4>8, <4>9
    <3> QED
      BY <1>2, <1>4, <2>2, <3>1, <3>2, <3>3
  <2>3. CASE Appends(q, s, t, f, g, time)
    <3>1. PICK old \in Seq(Items) : Puts(f, g, c, time, Append(old, Valid(q)[s.n]))
      BY <2>3 DEF Appends
    <3>2. t.n = s.n /\ t.at = time /\ t.pc = "status"
      BY <2>3 DEF Appends
    <3> DEFINE data == Append(old, Valid(q)[s.n])
    <3>3. c \in DOMAIN g /\ g[c].at = time /\ g[c].data = data
      BY <3>1 DEF Puts
    <3>4. Len(data) > 0 /\ data[Len(data)] = Valid(q)[s.n]
      <4>1. Valid(q)[s.n] \in Items
        BY <1>0, <1>f, <2>3 DEF Items, OnItsWay, Mine, Appends
      <4> DEFINE e == Valid(q)[s.n]
      <4> HIDE DEF e
      <4>2. Len(Append(old, e)) > 0 /\ Append(old, e)[Len(Append(old, e))] = e
        BY <4>1 DEF e
      <4> QED
        BY <4>2 DEF e
    <3> HIDE DEF data, c
    <3> QED
      BY <1>4, <3>2, <3>3, <3>4 DEF ShownAs, c
  <2>4. CASE Deletes(q, s, t, f, g)
    <3>1. t.at = s.at /\ t.n = s.n /\ IsSaved(s) /\ s.pc = "delete"
      BY <2>4 DEF Deletes, IsSaved
    <3>2. ShownAs(q, s, f)
      BY <1>0, <2>0, <2>1, <3>1 DEF Shown
    <3>3. s.todo \in Seq(DOMAIN f) /\ s.todo # <<>>
      BY <2>4 DEF Deletes, Listing
    <3>4. /\ Head(s.todo) = s.todo[1] /\ 1 \in DOMAIN s.todo
          /\ \A i \in DOMAIN Tail(s.todo) : Tail(s.todo)[i] = s.todo[i + 1] /\ i + 1 \in DOMAIN s.todo
      BY <3>3
    <3>5. \A i \in DOMAIN s.todo : s.todo[i] # c
      BY <3>1, <3>2 DEF ShownAs
    <3>6. c \in DOMAIN g /\ g[c] = f[c]
      BY <2>4, <3>2, <3>4, <3>5 DEF Deletes, ShownAs
    <3>7. \A i \in DOMAIN t.todo : t.todo[i] # c
      BY <2>4, <3>4, <3>5 DEF Deletes
    <3> HIDE DEF c
    <3> QED
      BY <1>4, <3>1, <3>2, <3>6, <3>7 DEF ShownAs, c
  <2> QED
    BY <2>0, <2>2, <2>3, <2>4, StepEvents
<1> QED
  BY <1>3, <1>4


\* Taking a file away leaves the newer ones, and MaxFiles of them if it is itself one
\* of the newer ones and is listed for deletion.
LEMMA DeleteNewer ==
  ASSUME NEW f, NEW g, FilesOK(f), \A n \in DOMAIN f : f[n].at \in Nat,
         NEW todo, Listing(todo, f), todo # <<>>, SafeToDelete(f, todo),
         DOMAIN g = DOMAIN f \ {Head(todo)}, \A n \in DOMAIN g : g[n] = f[n], NEW t \in Nat,
         Cardinality(Newer(f, t)) >= MaxFiles \/ f[Head(todo)].at >= t
  PROVE  Cardinality(Newer(g, t)) >= MaxFiles
<1> DEFINE h == Head(todo)
<1>0. MaxFiles \in Nat
  BY EventsAssumption
<1>1. h = todo[1] /\ 1 \in DOMAIN todo /\ h \in DOMAIN f
  BY DEF Listing
<1> HIDE DEF h
<1>2. IsFiniteSet(Newer(g, t)) /\ Cardinality(Newer(g, t)) \in Nat
  <2>1. Newer(g, t) \in SUBSET DOMAIN f
    BY DEF Newer, EventNames
  <2> QED
    BY <2>1, FS_Subset, FS_CardinalityType DEF FilesOK
<1>3. CASE f[h].at >= t
  <2>1. \A n \in Remaining(f, todo) : n \in DOMAIN f /\ n # h /\ n[1] = "events" /\ f[h].at =< f[n].at
    BY <1>1 DEF Remaining, EventNames, SafeToDelete
  <2>2. Remaining(f, todo) \in SUBSET Newer(g, t)
    <3>1. ASSUME NEW n \in Remaining(f, todo) PROVE n \in Newer(g, t)
      <4>1. n \in DOMAIN g /\ g[n] = f[n] /\ n[1] = "events"
        BY <2>1 DEF h
      <4>2. f[n].at >= t
        <5>1. f[n].at \in Nat /\ f[h].at \in Nat /\ f[h].at =< f[n].at
          BY <1>1, <2>1
        <5> QED
          BY <1>3, <5>1
      <4> QED
        BY <4>1, <4>2 DEF Newer, EventNames
    <3> QED
      BY <3>1
  <2>3. Cardinality(Remaining(f, todo)) >= MaxFiles
    BY DEF SafeToDelete
  <2>4. Cardinality(Remaining(f, todo)) =< Cardinality(Newer(g, t)) /\ IsFiniteSet(Remaining(f, todo))
    BY <1>2, <2>2, FS_Subset
  <2>5. Cardinality(Remaining(f, todo)) \in Nat
    BY <2>4, FS_CardinalityType
  <2> QED
    BY <1>0, <1>2, <2>3, <2>4, <2>5
<1>4. CASE ~(f[h].at >= t)
  <2>1. \A n : n \in Newer(f, t) <=> n \in Newer(g, t)
    BY <1>1, <1>4 DEF Newer, EventNames, h
  <2>2. Newer(f, t) = Newer(g, t)
    BY <2>1
  <2> QED
    BY <1>4, <2>2 DEF h
<1> QED
  BY <1>3, <1>4

\* A file that is written is newer, and no other is less so.
LEMMA PutNewer ==
  ASSUME NEW f, NEW g, FilesOK(f), NEW c, NEW time \in Nat, NEW data, Puts(f, g, c, time, data), NEW t \in Nat,
         t =< time, Cardinality(Newer(f, t)) >= MaxFiles
  PROVE  Cardinality(Newer(g, t)) >= MaxFiles
<1>0. MaxFiles \in Nat
  BY EventsAssumption
<1>1. DOMAIN g = DOMAIN f \cup {c} /\ g[c].at = time /\ \A n \in DOMAIN f : n # c => g[n] = f[n]
  BY DEF Puts
<1>2. IsFiniteSet(DOMAIN g)
  BY <1>1, FS_AddElement DEF FilesOK
<1>3. IsFiniteSet(Newer(g, t)) /\ Cardinality(Newer(g, t)) \in Nat
  <2>1. Newer(g, t) \in SUBSET DOMAIN g
    BY DEF Newer, EventNames
  <2> QED
    BY <1>2, <2>1, FS_Subset, FS_CardinalityType
<1>4. Newer(f, t) \in SUBSET Newer(g, t)
  <2>1. ASSUME NEW n \in Newer(f, t) PROVE n \in Newer(g, t)
    <3>1. n \in DOMAIN f /\ n[1] = "events" /\ f[n].at >= t
      BY DEF Newer, EventNames
    <3>2. CASE n = c
      BY <1>1, <3>1, <3>2 DEF Newer, EventNames
    <3>3. CASE n # c
      BY <1>1, <3>1, <3>3 DEF Newer, EventNames
    <3> QED
      BY <3>2, <3>3
  <2> QED
    BY <2>1
<1>5. Cardinality(Newer(f, t)) =< Cardinality(Newer(g, t)) /\ IsFiniteSet(Newer(f, t))
  BY <1>3, <1>4, FS_Subset
<1>6. Cardinality(Newer(f, t)) \in Nat
  BY <1>5, FS_CardinalityType
<1> QED
  BY <1>0, <1>3, <1>5, <1>6

\* A request that has followed up still has.
LEMMA FollowsOn ==
  ASSUME NEW d, NEW q, NEW rq, NEW rq2, NEW f, NEW g, NEW time, Step(d, q, rq, rq2, f, g, time),
         NEW r \in Mine(d), rq2[r].at = rq[r].at, rq2[r].n = rq[r].n, Follows(r, rq)
  PROVE  Follows(r, rq2)
<1>0. /\ q \in Mine(d) /\ \A p \in Mine(d) : p # q => rq2[p] = rq[p]
      /\ IsBegun(rq2[q]) /\ rq[q].at \in Nat /\ rq2[q].at \in Nat /\ rq[q].at =< rq2[q].at
  BY StepRuns
<1>1. PICK p \in Mine(r.dev) :
        /\ p # r /\ p.kind = "events" /\ IsBegun(rq[p]) /\ rq[p].at >= rq[r].at
        /\ \E i \in DOMAIN Valid(p) : Valid(p)[i].corr = Valid(r)[rq[r].n].corr
  BY DEF Follows
<1>2. p \in Mine(d) /\ rq[r].at \in Nat /\ rq[p].at \in Nat
  BY <1>1 DEF Mine, Step, Timed
<1>3. IsBegun(rq2[p]) /\ rq2[p].at >= rq2[r].at
  <2>1. CASE p = q
    BY <1>0, <1>1, <1>2, <2>1
  <2>2. CASE p # q
    BY <1>0, <1>1, <1>2, <2>2
  <2> QED
    BY <2>1, <2>2
<1> QED
  BY <1>1, <1>3 DEF Follows

\* An event that was saved stays in its file until MaxFiles newer files displace it
\* (ProcessEvents, rolloverFiles).
LEMMA StepHeld ==
  ASSUME NEW d, NEW q, NEW rq, NEW rq2, NEW f, NEW g, NEW time, Step(d, q, rq, rq2, f, g, time),
         OneByOne(d, rq), RollsOver(d, f, rq), Held(d, f, rq)
  PROVE  Held(d, g, rq2)
<1> DEFINE s == rq[q]  t == rq2[q]
<1>0. /\ q \in Mine(d) /\ \A r \in Mine(d) : r # q => rq2[r] = rq[r]
      /\ Runs(s) /\ s.at \in Nat /\ IsBegun(t)
  BY StepRuns
<1>f. /\ FilesOK(f) /\ OnItsWay(q, s) /\ OnItsWay(q, t) /\ time \in Nat
      /\ \A n \in DOMAIN f : f[n].at \in Nat /\ f[n].at =< time
      /\ \A r \in Mine(d) : rq[r].at \in Nat /\ rq[r].at =< time
  BY DEF Step, Alone, Timed
<1>1. SUFFICES ASSUME NEW r \in Mine(d), HasEvents(r), IsSaved(rq2[r])
               PROVE  HeldIn(r, rq2[r], g) \/ Displaced(r, g, rq2)
  BY DEF Held
<1> DEFINE u == rq[r]  x == rq2[r]  e == EventFile(r, u.n)
<1>2. CASE q.kind = "events" /\ Appends(q, s, t, f, g, time)
  <2> DEFINE c == EventFile(q, s.n)
  <2>1. PICK old \in Seq(Items) : /\ Puts(f, g, c, time, Append(old, Valid(q)[s.n]))
                                  /\ c \in DOMAIN f => old = f[c].data
    BY <1>2 DEF Appends
  <2> DEFINE data == Append(old, Valid(q)[s.n])
  <2>2. Puts(f, g, c, time, data)
    BY <2>1
  <2>3. /\ Len(old) \in Nat /\ DOMAIN old = 1 .. Len(old) /\ DOMAIN data = 1 .. (Len(old) + 1)
        /\ \A i \in DOMAIN old : i \in DOMAIN data /\ data[i] = old[i]
        /\ Len(old) + 1 \in DOMAIN data /\ data[Len(old) + 1] = Valid(q)[s.n]
    <3> DEFINE ev == Valid(q)[s.n]
    <3>1. ev \in Items
      BY <1>0, <1>f, <1>2 DEF Items, OnItsWay, Mine, Appends
    <3> HIDE DEF ev
    <3>2. /\ Len(old) \in Nat /\ DOMAIN old = 1 .. Len(old) /\ DOMAIN Append(old, ev) = 1 .. (Len(old) + 1)
          /\ \A i \in DOMAIN old : i \in DOMAIN Append(old, ev) /\ Append(old, ev)[i] = old[i]
          /\ Len(old) + 1 \in DOMAIN Append(old, ev) /\ Append(old, ev)[Len(old) + 1] = ev
      BY <3>1
    <3> QED
      BY <3>2 DEF ev
  <2>4. /\ c \in DOMAIN g /\ g[c].at = time /\ g[c].data = data
        /\ DOMAIN g = DOMAIN f \cup {c} /\ \A n \in DOMAIN f : n # c => g[n] = f[n]
    BY <2>2 DEF Puts
  <2> HIDE DEF data
  <2>5. CASE r = q
    <3>1. t.n = s.n /\ t.at = time
      BY <1>2 DEF Appends
    <3>2. HeldIn(q, t, g)
      BY <1>f, <2>3, <2>4, <3>1 DEF HeldIn
    <3> QED
      BY <2>5, <3>2
  <2>6. CASE r # q
    <3>1. x = u /\ u.at \in Nat /\ u.at =< time
      BY <1>0, <1>f, <2>6
    <3>2. IsSaved(u)
      BY <1>1, <3>1
    <3>3. CASE HeldIn(r, u, f)
      <4>1. e \in DOMAIN f /\ f[e].at >= u.at /\ \E i \in DOMAIN f[e].data : f[e].data[i] = Valid(r)[u.n]
        BY <3>3 DEF HeldIn
      <4> HIDE DEF e, u, c
      <4>2. CASE e = c
        BY <2>1, <2>3, <2>4, <3>1, <4>1, <4>2 DEF HeldIn, e
      <4>3. CASE e # c
        BY <2>4, <3>1, <4>1, <4>3 DEF HeldIn, e
      <4> QED
        BY <3>1, <4>2, <4>3 DEF u
    <3>4. CASE Displaced(r, f, rq)
      <4>1. Cardinality(Newer(f, u.at)) >= MaxFiles /\ (e \notin DOMAIN f \/ Follows(r, rq))
        BY <3>4 DEF Displaced
      <4>2. Cardinality(Newer(g, u.at)) >= MaxFiles
        BY <1>f, <2>2, <3>1, <4>1, PutNewer
      <4>3. CASE e \notin DOMAIN f /\ e = c
        <5>1. Valid(q)[s.n].corr = Valid(r)[u.n].corr
          BY <4>3 DEF EventFile
        <5>2. s.n \in DOMAIN Valid(q)
          BY <1>f, <1>2, ValidSeq DEF OnItsWay, Appends, Mine
        <5>3. t.at = time /\ q \in Mine(r.dev)
          BY <1>0, <1>2 DEF Appends, Mine
        <5>4. Follows(r, rq2)
          BY <1>0, <1>2, <2>6, <3>1, <5>1, <5>2, <5>3 DEF Follows
        <5> QED
          BY <3>1, <4>2, <5>4 DEF Displaced
      <4>4. CASE e \notin DOMAIN f /\ e # c
        BY <2>4, <3>1, <4>2, <4>4 DEF Displaced
      <4>5. CASE Follows(r, rq)
        BY <3>1, <4>2, <4>5, FollowsOn DEF Displaced
      <4> QED
        BY <4>1, <4>3, <4>4, <4>5
    <3> QED
      BY <1>1, <3>2, <3>3, <3>4 DEF Held
  <2> QED
    BY <2>5, <2>6
<1>3. ASSUME x.at = u.at, x.n = u.n, IsSaved(u),
             SameEvents(f, g) \/ (q.kind = "events" /\ Deletes(q, s, t, f, g))
      PROVE  HeldIn(r, x, g) \/ Displaced(r, g, rq2)
  <2>1. HeldIn(r, u, f) \/ Displaced(r, f, rq)
    BY <1>1, <1>3 DEF Held
  <2>2. CASE SameEvents(f, g)
    <3>1. /\ e \in DOMAIN f <=> e \in DOMAIN g
          /\ e \in DOMAIN f => g[e] = f[e]
      BY <2>2, EventFileName DEF SameEvents
    <3>2. Newer(g, u.at) = Newer(f, u.at)
      BY <2>2 DEF Newer, EventNames, SameEvents
    <3>3. CASE HeldIn(r, u, f)
      BY <1>3, <3>1, <3>3 DEF HeldIn
    <3>4. CASE Displaced(r, f, rq)
      <4>1. Cardinality(Newer(g, x.at)) >= MaxFiles /\ (e \notin DOMAIN g \/ Follows(r, rq))
        BY <1>3, <3>1, <3>2, <3>4 DEF Displaced
      <4>2. Follows(r, rq) => Follows(r, rq2)
        BY <1>3, FollowsOn
      <4> QED
        BY <1>3, <4>1, <4>2 DEF Displaced
    <3> QED
      BY <2>1, <3>3, <3>4
  <2>3. CASE q.kind = "events" /\ Deletes(q, s, t, f, g)
    <3> DEFINE todo == s.todo
    <3>1. /\ Listing(todo, f) /\ todo # <<>> /\ s.pc = "delete"
          /\ DOMAIN g = DOMAIN f \ {Head(todo)} /\ \A n \in DOMAIN g : g[n] = f[n]
      BY <2>3 DEF Deletes
    <3>2. SafeToDelete(f, todo)
      BY <1>0, <2>3, <3>1 DEF RollsOver
    <3>3. u.at \in Nat
      BY <1>f
    <3> HIDE DEF todo
    <3>4. Cardinality(Newer(f, u.at)) >= MaxFiles \/ f[Head(todo)].at >= u.at
            => Cardinality(Newer(g, u.at)) >= MaxFiles
      <4> DEFINE v == u.at
      <4> HIDE DEF v, u
      <4>1. v \in Nat
        BY <3>3 DEF v
      <4>2. Cardinality(Newer(f, v)) >= MaxFiles \/ f[Head(todo)].at >= v
              => Cardinality(Newer(g, v)) >= MaxFiles
        BY <1>f, <3>1, <3>2, <4>1, DeleteNewer
      <4> QED
        BY <4>2 DEF v
    <3>5. CASE HeldIn(r, u, f)
      <4>1. e \in DOMAIN f /\ f[e].at >= u.at
        BY <3>5 DEF HeldIn
      <4>2. CASE e = Head(todo)
        <5>1. Cardinality(Newer(g, x.at)) >= MaxFiles /\ e \notin DOMAIN g
          BY <1>3, <3>1, <3>4, <4>1, <4>2
        <5> QED
          BY <1>3, <5>1 DEF Displaced
      <4>3. CASE e # Head(todo)
        <5>1. e \in DOMAIN g /\ g[e] = f[e]
          BY <3>1, <4>1, <4>3
        <5> QED
          BY <1>3, <3>5, <5>1 DEF HeldIn
      <4> QED
        BY <4>2, <4>3
    <3>6. CASE Displaced(r, f, rq)
      <4>1. Cardinality(Newer(g, x.at)) >= MaxFiles /\ (e \notin DOMAIN f \/ Follows(r, rq))
        BY <1>3, <3>4, <3>6 DEF Displaced
      <4>2. Follows(r, rq) => Follows(r, rq2)
        BY <1>3, FollowsOn
      <4>3. e \notin DOMAIN f => e \notin DOMAIN g
        BY <3>1
      <4> QED
        BY <1>3, <4>1, <4>2, <4>3 DEF Displaced
    <3> QED
      BY <2>1, <3>5, <3>6
  <2> QED
    BY <1>3, <2>2, <2>3
<1>4. CASE r # q /\ ~(q.kind = "events" /\ Appends(q, s, t, f, g, time))
  <2>1. x = u
    BY <1>0, <1>4
  <2>2. SameEvents(f, g) \/ (q.kind = "events" /\ Deletes(q, s, t, f, g))
    BY <1>4, StepEvents
  <2> QED
    BY <1>1, <1>3, <2>1, <2>2
<1>5. CASE r = q /\ ~(q.kind = "events" /\ Appends(q, s, t, f, g, time))
  <2>1. q.kind = "events" /\ IsSaved(t)
    BY <1>1, <1>5 DEF HasEvents
  <2>2. \/ SameEvents(f, g) /\ EventsGoOn(q, s, t, f)
        \/ Deletes(q, s, t, f, g)
    BY <1>5, <2>1, StepEvents
  <2>3. t.at = s.at /\ t.n = s.n /\ IsSaved(s)
    BY <2>1, <2>2 DEF EventsGoOn, Deletes, IsSaved
  <2> QED
    BY <1>3, <1>5, <2>1, <2>2, <2>3
<1> QED
  BY <1>2, <1>4, <1>5


\* Files that are not rolled over: the info files, tests and artifacts.
IsPlain(n) == n[1] \in {"info", "tests", "test-artifacts"}

\* Such a file is as it was unless a request writes it as a whole.
LEMMA StepPlain ==
  ASSUME NEW d, NEW q, NEW rq, NEW rq2, NEW f, NEW g, NEW time, Step(d, q, rq, rq2, f, g, time),
         NEW n, IsPlain(n)
  PROVE  \/ (n \in DOMAIN f <=> n \in DOMAIN g) /\ (n \in DOMAIN f => g[n] = f[n])
         \/ n = rq[q].name /\ Writes(q, rq[q], rq2[q], f, g, time)
<1> DEFINE s == rq[q]  t == rq2[q]
<1>1. Moves(q, s, t, f, g, time) /\ OnItsWay(q, s)
  BY DEF Step, Alone
<1> HIDE DEF s, t
<1>2. CASE GoesOn(q, s, t, f, g)
  BY <1>2 DEF GoesOn
<1>3. CASE Appends(q, s, t, f, g, time)
  <2> DEFINE c == EventFile(q, s.n)
  <2>1. c[1] = "events"
    BY EventFileName
  <2>2. n # c
    BY <2>1 DEF IsPlain
  <2>3. \E data : Puts(f, g, c, time, data)
    BY <1>3 DEF Appends
  <2> HIDE DEF c
  <2> QED
    BY <2>2, <2>3 DEF Puts
<1>4. CASE Writes(q, s, t, f, g, time)
  <2>1. \E data : Puts(f, g, s.name, time, data)
    BY <1>4 DEF Writes
  <2>2. CASE n = s.name
    BY <1>4, <2>2 DEF s, t
  <2>3. CASE n # s.name
    BY <2>1, <2>3 DEF Puts
  <2> QED
    BY <2>2, <2>3
<1>5. CASE Deletes(q, s, t, f, g)
  <2>1. s.todo \in Seq(DOMAIN f) /\ s.todo # <<>>
    BY <1>5 DEF Deletes, Listing
  <2>2. Head(s.todo) = s.todo[1] /\ 1 \in DOMAIN s.todo
    BY <2>1
  <2>3. Head(s.todo)[1] = Prefix(q)
    BY <1>1, <1>5, <2>2 DEF OnItsWay, Deletes
  <2>4. n # Head(s.todo)
    BY <2>3 DEF IsPlain, Prefix
  <2> QED
    BY <1>5, <2>4 DEF Deletes
<1> QED
  BY <1>1, <1>2, <1>3, <1>4, <1>5 DEF Moves, s, t

\* A write as a whole: what it writes, and where the request goes.
LEMMA WriteData ==
  ASSUME NEW q, NEW s, NEW t, NEW f, NEW g, NEW time, Writes(q, s, t, f, g, time), OnItsWay(q, s)
  PROVE  /\ s.name \in DOMAIN g
         /\ \A n \in DOMAIN f : n \in DOMAIN g
         /\ \/ s.pc = "rename" /\ g[s.name].data = <<q.kind>>
               /\ q.kind \in {"states", "info", "testCreate", "testComplete"}
            \/ s.pc = "copy" /\ q.kind = "testArtifact" /\ t.pc = "200" /\ g[s.name].data = <<"whole">>
            \/ s.pc = "open" /\ q.kind = "testArtifact" /\ t.pc = "copy"
         /\ q.kind = "info" => s.name = <<"info", 0>>
         /\ q.kind \in {"testCreate", "testComplete"} => s.name = <<"tests", q.test>>
         /\ q.kind = "testArtifact" => s.name = <<"test-artifacts", q.test>>
         /\ q.kind = "states" => s.name[1] \notin {"info", "tests", "test-artifacts"}
<1>1. s.pc \in {"rename", "open", "copy"}
  BY DEF Writes
<1>2. IsBegun(s)
  BY <1>1 DEF IsBegun
<1>3. s.name \in DOMAIN g /\ \A n \in DOMAIN f : n \in DOMAIN g
  BY DEF Writes, Puts
<1>4. /\ q.kind = "info" => s.name = <<"info", 0>>
      /\ q.kind \in {"testCreate", "testComplete"} => s.name = <<"tests", q.test>>
      /\ q.kind = "testArtifact" => s.name = <<"test-artifacts", q.test>>
      /\ q.kind = "states" => s.name[1] \notin {"info", "tests", "test-artifacts"}
  BY <1>2 DEF OnItsWay
<1>5. \/ s.pc = "rename" /\ g[s.name].data = <<q.kind>>
               /\ q.kind \in {"states", "info", "testCreate", "testComplete"}
      \/ s.pc = "copy" /\ q.kind = "testArtifact" /\ t.pc = "200" /\ g[s.name].data = <<"whole">>
      \/ s.pc = "open" /\ q.kind = "testArtifact" /\ t.pc = "copy"
  BY DEF Writes, Puts, OnItsWay
<1> QED
  BY <1>3, <1>4, <1>5

\* The places that a request of a kind comes to 200 from.
LEMMA StepAnswers ==
  ASSUME NEW d, NEW q, NEW rq, NEW rq2, NEW f, NEW g, NEW time, Step(d, q, rq, rq2, f, g, time),
         rq2[q].pc = "200", q.kind \notin {"events", "states"}
  PROVE  Writes(q, rq[q], rq2[q], f, g, time)
<1> DEFINE s == rq[q]  t == rq2[q]
<1>1. Moves(q, s, t, f, g, time) /\ OnItsWay(q, s) /\ t.pc = "200"
  BY DEF Step, Alone
<1> HIDE DEF s, t
<1>2. s.pc # "delete"
  BY <1>1 DEF OnItsWay
<1>3. Writes(q, s, t, f, g, time)
  BY <1>1, <1>2 DEF Moves, GoesOn, Appends, Deletes
<1> QED
  BY <1>3 DEF s, t

\* The info file stays what was sent last.
LEMMA StepInfo ==
  ASSUME NEW d, NEW q, NEW rq, NEW rq2, NEW f, NEW g, NEW time, Step(d, q, rq, rq2, f, g, time),
         InfoKept(d, f, rq)
  PROVE  InfoKept(d, g, rq2)
<1> DEFINE n == <<"info", 0>>
<1>0. q \in Mine(d) /\ \A r \in Mine(d) : r # q => rq2[r] = rq[r]
  BY StepRuns
<1>w. OnItsWay(q, rq[q])
  BY DEF Step, Alone
<1>1. SUFFICES ASSUME NEW r \in Mine(d), r.kind = "info", rq2[r].pc = "200"
               PROVE  n \in DOMAIN g /\ g[n].data = <<"info">>
  BY DEF InfoKept
<1>2. IsPlain(n) /\ n[1] = "info"
  BY DEF IsPlain
<1>3. ASSUME n = rq[q].name, Writes(q, rq[q], rq2[q], f, g, time)
      PROVE  n \in DOMAIN g /\ g[n].data = <<"info">>
  <2> DEFINE s == rq[q]  t == rq2[q]
  <2>1. Writes(q, s, t, f, g, time) /\ OnItsWay(q, s) /\ n = s.name
    BY <1>w, <1>3
  <2> HIDE DEF s, t
  <2>2. q.kind = "info"
    BY <1>2, <2>1, WriteData
  <2> QED
    BY <2>1, <2>2, WriteData
<1>4. CASE r = q
  <2>1. Writes(q, rq[q], rq2[q], f, g, time)
    BY <1>1, <1>4, StepAnswers
  <2>2. n = rq[q].name
    <3> DEFINE s == rq[q]  t == rq2[q]
    <3>1. Writes(q, s, t, f, g, time) /\ OnItsWay(q, s)
      BY <1>w, <2>1
    <3> HIDE DEF s, t
    <3>2. n = s.name
      BY <1>1, <1>4, <3>1, WriteData
    <3> QED
      BY <3>2 DEF s
  <2> QED
    BY <1>3, <2>1, <2>2
<1>5. CASE r # q
  <2>1. n \in DOMAIN f /\ f[n].data = <<"info">>
    BY <1>0, <1>1, <1>5 DEF InfoKept
  <2> HIDE DEF n
  <2> QED
    BY <1>2, <1>3, <2>1, StepPlain
<1> QED
  BY <1>4, <1>5


\* The requests about a test that have begun are the same after a step.
LEMMA StepAbout ==
  ASSUME NEW d, NEW q, NEW rq, NEW rq2, NEW f, NEW g, NEW time, Step(d, q, rq, rq2, f, g, time),
         NEW x, NEW kind
  PROVE  About(d, x, kind, rq2) = About(d, x, kind, rq)
<1>1. /\ q \in Mine(d) /\ \A r \in Mine(d) : r # q => rq2[r] = rq[r]
      /\ IsBegun(rq[q]) /\ IsBegun(rq2[q])
  BY StepRuns
<1>2. \A r \in Mine(d) : IsBegun(rq2[r]) <=> IsBegun(rq[r])
  BY <1>1
<1> QED
  BY <1>2 DEF About

\* A completed test was there, and what is there was created.
LEMMA StepTestsCreated ==
  ASSUME NEW d, NEW q, NEW rq, NEW rq2, NEW f, NEW g, NEW time, Step(d, q, rq, rq2, f, g, time),
         OneByOne(d, rq), TestsCreated(d, f, rq)
  PROVE  TestsCreated(d, g, rq2)
<1>0. /\ q \in Mine(d) /\ \A r \in Mine(d) : r # q => rq2[r] = rq[r]
      /\ Runs(rq[q]) /\ IsBegun(rq[q])
  BY StepRuns
<1>w. OnItsWay(q, rq[q]) /\ OnItsWay(q, rq2[q]) /\ Moves(q, rq[q], rq2[q], f, g, time)
  BY DEF Step, Alone
<1>a. \A x : About(d, x, "testCreate", rq2) = About(d, x, "testCreate", rq)
  BY StepAbout
<1>b. \A x : \A c \in About(d, x, "testCreate", rq) : c \in Mine(d) /\ IsBegun(rq[c]) /\ c.kind = "testCreate"
  BY DEF About
<1>1. ASSUME NEW r \in Mine(d), r.kind \in {"testCreate", "testComplete", "testArtifact"},
             <<"tests", r.test>> \in DOMAIN g
      PROVE  About(d, r.test, "testCreate", rq) # {}
  <2> DEFINE n == <<"tests", r.test>>
  <2>1. IsPlain(n) /\ n[1] = "tests"
    BY DEF IsPlain
  <2>2. CASE n \in DOMAIN f
    BY <1>1, <2>2 DEF TestsCreated
  <2>3. CASE n \notin DOMAIN f
    <3>1. n = rq[q].name /\ Writes(q, rq[q], rq2[q], f, g, time)
      <4> HIDE DEF n
      <4>1. n \in DOMAIN g
        BY <1>1 DEF n
      <4> QED
        BY <2>1, <2>3, <4>1, StepPlain
    <3> DEFINE s == rq[q]  t == rq2[q]
    <3>2. Writes(q, s, t, f, g, time) /\ OnItsWay(q, s) /\ n = s.name
      BY <1>w, <3>1
    <3> HIDE DEF s, t
    <3>3. q.kind \in {"testCreate", "testComplete"} /\ s.name = <<"tests", q.test>> /\ s.pc = "rename"
      BY <2>1, <3>2, WriteData
    <3>4. q.test = r.test
      BY <3>2, <3>3
    <3>5. CASE q.kind = "testCreate"
      BY <1>0, <3>4, <3>5 DEF About
    <3>6. CASE q.kind = "testComplete"
      BY <1>0, <3>3, <3>4, <3>6 DEF TestsCreated, s
    <3> QED
      BY <3>3, <3>5, <3>6
  <2> QED
    BY <2>2, <2>3
<1>2. ASSUME NEW r \in Mine(d), r.kind = "testComplete", rq2[r].pc \in {"write", "rename", "200"}
      PROVE  \E c \in About(d, r.test, "testCreate", rq) : ~Runs(rq2[c])
  <2>1. ASSUME NEW c \in About(d, r.test, "testCreate", rq), ~Runs(rq[c])
        PROVE  ~Runs(rq2[c])
    BY <1>0, <1>b, <2>1
  <2>2. CASE r # q \/ rq[q].pc \in {"write", "rename"}
    <3>1. rq[r].pc \in {"write", "rename", "200"}
      BY <1>0, <1>2, <2>2
    <3> QED
      BY <1>2, <2>1, <3>1 DEF TestsCreated
  <2>3. CASE r = q /\ rq[q].pc \notin {"write", "rename"}
    <3> DEFINE s == rq[q]  t == rq2[q]
    <3>1. Moves(q, s, t, f, g, time) /\ OnItsWay(q, s) /\ t.pc \in {"write", "rename", "200"}
      BY <1>w, <1>2, <2>3
    <3>2. s.pc \notin {"write", "rename"} /\ q.kind = "testComplete"
      BY <1>2, <2>3
    <3> HIDE DEF s, t
    <3>3. <<"tests", q.test>> \in DOMAIN f
      BY <3>1, <3>2 DEF Moves, GoesOn, Appends, Writes, Deletes, OnItsWay
    <3>4. PICK c : c \in About(d, q.test, "testCreate", rq)
      BY <1>0, <3>2, <3>3 DEF TestsCreated
    <3>5. c # q /\ c \in Mine(d) /\ IsBegun(rq[c])
      BY <1>b, <3>2, <3>4
    <3>6. ~Runs(rq[c])
      BY <1>0, <3>5 DEF OneByOne
    <3> QED
      BY <2>1, <2>3, <3>4, <3>6
  <2> QED
    BY <2>2, <2>3
<1> QED
  BY <1>1, <1>2, <1>a DEF TestsCreated

\* What was answered of an artifact stays: who writes it later broke off, or wrote it
\* as a whole.
LEMMA StepArtifact ==
  ASSUME NEW d, NEW q, NEW rq, NEW rq2, NEW f, NEW g, NEW time, Step(d, q, rq, rq2, f, g, time),
         OneByOne(d, rq), NEW r \in Mine(d), r.kind = "testArtifact", rq2[r].pc = "200",
         rq[r].pc = "200" => ArtifactKept(r, f, rq)
  PROVE  ArtifactKept(r, g, rq2)
<1>0. /\ q \in Mine(d) /\ \A p \in Mine(d) : p # q => rq2[p] = rq[p]
      /\ Runs(rq[q]) /\ IsBegun(rq[q])
      /\ rq[q].at \in Nat /\ rq2[q].at \in Nat /\ rq[q].at =< rq2[q].at
  BY StepRuns
<1>w. OnItsWay(q, rq[q])
  BY DEF Step, Alone
<1>d. r.dev = d
  BY DEF Mine
<1>t. rq[r].at \in Nat
  BY DEF Step, Timed
<1>a. About(d, r.test, "testArtifact", rq2) = About(d, r.test, "testArtifact", rq)
  BY StepAbout
<1> DEFINE n == <<"test-artifacts", r.test>>
<1>1. IsPlain(n) /\ n[1] = "test-artifacts"
  BY DEF IsPlain
<1>2. ASSUME n = rq[q].name, Writes(q, rq[q], rq2[q], f, g, time),
             \A p \in About(d, r.test, "testArtifact", rq2) : rq2[p].pc # "200" => rq2[p].at < rq2[r].at
      PROVE  g[n].data = <<"whole">>
  <2> DEFINE s == rq[q]  t == rq2[q]
  <2>1. Writes(q, s, t, f, g, time) /\ OnItsWay(q, s) /\ n = s.name
    BY <1>w, <1>2
  <2> HIDE DEF s, t
  <2>2. /\ q.kind = "testArtifact" /\ s.name = <<"test-artifacts", q.test>>
        /\ (t.pc = "200" /\ g[s.name].data = <<"whole">>) \/ t.pc = "copy"
    BY <1>1, <2>1, WriteData
  <2>3. q.test = r.test
    BY <2>1, <2>2
  <2>4. q \in About(d, r.test, "testArtifact", rq)
    BY <1>0, <2>2, <2>3 DEF About
  <2>5. CASE t.pc = "copy"
    <3>1. rq2[q].at < rq2[r].at
      BY <1>2, <1>a, <2>4, <2>5 DEF t
    <3>2. r # q
      BY <2>5 DEF t
    <3>3. rq2[r] = rq[r] /\ IsBegun(rq[r])
      BY <1>0, <3>2 DEF IsBegun
    <3>4. rq[r].at =< rq[q].at
      BY <1>0, <3>2, <3>3 DEF OneByOne
    <3> QED
      BY <1>0, <1>t, <3>1, <3>3, <3>4
  <2> QED
    BY <2>1, <2>2, <2>5
<1>3. n \in DOMAIN g
  <2>1. CASE r = q
    <3>1. Writes(q, rq[q], rq2[q], f, g, time)
      BY <2>1, StepAnswers
    <3> DEFINE s == rq[q]  t == rq2[q]
    <3>2. Writes(q, s, t, f, g, time) /\ OnItsWay(q, s)
      BY <1>w, <3>1
    <3> HIDE DEF s, t
    <3> QED
      BY <2>1, <3>2, WriteData
  <2>2. CASE r # q
    <3>1. n \in DOMAIN f
      BY <1>0, <2>2 DEF ArtifactKept
    <3>2. Writes(q, rq[q], rq2[q], f, g, time) => n \in DOMAIN g
      BY <3>1 DEF Writes, Puts
    <3> HIDE DEF n
    <3> QED
      BY <1>1, <3>1, <3>2, StepPlain
  <2> QED
    BY <2>1, <2>2
<1>4. ASSUME \A p \in About(d, r.test, "testArtifact", rq2) : rq2[p].pc # "200" => rq2[p].at < rq2[r].at
      PROVE  g[n].data = <<"whole">>
  <2>1. CASE r = q
    <3>1. Writes(q, rq[q], rq2[q], f, g, time)
      BY <2>1, StepAnswers
    <3>2. n = rq[q].name
      BY <1>w, <1>0, <2>1 DEF OnItsWay
    <3> QED
      BY <1>2, <1>4, <3>1, <3>2
  <2>2. CASE r # q
    <3>1. CASE q \in About(d, r.test, "testArtifact", rq)
      <4>1. q.kind = "testArtifact" /\ q.test = r.test
        BY <3>1 DEF About
      <4>2. rq2[r] = rq[r] /\ IsBegun(rq[r])
        BY <1>0, <2>2 DEF IsBegun
      <4>3. rq[r].at =< rq[q].at
        BY <1>0, <2>2, <4>2 DEF OneByOne
      <4>4. rq2[q].pc = "200"
        BY <1>0, <1>4, <1>a, <1>t, <3>1, <4>2, <4>3
      <4>5. Writes(q, rq[q], rq2[q], f, g, time)
        BY <4>1, <4>4, StepAnswers
      <4>6. n = rq[q].name
        BY <1>w, <1>0, <4>1 DEF OnItsWay
      <4> QED
        BY <1>2, <1>4, <4>5, <4>6
    <3>2. CASE q \notin About(d, r.test, "testArtifact", rq)
      <4>1. \A p \in About(d, r.test, "testArtifact", rq) : rq[p].pc # "200" => rq[p].at < rq[r].at
        <5> SUFFICES ASSUME NEW p \in About(d, r.test, "testArtifact", rq), rq[p].pc # "200"
                     PROVE  rq[p].at < rq[r].at
          OBVIOUS
        <5>1. p # q /\ p \in Mine(d)
          BY <3>2 DEF About
        <5>2. rq2[p] = rq[p] /\ rq2[r] = rq[r]
          BY <1>0, <2>2, <5>1
        <5> QED
          BY <1>4, <1>a, <5>2
      <4>2. n \in DOMAIN f /\ f[n].data = <<"whole">>
        BY <1>0, <1>d, <2>2, <4>1 DEF ArtifactKept
      <4> HIDE DEF n
      <4> QED
        BY <1>1, <1>2, <1>4, <4>2, StepPlain
    <3> QED
      BY <3>1, <3>2
  <2> QED
    BY <2>1, <2>2
<1> QED
  BY <1>3, <1>4, <1>d DEF ArtifactKept

\* What was answered of a test stays until the test is created again.
LEMMA StepComplete ==
  ASSUME NEW d, NEW q, NEW rq, NEW rq2, NEW f, NEW g, NEW time, Step(d, q, rq, rq2, f, g, time),
         OneByOne(d, rq), TestsCreated(d, f, rq),
         NEW r \in Mine(d), r.kind = "testComplete", rq2[r].pc = "200",
         rq[r].pc = "200" => TestKept(r, f, rq)
  PROVE  TestKept(r, g, rq2)
<1>0. /\ q \in Mine(d) /\ \A p \in Mine(d) : p # q => rq2[p] = rq[p]
      /\ Runs(rq[q]) /\ IsBegun(rq[q])
      /\ rq[q].at \in Nat /\ rq2[q].at \in Nat /\ rq[q].at =< rq2[q].at
  BY StepRuns
<1>w. OnItsWay(q, rq[q])
  BY DEF Step, Alone
<1>d. r.dev = d
  BY DEF Mine
<1>t. \A p \in Mine(d) : rq[p].at \in Nat
  BY DEF Step, Timed
<1> DEFINE creates == About(d, r.test, "testCreate", rq)
<1>a. About(d, r.test, "testCreate", rq2) = creates
  BY StepAbout
<1>b. \A c \in creates : c \in Mine(d) /\ IsBegun(rq[c]) /\ c.kind = "testCreate"
  BY DEF About
<1> DEFINE n == <<"tests", r.test>>
<1>1. IsPlain(n) /\ n[1] = "tests"
  BY DEF IsPlain
<1>2. SUFFICES ASSUME \A c \in creates : rq2[c].at < rq2[r].at \/ creates = {c}
               PROVE  n \in DOMAIN g /\ g[n].data = <<"testComplete">>
  BY <1>a, <1>d DEF TestKept
<1>3. CASE r = q
  <2>1. Writes(q, rq[q], rq2[q], f, g, time)
    BY <1>3, StepAnswers
  <2> DEFINE s == rq[q]  t == rq2[q]
  <2>2. Writes(q, s, t, f, g, time) /\ OnItsWay(q, s)
    BY <1>w, <2>1
  <2> HIDE DEF s, t
  <2> QED
    BY <1>3, <2>2, WriteData
<1>4. CASE r # q
  <2>1. rq2[r] = rq[r] /\ IsBegun(rq[r])
    BY <1>0, <1>4 DEF IsBegun
  <2>2. rq[r].at =< rq[q].at
    BY <1>0, <1>4, <2>1 DEF OneByOne
  <2>3. \A c \in creates : rq[c].at < rq[r].at \/ creates = {c}
    <3> SUFFICES ASSUME NEW c \in creates, creates # {c} PROVE rq[c].at < rq[r].at
      OBVIOUS
    <3>1. rq2[c].at < rq[r].at /\ c \in Mine(d)
      BY <1>2, <1>b, <2>1
    <3> HIDE DEF creates
    <3>2. CASE c = q
      BY <1>0, <1>t, <3>1, <3>2
    <3>3. CASE c # q
      BY <1>0, <3>1, <3>3
    <3> QED
      BY <3>2, <3>3
  <2>4. n \in DOMAIN f /\ f[n].data = <<"testComplete">>
    BY <1>d, <2>1, <2>3 DEF TestKept
  <2>5. ASSUME n = rq[q].name, Writes(q, rq[q], rq2[q], f, g, time)
        PROVE  n \in DOMAIN g /\ g[n].data = <<"testComplete">>
    <3> DEFINE s == rq[q]  t == rq2[q]
    <3>1. Writes(q, s, t, f, g, time) /\ OnItsWay(q, s) /\ n = s.name
      BY <1>w, <2>5
    <3> HIDE DEF s, t
    <3>2. /\ q.kind \in {"testCreate", "testComplete"} /\ s.name = <<"tests", q.test>>
          /\ n \in DOMAIN g /\ g[n].data = <<q.kind>>
      BY <1>1, <3>1, WriteData
    <3>3. q.test = r.test
      BY <3>1, <3>2
    <3>4. q.kind # "testCreate"
      <4>1. SUFFICES ASSUME q.kind = "testCreate" PROVE FALSE
        OBVIOUS
      <4>2. q \in creates
        BY <1>0, <3>3, <4>1 DEF About
      <4>3. PICK c \in creates : ~Runs(rq[c])
        BY <2>1 DEF TestsCreated
      <4>4. c # q
        BY <1>0, <4>3
      <4>5. rq[q].at < rq[r].at
        BY <2>3, <4>2, <4>3, <4>4
      <4> QED
        BY <1>0, <1>t, <2>2, <4>5
    <3> QED
      BY <3>2, <3>4
  <2> HIDE DEF n
  <2> QED
    BY <1>1, <2>4, <2>5, StepPlain
<1> QED
  BY <1>3, <1>4

\* What was answered of tests and artifacts stays.
LEMMA StepTestsKept ==
  ASSUME NEW d, NEW q, NEW rq, NEW rq2, NEW f, NEW g, NEW time, Step(d, q, rq, rq2, f, g, time),
         OneByOne(d, rq), TestsCreated(d, f, rq), TestsKept(d, f, rq)
  PROVE  TestsKept(d, g, rq2)
<1> SUFFICES ASSUME NEW r \in Mine(d), rq2[r].pc = "200"
             PROVE  /\ r.kind = "testArtifact" => ArtifactKept(r, g, rq2)
                    /\ r.kind = "testComplete" => TestKept(r, g, rq2)
  BY DEF TestsKept
<1>1. rq[r].pc = "200" =>
        /\ r.kind = "testArtifact" => ArtifactKept(r, f, rq)
        /\ r.kind = "testComplete" => TestKept(r, f, rq)
  BY DEF TestsKept
<1> QED
  BY <1>1, StepArtifact, StepComplete

\* A step of a request of a device keeps what the device was told.
LEMMA StepKeeps ==
  ASSUME NEW d, NEW q, NEW rq, NEW rq2, NEW f, NEW g, NEW time, Step(d, q, rq, rq2, f, g, time),
         DeviceInv(d, f, rq)
  PROVE  DeviceInv(d, g, rq2)
<1>1. /\ OneByOne(d, rq) /\ Written(d, f, rq) /\ Shown(d, f, rq) /\ Held(d, f, rq)
      /\ RollsOver(d, f, rq) /\ InfoKept(d, f, rq) /\ TestsCreated(d, f, rq) /\ TestsKept(d, f, rq)
  BY DEF DeviceInv
<1>2. OneByOne(d, rq2)
  BY <1>1, StepOneByOne
<1>3. Written(d, g, rq2)
  BY <1>1, StepWritten
<1>4. Shown(d, g, rq2)
  BY <1>1, StepShown
<1>5. Held(d, g, rq2)
  BY <1>1, StepHeld
<1>6. RollsOver(d, g, rq2)
  BY <1>1, StepRollsOver
<1>7. InfoKept(d, g, rq2)
  BY <1>1, StepInfo
<1>8. TestsCreated(d, g, rq2) /\ TestsKept(d, g, rq2)
  BY <1>1, StepTestsCreated, StepTestsKept
<1> QED
  BY <1>2, <1>3, <1>4, <1>5, <1>6, <1>7, <1>8 DEF DeviceInv

-----------------------------------------------------------------------------
(* Requests that begin, and that end without an answer *)

\* Where a request of each kind begins.
LEMMA FirstPlaces ==
  ASSUME NEW r \in Requests
  PROVE  /\ First(r) \notin {"status", "match", "delete", "rename", "open", "copy", "none", "idle"}
         /\ r.kind = "events" => First(r) = (IF Valid(r) = <<>> THEN "200" ELSE "event")
         /\ First(r) = "200" => r.kind = "events" /\ Valid(r) = <<>>
         /\ First(r) = "event" => r.kind = "events" /\ Valid(r) # <<>>
         /\ First(r) = "sleep" => r.kind = "states"
         /\ First(r) = "read" => r.kind = "testComplete"
         /\ First(r) = "check" => r.kind = "testArtifact"
         /\ First(r) = "write" => r.kind \in {"info", "testCreate"}
<1>1. r.kind \in Kinds
  BY EventsAssumption
<1>2. CASE r.kind = "events"
  BY <1>2 DEF First
<1>3. CASE r.kind = "states"
  BY <1>3 DEF First
<1>4. CASE r.kind = "info"
  BY <1>4 DEF First
<1>5. CASE r.kind = "testCreate"
  BY <1>5 DEF First, FirstOfTest
<1>6. CASE r.kind = "testComplete"
  BY <1>6 DEF First, FirstOfTest
<1>7. CASE r.kind = "testArtifact"
  BY <1>7 DEF First, FirstOfTest
<1> QED
  BY <1>1, <1>2, <1>3, <1>4, <1>5, <1>6, <1>7 DEF Kinds

\* A request that begins while none of its device runs.
BeginsAlone(d, q, rq, rq2, time) ==
  /\ Alone(d, q, rq, rq2)
  /\ rq[q].pc = "idle" /\ rq2[q].pc = First(q) /\ rq2[q].at = time
  /\ \A r \in Mine(d) : ~Runs(rq[r])

\* A request that begins finds what was answered as it is.
LEMMA BeginKept ==
  ASSUME NEW d, NEW q, NEW rq, NEW rq2, NEW f, NEW time,
         BeginsAlone(d, q, rq, rq2, time), Timed(d, f, rq, time), DeviceInv(d, f, rq)
  PROVE  DeviceInv(d, f, rq2)
<1>0. /\ q \in Mine(d) /\ \A r \in Mine(d) : r # q => rq2[r] = rq[r]
      /\ rq[q].pc = "idle" /\ rq2[q].pc = First(q) /\ rq2[q].at = time /\ time \in Nat
      /\ \A r \in Mine(d) : ~Runs(rq[r]) /\ rq[r].at \in Nat /\ rq[r].at =< time
  BY DEF BeginsAlone, Alone, Timed
<1>q. q \in Requests
  BY <1>0 DEF Mine
<1>i. ~IsBegun(rq[q])
  BY <1>0 DEF IsBegun
<1>b. \A r \in Mine(d) : IsBegun(rq[r]) => r # q /\ rq2[r] = rq[r]
  BY <1>0, <1>i
<1>m. \A r \in Mine(d) : r.dev = d
  BY DEF Mine
<1>p. /\ First(q) \notin {"status", "match", "delete", "rename", "none", "idle"}
      /\ q.kind = "events" => First(q) = (IF Valid(q) = <<>> THEN "200" ELSE "event")
      /\ First(q) = "200" => q.kind = "events" /\ Valid(q) = <<>>
      /\ First(q) = "write" => q.kind \in {"info", "testCreate"}
  BY <1>q, FirstPlaces
<1>1. OneByOne(d, rq2)
  BY <1>0 DEF OneByOne
<1>2. Written(d, f, rq2)
  <2>1. SUFFICES ASSUME NEW n \in DOMAIN f, n[1] = "events"
                 PROVE  \E r \in Mine(d) : WroteLast(r, rq2[r], n, f[n].at)
    BY DEF Written
  <2>2. PICK r \in Mine(d) : WroteLast(r, rq[r], n, f[n].at)
    BY <2>1 DEF DeviceInv, Written
  <2>3. IsBegun(rq[r])
    BY <2>2 DEF WroteLast
  <2> QED
    BY <1>b, <2>2, <2>3
<1>s. ASSUME NEW r \in Mine(d), HasEvents(r), IsSaved(rq2[r])
      PROVE  r # q /\ rq2[r] = rq[r] /\ IsSaved(rq[r])
  <2>1. r # q
    BY <1>0, <1>p, <1>s DEF HasEvents, IsSaved
  <2> QED
    BY <1>0, <1>s, <2>1
<1>3. Shown(d, f, rq2)
  <2>1. SUFFICES ASSUME NEW r \in Mine(d), HasEvents(r), IsSaved(rq2[r]), Latest(r, rq2)
                 PROVE  ShownAs(r, rq2[r], f)
    BY DEF Shown
  <2>2. r # q /\ rq2[r] = rq[r] /\ IsSaved(rq[r])
    BY <1>s, <2>1
  <2>3. Latest(r, rq)
    BY <1>b, <1>m, <2>1, <2>2 DEF Latest
  <2> QED
    BY <2>1, <2>2, <2>3 DEF DeviceInv, Shown
<1>4. Held(d, f, rq2)
  <2>1. SUFFICES ASSUME NEW r \in Mine(d), HasEvents(r), IsSaved(rq2[r])
                 PROVE  HeldIn(r, rq2[r], f) \/ Displaced(r, f, rq2)
    BY DEF Held
  <2>2. r # q /\ rq2[r] = rq[r] /\ IsSaved(rq[r])
    BY <1>s, <2>1
  <2>3. HeldIn(r, rq[r], f) \/ Displaced(r, f, rq)
    BY <2>1, <2>2 DEF DeviceInv, Held
  <2>4. Follows(r, rq) => Follows(r, rq2)
    <3>1. SUFFICES ASSUME Follows(r, rq) PROVE Follows(r, rq2)
      OBVIOUS
    <3>2. PICK p \in Mine(d) :
            /\ p # r /\ p.kind = "events" /\ IsBegun(rq[p]) /\ rq[p].at >= rq[r].at
            /\ \E i \in DOMAIN Valid(p) : Valid(p)[i].corr = Valid(r)[rq[r].n].corr
      BY <1>m, <3>1 DEF Follows
    <3>3. rq2[p] = rq[p]
      BY <1>b, <3>2
    <3> QED
      BY <1>m, <2>2, <3>2, <3>3 DEF Follows
  <2>5. Displaced(r, f, rq) => Displaced(r, f, rq2)
    BY <2>2, <2>4 DEF Displaced
  <2> QED
    BY <2>2, <2>3, <2>5
<1>5. RollsOver(d, f, rq2)
  BY <1>0, <1>p DEF DeviceInv, RollsOver
<1>6. InfoKept(d, f, rq2)
  BY <1>0, <1>p DEF DeviceInv, InfoKept
<1>a. \A x, kind : About(d, x, kind, rq) \subseteq About(d, x, kind, rq2)
                   /\ \A c \in About(d, x, kind, rq2) : c = q \/ c \in About(d, x, kind, rq)
  BY <1>0, <1>b DEF About
<1>c. \A x, kind : \A c \in About(d, x, kind, rq) : c \in Mine(d) /\ c # q /\ rq2[c] = rq[c]
  BY <1>b DEF About
<1>7. TestsCreated(d, f, rq2)
  <2>1. ASSUME NEW r \in Mine(d), r.kind \in {"testCreate", "testComplete", "testArtifact"}, <<"tests", r.test>> \in DOMAIN f
        PROVE  About(d, r.test, "testCreate", rq2) # {}
    <3>1. About(d, r.test, "testCreate", rq) # {}
      BY <2>1 DEF DeviceInv, TestsCreated
    <3> QED
      BY <1>a, <3>1
  <2>2. ASSUME NEW r \in Mine(d), r.kind = "testComplete", rq2[r].pc \in {"write", "rename", "200"}
        PROVE  \E c \in About(d, r.test, "testCreate", rq2) : ~Runs(rq2[c])
    <3>1. r # q
      BY <1>0, <1>p, <2>2
    <3>2. rq[r].pc \in {"write", "rename", "200"}
      BY <1>0, <2>2, <3>1
    <3>3. PICK c \in About(d, r.test, "testCreate", rq) : ~Runs(rq[c])
      BY <2>2, <3>2 DEF DeviceInv, TestsCreated
    <3> QED
      BY <1>a, <1>c, <3>3
  <2> QED
    BY <2>1, <2>2 DEF TestsCreated
<1>8. TestsKept(d, f, rq2)
  <2>1. SUFFICES ASSUME NEW r \in Mine(d), rq2[r].pc = "200"
                 PROVE  /\ r.kind = "testArtifact" => ArtifactKept(r, f, rq2)
                        /\ r.kind = "testComplete" => TestKept(r, f, rq2)
    BY DEF TestsKept
  <2>2. CASE r = q
    BY <1>0, <1>p, <2>1, <2>2
  <2>3. CASE r # q
    <3>1. rq2[r] = rq[r] /\ rq[r].pc = "200" /\ r.dev = d
      BY <1>0, <1>m, <2>1, <2>3
    <3>2. ASSUME r.kind = "testArtifact" PROVE ArtifactKept(r, f, rq2)
      <4>1. ArtifactKept(r, f, rq)
        BY <3>1, <3>2 DEF DeviceInv, TestsKept
      <4>2. (\A p \in About(d, r.test, "testArtifact", rq2) : rq2[p].pc # "200" => rq2[p].at < rq2[r].at)
              => \A p \in About(d, r.test, "testArtifact", rq) : rq[p].pc # "200" => rq[p].at < rq[r].at
        BY <1>a, <1>c, <3>1
      <4> QED
        BY <3>1, <4>1, <4>2 DEF ArtifactKept
    <3>3. ASSUME r.kind = "testComplete" PROVE TestKept(r, f, rq2)
      <4>1. TestKept(r, f, rq)
        BY <3>1, <3>3 DEF DeviceInv, TestsKept
      <4> DEFINE old == About(d, r.test, "testCreate", rq)
                 new == About(d, r.test, "testCreate", rq2)
      <4>2. PICK c : c \in old
        BY <3>1, <3>3 DEF DeviceInv, TestsCreated
      <4>3. ASSUME \A p \in new : rq2[p].at < rq2[r].at \/ new = {p}
            PROVE  \A p \in old : rq[p].at < rq[r].at \/ old = {p}
        <5>1. q \notin new
          <6>1. SUFFICES ASSUME q \in new PROVE FALSE
            OBVIOUS
          <6>2. c \in new /\ c # q
            BY <1>a, <1>c, <4>2
          <6>3. time < rq[r].at
            BY <1>0, <3>1, <4>3, <6>1, <6>2
          <6> QED
            BY <1>0, <6>3
        <5>2. old = new
          BY <1>a, <5>1
        <5>3. \A p \in old : rq2[p] = rq[p]
          BY <1>c
        <5> HIDE DEF old, new
        <5> QED
          BY <3>1, <4>3, <5>2, <5>3
      <4> QED
        BY <3>1, <4>1, <4>3 DEF TestKept
    <3> QED
      BY <3>2, <3>3
  <2> QED
    BY <2>2, <2>3
<1> QED
  BY <1>1, <1>2, <1>3, <1>4, <1>5, <1>6, <1>7, <1>8 DEF DeviceInv

\* The requests of a device are as they were, or end without an answer.
EndsUnanswered(d, rq, rq2) ==
  \A r \in Mine(d) : \/ rq2[r] = rq[r]
                     \/ /\ Runs(rq[r]) /\ rq2[r].pc = "lost"
                        /\ rq2[r].at = rq[r].at /\ rq2[r].n = rq[r].n /\ rq2[r].name = rq[r].name

\* Neither a restart nor a step of another device's request takes what was answered.
LEMMA EndKept ==
  ASSUME NEW d, NEW rq, NEW rq2, NEW f, EndsUnanswered(d, rq, rq2), DeviceInv(d, f, rq)
  PROVE  DeviceInv(d, f, rq2)
<1>0. \A r \in Mine(d) : rq2[r] = rq[r] \/ (Runs(rq[r]) /\ rq2[r].pc = "lost")
  BY DEF EndsUnanswered
<1>b. \A r \in Mine(d) : /\ IsBegun(rq2[r]) <=> IsBegun(rq[r])
                         /\ Runs(rq2[r]) => Runs(rq[r])
  BY DEF EndsUnanswered, Runs, Running, IsBegun
<1>t. \A r \in Mine(d) : rq2[r].at = rq[r].at
  BY DEF EndsUnanswered
<1>p. \A r \in Mine(d) : rq2[r].pc # "lost" => rq2[r] = rq[r]
  BY <1>0
<1>m. \A r \in Mine(d) : r.dev = d
  BY DEF Mine
<1>1. OneByOne(d, rq2)
  <2> SUFFICES ASSUME NEW q \in Mine(d), NEW r \in Mine(d), q # r, Runs(rq2[q]), IsBegun(rq2[r])
               PROVE  ~Runs(rq2[r]) /\ rq2[r].at =< rq2[q].at
    BY DEF OneByOne
  <2>1. rq2[q] = rq[q]
    BY <1>p DEF Runs, Running
  <2>2. ~Runs(rq[r]) /\ rq[r].at =< rq[q].at
    BY <1>b, <2>1 DEF DeviceInv, OneByOne
  <2>3. rq2[r] = rq[r]
    BY <1>0, <2>2
  <2> QED
    BY <2>1, <2>2, <2>3
<1>2. Written(d, f, rq2)
  <2>1. SUFFICES ASSUME NEW n \in DOMAIN f, n[1] = "events"
                 PROVE  \E r \in Mine(d) : WroteLast(r, rq2[r], n, f[n].at)
    BY DEF Written
  <2>2. PICK r \in Mine(d) : WroteLast(r, rq[r], n, f[n].at)
    BY <2>1 DEF DeviceInv, Written
  <2>3. WroteLast(r, rq2[r], n, f[n].at)
    <3>1. CASE rq2[r] = rq[r]
      BY <2>2, <3>1
    <3>2. CASE rq2[r].pc = "lost"
      BY <1>t, <2>2, <3>2 DEF WroteLast, IsBegun
    <3> QED
      BY <1>0, <3>1, <3>2
  <2> QED
    BY <2>3
<1>s. ASSUME NEW r \in Mine(d), IsSaved(rq2[r]) PROVE rq2[r] = rq[r]
  BY <1>p, <1>s DEF IsSaved
<1>3. Shown(d, f, rq2)
  <2>1. SUFFICES ASSUME NEW r \in Mine(d), HasEvents(r), IsSaved(rq2[r]), Latest(r, rq2)
                 PROVE  ShownAs(r, rq2[r], f)
    BY DEF Shown
  <2>2. rq2[r] = rq[r]
    BY <1>s, <2>1
  <2>3. Latest(r, rq)
    <3> SUFFICES ASSUME NEW q \in Mine(d), q # r, q.kind = "events", IsBegun(rq[q])
                 PROVE  rq[q].at < rq[r].at
      BY <1>m DEF Latest
    <3>1. IsBegun(rq2[q]) /\ rq2[q].at = rq[q].at
      BY <1>b, <1>t
    <3> QED
      BY <1>m, <2>1, <2>2, <3>1 DEF Latest
  <2> QED
    BY <2>1, <2>2, <2>3 DEF DeviceInv, Shown
<1>4. Held(d, f, rq2)
  <2>1. SUFFICES ASSUME NEW r \in Mine(d), HasEvents(r), IsSaved(rq2[r])
                 PROVE  HeldIn(r, rq2[r], f) \/ Displaced(r, f, rq2)
    BY DEF Held
  <2>2. rq2[r] = rq[r]
    BY <1>s, <2>1
  <2>3. HeldIn(r, rq[r], f) \/ Displaced(r, f, rq)
    BY <2>1, <2>2 DEF DeviceInv, Held
  <2>4. Follows(r, rq) => Follows(r, rq2)
    <3>1. SUFFICES ASSUME Follows(r, rq) PROVE Follows(r, rq2)
      OBVIOUS
    <3>2. PICK p \in Mine(d) :
            /\ p # r /\ p.kind = "events" /\ IsBegun(rq[p]) /\ rq[p].at >= rq[r].at
            /\ \E i \in DOMAIN Valid(p) : Valid(p)[i].corr = Valid(r)[rq[r].n].corr
      BY <1>m, <3>1 DEF Follows
    <3>3. IsBegun(rq2[p]) /\ rq2[p].at = rq[p].at
      BY <1>b, <1>t, <3>2
    <3> QED
      BY <1>m, <2>2, <3>2, <3>3 DEF Follows
  <2>5. Displaced(r, f, rq) => Displaced(r, f, rq2)
    BY <2>2, <2>4 DEF Displaced
  <2> QED
    BY <2>2, <2>3, <2>5
<1>5. RollsOver(d, f, rq2)
  <2> SUFFICES ASSUME NEW q \in Mine(d), q.kind = "events", rq2[q].pc = "delete"
               PROVE  SafeToDelete(f, rq2[q].todo)
    BY DEF RollsOver
  <2>1. rq2[q] = rq[q]
    BY <1>p
  <2> QED
    BY <2>1 DEF DeviceInv, RollsOver
<1>6. InfoKept(d, f, rq2)
  BY <1>p DEF DeviceInv, InfoKept
<1>a. \A x, kind : About(d, x, kind, rq) = About(d, x, kind, rq2)
  BY <1>b DEF About
<1>c. \A x, kind : \A c \in About(d, x, kind, rq) : c \in Mine(d)
  BY DEF About
<1>7. TestsCreated(d, f, rq2)
  <2>1. ASSUME NEW r \in Mine(d), r.kind = "testComplete", rq2[r].pc \in {"write", "rename", "200"}
        PROVE  \E c \in About(d, r.test, "testCreate", rq2) : ~Runs(rq2[c])
    <3>1. rq[r].pc \in {"write", "rename", "200"}
      BY <1>p, <2>1
    <3>2. PICK c \in About(d, r.test, "testCreate", rq) : ~Runs(rq[c])
      BY <2>1, <3>1 DEF DeviceInv, TestsCreated
    <3>3. rq2[c] = rq[c]
      BY <1>0, <1>c, <3>2
    <3> QED
      BY <1>a, <3>2, <3>3
  <2> QED
    BY <1>a, <2>1 DEF DeviceInv, TestsCreated
<1>8. TestsKept(d, f, rq2)
  <2>1. SUFFICES ASSUME NEW r \in Mine(d), rq2[r].pc = "200"
                 PROVE  /\ r.kind = "testArtifact" => ArtifactKept(r, f, rq2)
                        /\ r.kind = "testComplete" => TestKept(r, f, rq2)
    BY DEF TestsKept
  <2>2. rq2[r] = rq[r] /\ r.dev = d
    BY <1>m, <1>p, <2>1
  <2>3. ASSUME r.kind = "testArtifact" PROVE ArtifactKept(r, f, rq2)
    <3>1. ArtifactKept(r, f, rq)
      BY <2>1, <2>2, <2>3 DEF DeviceInv, TestsKept
    <3>2. \A p \in About(d, r.test, "testArtifact", rq) :
            rq2[p].at = rq[p].at /\ (rq[p].pc # "200" => rq2[p].pc # "200")
      BY <1>0, <1>c, <1>t
    <3> QED
      BY <1>a, <2>2, <3>1, <3>2 DEF ArtifactKept
  <2>4. ASSUME r.kind = "testComplete" PROVE TestKept(r, f, rq2)
    <3>1. TestKept(r, f, rq)
      BY <2>1, <2>2, <2>4 DEF DeviceInv, TestsKept
    <3>2. \A p \in About(d, r.test, "testCreate", rq) : rq2[p].at = rq[p].at
      BY <1>c, <1>t
    <3> QED
      BY <1>a, <2>2, <3>1, <3>2 DEF TestKept
  <2> QED
    BY <2>3, <2>4
<1> QED
  BY <1>1, <1>2, <1>3, <1>4, <1>5, <1>6, <1>7, <1>8 DEF DeviceInv

-----------------------------------------------------------------------------
(* The actions, as such steps *)

\* A listing of matchFiles has all files of the prefix.
LEMMA MatchSorted ==
  ASSUME NEW d, FilesOK(files[d]), NEW prefix, NEW l \in matchFiles(d, prefix)
  PROVE  OldestFirst(l, files[d], prefix)
<1> DEFINE S == {n \in DOMAIN files[d] : n[1] = prefix}
           m == Cardinality(S)
<1>1. IsFiniteSet(S)
  BY FS_Subset DEF FilesOK
<1>2. m \in Nat
  BY <1>1, FS_CardinalityType
<1>3. /\ l \in [1 .. m -> S] /\ \A i, j \in 1 .. m : i # j => l[i] # l[j]
      /\ \A i, j \in DOMAIN l : i < j => files[d][l[i]].at =< files[d][l[j]].at
  BY DEF matchFiles, SetToSeqs
<1>4. ASSUME NEW n \in S PROVE \E i \in 1 .. m : l[i] = n
  <2>1. SUFFICES ASSUME \A i \in 1 .. m : l[i] # n PROVE FALSE
    OBVIOUS
  <2>2. IsFiniteSet(S \ {n}) /\ Cardinality(S \ {n}) = m - 1
    BY <1>1, <1>4, FS_RemoveElement
  <2>3. IsFiniteSet(1 .. m) /\ Cardinality(1 .. m) = m
    BY <1>2, FS_Interval
  <2>4. l \in [1 .. m -> S \ {n}]
    BY <1>3, <2>1
  <2>5. Cardinality(S \ {n}) < Cardinality(1 .. m)
    <3> HIDE DEF m
    <3> QED
      BY <1>2, <2>2, <2>3
  <2> HIDE DEF m, S
  <2>6. \E x, y \in 1 .. m : x # y /\ l[x] = l[y]
    BY <2>2, <2>3, <2>4, <2>5, FS_PigeonHole
  <2> QED
    BY <1>3, <2>6
<1>5. \A n \in DOMAIN files[d] : n[1] = prefix => n \in S
  OBVIOUS
<1>6. \A n \in S : n \in DOMAIN files[d] /\ n[1] = prefix
  OBVIOUS
<1> HIDE DEF m, S
<1>7. l \in Seq(S) /\ Len(l) = m /\ DOMAIN l = 1 .. m
  BY <1>2, <1>3
<1>8. l \in Seq(DOMAIN files[d])
  BY <1>6, <1>7
<1> QED
  BY <1>3, <1>4, <1>5, <1>6, <1>7, <1>8 DEF OldestFirst

\* Writing a file.
LEMMA PutPuts ==
  ASSUME Shapes, NEW d \in Devices, NEW name, NEW data, Put(d, name, data)
  PROVE  Puts(files[d], files'[d], name, now, data)
<1> DEFINE f == files[d]
           g == [n \in DOMAIN f \cup {name} |->
                   IF n = name THEN [at |-> now, data |-> data] ELSE f[n]]
<1>1. files' = [files EXCEPT ![d] = g] /\ files = [e \in Devices |-> files[e]]
  BY DEF Put, Shapes
<1>2. Puts(f, g, name, now, data)
  BY DEF Puts
<1>3. files'[d] = g
  <2> HIDE DEF g
  <2> QED
    BY <1>1
<1> QED
  BY <1>2, <1>3

\* Moving on keeps the rest of a request's state.
LEMMA GotoKeeps ==
  ASSUME Shapes, NEW r \in Requests, NEW pc, Goto(r, pc)
  PROVE  /\ req'[r].pc = pc /\ req'[r].name = req[r].name /\ req'[r].at = req[r].at
         /\ req'[r].n = req[r].n /\ req'[r].todo = req[r].todo
<1> DEFINE s == [req[r] EXCEPT !.pc = pc]
<1>1. IsReq(req[r]) /\ req = [q \in Requests |-> req[q]]
  BY DEF Shapes
<1>2. /\ s.pc = pc /\ s.name = req[r].name /\ s.at = req[r].at
      /\ s.n = req[r].n /\ s.todo = req[r].todo
  BY <1>1 DEF IsReq
<1>3. req' = [req EXCEPT ![r] = s]
  BY DEF Goto, Set
<1> HIDE DEF s
<1>4. req'[r] = s
  BY <1>1, <1>3
<1> QED
  BY <1>2, <1>4

\* A request that fails, or one that is not about events and is answered.
LEMMA WayEnds ==
  ASSUME NEW r, NEW s, NEW t, OnItsWay(r, s), IsBegun(s), t.name = s.name,
         t.pc = "500" \/ (t.pc = "200" /\ r.kind # "events")
  PROVE  OnItsWay(r, t)
BY DEF OnItsWay, IsBegun

\* What a step of a request does to its device's files.
MovesOn(r, s, t, f, g) == Moves(r, s, t, f, g, now) /\ OnItsWay(r, t)

\* ProcessEvents: an event is appended to its file, its status to the log.
LEMMA EventMoves ==
  ASSUME EventsInv, WayInv, NEW r \in Requests, r.dev \notin mixed, AppendEvent(r) \/ AppendStatus(r)
  PROVE  MovesOn(r, req[r], req'[r], files[r.dev], files'[r.dev])
<1> DEFINE s == req[r]  t == req'[r]
<1>0. /\ OnItsWay(r, s) /\ IsReq(s) /\ r.dev \in Devices /\ req = [q \in Requests |-> req[q]] /\ Shapes
      /\ s.at \in Nat /\ s.at =< now /\ now \in Nat /\ FilesOK(files[r.dev])
  BY EventsAssumption DEF WayInv, WayOf, Timed, Mine, EventsInv, Shapes
<1>1. CASE AppendEvent(r)
  <2> DEFINE name == <<"events", Event(r).corr>>
             data == Append(Content(r.dev, name), Event(r))
             x == [req[r] EXCEPT !.pc = "status", !.at = now]
  <2>1. /\ s.pc = "event" /\ Put(r.dev, name, data) /\ Set(r, x)
        /\ s.n > 1 /\ Valid(r)[s.n - 1].corr # Event(r).corr => now > s.at
    BY <1>1 DEF AppendEvent
  <2>2. x.pc = "status" /\ x.at = now /\ x.n = s.n /\ x.name = s.name
    BY <1>0 DEF IsReq
  <2>3. t = x
    <3> HIDE DEF x
    <3> QED
      BY <1>0, <2>1 DEF Set
  <2> HIDE DEF x
  <2>4. Puts(files[r.dev], files'[r.dev], name, now, data)
    BY <1>0, <2>1, PutPuts
  <2>5. name = EventFile(r, s.n) /\ Event(r) = Valid(r)[s.n]
    BY DEF EventFile, Event
  <2>6. Content(r.dev, name) \in Seq(Items)
    BY <1>0 DEF Content, FilesOK
  <2>7. name \in DOMAIN files[r.dev] => Content(r.dev, name) = files[r.dev][name].data
    BY DEF Content
  <2>8. OnItsWay(r, t)
    <3>1. t.pc = "status" /\ t.n = s.n /\ t.name = s.name /\ s.pc = "event"
      BY <2>1, <2>2, <2>3
    <3> HIDE DEF s, t
    <3> QED
      BY <1>0, <3>1 DEF OnItsWay, IsBegun
  <2>9. Appends(r, s, t, files[r.dev], files'[r.dev], now)
    <3> DEFINE f == files[r.dev]  g == files'[r.dev]  old == Content(r.dev, name)  e == Valid(r)[s.n]
    <3>1. /\ old \in Seq(Items) /\ (name \in DOMAIN f => old = f[name].data)
          /\ Puts(f, g, name, now, Append(old, e))
      BY <2>4, <2>5, <2>6, <2>7
    <3>2. /\ s.pc = "event" /\ t.pc = "status" /\ t.n = s.n /\ t.at = now /\ s.at =< now
          /\ s.n > 1 /\ Valid(r)[s.n - 1].corr # Valid(r)[s.n].corr => now > s.at
      BY <1>0, <2>1, <2>2, <2>3, <2>5
    <3>3. name = EventFile(r, s.n)
      BY <2>5
    <3> HIDE DEF f, g, old, name, s, t
    <3>4. \E o \in Seq(Items) :
           /\ EventFile(r, s.n) \in DOMAIN f => o = f[EventFile(r, s.n)].data
           /\ Puts(f, g, EventFile(r, s.n), now, Append(o, e))
      BY <3>1, <3>3
    <3>5. Appends(r, s, t, f, g, now)
      BY <3>2, <3>4 DEF Appends
    <3> QED
      BY <3>5 DEF f, g
  <2> QED
    BY <2>8, <2>9 DEF MovesOn, Moves
<1>2. CASE AppendStatus(r)
  <2>0. r.kind = "events" /\ s.n \in 1 .. Len(Valid(r)) /\ s.pc = "status"
    BY <1>0, <1>2 DEF OnItsWay, AppendStatus
  <2>l. Len(Valid(r)) \in Nat
    BY <2>0, ValidSeq
  <2>u. files' = files
    BY <1>2 DEF AppendStatus
  <2>1. CASE s.n < Len(Valid(r))
    <3> DEFINE x == [req[r] EXCEPT !.pc = "event", !.n = @ + 1]
    <3>1. Set(r, x)
      BY <1>2, <2>1 DEF AppendStatus
    <3>2. x.pc = "event" /\ x.at = s.at /\ x.n = s.n + 1 /\ x.name = s.name
      BY <1>0 DEF IsReq
    <3>3. t = x
      <4> HIDE DEF x
      <4> QED
        BY <1>0, <3>1 DEF Set
    <3>4. t.pc = "event" /\ t.at = s.at /\ t.n = s.n + 1 /\ t.name = s.name
      BY <3>2, <3>3
    <3> HIDE DEF s, t
    <3>5. t.n \in 1 .. Len(Valid(r))
      BY <2>0, <2>l, <2>1, <3>4
    <3>6. OnItsWay(r, t)
      BY <1>0, <2>0, <3>4, <3>5 DEF OnItsWay, IsBegun
    <3>7. GoesOn(r, s, t, files[r.dev], files'[r.dev])
      BY <2>0, <2>u, <3>4 DEF GoesOn, Runs, Running
    <3> QED
      BY <3>6, <3>7 DEF MovesOn, Moves, s, t
  <2>2. CASE ~(s.n < Len(Valid(r)))
    <3>1. Goto(r, "match")
      BY <1>2, <2>2 DEF AppendStatus
    <3>2. t.pc = "match" /\ t.at = s.at /\ t.n = s.n /\ t.name = s.name
      BY <1>0, <3>1, GotoKeeps
    <3>3. Valid(r) # <<>> /\ s.n = Len(Valid(r))
      BY <2>0, <2>l, <2>2
    <3> HIDE DEF s, t
    <3>6. OnItsWay(r, t)
      BY <1>0, <2>0, <3>2, <3>3 DEF OnItsWay, IsBegun
    <3>7. GoesOn(r, s, t, files[r.dev], files'[r.dev])
      BY <2>0, <2>u, <3>2 DEF GoesOn, Runs, Running
    <3> QED
      BY <3>6, <3>7 DEF MovesOn, Moves, s, t
  <2> QED
    BY <2>1, <2>2
<1> QED
  BY <1>1, <1>2

\* The steps of writeFile and of the handlers of tests, and faults.
LEMMA FileMoves ==
  ASSUME EventsInv, WayInv, NEW r \in Requests, r.dev \notin mixed,
         \/ Fails(r) \/ SaveAppsStates(r) \/ TestComplete(r) \/ TestStoreArtifact(r)
         \/ TruncateArtifact(r) \/ CopyArtifact(r) \/ WritePartial(r) \/ Rename(r)
  PROVE  MovesOn(r, req[r], req'[r], files[r.dev], files'[r.dev])
<1> DEFINE s == req[r]  t == req'[r]  f == files[r.dev]  g == files'[r.dev]
<1>0. /\ OnItsWay(r, s) /\ IsReq(s) /\ r.dev \in Devices /\ req = [q \in Requests |-> req[q]] /\ Shapes
      /\ r.kind \in Kinds
  BY EventsAssumption DEF WayInv, WayOf, Timed, Mine, EventsInv, Shapes
<1>f. ASSUME Goto(r, "500"), UNCHANGED files, Runs(s)
      PROVE  MovesOn(r, s, t, f, g)
  <2>1. t.pc = "500" /\ t.at = s.at /\ t.name = s.name
    BY <1>0, <1>f, GotoKeeps
  <2>2. IsBegun(s) /\ g = f
    BY <1>f DEF Runs, Running, IsBegun
  <2> HIDE DEF s, t, f, g
  <2>3. OnItsWay(r, t)
    BY <1>0, <2>1, <2>2, WayEnds
  <2>4. GoesOn(r, s, t, f, g)
    BY <1>f, <2>1, <2>2 DEF GoesOn
  <2> QED
    BY <2>3, <2>4 DEF MovesOn, Moves
<1>1. CASE Fails(r)
  BY <1>1, <1>f DEF Fails, FilesUnchanged, Runs
<1>2. CASE SaveAppsStates(r)
  <2> DEFINE x == [req[r] EXCEPT !.pc = "write", !.name = FileName(r)]
  <2>1. s.pc = "sleep" /\ Set(r, x) /\ g = f
    BY <1>2 DEF SaveAppsStates, FilesUnchanged
  <2>2. x.pc = "write" /\ x.at = s.at /\ x.name = FileName(r)
    BY <1>0 DEF IsReq
  <2>3. t = x
    <3> HIDE DEF x
    <3> QED
      BY <1>0, <2>1 DEF Set
  <2>4. r.kind = "states"
    BY <1>0, <2>1 DEF OnItsWay
  <2>5. FileName(r) = <<"apps-states", now>>
    BY <2>4 DEF FileName
  <2>6. FileName(r)[1] = "apps-states"
    BY <2>5
  <2>7. t.pc = "write" /\ t.at = s.at /\ t.name[1] = "apps-states"
    BY <2>2, <2>3, <2>6
  <2> HIDE DEF s, t, f, g
  <2>8. OnItsWay(r, t)
    BY <1>0, <2>4, <2>7 DEF OnItsWay
  <2>9. GoesOn(r, s, t, f, g)
    BY <2>1, <2>7 DEF GoesOn, Runs, Running
  <2> QED
    BY <2>8, <2>9 DEF MovesOn, Moves, s, t, f, g
<1>3. CASE TestComplete(r)
  <2>1. s.pc = "read" /\ UNCHANGED files /\ Runs(s) /\ r.kind = "testComplete" /\ IsBegun(s)
    BY <1>0, <1>3 DEF TestComplete, FilesUnchanged, Runs, Running, OnItsWay, IsBegun
  <2>2. CASE Content(r.dev, s.name) = <<>>
    BY <1>3, <1>f, <2>1, <2>2 DEF TestComplete
  <2>3. CASE Content(r.dev, s.name) # <<>>
    <3>1. Goto(r, "write")
      BY <1>3, <2>3 DEF TestComplete
    <3>2. t.pc = "write" /\ t.at = s.at /\ t.name = s.name
      BY <1>0, <3>1, GotoKeeps
    <3>3. s.name \in DOMAIN f
      BY <2>3 DEF Content
    <3>4. g = f
      BY <2>1
    <3> HIDE DEF s, t, f, g
    <3>5. s.name = <<"tests", r.test>>
      BY <1>0, <2>1 DEF OnItsWay
    <3>6. OnItsWay(r, t)
      BY <1>0, <2>1, <3>2 DEF OnItsWay
    <3>7. GoesOn(r, s, t, f, g)
      BY <2>1, <3>2, <3>3, <3>4, <3>5 DEF GoesOn
    <3> QED
      BY <3>6, <3>7 DEF MovesOn, Moves, s, t, f, g
  <2> QED
    BY <2>2, <2>3
<1>4. CASE TestStoreArtifact(r)
  <2>1. s.pc = "check" /\ UNCHANGED files /\ Runs(s) /\ r.kind = "testArtifact" /\ IsBegun(s)
    BY <1>0, <1>4 DEF TestStoreArtifact, FilesUnchanged, Runs, Running, OnItsWay, IsBegun
  <2>2. CASE Goto(r, "500")
    BY <1>f, <2>1, <2>2
  <2>3. CASE Goto(r, "open")
    <3>1. t.pc = "open" /\ t.at = s.at /\ t.name = s.name
      BY <1>0, <2>3, GotoKeeps
    <3>2. g = f
      BY <2>1
    <3> HIDE DEF s, t, f, g
    <3>3. OnItsWay(r, t)
      BY <1>0, <2>1, <3>1 DEF OnItsWay
    <3>4. GoesOn(r, s, t, f, g)
      BY <2>1, <3>1, <3>2 DEF GoesOn
    <3> QED
      BY <3>3, <3>4 DEF MovesOn, Moves, s, t, f, g
  <2> QED
    BY <1>4, <2>2, <2>3 DEF TestStoreArtifact
<1>7. CASE TruncateArtifact(r)
  <2>1. s.pc = "open" /\ r.kind = "testArtifact" /\ Goto(r, "copy") /\ Put(r.dev, s.name, <<"part">>)
    BY <1>0, <1>7 DEF TruncateArtifact, OnItsWay
  <2>2. t.pc = "copy" /\ t.at = s.at /\ t.name = s.name /\ t.n = s.n
    BY <1>0, <2>1, GotoKeeps
  <2>3. Puts(f, g, s.name, now, <<"part">>)
    BY <1>0, <2>1, PutPuts
  <2> HIDE DEF s, t, f, g
  <2>4. OnItsWay(r, t)
    BY <1>0, <2>1, <2>2 DEF OnItsWay, IsBegun
  <2>5. Writes(r, s, t, f, g, now)
    BY <2>1, <2>2, <2>3 DEF Writes
  <2> QED
    BY <2>4, <2>5 DEF MovesOn, Moves, s, t, f, g
<1>8. CASE CopyArtifact(r)
  <2>1. /\ s.pc = "copy" /\ r.kind = "testArtifact" /\ IsBegun(s)
        /\ Goto(r, "200") /\ Put(r.dev, s.name, <<"whole">>)
    BY <1>0, <1>8 DEF CopyArtifact, OnItsWay, IsBegun
  <2>2. t.pc = "200" /\ t.at = s.at /\ t.name = s.name /\ t.n = s.n
    BY <1>0, <2>1, GotoKeeps
  <2>3. Puts(f, g, s.name, now, <<"whole">>)
    BY <1>0, <2>1, PutPuts
  <2> HIDE DEF s, t, f, g
  <2>4. OnItsWay(r, t)
    BY <1>0, <2>1, <2>2, WayEnds
  <2>5. Writes(r, s, t, f, g, now)
    BY <2>1, <2>2, <2>3 DEF Writes
  <2> QED
    BY <2>4, <2>5 DEF MovesOn, Moves, s, t, f, g
<1>5. CASE WritePartial(r)
  <2>1. s.pc = "write" /\ g = f /\ Goto(r, "rename")
    BY <1>5 DEF WritePartial
  <2>2. t.pc = "rename" /\ t.at = s.at /\ t.name = s.name
    BY <1>0, <2>1, GotoKeeps
  <2> HIDE DEF s, t, f, g
  <2>3. OnItsWay(r, t)
    BY <1>0, <2>1, <2>2 DEF OnItsWay, IsBegun
  <2>4. GoesOn(r, s, t, f, g)
    BY <2>1, <2>2 DEF GoesOn, Runs, Running
  <2> QED
    BY <2>3, <2>4 DEF MovesOn, Moves, s, t, f, g
<1>6. CASE Rename(r)
  <2>1. s.pc = "rename" /\ Runs(s) /\ IsBegun(s) /\ r.kind \in {"states", "info", "testCreate", "testComplete"}
    BY <1>0, <1>6 DEF Rename, Runs, Running, IsBegun, OnItsWay
  <2>2. CASE s.name \in parts[r.dev]
    <3> DEFINE pc == IF r.kind = "states" THEN "match" ELSE "200"
    <3>1. Put(r.dev, s.name, <<r.kind>>) /\ Goto(r, pc)
      BY <1>6, <2>2 DEF Rename
    <3>2. t.pc = pc /\ t.at = s.at /\ t.name = s.name /\ t.n = s.n
      BY <1>0, <3>1, GotoKeeps
    <3>3. Puts(f, g, s.name, now, <<r.kind>>)
      BY <1>0, <3>1, PutPuts
    <3> HIDE DEF s, t, f, g
    <3>4. OnItsWay(r, t)
      BY <1>0, <2>1, <3>2 DEF OnItsWay
    <3>5. Writes(r, s, t, f, g, now)
      BY <2>1, <3>2, <3>3 DEF Writes
    <3> QED
      BY <3>4, <3>5 DEF MovesOn, Moves, s, t, f, g
  <2>3. CASE s.name \notin parts[r.dev]
    BY <1>6, <1>f, <2>1, <2>3 DEF Rename
  <2> QED
    BY <2>2, <2>3
<1> QED
  BY <1>1, <1>2, <1>3, <1>4, <1>5, <1>6, <1>7, <1>8

\* RolloverFiles and the deletion of one file.
LEMMA RolloverMoves ==
  ASSUME EventsInv, WayInv, NEW r \in Requests, r.dev \notin mixed, RolloverFiles(r) \/ DeleteFile(r)
  PROVE  MovesOn(r, req[r], req'[r], files[r.dev], files'[r.dev])
<1> DEFINE s == req[r]  t == req'[r]  f == files[r.dev]  g == files'[r.dev]
<1>0. /\ OnItsWay(r, s) /\ IsReq(s) /\ r.dev \in Devices /\ req = [q \in Requests |-> req[q]] /\ Shapes
      /\ r.kind \in Kinds /\ FilesOK(f) /\ files = [d \in Devices |-> files[d]]
  BY EventsAssumption DEF WayInv, WayOf, Timed, Mine, EventsInv, Shapes
<1>f. ASSUME Goto(r, "500"), UNCHANGED files, Runs(s)
      PROVE  MovesOn(r, s, t, f, g)
  <2>1. t.pc = "500" /\ t.at = s.at /\ t.name = s.name
    BY <1>0, <1>f, GotoKeeps
  <2>2. IsBegun(s) /\ g = f
    BY <1>f DEF Runs, Running, IsBegun
  <2> HIDE DEF s, t, f, g
  <2>3. OnItsWay(r, t)
    BY <1>0, <2>1, <2>2, WayEnds
  <2>4. GoesOn(r, s, t, f, g)
    BY <1>f, <2>1, <2>2 DEF GoesOn
  <2> QED
    BY <2>3, <2>4 DEF MovesOn, Moves
<1>1. CASE RolloverFiles(r)
  <2>1. s.pc = "match" /\ Runs(s) /\ UNCHANGED files /\ r.kind \in {"events", "states"}
    BY <1>0, <1>1 DEF RolloverFiles, FilesUnchanged, Runs, Running, OnItsWay
  <2>2. CASE Goto(r, "500")
    BY <1>f, <2>1, <2>2
  <2>3. ASSUME NEW l \in matchFiles(r.dev, Prefix(r)),
               Set(r, [req[r] EXCEPT !.pc = "delete",
                    !.todo = SubSeq(l, 1, IF Len(l) > MaxFiles THEN Len(l) - MaxFiles ELSE 0)])
        PROVE  MovesOn(r, s, t, f, g)
    <3> DEFINE m == IF Len(l) > MaxFiles THEN Len(l) - MaxFiles ELSE 0
               todo == SubSeq(l, 1, m)
               x == [req[r] EXCEPT !.pc = "delete", !.todo = todo]
    <3>1. Set(r, x)
      BY <2>3
    <3>2. x.pc = "delete" /\ x.at = s.at /\ x.n = s.n /\ x.name = s.name /\ x.todo = todo
      <4> HIDE DEF todo
      <4> QED
        BY <1>0 DEF IsReq
    <3>3. t = x
      <4> HIDE DEF x
      <4> QED
        BY <1>0, <3>1 DEF Set
    <3>4. OldestFirst(l, f, Prefix(r))
      BY <1>0, MatchSorted
    <3>5. \A i \in DOMAIN todo : todo[i][1] = Prefix(r)
      <4> DEFINE D == DOMAIN f  N == Len(l)
      <4>1. l \in Seq(D) /\ \A i \in 1 .. N : l[i][1] = Prefix(r)
        BY <3>4 DEF OldestFirst
      <4>2. N \in Nat /\ MaxFiles \in Nat
        BY <4>1, EventsAssumption
      <4>3. m \in 0 .. N
        <5> HIDE DEF N
        <5>1. \/ N > MaxFiles /\ N - MaxFiles \in 0 .. N
              \/ ~(N > MaxFiles)
          BY <4>2
        <5> QED
          BY <4>2, <5>1 DEF N
      <4> HIDE DEF m, D
      <4>4. \A i \in 1 .. m : i \in 1 .. N /\ todo[i] = l[i]
        BY <4>1, <4>2, <4>3
      <4>5. DOMAIN todo = 1 .. m
        BY <4>1, <4>2, <4>3
      <4> HIDE DEF todo, N
      <4> QED
        BY <4>1, <4>4, <4>5
    <3>6. t.pc = "delete" /\ t.at = s.at /\ t.n = s.n /\ t.name = s.name /\ t.todo = todo
      BY <3>2, <3>3
    <3>7. g = f
      BY <2>1
    <3>8. \E k : /\ OldestFirst(k, f, Prefix(r))
                 /\ t.todo = SubSeq(k, 1, IF Len(k) > MaxFiles THEN Len(k) - MaxFiles ELSE 0)
      BY <3>4, <3>6
    <3> HIDE DEF s, t, f, g, todo, m
    <3>9. OnItsWay(r, t)
      BY <1>0, <2>1, <3>5, <3>6 DEF OnItsWay, IsBegun
    <3>10. GoesOn(r, s, t, f, g)
      BY <2>1, <3>6, <3>7, <3>8 DEF GoesOn
    <3> QED
      BY <3>9, <3>10 DEF MovesOn, Moves
  <2> QED
    BY <1>1, <2>2, <2>3 DEF RolloverFiles
<1>2. CASE DeleteFile(r)
  <2>1. s.pc = "delete" /\ Runs(s) /\ IsBegun(s) /\ r.kind \in {"events", "states"} /\ Listing(s.todo, f)
        /\ \A i \in DOMAIN s.todo : s.todo[i][1] = Prefix(r)
    BY <1>0, <1>2 DEF DeleteFile, Runs, Running, OnItsWay, IsBegun, EventsInv, FailInv, Unhindered
  <2>2. CASE s.todo = <<>>
    <3>1. Goto(r, "200") /\ g = f
      BY <1>2, <2>2 DEF DeleteFile
    <3>2. t.pc = "200" /\ t.at = s.at /\ t.n = s.n /\ t.name = s.name
      BY <1>0, <3>1, GotoKeeps
    <3> HIDE DEF s, t, f, g
    <3>3. OnItsWay(r, t)
      BY <1>0, <2>1, <3>2 DEF OnItsWay, IsBegun
    <3>4. GoesOn(r, s, t, f, g)
      BY <2>1, <3>1, <3>2 DEF GoesOn
    <3> QED
      BY <3>3, <3>4 DEF MovesOn, Moves, s, t, f, g
  <2>3. CASE s.todo # <<>> /\ Head(s.todo) \notin DOMAIN f
    BY <1>2, <1>f, <2>1, <2>3 DEF DeleteFile
  <2>4. CASE s.todo # <<>> /\ Head(s.todo) \in DOMAIN f
    <3> DEFINE h == Head(s.todo)
               x == [req[r] EXCEPT !.todo = Tail(@)]
               k == Restrict(f, DOMAIN f \ {h})
    <3>1. Set(r, x) /\ files' = [files EXCEPT ![r.dev] = k]
      BY <1>2, <2>4 DEF DeleteFile
    <3>2. DOMAIN k = DOMAIN f \ {h} /\ \A n \in DOMAIN k : k[n] = f[n]
      BY DEF Restrict
    <3>3. g = k
      <4> HIDE DEF k
      <4> QED
        BY <1>0, <3>1
    <3>4. x.pc = "delete" /\ x.at = s.at /\ x.n = s.n /\ x.name = s.name /\ x.todo = Tail(s.todo)
      BY <1>0, <2>1 DEF IsReq
    <3>5. t = x
      <4> HIDE DEF x
      <4> QED
        BY <1>0, <3>1 DEF Set
    <3>6. t.pc = "delete" /\ t.at = s.at /\ t.n = s.n /\ t.name = s.name /\ t.todo = Tail(s.todo)
      BY <3>4, <3>5
    <3>7. DOMAIN g = DOMAIN f \ {h} /\ \A n \in DOMAIN g : g[n] = f[n]
      BY <3>2, <3>3
    <3>8. \A i \in DOMAIN Tail(s.todo) : Tail(s.todo)[i][1] = Prefix(r)
      <4> DEFINE D == DOMAIN f  l == s.todo
      <4>1. l \in Seq(D) /\ l # <<>> /\ \A i \in DOMAIN l : l[i][1] = Prefix(r)
        BY <2>1, <2>4 DEF Listing
      <4> HIDE DEF D, l
      <4>2. \A i \in DOMAIN Tail(l) : i + 1 \in DOMAIN l /\ Tail(l)[i] = l[i + 1]
        BY <4>1
      <4>3. \A i \in DOMAIN Tail(l) : Tail(l)[i][1] = Prefix(r)
        BY <4>1, <4>2
      <4> QED
        BY <4>3 DEF l
    <3> HIDE DEF s, t, f, g
    <3>9. OnItsWay(r, t)
      BY <1>0, <2>1, <3>6, <3>8 DEF OnItsWay, IsBegun
    <3>10. Deletes(r, s, t, f, g)
      BY <2>1, <2>4, <3>6, <3>7 DEF Deletes
    <3> QED
      BY <3>9, <3>10 DEF MovesOn, Moves, s, t, f, g
  <2> QED
    BY <2>2, <2>3, <2>4
<1> QED
  BY <1>1, <1>2

\* A step of a request of an unmixed device is one of the steps above.
LEMMA RequestMoves ==
  ASSUME EventsInv, WayInv, NEW r \in Requests, r.dev \notin mixed, RequestStep(r)
  PROVE  MovesOn(r, req[r], req'[r], files[r.dev], files'[r.dev])
BY EventMoves, FileMoves, RolloverMoves DEF RequestStep

\* A request that is taken back keeps its time, its name and its place.
LEMMA FreshFields ==
  ASSUME NEW rq, NEW gone, NEW r \in Requests, IsReq(rq[r])
  PROVE  /\ r \notin gone => Fresh(rq, gone)[r] = rq[r]
         /\ r \in gone => Fresh(rq, gone)[r].pc = "none"
         /\ Fresh(rq, gone)[r].at = rq[r].at /\ Fresh(rq, gone)[r].name = rq[r].name
<1> DEFINE x == [rq[r] EXCEPT !.pc = "none"]
<1>1. x.pc = "none" /\ x.at = rq[r].at /\ x.name = rq[r].name
  BY DEF IsReq
<1>2. Fresh(rq, gone)[r] = IF r \in gone THEN x ELSE rq[r]
  BY DEF Fresh
<1> HIDE DEF x
<1> QED
  BY <1>1, <1>2

\* So it is on its way.
LEMMA FreshWay ==
  ASSUME NEW d, NEW f, NEW rq, NEW gone, NEW time, \A r \in Mine(d) : IsReq(rq[r]), WayOf(d, f, rq, time)
  PROVE  WayOf(d, f, Fresh(rq, gone), time)
<1>0. \A r \in Mine(d) : r \in Requests
  BY DEF Mine
<1>1. Timed(d, f, Fresh(rq, gone), time)
  BY <1>0, FreshFields DEF WayOf, Timed
<1>2. ASSUME NEW r \in Mine(d) PROVE OnItsWay(r, Fresh(rq, gone)[r])
  <2> DEFINE s == rq[r]  t == Fresh(rq, gone)[r]
  <2>1. OnItsWay(r, s) /\ t.name = s.name /\ (t = s \/ t.pc = "none")
    BY <1>0, FreshFields DEF WayOf
  <2> HIDE DEF s, t
  <2>2. CASE t = s
    BY <2>1, <2>2 DEF t
  <2>3. CASE t.pc = "none"
    <3>1. OnItsWay(r, t)
      BY <2>1, <2>3 DEF OnItsWay, IsBegun
    <3> QED
      BY <3>1 DEF t
  <2> QED
    BY <2>1, <2>2, <2>3
<1> QED
  BY <1>1, <1>2 DEF WayOf

\* A device of which nothing has been reported, or since.
LEMMA NothingYet ==
  ASSUME NEW d, NEW f, f = <<>>, NEW rq, \A r \in Mine(d) : rq[r].pc \in {"idle", "none"}
  PROVE  DeviceInv(d, f, rq)
<1>0. DOMAIN f = {}
  OBVIOUS
<1>1. \A r \in Mine(d) : ~IsBegun(rq[r]) /\ ~Runs(rq[r])
  BY DEF IsBegun, Runs, Running
<1>2. OneByOne(d, rq) /\ Written(d, f, rq)
  BY <1>0, <1>1 DEF OneByOne, Written
<1>3. Shown(d, f, rq) /\ Held(d, f, rq) /\ RollsOver(d, f, rq)
  BY DEF Shown, Held, RollsOver, IsSaved
<1>4. InfoKept(d, f, rq) /\ TestsCreated(d, f, rq) /\ TestsKept(d, f, rq)
  BY <1>0 DEF InfoKept, TestsCreated, TestsKept
<1> QED
  BY <1>2, <1>3, <1>4 DEF DeviceInv

\* A step writes files with the present time.
LEMMA StepTimes ==
  ASSUME NEW d, NEW q, NEW rq, NEW rq2, NEW f, NEW g, NEW time, Step(d, q, rq, rq2, f, g, time)
  PROVE  Timed(d, g, rq2, time)
<1>1. /\ q \in Mine(d) /\ \A r \in Mine(d) : r # q => rq2[r] = rq[r]
      /\ rq2[q].at \in Nat /\ rq2[q].at =< time
  BY StepRuns
<1>2. /\ time \in Nat /\ \A r \in Mine(d) : rq[r].at \in Nat /\ rq[r].at =< time
      /\ \A n \in DOMAIN f : f[n].at \in Nat /\ f[n].at =< time
  BY DEF Step, Timed
<1> DEFINE s == rq[q]  t == rq2[q]
<1>3. Moves(q, s, t, f, g, time)
  BY DEF Step
<1> HIDE DEF s, t
<1>4. \A n \in DOMAIN g : g[n].at = time \/ (n \in DOMAIN f /\ g[n] = f[n])
  <2>1. CASE GoesOn(q, s, t, f, g)
    BY <2>1 DEF GoesOn
  <2>2. ASSUME NEW c, NEW data, Puts(f, g, c, time, data)
        PROVE  \A n \in DOMAIN g : g[n].at = time \/ (n \in DOMAIN f /\ g[n] = f[n])
    BY <2>2 DEF Puts
  <2>3. CASE Appends(q, s, t, f, g, time)
    <3>1. \E c, data : Puts(f, g, c, time, data)
      BY <2>3 DEF Appends
    <3> QED
      BY <2>2, <3>1
  <2>4. CASE Writes(q, s, t, f, g, time)
    <3>1. \E c, data : Puts(f, g, c, time, data)
      BY <2>4 DEF Writes
    <3> QED
      BY <2>2, <3>1
  <2>5. CASE Deletes(q, s, t, f, g)
    BY <2>5 DEF Deletes
  <2> QED
    BY <1>3, <2>1, <2>3, <2>4, <2>5 DEF Moves
<1>5. \A n \in DOMAIN g : g[n].at \in Nat /\ g[n].at =< time
  BY <1>2, <1>4
<1> QED
  BY <1>1, <1>2, <1>5 DEF Timed

\* A device whose files no step touches, and whose requests stay or end.
LEMMA Elsewhere ==
  ASSUME NEW d, NEW f, NEW rq, NEW rq2, NEW time, NEW time2 \in Nat, time =< time2,
         EndsUnanswered(d, rq, rq2), WayOf(d, f, rq, time)
  PROVE  WayOf(d, f, rq2, time2)
<1>1. Timed(d, f, rq, time) /\ time \in Nat
  BY DEF WayOf, Timed
<1>2. \A r \in Mine(d) : rq2[r].at = rq[r].at
  BY DEF EndsUnanswered
<1>3. Timed(d, f, rq2, time2)
  BY <1>1, <1>2 DEF Timed
<1>4. ASSUME NEW r \in Mine(d) PROVE OnItsWay(r, rq2[r])
  <2>1. OnItsWay(r, rq[r])
    BY DEF WayOf
  <2>2. CASE rq2[r] = rq[r]
    BY <2>1, <2>2
  <2>3. CASE Runs(rq[r]) /\ rq2[r].pc = "lost" /\ rq2[r].name = rq[r].name
    <3> DEFINE s == rq[r]  t == rq2[r]
    <3>1. OnItsWay(r, s) /\ IsBegun(s) /\ t.pc = "lost" /\ t.name = s.name
      BY <2>1, <2>3 DEF Runs, Running, IsBegun
    <3> HIDE DEF s, t
    <3>2. OnItsWay(r, t)
      BY <3>1 DEF OnItsWay
    <3> QED
      BY <3>2 DEF t
  <2> QED
    BY <2>2, <2>3 DEF EndsUnanswered
<1> QED
  BY <1>3, <1>4 DEF WayOf

\* ... and what it was told.
LEMMA ElsewhereKept ==
  ASSUME NEW d, NEW f, NEW rq, NEW rq2, NEW gone, NEW gone2,
         \A r \in Mine(d) : IsReq(rq[r]) /\ IsReq(rq2[r]) /\ (r \in gone2 <=> r \in gone),
         EndsUnanswered(d, rq, rq2), Good(d, f, rq, gone)
  PROVE  Good(d, f, rq2, gone2)
<1>0. \A r \in Mine(d) : r \in Requests
  BY DEF Mine
<1>1. \A r \in Mine(d) : r \in gone => rq2[r] = rq[r]
  BY DEF EndsUnanswered, Good
<1>2. EndsUnanswered(d, Fresh(rq, gone), Fresh(rq2, gone2))
  <2> SUFFICES ASSUME NEW r \in Mine(d)
               PROVE  \/ Fresh(rq2, gone2)[r] = Fresh(rq, gone)[r]
                      \/ /\ Runs(Fresh(rq, gone)[r]) /\ Fresh(rq2, gone2)[r].pc = "lost"
                         /\ Fresh(rq2, gone2)[r].at = Fresh(rq, gone)[r].at
                         /\ Fresh(rq2, gone2)[r].n = Fresh(rq, gone)[r].n
                         /\ Fresh(rq2, gone2)[r].name = Fresh(rq, gone)[r].name
    BY DEF EndsUnanswered
  <2>1. CASE r \in gone
    BY <1>0, <1>1, <2>1 DEF Fresh
  <2>2. CASE r \notin gone
    <3>1. Fresh(rq, gone)[r] = rq[r] /\ Fresh(rq2, gone2)[r] = rq2[r]
      BY <1>0, <2>2 DEF Fresh
    <3> QED
      BY <3>1 DEF EndsUnanswered
  <2> QED
    BY <2>1, <2>2
<1>3. DeviceInv(d, f, Fresh(rq2, gone2))
  BY <1>2, EndKept DEF Good
<1> QED
  BY <1>1, <1>3 DEF Good

\* A step of a request keeps what its device was told.
LEMMA RequestKept ==
  ASSUME EventsInv, WayInv, KeptInv, NEW q \in Requests, RequestStep(q)
  PROVE  WayInv' /\ KeptInv'
<1>0. q.dev \in Devices
  BY EventsAssumption
<1>1. Only(q)
  BY RequestOnly DEF EventsInv, FailInv
<1>2. /\ now' = now /\ mixed' = mixed /\ void' = void /\ now \in Nat
      /\ \A r \in Requests : r # q => req'[r] = req[r]
      /\ \A d \in Devices : d # q.dev => files'[d] = files[d]
      /\ \A r \in Requests : IsReq(req[r]) /\ IsReq(req'[r])
      /\ Runs(req[q])
  BY <1>1 DEF Only, RestUnchanged, WayInv, EventsInv, Shapes, IsRunning, Runs
<1>3. ASSUME NEW d \in Devices, d \notin mixed
      PROVE  WayOf(d, files'[d], req', now) /\ Good(d, files'[d], req', void)
  <2>1. WayOf(d, files[d], req, now) /\ Good(d, files[d], req, void)
    BY <1>3 DEF WayInv, KeptInv
  <2>i. \A r \in Mine(d) : r \in Requests /\ IsReq(req[r]) /\ IsReq(req'[r])
    BY <1>2 DEF Mine
  <2>2. CASE d # q.dev
    <3>1. EndsUnanswered(d, req, req')
      BY <1>2, <2>2 DEF EndsUnanswered, Mine
    <3>2. files'[d] = files[d] /\ now =< now
      BY <1>2, <2>2
    <3>3. WayOf(d, files[d], req', now)
      BY <1>2, <2>1, <3>1, <3>2, Elsewhere
    <3>4. Good(d, files[d], req', void)
      BY <2>1, <2>i, <3>1, ElsewhereKept
    <3> QED
      BY <3>2, <3>3, <3>4
  <2>3. CASE d = q.dev
    <3> DEFINE rq == Fresh(req, void)  rq2 == Fresh(req', void)
    <3>1. MovesOn(q, req[q], req'[q], files[d], files'[d])
      BY <1>3, <2>3, RequestMoves
    <3>2. Alone(d, q, req, req') /\ q \in Mine(d)
      BY <1>2, <2>3 DEF Alone, Mine
    <3>3. \A r \in Mine(d) : OnItsWay(r, req[r]) /\ OnItsWay(r, req'[r])
      BY <2>1, <3>1, <3>2 DEF WayOf, MovesOn, Alone
    <3>4. FilesOK(files[d]) /\ Timed(d, files[d], req, now)
      BY <2>1 DEF WayOf, EventsInv, Shapes
    <3>5. Step(d, q, req, req', files[d], files'[d], now)
      BY <3>1, <3>2, <3>3, <3>4 DEF Step, MovesOn
    <3>6. WayOf(d, files'[d], req', now)
      BY <3>3, <3>5, StepTimes DEF WayOf
    <3>7. q \notin void
      BY <1>2, <2>1, <3>2 DEF Good
    <3>8. rq[q] = req[q] /\ rq2[q] = req'[q]
      BY <1>2, <3>7, FreshFields
    <3>9. Alone(d, q, rq, rq2)
      BY <1>2, <2>i, <3>2 DEF Alone, Fresh
    <3>10. WayOf(d, files[d], rq, now) /\ WayOf(d, files'[d], rq2, now)
      BY <2>1, <2>i, <3>6, FreshWay
    <3> HIDE DEF rq, rq2
    <3>11. Step(d, q, rq, rq2, files[d], files'[d], now)
      BY <3>1, <3>4, <3>8, <3>9, <3>10 DEF Step, MovesOn, WayOf
    <3>12. DeviceInv(d, files'[d], rq2)
      BY <2>1, <3>11, StepKeeps DEF Good, rq
    <3>13. \A r \in Mine(d) : r \in void => req'[r] = req[r]
      BY <2>i, <3>7, <1>2
    <3> QED
      BY <2>1, <3>6, <3>12, <3>13 DEF Good, rq2
  <2> QED
    BY <2>2, <2>3
<1> QED
  BY <1>2, <1>3 DEF WayInv, KeptInv

\* A request that begins is on its way.
LEMMA BeginKeepsAnswers ==
  ASSUME EventsInv, WayInv, KeptInv, NEW q \in Requests, Begin(q)
  PROVE  WayInv' /\ KeptInv'
<1> DEFINE x == [Idle EXCEPT !.pc = First(q), !.upd = assigned[q.dev], !.tag = TagFor(q),
                            !.at = now, !.name = FileName(q)]
<1>0. q.dev \in Devices /\ q.kind \in Kinds
  BY EventsAssumption
<1>1. /\ req[q].pc = "idle" /\ req' = [req EXCEPT ![q] = x]
      /\ mixed' = IF Active(q.dev) # {} \/ Removing(q.dev) THEN mixed \cup {q.dev} ELSE mixed
      /\ files' = files /\ void' = void /\ now' = now
  BY DEF Begin, Set, FilesUnchanged
<1>2. x.pc = First(q) /\ x.at = now /\ x.n = 1 /\ x.name = FileName(q) /\ IsReq(x)
  BY DEF Idle, IsReq
<1> HIDE DEF x
<1>3. /\ req'[q] = x /\ \A r \in Requests : r # q => req'[r] = req[r]
      /\ \A r \in Requests : IsReq(req[r])
  BY <1>1 DEF EventsInv, Shapes
<1>4. /\ q.kind = "info" => FileName(q) = <<"info", 0>>
      /\ q.kind \in {"testCreate", "testComplete"} => FileName(q) = <<"tests", q.test>>
      /\ q.kind = "testArtifact" => FileName(q) = <<"test-artifacts", q.test>>
      /\ q.kind = "states" => FileName(q) = <<"apps-states", now>>
  BY <1>0 DEF FileName, Kinds
<1>5. q.kind = "states" => FileName(q)[1] = "apps-states"
  BY <1>4
<1>6. OnItsWay(q, x)
  <2>1. First(q) = "event" => q.kind = "events" /\ 1 \in 1 .. Len(Valid(q))
    BY FirstPlaces, ValidSeq
  <2>2. /\ First(q) \notin {"status", "match", "delete", "rename", "open", "copy", "none", "idle"}
        /\ First(q) = "200" => q.kind = "events" /\ Valid(q) = <<>>
        /\ First(q) = "sleep" => q.kind = "states"
        /\ First(q) = "read" => q.kind = "testComplete"
        /\ First(q) = "check" => q.kind = "testArtifact"
        /\ First(q) = "write" => q.kind \in {"info", "testCreate"}
    BY FirstPlaces
  <2> QED
    BY <1>2, <1>4, <1>5, <2>1, <2>2 DEF OnItsWay
<1>7. ASSUME NEW d \in Devices, d \notin mixed'
      PROVE  WayOf(d, files[d], req', now) /\ Good(d, files[d], req', void)
  <2>0. d \notin mixed /\ (d = q.dev => Active(d) = {})
    BY <1>1, <1>7
  <2>1. WayOf(d, files[d], req, now) /\ Good(d, files[d], req, void) /\ now \in Nat
    BY <2>0 DEF WayInv, KeptInv
  <2>i. \A r \in Mine(d) : r \in Requests /\ IsReq(req[r]) /\ IsReq(req'[r])
    BY <1>2, <1>3 DEF Mine
  <2>2. CASE d # q.dev
    <3>1. EndsUnanswered(d, req, req')
      BY <1>3, <2>2 DEF EndsUnanswered, Mine
    <3>2. now =< now
      BY <2>1
    <3>3. WayOf(d, files[d], req', now)
      BY <2>1, <3>1, <3>2, Elsewhere
    <3>4. Good(d, files[d], req', void)
      BY <2>1, <2>i, <3>1, ElsewhereKept
    <3> QED
      BY <3>3, <3>4
  <2>3. CASE d = q.dev
    <3> DEFINE rq == Fresh(req, void)  rq2 == Fresh(req', void)
    <3>1. \A r \in Mine(d) : ~Runs(req[r])
      BY <2>0, <2>3 DEF Active, Mine, Runs
    <3>2. Alone(d, q, req, req') /\ q \in Mine(d)
      BY <1>3, <2>3 DEF Alone, Mine
    <3>3. q \notin void
      BY <1>1, <2>1, <3>2 DEF Good, IsBegun
    <3>4. rq[q] = req[q] /\ rq2[q] = req'[q]
      BY <2>i, <3>2, <3>3, FreshFields
    <3>5. Alone(d, q, rq, rq2)
      BY <2>i, <3>2 DEF Alone, Fresh
    <3>6. \A r \in Mine(d) : ~Runs(rq[r])
      <4> SUFFICES ASSUME NEW r \in Mine(d) PROVE ~Runs(rq[r])
        OBVIOUS
      <4>1. rq[r] = req[r] \/ rq[r].pc = "none"
        BY <2>i, FreshFields
      <4> HIDE DEF rq
      <4> QED
        BY <3>1, <4>1 DEF Runs, Running
    <3>7. Timed(d, files[d], req, now) /\ WayOf(d, files[d], rq, now)
      BY <2>1, <2>i, FreshWay DEF WayOf
    <3> HIDE DEF rq, rq2
    <3>8. BeginsAlone(d, q, rq, rq2, now)
      BY <1>1, <1>2, <1>3, <3>4, <3>5, <3>6 DEF BeginsAlone
    <3>9. Timed(d, files[d], rq, now)
      BY <3>7 DEF WayOf
    <3>10. DeviceInv(d, files[d], rq2)
      BY <2>1, <3>8, <3>9, BeginKept DEF Good, rq
    <3>11. Timed(d, files[d], req', now)
      BY <1>2, <1>3, <2>1, <3>2, <3>7 DEF Timed, Alone
    <3>12. \A r \in Mine(d) : OnItsWay(r, req'[r])
      BY <1>3, <1>6, <2>1, <3>2 DEF WayOf, Alone
    <3>13. \A r \in Mine(d) : r \in void => req'[r] = req[r]
      BY <1>3, <2>i, <3>3
    <3> QED
      BY <2>1, <3>10, <3>11, <3>12, <3>13 DEF Good, WayOf, rq2
  <2> QED
    BY <2>2, <2>3
<1> QED
  BY <1>1, <1>7 DEF WayInv, KeptInv

\* The other actions leave the files of a device that stays alone, or remove all of
\* them, and end its requests at most.
LEMMA OthersKept ==
  ASSUME EventsInv, WayInv, KeptInv,
         \/ UNCHANGED vars \/ ReadState \/ Tick \/ Crash
         \/ \E d \in Devices : \/ DeleteRow(d) \/ RemoveAll(d) \/ RemoveFails(d) \/ UndenyDevice(d)
                               \/ ListStates(d) \/ \E u \in Updates : SetUpdate(d, u)
         \/ \E u \in Updates : DeleteUpdate(u)
  PROVE  WayInv' /\ KeptInv'
<1>0. now \in Nat /\ \A r \in Requests : IsReq(req[r])
  BY DEF WayInv, EventsInv, Shapes
<1>1. now' \in Nat /\ now =< now'
  BY <1>0 DEF vars, ReadState, Tick, Crash, DeleteRow, RemoveAll, RemoveFails, UndenyDevice, ListStates,
              SetUpdate, DeleteUpdate
<1>2. mixed \subseteq mixed'
  BY DEF vars, ReadState, Tick, Crash, DeleteRow, RemoveAll, RemoveFails, UndenyDevice, ListStates,
         SetUpdate, DeleteUpdate
<1>3. ASSUME NEW d \in Devices, d \notin mixed'
      PROVE  \/ files'[d] = files[d] /\ \A r \in Mine(d) : r \in void' <=> r \in void
             \/ /\ files'[d] = <<>> /\ req' = req /\ Removing(d)
                /\ \A r \in Mine(d) : Begun(r) => r \in void'
                /\ \A r \in Mine(d) : r \in void' => r \in void \/ Begun(r)
  <2>1. CASE RemoveAll(d)
    <3>1. files'[d] = <<>> /\ req' = req /\ Removing(d)
      BY <2>1 DEF RemoveAll, EventsInv, Shapes
    <3>2. /\ \A r \in Mine(d) : Begun(r) => r \in void'
          /\ \A r \in Mine(d) : r \in void' => r \in void \/ Begun(r)
      BY <2>1 DEF RemoveAll, Mine
    <3> QED
      BY <3>1, <3>2
  <2>2. ASSUME NEW e \in Devices, e # d, RemoveAll(e)
        PROVE  files'[d] = files[d] /\ \A r \in Mine(d) : r \in void' <=> r \in void
    BY <2>2 DEF RemoveAll, EventsInv, Shapes, Mine
  <2>3. ASSUME NEW e \in Devices, RemoveFails(e)
        PROVE  files'[d] = files[d] /\ void' = void
    BY <1>3, <2>3 DEF RemoveFails, EventsInv, Shapes
  <2>4. CASE \/ UNCHANGED vars \/ ReadState \/ Tick \/ Crash
             \/ \E e \in Devices : \/ DeleteRow(e) \/ UndenyDevice(e)
                                   \/ ListStates(e) \/ \E u \in Updates : SetUpdate(e, u)
             \/ \E u \in Updates : DeleteUpdate(u)
    <3>1. files' = files /\ void' = void
      BY <2>4 DEF vars, ReadState, Tick, Crash, DeleteRow, UndenyDevice, ListStates, SetUpdate,
                  DeleteUpdate, FilesUnchanged
    <3> QED
      BY <3>1
  <2> QED
    BY <2>1, <2>2, <2>3, <2>4
<1>5. ASSUME NEW d \in Devices
      PROVE  EndsUnanswered(d, req, req') /\ \A r \in Mine(d) : IsReq(req[r]) /\ IsReq(req'[r])
  <2>0. \A r \in Mine(d) : r \in Requests /\ IsReq(req[r])
    BY <1>0 DEF Mine
  <2>1. CASE Crash
    <3> SUFFICES ASSUME NEW r \in Mine(d)
                 PROVE  /\ \/ req'[r] = req[r]
                           \/ /\ Runs(req[r]) /\ req'[r].pc = "lost" /\ req'[r].at = req[r].at
                              /\ req'[r].n = req[r].n /\ req'[r].name = req[r].name
                        /\ IsReq(req'[r])
      BY <2>0 DEF EndsUnanswered
    <3>1. /\ req' = [q \in Requests |-> IF req[q].pc \in Running THEN [req[q] EXCEPT !.pc = "lost"] ELSE req[q]]
          /\ r \in Requests /\ IsReq(req[r])
      BY <2>0, <2>1 DEF Crash
    <3>3. CASE req[r].pc \in Running
      <4>1. req'[r] = [req[r] EXCEPT !.pc = "lost"]
        BY <3>1, <3>3
      <4> QED
        BY <3>1, <3>3, <4>1 DEF IsReq, Runs
    <3>4. CASE req[r].pc \notin Running
      BY <3>1, <3>4
    <3> QED
      BY <3>3, <3>4
  <2>2. CASE ~Crash
    <3>1. req' = req
      BY <2>2 DEF vars, ReadState, Tick, DeleteRow, RemoveAll, RemoveFails, UndenyDevice, ListStates,
                  SetUpdate, DeleteUpdate
    <3> QED
      BY <2>0, <3>1 DEF EndsUnanswered
  <2> QED
    BY <2>1, <2>2
<1>6. ASSUME NEW d \in Devices, d \notin mixed'
      PROVE  WayOf(d, files'[d], req', now') /\ Good(d, files'[d], req', void')
  <2>1. WayOf(d, files[d], req, now) /\ Good(d, files[d], req, void) /\ d \notin mixed
    BY <1>2, <1>6 DEF WayInv, KeptInv
  <2>2. EndsUnanswered(d, req, req') /\ \A r \in Mine(d) : IsReq(req[r]) /\ IsReq(req'[r])
    BY <1>5
  <2>3. WayOf(d, files[d], req', now')
    <3> DEFINE time2 == now'
    <3>1. time2 \in Nat /\ now =< time2
      BY <1>1
    <3> HIDE DEF time2
    <3>2. WayOf(d, files[d], req', time2)
      BY <2>1, <2>2, <3>1, Elsewhere
    <3> QED
      BY <3>2 DEF time2
  <2>4. CASE files'[d] = files[d] /\ \A r \in Mine(d) : r \in void' <=> r \in void
    <3> DEFINE gone == void  gone2 == void'
    <3>1. \A r \in Mine(d) : IsReq(req[r]) /\ IsReq(req'[r]) /\ (r \in gone2 <=> r \in gone)
      BY <2>2, <2>4
    <3>2. Good(d, files[d], req, gone)
      BY <2>1
    <3> HIDE DEF gone, gone2
    <3>3. Good(d, files[d], req', gone2)
      BY <2>2, <3>1, <3>2, ElsewhereKept
    <3> QED
      BY <2>3, <2>4, <3>3 DEF gone2
  <2>5. CASE /\ files'[d] = <<>> /\ req' = req /\ Removing(d)
             /\ \A r \in Mine(d) : Begun(r) => r \in void'
             /\ \A r \in Mine(d) : r \in void' => r \in void \/ Begun(r)
    <3>1. \A r \in Mine(d) : r \in Requests /\ r.dev = d /\ ~Runs(req[r])
      <4>1. \A r \in Mine(d) : r \in Requests /\ r.dev = d
        BY DEF Mine
      <4> QED
        BY <2>1, <2>5, <4>1 DEF EventsInv, AloneInv, IsRunning, Runs, Removing
    <3>2. \A r \in Mine(d) : r \in void' => IsBegun(req'[r]) /\ ~Runs(req'[r])
      BY <2>1, <2>5, <3>1 DEF Good, Begun, IsBegun
    <3>3. \A r \in Mine(d) : Fresh(req', void')[r].pc \in {"idle", "none"}
      <4> DEFINE gone2 == void'
      <4> SUFFICES ASSUME NEW r \in Mine(d) PROVE Fresh(req', gone2)[r].pc \in {"idle", "none"}
        OBVIOUS
      <4>1. r \notin gone2 => req'[r].pc \in {"idle", "none"}
        BY <2>5 DEF Begun
      <4> HIDE DEF gone2
      <4>2. \/ r \notin gone2 /\ Fresh(req', gone2)[r] = req'[r]
            \/ Fresh(req', gone2)[r].pc = "none"
        BY <2>2, <3>1, FreshFields
      <4> QED
        BY <4>1, <4>2
    <3>4. DeviceInv(d, files'[d], Fresh(req', void'))
      <4> DEFINE rq == Fresh(req', void')  g == files'[d]
      <4>1. g = <<>> /\ \A r \in Mine(d) : rq[r].pc \in {"idle", "none"}
        BY <2>5, <3>3
      <4> HIDE DEF rq, g
      <4>2. DeviceInv(d, g, rq)
        BY <4>1, NothingYet
      <4> QED
        BY <4>2 DEF rq, g
    <3>5. WayOf(d, files'[d], req', now')
      <4>1. DOMAIN files'[d] = {}
        BY <2>5
      <4> QED
        BY <2>3, <4>1 DEF WayOf, Timed
    <3> QED
      BY <3>2, <3>4, <3>5 DEF Good
  <2> QED
    BY <1>3, <1>6, <2>4, <2>5
<1> QED
  BY <1>1, <1>6 DEF WayInv, KeptInv

\* The requests of a device are on their way, and keep what it was told.
THEOREM AnswersInvariant == Spec => [](EventsInv /\ WayInv /\ KeptInv)
<1>1. Init => WayInv /\ KeptInv
  <2> SUFFICES ASSUME Init PROVE WayInv /\ KeptInv
    OBVIOUS
  <2>1. PICK w \in Workloads :
          req = [r \in Requests |-> IF r \in w THEN Idle ELSE [Idle EXCEPT !.pc = "none"]]
    BY DEF Init
  <2>2. \A r \in Requests : req[r].pc \in {"idle", "none"} /\ req[r].at = 0 /\ req[r].name = <<"none">>
    BY <2>1 DEF Idle
  <2>3. now = 0 /\ \A d \in Devices : files[d] = <<>> /\ DOMAIN files[d] = {}
    BY DEF Init
  <2>4. <<"none">>[1] = "none"
    OBVIOUS
  <2>5. \A r \in Requests : OnItsWay(r, req[r])
    BY <2>2, <2>4 DEF OnItsWay, IsBegun
  <2>6. ASSUME NEW d \in Devices PROVE WayOf(d, files[d], req, now) /\ Good(d, files[d], req, void)
    <3>1. Timed(d, files[d], req, now)
      BY <2>2, <2>3 DEF Timed, Mine
    <3>2. void = {} /\ \A r \in Mine(d) : r \in Requests
      BY DEF Init, Mine
    <3>3. \A r \in Mine(d) : Fresh(req, void)[r].pc \in {"idle", "none"}
      BY <2>2, <3>2 DEF Fresh
    <3>4. DeviceInv(d, files[d], Fresh(req, void))
      BY <2>3, <3>3, NothingYet
    <3> QED
      BY <2>5, <3>1, <3>2, <3>4 DEF Good, WayOf
  <2> QED
    BY <2>3, <2>6 DEF WayInv, KeptInv
<1>2. EventsInv /\ WayInv /\ KeptInv /\ [Next]_vars => WayInv' /\ KeptInv'
  <2> SUFFICES ASSUME EventsInv, WayInv, KeptInv, [Next]_vars
               PROVE  WayInv' /\ KeptInv'
    OBVIOUS
  <2>1. CASE \E r \in Requests : RequestStep(r)
    BY <2>1, RequestKept
  <2>2. CASE \E r \in Requests : Begin(r)
    BY <2>2, BeginKeepsAnswers
  <2>3. CASE \/ UNCHANGED vars \/ ReadState \/ Tick \/ Crash
             \/ \E d \in Devices : \/ DeleteRow(d) \/ RemoveAll(d) \/ RemoveFails(d) \/ UndenyDevice(d)
                                   \/ ListStates(d) \/ \E u \in Updates : SetUpdate(d, u)
             \/ \E u \in Updates : DeleteUpdate(u)
    BY <2>3, OthersKept
  <2> QED
    BY <2>1, <2>2, <2>3 DEF Next, RequestStep
<1> QED
  BY <1>1, <1>2, EventsInvariant, PTL DEF Spec

-----------------------------------------------------------------------------
(* The logs *)

\* A log that grows keeps its lines at their places.
LEMMA PlacesStay ==
  ASSUME NEW S, NEW lines \in Seq(S), NEW x \in S, NEW r, NEW m \in Nat, NEW at, PlacedAt(lines, r, m, at)
  PROVE  /\ PlacedAt(Append(lines, x), r, m, at)
         /\ EndsAt(lines, r, m, at) /\ x.uuid # r.dev => EndsAt(Append(lines, x), r, m, at)
<1> DEFINE L == Append(lines, x)  N == Len(lines)
<1>1. /\ N \in Nat /\ DOMAIN lines = 1 .. N /\ DOMAIN L = 1 .. N + 1
      /\ L[N + 1] = x /\ \A k \in 1 .. N : L[k] = lines[k]
  OBVIOUS
<1> HIDE DEF L, N
<1>2. at \in [1 .. m -> 1 .. N]
  BY <1>1 DEF PlacedAt
<1>3. \A k \in 1 .. N + 1 : k \in 1 .. N \/ k = N + 1
  BY <1>1
<1>4. \A k \in 1 .. N : k \in 1 .. N + 1
  BY <1>1
<1>5. PlacedAt(L, r, m, at)
  <2>1. at \in [1 .. m -> DOMAIN L]
    BY <1>1, <1>2, <1>4
  <2>2. \A i \in 1 .. m : L[at[i]] = StatusLine(r, Valid(r)[i])
    BY <1>1, <1>2 DEF PlacedAt
  <2>3. \A i, j \in 1 .. m : i < j => at[i] < at[j]
    BY DEF PlacedAt
  <2>4. ASSUME NEW i \in 1 .. m, NEW k \in DOMAIN L, i > 1, at[i - 1] < k, k < at[i]
        PROVE  L[k].uuid # r.dev
    <3>1. k \in 1 .. N
      BY <1>1, <1>2, <2>4
    <3>2. lines[k].uuid # r.dev
      BY <1>1, <2>4, <3>1 DEF PlacedAt
    <3> QED
      BY <1>1, <3>1, <3>2
  <2> QED
    BY <2>1, <2>2, <2>3, <2>4 DEF PlacedAt
<1>6. ASSUME EndsAt(lines, r, m, at), x.uuid # r.dev
      PROVE  EndsAt(L, r, m, at)
  BY <1>1, <1>3, <1>6 DEF EndsAt
<1> QED
  BY <1>5, <1>6 DEF L

\* The next status goes behind the ones before.
LEMMA NextPlace ==
  ASSUME NEW S, NEW lines \in Seq(S), NEW r, NEW m \in Nat, m > 0, StatusLine(r, Valid(r)[m]) \in S,
         NEW at, PlacedAt(lines, r, m - 1, at), EndsAt(lines, r, m - 1, at)
  PROVE  \E p : /\ PlacedAt(Append(lines, StatusLine(r, Valid(r)[m])), r, m, p)
                /\ EndsAt(Append(lines, StatusLine(r, Valid(r)[m])), r, m, p)
<1> DEFINE x == StatusLine(r, Valid(r)[m])
           L == Append(lines, x)  N == Len(lines)
           p == [i \in 1 .. m |-> IF i = m THEN N + 1 ELSE at[i]]
<1>1. /\ N \in Nat /\ DOMAIN lines = 1 .. N /\ DOMAIN L = 1 .. N + 1
      /\ L[N + 1] = x /\ \A k \in 1 .. N : L[k] = lines[k]
  <2> HIDE DEF x
  <2> QED
    BY DEF x
<1> HIDE DEF L, N
<1>2. at \in [1 .. m - 1 -> 1 .. N]
  BY <1>1 DEF PlacedAt
<1>3. /\ \A i \in 1 .. m : i = m \/ i \in 1 .. m - 1
      /\ m \in 1 .. m /\ \A i \in 1 .. m - 1 : i \in 1 .. m /\ i < m
  OBVIOUS
<1>4. /\ p[m] = N + 1 /\ \A i \in 1 .. m - 1 : p[i] = at[i] /\ p[i] \in 1 .. N /\ p[i] < N + 1
      /\ DOMAIN p = 1 .. m
  BY <1>1, <1>2, <1>3
<1>5. p \in [1 .. m -> DOMAIN L]
  BY <1>1, <1>2, <1>3
<1> HIDE DEF p
<1>6. \A i \in 1 .. m : L[p[i]] = StatusLine(r, Valid(r)[i])
  <2> SUFFICES ASSUME NEW i \in 1 .. m PROVE L[p[i]] = StatusLine(r, Valid(r)[i])
    OBVIOUS
  <2>1. CASE i = m
    BY <1>1, <1>4, <2>1
  <2>2. CASE i \in 1 .. m - 1
    <3>1. lines[at[i]] = StatusLine(r, Valid(r)[i])
      BY <2>2 DEF PlacedAt
    <3> QED
      BY <1>1, <1>4, <2>2, <3>1
  <2> QED
    BY <1>3, <2>1, <2>2
<1>7. \A i, j \in 1 .. m : i < j => p[i] < p[j]
  <2> SUFFICES ASSUME NEW i \in 1 .. m, NEW j \in 1 .. m, i < j PROVE p[i] < p[j]
    OBVIOUS
  <2>1. i \in 1 .. m - 1
    OBVIOUS
  <2>2. CASE j = m
    BY <1>4, <2>1, <2>2
  <2>3. CASE j \in 1 .. m - 1
    BY <1>4, <2>1, <2>3 DEF PlacedAt
  <2> QED
    BY <1>3, <2>2, <2>3
<1>8. ASSUME NEW i \in 1 .. m, NEW k \in DOMAIN L, i > 1, p[i - 1] < k, k < p[i]
      PROVE  L[k].uuid # r.dev
  <2>1. i - 1 \in 1 .. m - 1 /\ p[i - 1] = at[i - 1]
    <3>1. i - 1 \in 1 .. m - 1
      BY <1>8
    <3> QED
      BY <1>4, <3>1
  <2>2. k \in 1 .. N
    <3>1. p[i] =< N + 1 /\ p[i] \in Nat
      BY <1>1, <1>3, <1>4
    <3> QED
      BY <1>1, <1>8, <3>1
  <2>3. lines[k].uuid # r.dev
    <3>1. CASE i = m
      BY <1>1, <1>8, <2>1, <2>2, <3>1 DEF EndsAt
    <3>2. CASE i \in 1 .. m - 1
      BY <1>1, <1>4, <1>8, <2>1, <2>2, <3>2 DEF PlacedAt
    <3> QED
      BY <1>3, <3>1, <3>2
  <2> QED
    BY <1>1, <2>2, <2>3
<1>9. PlacedAt(L, r, m, p)
  BY <1>5, <1>6, <1>7, <1>8 DEF PlacedAt
<1>10. EndsAt(L, r, m, p)
  BY <1>1, <1>4 DEF EndsAt
<1> QED
  BY <1>9, <1>10 DEF L

\* A line on another request's log.
LEMMA LoggedStays ==
  ASSUME NEW S, NEW lines \in Seq(S), NEW x \in S, NEW r \in Requests, r.kind = "events", NEW s,
         s.n \in Nat, AtEvent(r, s), s.pc \in {"event", "status"} => x.uuid # r.dev, Logged(lines, r, s)
  PROVE  Logged(Append(lines, x), r, s)
<1>1. Len(Valid(r)) \in Nat
  BY ValidSeq
<1>2. ASSUME s.pc \in {"event", "status"}
      PROVE  \E at : PlacedAt(Append(lines, x), r, s.n - 1, at) /\ EndsAt(Append(lines, x), r, s.n - 1, at)
  <2> DEFINE m == s.n - 1
  <2>1. m \in Nat
    BY <1>1, <1>2 DEF AtEvent
  <2>2. PICK at : PlacedAt(lines, r, m, at) /\ EndsAt(lines, r, m, at)
    BY <1>2 DEF Logged
  <2> HIDE DEF m
  <2>3. PlacedAt(Append(lines, x), r, m, at) /\ EndsAt(Append(lines, x), r, m, at)
    BY <1>2, <2>1, <2>2, PlacesStay
  <2> QED
    BY <2>3 DEF m
<1>3. ASSUME s.pc \in {"match", "delete", "200"}
      PROVE  \E at : PlacedAt(Append(lines, x), r, Len(Valid(r)), at)
  <2> DEFINE m == Len(Valid(r))
  <2>1. PICK at : PlacedAt(lines, r, m, at)
    BY <1>3 DEF Logged
  <2>2. m \in Nat
    BY <1>1
  <2> HIDE DEF m
  <2>3. PlacedAt(Append(lines, x), r, m, at)
    BY <2>1, <2>2, PlacesStay
  <2> QED
    BY <2>3 DEF m
<1> QED
  BY <1>2, <1>3 DEF Logged

\* A request is at one of its events, whatever its device's other requests do.
LEMMA AtEventKept ==
  ASSUME EventsInv, \A r \in Requests : AtEvent(r, req[r]), [Next]_vars
  PROVE  \A r \in Requests : AtEvent(r, req'[r])
<1>r. Shapes /\ req = [r \in Requests |-> req[r]] /\ \A r \in Requests : IsReq(req[r])
  BY DEF EventsInv, Shapes
<1>1. ASSUME NEW q \in Requests, Begin(q)
      PROVE  AtEvent(q, req'[q]) /\ \A r \in Requests : r # q => req'[r] = req[r]
  <2> DEFINE x == [Idle EXCEPT !.pc = First(q), !.upd = assigned[q.dev], !.tag = TagFor(q),
                            !.at = now, !.name = FileName(q)]
  <2>1. req' = [req EXCEPT ![q] = x]
    BY <1>1 DEF Begin, Set
  <2>2. x.pc = First(q) /\ x.n = 1
    BY DEF Idle
  <2> HIDE DEF x
  <2>3. req'[q] = x /\ \A r \in Requests : r # q => req'[r] = req[r]
    BY <1>r, <2>1
  <2>4. First(q) # "status" /\ (First(q) = "event" => q.kind = "events" /\ Valid(q) # <<>>)
    BY FirstPlaces
  <2>5. q.kind = "events" /\ Valid(q) # <<>> => 1 \in 1 .. Len(Valid(q))
    BY ValidSeq
  <2> QED
    BY <2>2, <2>3, <2>4, <2>5 DEF AtEvent
<1>2. ASSUME NEW q \in Requests, RequestStep(q)
      PROVE  AtEvent(q, req'[q]) /\ \A r \in Requests : r # q => req'[r] = req[r]
  <2>0. Only(q)
    BY <1>2, RequestOnly DEF EventsInv, FailInv
  <2>1. \A r \in Requests : r # q => req'[r] = req[r]
    BY <2>0 DEF Only
  <2>2. CASE AppendEvent(q)
    <3> DEFINE x == [req[q] EXCEPT !.pc = "status", !.at = now]
    <3>1. Set(q, x) /\ req[q].pc = "event"
      BY <2>2 DEF AppendEvent
    <3>2. x.n = req[q].n /\ IsReq(x) /\ x.upd = req[q].upd /\ x.tag = req[q].tag
      BY <1>r DEF IsReq
    <3> HIDE DEF x
    <3>3. req'[q] = x
      BY <1>r, <3>1, <3>2, ReqFields
    <3> QED
      BY <2>1, <3>1, <3>2, <3>3 DEF AtEvent
  <2>3. CASE AppendStatus(q)
    <3>0. q.kind = "events" /\ req[q].n \in 1 .. Len(Valid(q))
      BY <2>3 DEF AppendStatus, AtEvent
    <3>l. Len(Valid(q)) \in Nat
      BY <3>0, ValidSeq
    <3>1. CASE req[q].n < Len(Valid(q))
      <4> DEFINE x == [req[q] EXCEPT !.pc = "event", !.n = @ + 1]
      <4>1. Set(q, x)
        BY <2>3, <3>1 DEF AppendStatus
      <4>2. x.n = req[q].n + 1 /\ IsReq(x) /\ x.upd = req[q].upd /\ x.tag = req[q].tag
        BY <1>r DEF IsReq
      <4> HIDE DEF x
      <4>3. req'[q] = x
        BY <1>r, <4>1, <4>2, ReqFields
      <4>4. x.n \in 1 .. Len(Valid(q))
        BY <3>0, <3>l, <3>1, <4>2
      <4> QED
        BY <2>1, <3>0, <4>3, <4>4 DEF AtEvent
    <3>2. CASE ~(req[q].n < Len(Valid(q)))
      <4>1. Goto(q, "match")
        BY <2>3, <3>2 DEF AppendStatus
      <4>2. req'[q].pc = "match"
        BY <1>r, <4>1, GotoFields
      <4> QED
        BY <2>1, <4>2 DEF AtEvent
    <3> QED
      BY <3>1, <3>2
  <2>4. CASE SaveAppsStates(q)
    <3> DEFINE x == [req[q] EXCEPT !.pc = "write", !.name = FileName(q)]
    <3>1. Set(q, x)
      BY <2>4 DEF SaveAppsStates
    <3>2. x.pc = "write" /\ IsReq(x) /\ x.upd = req[q].upd /\ x.tag = req[q].tag
      BY <1>r DEF IsReq
    <3> HIDE DEF x
    <3>3. req'[q] = x
      BY <1>r, <3>1, <3>2, ReqFields
    <3> QED
      BY <2>1, <3>2, <3>3 DEF AtEvent
  <2>5. CASE DeleteFile(q) /\ Set(q, [req[q] EXCEPT !.todo = Tail(@)])
    <3> DEFINE x == [req[q] EXCEPT !.todo = Tail(@)]
    <3>1. Set(q, x) /\ req[q].pc = "delete"
      BY <2>5 DEF DeleteFile
    <3>2. x.pc = req[q].pc /\ IsReq(x) /\ x.upd = req[q].upd /\ x.tag = req[q].tag
      BY <1>r DEF IsReq
    <3> HIDE DEF x
    <3>3. req'[q] = x
      BY <1>r, <3>1, <3>2, ReqFields
    <3> QED
      BY <2>1, <3>1, <3>2, <3>3 DEF AtEvent
  <2>6. ASSUME NEW l, RolloverFiles(q), Set(q, [req[q] EXCEPT !.pc = "delete", !.todo = l])
        PROVE  AtEvent(q, req'[q])
    <3> DEFINE x == [req[q] EXCEPT !.pc = "delete", !.todo = l]
    <3>1. Set(q, x)
      BY <2>6
    <3>2. x.pc = "delete" /\ IsReq(x) /\ x.upd = req[q].upd /\ x.tag = req[q].tag
      BY <1>r DEF IsReq
    <3> HIDE DEF x
    <3>3. req'[q] = x
      BY <1>r, <3>1, <3>2, ReqFields
    <3> QED
      BY <3>2, <3>3 DEF AtEvent
  <2>7. ASSUME NEW pc \in {"500", "200", "write", "rename", "open", "copy", "match"}, Goto(q, pc)
        PROVE  AtEvent(q, req'[q])
    <3>1. req'[q].pc = pc
      BY <1>r, <2>7, GotoFields
    <3> QED
      BY <3>1 DEF AtEvent
  <2>8. CASE \/ Fails(q) \/ TestComplete(q) \/ TestStoreArtifact(q) \/ TruncateArtifact(q) \/ CopyArtifact(q)
             \/ WritePartial(q) \/ Rename(q)
    BY <2>1, <2>7, <2>8 DEF Fails, TestComplete, TestStoreArtifact, TruncateArtifact, CopyArtifact,
            WritePartial, Rename
  <2>9. CASE RolloverFiles(q)
    BY <2>1, <2>6, <2>7, <2>9 DEF RolloverFiles
  <2>10. CASE DeleteFile(q)
    BY <2>1, <2>5, <2>7, <2>10 DEF DeleteFile
  <2> QED
    BY <1>2, <2>2, <2>3, <2>4, <2>8, <2>9, <2>10 DEF RequestStep
<1>3. CASE Crash
  <2> SUFFICES ASSUME NEW r \in Requests PROVE AtEvent(r, req'[r])
    OBVIOUS
  <2>1. req'[r] = IF req[r].pc \in Running THEN [req[r] EXCEPT !.pc = "lost"] ELSE req[r]
    BY <1>3 DEF Crash
  <2>2. CASE req[r].pc \in Running
    <3>1. req'[r] = [req[r] EXCEPT !.pc = "lost"] /\ IsReq(req[r])
      BY <1>r, <2>1, <2>2
    <3>2. req'[r].pc = "lost"
      BY <3>1 DEF IsReq
    <3> QED
      BY <3>2 DEF AtEvent
  <2>3. CASE req[r].pc \notin Running
    BY <2>1, <2>3
  <2> QED
    BY <2>2, <2>3
<1>4. CASE req' = req
  BY <1>4
<1>5. ASSUME \/ UNCHANGED vars \/ ReadState \/ Tick
             \/ \E d \in Devices : \/ DeleteRow(d) \/ RemoveAll(d) \/ RemoveFails(d) \/ UndenyDevice(d) \/ ListStates(d)
                                  \/ \E u \in Updates : SetUpdate(d, u)
             \/ \E u \in Updates : DeleteUpdate(u)
      PROVE  req' = req
  BY <1>5 DEF vars, ReadState, Tick, DeleteRow, RemoveAll, RemoveFails, UndenyDevice, ListStates, SetUpdate,
          DeleteUpdate
<1>6. CASE \E q \in Requests : Begin(q) \/ RequestStep(q)
  BY <1>1, <1>2, <1>6
<1> QED
  BY <1>3, <1>4, <1>5, <1>6 DEF Next, RequestStep

\* A status goes to the end of the log, and no other request of the device runs.
LEMMA StatusPlaced ==
  ASSUME EventsInv, WayInv, PlacesInv, NEW q \in Requests, AppendStatus(q)
  PROVE  /\ \A u \in exists : log'[u] \in Seq(ReportLines)
         /\ \A r \in Requests : r.kind = "events" /\ r.dev \notin mixed /\ Reports(req[r]) /\ req[r].upd \in exists
              => Logged(log'[req[r].upd], r, req'[r])
<1> DEFINE x == StatusLine(q, Event(q))
           v == req[q].upd
<1>0. Only(q)
  BY RequestOnly DEF EventsInv, FailInv, RequestStep
<1>1. /\ \A r \in Requests : r # q => req'[r] = req[r]
      /\ \A u \in Updates : u # v => log'[u] = log[u]
      /\ exists \subseteq Updates /\ req[q].pc = "status" /\ Runs(req[q])
      /\ \A r \in Requests : req[r].n \in Nat
      /\ q.kind = "events" /\ req[q].n \in 1 .. Len(Valid(q))
  BY <1>0 DEF Only, EventsInv, Shapes, IsReq, AppendStatus, Runs, Running, PlacesInv, AtEvent
<1>2. Len(Valid(q)) \in Nat /\ DOMAIN Valid(q) = 1 .. Len(Valid(q))
  BY <1>1, ValidSeq
<1>3. x \in ReportLines
  BY <1>1, <1>2 DEF ReportLines, Event
<1>n. ~Reports(req[q]) => log' = log
  BY DEF AppendStatus
<1>4. v \in exists /\ Reports(req[q]) => log'[v] = Append(log[v], x) /\ log[v] \in Seq(ReportLines)
  <2>1. SUFFICES ASSUME v \in exists, Reports(req[q]) PROVE log'[v] = Append(log[v], x) /\ log[v] \in Seq(ReportLines)
    OBVIOUS
  <2>2. log[v] \in Seq(ReportLines) /\ v \in Updates /\ log = [u \in Updates |-> log[u]]
    BY <1>1, <2>1 DEF PlacesInv, EventsInv, Shapes
  <2>3. log[v] # NoLog
    BY <2>2, LogAssumption DEF ReportLines
  <2>4. log' = [log EXCEPT ![v] = Append(log[v], x)]
    BY <2>1, <2>2, <2>3 DEF AppendStatus
  <2> HIDE DEF x, v
  <2> QED
    BY <2>2, <2>4
<1>u. x.uuid = q.dev
  BY DEF StatusLine
<1>e. x = StatusLine(q, Valid(q)[req[q].n])
  BY DEF Event
<1> HIDE DEF x
<1>5. ASSUME NEW u \in exists PROVE log'[u] \in Seq(ReportLines)
  <2>1. CASE u = v /\ Reports(req[q])
    <3> DEFINE l == log[v]
    <3>1. l \in Seq(ReportLines) /\ log'[v] = Append(l, x)
      BY <1>4, <2>1
    <3> HIDE DEF l, v
    <3> QED
      BY <1>3, <2>1, <3>1
  <2>2. CASE u # v \/ ~Reports(req[q])
    BY <1>1, <1>n, <2>2 DEF PlacesInv
  <2> QED
    BY <2>1, <2>2
<1>6. ASSUME NEW r \in Requests, r.kind = "events", r.dev \notin mixed, Reports(req[r]), req[r].upd \in exists
      PROVE  Logged(log'[req[r].upd], r, req'[r])
  <2> DEFINE s == req[r]  l == log[req[r].upd]
  <2>0. Logged(l, r, s) /\ AtEvent(r, s) /\ s.n \in Nat
    BY <1>1, <1>6 DEF PlacesInv
  <2>1. CASE r # q
    <3>1. req'[r] = s
      BY <1>1, <2>1
    <3>2. CASE req[r].upd # v \/ ~Reports(req[q])
      BY <1>1, <1>6, <1>n, <2>0, <3>1, <3>2
    <3>3. CASE req[r].upd = v /\ Reports(req[q])
      <4>1. log'[req[r].upd] = Append(l, x) /\ l \in Seq(ReportLines)
        BY <1>4, <1>6, <3>3
      <4>2. s.pc \in {"event", "status"} => x.uuid # r.dev
        <5>1. SUFFICES ASSUME s.pc \in {"event", "status"}, q.dev = r.dev PROVE FALSE
          BY <1>u
        <5>2. IsRunning(r) /\ IsRunning(q)
          BY <1>1, <5>1 DEF IsRunning, Running
        <5> QED
          BY <1>6, <2>1, <5>1, <5>2 DEF EventsInv, AloneInv
      <4> HIDE DEF s, l
      <4>3. Logged(Append(l, x), r, s)
        BY <1>3, <1>6, <2>0, <4>1, <4>2, LoggedStays
      <4> QED
        BY <3>1, <4>1, <4>3 DEF s
    <3> QED
      BY <3>2, <3>3
  <2>2. CASE r = q
    <3> DEFINE m == req[q].n  t == req'[q]
    <3>1. log'[v] = Append(l, x) /\ l \in Seq(ReportLines)
      BY <1>4, <1>6, <2>2
    <3>2. PICK at : PlacedAt(l, q, m - 1, at) /\ EndsAt(l, q, m - 1, at)
      BY <1>1, <2>0, <2>2 DEF Logged
    <3>3. m \in Nat /\ m > 0 /\ StatusLine(q, Valid(q)[m]) \in ReportLines
      BY <1>1, <1>2, <1>3, <1>e
    <3> HIDE DEF l
    <3>4. PICK p : PlacedAt(Append(l, x), q, m, p) /\ EndsAt(Append(l, x), q, m, p)
      <4> HIDE DEF m
      <4>1. \E p : /\ PlacedAt(Append(l, StatusLine(q, Valid(q)[m])), q, m, p)
                   /\ EndsAt(Append(l, StatusLine(q, Valid(q)[m])), q, m, p)
        BY <3>1, <3>2, <3>3, NextPlace
      <4> QED
        BY <1>e, <4>1 DEF m
    <3>5. \/ t.pc = "event" /\ t.n = m + 1
          \/ t.pc = "match" /\ m = Len(Valid(q))
      <4>1. MovesOn(q, req[q], req'[q], files[q.dev], files'[q.dev])
        BY <1>6, <2>2, EventMoves
      <4>2. OnItsWay(q, t) /\ (t.pc = "event" \/ t.pc = "match")
            /\ (t.pc = "event" => t.n = m + 1) /\ (t.pc = "match" => t.n = m)
        <5>1. Shapes
          BY DEF EventsInv
        <5>2. CASE m < Len(Valid(q))
          <6> DEFINE y == [req[q] EXCEPT !.pc = "event", !.n = @ + 1]
          <6>1. Set(q, y)
            BY <5>2 DEF AppendStatus
          <6>2. y.pc = "event" /\ y.n = m + 1 /\ IsReq(y) /\ y.upd = req[q].upd /\ y.tag = req[q].tag
            BY <5>1 DEF Shapes, IsReq
          <6> HIDE DEF y
          <6>3. t = y
            BY <5>1, <6>1, <6>2, ReqFields
          <6> QED
            BY <4>1, <6>2, <6>3 DEF MovesOn
        <5>3. CASE ~(m < Len(Valid(q)))
          <6>1. Goto(q, "match")
            BY <5>3 DEF AppendStatus
          <6> QED
            BY <4>1, <5>1, <6>1, GotoKeeps DEF MovesOn
        <5> QED
          BY <5>2, <5>3
      <4>3. Valid(q) # <<>>
        BY <1>1, <1>2
      <4> HIDE DEF t, m
      <4>4. t.pc = "match" => t.n = Len(Valid(q))
        BY <1>1, <4>2, <4>3 DEF OnItsWay
      <4> QED
        BY <4>2, <4>4
    <3> HIDE DEF t, m
    <3>6. CASE t.pc = "event" /\ t.n = m + 1
      <4>1. t.n - 1 = m
        BY <3>3, <3>6
      <4>2. Logged(Append(l, x), q, t)
        BY <3>4, <3>6, <4>1 DEF Logged
      <4> QED
        BY <2>2, <3>1, <4>2 DEF t
    <3>7. CASE t.pc = "match" /\ m = Len(Valid(q))
      <4>1. Logged(Append(l, x), q, t)
        BY <3>4, <3>7 DEF Logged
      <4> QED
        BY <2>2, <3>1, <4>1 DEF t
    <3> QED
      BY <3>5, <3>6, <3>7
  <2> QED
    BY <2>1, <2>2
<1> QED
  BY <1>5, <1>6

\* The other steps of a request leave its statuses where they are.
LEMMA LoggedOn ==
  ASSUME NEW q, q.kind = "events", NEW s, NEW t, NEW f, NEW g, NEW l, Moves(q, s, t, f, g, now), OnItsWay(q, s),
         s.pc = "status" => t.pc = "500", Logged(l, q, s)
  PROVE  Logged(l, q, t)
<1>1. /\ t.pc \in {"event", "status"} => s.pc \in {"event", "status"} /\ t.n = s.n
      /\ t.pc \in {"match", "delete", "200"} => s.pc \in {"match", "delete"}
  <2>1. CASE GoesOn(q, s, t, f, g)
    BY <2>1 DEF GoesOn
  <2>2. CASE Appends(q, s, t, f, g, now)
    BY <2>2 DEF Appends
  <2>3. CASE Writes(q, s, t, f, g, now)
    BY <2>3 DEF Writes, OnItsWay
  <2>4. CASE Deletes(q, s, t, f, g)
    BY <2>4 DEF Deletes
  <2> QED
    BY <2>1, <2>2, <2>3, <2>4 DEF Moves
<1> QED
  BY <1>1 DEF Logged

\* A request that has reported nothing yet.
LEMMA NothingLogged ==
  ASSUME NEW r, NEW l, NEW s, s.pc \in {"event", "status"} => s.n = 1,
         s.pc \in {"match", "delete", "200"} => Len(Valid(r)) = 0
  PROVE  Logged(l, r, s)
<1> DEFINE at == [i \in 1 .. 0 |-> i]
<1>1. PlacedAt(l, r, 0, at) /\ EndsAt(l, r, 0, at)
  BY DEF PlacedAt, EndsAt
<1> HIDE DEF at
<1>2. s.pc \in {"event", "status"} => s.n - 1 = 0
  OBVIOUS
<1> QED
  BY <1>1, <1>2 DEF Logged

\* Statuses stay at their places in the logs, whatever comes between.
LEMMA PlacesKept ==
  ASSUME EventsInv, WayInv, PlacesInv, [Next]_vars
  PROVE  PlacesInv'
<1>a. \A r \in Requests : AtEvent(r, req'[r])
  BY AtEventKept DEF PlacesInv
<1>s. Shapes /\ req = [r \in Requests |-> req[r]] /\ exists \subseteq Updates
  BY DEF EventsInv, Shapes
<1>p. /\ \A u \in exists : log[u] \in Seq(ReportLines)
      /\ \A r \in Requests : r.kind = "events" /\ r.dev \notin mixed /\ Reports(req[r]) /\ req[r].upd \in exists
           => Logged(log[req[r].upd], r, req[r])
  BY DEF PlacesInv
<1>1. ASSUME NEW q \in Requests, AppendStatus(q) PROVE PlacesInv'
  <2>1. Only(q)
    BY <1>1, RequestOnly DEF EventsInv, FailInv, RequestStep
  <2>2. exists' = exists /\ mixed' = mixed /\ \A r \in Requests : req'[r].upd = req[r].upd /\ req'[r].tag = req[r].tag
    BY <1>s, <2>1 DEF Only, RestUnchanged, RowsUnchanged
  <2>3. \A r \in Requests : Reports(req'[r]) <=> Reports(req[r])
    BY <2>2 DEF Reports
  <2> QED
    BY <1>1, <1>a, <2>2, <2>3, StatusPlaced DEF PlacesInv
<1>2. ASSUME NEW q \in Requests, RequestStep(q), ~AppendStatus(q) PROVE PlacesInv'
  <2>1. Only(q)
    BY <1>2, RequestOnly DEF EventsInv, FailInv
  <2>2. exists' = exists /\ mixed' = mixed /\ \A r \in Requests : req'[r].upd = req[r].upd /\ req'[r].tag = req[r].tag
    BY <1>s, <2>1 DEF Only, RestUnchanged, RowsUnchanged
  <2>3. \A r \in Requests : r # q => req'[r] = req[r]
    BY <2>1 DEF Only
  <2>4. log' = log /\ (req[q].pc = "status" => req'[q].pc = "500")
    <3>1. CASE Fails(q)
      <4>1. Goto(q, "500") /\ log' = log
        BY <3>1 DEF Fails, FilesUnchanged
      <4> QED
        BY <1>s, <4>1, GotoFields
    <3>2. CASE ~Fails(q)
      BY <1>2, <3>2 DEF RequestStep, AppendEvent, SaveAppsStates, TestComplete, TestStoreArtifact,
              TruncateArtifact, CopyArtifact, WritePartial, Rename, RolloverFiles, DeleteFile, FilesUnchanged
    <3> QED
      BY <3>1, <3>2
  <2>5. ASSUME NEW r \in Requests, r.kind = "events", r.dev \notin mixed, Reports(req[r]), req[r].upd \in exists
        PROVE  Logged(log[req[r].upd], r, req'[r])
    <3>1. CASE r # q
      BY <1>p, <2>3, <2>5, <3>1
    <3>2. CASE r = q
      <4> DEFINE s == req[q]  t == req'[q]  f == files[q.dev]  g == files'[q.dev]  l == log[req[q].upd]
      <4>1. MovesOn(q, s, t, f, g)
        BY <1>2, <2>5, <3>2, RequestMoves
      <4>2. q.dev \in Devices
        BY EventsAssumption
      <4>3. OnItsWay(q, s) /\ Logged(l, q, s) /\ q.kind = "events" /\ (s.pc = "status" => t.pc = "500")
        BY <1>p, <2>4, <2>5, <3>2, <4>2 DEF WayInv, WayOf, Mine
      <4>4. Moves(q, s, t, f, g, now)
        BY <4>1 DEF MovesOn
      <4> HIDE DEF s, t, f, g, l
      <4>5. Logged(l, q, t)
        BY <4>3, <4>4, LoggedOn
      <4> QED
        BY <3>2, <4>5 DEF l, t
    <3> QED
      BY <3>1, <3>2
  <2>6. \A r \in Requests : Reports(req'[r]) <=> Reports(req[r])
    BY <2>2 DEF Reports
  <2> QED
    BY <1>a, <1>p, <2>2, <2>4, <2>5, <2>6 DEF PlacesInv
<1>3. ASSUME NEW q \in Requests, Begin(q) PROVE PlacesInv'
  <2> DEFINE x == [Idle EXCEPT !.pc = First(q), !.upd = assigned[q.dev], !.tag = TagFor(q),
                            !.at = now, !.name = FileName(q)]
  <2>1. req' = [req EXCEPT ![q] = x] /\ log' = log /\ exists' = exists /\ mixed \subseteq mixed'
    BY <1>3 DEF Begin, Set, FilesUnchanged
  <2>2. x.pc = First(q) /\ x.n = 1
    BY DEF Idle
  <2> HIDE DEF x
  <2>3. req'[q] = x /\ \A r \in Requests : r # q => req'[r] = req[r]
    BY <1>s, <2>1
  <2>4. /\ First(q) \notin {"status", "match", "delete"}
        /\ First(q) = "200" => q.kind = "events" /\ Valid(q) = <<>>
    BY FirstPlaces
  <2>5. Valid(q) = <<>> => Len(Valid(q)) = 0
    OBVIOUS
  <2>6. \A l : Logged(l, q, x)
    BY <2>2, <2>4, <2>5, NothingLogged
  <2>7. \A r \in Requests : r.kind = "events" /\ r.dev \notin mixed' /\ Reports(req'[r]) /\ req'[r].upd \in exists
          => Logged(log[req'[r].upd], r, req'[r])
    BY <1>p, <2>1, <2>3, <2>6
  <2> QED
    BY <1>a, <1>p, <2>1, <2>7 DEF PlacesInv
<1>4. CASE Crash
  <2>1. log' = log /\ exists' = exists /\ mixed' = mixed
    BY <1>4 DEF Crash, FilesUnchanged, RowsUnchanged
  <2>2. ASSUME NEW r \in Requests, r.kind = "events", r.dev \notin mixed, Reports(req'[r]), req'[r].upd \in exists
        PROVE  Logged(log[req'[r].upd], r, req'[r])
    <3>1. req'[r] = IF req[r].pc \in Running THEN [req[r] EXCEPT !.pc = "lost"] ELSE req[r]
      BY <1>4 DEF Crash
    <3>2. CASE req[r].pc \in Running
      <4>1. req'[r] = [req[r] EXCEPT !.pc = "lost"] /\ IsReq(req[r])
        BY <1>s, <3>1, <3>2 DEF Shapes
      <4>2. req'[r].pc = "lost"
        BY <4>1 DEF IsReq
      <4> QED
        BY <4>2 DEF Logged
    <3>3. CASE req[r].pc \notin Running
      BY <1>p, <2>2, <3>1, <3>3
    <3> QED
      BY <3>2, <3>3
  <2> QED
    BY <1>a, <1>p, <2>1, <2>2 DEF PlacesInv
<1>5. ASSUME NEW u \in Updates, DeleteUpdate(u) PROVE PlacesInv'
  <2>1. /\ exists' = exists \ {u} /\ log' = [log EXCEPT ![u] = NoLog] /\ req' = req /\ mixed' = mixed
    BY <1>5 DEF DeleteUpdate
  <2>2. \A v \in exists' : log'[v] = log[v] /\ v \in exists
    BY <2>1, <1>s DEF Shapes
  <2> QED
    BY <1>a, <1>p, <2>1, <2>2 DEF PlacesInv
<1>6. ASSUME \/ UNCHANGED vars \/ ReadState \/ Tick
             \/ \E d \in Devices : \/ DeleteRow(d) \/ RemoveAll(d) \/ RemoveFails(d) \/ UndenyDevice(d) \/ ListStates(d)
                                  \/ \E u \in Updates : SetUpdate(d, u)
      PROVE  PlacesInv'
  <2>1. req' = req /\ log' = log /\ exists' = exists /\ mixed \subseteq mixed'
    BY <1>6 DEF vars, ReadState, Tick, DeleteRow, RemoveAll, RemoveFails, UndenyDevice, ListStates, SetUpdate,
            FilesUnchanged, RowsUnchanged
  <2> QED
    BY <1>a, <1>p, <2>1 DEF PlacesInv
<1>7. CASE \E q \in Requests : RequestStep(q)
  BY <1>1, <1>2, <1>7
<1> QED
  BY <1>3, <1>4, <1>5, <1>6, <1>7 DEF Next, RequestStep

-----------------------------------------------------------------------------
(* What is shown *)

\* A listing of some files, oldest first.
Ordered(l, S, f) ==
  /\ l \in [1 .. Cardinality(S) -> S]
  /\ \A i, j \in 1 .. Cardinality(S) : i # j => l[i] # l[j]
  /\ \A i, j \in 1 .. Cardinality(S) : i < j => f[l[i]].at =< f[l[j]].at

\* Files can always be listed: matchFiles has an answer.
LEMMA OrderedExists ==
  ASSUME NEW f, NEW S, IsFiniteSet(S), \A n \in S : f[n].at \in Nat
  PROVE  \E l : Ordered(l, S, f)
<1> DEFINE Bad == {U \in SUBSET S : ~\E l : Ordered(l, U, f)}
           T == {Cardinality(U) : U \in Bad}
<1>1. SUFFICES ASSUME T # {} PROVE FALSE
  OBVIOUS
<1>2. \A U \in SUBSET S : IsFiniteSet(U) /\ Cardinality(U) \in Nat
  BY FS_Subset, FS_CardinalityType
<1>3. T \subseteq Nat
  BY <1>2
<1>4. PICK m \in T : \A k \in T : m =< k
  <2> HIDE DEF T
  <2> QED
    BY <1>1, <1>3, LeastNumber
<1>5. PICK U \in SUBSET S : Cardinality(U) = m /\ ~\E l : Ordered(l, U, f)
  BY <1>4
<1>6. m \in Nat /\ IsFiniteSet(U)
  BY <1>2, <1>3
<1>7. CASE U = {}
  <2>1. Cardinality(U) = 0
    BY <1>7, FS_EmptySet
  <2> DEFINE l == [i \in 1 .. 0 |-> i]
  <2>2. l \in [1 .. 0 -> U] /\ \A i \in 1 .. 0 : FALSE
    OBVIOUS
  <2> HIDE DEF l
  <2>3. Ordered(l, U, f)
    BY <2>1, <2>2 DEF Ordered
  <2> QED
    BY <1>5, <2>3
<1>8. CASE U # {}
  <2>1. PICK x \in U : \A n \in U : f[x].at =< f[n].at
    <3> DEFINE A == {f[n].at : n \in U}
    <3>1. A \subseteq Nat /\ A # {}
      BY <1>8
    <3>2. PICK a \in A : \A b \in A : a =< b
      <4> HIDE DEF A
      <4> QED
        BY <3>1, LeastNumber
    <3> QED
      BY <3>2
  <2> DEFINE V == U \ {x}
  <2>2. V \in SUBSET S /\ Cardinality(V) = m - 1 /\ m - 1 \in Nat /\ m > 0
    <3>1. Cardinality(V) = m - 1 /\ Cardinality(V) \in Nat
      BY <1>2, <1>5, <1>6, FS_RemoveElement
    <3> QED
      BY <1>6, <3>1
  <2>3. PICK k : Ordered(k, V, f)
    <3>1. SUFFICES ASSUME ~\E k : Ordered(k, V, f) PROVE FALSE
      OBVIOUS
    <3>2. m - 1 \in T
      BY <2>2, <3>1
    <3> HIDE DEF T
    <3>3. m =< m - 1
      BY <1>4, <3>2
    <3> QED
      BY <1>6, <3>3
  <2>4. /\ k \in [1 .. m - 1 -> V]
        /\ \A i, j \in 1 .. m - 1 : i # j => k[i] # k[j]
        /\ \A i, j \in 1 .. m - 1 : i < j => f[k[i]].at =< f[k[j]].at
    BY <2>2, <2>3 DEF Ordered
  <2> DEFINE l == [i \in 1 .. m |-> IF i = 1 THEN x ELSE k[i - 1]]
  <2>5. \A i \in 1 .. m : i = 1 \/ i - 1 \in 1 .. m - 1
    BY <1>6
  <2>6. /\ \A i \in 1 .. m : i = 1 => l[i] = x
        /\ \A i \in 1 .. m : i # 1 => l[i] = k[i - 1] /\ l[i] \in V /\ i - 1 \in 1 .. m - 1
        /\ DOMAIN l = 1 .. m
    BY <2>4, <2>5
  <2>7. l \in [1 .. m -> U]
    BY <2>4, <2>5
  <2>v. \A n \in V : n # x /\ n \in U
    OBVIOUS
  <2> HIDE DEF l, V
  <2>8. ASSUME NEW i \in 1 .. m, NEW j \in 1 .. m, i < j
        PROVE  l[i] # l[j] /\ f[l[i]].at =< f[l[j]].at
    <3>0. j # 1 /\ l[j] = k[j - 1] /\ l[j] \in V /\ j - 1 \in 1 .. m - 1
      BY <2>6, <2>8
    <3>1. CASE i = 1
      BY <2>1, <2>6, <2>v, <3>0, <3>1
    <3>2. CASE i # 1
      <4>1. l[i] = k[i - 1] /\ i - 1 \in 1 .. m - 1
        BY <2>6, <3>2
      <4> DEFINE a == i - 1  b == j - 1
      <4>2. a \in 1 .. m - 1 /\ b \in 1 .. m - 1 /\ a < b /\ a # b
        BY <2>8, <3>0, <4>1
      <4>3. l[i] = k[a] /\ l[j] = k[b]
        BY <3>0, <4>1
      <4> HIDE DEF a, b
      <4> QED
        BY <2>4, <4>2, <4>3
    <3> QED
      BY <3>1, <3>2
  <2>9. \A i, j \in 1 .. m : i # j => i < j \/ j < i
    BY <1>6
  <2>10. \A i, j \in 1 .. m : i # j => l[i] # l[j]
    BY <2>8, <2>9
  <2>11. Ordered(l, U, f)
    BY <1>5, <2>7, <2>8, <2>10 DEF Ordered
  <2> QED
    BY <1>5, <2>11
<1> QED
  BY <1>7, <1>8

\* matchFiles always has a listing.
LEMMA MatchExists ==
  ASSUME NEW d, FilesOK(files[d]), \A n \in DOMAIN files[d] : files[d][n].at \in Nat, NEW prefix
  PROVE  \E l : l \in matchFiles(d, prefix)
<1> DEFINE f == files[d]  S == {n \in DOMAIN f : n[1] = prefix}
<1>1. IsFiniteSet(S) /\ \A n \in S : f[n].at \in Nat
  BY FS_Subset DEF FilesOK
<1>2. PICK l : Ordered(l, S, f)
  <2> HIDE DEF S, f
  <2> QED
    BY <1>1, OrderedExists
<1>3. l \in SetToSeqs(S) /\ DOMAIN l = 1 .. Cardinality(S)
  <2> HIDE DEF S, f
  <2> QED
    BY <1>2 DEF Ordered, SetToSeqs
<1>4. \A i, j \in DOMAIN l : i < j => f[l[i]].at =< f[l[j]].at
  BY <1>2, <1>3 DEF Ordered
<1> QED
  BY <1>3, <1>4 DEF matchFiles

\* The names that a listing of matchFiles has.
LEMMA MatchNames ==
  ASSUME NEW d, FilesOK(files[d]), \A n \in DOMAIN files[d] : files[d][n].at \in Nat, NEW prefix
  PROVE  /\ UNION {Range(s) : s \in matchFiles(d, prefix)} = {n \in DOMAIN files[d] : n[1] = prefix}
         /\ UNION {Range(s) : s \in {Reverse(l) : l \in matchFiles(d, prefix)}}
              = {n \in DOMAIN files[d] : n[1] = prefix}
<1> DEFINE f == files[d]  S == {n \in DOMAIN f : n[1] = prefix}
<1>1. PICK k : k \in matchFiles(d, prefix)
  BY MatchExists
<1>2. ASSUME NEW l \in matchFiles(d, prefix) PROVE Range(l) = S /\ Range(Reverse(l)) = S
  <2>1. OldestFirst(l, f, prefix)
    BY MatchSorted
  <2> DEFINE N == Len(l)
  <2>2. N \in Nat /\ DOMAIN l = 1 .. N /\ \A i \in 1 .. N : l[i] \in S
    BY <2>1 DEF OldestFirst
  <2>3. \A n \in S : \E i \in 1 .. N : l[i] = n
    BY <2>1 DEF OldestFirst
  <2>4. DOMAIN Reverse(l) = 1 .. N /\ \A i \in 1 .. N : Reverse(l)[i] = l[(N - i) + 1]
    BY DEF Reverse
  <2> HIDE DEF N, S
  <2>5. \A i \in 1 .. N : (N - i) + 1 \in 1 .. N /\ (N - ((N - i) + 1)) + 1 = i
    BY <2>2
  <2>6. Range(l) = S
    BY <2>2, <2>3 DEF Range
  <2>7. Range(Reverse(l)) = S
    <3>1. \A n \in Range(Reverse(l)) : n \in S
      BY <2>2, <2>4, <2>5 DEF Range
    <3>2. ASSUME NEW n \in S PROVE n \in Range(Reverse(l))
      <4>1. PICK i \in 1 .. N : l[i] = n
        BY <2>3
      <4> DEFINE j == (N - i) + 1
      <4>2. j \in 1 .. N /\ (N - j) + 1 = i
        BY <2>5
      <4> HIDE DEF j
      <4>3. Reverse(l)[j] = n
        BY <2>4, <4>1, <4>2
      <4> QED
        BY <2>4, <4>2, <4>3 DEF Range
    <3> QED
      BY <3>1, <3>2
  <2> QED
    BY <2>6, <2>7
<1>3. UNION {Range(s) : s \in matchFiles(d, prefix)} = S
  <2> HIDE DEF S
  <2> QED
    BY <1>1, <1>2
<1>4. UNION {Range(s) : s \in {Reverse(l) : l \in matchFiles(d, prefix)}} = S
  <2> HIDE DEF S
  <2> QED
    BY <1>1, <1>2
<1> QED
  BY <1>3, <1>4

\* What the page of the device shows is the last event of the latest request, however
\* files of one millisecond are ordered (DeviceGet).
LEMMA PageShows ==
  ASSUME NEW d, NEW rq, FilesOK(files[d]), Timed(d, files[d], rq, now), DeviceInv(d, files[d], rq),
         NEW r \in Mine(d), HasEvents(r), rq[r] = req[r], req[r].pc = "200", Latest(r, rq)
  PROVE  DeviceGet(d).status = {StatusOf(Event(r))}
<1> DEFINE f == files[d]  s == rq[r]  c == EventFile(r, s.n)
<1>1. ShownAs(r, s, f)
  BY DEF DeviceInv, Shown, IsSaved
<1>2. /\ c \in DOMAIN f /\ f[c].at = s.at
      /\ Len(f[c].data) > 0 /\ f[c].data[Len(f[c].data)] = Valid(r)[s.n]
  BY <1>1 DEF ShownAs
<1>3. c[1] = "events"
  BY EventFileName
<1>t. /\ \A n \in DOMAIN f : f[n].at \in Nat
      /\ \A q \in Mine(d) : rq[q].at \in Nat
  BY DEF Timed
<1>d. r.dev = d
  BY DEF Mine
<1>4. ASSUME NEW l \in matchFiles(d, "events")
      PROVE  l # <<>> /\ Last(l) = c
  <2>1. OldestFirst(l, f, "events")
    BY MatchSorted
  <2> DEFINE N == Len(l)  e == l[N]
  <2>2. PICK i \in 1 .. N : l[i] = c
    BY <1>2, <1>3, <2>1 DEF OldestFirst
  <2>3. N \in Nat /\ N \in 1 .. N /\ l # <<>>
    BY <2>1, <2>2 DEF OldestFirst
  <2> HIDE DEF N
  <2>4. e \in DOMAIN f /\ e[1] = "events" /\ (i = N \/ f[c].at =< f[e].at)
    <3>1. e \in DOMAIN f /\ e[1] = "events"
      BY <2>1, <2>3 DEF OldestFirst, N
    <3>2. i < N => f[l[i]].at =< f[e].at
      BY <2>1, <2>2, <2>3 DEF OldestFirst, N
    <3>3. i = N \/ i < N
      BY <2>2, <2>3
    <3> HIDE DEF e, f, c
    <3> QED
      BY <2>2, <3>1, <3>2, <3>3
  <2>5. e = c
    <3>1. CASE i = N
      BY <2>2, <3>1
    <3>2. CASE f[c].at =< f[e].at
      <4> HIDE DEF e
      <4>1. PICK p \in Mine(d) : WroteLast(p, rq[p], e, f[e].at)
        BY <2>4 DEF DeviceInv, Written
      <4>2. p.kind = "events" /\ IsBegun(rq[p]) /\ f[e].at =< rq[p].at
        BY <4>1 DEF WroteLast
      <4>3. CASE p = r
        <5>1. f[e].at = s.at
          BY <1>2, <1>t, <2>4, <3>2, <4>2, <4>3
        <5> QED
          BY <4>1, <4>3, <5>1 DEF WroteLast, AtFile
      <4>4. CASE p # r
        <5>1. rq[p].at < s.at
          BY <1>d, <4>2, <4>4 DEF Latest
        <5> QED
          BY <1>2, <1>t, <2>4, <3>2, <4>2, <5>1
      <4> QED
        BY <4>3, <4>4
    <3> QED
      BY <2>4, <3>1, <3>2
  <2> QED
    BY <2>3, <2>5 DEF Last, N
<1>5. Last(Content(d, c)) = Event(r)
  BY <1>2 DEF Content, Last, Event
<1>6. PICK k : k \in matchFiles(d, "events")
  BY <1>t, MatchExists
<1> HIDE DEF c, s
<1>7. \A l \in matchFiles(d, "events") :
        (IF l = <<>> THEN NoStatus ELSE StatusOf(Last(Content(d, Last(l))))) = StatusOf(Event(r))
  BY <1>4, <1>5
<1> DEFINE shown == {IF l = <<>> THEN NoStatus ELSE StatusOf(Last(Content(d, Last(l)))) :
                       l \in matchFiles(d, "events")}
<1>8. shown = {StatusOf(Event(r))}
  BY <1>6, <1>7
<1>9. DeviceGet(d).status = shown
  BY DEF DeviceGet
<1> QED
  BY <1>8, <1>9

\* The last event of a request is in its file, or the file was displaced (Updates,
\* Events).
LEMMA FileHolds ==
  ASSUME NEW d, NEW rq, FilesOK(files[d]), Timed(d, files[d], rq, now), DeviceInv(d, files[d], rq),
         NEW r \in Mine(d), HasEvents(r), rq[r] = req[r], req[r].pc = "200",
         \A q \in Mine(d) : IsBegun(rq[q]) => rq[q] = req[q]
  PROVE  InItsFile(r)
<1> DEFINE f == files[d]  s == rq[r]  c == EventFile(r, s.n)
           held == DeviceEventsOf(r.dev, Event(r).corr)
           newer == {n \in UNION {Range(l) : l \in DeviceUpdates(r.dev)} : files[r.dev][n].at >= req[r].at}
<1>1. HeldIn(r, s, f) \/ Displaced(r, f, rq)
  BY DEF DeviceInv, Held, IsSaved
<1>d. r.dev = d
  BY DEF Mine
<1>2. held = Content(d, c) /\ Event(r) = Valid(r)[s.n]
  BY <1>d DEF DeviceEventsOf, EventFile, Event
<1>3. CASE HeldIn(r, s, f)
  <2>1. c \in DOMAIN f /\ \E i \in DOMAIN f[c].data : f[c].data[i] = Valid(r)[s.n]
    BY <1>3 DEF HeldIn
  <2>2. held = f[c].data
    BY <1>2, <2>1 DEF Content
  <2>3. \E i \in DOMAIN held : held[i] = Event(r)
    BY <1>2, <2>1, <2>2
  <2> QED
    BY <2>3 DEF InItsFile
<1>4. CASE Displaced(r, f, rq)
  <2>1. UNION {Range(l) : l \in DeviceUpdates(r.dev)} = EventNames(f)
    <3>1. \A n \in DOMAIN files[d] : files[d][n].at \in Nat
      BY DEF Timed
    <3>2. UNION {Range(l) : l \in {Reverse(k) : k \in matchFiles(d, "events")}}
            = {n \in DOMAIN files[d] : n[1] = "events"}
      BY <3>1, MatchNames, SMTT(60)
    <3> QED
      BY <1>d, <3>2 DEF DeviceUpdates, EventNames
  <2>2. newer = Newer(f, s.at)
    BY <1>d, <2>1 DEF Newer
  <2>3. Cardinality(newer) >= MaxFiles
    BY <1>4, <2>2 DEF Displaced
  <2>4. held = <<>> \/ FollowedUp(r)
    <3>1. CASE c \notin DOMAIN f
      BY <1>2, <3>1 DEF Content
    <3>2. CASE Follows(r, rq)
      <4>1. PICK q \in Mine(d) :
              /\ q # r /\ q.kind = "events" /\ IsBegun(rq[q]) /\ rq[q].at >= rq[r].at
              /\ \E i \in DOMAIN Valid(q) : Valid(q)[i].corr = Valid(r)[rq[r].n].corr
        BY <1>d, <3>2 DEF Follows
      <4>2. q \in Requests \ {r} /\ q.dev = r.dev /\ Begun(q)
        BY <1>d, <4>1 DEF Mine, Begun, IsBegun
      <4> QED
        BY <1>2, <4>1, <4>2 DEF FollowedUp
    <3> QED
      BY <1>4, <3>1, <3>2 DEF Displaced
  <2> QED
    BY <2>3, <2>4 DEF InItsFile
<1> QED
  BY <1>1, <1>3, <1>4

\* Everything a device was told is saved is there: its events are in their files and
\* their statuses on the log, its page shows the last of them and the info, its tests
\* and artifacts are as it left them, as long as its requests come one at a time, and
\* with restarts, faults, other devices and rollovers in between; what it reported before
\* a deletion removed its directory is gone, what it reports after that is kept again
\* (ProcessEvents, rolloverFiles, DeviceGet, TestComplete, TestStoreArtifact, GetTest,
\* Device.Delete).
THEOREM AnswersAreKept == Spec => []AnsweredKept
<1>1. EventsInv /\ WayInv /\ KeptInv /\ PlacesInv => AnsweredKept
  <2> SUFFICES ASSUME EventsInv, WayInv, KeptInv, PlacesInv,
                      NEW r \in Requests, req[r].pc = "200", r.dev \notin mixed
               PROVE  /\ r.kind = "events" /\ Reports(req[r]) /\ req[r].upd \in exists => OnTheLog(r)
                      /\ r \notin void =>
                           /\ r.kind = "events" /\ Valid(r) # <<>> => InItsFile(r)
                           /\ r.kind = "events" /\ Valid(r) # <<>> /\ LatestOfDevice(r)
                                => DeviceGet(r.dev).status = {StatusOf(Event(r))}
                           /\ r.kind = "info" => DeviceGet(r.dev).info = <<"info">>
                           /\ r.kind = "testComplete" /\ NotCreatedAgain(r)
                                => GetTest(r.dev, r.test).status = <<"testComplete">>
                           /\ r.kind = "testArtifact" =>
                                /\ req[r].name \in GetTest(r.dev, r.test).artifacts
                                /\ NotBrokenOff(r) => GetTestArtifact(r.dev, r.test) = <<"whole">>
    BY DEF AnsweredKept
  <2> DEFINE d == r.dev  f == files[d]  rq == Fresh(req, void)
  <2>0. d \in Devices /\ r \in Mine(d)
    BY EventsAssumption DEF Mine
  <2>1. /\ FilesOK(f) /\ OnItsWay(r, req[r])
        /\ WayOf(d, f, req, now) /\ \A q \in Requests : IsReq(req[q])
    BY <2>0 DEF EventsInv, Shapes, WayInv, WayOf
  <2>t. Timed(d, f, rq, now)
    <3>1. WayOf(d, f, rq, now)
      BY <2>1, FreshWay DEF Mine
    <3> QED
      BY <3>1 DEF WayOf
  <2>b. \A q \in Requests : IsBegun(rq[q]) => rq[q] = req[q]
    <3> SUFFICES ASSUME NEW q \in Requests, IsBegun(rq[q]) PROVE rq[q] = req[q]
      OBVIOUS
    <3>1. (q \in void => rq[q].pc = "none") /\ (q \notin void => rq[q] = req[q])
      BY <2>1, FreshFields
    <3> QED
      BY <3>1 DEF IsBegun
  <2>2. ASSUME r.kind = "events", Reports(req[r]), req[r].upd \in exists PROVE OnTheLog(r)
    <3> DEFINE lines == log[req[r].upd]
    <3>1. PICK at : PlacedAt(lines, r, Len(Valid(r)), at)
      BY <2>2 DEF PlacesInv, Logged
    <3>2. DOMAIN Valid(r) = 1 .. Len(Valid(r))
      BY <2>2, ValidSeq
    <3> HIDE DEF lines
    <3>3. at \in [DOMAIN Valid(r) -> DOMAIN lines] /\ DOMAIN at = 1 .. Len(Valid(r))
      BY <3>1, <3>2 DEF PlacedAt
    <3>4. /\ \A i \in DOMAIN at : lines[at[i]] = StatusLine(r, Valid(r)[i])
          /\ \A i, j \in DOMAIN at : i < j => at[i] < at[j]
          /\ \A i \in DOMAIN at, k \in DOMAIN lines :
               i > 1 /\ at[i - 1] < k /\ k < at[i] => lines[k].uuid # r.dev
      BY <3>1, <3>3 DEF PlacedAt
    <3> QED
      BY <3>3, <3>4 DEF OnTheLog, lines
  <2>3. ASSUME r \notin void
        PROVE  /\ r.kind = "events" /\ Valid(r) # <<>> => InItsFile(r)
               /\ r.kind = "events" /\ Valid(r) # <<>> /\ LatestOfDevice(r)
                    => DeviceGet(r.dev).status = {StatusOf(Event(r))}
               /\ r.kind = "info" => DeviceGet(r.dev).info = <<"info">>
               /\ r.kind = "testComplete" /\ NotCreatedAgain(r)
                    => GetTest(r.dev, r.test).status = <<"testComplete">>
               /\ r.kind = "testArtifact" =>
                    /\ req[r].name \in GetTest(r.dev, r.test).artifacts
                    /\ NotBrokenOff(r) => GetTestArtifact(r.dev, r.test) = <<"whole">>
    <3>1. DeviceInv(d, f, rq) /\ rq[r] = req[r]
      BY <2>0, <2>1, <2>3, FreshFields DEF KeptInv, Good
    <3>m. Mine(d) \subseteq Requests
      BY DEF Mine
    <3> HIDE DEF rq
    <3>2. ASSUME r.kind = "events", Valid(r) # <<>> PROVE InItsFile(r)
      BY <2>0, <2>1, <2>b, <2>t, <3>1, <3>2, <3>m, FileHolds DEF HasEvents
    <3>3. ASSUME r.kind = "events", Valid(r) # <<>>, LatestOfDevice(r)
          PROVE  DeviceGet(r.dev).status = {StatusOf(Event(r))}
      <4>1. Latest(r, rq)
        BY <2>b, <3>1, <3>3 DEF LatestOfDevice, Latest, Mine, Begun, IsBegun
      <4>2. HasEvents(r)
        BY <3>3 DEF HasEvents
      <4> QED
        BY <2>0, <2>1, <2>t, <3>1, <4>1, <4>2, PageShows
    <3>4. ASSUME r.kind = "info" PROVE DeviceGet(r.dev).info = <<"info">>
      <4>1. <<"info", 0>> \in DOMAIN f /\ f[<<"info", 0>>].data = <<"info">>
        BY <2>0, <3>1, <3>4 DEF DeviceInv, InfoKept
      <4>2. DeviceGet(r.dev).info = Content(d, <<"info", 0>>)
        BY DEF DeviceGet
      <4> QED
        BY <4>1, <4>2 DEF Content
    <3>5. \A kind : About(d, r.test, kind, rq) \subseteq OfTheTest(r, kind)
      BY <2>b DEF OfTheTest, About, Mine, Begun, IsBegun
    <3>6. ASSUME r.kind = "testComplete", NotCreatedAgain(r)
          PROVE  GetTest(r.dev, r.test).status = <<"testComplete">>
      <4>1. TestKept(r, f, rq)
        BY <2>0, <3>1, <3>6 DEF DeviceInv, TestsKept
      <4>2. ASSUME NEW q \in About(d, r.test, "testCreate", rq)
            PROVE  rq[q].at < rq[r].at \/ About(d, r.test, "testCreate", rq) = {q}
        <5>1. q \in OfTheTest(r, "testCreate") /\ rq[q] = req[q]
          BY <2>b, <3>5, <4>2 DEF About, Mine
        <5>2. req[q].at < req[r].at \/ OfTheTest(r, "testCreate") = {q}
          BY <3>6, <5>1 DEF NotCreatedAgain
        <5> QED
          BY <3>1, <3>5, <4>2, <5>1, <5>2
      <4>3. <<"tests", r.test>> \in DOMAIN f /\ f[<<"tests", r.test>>].data = <<"testComplete">>
        BY <4>1, <4>2 DEF TestKept
      <4>4. GetTest(r.dev, r.test).status = Content(d, <<"tests", r.test>>)
        BY DEF GetTest
      <4> QED
        BY <4>3, <4>4 DEF Content
    <3>7. ASSUME r.kind = "testArtifact"
          PROVE  /\ req[r].name \in GetTest(r.dev, r.test).artifacts
                 /\ NotBrokenOff(r) => GetTestArtifact(r.dev, r.test) = <<"whole">>
      <4> DEFINE n == <<"test-artifacts", r.test>>
      <4>1. ArtifactKept(r, f, rq)
        BY <2>0, <3>1, <3>7 DEF DeviceInv, TestsKept
      <4>2. n \in DOMAIN f /\ n[1] = "test-artifacts"
        BY <4>1 DEF ArtifactKept
      <4>3. req[r].name = n
        BY <2>1, <3>7 DEF OnItsWay, IsBegun
      <4>4. UNION {Range(l) : l \in matchFiles(d, "test-artifacts")}
              = {x \in DOMAIN files[d] : x[1] = "test-artifacts"}
        <5>1. \A x \in DOMAIN files[d] : files[d][x].at \in Nat
          BY <2>t DEF Timed
        <5> QED
          BY <2>1, <5>1, MatchNames
      <4>5. NotBrokenOff(r) => f[n].data = <<"whole">>
        <5>1. NotBrokenOff(r) =>
                \A q \in About(d, r.test, "testArtifact", rq) : rq[q].pc # "200" => rq[q].at < rq[r].at
          BY <2>b, <3>1, <3>5 DEF NotBrokenOff, About, Mine
        <5> QED
          BY <4>1, <5>1 DEF ArtifactKept
      <4>6. GetTestArtifact(d, r.test) = f[n].data
        BY <4>2 DEF GetTestArtifact, Content
      <4>7. n \in {x \in DOMAIN files[d] : x[1] = "test-artifacts"}
        BY <4>2
      <4>8. n \in GetTest(d, r.test).artifacts
        <5> DEFINE all == UNION {Range(l) : l \in matchFiles(d, "test-artifacts")}
        <5>1. n \in all
          BY <4>4, <4>7
        <5>2. GetTest(d, r.test).artifacts = all \cap {n}
          BY DEF GetTest
        <5> HIDE DEF all, n
        <5> QED
          BY <5>1, <5>2
      <4> QED
        BY <4>3, <4>5, <4>6, <4>8
    <3> QED
      BY <3>2, <3>3, <3>4, <3>6, <3>7
  <2> QED
    BY <2>2, <2>3
<1>2. Init => PlacesInv
  <2> SUFFICES ASSUME Init PROVE PlacesInv
    OBVIOUS
  <2>1. PICK w \in Workloads :
          req = [r \in Requests |-> IF r \in w THEN Idle ELSE [Idle EXCEPT !.pc = "none"]]
    BY DEF Init
  <2>2. \A r \in Requests : req[r].pc \in {"idle", "none"}
    BY <2>1 DEF Idle
  <2>3. \A u \in exists : log[u] \in Seq(ReportLines)
    BY DEF Init
  <2> QED
    BY <2>2, <2>3 DEF PlacesInv, AtEvent, Logged
<1>3. EventsInv /\ WayInv /\ PlacesInv /\ [Next]_vars => PlacesInv'
  BY PlacesKept
<1> QED
  BY <1>1, <1>2, <1>3, AnswersInvariant, PTL DEF Spec

=============================================================================
