-------------------------- MODULE DeviceAuthProofs --------------------------
(***************************************************************************)
(* Proofs about device authentication, for any number of devices,          *)
(* certificates and concurrent requests.                                   *)
(***************************************************************************)
EXTENDS DeviceAuth, TLAPS

-----------------------------------------------------------------------------
(* The inductive invariant *)

\* A request past the lookup has a row, in the table and in its hands.
RowRead ==
  \A q \in Requests : pc[q] \in {"rotate", "checkin"} =>
    dev[q] # NoRow /\ rows[Device(q)] # NoRow

\* Rows hold certificates of their own device, and only devices with a row have
\* entries in old_certs.
OwnCerts ==
  /\ \A d \in Devices : rows[d] # NoRow => Owner[rows[d].cert] = d
  /\ \A c \in Certs : oldCerts[c] # NoEntry => rows[Owner[c]] # NoRow

\* A request about to rotate replaces another certificate of its device, the
\* current one or one that has been replaced since it was read.
RotatesFrom ==
  \A q \in Requests : pc[q] = "rotate" =>
    /\ dev[q].cert # q.cert
    /\ Owner[dev[q].cert] = Device(q)
    /\ dev[q].cert = rows[Device(q)].cert \/ dev[q].cert \in replaced

\* An entry outlives its certificate.
EntryOutlives ==
  \A c \in Certs : oldCerts[c] # NoEntry => oldCerts[c] >= NotAfter[c]

AuthInv ==
  /\ TypeOK
  /\ RowRead
  /\ OwnCerts
  /\ RotatesFrom
  /\ EntryOutlives
  /\ CurrentNotRetired
  /\ RetiredRecorded

-----------------------------------------------------------------------------
\* The types of a request's parts.
LEMMA RequestParts ==
  ASSUME NEW q \in Requests
  PROVE  /\ q.cert \in Certs
         /\ q.tag \in Tags \cup {NoHeader}
         /\ Device(q) \in Devices
BY AuthAssumption DEF Device

\* The UPDATE of a check-in keeps a row well-formed and its certificate as it is.
LEMMA CheckedInRow ==
  ASSUME NEW r \in Row, NEW t \in Tags \cup {NoTag}, NEW n \in Nat
  PROVE  /\ [r EXCEPT !.tag = t, !.lastSeen = n] \in Row
         /\ [r EXCEPT !.tag = t, !.lastSeen = n].cert = r.cert
BY DEF Row

\* The lookup of authDevice keeps the invariant.
LEMMA DeviceGetInv ==
  ASSUME AuthInv, NEW q \in Requests, DeviceGet(q)
  PROVE  AuthInv'
<1> USE RequestParts DEF AuthInv
<1> DEFINE row == rows[Device(q)]
<1>1. row \in Row \cup {NoRow}
  BY DEF TypeOK
<1>2. /\ dev' = [dev EXCEPT ![q] = row]
      /\ pc' = [pc EXCEPT ![q] = IF row = NoRow THEN "create"
                                 ELSE IF row.deleted THEN "refused"
                                 ELSE IF row.cert # q.cert THEN "rotate"
                                 ELSE "checkin"]
      /\ UNCHANGED <<rows, oldCerts, now, replaced, faults>>
  BY DEF DeviceGet
<1> HIDE DEF row
<1>3. TypeOK'
  BY <1>1, <1>2 DEF TypeOK
<1>4. RowRead'
  BY <1>1, <1>2 DEF TypeOK, RowRead, row
<1>5. OwnCerts' /\ EntryOutlives' /\ CurrentNotRetired' /\ RetiredRecorded'
  BY <1>2 DEF OwnCerts, EntryOutlives, CurrentNotRetired, RetiredRecorded
<1>6. RotatesFrom'
  BY <1>1, <1>2 DEF TypeOK, RotatesFrom, OwnCerts, row
<1> QED
  BY <1>3, <1>4, <1>5, <1>6

\* Creating the row keeps the invariant.
LEMMA DeviceCreateInv ==
  ASSUME AuthInv, NEW q \in Requests, DeviceCreate(q)
  PROVE  AuthInv'
<1> USE RequestParts DEF AuthInv
<1> DEFINE row == [cert |-> q.cert, deleted |-> FALSE, tag |-> NoTag, lastSeen |-> now]
<1>1. row \in Row
  BY DEF TypeOK, Row
<1>2. row # NoRow /\ row.cert = q.cert
  BY <1>1, AuthAssumption DEF Row
<1>3. CASE rows[Device(q)] = NoRow
  <2>1. /\ rows' = [rows EXCEPT ![Device(q)] = row]
        /\ dev' = [dev EXCEPT ![q] = row]
        /\ pc' = [pc EXCEPT ![q] = "checkin"]
        /\ UNCHANGED <<oldCerts, now, replaced, faults>>
    BY <1>3 DEF DeviceCreate
  <2> HIDE DEF row
  <2>2. TypeOK'
    BY <1>1, <2>1 DEF TypeOK
  <2>3. RowRead'
    BY <1>2, <2>1 DEF TypeOK, RowRead
  <2>4. OwnCerts'
    BY <1>2, <2>1 DEF TypeOK, OwnCerts, Device
  <2>5. RotatesFrom'
    BY <1>2, <1>3, <2>1 DEF TypeOK, RotatesFrom, RowRead
  <2>6. CurrentNotRetired'
    BY <1>2, <1>3, <2>1 DEF TypeOK, OwnCerts, CurrentNotRetired, Device
  <2>7. EntryOutlives' /\ RetiredRecorded'
    BY <2>1 DEF EntryOutlives, RetiredRecorded
  <2> QED
    BY <2>2, <2>3, <2>4, <2>5, <2>6, <2>7
<1>4. CASE rows[Device(q)] # NoRow
  <2>1. /\ pc' = [pc EXCEPT ![q] = "refused"]
        /\ UNCHANGED <<rows, oldCerts, now, dev, replaced, faults>>
    BY <1>4 DEF DeviceCreate
  <2> QED
    BY <2>1 DEF TypeOK, RowRead, OwnCerts, RotatesFrom, EntryOutlives,
                CurrentNotRetired, RetiredRecorded
<1> QED
  BY <1>3, <1>4

\* The rotation keeps the invariant: if the certificate that the request read is
\* not current any more it has been replaced, so it is on record unless something
\* of the device has expired, and the insert fails.
LEMMA RotateCertInv ==
  ASSUME AuthInv, NEW q \in Requests, RotateCert(q)
  PROVE  AuthInv'
<1> USE RequestParts DEF AuthInv
<1> DEFINE d == Device(q)
           current == dev[q].cert
<1>1. /\ pc[q] = "rotate"
      /\ dev[q] \in Row /\ rows[d] \in Row
      /\ current \in Certs /\ rows[d].cert \in Certs
      /\ current # q.cert
      /\ Owner[current] = d /\ Owner[rows[d].cert] = d
      /\ current = rows[d].cert \/ current \in replaced
  BY DEF RotateCert, TypeOK, RowRead, OwnCerts, RotatesFrom, Row
<1>2. CASE oldCerts[OldHash(current, q.cert)] = NoEntry
  <2>1. /\ oldCerts[q.cert] = NoEntry
        /\ oldCerts[current] = NoEntry
        /\ OldHash(current, q.cert) = current
    BY <1>2 DEF OldHash
  <2>2. /\ oldCerts' = [oldCerts EXCEPT ![current] = Expires(current)]
        /\ rows' = [rows EXCEPT ![d].cert = q.cert]
        /\ dev' = [dev EXCEPT ![q].cert = q.cert]
        /\ replaced' = (replaced \cup {rows[d].cert}) \ {q.cert}
        /\ pc' = [pc EXCEPT ![q] = "checkin"]
        /\ UNCHANGED <<now, faults>>
    BY <1>2, <2>1 DEF RotateCert
  <2>3. /\ Expires(current) \in Nat
        /\ Expires(current) >= NotAfter[current]
    BY <1>1, AuthAssumption DEF Expires, TypeOK
  <2>4. /\ rows'[d] \in Row /\ rows'[d].cert = q.cert /\ rows'[d] # NoRow
        /\ dev'[q] \in Row /\ dev'[q] # NoRow
    BY <1>1, <2>2, AuthAssumption DEF TypeOK, Row
  <2>5. \A e \in Devices : e # d => rows'[e] = rows[e]
    BY <2>2 DEF TypeOK
  <2>6. \A p \in Requests : p # q => dev'[p] = dev[p] /\ pc'[p] = pc[p]
    BY <2>2 DEF TypeOK
  <2>7. pc'[q] = "checkin"
    BY <2>2 DEF TypeOK
  <2>8. \A c \in Certs : c # current => oldCerts'[c] = oldCerts[c]
    BY <2>2 DEF TypeOK
  <2>9. oldCerts'[current] = Expires(current) /\ oldCerts'[current] # NoEntry
    BY <1>1, <2>2, <2>3, AuthAssumption DEF TypeOK
  <2> HIDE DEF d, current
  <2>a. TypeOK'
    <3>1. rows' \in [Devices -> Row \cup {NoRow}]
      BY <1>1, <2>2, <2>4, <2>5 DEF TypeOK
    <3>2. dev' \in [Requests -> Row \cup {NoRow}]
      BY <1>1, <2>2, <2>4, <2>6 DEF TypeOK
    <3>3. oldCerts' \in [Certs -> Nat \cup {NoEntry}]
      BY <2>2, <2>3 DEF TypeOK
    <3>4. replaced' \subseteq Certs
      BY <1>1, <2>2 DEF TypeOK
    <3> QED
      BY <2>2, <3>1, <3>2, <3>3, <3>4 DEF TypeOK
  <2>b. RowRead'
    BY <2>4, <2>5, <2>6 DEF RowRead, d
  <2>c. OwnCerts'
    <3>1. \A e \in Devices : rows'[e] # NoRow => Owner[rows'[e].cert] = e
      BY <2>4, <2>5 DEF OwnCerts, d, Device
    <3>2. \A c \in Certs : oldCerts'[c] # NoEntry => rows'[Owner[c]] # NoRow
      BY <1>1, <2>4, <2>5, <2>8, AuthAssumption DEF OwnCerts
    <3> QED
      BY <3>1, <3>2 DEF OwnCerts
  <2>d. RotatesFrom'
    <3> SUFFICES ASSUME NEW p \in Requests, pc'[p] = "rotate"
                 PROVE  /\ dev'[p].cert # p.cert
                        /\ Owner[dev'[p].cert] = Device(p)
                        /\ dev'[p].cert = rows'[Device(p)].cert \/ dev'[p].cert \in replaced'
      BY DEF RotatesFrom
    <3>1. p # q
      BY <2>7
    <3>2. dev'[p] = dev[p] /\ pc[p] = "rotate"
      BY <2>6, <3>1
    <3>3. /\ dev[p].cert # p.cert
          /\ Owner[dev[p].cert] = Device(p)
          /\ dev[p].cert = rows[Device(p)].cert \/ dev[p].cert \in replaced
      BY <3>2 DEF RotatesFrom
    <3>4. CASE Device(p) = d
      <4>1. rows'[Device(p)].cert = q.cert /\ rows[Device(p)].cert = rows[d].cert
        BY <2>4, <3>4
      <4>2. dev[p].cert # q.cert => dev[p].cert \in replaced'
        BY <2>2, <3>3, <4>1
      <4> QED
        BY <3>2, <3>3, <4>1, <4>2
    <3>5. CASE Device(p) # d
      <4>1. rows'[Device(p)] = rows[Device(p)]
        BY <2>5, <3>5, RequestParts
      <4>2. dev[p].cert # q.cert
        BY <3>3, <3>5 DEF d, Device
      <4>3. dev[p].cert \in replaced => dev[p].cert \in replaced'
        BY <2>2, <4>2
      <4> QED
        BY <3>2, <3>3, <4>1, <4>3
    <3> QED
      BY <3>4, <3>5
  <2>e. EntryOutlives'
    BY <2>3, <2>8, <2>9 DEF EntryOutlives
  <2>f. CurrentNotRetired'
    <3>1. oldCerts'[rows'[d].cert] = NoEntry
      BY <1>1, <2>1, <2>4, <2>8
    <3>2. ASSUME NEW e \in Devices, e # d, rows[e] # NoRow
          PROVE  oldCerts'[rows[e].cert] = NoEntry
      <4>1. rows[e].cert \in Certs /\ rows[e].cert # current
        BY <1>1, <3>2 DEF TypeOK, OwnCerts, Row
      <4> QED
        BY <2>8, <3>2, <4>1 DEF CurrentNotRetired
    <3> QED
      BY <2>5, <3>1, <3>2 DEF CurrentNotRetired
  <2>g. RetiredRecorded'
    <3> SUFFICES ASSUME NEW c \in replaced',
                        \A e \in Certs : Owner[e] = Owner[c] => NotAfter[e] > now
                 PROVE  oldCerts'[c] # NoEntry
      BY <2>2 DEF RetiredRecorded
    <3>1. CASE c \in replaced
      BY <2>8, <2>9, <3>1 DEF TypeOK, RetiredRecorded
    <3>2. CASE c = rows[d].cert /\ c \notin replaced
      <4>1. ~(current \in replaced)
        BY <1>1, <2>1, <3>2 DEF RetiredRecorded
      <4> QED
        BY <1>1, <2>9, <3>2, <4>1
    <3> QED
      BY <2>2, <3>1, <3>2
  <2> QED
    BY <2>a, <2>b, <2>c, <2>d, <2>e, <2>f, <2>g
<1>3. CASE oldCerts[OldHash(current, q.cert)] # NoEntry
  <2>1. /\ pc' = [pc EXCEPT ![q] = "refused"]
        /\ UNCHANGED <<rows, oldCerts, now, dev, replaced, faults>>
    BY <1>3 DEF RotateCert
  <2> QED
    BY <2>1 DEF TypeOK, RowRead, OwnCerts, RotatesFrom, EntryOutlives,
                CurrentNotRetired, RetiredRecorded
<1> QED
  BY <1>2, <1>3

\* Checking in changes neither certificates nor old_certs.
LEMMA CheckInInv ==
  ASSUME AuthInv, NEW q \in Requests, CheckIn(q)
  PROVE  AuthInv'
<1> USE RequestParts DEF AuthInv
<1>1. /\ dev[q] \in Row /\ rows[Device(q)] \in Row
      /\ HeaderTag(q) \in Tags \cup {NoTag}
  BY DEF CheckIn, TypeOK, RowRead, Row, HeaderTag
<1>2. /\ pc' = [pc EXCEPT ![q] = "served"]
      /\ UNCHANGED <<oldCerts, now, replaced>>
  BY DEF CheckIn
<1>3. /\ dev' \in [Requests -> Row \cup {NoRow}]
      /\ \A p \in Requests : p # q => dev'[p] = dev[p]
  BY <1>1 DEF CheckIn, TypeOK, Row
<1>4. /\ rows' \in [Devices -> Row \cup {NoRow}]
      /\ \A d \in Devices : /\ rows'[d] = NoRow <=> rows[d] = NoRow
                            /\ rows[d] # NoRow => rows'[d].cert = rows[d].cert
  <2>1. CASE UNCHANGED rows
    BY <2>1 DEF TypeOK
  <2>2. CASE rows' = [rows EXCEPT ![Device(q)].tag = HeaderTag(q),
                                  ![Device(q)].lastSeen = now]
    <3>a. rows'[Device(q)] = [rows[Device(q)] EXCEPT !.tag = HeaderTag(q), !.lastSeen = now]
      BY <2>2 DEF TypeOK
    <3>b. now \in Nat
      BY DEF TypeOK
    <3>c. LET r == rows[Device(q)]
          IN  /\ [r EXCEPT !.tag = HeaderTag(q), !.lastSeen = now] \in Row
              /\ [r EXCEPT !.tag = HeaderTag(q), !.lastSeen = now].cert = r.cert
      BY <1>1, <3>b, CheckedInRow, Zenon
    <3>1. /\ rows'[Device(q)] \in Row
          /\ rows'[Device(q)].cert = rows[Device(q)].cert
      BY <3>a, <3>c, Zenon
    <3>2. \A d \in Devices : d # Device(q) => rows'[d] = rows[d]
      BY <2>2 DEF TypeOK
    <3>3. rows'[Device(q)] # NoRow /\ rows[Device(q)] # NoRow
      BY <1>1, <3>1, AuthAssumption DEF Row
    <3>4. rows' \in [Devices -> Row \cup {NoRow}]
      BY <2>2, <3>1, <3>2 DEF TypeOK
    <3> QED
      BY <3>1, <3>2, <3>3, <3>4
  <2> QED
    BY <2>1, <2>2 DEF CheckIn
<1>5. faults' \in 0..MaxFaults
  BY AuthAssumption DEF CheckIn, Fault, TypeOK
<1>6. TypeOK'
  BY <1>2, <1>3, <1>4, <1>5 DEF TypeOK
<1>7. RowRead' /\ RotatesFrom'
  BY <1>2, <1>3, <1>4 DEF TypeOK, RowRead, RotatesFrom
<1>8. OwnCerts' /\ CurrentNotRetired'
  BY <1>2, <1>4, AuthAssumption DEF OwnCerts, CurrentNotRetired
<1>9. EntryOutlives' /\ RetiredRecorded'
  BY <1>2 DEF EntryOutlives, RetiredRecorded
<1> QED
  BY <1>6, <1>7, <1>8, <1>9

\* The API's calls keep the invariant.
LEMMA ApiInv ==
  ASSUME AuthInv,
         \/ \E c \in Certs : DevicePut(c)
         \/ \E d \in Devices : DeleteDevice(d) \/ UndenyDevice(d)
  PROVE  AuthInv'
<1> USE RequestParts DEF AuthInv
<1>1. UNCHANGED <<oldCerts, now, pc, dev, replaced, faults>>
  BY DEF DevicePut, DeleteDevice, UndenyDevice
<1>2. EntryOutlives' /\ RetiredRecorded'
  BY <1>1 DEF EntryOutlives, RetiredRecorded
<1>3. CASE \E c \in Certs : DevicePut(c)
  <2>1. PICK c \in Certs : DevicePut(c)
    BY <1>3
  <2> DEFINE row == [cert |-> c, deleted |-> FALSE, tag |-> NoTag, lastSeen |-> 0]
  <2>a. row \in Row /\ row.cert = c
    BY DEF Row
  <2>2. row \in Row /\ row # NoRow /\ row.cert = c /\ Owner[c] \in Devices
    BY <2>a, AuthAssumption DEF Row
  <2>3. rows[Owner[c]] = NoRow /\ rows' = [rows EXCEPT ![Owner[c]] = row]
    BY <2>1 DEF DevicePut
  <2> HIDE DEF row
  <2>4. TypeOK'
    BY <1>1, <2>2, <2>3 DEF TypeOK
  <2>5. RowRead' /\ OwnCerts' /\ RotatesFrom' /\ CurrentNotRetired'
    BY <1>1, <2>2, <2>3
    DEF TypeOK, RowRead, OwnCerts, RotatesFrom, CurrentNotRetired
  <2> QED
    BY <1>2, <2>4, <2>5
<1>4. CASE \E d \in Devices : DeleteDevice(d) \/ UndenyDevice(d)
  <2>1. PICK d \in Devices, b \in BOOLEAN :
          rows[d] # NoRow /\ rows' = [rows EXCEPT ![d].deleted = b]
    BY <1>4 DEF DeleteDevice, UndenyDevice
  <2>2. rows[d] \in Row /\ rows'[d] \in Row /\ rows'[d].cert = rows[d].cert
    BY <2>1 DEF TypeOK, Row
  <2>3. rows'[d] # NoRow
    BY <2>2, AuthAssumption DEF Row
  <2>4. \A e \in Devices : e # d => rows'[e] = rows[e]
    BY <2>1 DEF TypeOK
  <2>5. rows' \in [Devices -> Row \cup {NoRow}]
    BY <2>1, <2>2, <2>4 DEF TypeOK
  <2>6. TypeOK'
    BY <1>1, <2>5 DEF TypeOK
  <2>7. RowRead' /\ OwnCerts' /\ RotatesFrom' /\ CurrentNotRetired'
    BY <1>1, <2>1, <2>2, <2>3, <2>4, AuthAssumption
    DEF TypeOK, RowRead, OwnCerts, RotatesFrom, CurrentNotRetired
  <2> QED
    BY <1>2, <2>6, <2>7
<1> QED
  BY <1>3, <1>4

\* Deleting expired entries and the passing of time keep the invariant: an entry
\* that the GC deletes is that of an expired certificate.
LEMMA TimeInv ==
  ASSUME AuthInv, CertGc \/ Tick
  PROVE  AuthInv'
<1> USE DEF AuthInv
<1>1. CASE CertGc
  <2>1. /\ oldCerts' = [c \in Certs |-> IF Expired(c) THEN NoEntry ELSE oldCerts[c]]
        /\ UNCHANGED <<rows, now, pc, dev, replaced, faults>>
    BY <1>1 DEF CertGc
  <2>2. \A c \in Certs : oldCerts'[c] = oldCerts[c] \/ (Expired(c) /\ oldCerts'[c] = NoEntry)
    BY <2>1
  <2>3. \A c \in Certs : Expired(c) => NotAfter[c] <= now
    BY AuthAssumption DEF Expired, EntryOutlives, TypeOK
  <2>4. TypeOK' /\ RowRead' /\ RotatesFrom'
    BY <2>1 DEF TypeOK, RowRead, RotatesFrom
  <2>5. OwnCerts' /\ EntryOutlives'
    BY <2>1, <2>2 DEF OwnCerts, EntryOutlives
  <2>6. CurrentNotRetired'
    BY <2>1, <2>2 DEF TypeOK, CurrentNotRetired, Row
  <2>7. RetiredRecorded'
    <3> SUFFICES ASSUME NEW c \in replaced,
                        \A e \in Certs : Owner[e] = Owner[c] => NotAfter[e] > now
                 PROVE  oldCerts'[c] # NoEntry
      BY <2>1 DEF RetiredRecorded
    <3>1. c \in Certs /\ NotAfter[c] \in Nat /\ now \in Nat
      BY AuthAssumption DEF TypeOK
    <3>2. ~Expired(c)
      BY <2>3, <3>1
    <3> QED
      BY <2>2, <3>1, <3>2 DEF RetiredRecorded
  <2> QED
    BY <2>4, <2>5, <2>6, <2>7
<1>2. CASE Tick
  <2>1. /\ now < MaxNow /\ now' = now + 1
        /\ UNCHANGED <<rows, oldCerts, pc, dev, replaced, faults>>
    BY <1>2 DEF Tick
  <2>2. TypeOK'
    BY <2>1, AuthAssumption DEF TypeOK
  <2>3. RowRead' /\ OwnCerts' /\ RotatesFrom' /\ EntryOutlives' /\ CurrentNotRetired'
    BY <2>1 DEF RowRead, OwnCerts, RotatesFrom, EntryOutlives, CurrentNotRetired
  <2>4. \A e \in Certs : NotAfter[e] > now' => NotAfter[e] > now
    BY <2>1, AuthAssumption DEF TypeOK
  <2>5. RetiredRecorded'
    BY <2>1, <2>4 DEF RetiredRecorded
  <2> QED
    BY <2>2, <2>3, <2>5
<1> QED
  BY <1>1, <1>2

-----------------------------------------------------------------------------
\* The inductive invariant holds at the start and is kept by every step.
THEOREM AuthInvariant == Spec => []AuthInv
<1>1. Init => AuthInv
  BY AuthAssumption
  DEF Init, AuthInv, TypeOK, RowRead, OwnCerts, RotatesFrom, EntryOutlives,
      CurrentNotRetired, RetiredRecorded
<1>2. AuthInv /\ [Next]_vars => AuthInv'
  <2> SUFFICES ASSUME AuthInv, [Next]_vars
               PROVE  AuthInv'
    OBVIOUS
  <2>1. ASSUME NEW q \in Requests, AuthFails(q)
        PROVE  AuthInv'
    BY <2>1, AuthAssumption
    DEF AuthFails, Fault, AuthInv, TypeOK, RowRead, OwnCerts, RotatesFrom,
        EntryOutlives, CurrentNotRetired, RetiredRecorded
  <2>2. CASE UNCHANGED vars
    BY <2>2
    DEF vars, AuthInv, TypeOK, RowRead, OwnCerts, RotatesFrom, EntryOutlives,
        CurrentNotRetired, RetiredRecorded
  <2> QED
    BY <2>1, <2>2, DeviceGetInv, DeviceCreateInv, RotateCertInv, CheckInInv, ApiInv,
       TimeInv
    DEF Next, Step
<1> QED
  BY <1>1, <1>2, PTL DEF Spec

\* Every variable stays in its domain.
THEOREM AuthTypeCorrect == Spec => []TypeOK
<1>1. AuthInv => TypeOK
  BY DEF AuthInv
<1> QED
  BY <1>1, AuthInvariant, PTL

\* The certificate a device is known by is never a retired one, for any
\* interleaving of authDevice requests and the certificate GC.
THEOREM NoRetiredInUse == Spec => []CurrentNotRetired
<1>1. AuthInv => CurrentNotRetired
  BY DEF AuthInv
<1> QED
  BY <1>1, AuthInvariant, PTL

\* A replaced certificate is on record as long as none of the device's has
\* expired: concurrent rotations that read the same row cannot lose one.
THEOREM RetiredStaysRecorded == Spec => []RetiredRecorded
<1>1. AuthInv => RetiredRecorded
  BY DEF AuthInv
<1> QED
  BY <1>1, AuthInvariant, PTL

=============================================================================
