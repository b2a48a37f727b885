----------------------------- MODULE DeviceAuth -----------------------------
(***************************************************************************)
(* Authentication of devices at the gateway.                               *)
(*                                                                         *)
(* The common name of the client certificate names the device.  The first  *)
(* request creates the device's row, a request with another certificate    *)
(* than the row's rotates it: the replaced one goes to old_certs until it  *)
(* expires and must not come back.  Then the request checks the device in. *)
(* The row is read once, at the start: requests of one device run side by  *)
(* side, with the certificate GC daemon and with the API's calls.          *)
(*                                                                         *)
(* A request that dies with the process is one that takes no more steps:   *)
(* all state here is in SQLite, where a statement or transaction is atomic.*)
(* The event file that RotateCert leaves behind is not part of the module. *)
(***************************************************************************)
EXTENDS Integers

CONSTANTS
  Devices,    \* device uuids
  Certs,      \* client certificates
  Owner,      \* common name of each certificate
  NotAfter,   \* its expiry
  Tags,       \* values of the x-ats-tags header
  Requests,   \* the gateway requests that may arrive, once each
  MaxNow,     \* bound: the last moment
  MaxFaults,  \* bound: failing statements of one behaviour
  NoRow,      \* the device has no row
  NoTag,      \* the empty tag of a new row
  NoHeader,   \* the request has no x-ats-tags header
  NoEntry     \* the certificate is not in old_certs

ASSUME AuthAssumption ==
  /\ Owner \in [Certs -> Devices]
  /\ NotAfter \in [Certs -> Nat]
  /\ Requests \subseteq [id : Nat, cert : Certs, tag : Tags \cup {NoHeader}]
  /\ MaxNow \in Nat \ {0}
  /\ MaxFaults \in Nat
  /\ NoTag \notin Tags
  /\ NoHeader \notin Tags
  /\ NoEntry \notin Nat
  /\ NoRow \notin [cert : Certs, deleted : BOOLEAN, tag : Tags \cup {NoTag}, lastSeen : Nat]

VARIABLES
  rows,      \* devices table
  oldCerts,  \* old_certs table: certificate -> expires
  now,       \* the time, in units of the minute CheckIn compares with
  pc,        \* where each request is
  dev,       \* the row as the request read it
  replaced,  \* auxiliary: certificates that were current and are not any more
  faults

vars == <<rows, oldCerts, now, pc, dev, replaced, faults>>

Row == [cert : Certs, deleted : BOOLEAN, tag : Tags \cup {NoTag}, lastSeen : Nat]

Device(q) == Owner[q.cert]

Init ==
  /\ rows = [d \in Devices |-> NoRow]
  /\ oldCerts = [c \in Certs |-> NoEntry]
  /\ now = 1
  /\ pc = [q \in Requests |-> "idle"]
  /\ dev = [q \in Requests |-> NoRow]
  /\ replaced = {}
  /\ faults = 0

Fault == faults < MaxFaults /\ faults' = faults + 1

-----------------------------------------------------------------------------
(* authDevice *)

DeviceGet(q) ==
  /\ pc[q] = "idle"
  /\ LET row == rows[Device(q)]
     IN  /\ dev' = [dev EXCEPT ![q] = row]
         /\ pc' = [pc EXCEPT ![q] = IF row = NoRow THEN "create"
                                    ELSE IF row.deleted THEN "refused"
                                    ELSE IF row.cert # q.cert THEN "rotate"
                                    ELSE "checkin"]
  /\ UNCHANGED <<rows, oldCerts, now, replaced, faults>>

\* Mutant: the row is built from what the headers say, absent or not.
DeviceCreateFromHeader(q) ==
  /\ pc[q] = "create"
  /\ rows' = [rows EXCEPT ![Device(q)] = [cert |-> q.cert, deleted |-> FALSE,
                                          tag |-> q.tag, lastSeen |-> now]]
  /\ dev' = [dev EXCEPT ![q] = rows'[Device(q)]]
  /\ pc' = [pc EXCEPT ![q] = "checkin"]
  /\ UNCHANGED <<oldCerts, now, replaced, faults>>

\* INSERT INTO devices fails if the row exists by now.
DeviceCreate(q) ==
  /\ pc[q] = "create"
  /\ LET row == [cert |-> q.cert, deleted |-> FALSE, tag |-> NoTag, lastSeen |-> now]
     IN  IF rows[Device(q)] = NoRow
           THEN /\ rows' = [rows EXCEPT ![Device(q)] = row]
                /\ dev' = [dev EXCEPT ![q] = row]
                /\ pc' = [pc EXCEPT ![q] = "checkin"]
           ELSE /\ pc' = [pc EXCEPT ![q] = "refused"]
                /\ UNCHANGED <<rows, dev>>
  /\ UNCHANGED <<oldCerts, now, replaced, faults>>

\* Mutant: the new certificate is not looked up in old_certs.
OldHashUnchecked(current, next) == current

\* The hash that the rotation inserts: inserting the new certificate's is how it
\* fails on the primary key when that certificate is in old_certs.
OldHash(current, next) == IF oldCerts[next] = NoEntry THEN current ELSE next

Expires(current) == IF NotAfter[current] < now THEN now ELSE NotAfter[current]

\* Mutant: the replaced certificate goes in with INSERT OR IGNORE.
RotateCertIgnoresDuplicate(q) ==
  /\ pc[q] = "rotate"
  /\ LET d       == Device(q)
         current == dev[q].cert
     IN  IF oldCerts[q.cert] = NoEntry
           THEN /\ oldCerts' = [oldCerts EXCEPT ![current] =
                                   IF @ = NoEntry THEN Expires(current) ELSE @]
                /\ rows' = [rows EXCEPT ![d].cert = q.cert]
                /\ dev' = [dev EXCEPT ![q].cert = q.cert]
                /\ replaced' = (replaced \cup {rows[d].cert}) \ {q.cert}
                /\ pc' = [pc EXCEPT ![q] = "checkin"]
           ELSE /\ pc' = [pc EXCEPT ![q] = "refused"]
                /\ UNCHANGED <<oldCerts, rows, dev, replaced>>
  /\ UNCHANGED <<now, faults>>

\* The transaction of RotateCert: INSERT INTO old_certs, UPDATE devices.
RotateCert(q) ==
  /\ pc[q] = "rotate"
  /\ LET d       == Device(q)
         current == dev[q].cert
         hash    == OldHash(current, q.cert)
     IN  IF oldCerts[hash] = NoEntry
           THEN /\ oldCerts' = [oldCerts EXCEPT ![hash] = Expires(current)]
                /\ rows' = [rows EXCEPT ![d].cert = q.cert]
                /\ dev' = [dev EXCEPT ![q].cert = q.cert]
                /\ replaced' = (replaced \cup {rows[d].cert}) \ {q.cert}
                /\ pc' = [pc EXCEPT ![q] = "checkin"]
           ELSE /\ pc' = [pc EXCEPT ![q] = "refused"]
                /\ UNCHANGED <<oldCerts, rows, dev, replaced>>
  /\ UNCHANGED <<now, faults>>

\* A statement of authDevice fails: 502.
AuthFails(q) ==
  /\ pc[q] \in {"idle", "create", "rotate"}
  /\ pc' = [pc EXCEPT ![q] = "refused"]
  /\ Fault
  /\ UNCHANGED <<rows, oldCerts, now, dev, replaced>>

-----------------------------------------------------------------------------
\* The tag that the request checks in with.
HeaderTag(q) == IF q.tag = NoHeader THEN dev[q].tag ELSE q.tag

\* checkinDevice: the row is written unless nothing has changed for the request
\* since it was read, less than a minute ago.  An error is only logged.
CheckIn(q) ==
  /\ pc[q] = "checkin"
  /\ pc' = [pc EXCEPT ![q] = "served"]
  /\ \/ /\ HeaderTag(q) = dev[q].tag /\ dev[q].lastSeen = now
        /\ UNCHANGED <<rows, dev, faults>>
     \/ /\ ~(HeaderTag(q) = dev[q].tag /\ dev[q].lastSeen = now)
        /\ dev' = [dev EXCEPT ![q].tag = HeaderTag(q), ![q].lastSeen = now]
        /\ \/ /\ rows' = [rows EXCEPT ![Device(q)].tag = HeaderTag(q),
                                      ![Device(q)].lastSeen = now]
              /\ UNCHANGED faults
           \/ Fault /\ UNCHANGED rows
  /\ UNCHANGED <<oldCerts, now, replaced>>

-----------------------------------------------------------------------------
(* The API.  A lookup and the statement that follows it are one step.        *)

\* POST /devices/ with a certificate signed for the device.
DevicePut(c) ==
  /\ rows[Owner[c]] = NoRow
  /\ rows' = [rows EXCEPT ![Owner[c]] =
                [cert |-> c, deleted |-> FALSE, tag |-> NoTag, lastSeen |-> 0]]
  /\ UNCHANGED <<oldCerts, now, pc, dev, replaced, faults>>

DeleteDevice(d) ==
  /\ rows[d] # NoRow /\ ~rows[d].deleted
  /\ rows' = [rows EXCEPT ![d].deleted = TRUE]
  /\ UNCHANGED <<oldCerts, now, pc, dev, replaced, faults>>

UndenyDevice(d) ==
  /\ rows[d] # NoRow /\ rows[d].deleted
  /\ rows' = [rows EXCEPT ![d].deleted = FALSE]
  /\ UNCHANGED <<oldCerts, now, pc, dev, replaced, faults>>

-----------------------------------------------------------------------------
\* DELETE FROM old_certs WHERE expires <= now.
Expired(c) == oldCerts[c] # NoEntry /\ oldCerts[c] <= now

CertGc ==
  /\ \E c \in Certs : Expired(c)
  /\ oldCerts' = [c \in Certs |-> IF Expired(c) THEN NoEntry ELSE oldCerts[c]]
  /\ UNCHANGED <<rows, now, pc, dev, replaced, faults>>

Tick ==
  /\ now < MaxNow
  /\ now' = now + 1
  /\ UNCHANGED <<rows, oldCerts, pc, dev, replaced, faults>>

-----------------------------------------------------------------------------
Step(q) ==
  \/ DeviceGet(q) \/ DeviceCreate(q) \/ RotateCert(q) \/ AuthFails(q) \/ CheckIn(q)

Next ==
  \/ \E q \in Requests : Step(q)
  \/ \E c \in Certs : DevicePut(c)
  \/ \E d \in Devices : DeleteDevice(d) \/ UndenyDevice(d)
  \/ CertGc
  \/ Tick

Spec == Init /\ [][Next]_vars

-----------------------------------------------------------------------------
(* Properties *)

\* Every variable stays in its domain.
TypeOK ==
  /\ rows \in [Devices -> Row \cup {NoRow}]
  /\ oldCerts \in [Certs -> Nat \cup {NoEntry}]
  /\ now \in 1..MaxNow
  /\ pc \in [Requests -> {"idle", "create", "rotate", "checkin", "refused", "served"}]
  /\ dev \in [Requests -> Row \cup {NoRow}]
  /\ replaced \subseteq Certs
  /\ faults \in 0..MaxFaults

\* The certificate that a device is known by is never among the retired ones,
\* however rotations of the device with stale views of its row interleave with
\* each other and with the GC.
CurrentNotRetired ==
  \A d \in Devices : rows[d] # NoRow => oldCerts[rows[d].cert] = NoEntry

\* A certificate that was replaced is on record in old_certs, so that RotateCert
\* cannot take it back, as long as no certificate of the device has expired.  (A
\* rotation from an expired certificate whose entry the GC has already deleted
\* can be repeated from a stale view, and the entry it makes is then not that of
\* the certificate it replaces.)
RetiredRecorded ==
  \A c \in replaced :
    (\A e \in Certs : Owner[e] = Owner[c] => NotAfter[e] > now) => oldCerts[c] # NoEntry

=============================================================================
