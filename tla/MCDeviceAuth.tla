---------------------------- MODULE MCDeviceAuth ----------------------------
(***************************************************************************)
(* Instances of DeviceAuth for TLC: one device with three certificates.    *)
(***************************************************************************)
EXTENDS DeviceAuth

CONSTANTS d1, c1, c2, c3, t1

MCOwner == [c \in Certs |-> d1]

\* The first certificate expires within the run, the others after it.
MCNotAfter == [c \in Certs |-> IF c = c1 THEN 2 ELSE 3]

\* The device comes back to its first certificate.
Rotations ==
  {[id |-> 1, cert |-> c1, tag |-> NoHeader],
   [id |-> 2, cert |-> c2, tag |-> t1],
   [id |-> 3, cert |-> c3, tag |-> NoHeader],
   [id |-> 4, cert |-> c1, tag |-> t1]}

=============================================================================
