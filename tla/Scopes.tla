------------------------------- MODULE Scopes -------------------------------
(* The access scopes of storage/users/scopes.go.  A Scopes value is a 64-bit  *)
(* mask; here it is the set of its bits, so that & is \cap, | is \cup and     *)
(* s & k = k is k \subseteq s.  A scope's name and its mask determine each    *)
(* other (maskToString), so a list of names is the set of their masks.        *)

(* Each resource has the bits Read, Update, Create and Delete; the constants  *)
(* group them under the names that a user may be granted.                     *)
ScopeDevicesR == {"devicesR"}
ScopeDevicesRU == {"devicesR", "devicesU"}
ScopeDevicesC == {"devicesC"}
ScopeDevicesD == {"devicesD"}
ScopeUpdatesR == {"updatesR"}
ScopeUpdatesRU == {"updatesR", "updatesU"}
ScopeUpdatesD == {"updatesD"}
ScopeUsersR == {"usersR"}
ScopeUsersRU == {"usersR", "usersU"}
ScopeUsersC == {"usersC"}
ScopeUsersD == {"usersD"}

maskToString ==
    {ScopeDevicesR, ScopeDevicesRU, ScopeDevicesC, ScopeDevicesD,
     ScopeUpdatesR, ScopeUpdatesRU, ScopeUpdatesD,
     ScopeUsersR, ScopeUsersRU, ScopeUsersC, ScopeUsersD}

Bits == UNION maskToString

(* What parsing a column that names no scope returns instead of a mask.       *)
Invalid == {"invalid"}

(* The broader scopes that include k: read-update includes read.              *)
maskInclusions(k) == {super \in maskToString : k \subseteq super /\ k # super}

(* The names written for a mask: the narrower ones that a broader one implies *)
(* are left out.                                                              *)
ToSlice(s) ==
    {k \in maskToString : k \subseteq s /\ \A super \in maskInclusions(k) : ~ super \subseteq s}

Has(s, scope) == scope \subseteq s

(* Any unknown name is an error; no names at all are the empty mask.          *)
ScopesFromSlice(names) == IF names \subseteq maskToString THEN UNION names ELSE Invalid

(* The empty text splits into one empty name, which is unknown: a mask without*)
(* scopes is written as "" and does not parse back.                           *)
ScopesFromString(names) == IF names = {} THEN Invalid ELSE ScopesFromSlice(names)
=============================================================================
