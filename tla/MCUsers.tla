------------------------------- MODULE MCUsers -------------------------------
(***************************************************************************)
(* Instances of Users for TLC: the first administrator and one more user.  *)
(***************************************************************************)
EXTENDS Users, TLC

CONSTANTS root, ann

MCAccounts ==
  root :> (ScopeUsersRU \cup ScopeUsersC \cup ScopeUsersD \cup ScopeDevicesRU)

MCNewUserScopes == ScopeDevicesRU

\* One user in an organization that is admitted, one in neither.
MCProfiles ==
  {[username |-> ann, orgs |-> {"acme", "other"}, domain |-> "none"],
   [username |-> root, orgs |-> {"other"}, domain |-> "none"]}

\* Two disjoint lists, the first within the administrator's scopes.
MCScopeLists == {{ScopeDevicesRU}, {ScopeUpdatesR}}

Symmetry == Permutations(Procs) \cup Permutations(SessionIds) \cup Permutations(TokenIds)
=============================================================================
