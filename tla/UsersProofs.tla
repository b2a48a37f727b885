---------------------------- MODULE UsersProofs ------------------------------
(***************************************************************************)
(* Proofs about users, tokens, sessions and the device flow, for any       *)
(* users, scopes, codes and lifetimes and any number of requests that run  *)
(* side by side.                                                           *)
(***************************************************************************)
EXTENDS Users, TLAPS

-----------------------------------------------------------------------------
(* The inductive invariant *)

Ops == Writes \cup {"session", "token", "authorize", "deny", "consume"}
Requests == [op : Ops, user : Copy, scopes : Masks, on : Codes \cup {NoRow}]

\* A poll of the code c that has found it authorized and has not ended.
Polls(p, c) == req[p].op \in {"consume", "token"} /\ req[p].on = c

\* Every request in progress is about a user that exists, unless it decides on a
\* code, and those of the device flow are about a code.
RequestsOK ==
  /\ req \in [Procs -> Requests \cup {Idle}]
  /\ \A p \in Procs :
       /\ req[p].op \in Writes \cup {"session", "token", "consume"} => req[p].user.name \in UserNames
       /\ req[p].op \in {"authorize", "deny", "consume"} => req[p].on \in Codes

TypeInv == TypeOK /\ RequestsOK

\* A copy that will be written back is of a row that exists, and gives no more
\* than the administrator's last grant, unless it is itself a grant.
CopiesWithinGrant ==
  \A p \in Procs : req[p].op \in Writes =>
    LET u == req[p].user.name
    IN  /\ users[u] # NoRow
        /\ u \notin mixed =>
             IF req[p].scopes = {} THEN req[p].user.scopes \subseteq granted[u]
                                   ELSE req[p].user.scopes = req[p].scopes

RowsWithinGrant ==
  \A u \in UserNames \ mixed : users[u] # NoRow => users[u].scopes \subseteq granted[u]

\* A user whose deletion has completed is deleted and nobody holds a copy.
NoCopyOfDeleted ==
  \A u \in gone \ mixed : users[u] # NoRow /\ users[u].deleted /\ Holders(u) = {}

UsersInv == CopiesWithinGrant /\ RowsWithinGrant /\ NoCopyOfDeleted

\* An authorized code carries what its approval gave, and so does a poll of it.
ApprovalKept ==
  /\ \A p \in Procs : req[p].op = "authorize" => req[p].scopes \subseteq req[p].user.scopes
  /\ \A c \in Codes : Present(codes[c]) /\ codes[c].authorized =>
       codes[c].user = approval[c].name /\ codes[c].scopes \subseteq approval[c].scopes
  /\ \A p \in Procs, c \in Codes : Polls(p, c) =>
       /\ codes[c] = Removed \/ (Present(codes[c]) /\ codes[c].authorized)
       /\ req[p].scopes \subseteq approval[c].scopes
       /\ req[p].user.name = approval[c].name

\* The poll that will issue the token of a code is the only one, and has deleted
\* the code before.
OnePoll ==
  \A c \in Codes :
    /\ issued[c] > 0 => codes[c] = Removed
    /\ \A p \in Procs : Polls(p, c) /\ req[p].op = "token" => codes[c] = Removed
    /\ c \notin dup => /\ issued[c] <= 1
                       /\ \A p \in Procs : Polls(p, c) => issued[c] = 0
                       /\ \A p, q \in Procs : Polls(p, c) /\ Polls(q, c) => p = q

CodesInv == ApprovalKept /\ OnePoll

\* A mask that scope names can express: an update bit comes with its read bit.
Closed(s) ==
  /\ s \subseteq Bits
  /\ "devicesU" \in s => "devicesR" \in s
  /\ "updatesU" \in s => "updatesR" \in s
  /\ "usersU" \in s => "usersR" \in s

\* Every mask can be written as names and read back.
MasksClosed ==
  /\ \A u \in UserNames : users[u] # NoRow => Closed(users[u].scopes)
  /\ \A s \in SessionIds : Present(sessions[s]) => Closed(sessions[s].scopes)
  /\ \A t \in TokenIds : Present(tokens[t]) => Closed(tokens[t].scopes)
  /\ \A c \in Codes : Present(codes[c]) => Closed(codes[c].scopes)
  /\ \A p \in Procs : req[p] # Idle => Closed(req[p].user.scopes) /\ Closed(req[p].scopes)

\* A token has a scope, and so has a request that will issue one.
TokensHaveScopes ==
  /\ \A t \in TokenIds : Present(tokens[t]) => tokens[t].scopes # {} \/ tokens[t].user \in emptied
  /\ \A p \in Procs : req[p].op \in {"token", "consume"} =>
       req[p].scopes # {} \/ req[p].user.name \in emptied

TokensInv == MasksClosed /\ TokensHaveScopes

Inv == TypeInv /\ UsersInv /\ CodesInv /\ TokensInv

-----------------------------------------------------------------------------
(* Scopes *)

\* The names stand for sets of known bits that are not empty and hold no update
\* bit without its read bit.
LEMMA NamesClosed ==
  ASSUME NEW k \in maskToString
  PROVE  Closed(k) /\ k # {}
BY DEF maskToString, Bits, Closed, ScopeDevicesR, ScopeDevicesRU, ScopeDevicesC, ScopeDevicesD,
       ScopeUpdatesR, ScopeUpdatesRU, ScopeUpdatesD, ScopeUsersR, ScopeUsersRU, ScopeUsersC,
       ScopeUsersD

\* ScopesFromSlice turns at least one name into a mask of the same kind.
LEMMA ListClosed ==
  ASSUME NEW names \in (SUBSET maskToString) \ {{}}
  PROVE  /\ ScopesFromSlice(names) \in Masks
         /\ Closed(ScopesFromSlice(names))
         /\ ScopesFromSlice(names) # {}
<1>1. ScopesFromSlice(names) = UNION names
  BY DEF ScopesFromSlice
<1>2. \A k \in names : Closed(k) /\ k # {}
  BY NamesClosed
<1> QED
  BY <1>1, <1>2 DEF Closed, Masks

\* The same of what an account or the configuration grants.
LEMMA GrantsClosed ==
  ASSUME NEW g \in Grants
  PROVE  g \in Masks /\ Closed(g) /\ g # {}
BY ListClosed DEF Grants

\* What two masks have in common is such a mask too.
LEMMA ClosedCap ==
  ASSUME NEW s, NEW t, Closed(s), Closed(t)
  PROVE  Closed(s \cap t)
BY DEF Closed

\* A name that no other includes is among the names of a mask that holds it.
LEMMA Maximal ==
  ASSUME NEW s, NEW k \in maskToString, k \subseteq s,
         \A super \in maskToString : k \subseteq super /\ super \subseteq s => super = k
  PROVE  ToSlice(s) # {}
BY DEF ToSlice, maskInclusions

\* A mask with a scope is written as at least one name, and the names parse.
LEMMA ClosedParses ==
  ASSUME NEW s, Closed(s), s # {}
  PROVE  ScopesFromString(ToSlice(s)) # Invalid
<1> USE DEF ScopeDevicesR, ScopeDevicesRU, ScopeDevicesC, ScopeDevicesD, ScopeUpdatesR,
            ScopeUpdatesRU, ScopeUpdatesD, ScopeUsersR, ScopeUsersRU, ScopeUsersC, ScopeUsersD
<1>1. ToSlice(s) # {}
  <2>1. PICK b \in s : b \in Bits
    BY DEF Closed
  <2>2. ASSUME NEW r, NEW u, {r} \in maskToString, {r, u} \in maskToString, r \in s,
               \A super \in maskToString : r \in super => super \in {{r}, {r, u}}
        PROVE  ToSlice(s) # {}
    <3>1. CASE u \in s
      <4>1. \A super \in maskToString : {r, u} \subseteq super /\ super \subseteq s => super = {r, u}
        BY <2>2
      <4>2. {r, u} \subseteq s
        BY <2>2, <3>1
      <4> QED
        BY <2>2, <4>1, <4>2, Maximal
    <3>2. CASE u \notin s
      <4>1. \A super \in maskToString : {r} \subseteq super /\ super \subseteq s => super = {r}
        BY <2>2, <3>2
      <4> QED
        BY <2>2, <4>1, Maximal
    <3> QED
      BY <3>1, <3>2
  <2>3. ASSUME NEW x, {x} \in maskToString, x \in s,
               \A super \in maskToString : x \in super => super = {x}
        PROVE  ToSlice(s) # {}
    BY <2>3, Maximal
  <2>4. "devicesR" \in s => ToSlice(s) # {}
    <3>1. \A super \in maskToString : "devicesR" \in super => super \in {{"devicesR"}, {"devicesR", "devicesU"}}
      BY DEF maskToString
    <3>2. {"devicesR"} \in maskToString /\ {"devicesR", "devicesU"} \in maskToString
      BY DEF maskToString
    <3> QED
      BY <2>2, <3>1, <3>2
  <2>5. "updatesR" \in s => ToSlice(s) # {}
    <3>1. \A super \in maskToString : "updatesR" \in super => super \in {{"updatesR"}, {"updatesR", "updatesU"}}
      BY DEF maskToString
    <3>2. {"updatesR"} \in maskToString /\ {"updatesR", "updatesU"} \in maskToString
      BY DEF maskToString
    <3> QED
      BY <2>2, <3>1, <3>2
  <2>6. "usersR" \in s => ToSlice(s) # {}
    <3>1. \A super \in maskToString : "usersR" \in super => super \in {{"usersR"}, {"usersR", "usersU"}}
      BY DEF maskToString
    <3>2. {"usersR"} \in maskToString /\ {"usersR", "usersU"} \in maskToString
      BY DEF maskToString
    <3> QED
      BY <2>2, <3>1, <3>2
  <2>7. \A x \in {"devicesC", "devicesD", "updatesD", "usersC", "usersD"} :
          x \in s => ToSlice(s) # {}
    BY <2>3 DEF maskToString
  <2> QED
    BY <2>1, <2>4, <2>5, <2>6, <2>7 DEF Bits, maskToString, Closed
<1>2. ToSlice(s) \subseteq maskToString
  BY DEF ToSlice
<1>3. "invalid" \notin UNION ToSlice(s)
  BY <1>2 DEF maskToString
<1> QED
  BY <1>1, <1>2, <1>3 DEF ScopesFromString, ScopesFromSlice, Invalid

-----------------------------------------------------------------------------
(* Lookups *)

Live(u) == users[u] # NoRow /\ ~users[u].deleted

\* A user that is found, by name or by id, is a live row's copy.
LEMMA UserFound ==
  ASSUME TypeOK, NEW u \in UserNames \cup {NoUser}
  PROVE  /\ stmtUserGetById(u) \in Copy
         /\ stmtUserGetById(u) # Nobody =>
              /\ u \in UserNames /\ Live(u)
              /\ stmtUserGetById(u) = [name |-> u, scopes |-> users[u].scopes]
         /\ u \in UserNames => stmtUserGetByName(u) = stmtUserGetById(u)
<1>1. Nobody \in Copy
  BY DEF Nobody, Copy, Masks
<1>2. ASSUME u \in UserNames, users[u] # NoRow
      PROVE  [name |-> u, scopes |-> users[u].scopes] \in Copy
  BY <1>2 DEF TypeOK, Row, Copy
<1> QED
  BY <1>1, <1>2 DEF stmtUserGetById, stmtUserGetByName, Live

\* The user of a session is a live user with at most the scopes of the session
\* and the user, or nobody.
LEMMA SessionUser ==
  ASSUME TypeOK, NEW s \in SessionIds, GetSession(s)
  PROVE  /\ GetBySession(s) \in Copy
         /\ GetBySession(s).name # NoUser =>
              LET u == GetBySession(s).name
              IN  /\ u \in UserNames /\ Live(u)
                  /\ GetBySession(s).scopes = sessions[s].scopes \cap users[u].scopes
         /\ GetBySession(s).name = NoUser => GetBySession(s).scopes = {}
         /\ Present(sessions[s])
<1> DEFINE u == sessions[s].user
<1>1. sessions[s] \in Session /\ Present(sessions[s])
  BY DEF TypeOK, GetSession, Present
<1>2. u \in UserNames /\ sessions[s].scopes \in Masks
  BY <1>1 DEF Session
<1>3. CASE stmtUserGetById(u) = Nobody
  <2>1. GetBySession(s) = [name |-> NoUser, scopes |-> sessions[s].scopes \cap {}]
    BY <1>3 DEF GetBySession, Nobody
  <2> QED
    BY <1>1, <2>1 DEF Copy, Masks
<1>4. CASE stmtUserGetById(u) # Nobody
  <2>1. Live(u) /\ stmtUserGetById(u) = [name |-> u, scopes |-> users[u].scopes]
    BY <1>2, <1>4, UserFound
  <2>2. GetBySession(s) = [name |-> u, scopes |-> sessions[s].scopes \cap users[u].scopes]
    BY <2>1 DEF GetBySession
  <2>3. u # NoUser
    BY <1>2, UsersAssumption DEF NoUser
  <2> QED
    BY <1>1, <1>2, <2>1, <2>2, <2>3 DEF Copy, Masks
<1> QED
  BY <1>3, <1>4

-----------------------------------------------------------------------------
(* The steps' shapes *)

\* A row is inserted for a username that has none.
NewUser(u, scopes) ==
  /\ users[u] = NoRow
  /\ users' = [users EXCEPT ![u] = [scopes |-> scopes, deleted |-> FALSE]]
  /\ granted' = [granted EXCEPT ![u] = scopes]

\* What is known of a request that has just begun.
Begun(r) ==
  /\ r \in Requests
  /\ r.op \in Writes =>
       /\ r.user.name \in UserNames /\ Live(r.user.name)
       /\ IF r.scopes = {} THEN r.user.scopes \subseteq users[r.user.name].scopes
                           ELSE r.user.scopes = r.scopes
  /\ r.op = "session" => r.user.name \in UserNames
  /\ r.op = "token" => r.user.name \in UserNames /\ r.on = NoRow /\ r.scopes # {}
  /\ r.op = "authorize" => r.on \in Codes /\ r.scopes \subseteq r.user.scopes
  /\ r.op = "deny" => r.on \in Codes
  /\ r.op = "consume" =>
       /\ r.user.name \in UserNames /\ r.on \in Codes
       /\ Present(codes[r.on]) /\ codes[r.on].authorized
       /\ r.user.name = codes[r.on].user /\ r.scopes \subseteq codes[r.on].scopes
       /\ dup' = IF \E q \in Procs : req[q].op = "consume" /\ req[q].on = r.on
                   THEN dup \cup {r.on} ELSE dup
       /\ emptied' = IF r.scopes = {} THEN emptied \cup {r.user.name} ELSE emptied
  /\ r.op # "consume" => UNCHANGED <<dup, emptied>>
  /\ MasksClosed => Closed(r.user.scopes) /\ Closed(r.scopes)

Begins(p, r) ==
  /\ Begun(r)
  /\ req[p] = Idle /\ req' = [req EXCEPT ![p] = r]
  /\ UNCHANGED <<sessions, tokens, codes, now, gone, mixed, issued, approval>>
  /\ \/ UNCHANGED <<users, granted>>
     \/ r.op = "session" /\ \E u \in UserNames : NewUser(u, NewUserScopes)

\* The requests that read a user by name.
LEMMA ByNameBegins ==
  ASSUME TypeInv, NEW p \in Procs, NEW u \in UserNames
  PROVE  /\ handleLogin(p, u) => \E r \in Requests : Begins(p, r)
         /\ \A s \in SessionIds : userDelete(p, s, u) => \E r \in Requests : Begins(p, r)
         /\ \A s \in SessionIds : handlePasswordReset(p, s, u) => \E r \in Requests : Begins(p, r)
         /\ \A s \in SessionIds, names \in ScopeLists :
              userScopesUpdate(p, s, u, names) => \E r \in Requests : Begins(p, r)
<1> USE DEF TypeInv
<1> DEFINE w == stmtUserGetByName(u)
<1>0. {} \in Masks /\ Closed({})
  BY DEF Masks, Closed
<1>1. ASSUME w # Nobody
      PROVE  /\ w \in Copy /\ w.name = u /\ w.scopes = users[u].scopes /\ Live(u)
             /\ MasksClosed => Closed(w.scopes)
  <2>1. Live(u) /\ w = [name |-> u, scopes |-> users[u].scopes] /\ w \in Copy
    BY <1>1, UserFound
  <2> QED
    BY <2>1 DEF MasksClosed, Live
<1>2. ASSUME handleLogin(p, u)
      PROVE  \E r \in Requests : Begins(p, r)
  <2> DEFINE r == Request("session", w, w.scopes, NoRow)
  <2>1. w # Nobody /\ req[p] = Idle /\ req' = [req EXCEPT ![p] = r] /\ UNCHANGED <<tables, now, aux>>
    BY <1>2 DEF handleLogin, Start
  <2>2. r \in Requests
    BY <1>1, <2>1 DEF Request, Requests, Ops, Copy
  <2>3. Begun(r)
    BY <1>1, <2>1, <2>2 DEF Begun, Request, Writes, aux
  <2> QED
    BY <2>1, <2>2, <2>3 DEF Begins, tables, aux
<1>3. ASSUME NEW s \in SessionIds, userDelete(p, s, u)
      PROVE  \E r \in Requests : Begins(p, r)
  <2> DEFINE r == Request("deleteTokens", w, {}, NoRow)
  <2>1. w # Nobody /\ req[p] = Idle /\ req' = [req EXCEPT ![p] = r] /\ UNCHANGED <<tables, now, aux>>
    BY <1>3 DEF userDelete, Start
  <2>2. r \in Requests
    BY <1>0, <1>1, <2>1 DEF Request, Requests, Ops, Writes
  <2>3. Begun(r)
    BY <1>0, <1>1, <2>1, <2>2 DEF Begun, Request, Writes, aux
  <2> QED
    BY <2>1, <2>2, <2>3 DEF Begins, tables, aux
<1>4. ASSUME NEW s \in SessionIds, handlePasswordReset(p, s, u)
      PROVE  \E r \in Requests : Begins(p, r)
  <2> DEFINE r == Request("update", w, {}, NoRow)
  <2>1. w # Nobody /\ req[p] = Idle /\ req' = [req EXCEPT ![p] = r] /\ UNCHANGED <<tables, now, aux>>
    BY <1>4 DEF handlePasswordReset, Start
  <2>2. r \in Requests
    BY <1>0, <1>1, <2>1 DEF Request, Requests, Ops, Writes
  <2>3. Begun(r)
    BY <1>0, <1>1, <2>1, <2>2 DEF Begun, Request, Writes, aux
  <2> QED
    BY <2>1, <2>2, <2>3 DEF Begins, tables, aux
<1>5. ASSUME NEW s \in SessionIds, NEW names \in ScopeLists, userScopesUpdate(p, s, u, names)
      PROVE  \E r \in Requests : Begins(p, r)
  <2> DEFINE g == ScopesFromSlice(names)
             r == Request("update", [name |-> u, scopes |-> g], g, NoRow)
  <2>1. w # Nobody /\ req[p] = Idle /\ req' = [req EXCEPT ![p] = r] /\ UNCHANGED <<tables, now, aux>>
    BY <1>5 DEF userScopesUpdate, Start
  <2>2. g \in Masks /\ Closed(g) /\ g # {}
    BY UsersAssumption, ListClosed
  <2> HIDE DEF g
  <2>3. r \in Requests
    BY <2>2 DEF Request, Requests, Ops, Writes, Copy
  <2>4. Begun(r)
    BY <1>1, <2>1, <2>2, <2>3 DEF Begun, Request, Writes, aux
  <2> QED
    BY <2>1, <2>3, <2>4 DEF Begins, tables, aux
<1> QED
  BY <1>2, <1>3, <1>4, <1>5

\* The requests of a session's user.
LEMMA BySessionBegins ==
  ASSUME TypeInv, NEW p \in Procs, NEW s \in SessionIds
  PROVE  /\ handlePasswordChange(p, s) => \E r \in Requests : Begins(p, r)
         /\ \A names \in ScopeLists : userTokenCreate(p, s, names) => \E r \in Requests : Begins(p, r)
         /\ \A c \in Codes : authDeviceAuthorize(p, s, c) => \E r \in Requests : Begins(p, r)
         /\ \A c \in Codes : authDeviceDeny(p, s, c) => \E r \in Requests : Begins(p, r)
<1> USE DEF TypeInv
<1> DEFINE w == GetBySession(s)
<1>0. {} \in Masks /\ Closed({})
  BY DEF Masks, Closed
<1>1. ASSUME GetSession(s)
      PROVE  /\ w \in Copy /\ w.scopes \in Masks
             /\ w.name # NoUser => /\ w.name \in UserNames /\ Live(w.name)
                                   /\ w.scopes \subseteq users[w.name].scopes
             /\ w.name = NoUser => w.scopes = {}
             /\ MasksClosed => Closed(w.scopes)
  <2>1. /\ w \in Copy
        /\ w.name # NoUser => /\ w.name \in UserNames /\ Live(w.name)
                              /\ w.scopes = sessions[s].scopes \cap users[w.name].scopes
        /\ w.name = NoUser => w.scopes = {}
        /\ Present(sessions[s])
    BY <1>1, SessionUser
  <2>2. MasksClosed => Closed(w.scopes)
    BY <1>0, <2>1, ClosedCap DEF MasksClosed, Live
  <2> QED
    BY <2>1, <2>2 DEF Copy
<1> HIDE DEF w
<1>2. ASSUME handlePasswordChange(p, s)
      PROVE  \E r \in Requests : Begins(p, r)
  <2> DEFINE r == Request("update", w, {}, NoRow)
  <2>1. /\ GetSession(s) /\ w.name # NoUser
        /\ req[p] = Idle /\ req' = [req EXCEPT ![p] = r] /\ UNCHANGED <<tables, now, aux>>
    BY <1>2 DEF handlePasswordChange, requireSession, Start, w
  <2>2. r \in Requests
    BY <1>0, <1>1, <2>1 DEF Request, Requests, Ops, Writes
  <2>3. Begun(r)
    BY <1>0, <1>1, <2>1, <2>2 DEF Begun, Request, Writes, aux
  <2> QED
    BY <2>1, <2>2, <2>3 DEF Begins, tables, aux
<1>3. ASSUME NEW names \in ScopeLists, userTokenCreate(p, s, names)
      PROVE  \E r \in Requests : Begins(p, r)
  <2> DEFINE g == ScopesFromSlice(names)
             r == Request("token", w, g, NoRow)
  <2>1. /\ GetSession(s) /\ g \subseteq w.scopes
        /\ req[p] = Idle /\ req' = [req EXCEPT ![p] = r] /\ UNCHANGED <<tables, now, aux>>
    BY <1>3 DEF userTokenCreate, requireSession, Start, w
  <2>2. g \in Masks /\ Closed(g) /\ g # {}
    BY UsersAssumption, ListClosed
  <2> HIDE DEF g
  <2>3. w.name \in UserNames
    BY <1>1, <2>1, <2>2
  <2>4. r \in Requests
    BY <1>1, <2>1, <2>2 DEF Request, Requests, Ops
  <2>5. Begun(r)
    BY <1>1, <2>1, <2>2, <2>3, <2>4 DEF Begun, Request, Writes, aux
  <2> QED
    BY <2>1, <2>4, <2>5 DEF Begins, tables, aux
<1>4. ASSUME NEW c \in Codes, authDeviceAuthorize(p, s, c)
      PROVE  \E r \in Requests : Begins(p, r)
  <2> DEFINE g == codes[c].scopes \cap w.scopes
             r == Request("authorize", w, g, c)
  <2>1. /\ GetSession(s) /\ Open(c)
        /\ req[p] = Idle /\ req' = [req EXCEPT ![p] = r] /\ UNCHANGED <<tables, now, aux>>
    BY <1>4 DEF authDeviceAuthorize, requireSession, Start, w
  <2>2. Present(codes[c])
    BY <2>1 DEF Open, stmtOAuth2DeviceAuthGetByUserCode
  <2>3. g \in Masks /\ g \subseteq w.scopes
    BY <1>1, <2>1 DEF Masks
  <2>4. MasksClosed => Closed(g)
    BY <1>1, <2>1, <2>2, ClosedCap DEF MasksClosed
  <2> HIDE DEF g
  <2>5. r \in Requests
    BY <1>1, <2>1, <2>3 DEF Request, Requests, Ops
  <2>6. Begun(r)
    BY <1>1, <2>1, <2>3, <2>4, <2>5 DEF Begun, Request, Writes, aux
  <2> QED
    BY <2>1, <2>5, <2>6 DEF Begins, tables, aux
<1>5. ASSUME NEW c \in Codes, authDeviceDeny(p, s, c)
      PROVE  \E r \in Requests : Begins(p, r)
  <2> DEFINE r == Request("deny", w, {}, c)
  <2>1. /\ GetSession(s)
        /\ req[p] = Idle /\ req' = [req EXCEPT ![p] = r] /\ UNCHANGED <<tables, now, aux>>
    BY <1>5 DEF authDeviceDeny, requireSession, Start, w
  <2>2. r \in Requests
    BY <1>0, <1>1, <2>1 DEF Request, Requests, Ops
  <2>3. Begun(r)
    BY <1>0, <1>1, <2>1, <2>2 DEF Begun, Request, Writes, aux
  <2> QED
    BY <2>1, <2>2, <2>3 DEF Begins, tables, aux
<1> QED
  BY <1>2, <1>3, <1>4, <1>5

\* An external login: the user of that name, who is created if there is none.
LEMMA UpsertBegins ==
  ASSUME TypeInv, NEW p \in Procs, NEW x \in Profiles, handleOauthCallback(p, x)
  PROVE  \E r \in Requests : Begins(p, r)
<1> DEFINE u == x.username
           w == stmtUserGetByName(u)
<1>0. u \in UserNames /\ NewUserScopes \in Masks /\ Closed(NewUserScopes)
  BY UsersAssumption, GrantsClosed
<1>1. Upsert(p, u) /\ UNCHANGED <<sessions, tokens, codes, now, gone, mixed, issued, dup, emptied, approval>>
  BY DEF handleOauthCallback
<1>2. CASE /\ w # Nobody
           /\ Start(p, Request("session", w, w.scopes, NoRow))
           /\ UNCHANGED <<users, granted>>
  <2> DEFINE r == Request("session", w, w.scopes, NoRow)
  <2>1. Live(u) /\ w = [name |-> u, scopes |-> users[u].scopes] /\ w \in Copy
    BY <1>0, <1>2, UserFound DEF TypeInv
  <2>2. /\ w.name = u /\ w.scopes = users[u].scopes /\ w.scopes \in Masks
        /\ MasksClosed => Closed(w.scopes)
    BY <1>0, <2>1 DEF MasksClosed, Live, Copy
  <2> HIDE DEF w
  <2>3. r \in Requests
    BY <2>1, <2>2 DEF Request, Requests, Ops
  <2>4. Begun(r)
    BY <1>0, <1>1, <2>2, <2>3 DEF Begun, Request, Writes
  <2> QED
    BY <1>1, <1>2, <2>3, <2>4 DEF Begins, Start
<1>3. CASE /\ stmtUserCreate(u, NewUserScopes)
           /\ Start(p, Request("session", [name |-> u, scopes |-> NewUserScopes], NewUserScopes, NoRow))
           /\ granted' = [granted EXCEPT ![u] = NewUserScopes]
  <2> DEFINE r == Request("session", [name |-> u, scopes |-> NewUserScopes], NewUserScopes, NoRow)
  <2>1. r \in Requests
    BY <1>0 DEF Request, Requests, Ops, Copy
  <2>2. Begun(r)
    BY <1>0, <1>1, <2>1 DEF Begun, Request, Writes
  <2>3. NewUser(u, NewUserScopes)
    BY <1>3 DEF NewUser, stmtUserCreate
  <2>4. r.op = "session"
    BY DEF Request
  <2> QED
    BY <1>0, <1>1, <1>3, <2>1, <2>2, <2>3, <2>4 DEF Begins, Start
<1> QED
  BY <1>1, <1>2, <1>3 DEF Upsert

\* A poll that finds its code authorized.
LEMMA PollBegins ==
  ASSUME TypeInv, NEW p \in Procs, NEW c \in Codes, oauth2DeviceToken(p, c)
  PROVE  \E r \in Requests : Begins(p, r)
<1> DEFINE w == stmtUserGetById(codes[c].user)
           g == w.scopes \cap codes[c].scopes
           r == Request("consume", w, g, c)
<1>1. Present(codes[c]) /\ codes[c].authorized /\ stmtOAuth2DeviceAuthGetByDeviceCode(c) = codes[c]
  BY DEF oauth2DeviceToken, stmtOAuth2DeviceAuthGetByDeviceCode
<1>2. codes[c] \in Code
  BY <1>1 DEF TypeInv, TypeOK, Present
<1>3. /\ w # Nobody /\ req[p] = Idle /\ req' = [req EXCEPT ![p] = r]
      /\ dup' = IF \E q \in Procs : req[q].op = "consume" /\ req[q].on = c THEN dup \cup {c} ELSE dup
      /\ emptied' = IF g = {} THEN emptied \cup {w.name} ELSE emptied
      /\ UNCHANGED <<tables, now, granted, gone, mixed, issued, approval>>
  BY <1>1 DEF oauth2DeviceToken, Start
<1>4. /\ codes[c].user \in UserNames /\ Live(codes[c].user) /\ w \in Copy
      /\ w = [name |-> codes[c].user, scopes |-> users[codes[c].user].scopes]
  BY <1>2, <1>3, UserFound DEF TypeInv, Code
<1>5. MasksClosed => Closed(w.scopes) /\ Closed(g)
  BY <1>1, <1>4, ClosedCap DEF MasksClosed, Live
<1>6. w.name = codes[c].user /\ g \in Masks /\ g \subseteq codes[c].scopes
  BY <1>2, <1>4 DEF Code, Masks, Copy
<1> HIDE DEF w, g
<1>7. r \in Requests
  BY <1>4, <1>6 DEF Request, Requests, Ops
<1>8. Begun(r)
  BY <1>1, <1>3, <1>4, <1>5, <1>6, <1>7 DEF Begun, Request, Writes
<1> QED
  BY <1>3, <1>7, <1>8 DEF Begins, tables

\* Every request begins in one of these ways.
LEMMA BeginShape ==
  ASSUME TypeInv, NEW p \in Procs, Begin(p)
  PROVE  \E r \in Requests : Begins(p, r)
BY ByNameBegins, BySessionBegins, UpsertBegins, PollBegins DEF Begin

-----------------------------------------------------------------------------
(* Type correctness *)

\* A request that is not idle is one, and an idle one is none.
LEMMA RequestAt ==
  ASSUME RequestsOK, NEW p \in Procs
  PROVE  /\ Idle.op = "idle" /\ "idle" \notin Ops
         /\ req[p] \in Requests \/ req[p] = Idle
         /\ req[p].op \in Ops => req[p] \in Requests
         /\ req[p] \in Requests => req[p].op \in Ops /\ req[p] # Idle
<1>1. Idle.op = "idle" /\ "idle" \notin Ops
  BY DEF Idle, Ops, Writes
<1>2. req[p] \in Requests \/ req[p] = Idle
  BY DEF RequestsOK
<1>3. req[p] \in Requests => req[p].op \in Ops
  BY DEF Requests
<1> QED
  BY <1>1, <1>2, <1>3

\* An idle request satisfies whatever is asked of one that is not.
LEMMA EndRequestsOK ==
  ASSUME RequestsOK, NEW p \in Procs, End(p)
  PROVE  /\ RequestsOK'
         /\ \A q \in Procs : req'[q] = IF q = p THEN Idle ELSE req[q]
<1>1. \A q \in Procs : req'[q] = IF q = p THEN Idle ELSE req[q]
  BY DEF RequestsOK, End
<1>2. req' \in [Procs -> Requests \cup {Idle}]
  BY DEF RequestsOK, End
<1> QED
  BY <1>1, <1>2, RequestAt DEF RequestsOK, Ops, Writes

\* Beginning a request.
LEMMA BeginTypes ==
  ASSUME TypeInv, NEW p \in Procs, NEW r \in Requests, Begins(p, r)
  PROVE  /\ TypeInv'
         /\ \A q \in Procs : req'[q] = IF q = p THEN r ELSE req[q]
<1> USE DEF TypeInv
<1>1. \A q \in Procs : req'[q] = IF q = p THEN r ELSE req[q]
  BY DEF Begins, RequestsOK
<1>2. RequestsOK'
  <2>1. req' \in [Procs -> Requests \cup {Idle}]
    BY DEF Begins, RequestsOK
  <2>2. /\ r.op \in Writes \cup {"session", "token", "consume"} => r.user.name \in UserNames
        /\ r.op \in {"authorize", "deny", "consume"} => r.on \in Codes
    BY DEF Begins, Begun
  <2> QED
    BY <1>1, <2>1, <2>2 DEF RequestsOK
<1>3. users' \in [UserNames -> Row \cup {NoRow}] /\ granted' \in [UserNames -> Masks]
  <2>1. NewUserScopes \in Masks /\ [scopes |-> NewUserScopes, deleted |-> FALSE] \in Row
    BY UsersAssumption, GrantsClosed DEF Row
  <2> QED
    BY <2>1 DEF Begins, NewUser, TypeOK
<1>4. dup' \subseteq Codes /\ emptied' \subseteq UserNames
  <2>1. CASE r.op = "consume"
    BY <2>1 DEF Begins, Begun, TypeOK
  <2>2. CASE r.op # "consume"
    BY <2>2 DEF Begins, Begun, TypeOK
  <2> QED
    BY <2>1, <2>2
<1> QED
  BY <1>1, <1>2, <1>3, <1>4 DEF Begins, TypeOK

\* The steps of a request after its first.
LEMMA StepTypes ==
  ASSUME TypeInv, NEW p \in Procs, Step(p)
  PROVE  TypeInv'
<1> USE DEF TypeInv, aux, tables
<1>1. CASE DeleteTokens(p)
  <2>1. req[p] \in Requests
    BY <1>1, RequestAt DEF DeleteTokens, Ops, Writes
  <2>2. [req[p] EXCEPT !.op = "delete"] \in Requests
    BY <2>1 DEF Requests, Ops, Writes
  <2>3. /\ req' \in [Procs -> Requests \cup {Idle}]
        /\ \A q \in Procs : req'[q] = IF q = p THEN [req[p] EXCEPT !.op = "delete"] ELSE req[q]
    BY <1>1, <2>2 DEF DeleteTokens, RequestsOK
  <2>4. req'[p].op = "delete" /\ req'[p].user = req[p].user /\ req[p].user.name \in UserNames
    BY <1>1, <2>1, <2>3 DEF DeleteTokens, RequestsOK, Requests, Writes
  <2>5. RequestsOK'
    BY <2>3, <2>4 DEF RequestsOK, Writes
  <2>6. tokens' \in [TokenIds -> Token \cup {Unused, Removed}]
    BY <1>1 DEF DeleteTokens, stmtTokenDeleteAll, TypeOK
  <2> QED
    BY <1>1, <2>5, <2>6 DEF DeleteTokens, TypeOK
<1>2. CASE stmtUserUpdate(p)
  <2> DEFINE u == req[p].user.name
  <2>1. req[p] \in Requests /\ u \in UserNames
    BY <1>2, RequestAt DEF stmtUserUpdate, Ops, Writes, RequestsOK
  <2>2. /\ [scopes |-> req[p].user.scopes, deleted |-> req[p].op = "delete"] \in Row
        /\ req[p].scopes \in Masks
    BY <2>1 DEF Requests, Copy, Row
  <2>3. users' \in [UserNames -> Row \cup {NoRow}] /\ granted' \in [UserNames -> Masks]
    BY <1>2, <2>1, <2>2 DEF stmtUserUpdate, TypeOK
  <2>4. gone' \cup mixed' \subseteq UserNames
    BY <1>2, <2>1 DEF stmtUserUpdate, MixedBy, TypeOK
  <2>5. RequestsOK'
    BY <1>2, EndRequestsOK DEF stmtUserUpdate
  <2> QED
    BY <1>2, <2>3, <2>4, <2>5 DEF stmtUserUpdate, TypeOK
<1>3. ASSUME NEW s \in SessionIds, CreateSession(p, s)
      PROVE  TypeInv'
  <2>1. req[p] \in Requests /\ req[p].user.name \in UserNames
    BY <1>3, RequestAt DEF CreateSession, Ops, RequestsOK
  <2>2. [user |-> req[p].user.name, expires |-> now + SessionTTL, scopes |-> req[p].scopes] \in Session
    BY <2>1, UsersAssumption DEF Requests, Session, TypeOK
  <2>3. sessions' \in [SessionIds -> Session \cup {Unused, Removed}]
    BY <1>3, <2>2 DEF CreateSession, stmtSessionCreate, TypeOK
  <2>4. RequestsOK'
    BY <1>3, EndRequestsOK DEF CreateSession
  <2> QED
    BY <1>3, <2>3, <2>4 DEF CreateSession, TypeOK
<1>4. ASSUME NEW t \in TokenIds, GenerateToken(p, t)
      PROVE  TypeInv'
  <2>1. req[p] \in Requests /\ req[p].user.name \in UserNames
    BY <1>4, RequestAt DEF GenerateToken, Ops, RequestsOK
  <2>2. [user |-> req[p].user.name, expires |-> now + TokenTTL, scopes |-> req[p].scopes] \in Token
    BY <2>1, UsersAssumption DEF Requests, Token, TypeOK
  <2>3. tokens' \in [TokenIds -> Token \cup {Unused, Removed}]
    BY <1>4, <2>2 DEF GenerateToken, stmtTokenCreate, TypeOK
  <2>4. issued' \in [Codes -> Nat]
    BY <1>4 DEF GenerateToken, TypeOK
  <2>5. RequestsOK'
    BY <1>4, EndRequestsOK DEF GenerateToken
  <2> QED
    BY <1>4, <2>3, <2>4, <2>5 DEF GenerateToken, TypeOK
<1>5. CASE stmtOAuth2DeviceAuthAuthorize(p)
  <2> DEFINE c == req[p].on
  <2>1. req[p] \in Requests /\ c \in Codes
    BY <1>5, RequestAt DEF stmtOAuth2DeviceAuthAuthorize, Ops, RequestsOK
  <2>2. Undecided(c) => codes[c] \in Code
    BY <2>1 DEF Undecided, Present, TypeOK
  <2>3. Undecided(c) =>
          [codes[c] EXCEPT !.user = req[p].user.name, !.authorized = TRUE, !.scopes = req[p].scopes] \in Code
    BY <2>1, <2>2 DEF Requests, Copy, Code
  <2>4. codes' \in [Codes -> Code \cup {Unused, Removed}] /\ approval' \in [Codes -> Copy]
    <3>1. CASE ~Undecided(c)
      BY <1>5, <3>1 DEF stmtOAuth2DeviceAuthAuthorize, TypeOK
    <3>2. CASE Undecided(c)
      <4>1. codes' = [codes EXCEPT ![c] = [codes[c] EXCEPT !.user = req[p].user.name,
                                                           !.authorized = TRUE,
                                                           !.scopes = req[p].scopes]]
        BY <1>5, <3>2 DEF stmtOAuth2DeviceAuthAuthorize, TypeOK
      <4>2. approval' = [approval EXCEPT ![c] = req[p].user] /\ req[p].user \in Copy
        BY <1>5, <2>1, <3>2 DEF stmtOAuth2DeviceAuthAuthorize, Requests
      <4> QED
        BY <2>1, <2>3, <3>2, <4>1, <4>2 DEF TypeOK
    <3> QED
      BY <3>1, <3>2
  <2>5. RequestsOK'
    BY <1>5, EndRequestsOK DEF stmtOAuth2DeviceAuthAuthorize
  <2> QED
    BY <1>5, <2>4, <2>5 DEF stmtOAuth2DeviceAuthAuthorize, TypeOK
<1>6. CASE stmtOAuth2DeviceAuthDeny(p)
  <2> DEFINE c == req[p].on
  <2>1. c \in Codes
    BY <1>6 DEF stmtOAuth2DeviceAuthDeny, RequestsOK
  <2>2. Undecided(c) => [codes[c] EXCEPT !.denied = TRUE] \in Code
    BY <2>1 DEF Undecided, Present, TypeOK, Code
  <2>3. codes' \in [Codes -> Code \cup {Unused, Removed}]
    BY <1>6, <2>1, <2>2 DEF stmtOAuth2DeviceAuthDeny, TypeOK
  <2>4. RequestsOK'
    BY <1>6, EndRequestsOK DEF stmtOAuth2DeviceAuthDeny
  <2> QED
    BY <1>6, <2>3, <2>4 DEF stmtOAuth2DeviceAuthDeny, TypeOK
<1>7. CASE DeleteDeviceAuth(p)
  <2>1. req[p] \in Requests /\ req[p].user.name \in UserNames
    BY <1>7, RequestAt DEF DeleteDeviceAuth, Ops, RequestsOK
  <2>2. [req[p] EXCEPT !.op = "token"] \in Requests
    BY <2>1 DEF Requests, Ops
  <2>3. /\ req' \in [Procs -> Requests \cup {Idle}]
        /\ \A q \in Procs : req'[q] = IF q = p THEN [req[p] EXCEPT !.op = "token"] ELSE req[q]
    BY <1>7, <2>2 DEF DeleteDeviceAuth, RequestsOK
  <2>4. req'[p].op = "token" /\ req'[p].user = req[p].user
    BY <2>1, <2>3 DEF Requests
  <2>5. RequestsOK'
    BY <2>1, <2>3, <2>4 DEF RequestsOK
  <2> QED
    BY <1>7, <2>5 DEF DeleteDeviceAuth, stmtOAuth2DeviceAuthDelete, TypeOK
<1>8. CASE Fail(p)
  BY <1>8, EndRequestsOK DEF Fail, TypeOK
<1> QED
  BY <1>1, <1>2, <1>3, <1>4, <1>5, <1>6, <1>7, <1>8 DEF Step

\* Sweeping a table removes rows and changes none.
LEMMA SweptRows ==
  ASSUME NEW S, NEW T, NEW table \in [S -> T \cup {Unused, Removed}],
         NEW table2 \in {Swept(table), table}
  PROVE  /\ table2 \in [S -> T \cup {Unused, Removed}]
         /\ \A i \in S : table2[i] = table[i] \/ (Present(table[i]) /\ table2[i] = Removed)
BY DEF Swept, Expired

\* The actions that are a single step.
Single ==
  \/ \E s \in SessionIds :
       \/ \E u \in UserNames, names \in ScopeLists : handleUserCreate(s, u, names)
       \/ authLogout(s)
       \/ \E t \in TokenIds, names \in ScopeLists : settingsTokenUpdate(s, t, names)
       \/ \E t \in TokenIds : userTokenDelete(s, t)
  \/ \E c \in Codes, names \in ScopeLists : oauth2DeviceCode(c, names)
  \/ RunGc
  \/ Tick

\* A token's scopes are replaced by at least one scope.
LEMMA UpdatedToken ==
  ASSUME TypeInv, NEW s \in SessionIds, NEW t \in TokenIds, NEW names \in ScopeLists,
         settingsTokenUpdate(s, t, names)
  PROVE  /\ Present(tokens[t]) /\ tokens[t] \in Token
         /\ tokens'[t] \in Token
         /\ tokens'[t].user = tokens[t].user /\ tokens'[t].scopes = ScopesFromSlice(names)
         /\ \A i \in TokenIds \ {t} : tokens'[i] = tokens[i]
         /\ tokens' \in [TokenIds -> Token \cup {Unused, Removed}]
<1>1. Present(tokens[t]) /\ tokens' = [tokens EXCEPT ![t].scopes = ScopesFromSlice(names)]
  BY DEF settingsTokenUpdate, UpdateToken, stmtTokenUpdate
<1>2. tokens[t] \in Token
  BY <1>1 DEF TypeInv, TypeOK, Present
<1>3. ScopesFromSlice(names) \in Masks
  BY UsersAssumption, ListClosed
<1>4. [tokens[t] EXCEPT !.scopes = ScopesFromSlice(names)] \in Token
  BY <1>2, <1>3 DEF Token
<1> QED
  BY <1>1, <1>2, <1>3, <1>4 DEF TypeInv, TypeOK, Token

\* The single steps keep every variable in its domain.
LEMMA SingleTypes ==
  ASSUME TypeInv, Single
  PROVE  TypeInv'
<1> USE DEF TypeInv, aux, tables
<1>1. ASSUME NEW s \in SessionIds, NEW u \in UserNames, NEW names \in ScopeLists,
             handleUserCreate(s, u, names)
      PROVE  TypeInv'
  <2>1. ScopesFromSlice(names) \in Masks
    BY UsersAssumption, ListClosed
  <2>2. [scopes |-> ScopesFromSlice(names), deleted |-> FALSE] \in Row
    BY <2>1 DEF Row
  <2>3. users' \in [UserNames -> Row \cup {NoRow}] /\ granted' \in [UserNames -> Masks]
    BY <1>1, <2>1, <2>2 DEF handleUserCreate, stmtUserCreate, TypeOK
  <2> QED
    BY <1>1, <2>3 DEF handleUserCreate, TypeOK, RequestsOK
<1>2. ASSUME NEW s \in SessionIds, authLogout(s)
      PROVE  TypeInv'
  BY <1>2 DEF authLogout, DropSession, stmtSessionDelete, TypeOK, RequestsOK
<1>3. ASSUME NEW s \in SessionIds, NEW t \in TokenIds, NEW names \in ScopeLists,
             settingsTokenUpdate(s, t, names)
      PROVE  TypeInv'
  <2>1. tokens' \in [TokenIds -> Token \cup {Unused, Removed}]
    BY <1>3, UpdatedToken
  <2> QED
    BY <1>3, <2>1 DEF settingsTokenUpdate, TypeOK, RequestsOK
<1>4. ASSUME NEW s \in SessionIds, NEW t \in TokenIds, userTokenDelete(s, t)
      PROVE  TypeInv'
  BY <1>4 DEF userTokenDelete, stmtTokenDelete, TypeOK, RequestsOK
<1>5. ASSUME NEW c \in Codes, NEW names \in ScopeLists, oauth2DeviceCode(c, names)
      PROVE  TypeInv'
  <2>1. ScopesFromSlice(names) \in Masks
    BY UsersAssumption, ListClosed
  <2>2. [user |-> NoUser, expires |-> now + CodeTTL, scopes |-> ScopesFromSlice(names),
         authorized |-> FALSE, denied |-> FALSE] \in Code
    BY <2>1, UsersAssumption DEF Code, TypeOK
  <2> QED
    BY <1>5, <2>2
    DEF oauth2DeviceCode, CreateDeviceAuth, stmtOAuth2DeviceAuthCreate, TypeOK, RequestsOK
<1>6. CASE RunGc
  <2>1. /\ tokens' \in {Swept(tokens), tokens} /\ sessions' \in {Swept(sessions), sessions}
        /\ codes' \in {Swept(codes), codes}
    BY <1>6 DEF RunGc, stmtTokenDeleteExpired, stmtSessionDeleteExpired,
                stmtOAuth2DeviceAuthDeleteExpired
  <2>2. tokens' \in [TokenIds -> Token \cup {Unused, Removed}]
    <3>1. tokens \in [TokenIds -> Token \cup {Unused, Removed}]
      BY DEF TypeOK
    <3> QED
      BY <2>1, <3>1, SweptRows
  <2>3. sessions' \in [SessionIds -> Session \cup {Unused, Removed}]
    <3>1. sessions \in [SessionIds -> Session \cup {Unused, Removed}]
      BY DEF TypeOK
    <3> QED
      BY <2>1, <3>1, SweptRows
  <2>4. codes' \in [Codes -> Code \cup {Unused, Removed}]
    <3>1. codes \in [Codes -> Code \cup {Unused, Removed}]
      BY DEF TypeOK
    <3> QED
      BY <2>1, <3>1, SweptRows
  <2> QED
    BY <1>6, <2>2, <2>3, <2>4 DEF RunGc, TypeOK, RequestsOK
<1>7. CASE Tick
  BY <1>7 DEF Tick, TypeOK, RequestsOK
<1> QED
  BY <1>1, <1>2, <1>3, <1>4, <1>5, <1>6, <1>7 DEF Single

\* Every step is the beginning of a request, one of its steps or a single one.
LEMMA NextSplit ==
  ASSUME TypeInv, Next
  PROVE  \/ \E p \in Procs, r \in Requests : Begins(p, r)
         \/ \E p \in Procs : Step(p)
         \/ Single
<1>1. CASE \E p \in Procs : Begin(p)
  BY <1>1, BeginShape
<1>2. CASE \E p \in Procs : Step(p)
  BY <1>2
<1>3. CASE ~\E p \in Procs : Begin(p) \/ Step(p)
  BY <1>3 DEF Next, Single
<1> QED
  BY <1>1, <1>2, <1>3

\* Every step keeps every variable in its domain.
LEMMA UsersTypeStep ==
  ASSUME TypeInv, [Next]_vars
  PROVE  TypeInv'
<1>1. CASE UNCHANGED vars
  BY <1>1 DEF vars, TypeInv, TypeOK, RequestsOK
<1> QED
  BY <1>1, NextSplit, BeginTypes, StepTypes, SingleTypes

\* The first accounts are well-formed.
LEMMA UsersTypeInit ==
  ASSUME Init
  PROVE  TypeInv
<1>1. TypeOK
  <2>1. \A u \in DOMAIN Accounts : Accounts[u] \in Masks
    BY UsersAssumption, GrantsClosed
  <2>2. Nobody \in Copy /\ {} \in Masks
    BY DEF Nobody, Copy, Masks
  <2>3. users \in [UserNames -> Row \cup {NoRow}] /\ granted \in [UserNames -> Masks]
    BY <2>1, <2>2 DEF Init, Row
  <2> QED
    BY <2>2, <2>3 DEF Init, TypeOK
<1>2. RequestsOK
  BY DEF Init, RequestsOK, Idle, Writes
<1> QED
  BY <1>1, <1>2 DEF TypeInv

\* The rows of the four tables stay well-formed: each session, token and code
\* belongs to a user, and scopes are known ones.
THEOREM UsersTypeCorrect == Spec => []TypeOK
<1>1. TypeInv => TypeOK
  BY DEF TypeInv
<1> QED
  BY <1>1, UsersTypeInit, UsersTypeStep, PTL DEF Spec

-----------------------------------------------------------------------------
(* Users: what is written back *)

\* Steps that write no user and take no copy keep what is known of both.
LEMMA NoNewCopies ==
  ASSUME UsersInv, UNCHANGED <<users, granted, gone, mixed>>,
         \A q \in Procs : req'[q].op \in Writes =>
           req[q].op \in Writes /\ req'[q].user = req[q].user /\ req'[q].scopes = req[q].scopes
  PROVE  UsersInv'
<1>1. CopiesWithinGrant'
  BY DEF UsersInv, CopiesWithinGrant
<1>2. RowsWithinGrant'
  BY DEF UsersInv, RowsWithinGrant
<1>3. \A u : Holders(u)' \subseteq Holders(u)
  BY DEF Holders
<1>4. NoCopyOfDeleted'
  BY <1>3 DEF UsersInv, NoCopyOfDeleted
<1> QED
  BY <1>1, <1>2, <1>4 DEF UsersInv

\* Inserting a row for a new username touches no user that exists, and gives it
\* what is granted.
LEMMA NewUserEffect ==
  ASSUME TypeInv, NEW u \in UserNames, NEW g \in Masks, NewUser(u, g)
  PROVE  /\ users[u] = NoRow /\ users'[u] # NoRow /\ users'[u].scopes = g /\ granted'[u] = g
         /\ \A w \in UserNames \ {u} : users'[w] = users[w] /\ granted'[w] = granted[w]
<1>1. [scopes |-> g, deleted |-> FALSE] \in Row
  BY DEF Row
<1> QED
  BY <1>1, RowAssumption DEF NewUser, TypeInv, TypeOK

\* A request that begins takes a copy of a live user only.
LEMMA BeginUsers ==
  ASSUME TypeInv, UsersInv, NEW p \in Procs, NEW r \in Requests, Begins(p, r)
  PROVE  UsersInv'
<1>1. /\ \A q \in Procs : req'[q] = IF q = p THEN r ELSE req[q]
      /\ UNCHANGED <<gone, mixed>>
  BY BeginTypes DEF Begins
<1>2. \/ UNCHANGED <<users, granted>>
      \/ /\ r.op \notin Writes
         /\ \E u \in UserNames :
              /\ users[u] = NoRow /\ users'[u] # NoRow /\ users'[u].scopes = granted'[u]
              /\ \A w \in UserNames \ {u} : users'[w] = users[w] /\ granted'[w] = granted[w]
  BY UsersAssumption, GrantsClosed, NewUserEffect DEF Begins, Writes
<1>3. \A w \in UserNames : users[w] # NoRow => users'[w] = users[w] /\ granted'[w] = granted[w]
  BY <1>2
<1>4. r.op \in Writes =>
        /\ r.user.name \in UserNames /\ Live(r.user.name)
        /\ IF r.scopes = {} THEN r.user.scopes \subseteq users[r.user.name].scopes
                            ELSE r.user.scopes = r.scopes
  BY DEF Begins, Begun
<1>5. \A q \in Procs : req[q].op \in Writes => req[q].user.name \in UserNames
  BY DEF TypeInv, RequestsOK
<1>6. CopiesWithinGrant'
  <2> SUFFICES ASSUME NEW q \in Procs, req'[q].op \in Writes
               PROVE  /\ users'[req'[q].user.name] # NoRow
                      /\ req'[q].user.name \notin mixed =>
                           IF req'[q].scopes = {}
                             THEN req'[q].user.scopes \subseteq granted'[req'[q].user.name]
                             ELSE req'[q].user.scopes = req'[q].scopes
    BY <1>1 DEF CopiesWithinGrant
  <2>1. CASE q = p
    <3>1. req'[q] = r /\ UNCHANGED <<users, granted>>
      BY <1>1, <1>2, <2>1
    <3> QED
      BY <1>4, <3>1 DEF UsersInv, RowsWithinGrant, Live
  <2>2. CASE q # p
    BY <1>1, <1>3, <1>5, <2>2 DEF UsersInv, CopiesWithinGrant
  <2> QED
    BY <2>1, <2>2
<1>7. RowsWithinGrant'
  BY <1>1, <1>2 DEF UsersInv, RowsWithinGrant
<1>8. NoCopyOfDeleted'
  <2> SUFFICES ASSUME NEW u \in gone \ mixed
               PROVE  users'[u] # NoRow /\ users'[u].deleted /\ Holders(u)' = {}
    BY <1>1 DEF NoCopyOfDeleted
  <2>1. u \in UserNames /\ users[u] # NoRow /\ users[u].deleted /\ Holders(u) = {}
    BY DEF UsersInv, NoCopyOfDeleted, TypeInv, TypeOK
  <2>2. users'[u] = users[u]
    BY <1>3, <2>1
  <2>3. ~(r.op \in Writes /\ r.user.name = u)
    BY <1>4, <2>1 DEF Live
  <2> QED
    BY <1>1, <2>1, <2>2, <2>3 DEF Holders
<1> QED
  BY <1>6, <1>7, <1>8 DEF UsersInv

\* Writing a user back: a request that overlapped with another write of the user
\* is on record, any other writes no more than was granted.
LEMMA UpdateUsers ==
  ASSUME TypeInv, UsersInv, NEW p \in Procs, stmtUserUpdate(p)
  PROVE  UsersInv'
<1> DEFINE u == req[p].user.name
           g == req[p].scopes
<1>1. req[p] \in Requests /\ u \in UserNames /\ req[p].op \in {"update", "delete"}
  BY RequestAt DEF stmtUserUpdate, Ops, Writes, TypeInv, RequestsOK
<1>2. \A q \in Procs : req'[q] = IF q = p THEN Idle ELSE req[q]
  BY EndRequestsOK DEF stmtUserUpdate, TypeInv
<1>3. /\ users'[u] # NoRow /\ users'[u].scopes = req[p].user.scopes
      /\ users'[u].deleted = (req[p].op = "delete")
      /\ \A w \in UserNames \ {u} : users'[w] = users[w]
  <2>1. [scopes |-> req[p].user.scopes, deleted |-> req[p].op = "delete"] \in Row
    BY <1>1 DEF Requests, Copy, Row
  <2> QED
    BY <1>1, <2>1, RowAssumption DEF stmtUserUpdate, TypeInv, TypeOK
<1>4. /\ granted'[u] = IF g = {} THEN granted[u] ELSE g
      /\ \A w \in UserNames \ {u} : granted'[w] = granted[w]
  BY <1>1 DEF stmtUserUpdate, TypeInv, TypeOK
<1>5. /\ mixed' = IF Holders(u) \subseteq {p} THEN mixed ELSE mixed \cup {u}
      /\ gone' = IF req[p].op = "delete" THEN gone \cup {u} ELSE gone
  BY DEF stmtUserUpdate, MixedBy
<1>6. p \in Holders(u) /\ Idle.op \notin Writes
  BY <1>1 DEF Holders, Writes, Idle
<1>7. u \notin mixed => IF g = {} THEN req[p].user.scopes \subseteq granted[u]
                                  ELSE req[p].user.scopes = g
  BY <1>1 DEF UsersInv, CopiesWithinGrant, Writes
<1> HIDE DEF u, g
<1>8. CopiesWithinGrant'
  <2> SUFFICES ASSUME NEW q \in Procs \ {p}, req[q].op \in Writes
               PROVE  /\ users'[req[q].user.name] # NoRow
                      /\ req[q].user.name \notin mixed' =>
                           IF req[q].scopes = {}
                             THEN req[q].user.scopes \subseteq granted'[req[q].user.name]
                             ELSE req[q].user.scopes = req[q].scopes
    BY <1>2, <1>6 DEF CopiesWithinGrant
  <2>1. req[q].user.name \in UserNames
    BY DEF TypeInv, RequestsOK
  <2>2. CASE req[q].user.name = u
    <3>1. q \in Holders(u)
      BY <2>2 DEF Holders
    <3> QED
      BY <1>3, <1>5, <2>2, <3>1
  <2>3. CASE req[q].user.name # u
    BY <1>3, <1>4, <1>5, <2>1, <2>3 DEF UsersInv, CopiesWithinGrant
  <2> QED
    BY <2>2, <2>3
<1>9. RowsWithinGrant'
  <2> SUFFICES ASSUME NEW w \in UserNames \ mixed', users'[w] # NoRow
               PROVE  users'[w].scopes \subseteq granted'[w]
    BY DEF RowsWithinGrant
  <2>1. CASE w = u
    BY <1>3, <1>4, <1>5, <1>7, <2>1
  <2>2. CASE w # u
    BY <1>3, <1>4, <1>5, <2>2 DEF UsersInv, RowsWithinGrant
  <2> QED
    BY <2>1, <2>2
<1>10. NoCopyOfDeleted'
  <2> SUFFICES ASSUME NEW w \in gone' \ mixed'
               PROVE  users'[w] # NoRow /\ users'[w].deleted /\ Holders(w)' = {}
    BY DEF NoCopyOfDeleted
  <2>0. Holders(w)' = Holders(w) \ {p}
    BY <1>2, <1>6 DEF Holders
  <2>1. CASE w = u
    <3>1. Holders(u) \subseteq {p} /\ u \notin mixed
      BY <1>5, <2>1
    <3>2. req[p].op = "delete"
      BY <1>1, <1>5, <1>6, <2>1, <3>1 DEF UsersInv, NoCopyOfDeleted
    <3> QED
      BY <1>3, <2>0, <2>1, <3>1, <3>2
  <2>2. CASE w # u
    <3>1. w \in gone \ mixed /\ w \in UserNames
      BY <1>5, <2>2 DEF TypeInv, TypeOK
    <3> QED
      BY <1>3, <2>0, <2>2, <3>1 DEF UsersInv, NoCopyOfDeleted
  <2> QED
    BY <2>1, <2>2
<1> QED
  BY <1>8, <1>9, <1>10 DEF UsersInv

\* Every step keeps it.
LEMMA UsersInvStep ==
  ASSUME TypeInv, UsersInv, [Next]_vars
  PROVE  UsersInv'
<1>0. Idle.op \notin Writes
  BY DEF Idle, Writes
<1>1. ASSUME NEW p \in Procs, Step(p), ~stmtUserUpdate(p)
      PROVE  UsersInv'
  <2>1. UNCHANGED <<users, granted, gone, mixed>>
    BY <1>1 DEF Step, DeleteTokens, CreateSession, GenerateToken, stmtOAuth2DeviceAuthAuthorize,
                stmtOAuth2DeviceAuthDeny, DeleteDeviceAuth, Fail, aux, tables
  <2>2. CASE End(p)
    <3>1. \A q \in Procs : req'[q] = IF q = p THEN Idle ELSE req[q]
      BY <2>2, EndRequestsOK DEF TypeInv
    <3> QED
      BY <1>0, <2>1, <3>1, NoNewCopies
  <2>3. CASE DeleteTokens(p) \/ DeleteDeviceAuth(p)
    <3>1. req[p] \in Requests
      BY <2>3, RequestAt DEF DeleteTokens, DeleteDeviceAuth, Ops, Writes, TypeInv
    <3>2. /\ req'[p].user = req[p].user /\ req'[p].scopes = req[p].scopes
          /\ req'[p].op \in Writes => req[p].op \in Writes
          /\ \A q \in Procs \ {p} : req'[q] = req[q]
      BY <2>3, <3>1 DEF DeleteTokens, DeleteDeviceAuth, TypeInv, RequestsOK, Requests, Writes
    <3> QED
      BY <2>1, <3>2, NoNewCopies
  <2> QED
    BY <1>1, <2>2, <2>3 DEF Step, CreateSession, GenerateToken, stmtOAuth2DeviceAuthAuthorize,
                            stmtOAuth2DeviceAuthDeny, Fail
<1>2. ASSUME NEW s \in SessionIds, NEW u \in UserNames, NEW names \in ScopeLists,
             handleUserCreate(s, u, names)
      PROVE  UsersInv'
  <2> DEFINE g == ScopesFromSlice(names)
  <2>1. g \in Masks /\ NewUser(u, g) /\ UNCHANGED <<req, gone, mixed>>
    BY <1>2, UsersAssumption, ListClosed DEF handleUserCreate, NewUser, stmtUserCreate
  <2>2. /\ users[u] = NoRow /\ users'[u] # NoRow /\ users'[u].scopes = granted'[u]
        /\ \A w \in UserNames \ {u} : users'[w] = users[w] /\ granted'[w] = granted[w]
    BY <2>1, NewUserEffect
  <2>3. \A q \in Procs : req[q].op \in Writes => req[q].user.name \in UserNames \ {u}
    BY <2>2 DEF UsersInv, CopiesWithinGrant, TypeInv, RequestsOK
  <2>4. CopiesWithinGrant'
    BY <2>1, <2>2, <2>3 DEF UsersInv, CopiesWithinGrant
  <2>5. RowsWithinGrant'
    BY <2>1, <2>2 DEF UsersInv, RowsWithinGrant
  <2>6. NoCopyOfDeleted'
    <3>1. \A w : Holders(w)' = Holders(w)
      BY <2>1 DEF Holders
    <3> QED
      BY <2>1, <2>2, <3>1 DEF UsersInv, NoCopyOfDeleted, TypeInv, TypeOK
  <2> QED
    BY <2>4, <2>5, <2>6 DEF UsersInv
<1>3. ASSUME Single, UNCHANGED <<users, granted>>
      PROVE  UsersInv'
  <2>1. UNCHANGED <<req, gone, mixed>>
    BY <1>3 DEF Single, handleUserCreate, authLogout, settingsTokenUpdate, userTokenDelete,
                oauth2DeviceCode, RunGc, Tick, aux, tables
  <2> QED
    BY <1>3, <2>1, NoNewCopies
<1>4. ASSUME Single, ~UNCHANGED <<users, granted>>
      PROVE  UsersInv'
  BY <1>2, <1>4 DEF Single, authLogout, settingsTokenUpdate, userTokenDelete,
                    oauth2DeviceCode, RunGc, Tick, aux, tables
<1>5. CASE UNCHANGED vars
  BY <1>5, NoNewCopies DEF vars
<1> QED
  BY <1>1, <1>3, <1>4, <1>5, NextSplit, BeginUsers, UpdateUsers

-----------------------------------------------------------------------------
(* The device flow *)

\* Steps that only remove codes, end requests or let a poll go on to its token
\* once its code is removed.
LEMMA CodesOnlyRemoved ==
  ASSUME TypeInv, CodesInv, UNCHANGED <<approval, issued, dup>>,
         \A c \in Codes : codes'[c] = codes[c] \/ codes'[c] = Removed,
         \A q \in Procs : req'[q].op \in {"authorize", "consume", "token"} =>
           /\ req'[q].user = req[q].user /\ req'[q].scopes = req[q].scopes /\ req'[q].on = req[q].on
           /\ req'[q].op = req[q].op \/ (/\ req[q].op = "consume" /\ req'[q].op = "token"
                                         /\ codes'[req[q].on] = Removed)
  PROVE  CodesInv'
<1> USE DEF CodesInv
<1>0. ~Present(Removed)
  BY DEF Present
<1>1. \A q \in Procs, c \in Codes : Polls(q, c)' => Polls(q, c)
  BY DEF Polls
<1>2. ApprovalKept'
  <2>1. \A p \in Procs : req'[p].op = "authorize" => req'[p].scopes \subseteq req'[p].user.scopes
    BY DEF ApprovalKept
  <2>2. \A c \in Codes : Present(codes'[c]) /\ codes'[c].authorized =>
          codes'[c].user = approval[c].name /\ codes'[c].scopes \subseteq approval[c].scopes
    BY <1>0 DEF ApprovalKept
  <2>3. \A p \in Procs, c \in Codes : Polls(p, c)' =>
          /\ codes'[c] = Removed \/ (Present(codes'[c]) /\ codes'[c].authorized)
          /\ req'[p].scopes \subseteq approval[c].scopes
          /\ req'[p].user.name = approval[c].name
    BY <1>1 DEF ApprovalKept, Polls
  <2> QED
    BY <2>1, <2>2, <2>3 DEF ApprovalKept
<1>3. OnePoll'
  <2>1. \A c \in Codes : issued'[c] > 0 => codes'[c] = Removed
    BY DEF OnePoll
  <2>2. \A c \in Codes, p \in Procs : Polls(p, c)' /\ req'[p].op = "token" => codes'[c] = Removed
    BY <1>1 DEF OnePoll, Polls
  <2> QED
    BY <1>1, <2>1, <2>2 DEF OnePoll
<1> QED
  BY <1>2, <1>3

\* A poll begins with an authorized code: none of the polls that hold it has
\* removed it, and with another one that holds it the code is on record.
LEMMA BeginCodes ==
  ASSUME TypeInv, CodesInv, NEW p \in Procs, NEW r \in Requests, Begins(p, r)
  PROVE  CodesInv'
<1> USE DEF CodesInv
<1>1. /\ \A q \in Procs : req'[q] = IF q = p THEN r ELSE req[q]
      /\ UNCHANGED <<codes, issued, approval>>
  BY BeginTypes DEF Begins
<1>2. /\ r.op = "token" => r.on \notin Codes
      /\ r.op = "authorize" => r.scopes \subseteq r.user.scopes
      /\ r.op = "consume" =>
           /\ r.on \in Codes /\ Present(codes[r.on]) /\ codes[r.on].authorized
           /\ r.user.name = codes[r.on].user /\ r.scopes \subseteq codes[r.on].scopes
           /\ \A q \in Procs : req[q].op = "consume" /\ req[q].on = r.on => r.on \in dup'
      /\ dup \subseteq dup'
  BY UsersAssumption DEF Begins, Begun
<1>3. \A c \in Codes : Polls(p, c)' => r.op = "consume" /\ c = r.on
  BY <1>1, <1>2 DEF Polls
<1>4. \A q \in Procs \ {p}, c \in Codes : Polls(q, c)' => Polls(q, c)
  BY <1>1 DEF Polls
<1>5. ApprovalKept'
  <2>1. \A q \in Procs : req'[q].op = "authorize" => req'[q].scopes \subseteq req'[q].user.scopes
    BY <1>1, <1>2 DEF ApprovalKept
  <2>2. \A q \in Procs, c \in Codes : Polls(q, c)' =>
          /\ codes'[c] = Removed \/ (Present(codes'[c]) /\ codes'[c].authorized)
          /\ req'[q].scopes \subseteq approval'[c].scopes
          /\ req'[q].user.name = approval'[c].name
    <3> SUFFICES ASSUME NEW q \in Procs, NEW c \in Codes, Polls(q, c)'
                 PROVE  /\ codes[c] = Removed \/ (Present(codes[c]) /\ codes[c].authorized)
                        /\ req'[q].scopes \subseteq approval[c].scopes
                        /\ req'[q].user.name = approval[c].name
      BY <1>1
    <3>1. CASE q = p
      BY <1>1, <1>2, <1>3, <3>1 DEF ApprovalKept
    <3>2. CASE q # p
      BY <1>1, <1>4, <3>2 DEF ApprovalKept
    <3> QED
      BY <3>1, <3>2
  <2>3. \A c \in Codes : Present(codes'[c]) /\ codes'[c].authorized =>
          codes'[c].user = approval'[c].name /\ codes'[c].scopes \subseteq approval'[c].scopes
    BY <1>1 DEF ApprovalKept
  <2> QED
    BY <2>1, <2>2, <2>3 DEF ApprovalKept
<1>6. OnePoll'
  <2> SUFFICES ASSUME NEW c \in Codes
               PROVE  /\ issued[c] > 0 => codes[c] = Removed
                      /\ \A q \in Procs : Polls(q, c)' /\ req'[q].op = "token" => codes[c] = Removed
                      /\ c \notin dup' =>
                           /\ issued[c] <= 1
                           /\ \A q \in Procs : Polls(q, c)' => issued[c] = 0
                           /\ \A q, o \in Procs : Polls(q, c)' /\ Polls(o, c)' => q = o
    BY <1>1 DEF OnePoll
  <2>1. issued[c] > 0 => codes[c] = Removed
    BY DEF OnePoll
  <2>2. \A q \in Procs : Polls(q, c)' /\ req'[q].op = "token" => codes[c] = Removed
    BY <1>1, <1>3, <1>4 DEF OnePoll
  <2>3. Present(codes[c]) => issued[c] = 0
    BY <2>1 DEF Present, TypeInv, TypeOK
  <2>4. ASSUME c \notin dup'
        PROVE  \A q \in Procs : Polls(q, c)' => issued[c] = 0
    BY <1>2, <1>3, <1>4, <2>3, <2>4 DEF OnePoll
  <2>5. ASSUME c \notin dup', NEW q \in Procs \ {p}, Polls(q, c), Polls(p, c)'
        PROVE  FALSE
    <3>1. r.op = "consume" /\ c = r.on /\ Present(codes[c])
      BY <1>2, <1>3, <2>5
    <3>2. req[q].op # "consume"
      BY <1>2, <2>5, <3>1 DEF Polls
    <3>3. codes[c] = Removed
      BY <2>5, <3>2 DEF OnePoll, Polls
    <3> QED
      BY <3>1, <3>3 DEF Present
  <2>6. ASSUME c \notin dup', NEW q \in Procs, NEW o \in Procs, Polls(q, c)', Polls(o, c)'
        PROVE  q = o
    BY <1>2, <1>4, <2>5, <2>6 DEF OnePoll
  <2> QED
    BY <1>2, <2>1, <2>2, <2>4, <2>6 DEF OnePoll
<1> QED
  BY <1>5, <1>6

\* A code that is neither authorized nor denied is polled by nobody and has
\* issued nothing; so is one that was never given out.
LEMMA NotPolledYet ==
  ASSUME TypeInv, CodesInv, NEW c \in Codes, Undecided(c) \/ codes[c] = Unused
  PROVE  issued[c] = 0 /\ codes[c] # Removed /\ \A q \in Procs : ~Polls(q, c)
<1>1. codes[c] # Removed /\ ~(Present(codes[c]) /\ codes[c].authorized)
  BY UsersAssumption DEF Undecided, Present
<1> QED
  BY <1>1 DEF CodesInv, ApprovalKept, OnePoll, TypeInv, TypeOK

\* The state of a code that nobody polls may change in any way that keeps an
\* authorized code to its approval.
LEMMA UnpolledCode ==
  ASSUME TypeInv, CodesInv, NEW c \in Codes, Undecided(c) \/ codes[c] = Unused,
         \A i \in Codes \ {c} : codes'[i] = codes[i] /\ approval'[i] = approval[i],
         Present(codes'[c]) /\ codes'[c].authorized =>
           codes'[c].user = approval'[c].name /\ codes'[c].scopes \subseteq approval'[c].scopes,
         UNCHANGED <<issued, dup>>,
         \A q \in Procs : req'[q] = req[q] \/ req'[q] = Idle
  PROVE  CodesInv'
<1>0. Idle.op \notin {"authorize", "consume", "token"}
  BY DEF Idle
<1>1. issued[c] = 0 /\ \A q \in Procs : ~Polls(q, c)
  BY NotPolledYet
<1>2. \A q \in Procs, i \in Codes : Polls(q, i)' => Polls(q, i) /\ req'[q] = req[q] /\ i # c
  BY <1>0, <1>1 DEF Polls
<1>3. ApprovalKept'
  <2>1. \A q \in Procs : req'[q].op = "authorize" => req'[q].scopes \subseteq req'[q].user.scopes
    BY <1>0 DEF CodesInv, ApprovalKept
  <2>2. \A i \in Codes : Present(codes'[i]) /\ codes'[i].authorized =>
          codes'[i].user = approval'[i].name /\ codes'[i].scopes \subseteq approval'[i].scopes
    BY DEF CodesInv, ApprovalKept
  <2>3. \A q \in Procs, i \in Codes : Polls(q, i)' =>
          /\ codes'[i] = Removed \/ (Present(codes'[i]) /\ codes'[i].authorized)
          /\ req'[q].scopes \subseteq approval'[i].scopes
          /\ req'[q].user.name = approval'[i].name
    BY <1>2 DEF CodesInv, ApprovalKept
  <2> QED
    BY <2>1, <2>2, <2>3 DEF ApprovalKept
<1>4. OnePoll'
  <2>1. \A i \in Codes : issued'[i] > 0 => codes'[i] = Removed
    BY <1>1 DEF CodesInv, OnePoll
  <2>2. \A i \in Codes, q \in Procs : Polls(q, i)' /\ req'[q].op = "token" => codes'[i] = Removed
    BY <1>2 DEF CodesInv, OnePoll
  <2> QED
    BY <1>2, <2>1, <2>2 DEF CodesInv, OnePoll
<1> QED
  BY <1>3, <1>4 DEF CodesInv

\* The token of a code is issued by the only poll that holds it.
LEMMA TokenCodes ==
  ASSUME TypeInv, CodesInv, NEW p \in Procs, NEW t \in TokenIds, GenerateToken(p, t)
  PROVE  CodesInv'
<1> USE DEF CodesInv
<1> DEFINE o == req[p].on
<1>0. Idle.op \notin {"authorize", "consume", "token"}
  BY DEF Idle
<1>1. /\ \A q \in Procs : req'[q] = IF q = p THEN Idle ELSE req[q]
      /\ req[p].op = "token" /\ UNCHANGED <<codes, approval, dup>>
  BY EndRequestsOK DEF GenerateToken, TypeInv
<1>2. \A q \in Procs, c \in Codes : Polls(q, c)' => Polls(q, c) /\ q # p /\ req'[q] = req[q]
  BY <1>0, <1>1 DEF Polls
<1>3. ApprovalKept'
  <2>1. \A q \in Procs : req'[q].op = "authorize" => req'[q].scopes \subseteq req'[q].user.scopes
    BY <1>0, <1>1 DEF ApprovalKept
  <2>2. \A c \in Codes : Present(codes'[c]) /\ codes'[c].authorized =>
          codes'[c].user = approval'[c].name /\ codes'[c].scopes \subseteq approval'[c].scopes
    BY <1>1 DEF ApprovalKept
  <2>3. \A q \in Procs, c \in Codes : Polls(q, c)' =>
          /\ codes'[c] = Removed \/ (Present(codes'[c]) /\ codes'[c].authorized)
          /\ req'[q].scopes \subseteq approval'[c].scopes
          /\ req'[q].user.name = approval'[c].name
    BY <1>1, <1>2 DEF ApprovalKept
  <2> QED
    BY <2>1, <2>2, <2>3 DEF ApprovalKept
<1>4. OnePoll'
  <2> SUFFICES ASSUME NEW c \in Codes
               PROVE  /\ issued'[c] > 0 => codes[c] = Removed
                      /\ \A q \in Procs : Polls(q, c)' /\ req'[q].op = "token" => codes[c] = Removed
                      /\ c \notin dup =>
                           /\ issued'[c] <= 1
                           /\ \A q \in Procs : Polls(q, c)' => issued'[c] = 0
                           /\ \A q, w \in Procs : Polls(q, c)' /\ Polls(w, c)' => q = w
    BY <1>1 DEF OnePoll
  <2>0. issued[c] \in Nat
    BY DEF TypeInv, TypeOK
  <2>1. CASE c = o
    <3>1. Polls(p, c) /\ codes[c] = Removed
      BY <1>1, <2>1 DEF OnePoll, Polls
    <3>2. issued'[c] = issued[c] + 1
      BY <2>1 DEF GenerateToken, TypeInv, TypeOK
    <3>3. c \notin dup => issued[c] = 0 /\ \A q \in Procs : ~Polls(q, c)'
      BY <1>2, <3>1 DEF OnePoll
    <3> QED
      BY <3>1, <3>2, <3>3
  <2>2. CASE c # o
    <3>1. issued'[c] = issued[c]
      BY <2>2 DEF GenerateToken, TypeInv, TypeOK
    <3> QED
      BY <1>2, <3>1 DEF OnePoll
  <2> QED
    BY <2>1, <2>2
<1> QED
  BY <1>3, <1>4

\* Every step keeps what is known of the device flow.
LEMMA CodesInvStep ==
  ASSUME TypeInv, CodesInv, [Next]_vars
  PROVE  CodesInv'
<1>0. Idle.op \notin {"authorize", "consume", "token"}
  BY DEF Idle
<1>1. ASSUME NEW p \in Procs, End(p), UNCHANGED <<codes, approval, issued, dup>>
      PROVE  CodesInv'
  <2>1. \A q \in Procs : req'[q] = IF q = p THEN Idle ELSE req[q]
    BY <1>1, EndRequestsOK DEF TypeInv
  <2> QED
    BY <1>0, <1>1, <2>1, CodesOnlyRemoved
<1>2. ASSUME NEW p \in Procs, DeleteTokens(p)
      PROVE  CodesInv'
  <2>1. req[p] \in Requests
    BY <1>2, RequestAt DEF DeleteTokens, Ops, Writes, TypeInv
  <2>2. req'[p].op = "delete" /\ \A q \in Procs \ {p} : req'[q] = req[q]
    BY <1>2, <2>1 DEF DeleteTokens, TypeInv, RequestsOK, Requests
  <2> QED
    BY <1>2, <2>2, CodesOnlyRemoved DEF DeleteTokens, aux
<1>3. ASSUME NEW p \in Procs, DeleteDeviceAuth(p)
      PROVE  CodesInv'
  <2> DEFINE c == req[p].on
  <2>1. req[p] \in Requests /\ req[p].op = "consume" /\ c \in Codes
    BY <1>3, RequestAt DEF DeleteDeviceAuth, Ops, TypeInv, RequestsOK
  <2>2. /\ req'[p].op = "token" /\ req'[p].user = req[p].user /\ req'[p].scopes = req[p].scopes
        /\ req'[p].on = c
        /\ \A q \in Procs \ {p} : req'[q] = req[q]
    BY <1>3, <2>1 DEF DeleteDeviceAuth, TypeInv, RequestsOK, Requests
  <2>3. codes'[c] = Removed /\ \A i \in Codes \ {c} : codes'[i] = codes[i]
    BY <1>3, <2>1 DEF DeleteDeviceAuth, stmtOAuth2DeviceAuthDelete, TypeInv, TypeOK
  <2>4. UNCHANGED <<approval, issued, dup>>
    BY <1>3 DEF DeleteDeviceAuth, aux
  <2> QED
    BY <2>1, <2>2, <2>3, <2>4, CodesOnlyRemoved
<1>4. ASSUME NEW p \in Procs, stmtOAuth2DeviceAuthAuthorize(p)
      PROVE  CodesInv'
  <2> DEFINE c == req[p].on
  <2>1. req[p] \in Requests /\ c \in Codes /\ req[p].op = "authorize"
    BY <1>4, RequestAt DEF stmtOAuth2DeviceAuthAuthorize, Ops, TypeInv, RequestsOK
  <2>2. req[p].scopes \subseteq req[p].user.scopes
    BY <2>1 DEF CodesInv, ApprovalKept
  <2>3. \A q \in Procs : req'[q] = req[q] \/ req'[q] = Idle
    BY <1>4, EndRequestsOK DEF stmtOAuth2DeviceAuthAuthorize, TypeInv
  <2>4. CASE Undecided(c)
    <3>1. codes[c] \in Code
      BY <2>1, <2>4 DEF Undecided, Present, TypeInv, TypeOK
    <3>2. /\ codes'[c].user = req[p].user.name /\ codes'[c].scopes = req[p].scopes
          /\ \A i \in Codes \ {c} : codes'[i] = codes[i]
      BY <1>4, <2>1, <2>4, <3>1 DEF stmtOAuth2DeviceAuthAuthorize, TypeInv, TypeOK, Code
    <3>3. approval'[c] = req[p].user /\ \A i \in Codes \ {c} : approval'[i] = approval[i]
      BY <1>4, <2>1, <2>4 DEF stmtOAuth2DeviceAuthAuthorize, TypeInv, TypeOK
    <3>4. UNCHANGED <<issued, dup>>
      BY <1>4 DEF stmtOAuth2DeviceAuthAuthorize
    <3> QED
      BY <2>1, <2>2, <2>3, <2>4, <3>2, <3>3, <3>4, UnpolledCode
  <2>5. CASE ~Undecided(c)
    BY <1>1, <1>4, <2>5 DEF stmtOAuth2DeviceAuthAuthorize
  <2> QED
    BY <2>4, <2>5
<1>5. ASSUME NEW p \in Procs, stmtOAuth2DeviceAuthDeny(p)
      PROVE  CodesInv'
  <2> DEFINE c == req[p].on
  <2>1. c \in Codes
    BY <1>5 DEF stmtOAuth2DeviceAuthDeny, TypeInv, RequestsOK
  <2>2. UNCHANGED <<issued, dup, approval>> /\ End(p)
    BY <1>5 DEF stmtOAuth2DeviceAuthDeny, aux
  <2>3. \A q \in Procs : req'[q] = req[q] \/ req'[q] = Idle
    BY <2>2, EndRequestsOK DEF TypeInv
  <2>4. CASE Undecided(c)
    <3>1. codes[c] \in Code /\ ~codes[c].authorized
      BY <2>1, <2>4 DEF Undecided, Present, TypeInv, TypeOK
    <3>2. /\ ~codes'[c].authorized
          /\ \A i \in Codes \ {c} : codes'[i] = codes[i]
      BY <1>5, <2>1, <2>4, <3>1 DEF stmtOAuth2DeviceAuthDeny, TypeInv, TypeOK, Code
    <3> QED
      BY <2>1, <2>2, <2>3, <2>4, <3>2, UnpolledCode
  <2>5. CASE ~Undecided(c)
    BY <1>1, <1>5, <2>2, <2>5 DEF stmtOAuth2DeviceAuthDeny
  <2> QED
    BY <2>4, <2>5
<1>6. ASSUME NEW p \in Procs, Step(p)
      PROVE  CodesInv'
  <2>1. CASE stmtUserUpdate(p)
    BY <1>1, <2>1 DEF stmtUserUpdate
  <2>2. ASSUME NEW s \in SessionIds, CreateSession(p, s)
        PROVE  CodesInv'
    BY <1>1, <2>2 DEF CreateSession, aux
  <2>3. CASE Fail(p)
    BY <1>1, <2>3 DEF Fail, aux, tables
  <2> QED
    BY <1>2, <1>3, <1>4, <1>5, <1>6, <2>1, <2>2, <2>3, TokenCodes DEF Step
<1>7. ASSUME NEW c \in Codes, NEW names \in ScopeLists, oauth2DeviceCode(c, names)
      PROVE  CodesInv'
  <2>1. codes[c] = Unused /\ UNCHANGED <<req, issued, dup, approval>>
    BY <1>7 DEF oauth2DeviceCode, CreateDeviceAuth, stmtOAuth2DeviceAuthCreate, aux
  <2>2. ~codes'[c].authorized /\ \A i \in Codes \ {c} : codes'[i] = codes[i]
    BY <1>7 DEF oauth2DeviceCode, CreateDeviceAuth, stmtOAuth2DeviceAuthCreate, TypeInv, TypeOK
  <2> QED
    BY <2>1, <2>2, UnpolledCode
<1>8. CASE RunGc
  <2>1. codes \in [Codes -> Code \cup {Unused, Removed}] /\ codes' \in {Swept(codes), codes}
    BY <1>8 DEF RunGc, stmtOAuth2DeviceAuthDeleteExpired, TypeInv, TypeOK
  <2>2. \A c \in Codes : codes'[c] = codes[c] \/ codes'[c] = Removed
    BY <2>1, SweptRows
  <2> QED
    BY <1>8, <2>2, CodesOnlyRemoved DEF RunGc, aux
<1>9. ASSUME UNCHANGED <<codes, req, approval, issued, dup>>
      PROVE  CodesInv'
  BY <1>9, CodesOnlyRemoved
<1>10. ASSUME Single
       PROVE  CodesInv'
  <2>1. CASE UNCHANGED codes /\ ~RunGc /\ ~\E c \in Codes, names \in ScopeLists : oauth2DeviceCode(c, names)
    <3>1. UNCHANGED <<codes, req, approval, issued, dup>>
      BY <1>10, <2>1 DEF Single, handleUserCreate, authLogout, settingsTokenUpdate, userTokenDelete,
                         Tick, aux, tables
    <3> QED
      BY <1>9, <3>1
  <2> QED
    BY <1>7, <1>8, <1>10, <2>1 DEF Single, handleUserCreate, authLogout, settingsTokenUpdate,
                                   userTokenDelete, Tick, aux, tables
<1>11. CASE UNCHANGED vars
  BY <1>9, <1>11 DEF vars
<1> QED
  BY <1>6, <1>10, <1>11, NextSplit, BeginCodes

-----------------------------------------------------------------------------
(* Tokens: masks that can be read back *)

\* What may happen to a token's row or to a request that will issue a token.
TokenRowOK(row) == Closed(row.scopes) /\ (row.scopes # {} \/ row.user \in emptied')
RequestOK(r) ==
  /\ Closed(r.user.scopes) /\ Closed(r.scopes)
  /\ r.op \in {"token", "consume"} => r.scopes # {} \/ r.user.name \in emptied'

\* It is enough that what a step changes is in order.
LEMMA TokensFrame ==
  ASSUME TokensInv, emptied \subseteq emptied',
         \A u \in UserNames : users'[u] = users[u] \/ Closed(users'[u].scopes),
         \A s \in SessionIds :
           sessions'[s] = sessions[s] \/ sessions'[s] = Removed \/ Closed(sessions'[s].scopes),
         \A t \in TokenIds : tokens'[t] = tokens[t] \/ tokens'[t] = Removed \/ TokenRowOK(tokens'[t]),
         \A c \in Codes : codes'[c] = codes[c] \/ codes'[c] = Removed \/ Closed(codes'[c].scopes),
         \A q \in Procs : req'[q] = req[q] \/ req'[q] = Idle \/ RequestOK(req'[q])
  PROVE  TokensInv'
<1>0. ~Present(Removed) /\ Idle.op \notin {"token", "consume"}
  BY DEF Present, Idle
<1>1. MasksClosed'
  <2>1. \A u \in UserNames : users'[u] # NoRow => Closed(users'[u].scopes)
    BY DEF TokensInv, MasksClosed
  <2>2. \A s \in SessionIds : Present(sessions'[s]) => Closed(sessions'[s].scopes)
    BY <1>0 DEF TokensInv, MasksClosed
  <2>3. \A t \in TokenIds : Present(tokens'[t]) => Closed(tokens'[t].scopes)
    BY <1>0 DEF TokensInv, MasksClosed, TokenRowOK
  <2>4. \A c \in Codes : Present(codes'[c]) => Closed(codes'[c].scopes)
    BY <1>0 DEF TokensInv, MasksClosed
  <2>5. \A q \in Procs : req'[q] # Idle => Closed(req'[q].user.scopes) /\ Closed(req'[q].scopes)
    BY DEF TokensInv, MasksClosed, RequestOK
  <2> QED
    BY <2>1, <2>2, <2>3, <2>4, <2>5 DEF MasksClosed
<1>2. TokensHaveScopes'
  <2>1. \A t \in TokenIds : Present(tokens'[t]) => tokens'[t].scopes # {} \/ tokens'[t].user \in emptied'
    BY <1>0 DEF TokensInv, TokensHaveScopes, TokenRowOK
  <2>2. \A q \in Procs : req'[q].op \in {"token", "consume"} =>
          req'[q].scopes # {} \/ req'[q].user.name \in emptied'
    BY <1>0 DEF TokensInv, TokensHaveScopes, RequestOK
  <2> QED
    BY <2>1, <2>2 DEF TokensHaveScopes
<1> QED
  BY <1>1, <1>2 DEF TokensInv

\* A poll that begins with no scopes is on record; every other request that will
\* issue a token begins with scopes.
LEMMA BeginTokens ==
  ASSUME TypeInv, TokensInv, NEW p \in Procs, NEW r \in Requests, Begins(p, r)
  PROVE  TokensInv'
<1>1. /\ \A q \in Procs : req'[q] = IF q = p THEN r ELSE req[q]
      /\ UNCHANGED <<sessions, tokens, codes>>
  BY BeginTypes DEF Begins
<1>2. emptied \subseteq emptied' /\ RequestOK(r)
  <2>1. Closed(r.user.scopes) /\ Closed(r.scopes)
    BY DEF Begins, Begun, TokensInv
  <2>2. CASE r.op = "consume"
    BY <2>1, <2>2 DEF Begins, Begun, RequestOK
  <2>3. CASE r.op # "consume"
    BY <2>1, <2>3 DEF Begins, Begun, RequestOK
  <2> QED
    BY <2>2, <2>3
<1>3. \A u \in UserNames : users'[u] = users[u] \/ Closed(users'[u].scopes)
  <2>1. NewUserScopes \in Masks /\ Closed(NewUserScopes)
    BY UsersAssumption, GrantsClosed
  <2>2. CASE UNCHANGED users
    BY <2>2
  <2>3. ASSUME NEW u \in UserNames, NewUser(u, NewUserScopes)
        PROVE  \A w \in UserNames : users'[w] = users[w] \/ Closed(users'[w].scopes)
    BY <2>1, <2>3, NewUserEffect
  <2> QED
    BY <2>2, <2>3 DEF Begins
<1> QED
  BY <1>1, <1>2, <1>3, TokensFrame

\* The steps of a request after its first.
LEMMA StepTokens ==
  ASSUME TypeInv, TokensInv, NEW p \in Procs, Step(p)
  PROVE  TokensInv'
<1> USE DEF aux, tables
<1>1. req[p] # Idle
  <2>1. Idle.op \notin Ops
    BY DEF Idle, Ops, Writes
  <2> QED
    BY <2>1 DEF Step, DeleteTokens, stmtUserUpdate, CreateSession, GenerateToken, Ops, Writes,
                stmtOAuth2DeviceAuthAuthorize, stmtOAuth2DeviceAuthDeny, DeleteDeviceAuth, Fail
<1>2. /\ req[p] \in Requests
      /\ Closed(req[p].user.scopes) /\ Closed(req[p].scopes)
  BY <1>1 DEF TypeInv, RequestsOK, TokensInv, MasksClosed
<1>3. End(p) => \A q \in Procs : req'[q] = req[q] \/ req'[q] = Idle
  BY EndRequestsOK DEF TypeInv
<1>4. UNCHANGED emptied
  BY DEF Step, DeleteTokens, stmtUserUpdate, CreateSession, GenerateToken,
         stmtOAuth2DeviceAuthAuthorize, stmtOAuth2DeviceAuthDeny, DeleteDeviceAuth, Fail
<1>5. CASE DeleteTokens(p)
  <2>1. /\ req'[p].op = "delete" /\ req'[p].user = req[p].user /\ req'[p].scopes = req[p].scopes
        /\ \A q \in Procs \ {p} : req'[q] = req[q]
    BY <1>2, <1>5 DEF DeleteTokens, TypeInv, RequestsOK, Requests
  <2>2. RequestOK(req'[p])
    BY <1>2, <2>1 DEF RequestOK
  <2>3. \A t \in TokenIds : tokens'[t] = tokens[t] \/ tokens'[t] = Removed
    BY <1>5 DEF DeleteTokens, stmtTokenDeleteAll
  <2> QED
    BY <1>4, <1>5, <2>1, <2>2, <2>3, TokensFrame DEF DeleteTokens
<1>6. CASE stmtUserUpdate(p)
  <2>1. \A u \in UserNames : users'[u] = users[u] \/ users'[u].scopes = req[p].user.scopes
    BY <1>6 DEF stmtUserUpdate, TypeInv, TypeOK
  <2>2. End(p) /\ UNCHANGED <<sessions, tokens, codes>>
    BY <1>6 DEF stmtUserUpdate
  <2>3. \A u \in UserNames : users'[u] = users[u] \/ Closed(users'[u].scopes)
    BY <1>2, <2>1
  <2> QED
    BY <1>3, <1>4, <2>2, <2>3, TokensFrame
<1>7. ASSUME NEW s \in SessionIds, CreateSession(p, s)
      PROVE  TokensInv'
  <2>1. \A i \in SessionIds : sessions'[i] = sessions[i] \/ sessions'[i].scopes = req[p].scopes
    BY <1>7 DEF CreateSession, stmtSessionCreate, TypeInv, TypeOK
  <2>2. End(p) /\ UNCHANGED <<users, tokens, codes>>
    BY <1>7 DEF CreateSession
  <2>3. \A i \in SessionIds : sessions'[i] = sessions[i] \/ Closed(sessions'[i].scopes)
    BY <1>2, <2>1
  <2> QED
    BY <1>3, <1>4, <2>2, <2>3, TokensFrame
<1>8. ASSUME NEW t \in TokenIds, GenerateToken(p, t)
      PROVE  TokensInv'
  <2>1. \A i \in TokenIds : \/ tokens'[i] = tokens[i]
                            \/ tokens'[i].scopes = req[p].scopes /\ tokens'[i].user = req[p].user.name
    BY <1>8 DEF GenerateToken, stmtTokenCreate, TypeInv, TypeOK
  <2>2. End(p) /\ UNCHANGED <<users, sessions, codes>>
    BY <1>8 DEF GenerateToken
  <2>3. req[p].scopes # {} \/ req[p].user.name \in emptied'
    BY <1>4, <1>8 DEF GenerateToken, TokensInv, TokensHaveScopes
  <2>4. \A i \in TokenIds : tokens'[i] = tokens[i] \/ TokenRowOK(tokens'[i])
    BY <1>2, <2>1, <2>3 DEF TokenRowOK
  <2> QED
    BY <1>3, <1>4, <2>2, <2>4, TokensFrame
<1>9. CASE stmtOAuth2DeviceAuthAuthorize(p)
  <2> DEFINE c == req[p].on
  <2>1. End(p) /\ UNCHANGED <<users, sessions, tokens>> /\ c \in Codes
    BY <1>9 DEF stmtOAuth2DeviceAuthAuthorize, TypeInv, RequestsOK
  <2>2. CASE Undecided(c)
    <3>1. codes[c] \in Code
      BY <2>1, <2>2 DEF Undecided, Present, TypeInv, TypeOK
    <3>2. /\ codes'[c].scopes = req[p].scopes
          /\ \A i \in Codes \ {c} : codes'[i] = codes[i]
      BY <1>9, <2>1, <2>2, <3>1 DEF stmtOAuth2DeviceAuthAuthorize, TypeInv, TypeOK, Code
    <3>3. \A i \in Codes : codes'[i] = codes[i] \/ Closed(codes'[i].scopes)
      BY <1>2, <3>2
    <3> QED
      BY <1>3, <1>4, <2>1, <3>3, TokensFrame
  <2>3. CASE ~Undecided(c)
    <3>1. UNCHANGED codes
      BY <1>9, <2>3 DEF stmtOAuth2DeviceAuthAuthorize
    <3> QED
      BY <1>3, <1>4, <2>1, <3>1, TokensFrame
  <2> QED
    BY <2>2, <2>3
<1>10. CASE stmtOAuth2DeviceAuthDeny(p)
  <2> DEFINE c == req[p].on
  <2>1. End(p) /\ UNCHANGED <<users, sessions, tokens>> /\ c \in Codes
    BY <1>10 DEF stmtOAuth2DeviceAuthDeny, TypeInv, RequestsOK
  <2>2. \A i \in Codes : codes'[i] = codes[i] \/ Closed(codes'[i].scopes)
    <3>1. CASE Undecided(c)
      <4>1. codes[c] \in Code /\ Closed(codes[c].scopes)
        BY <2>1, <3>1 DEF Undecided, Present, TypeInv, TypeOK, TokensInv, MasksClosed
      <4>2. /\ codes'[c].scopes = codes[c].scopes
            /\ \A i \in Codes \ {c} : codes'[i] = codes[i]
        BY <1>10, <2>1, <3>1, <4>1 DEF stmtOAuth2DeviceAuthDeny, TypeInv, TypeOK, Code
      <4> QED
        BY <4>1, <4>2
    <3>2. CASE ~Undecided(c)
      BY <1>10, <3>2 DEF stmtOAuth2DeviceAuthDeny
    <3> QED
      BY <3>1, <3>2
  <2> QED
    BY <1>3, <1>4, <2>1, <2>2, TokensFrame
<1>11. CASE DeleteDeviceAuth(p)
  <2>1. /\ req[p].op = "consume"
        /\ req'[p].user = req[p].user /\ req'[p].scopes = req[p].scopes
        /\ \A q \in Procs \ {p} : req'[q] = req[q]
    BY <1>2, <1>11 DEF DeleteDeviceAuth, TypeInv, RequestsOK, Requests
  <2>2. RequestOK(req'[p])
    BY <1>2, <1>4, <2>1 DEF RequestOK, TokensInv, TokensHaveScopes
  <2>3. \A c \in Codes : codes'[c] = codes[c] \/ codes'[c] = Removed
    BY <1>11 DEF DeleteDeviceAuth, stmtOAuth2DeviceAuthDelete, TypeInv, TypeOK
  <2> QED
    BY <1>4, <1>11, <2>1, <2>2, <2>3, TokensFrame DEF DeleteDeviceAuth
<1>12. CASE Fail(p)
  BY <1>3, <1>4, <1>12, TokensFrame DEF Fail
<1> QED
  BY <1>5, <1>6, <1>7, <1>8, <1>9, <1>10, <1>11, <1>12 DEF Step

\* The single steps: scopes come as at least one name.
LEMMA SingleTokens ==
  ASSUME TypeInv, TokensInv, Single
  PROVE  TokensInv'
<1> USE DEF aux, tables
<1>1. UNCHANGED <<req, emptied>>
  BY DEF Single, handleUserCreate, authLogout, settingsTokenUpdate, userTokenDelete,
         oauth2DeviceCode, RunGc, Tick
<1>2. ASSUME NEW s \in SessionIds, NEW u \in UserNames, NEW names \in ScopeLists,
             handleUserCreate(s, u, names)
      PROVE  TokensInv'
  <2> DEFINE g == ScopesFromSlice(names)
  <2>1. g \in Masks /\ Closed(g)
    BY UsersAssumption, ListClosed
  <2>2. NewUser(u, g) /\ UNCHANGED <<sessions, tokens, codes>>
    BY <1>2 DEF handleUserCreate, NewUser, stmtUserCreate
  <2>3. \A w \in UserNames : users'[w] = users[w] \/ Closed(users'[w].scopes)
    BY <2>1, <2>2, NewUserEffect
  <2> QED
    BY <1>1, <2>2, <2>3, TokensFrame
<1>3. ASSUME NEW s \in SessionIds, authLogout(s)
      PROVE  TokensInv'
  <2>1. \A i \in SessionIds : sessions'[i] = sessions[i] \/ sessions'[i] = Removed
    BY <1>3 DEF authLogout, DropSession, stmtSessionDelete, TypeInv, TypeOK
  <2> QED
    BY <1>1, <1>3, <2>1, TokensFrame DEF authLogout
<1>4. ASSUME NEW s \in SessionIds, NEW t \in TokenIds, NEW names \in ScopeLists,
             settingsTokenUpdate(s, t, names)
      PROVE  TokensInv'
  <2>1. Closed(ScopesFromSlice(names)) /\ ScopesFromSlice(names) # {}
    BY UsersAssumption, ListClosed
  <2>2. /\ tokens'[t].scopes = ScopesFromSlice(names)
        /\ \A i \in TokenIds \ {t} : tokens'[i] = tokens[i]
    BY <1>4, UpdatedToken
  <2>3. \A i \in TokenIds : tokens'[i] = tokens[i] \/ TokenRowOK(tokens'[i])
    BY <2>1, <2>2 DEF TokenRowOK
  <2> QED
    BY <1>1, <1>4, <2>3, TokensFrame DEF settingsTokenUpdate
<1>5. ASSUME NEW s \in SessionIds, NEW t \in TokenIds, userTokenDelete(s, t)
      PROVE  TokensInv'
  <2>1. \A i \in TokenIds : tokens'[i] = tokens[i] \/ tokens'[i] = Removed
    BY <1>5 DEF userTokenDelete, stmtTokenDelete, TypeInv, TypeOK
  <2> QED
    BY <1>1, <1>5, <2>1, TokensFrame DEF userTokenDelete
<1>6. ASSUME NEW c \in Codes, NEW names \in ScopeLists, oauth2DeviceCode(c, names)
      PROVE  TokensInv'
  <2>1. Closed(ScopesFromSlice(names))
    BY UsersAssumption, ListClosed
  <2>2. \A i \in Codes : codes'[i] = codes[i] \/ codes'[i].scopes = ScopesFromSlice(names)
    BY <1>6 DEF oauth2DeviceCode, CreateDeviceAuth, stmtOAuth2DeviceAuthCreate, TypeInv, TypeOK
  <2>3. \A i \in Codes : codes'[i] = codes[i] \/ Closed(codes'[i].scopes)
    BY <2>1, <2>2
  <2> QED
    BY <1>1, <1>6, <2>3, TokensFrame DEF oauth2DeviceCode
<1>7. CASE RunGc
  <2>1. UNCHANGED users
    BY <1>7 DEF RunGc
  <2>2. \A t \in TokenIds : tokens'[t] = tokens[t] \/ tokens'[t] = Removed
    <3>1. tokens \in [TokenIds -> Token \cup {Unused, Removed}] /\ tokens' \in {Swept(tokens), tokens}
      BY <1>7 DEF RunGc, stmtTokenDeleteExpired, TypeInv, TypeOK
    <3> QED
      BY <3>1, SweptRows
  <2>3. \A s \in SessionIds : sessions'[s] = sessions[s] \/ sessions'[s] = Removed
    <3>1. /\ sessions \in [SessionIds -> Session \cup {Unused, Removed}]
          /\ sessions' \in {Swept(sessions), sessions}
      BY <1>7 DEF RunGc, stmtSessionDeleteExpired, TypeInv, TypeOK
    <3> QED
      BY <3>1, SweptRows
  <2>4. \A c \in Codes : codes'[c] = codes[c] \/ codes'[c] = Removed
    <3>1. codes \in [Codes -> Code \cup {Unused, Removed}] /\ codes' \in {Swept(codes), codes}
      BY <1>7 DEF RunGc, stmtOAuth2DeviceAuthDeleteExpired, TypeInv, TypeOK
    <3> QED
      BY <3>1, SweptRows
  <2> QED
    BY <1>1, <2>1, <2>2, <2>3, <2>4, TokensFrame
<1>8. CASE Tick
  BY <1>1, <1>8, TokensFrame DEF Tick
<1> QED
  BY <1>2, <1>3, <1>4, <1>5, <1>6, <1>7, <1>8 DEF Single

\* Every step keeps every mask readable and every token with a scope.
LEMMA TokensInvStep ==
  ASSUME TypeInv, TokensInv, [Next]_vars
  PROVE  TokensInv'
<1>1. CASE UNCHANGED vars
  BY <1>1, TokensFrame DEF vars
<1> QED
  BY <1>1, NextSplit, BeginTokens, StepTokens, SingleTokens

-----------------------------------------------------------------------------
(* The theorems *)

\* The server starts with the first accounts, as granted, and nothing else.
LEMMA UsersInit ==
  ASSUME Init
  PROVE  Inv
<1>0. Idle.op = "idle" /\ ~Present(Unused)
  BY DEF Idle, Present
<1>1. TypeInv
  BY UsersTypeInit
<1>2. \A p \in Procs : req[p] = Idle
  BY DEF Init
<1>3. UsersInv
  BY <1>0, <1>2 DEF Init, UsersInv, CopiesWithinGrant, RowsWithinGrant, NoCopyOfDeleted, Writes
<1>4. \A p \in Procs, c \in Codes : ~Polls(p, c)
  BY <1>0, <1>2 DEF Polls
<1>5. CodesInv
  BY <1>0, <1>2, <1>4 DEF Init, CodesInv, ApprovalKept, OnePoll
<1>6. TokensInv
  <2>1. \A u \in DOMAIN Accounts : Closed(Accounts[u])
    BY UsersAssumption, GrantsClosed
  <2> QED
    BY <1>0, <1>2, <2>1 DEF Init, TokensInv, MasksClosed, TokensHaveScopes
<1> QED
  BY <1>1, <1>3, <1>5, <1>6 DEF Inv

\* The four parts of the invariant hold together in every reachable state.
THEOREM UsersInvariant == Spec => []Inv
<1>1. Init => Inv
  BY UsersInit
<1>2. Inv /\ [Next]_vars => Inv'
  BY UsersTypeStep, UsersInvStep, CodesInvStep, TokensInvStep DEF Inv
<1> QED
  BY <1>1, <1>2, PTL DEF Spec

\* A user whose deletion has completed is not brought back by a request that did
\* not overlap it, and the sessions and tokens of a deleted user give access to
\* nothing.
THEOREM DeletionLasts == Spec => []DeletedStaysDeleted
<1>1. Inv => DeletedStaysDeleted
  <2> SUFFICES ASSUME Inv
               PROVE  DeletedStaysDeleted
    OBVIOUS
  <2>1. \A u \in gone \ mixed : users[u].deleted
    BY DEF Inv, UsersInv, NoCopyOfDeleted
  <2>2. ASSUME NEW u \in UserNames, users[u] # NoRow, users[u].deleted
        PROVE  stmtUserGetById(u) = Nobody
    BY <2>2 DEF stmtUserGetById
  <2>3. ASSUME NEW u \in UserNames, users[u] # NoRow, users[u].deleted,
               NEW s \in SessionIds, Present(sessions[s]), sessions[s].user = u
        PROVE  GetBySession(s).scopes = {}
    BY <2>2, <2>3 DEF GetBySession, Nobody
  <2>4. ASSUME NEW u \in UserNames, users[u] # NoRow, users[u].deleted,
               NEW t \in TokenIds, Present(tokens[t]), tokens[t].user = u
        PROVE  GetByToken(t).scopes = {}
    <3>1. Nobody.scopes = {} /\ \A S : [Nobody EXCEPT !.scopes = S \cap Nobody.scopes].scopes = {}
      BY DEF Nobody
    <3> QED
      BY <2>2, <2>4, <3>1 DEF GetByToken, stmtTokenLookup
  <2> QED
    BY <2>1, <2>3, <2>4 DEF DeletedStaysDeleted
<1> QED
  BY <1>1, UsersInvariant, PTL

\* What requests write back with a user stays within the administrator's last
\* grant, and a poll within what the session that approved the code could give.
THEOREM GrantsBound == Spec => []ScopesWithinGrant
<1>1. Inv => ScopesWithinGrant
  <2> SUFFICES ASSUME Inv
               PROVE  ScopesWithinGrant
    OBVIOUS
  <2>1. \A u \in UserNames \ mixed : users[u] # NoRow => users[u].scopes \subseteq granted[u]
    BY DEF Inv, UsersInv, RowsWithinGrant
  <2>2. \A p \in Procs : req[p] # Idle /\ req[p].on \in Codes /\ req[p].op \in {"consume", "token"} =>
          /\ req[p].scopes \subseteq approval[req[p].on].scopes
          /\ req[p].user.name = approval[req[p].on].name
    BY DEF Inv, CodesInv, ApprovalKept, Polls
  <2> QED
    BY <2>1, <2>2 DEF ScopesWithinGrant
<1> QED
  BY <1>1, UsersInvariant, PTL

\* A device code that no two polls held at once yields at most one token.
THEOREM CodeYieldsOneToken == Spec => []OneTokenPerCode
<1>1. Inv => OneTokenPerCode
  BY DEF Inv, CodesInv, OnePoll, OneTokenPerCode
<1> QED
  BY <1>1, UsersInvariant, PTL

\* No token without scopes is stored, so that a user's tokens can be listed.
THEOREM TokensStayListable == Spec => []TokensListable
<1>1. Inv => TokensListable
  <2> SUFFICES ASSUME Inv, NEW u \in UserNames \ emptied, NEW t \in TokenIds,
                      Present(tokens[t]), tokens[t].user = u
               PROVE  ScopesFromString(ToSlice(tokens[t].scopes)) # Invalid
    BY DEF TokensListable, stmtTokenListFails
  <2>1. Closed(tokens[t].scopes) /\ tokens[t].scopes # {}
    BY DEF Inv, TokensInv, MasksClosed, TokensHaveScopes
  <2> QED
    BY <2>1, ClosedParses
<1> QED
  BY <1>1, UsersInvariant, PTL

=============================================================================
