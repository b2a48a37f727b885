-------------------------------- MODULE Users --------------------------------
(***************************************************************************)
(* User accounts, their sessions and API tokens, and the OAuth2 device     *)
(* flow that issues tokens: storage/users and the handlers of the web UI,  *)
(* the API and the authentication providers that change them.              *)
(*                                                                         *)
(* Every SQL statement is atomic, a request is not: it reads the user it   *)
(* is about, works on that copy and writes all its columns back, beside    *)
(* other requests and the GC daemon.  A restart forgets the requests.      *)
(* A request's session lookup is one step with the reads that follow it:   *)
(* between them it holds nothing it will write.                            *)
(*                                                                         *)
(* Passwords, their history and the rate limits are the module Login's.    *)
(* A user's row is never removed and its username is unique, so that the   *)
(* username stands for the id.                                             *)
(***************************************************************************)
EXTENDS Integers, Scopes

CONSTANTS
  UserNames,    \* usernames
  Accounts,     \* the users that exist at first, with their scopes
  NewUserScopes,\* NewUserDefaultScopes of the configuration
  Profiles,     \* identities of the external providers: username, organizations, domain
  AllowedOrgs, AllowedDomains,   \* whose members may log in externally
  ScopeLists,   \* lists of scope names that requests send
  SessionIds,   \* session cookies
  TokenIds,     \* API tokens
  Codes,        \* device codes, each with its user code
  Procs,        \* requests that the server handles at the same time
  SessionTTL,   \* how long a session is valid
  CodeTTL,      \* deviceCodeTTL
  TokenTTL,     \* the lifetime a request asks for its token
  MaxTokenLifetime, \* MaxTokenLifetimeDays, 0 = unlimited
  MaxNow,       \* bound: the last moment
  MaxRequests,  \* bound: requests, beside those that create a user or a code
  NoRow, Unused, Removed

(* What at least one scope name stands for: scopes come as names, also those *)
(* of the first accounts and of the configuration.                           *)
Grants == {ScopesFromSlice(names) : names \in (SUBSET maskToString) \ {{}}}

ASSUME UsersAssumption ==
  /\ \A u \in DOMAIN Accounts : u \in UserNames /\ Accounts[u] \in Grants
  /\ NewUserScopes \in Grants
  /\ \A x \in Profiles : x.username \in UserNames
  /\ ScopeLists \subseteq (SUBSET maskToString) \ {{}}
  /\ {SessionTTL, CodeTTL, TokenTTL, MaxTokenLifetime, MaxNow, MaxRequests} \subseteq Nat
  /\ \A r \in {NoRow, Unused, Removed} : r \notin UserNames \cup Codes
  /\ Unused # Removed

VARIABLES
  users,     \* users table: the row of a username
  sessions,  \* session table, with the cookies never given out and the removed ones
  tokens,    \* tokens table, likewise
  codes,     \* oauth2_device_flow table, likewise
  req,       \* the requests in progress
  now,       \* the time
  left,      \* requests that may still arrive
  granted,   \* auxiliary: the scopes an administrator last gave the user
  gone,      \* auxiliary: users whose deletion has completed
  mixed,     \* auxiliary: users written while another request held a copy to write
  issued,    \* auxiliary: tokens issued for a device code
  dup,       \* auxiliary: codes that two polls held at once
  emptied,   \* auxiliary: users with a code of whose scopes nothing was left when polled
  approval   \* auxiliary: who approved a code, and the scopes of that session

tables == <<users, sessions, tokens, codes>>
aux == <<granted, gone, mixed, issued, dup, emptied, approval>>
vars == <<users, sessions, tokens, codes, req, now, left, granted, gone, mixed, issued, dup, emptied, approval>>

(* The user whose session outlived the account: id 0, no name, no scopes.  *)
NoUser == NoRow
Nobody == [name |-> NoUser, scopes |-> {}]

Masks == SUBSET Bits
Copy == [name : UserNames \cup {NoUser}, scopes : Masks]

Row == [scopes : Masks, deleted : BOOLEAN]

ASSUME RowAssumption == NoRow \notin Row

Session == [user : UserNames, expires : Nat, scopes : Masks]
Token == [user : UserNames, expires : Nat, scopes : Masks]
Code == [user : UserNames \cup {NoUser}, expires : Nat, scopes : Masks,
         authorized : BOOLEAN, denied : BOOLEAN]

(* A request: what it does next, the user copy it holds, the scopes of the *)
(* token or session it makes, the code or token it is about.               *)
Idle == [op |-> "idle"]
Request(op, user, scopes, on) == [op |-> op, user |-> user, scopes |-> scopes, on |-> on]

Init ==
  /\ users = [u \in UserNames |-> IF u \in DOMAIN Accounts
                                  THEN [scopes |-> Accounts[u], deleted |-> FALSE] ELSE NoRow]
  /\ sessions = [s \in SessionIds |-> Unused]
  /\ tokens = [t \in TokenIds |-> Unused]
  /\ codes = [c \in Codes |-> Unused]
  /\ req = [p \in Procs |-> Idle]
  /\ now = 0
  /\ left = MaxRequests
  /\ granted = [u \in UserNames |-> IF u \in DOMAIN Accounts THEN Accounts[u] ELSE {}]
  /\ gone = {}
  /\ mixed = {}
  /\ issued = [c \in Codes |-> 0]
  /\ dup = {} /\ emptied = {}
  /\ approval = [c \in Codes |-> Nobody]

-----------------------------------------------------------------------------
(* Lookups *)

Present(row) == row \notin {Unused, Removed}

\* Mutant: the lookup also finds deleted users.
stmtUserGetByNameAny(u) ==
  IF users[u] # NoRow /\ ScopesFromString(ToSlice(users[u].scopes)) # Invalid
  THEN [name |-> u, scopes |-> users[u].scopes] ELSE Nobody

(* The copy of a live user, Nobody when there is none or it does not parse. *)
(* The column deleted is not read: the copy's Deleted is false.             *)
stmtUserGetByName(u) ==
  IF users[u] # NoRow /\ ~users[u].deleted /\ ScopesFromString(ToSlice(users[u].scopes)) # Invalid
  THEN [name |-> u, scopes |-> users[u].scopes] ELSE Nobody

stmtUserGetById(u) ==
  IF u \in UserNames /\ users[u] # NoRow /\ ~users[u].deleted
     /\ ScopesFromString(ToSlice(users[u].scopes)) # Invalid
  THEN [name |-> u, scopes |-> users[u].scopes] ELSE Nobody

\* Mutant: the session's scopes as they were at login.
GetBySessionAtLogin(s) ==
  LET u == stmtUserGetById(sessions[s].user) IN [u EXCEPT !.scopes = sessions[s].scopes]

GetBySession(s) ==
  LET u == stmtUserGetById(sessions[s].user)
  IN  [u EXCEPT !.scopes = sessions[s].scopes \cap u.scopes]

(* commonProvider.GetSession: a valid cookie gives a session, also when the *)
(* user is deleted (the lookup then returns an empty user beside its error);*)
(* not when the user's row does not parse.                                  *)
GetSession(s) ==
  /\ Present(sessions[s])
  /\ sessions[s].expires >= now
  /\ LET row == users[sessions[s].user]
     IN  row.deleted \/ ScopesFromString(ToSlice(row.scopes)) # Invalid

(* A token whose scopes do not parse is an error, as if it were not there. *)
stmtTokenLookup(t) ==
  IF Present(tokens[t]) /\ ScopesFromString(ToSlice(tokens[t].scopes)) # Invalid
  THEN tokens[t] ELSE NoRow

GetByToken(t) ==
  LET row == stmtTokenLookup(t)
      u == stmtUserGetById(row.user)
  IN  IF row = NoRow THEN Nobody
      ELSE IF row.expires < now THEN Nobody
      ELSE [u EXCEPT !.scopes = row.scopes \cap u.scopes]

(* stmtTokenList: one token whose scopes do not parse fails the whole list. *)
stmtTokenListFails(u) ==
  \E t \in TokenIds : /\ Present(tokens[t]) /\ tokens[t].user = u
                      /\ ScopesFromString(ToSlice(tokens[t].scopes)) = Invalid

(* A device code is looked up by either of its codes, each of them unique. *)
stmtOAuth2DeviceAuthGetByDeviceCode(c) == IF Present(codes[c]) THEN codes[c] ELSE NoRow
stmtOAuth2DeviceAuthGetByUserCode(c) == IF Present(codes[c]) THEN codes[c] ELSE NoRow

-----------------------------------------------------------------------------
(* Statements that change a table *)

stmtUserCreate(u, scopes) ==
  /\ users[u] = NoRow
  /\ users' = [users EXCEPT ![u] = [scopes |-> scopes, deleted |-> FALSE]]

stmtSessionCreate(s, u, scopes) ==
  /\ sessions[s] = Unused
  /\ sessions' = [sessions EXCEPT ![s] = [user |-> u, expires |-> now + SessionTTL, scopes |-> scopes]]

stmtSessionDelete(s) == sessions' = [sessions EXCEPT ![s] = Removed]

stmtTokenCreate(t, u, scopes) ==
  /\ tokens[t] = Unused
  /\ tokens' = [tokens EXCEPT ![t] = [user |-> u, expires |-> now + TokenTTL, scopes |-> scopes]]

stmtTokenUpdate(t, u, scopes) ==
  /\ Present(tokens[t]) /\ tokens[t].user = u
  /\ tokens' = [tokens EXCEPT ![t].scopes = scopes]

stmtTokenDelete(t, u) ==
  /\ Present(tokens[t]) /\ tokens[t].user = u
  /\ tokens' = [tokens EXCEPT ![t] = Removed]

stmtTokenDeleteAll(u) ==
  tokens' = [t \in TokenIds |-> IF Present(tokens[t]) /\ tokens[t].user = u THEN Removed ELSE tokens[t]]

stmtOAuth2DeviceAuthCreate(c, scopes) ==
  /\ codes[c] = Unused
  /\ codes' = [codes EXCEPT ![c] = [user |-> NoUser, expires |-> now + CodeTTL, scopes |-> scopes,
                                    authorized |-> FALSE, denied |-> FALSE]]

stmtOAuth2DeviceAuthDelete(c) == codes' = [codes EXCEPT ![c] = Removed]

-----------------------------------------------------------------------------
(* Requests *)

requireSession(s) == GetSession(s)

requireScope(s, scope) == GetSession(s) /\ Has(GetBySession(s).scopes, scope)

Arrive == left > 0 /\ left' = left - 1
Start(p, r) == req[p] = Idle /\ req' = [req EXCEPT ![p] = r] /\ Arrive
End(p) == req' = [req EXCEPT ![p] = Idle]

(* Requests that hold a copy of u to write back. *)
Writes == {"update", "deleteTokens", "delete"}
Holders(u) == {p \in Procs : req[p].op \in Writes /\ req[p].user.name = u}
MixedBy(p, u) == IF Holders(u) \subseteq {p} THEN mixed ELSE mixed \cup {u}

(* Users *)

(* handleUserCreate: the existing user is looked up first, but what decides *)
(* is the UNIQUE username, which deleted users keep.                        *)
handleUserCreate(s, u, names) ==
  /\ requireScope(s, ScopeUsersC)
  /\ stmtUserCreate(u, ScopesFromSlice(names))
  /\ granted' = [granted EXCEPT ![u] = ScopesFromSlice(names)]
  /\ UNCHANGED <<sessions, tokens, codes, req, now, left, gone, mixed, issued, dup, emptied, approval>>

(* userDelete: not oneself; the tokens first, then the row. *)
userDelete(p, s, u) ==
  /\ requireScope(s, ScopeUsersD)
  /\ stmtUserGetByName(u) # Nobody
  /\ u # GetBySession(s).name
  /\ Start(p, Request("deleteTokens", stmtUserGetByName(u), {}, NoRow))
  /\ UNCHANGED <<tables, now, aux>>

DeleteTokens(p) ==
  /\ req[p].op = "deleteTokens"
  /\ stmtTokenDeleteAll(req[p].user.name)
  /\ req' = [req EXCEPT ![p].op = "delete"]
  /\ UNCHANGED <<users, sessions, codes, now, left, aux>>

(* userScopesUpdate: at least one scope. *)
userScopesUpdate(p, s, u, names) ==
  /\ requireScope(s, ScopeUsersRU)
  /\ stmtUserGetByName(u) # Nobody
  /\ Start(p, Request("update", [name |-> u, scopes |-> ScopesFromSlice(names)],
                      ScopesFromSlice(names), NoRow))
  /\ UNCHANGED <<tables, now, aux>>

(* handlePasswordChange: the copy is the session's user, with the scopes   *)
(* that the session narrows it to.                                         *)
handlePasswordChange(p, s) ==
  /\ requireSession(s)
  /\ GetBySession(s).name # NoUser
  /\ Start(p, Request("update", GetBySession(s), {}, NoRow))
  /\ UNCHANGED <<tables, now, aux>>

handlePasswordReset(p, s, u) ==
  /\ requireScope(s, ScopeUsersRU)
  /\ stmtUserGetByName(u) # Nobody
  /\ u # GetBySession(s).name
  /\ Start(p, Request("update", stmtUserGetByName(u), {}, NoRow))
  /\ UNCHANGED <<tables, now, aux>>

(* User.Update and the update that ends User.Delete: every column of the   *)
(* copy.  A request that sets scopes carries them twice.                   *)
stmtUserUpdate(p) ==
  LET u == req[p].user.name
  IN  /\ req[p].op \in {"update", "delete"}
      /\ users' = [users EXCEPT ![u] = [scopes |-> req[p].user.scopes,
                                        deleted |-> req[p].op = "delete"]]
      /\ gone' = IF req[p].op = "delete" THEN gone \cup {u} ELSE gone
      /\ mixed' = MixedBy(p, u)
      /\ granted' = IF req[p].scopes = {} THEN granted
                    ELSE [granted EXCEPT ![u] = req[p].scopes]
      /\ End(p)
      /\ UNCHANGED <<sessions, tokens, codes, now, left, issued, dup, emptied, approval>>

(* Sessions *)

\* Mutant: a user that is not found is logged in with no scopes.
handleLoginUnknown(p, u) ==
  /\ Start(p, Request("session", stmtUserGetByName(u), stmtUserGetByName(u).scopes, NoRow))
  /\ UNCHANGED <<tables, now, aux>>

(* handleLogin after the password was verified: the session has the user's *)
(* scopes.                                                                 *)
handleLogin(p, u) ==
  /\ stmtUserGetByName(u) # Nobody
  /\ Start(p, Request("session", stmtUserGetByName(u), stmtUserGetByName(u).scopes, NoRow))
  /\ UNCHANGED <<tables, now, aux>>

(* Who may log in with GitHub and with Google.  The configured provider    *)
(* may change with a restart: users of all kinds come together.            *)
ghUserFromToken(x) == x.orgs \cap AllowedOrgs # {}
googleUserFromToken(x) == x.domain \in AllowedDomains

(* The user of that name, which is created with the default scopes if      *)
(* there is none; a deleted user's name stays taken.                       *)
Upsert(p, u) ==
  \/ /\ stmtUserGetByName(u) # Nobody
     /\ Start(p, Request("session", stmtUserGetByName(u), stmtUserGetByName(u).scopes, NoRow))
     /\ UNCHANGED <<users, granted>>
  \/ /\ stmtUserCreate(u, NewUserScopes)
     /\ Start(p, Request("session", [name |-> u, scopes |-> NewUserScopes], NewUserScopes, NoRow))
     /\ granted' = [granted EXCEPT ![u] = NewUserScopes]

(* The end of an external login. *)
handleOauthCallback(p, x) ==
  /\ ghUserFromToken(x) \/ googleUserFromToken(x)
  /\ Upsert(p, x.username)
  /\ UNCHANGED <<sessions, tokens, codes, now, gone, mixed, issued, dup, emptied, approval>>

CreateSession(p, s) ==
  /\ req[p].op = "session"
  /\ stmtSessionCreate(s, req[p].user.name, req[p].scopes)
  /\ End(p)
  /\ UNCHANGED <<users, tokens, codes, now, left, aux>>

(* An error is only logged: the session stays. *)
DropSession(s) == stmtSessionDelete(s) \/ UNCHANGED sessions

authLogout(s) ==
  /\ requireSession(s)
  /\ DropSession(s)
  /\ Arrive
  /\ UNCHANGED <<users, tokens, codes, req, now, aux>>

(* Tokens *)

(* userTokenCreate: at least one scope, within the session's. *)
userTokenCreate(p, s, names) ==
  /\ requireSession(s)
  /\ ScopesFromSlice(names) \subseteq GetBySession(s).scopes
  /\ Start(p, Request("token", GetBySession(s), ScopesFromSlice(names), NoRow))
  /\ UNCHANGED <<tables, now, aux>>

GenerateToken(p, t) ==
  /\ req[p].op = "token"
  /\ req[p].scopes \subseteq req[p].user.scopes
  /\ MaxTokenLifetime > 0 => TokenTTL <= MaxTokenLifetime
  /\ stmtTokenCreate(t, req[p].user.name, req[p].scopes)
  /\ issued' = IF req[p].on \in Codes THEN [issued EXCEPT ![req[p].on] = @ + 1] ELSE issued
  /\ End(p)
  /\ UNCHANGED <<users, sessions, codes, now, left, granted, gone, mixed, dup, emptied, approval>>

\* Mutant: scopes beyond the session's are dropped instead of refused.
UpdateTokenNarrows(u, t, scopes) == stmtTokenUpdate(t, u.name, scopes \cap u.scopes)

UpdateToken(u, t, scopes) ==
  /\ scopes \subseteq u.scopes
  /\ stmtTokenUpdate(t, u.name, scopes)

(* settingsTokenUpdate: at least one scope, of one's own tokens only.  The *)
(* check and the statement are one step, as nothing of the copy but its id *)
(* is written.                                                             *)
settingsTokenUpdate(s, t, names) ==
  /\ requireSession(s)
  /\ UpdateToken(GetBySession(s), t, ScopesFromSlice(names))
  /\ Arrive
  /\ UNCHANGED <<users, sessions, codes, req, now, aux>>

userTokenDelete(s, t) ==
  /\ requireSession(s)
  /\ stmtTokenDelete(t, GetBySession(s).name)
  /\ Arrive
  /\ UNCHANGED <<users, sessions, codes, req, now, aux>>

(* OAuth2 device flow *)

(* The lifetime compared with the limit is the code's, not the token's.    *)
CreateDeviceAuth(c, scopes) ==
  /\ scopes # Invalid
  /\ MaxTokenLifetime > 0 => CodeTTL <= MaxTokenLifetime
  /\ stmtOAuth2DeviceAuthCreate(c, scopes)

oauth2DeviceCode(c, names) ==
  /\ CreateDeviceAuth(c, ScopesFromSlice(names))
  /\ UNCHANGED <<users, sessions, tokens, req, now, left, aux>>

Open(c) ==
  LET auth == stmtOAuth2DeviceAuthGetByUserCode(c)
  IN  IF auth = NoRow THEN FALSE
      ELSE auth.expires >= now /\ ~auth.authorized /\ ~auth.denied

(* authDeviceAuthorize: the requested scopes within the session's, which   *)
(* may leave none.                                                         *)
authDeviceAuthorize(p, s, c) ==
  /\ requireSession(s)
  /\ Open(c)
  /\ LET u == GetBySession(s)
     IN  Start(p, Request("authorize", u, codes[c].scopes \cap u.scopes, c))
  /\ UNCHANGED <<tables, now, aux>>

authDeviceDeny(p, s, c) ==
  /\ requireSession(s)
  /\ Open(c)
  /\ Start(p, Request("deny", GetBySession(s), {}, c))
  /\ UNCHANGED <<tables, now, aux>>

(* WHERE device_code = ? AND authorized = 0 AND denied = 0 *)
Undecided(c) == Present(codes[c]) /\ ~codes[c].authorized /\ ~codes[c].denied

stmtOAuth2DeviceAuthAuthorize(p) ==
  /\ req[p].op = "authorize"
  /\ LET c == req[p].on
     IN  IF Undecided(c)
         THEN /\ codes' = [codes EXCEPT ![c].user = req[p].user.name, ![c].authorized = TRUE,
                                        ![c].scopes = req[p].scopes]
              /\ approval' = [approval EXCEPT ![c] = req[p].user]
         ELSE UNCHANGED <<codes, approval>>
  /\ End(p)
  /\ UNCHANGED <<users, sessions, tokens, now, left, granted, gone, mixed, issued, dup, emptied>>

stmtOAuth2DeviceAuthDeny(p) ==
  /\ req[p].op = "deny"
  /\ codes' = IF Undecided(req[p].on) THEN [codes EXCEPT ![req[p].on].denied = TRUE] ELSE codes
  /\ End(p)
  /\ UNCHANGED <<users, sessions, tokens, now, left, aux>>

(* oauth2DeviceToken: a poll that finds the code authorized. *)
oauth2DeviceToken(p, c) ==
  LET auth == stmtOAuth2DeviceAuthGetByDeviceCode(c)
      u == stmtUserGetById(auth.user)
  IN  /\ IF auth = NoRow THEN FALSE
         ELSE auth.expires >= now /\ ~auth.denied /\ auth.authorized
      /\ u # Nobody
      /\ ScopesFromString(ToSlice(auth.scopes)) # Invalid
      /\ Start(p, Request("consume", u, u.scopes \cap auth.scopes, c))
      /\ dup' = IF \E q \in Procs : req[q].op = "consume" /\ req[q].on = c THEN dup \cup {c} ELSE dup
      /\ emptied' = IF u.scopes \cap auth.scopes = {} THEN emptied \cup {u.name} ELSE emptied
      /\ UNCHANGED <<tables, now, granted, gone, mixed, issued, approval>>

\* Mutant: the token is generated although the code could not be deleted.
ConsumeIgnoringErrors(p) ==
  /\ req[p].op = "consume"
  /\ \/ codes' = [codes EXCEPT ![req[p].on] = Removed]
     \/ UNCHANGED codes
  /\ req' = [req EXCEPT ![p].op = "token"]
  /\ UNCHANGED <<users, sessions, tokens, now, left, aux>>

(* The code is deleted before the token is generated; GenerateToken then   *)
(* inserts it.                                                             *)
DeleteDeviceAuth(p) ==
  /\ req[p].op = "consume"
  /\ stmtOAuth2DeviceAuthDelete(req[p].on)
  /\ req' = [req EXCEPT ![p].op = "token"]
  /\ UNCHANGED <<users, sessions, tokens, now, left, aux>>

-----------------------------------------------------------------------------
(* The rest of the server *)

(* A statement of the request fails, or the process restarts. *)
Fail(p) == req[p] # Idle /\ End(p) /\ UNCHANGED <<tables, now, left, aux>>

Expired(row) == Present(row) /\ row.expires < now

Swept(table) == [i \in DOMAIN table |-> IF Expired(table[i]) THEN Removed ELSE table[i]]

(* A statement that fails is only logged; the others run.                  *)
stmtTokenDeleteExpired == tokens' \in {Swept(tokens), tokens}
stmtSessionDeleteExpired == sessions' \in {Swept(sessions), sessions}
stmtOAuth2DeviceAuthDeleteExpired == codes' \in {Swept(codes), codes}

RunGc ==
  /\ stmtTokenDeleteExpired
  /\ stmtSessionDeleteExpired
  /\ stmtOAuth2DeviceAuthDeleteExpired
  /\ UNCHANGED <<users, req, now, left, aux>>

Tick == now < MaxNow /\ now' = now + 1 /\ UNCHANGED <<tables, req, left, aux>>

Step(p) ==
  \/ DeleteTokens(p)
  \/ stmtUserUpdate(p)
  \/ \E s \in SessionIds : CreateSession(p, s)
  \/ \E t \in TokenIds : GenerateToken(p, t)
  \/ stmtOAuth2DeviceAuthAuthorize(p)
  \/ stmtOAuth2DeviceAuthDeny(p)
  \/ DeleteDeviceAuth(p)
  \/ Fail(p)

Begin(p) ==
  \/ \E u \in UserNames : handleLogin(p, u)
  \/ \E x \in Profiles : handleOauthCallback(p, x)
  \/ \E s \in SessionIds :
       \/ \E u \in UserNames : userDelete(p, s, u)
       \/ \E u \in UserNames, names \in ScopeLists : userScopesUpdate(p, s, u, names)
       \/ handlePasswordChange(p, s)
       \/ \E u \in UserNames : handlePasswordReset(p, s, u)
       \/ \E names \in ScopeLists : userTokenCreate(p, s, names)
       \/ \E c \in Codes : authDeviceAuthorize(p, s, c)
       \/ \E c \in Codes : authDeviceDeny(p, s, c)
  \/ \E c \in Codes : oauth2DeviceToken(p, c)

Next ==
  \/ \E p \in Procs : Begin(p) \/ Step(p)
  \/ \E s \in SessionIds :
       \/ \E u \in UserNames, names \in ScopeLists : handleUserCreate(s, u, names)
       \/ authLogout(s)
       \/ \E t \in TokenIds, names \in ScopeLists : settingsTokenUpdate(s, t, names)
       \/ \E t \in TokenIds : userTokenDelete(s, t)
  \/ \E c \in Codes, names \in ScopeLists : oauth2DeviceCode(c, names)
  \/ RunGc
  \/ Tick

Spec == Init /\ [][Next]_vars

-----------------------------------------------------------------------------
(* Properties *)

(* The rows of the four tables stay well-formed: each session, token and   *)
(* code belongs to a user, and scopes are known ones.                      *)
TypeOK ==
  /\ users \in [UserNames -> Row \cup {NoRow}]
  /\ sessions \in [SessionIds -> Session \cup {Unused, Removed}]
  /\ tokens \in [TokenIds -> Token \cup {Unused, Removed}]
  /\ codes \in [Codes -> Code \cup {Unused, Removed}]
  /\ now \in Nat
  /\ granted \in [UserNames -> Masks]
  /\ gone \cup mixed \cup emptied \subseteq UserNames
  /\ issued \in [Codes -> Nat]
  /\ dup \subseteq Codes
  /\ approval \in [Codes -> Copy]

(* Once User.Delete has completed, the user stays deleted: later requests  *)
(* do not find the user, so that none can write the row back, as User.Update *)
(* would with its copy's Deleted = false; only a request that read the user *)
(* before and writes after can (mixed).  And while the user is deleted, its *)
(* sessions and tokens give access to nothing, whichever of them a request *)
(* in progress created after the deletion.                                 *)
DeletedStaysDeleted ==
  /\ \A u \in gone \ mixed : users[u].deleted
  /\ \A u \in UserNames :
       users[u] # NoRow /\ users[u].deleted =>
         /\ \A s \in SessionIds :
              Present(sessions[s]) /\ sessions[s].user = u => GetBySession(s).scopes = {}
         /\ \A t \in TokenIds :
              Present(tokens[t]) /\ tokens[t].user = u => GetByToken(t).scopes = {}

(* Only an administrator gives a user scopes: what other requests write    *)
(* back with the user never goes beyond the last grant, unless they        *)
(* overlapped another write of the user.  And a poll never works with more *)
(* than the session that approved the code could give, nor for another     *)
(* user.                                                                   *)
ScopesWithinGrant ==
  /\ \A u \in UserNames \ mixed : users[u] # NoRow => users[u].scopes \subseteq granted[u]
  /\ \A p \in Procs : req[p] # Idle /\ req[p].on \in Codes /\ req[p].op \in {"consume", "token"} =>
       /\ req[p].scopes \subseteq approval[req[p].on].scopes
       /\ req[p].user.name = approval[req[p].on].name

(* A device code yields one token, also when its deletion or the           *)
(* generation of the token fails, unless two polls held it at once.        *)
OneTokenPerCode == \A c \in Codes \ dup : issued[c] <= 1

(* A user can always list its API tokens, and so delete them: no token     *)
(* without scopes is stored (userTokenCreate, UpdateToken, the device      *)
(* flow), unless the user lost all the approved scopes between the         *)
(* approval of a device code and the poll.                                 *)
TokensListable == \A u \in UserNames \ emptied : ~stmtTokenListFails(u)
=============================================================================
