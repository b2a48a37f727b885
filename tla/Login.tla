-------------------------------- MODULE Login --------------------------------
(***************************************************************************)
(* Logging in with the local provider, and the rate limiter in front of it *)
(* (auth/provider_local.go, provider_common.go, ratelimiter.go and         *)
(* generations.go).                                                        *)
(*                                                                         *)
(* One user, whose requests come from one address; requests of all other   *)
(* addresses matter only because any of them may rotate the generations of *)
(* the limiter's entries.  A request passes the limiter first, looks the   *)
(* user up later, and a password change writes the user still later.  A    *)
(* write has every column of the row, those that the request did not change*)
(* as it read them.                                                        *)
(*                                                                         *)
(* A tick is the second of the per-second limit.  Times are kept as what   *)
(* is left of them, so that the model needs no last moment.  A token of    *)
(* the bad-authentication bucket comes back every Refill ticks: the bucket *)
(* counts in units of a tick, a token is Refill units.                     *)
(***************************************************************************)
EXTENDS Integers, Sequences

CONSTANTS
  Procs,              \* requests that the server handles at the same time
  Passwords,
  Classes,            \* character classes that occur in a password
  Required,           \* PasswordComplexityRules
  FirstPassword,      \* what user-add set
  PasswordHistory,    \* Config.PasswordHistory
  PasswordAge,        \* Config.PasswordAgeDays, in ticks; 0 = not enforced
  AttemptsPerSecond, AttemptsBlock, BadAuthLimit, BadAuthBlock,   \* RateLimits
  Refill              \* ticks per token of badAuthRate

ASSUME LoginAssumption ==
  /\ FirstPassword \in Passwords
  /\ {PasswordHistory, PasswordAge} \subseteq Nat
  /\ {AttemptsPerSecond, AttemptsBlock, BadAuthLimit, BadAuthBlock, Refill} \subseteq Nat \ {0}

VARIABLES
  front, back,   \* the two generations: the address's entry in either, or none
  sinceSwap,     \* time since the generations were swapped
  user,          \* the user's row: password, history, age of the password
  req,           \* the requests in progress
  ref,           \* auxiliary: the entry if the limiter never forgot any
  owed,          \* auxiliary: what is left of the last block that the address was given
  recent,        \* auxiliary: the user's latest passwords since a reset, oldest first
  mustChange,    \* auxiliary: an administrator set the password and the user did not since
  leaked,        \* auxiliary: a page was served to a user who had to change the password
  mixed,         \* auxiliary: the user was written from a copy that was no longer current
  undone         \* auxiliary: that happened since the last reset

limiter == <<front, back, sinceSwap, ref, owed>>
passwords == <<user, recent, mustChange, leaked, mixed, undone>>
vars == <<front, back, sinceSwap, user, req, ref, owed, recent, mustChange, leaked, mixed, undone>>

NoEntry == [rate |-> 0, bad |-> 0, block |-> 0, reason |-> "none"]
Full == [rate |-> AttemptsPerSecond, bad |-> BadAuthLimit * Refill, block |-> 0, reason |-> "nil"]

Idle == [op |-> "idle"]

(* Ages above PasswordAge are one; a timestamp of 0 is older than any.     *)
TooOld == PasswordAge + 1

sweepAge == 2 * (IF AttemptsBlock > BadAuthBlock THEN AttemptsBlock ELSE BadAuthBlock)

Init ==
  /\ front = NoEntry /\ back = NoEntry
  /\ sinceSwap = 0
  /\ user = [pw |-> FirstPassword, history |-> <<>>, age |-> TooOld]
  /\ req = [p \in Procs |-> Idle]
  /\ ref = Full /\ owed = 0
  /\ recent = <<FirstPassword>>
  /\ mustChange = TRUE
  /\ leaked = FALSE
  /\ mixed = FALSE /\ undone = FALSE

-----------------------------------------------------------------------------
(* generationMap *)

(* get and put: an entry of the older generation moves to the front.       *)
getOrCreate(fr, bk) == IF fr # NoEntry THEN fr ELSE IF bk # NoEntry THEN bk ELSE Full

(* The generations after get found the entry: promoted, and gone from back.*)
Promote(fr, bk) == IF fr # NoEntry THEN bk ELSE NoEntry

\* Mutant: the current generation is dropped instead of becoming the old one.
sweepDropsFront == [fr |-> NoEntry, bk |-> back, since |-> 0]

swap == [fr |-> NoEntry, bk |-> front, since |-> 0]

sweep == IF sinceSwap >= sweepAge THEN swap ELSE [fr |-> front, bk |-> back, since |-> sinceSwap]

-----------------------------------------------------------------------------
(* authRateLimiter *)

Blocked(e) == e.block > 0 \/ e.bad = 0

(* The entry after allow: a request beyond the rate blocks the address.    *)
Counted(e) ==
  IF Blocked(e) THEN e
  ELSE IF e.rate > 0 THEN [e EXCEPT !.rate = @ - 1]
  ELSE [e EXCEPT !.block = AttemptsBlock, !.reason = "requests"]

(* allow refuses by returning a reason; with no reason yet it lets pass.   *)
Admits(e) == IF Blocked(e) THEN e.reason = "nil" ELSE e.rate > 0

(* What the address is owed when its entry e becomes new.                  *)
Owed(e, new) == IF new.block # e.block THEN new.block ELSE owed

\* Mutant: a refused request starts the block anew.
allowProlongs ==
  LET g == sweep
      e == getOrCreate(g.fr, g.bk)
  IN  /\ front' = IF e.block > 0 THEN [e EXCEPT !.block = BadAuthBlock] ELSE Counted(e)
      /\ back' = Promote(g.fr, g.bk)
      /\ sinceSwap' = g.since
      /\ ref' = Counted(ref)
      /\ owed' = Owed(e, front')

allow ==
  LET g == sweep
      e == getOrCreate(g.fr, g.bk)
  IN  /\ front' = Counted(e)
      /\ back' = Promote(g.fr, g.bk)
      /\ sinceSwap' = g.since
      /\ ref' = Counted(ref)
      /\ owed' = Owed(e, front')

Admitted == Admits(getOrCreate(sweep.fr, sweep.bk))

(* A bad operation takes a token of the bucket; when there is none, the    *)
(* address is blocked.                                                     *)
Flagged(e) ==
  IF e.bad >= Refill THEN [e EXCEPT !.bad = @ - Refill]
  ELSE [e EXCEPT !.block = BadAuthBlock, !.reason = "badAuth"]

FlagBadOperation ==
  /\ front' = Flagged(getOrCreate(front, back))
  /\ back' = Promote(front, back)
  /\ ref' = Flagged(ref)
  /\ owed' = Owed(getOrCreate(front, back), front')
  /\ UNCHANGED sinceSwap

-----------------------------------------------------------------------------
(* Requests *)

(* What a request asks for: to log in or to be known by a token, or to     *)
(* change the password.  What it carries is chosen where it is read.       *)
Requests == [op : {"verify", "change"}]

(* The middleware of the route, or GetUser for a request with a token.     *)
Middleware(p, r) ==
  /\ req[p] = Idle
  /\ allow
  /\ req' = IF Admitted THEN [req EXCEPT ![p] = r] ELSE req
  /\ UNCHANGED passwords

End(p) == req' = [req EXCEPT ![p] = Idle]

(* handleLogin and GetUser: a wrong password, user or token is flagged.    *)
Verify(p, good) ==
  /\ req[p].op = "verify"
  /\ IF good THEN UNCHANGED limiter ELSE FlagBadOperation
  /\ End(p)
  /\ UNCHANGED passwords

validatePasswordComplexity(pw) == Required \subseteq Classes[pw]

\* Mutant: keeps two less than PasswordHistory.
TrimmedTooMuch(history) ==
  LET h == Append(history, user.pw)
      toRemove == Len(h) - (PasswordHistory - 2)
  IN  IF toRemove > 0 THEN SubSeq(h, toRemove + 1, Len(h)) ELSE h

(* The history after a change; the current password counts as one of the   *)
(* PasswordHistory latest, so that one less is kept.                       *)
Trimmed(history) ==
  LET h == Append(history, user.pw)
      toRemove == Len(h) - (PasswordHistory - 1)
  IN  IF toRemove > 0 THEN SubSeq(h, toRemove + 1, Len(h)) ELSE h

InHistory(pw) == PasswordHistory > 0 /\ \E i \in DOMAIN user.history : user.history[i] = pw

(* handlePasswordChange and setPassword up to the write: what is written   *)
(* is made from the user as it is now.                                     *)
setPassword(new) ==
  [op |-> "save", by |-> "user", stale |-> FALSE, pw |-> new,
   history |-> IF PasswordHistory > 0 THEN Trimmed(user.history) ELSE user.history,
   age |-> 0]

handlePasswordChange(p, cur, new) ==
  LET wrong == cur # new /\ cur # user.pw
      refused == cur = new \/ wrong \/ ~validatePasswordComplexity(new) \/ InHistory(new)
  IN  /\ req[p].op = "change"
      /\ req' = [req EXCEPT ![p] = IF refused THEN Idle ELSE setPassword(new)]
      /\ IF wrong THEN FlagBadOperation ELSE UNCHANGED limiter
      /\ UNCHANGED passwords

\* Mutant: the reset leaves the age of the password.
ResetKeepsAge(pw) ==
  [op |-> "save", by |-> "admin", stale |-> FALSE, pw |-> pw, history |-> user.history, age |-> user.age]

(* An administrator's reset: the history stays, the timestamp is made 0 so *)
(* that the user must choose a new password.                               *)
Reset(pw) ==
  [op |-> "save", by |-> "admin", stale |-> FALSE, pw |-> pw, history |-> user.history, age |-> TooOld]

(* The administrator's request comes from another address.                 *)
handlePasswordReset(p, pw) ==
  /\ req[p] = Idle
  /\ req' = [req EXCEPT ![p] = Reset(pw)]
  /\ UNCHANGED <<limiter, passwords>>

(* An administrator sets the user's scopes: the rest of the row is written *)
(* back as it was read.                                                    *)
Copy ==
  [op |-> "save", by |-> "scopes", stale |-> FALSE, pw |-> user.pw, history |-> user.history,
   age |-> user.age]

userScopesUpdate(p) ==
  /\ req[p] = Idle
  /\ req' = [req EXCEPT ![p] = Copy]
  /\ UNCHANGED <<limiter, passwords>>

Latest(s) == IF Len(s) > PasswordHistory + 1 THEN Tail(s) ELSE s

(* The requests after p's write: what the others read is no longer the     *)
(* user, if it has changed.                                                *)
Outdated(p) ==
  [q \in Procs |->
     IF q = p THEN Idle
     ELSE IF req[q].op = "save" /\ user' # user THEN [req[q] EXCEPT !.stale = TRUE]
     ELSE req[q]]

(* User.Update *)
Save(p) ==
  LET r == req[p]
  IN  /\ r.op = "save"
      /\ user' = [pw |-> r.pw, history |-> r.history, age |-> r.age]
      /\ req' = Outdated(p)
      /\ mustChange' = (r.by = "admin" \/ (mustChange /\ ~(r.by = "user" /\ ~r.stale)))
      /\ mixed' = (mixed \/ r.stale)
      /\ undone' = (r.by # "admin" /\ (undone \/ r.stale))
      /\ recent' = CASE r.by = "admin" \/ mixed' -> <<r.pw>>
                     [] r.by = "user" /\ ~mixed' -> Latest(Append(recent, r.pw))
                     [] r.by = "scopes" /\ ~mixed' -> recent
      /\ UNCHANGED <<limiter, leaked>>

(* The write failed.                                                       *)
SaveFails(p) ==
  /\ req[p].op = "save"
  /\ End(p)
  /\ UNCHANGED <<limiter, passwords>>

(* A page other than the password page, asked for with a session.          *)
GetSession ==
  /\ PasswordAge = 0 \/ user.age < TooOld
  /\ leaked' = (leaked \/ (mustChange /\ ~undone))
  /\ UNCHANGED <<limiter, user, req, recent, mustChange, mixed, undone>>

(* allow of another address: only what it does to all of them.             *)
OtherTraffic ==
  /\ front' = sweep.fr /\ back' = sweep.bk /\ sinceSwap' = sweep.since
  /\ UNCHANGED <<req, ref, owed, passwords>>

(* The process restarts: the limiter is empty again, requests are lost.    *)
Restart ==
  /\ front' = NoEntry /\ back' = NoEntry /\ sinceSwap' = 0 /\ ref' = Full /\ owed' = 0
  /\ req' = [p \in Procs |-> Idle]
  /\ UNCHANGED passwords

-----------------------------------------------------------------------------
Least(a, b) == IF a < b THEN a ELSE b

Refilled(e) ==
  IF e = NoEntry THEN e
  ELSE [e EXCEPT !.rate = AttemptsPerSecond,
                 !.bad = Least(@ + 1, BadAuthLimit * Refill),
                 !.block = IF @ > 0 THEN @ - 1 ELSE 0]

Older(r) == [r EXCEPT !.age = Least(@ + 1, TooOld)]

Tick ==
  /\ front' = Refilled(front) /\ back' = Refilled(back) /\ ref' = Refilled(ref)
  /\ owed' = IF owed > 0 THEN owed - 1 ELSE 0
  /\ sinceSwap' = Least(sinceSwap + 1, sweepAge)
  /\ user' = Older(user)
  /\ req' = [p \in Procs |-> IF req[p].op = "save" THEN Older(req[p]) ELSE req[p]]
  /\ UNCHANGED <<recent, mustChange, leaked, mixed, undone>>

Next ==
  \/ \E p \in Procs :
        \/ \E r \in Requests : Middleware(p, r)
        \/ \E good \in BOOLEAN : Verify(p, good)
        \/ \E cur, new \in Passwords : handlePasswordChange(p, cur, new)
        \/ \E pw \in Passwords : handlePasswordReset(p, pw)
        \/ userScopesUpdate(p)
        \/ Save(p)
        \/ SaveFails(p)
  \/ GetSession
  \/ OtherTraffic
  \/ Restart
  \/ Tick

(* Time passes; no request has to come.                                    *)
Spec == Init /\ [][Next]_vars /\ WF_vars(Tick)

-----------------------------------------------------------------------------
(* Properties *)

(* What the sweep forgets has recovered by then.  So it has by default     *)
(* (5 * 60 s <= 2 * 300 s), but nothing makes sure that it has with other  *)
(* limits.                                                                 *)
SweepsRecovered == BadAuthLimit * Refill <= sweepAge

(* Forgetting an address (sweep) and making a new entry for it             *)
(* (getOrCreate) ends no block early, whatever the limits; and with limits *)
(* for which a bucket refills before the sweep forgets it, the address has *)
(* never more failures to make than it would have by now had it been       *)
(* remembered, nor an earlier end of its block.  Both generations, their   *)
(* swap by the traffic of others and the promotion of an entry play into   *)
(* this.                                                                   *)
LimiterRemembers ==
  LET e == getOrCreate(front, back)
  IN  /\ e.block >= owed
      /\ SweepsRecovered => e.bad <= ref.bad /\ e.block >= ref.block

(* A block ends though the blocked address goes on trying: refused         *)
(* requests do not prolong it (allow, FlagBadOperation).                   *)
BlockEnds == (getOrCreate(front, back).block > 0) ~> (getOrCreate(front, back).block = 0)

(* setPassword: of the latest PasswordHistory + 1 passwords since the last *)
(* reset no two are the same, unless the user was written from a copy that *)
(* was no longer current.                                                  *)
NoRepeat ==
  \/ mixed
  \/ PasswordHistory = 0
  \/ \A i, j \in DOMAIN recent : recent[i] = recent[j] => i = j

(* A user whose password an administrator set sees no page but the one     *)
(* that changes it (handlePasswordReset, GetSession), until the user has   *)
(* chosen another: changes of the password that were refused, that failed  *)
(* or that began before the reset do not count, nor does time or a change  *)
(* of the user's scopes after the reset.  The exception is a write from a  *)
(* copy that was read before the reset: it puts the timestamp back.        *)
ResetForcesChange == PasswordAge > 0 => ~leaked
=============================================================================
