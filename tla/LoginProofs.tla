----------------------------- MODULE LoginProofs -----------------------------
(***************************************************************************)
(* Proofs about the rate limiter and the passwords, for any limits, any    *)
(* length of the history and any number of requests that run side by side. *)
(***************************************************************************)
EXTENDS Login, SequenceTheorems, TLAPS

-----------------------------------------------------------------------------
(* The inductive invariant *)

\* The longest block, and a full bucket of bad operations, in ticks.
LongestBlock == IF AttemptsBlock > BadAuthBlock THEN AttemptsBlock ELSE BadAuthBlock
Bucket == BadAuthLimit * Refill

Entry == [rate : 0 .. AttemptsPerSecond, bad : 0 .. Bucket, block : 0 .. LongestBlock,
          reason : {"nil", "requests", "badAuth"}]

\* The entries differ in nothing but the reason that a refusal is given.
Alike(e, f) == e.rate = f.rate /\ e.bad = f.bad /\ e.block = f.block

\* An entry that nobody has used for so long has recovered accordingly.
Recovered(e, since) ==
  /\ since > 0 => e.rate = AttemptsPerSecond
  /\ e.bad >= since \/ e.bad = Bucket
  /\ e.block = 0 \/ e.block + since <= LongestBlock

\* An address has an entry in one generation at most, which has the block that it
\* was given; if what the sweep forgets has recovered, it is as if the address had
\* never been forgotten.
Generations(fr, bk, since) ==
  /\ fr \in Entry \cup {NoEntry} /\ bk \in Entry \cup {NoEntry}
  /\ since \in 0 .. sweepAge
  /\ fr = NoEntry \/ bk = NoEntry
  /\ getOrCreate(fr, bk).block = owed
  /\ SweepsRecovered => Alike(getOrCreate(fr, bk), ref)
  /\ bk # NoEntry => Recovered(bk, since)

LimiterInv == ref \in Entry /\ owed \in Nat /\ Generations(front, back, sinceSwap)

SaveRequest == [op : {"save"}, by : {"user", "admin", "scopes"}, stale : BOOLEAN, pw : Passwords,
                history : Seq(Passwords), age : 0 .. TooOld]

LoginTypes ==
  /\ user \in [pw : Passwords, history : Seq(Passwords), age : 0 .. TooOld]
  /\ req \in [Procs -> Requests \cup SaveRequest \cup {Idle}]
  /\ recent \in Seq(Passwords)
  /\ mustChange \in BOOLEAN /\ leaked \in BOOLEAN /\ mixed \in BOOLEAN /\ undone \in BOOLEAN

\* The password d changes ago is d from the end of the history, for as many as the
\* history keeps.
Remembered ==
  /\ recent # <<>> /\ recent[Len(recent)] = user.pw
  /\ Len(recent) <= PasswordHistory + 1
  /\ \A d \in 1 .. PasswordHistory - 1 : d < Len(recent) =>
       d <= Len(user.history) /\ user.history[Len(user.history) + 1 - d] = recent[Len(recent) - d]
  /\ \A i, j \in DOMAIN recent : recent[i] = recent[j] => i = j

\* A password that waits to be saved was checked against the user as it is, unless
\* the user has been written since.
Checked(r) ==
  /\ r.history = Trimmed(user.history)
  /\ r.pw # user.pw
  /\ \A i \in DOMAIN user.history : user.history[i] # r.pw

HistoryInv ==
  ~mixed /\ PasswordHistory > 0 =>
    /\ Remembered
    /\ \A p \in Procs : req[p].op = "save" /\ req[p].by = "user" /\ ~req[p].stale => Checked(req[p])

\* What a change of the scopes writes back.
Same(r) == r.pw = user.pw /\ r.history = user.history /\ r.age = user.age

ChangeInv ==
  /\ \A p \in Procs : req[p].op = "save" /\ req[p].by = "admin" => req[p].age = TooOld
  /\ \A p \in Procs : req[p].op = "save" /\ req[p].by = "scopes" /\ ~req[p].stale => Same(req[p])
  /\ mustChange /\ ~undone => user.age = TooOld
  /\ PasswordAge > 0 => ~leaked

Inv == LimiterInv /\ LoginTypes /\ HistoryInv /\ ChangeInv

-----------------------------------------------------------------------------
(* The rate limiter *)

\* The limits as they are used: a new entry has all of them.
LEMMA Limits ==
  /\ Bucket \in Nat \ {0} /\ LongestBlock \in Nat \ {0}
  /\ sweepAge = 2 * LongestBlock
  /\ SweepsRecovered => Bucket <= sweepAge
  /\ AttemptsBlock \in 1 .. LongestBlock /\ BadAuthBlock \in 1 .. LongestBlock
  /\ AttemptsPerSecond \in Nat \ {0} /\ Refill \in Nat \ {0}
  /\ Full = [rate |-> AttemptsPerSecond, bad |-> Bucket, block |-> 0, reason |-> "nil"]
  /\ Full \in Entry
  /\ NoEntry \notin Entry
<1>1. Bucket \in Nat \ {0} /\ (SweepsRecovered => Bucket <= sweepAge)
  BY LoginAssumption DEF Bucket, SweepsRecovered
<1>2. /\ LongestBlock \in Nat \ {0} /\ sweepAge = 2 * LongestBlock
      /\ AttemptsBlock \in 1 .. LongestBlock /\ BadAuthBlock \in 1 .. LongestBlock
  BY LoginAssumption DEF LongestBlock, sweepAge
<1>3. AttemptsPerSecond \in Nat \ {0} /\ Refill \in Nat \ {0}
  BY LoginAssumption
<1>4. Full = [rate |-> AttemptsPerSecond, bad |-> Bucket, block |-> 0, reason |-> "nil"]
  BY DEF Full, Bucket
<1>5. Full \in Entry
  BY <1>1, <1>2, <1>3, <1>4 DEF Entry
<1>6. NoEntry \notin Entry
  BY DEF NoEntry, Entry
<1> QED
  BY <1>1, <1>2, <1>3, <1>4, <1>5, <1>6

\* What allow, FlagBadOperation and time do to an entry does not depend on the
\* reason it carries.
LEMMA EntrySteps ==
  ASSUME NEW e \in Entry, NEW f \in Entry, Alike(e, f)
  PROVE  /\ Counted(e) \in Entry /\ Alike(Counted(e), Counted(f))
         /\ Flagged(e) \in Entry /\ Alike(Flagged(e), Flagged(f))
         /\ Refilled(e) \in Entry /\ Alike(Refilled(e), Refilled(f))
<1>0. \A x \in Entry : /\ x.rate \in 0 .. AttemptsPerSecond /\ x.bad \in 0 .. Bucket
                        /\ x.block \in 0 .. LongestBlock
                        /\ x = [rate |-> x.rate, bad |-> x.bad, block |-> x.block, reason |-> x.reason]
                        /\ x.reason \in {"nil", "requests", "badAuth"}
  BY DEF Entry
<1>1. Counted(e) \in Entry /\ Alike(Counted(e), Counted(f))
  <2>1. CASE Blocked(e)
    BY <2>1 DEF Counted, Blocked, Alike
  <2>2. CASE ~Blocked(e) /\ e.rate > 0
    <3>1. Counted(e) = [e EXCEPT !.rate = e.rate - 1] /\ Counted(f) = [f EXCEPT !.rate = f.rate - 1]
      BY <2>2 DEF Counted, Blocked, Alike
    <3>2. e.rate - 1 \in 0 .. AttemptsPerSecond
      BY <1>0, <2>2, Limits
    <3> QED
      BY <3>1, <3>2 DEF Entry, Alike
  <2>3. CASE ~Blocked(e) /\ ~(e.rate > 0)
    <3>1. /\ Counted(e) = [e EXCEPT !.block = AttemptsBlock, !.reason = "requests"]
          /\ Counted(f) = [f EXCEPT !.block = AttemptsBlock, !.reason = "requests"]
      BY <2>3 DEF Counted, Blocked, Alike
    <3>2. AttemptsBlock \in 0 .. LongestBlock
      BY Limits
    <3> QED
      BY <3>1, <3>2 DEF Entry, Alike
  <2> QED
    BY <2>1, <2>2, <2>3
<1>2. Flagged(e) \in Entry /\ Alike(Flagged(e), Flagged(f))
  <2>1. CASE e.bad >= Refill
    <3>1. Flagged(e) = [e EXCEPT !.bad = e.bad - Refill] /\ Flagged(f) = [f EXCEPT !.bad = f.bad - Refill]
      BY <2>1 DEF Flagged, Alike
    <3>2. e.bad - Refill \in 0 .. Bucket
      BY <1>0, <2>1, Limits
    <3> QED
      BY <3>1, <3>2 DEF Entry, Alike
  <2>2. CASE ~(e.bad >= Refill)
    <3>1. /\ Flagged(e) = [e EXCEPT !.block = BadAuthBlock, !.reason = "badAuth"]
          /\ Flagged(f) = [f EXCEPT !.block = BadAuthBlock, !.reason = "badAuth"]
      BY <2>2 DEF Flagged, Alike
    <3>2. BadAuthBlock \in 0 .. LongestBlock
      BY Limits
    <3> QED
      BY <3>1, <3>2 DEF Entry, Alike
  <2> QED
    BY <2>1, <2>2
<1>3. \A x \in Entry : Refilled(x) = [x EXCEPT !.rate = AttemptsPerSecond,
                                              !.bad = IF x.bad + 1 < Bucket THEN x.bad + 1 ELSE Bucket,
                                              !.block = IF x.block > 0 THEN x.block - 1 ELSE 0]
  BY Limits DEF Refilled, Least, Bucket, Entry
<1>4. Refilled(e) \in Entry /\ Alike(Refilled(e), Refilled(f))
  <2> DEFINE bad == IF e.bad + 1 < Bucket THEN e.bad + 1 ELSE Bucket
             block == IF e.block > 0 THEN e.block - 1 ELSE 0
  <2>1. bad \in 0 .. Bucket /\ block \in 0 .. LongestBlock /\ AttemptsPerSecond \in 0 .. AttemptsPerSecond
    BY <1>0, Limits
  <2>2. /\ Refilled(e) = [e EXCEPT !.rate = AttemptsPerSecond, !.bad = bad, !.block = block]
        /\ Refilled(f) = [f EXCEPT !.rate = AttemptsPerSecond, !.bad = bad, !.block = block]
    BY <1>3 DEF Alike
  <2> HIDE DEF bad, block
  <2> QED
    BY <2>1, <2>2 DEF Alike, Entry
<1> QED
  BY <1>1, <1>2, <1>4

\* A sweep forgets only what has recovered.
LEMMA SweepKeeps ==
  ASSUME LimiterInv
  PROVE  Generations(sweep.fr, sweep.bk, sweep.since)
<1>1. CASE sinceSwap < sweepAge
  BY <1>1, Limits DEF LimiterInv, Generations, sweep
<1>2. CASE sinceSwap >= sweepAge
  <2>1. sinceSwap = sweepAge /\ sweep.fr = NoEntry /\ sweep.bk = front /\ sweep.since = 0
    BY <1>2, Limits DEF LimiterInv, Generations, sweep, swap
  <2>2. CASE front # NoEntry
    <3>1. front \in Entry /\ Recovered(front, 0)
      BY <2>2, Limits DEF LimiterInv, Generations, Recovered, Entry
    <3>2. getOrCreate(NoEntry, front) = getOrCreate(front, back)
      BY <2>2 DEF getOrCreate
    <3> QED
      BY <2>1, <2>2, <3>1, <3>2, Limits DEF LimiterInv, Generations
  <2>3. CASE front = NoEntry /\ back # NoEntry
    <3>1. /\ back \in Entry /\ Recovered(back, sweepAge) /\ back.block = owed
          /\ SweepsRecovered => Alike(back, ref)
      BY <2>1, <2>3 DEF LimiterInv, Generations, getOrCreate
    <3>2. back.block = 0
      BY <3>1, Limits DEF Recovered, Entry
    <3>3. SweepsRecovered => Alike(Full, ref)
      BY <3>1, <3>2, Limits DEF Alike, Recovered, Entry
    <3>4. Full.block = owed
      BY <3>1, <3>2, Limits
    <3> QED
      BY <2>1, <2>3, <3>3, <3>4, Limits DEF Generations, getOrCreate
  <2>4. CASE front = NoEntry /\ back = NoEntry
    BY <2>1, <2>4, Limits DEF LimiterInv, Generations, getOrCreate
  <2> QED
    BY <2>2, <2>3, <2>4
<1> QED
  BY <1>1, <1>2, Limits DEF LimiterInv, Generations

\* Using an entry moves it to the front generation.
LEMMA Promoted ==
  ASSUME ref \in Entry, NEW fr, NEW bk, NEW since, Generations(fr, bk, since), NEW e \in Entry,
         front' = e, back' = Promote(fr, bk), sinceSwap' = since, SweepsRecovered => Alike(e, ref'),
         ref' \in Entry, owed' = e.block, owed' \in Nat
  PROVE  LimiterInv'
<1>1. back' = NoEntry /\ getOrCreate(front', back') = e
  BY Limits DEF Generations, Promote, getOrCreate
<1> QED
  BY <1>1 DEF LimiterInv, Generations, SweepsRecovered, sweepAge

\* The entry that is used is a real one.
LEMMA Used ==
  ASSUME NEW fr, NEW bk, NEW since, Generations(fr, bk, since)
  PROVE  getOrCreate(fr, bk) \in Entry
BY Limits DEF Generations, getOrCreate

\* What the address is owed follows its entry.
LEMMA OwedFollows ==
  ASSUME NEW e, NEW new \in Entry, e.block = owed
  PROVE  Owed(e, new) = new.block /\ new.block \in Nat
BY Limits DEF Owed, Entry

\* The steps of the limiter.
LEMMA LimiterSteps ==
  ASSUME LimiterInv
  PROVE  /\ allow => LimiterInv'
         /\ FlagBadOperation => LimiterInv'
         /\ UNCHANGED limiter => LimiterInv'
         /\ OtherTraffic => LimiterInv'
         /\ Restart => LimiterInv'
         /\ Tick => LimiterInv'
<1>0. ref \in Entry /\ owed \in Nat /\ Generations(front, back, sinceSwap)
  BY DEF LimiterInv
<1>a. \A e \in Entry : Counted(e) \in Entry /\ Flagged(e) \in Entry /\ Refilled(e) \in Entry
  BY EntrySteps DEF Alike
<1>1. ASSUME allow
      PROVE  LimiterInv'
  <2> DEFINE e == getOrCreate(sweep.fr, sweep.bk)
  <2>1. Generations(sweep.fr, sweep.bk, sweep.since)
    BY SweepKeeps
  <2>2. e \in Entry /\ e.block = owed /\ (SweepsRecovered => Alike(e, ref))
    BY <2>1, Used DEF Generations
  <2>3. /\ front' = Counted(e) /\ back' = Promote(sweep.fr, sweep.bk) /\ sinceSwap' = sweep.since
        /\ ref' = Counted(ref) /\ owed' = Owed(e, Counted(e))
    BY <1>1 DEF allow
  <2>4. Counted(e) \in Entry /\ Counted(ref) \in Entry
    BY <1>0, <1>a, <2>2
  <2>5. SweepsRecovered => Alike(Counted(e), Counted(ref))
    BY <1>0, <2>2, EntrySteps
  <2>6. owed' = Counted(e).block /\ owed' \in Nat
    BY <2>2, <2>3, <2>4, OwedFollows
  <2> HIDE DEF e
  <2> QED
    BY <1>0, <2>1, <2>3, <2>4, <2>5, <2>6, Promoted
<1>2. ASSUME FlagBadOperation
      PROVE  LimiterInv'
  <2> DEFINE e == getOrCreate(front, back)
  <2>1. e \in Entry /\ e.block = owed /\ (SweepsRecovered => Alike(e, ref))
    BY <1>0, Used DEF Generations
  <2>2. /\ front' = Flagged(e) /\ back' = Promote(front, back) /\ sinceSwap' = sinceSwap
        /\ ref' = Flagged(ref) /\ owed' = Owed(e, Flagged(e))
    BY <1>2 DEF FlagBadOperation
  <2>3. Flagged(e) \in Entry /\ Flagged(ref) \in Entry
    BY <1>0, <1>a, <2>1
  <2>4. SweepsRecovered => Alike(Flagged(e), Flagged(ref))
    BY <1>0, <2>1, EntrySteps
  <2>5. owed' = Flagged(e).block /\ owed' \in Nat
    BY <2>1, <2>2, <2>3, OwedFollows
  <2> HIDE DEF e
  <2> QED
    BY <1>0, <2>2, <2>3, <2>4, <2>5, Promoted
<1>3. ASSUME UNCHANGED limiter
      PROVE  LimiterInv'
  BY <1>3 DEF LimiterInv, Generations, limiter
<1>4. ASSUME OtherTraffic
      PROVE  LimiterInv'
  <2>1. /\ front' = sweep.fr /\ back' = sweep.bk /\ sinceSwap' = sweep.since /\ ref' = ref
        /\ owed' = owed
    BY <1>4 DEF OtherTraffic
  <2> QED
    BY <1>0, <2>1, SweepKeeps DEF LimiterInv, Generations
<1>5. ASSUME Restart
      PROVE  LimiterInv'
  BY <1>5, Limits DEF Restart, LimiterInv, Generations, getOrCreate, Alike
<1>6. ASSUME Tick
      PROVE  LimiterInv'
  <2>1. /\ front' = Refilled(front) /\ back' = Refilled(back) /\ ref' = Refilled(ref)
        /\ sinceSwap' = IF sinceSwap + 1 < sweepAge THEN sinceSwap + 1 ELSE sweepAge
        /\ owed' = IF owed > 0 THEN owed - 1 ELSE 0
    BY <1>6 DEF Tick, Least
  <2>2. Refilled(NoEntry) = NoEntry
    BY DEF Refilled
  <2>3. \A x \in Entry : Refilled(x) \in Entry /\ Refilled(x) # NoEntry
    BY EntrySteps, Limits DEF Alike
  <2>4. ref' \in Entry /\ owed' \in Nat
    BY <1>0, <2>1, <2>3
  <2>b. \A x \in Entry : x.block = owed => Refilled(x).block = owed'
    BY <2>1, Limits DEF Refilled, Entry
  <2>5. CASE back = NoEntry
    <3>1. back' = NoEntry
      BY <2>1, <2>2, <2>5
    <3>2. /\ SweepsRecovered => Alike(getOrCreate(front', back'), ref')
          /\ getOrCreate(front', back').block = owed'
      <4>1. CASE front # NoEntry
        <5>1. /\ front \in Entry /\ (SweepsRecovered => Alike(front, ref)) /\ front.block = owed
              /\ getOrCreate(front', back') = Refilled(front)
          BY <1>0, <2>1, <2>3, <4>1 DEF Generations, getOrCreate
        <5> QED
          BY <1>0, <2>1, <2>b, <5>1, EntrySteps
      <4>2. CASE front = NoEntry
        <5>1. /\ SweepsRecovered => Alike(Full, ref)
              /\ Full.block = owed
              /\ getOrCreate(front', back') = Full
          BY <1>0, <2>1, <2>2, <2>5, <4>2 DEF Generations, getOrCreate
        <5>2. SweepsRecovered => Alike(Refilled(Full), Refilled(ref))
          BY <1>0, <5>1, Limits, EntrySteps
        <5>3. Alike(Full, Refilled(Full))
          BY Limits DEF Refilled, Least, Bucket, Alike
        <5>4. owed' = 0 /\ Full.block = 0
          BY <2>1, <5>1, Limits
        <5> QED
          BY <2>1, <5>1, <5>2, <5>3, <5>4 DEF Alike
      <4> QED
        BY <4>1, <4>2
    <3> QED
      BY <1>0, <2>1, <2>2, <2>3, <2>4, <3>1, <3>2, Limits
      DEF LimiterInv, Generations, SweepsRecovered, sweepAge
  <2>6. CASE back # NoEntry
    <3>1. /\ back \in Entry /\ front = NoEntry /\ Recovered(back, sinceSwap) /\ back.block = owed
          /\ SweepsRecovered => Alike(back, ref)
      BY <1>0, <2>6 DEF Generations, getOrCreate
    <3>2. /\ front' = NoEntry /\ back' \in Entry /\ back' # NoEntry /\ back'.block = owed'
          /\ SweepsRecovered => Alike(back', ref')
      BY <1>0, <2>1, <2>2, <2>3, <2>b, <3>1, EntrySteps
    <3>3. getOrCreate(front', back') = back'
      BY <3>2 DEF getOrCreate
    <3>4. sinceSwap \in 0 .. sweepAge /\ sinceSwap' \in 0 .. sweepAge
      BY <1>0, <2>1, Limits DEF Generations
    <3>5. /\ back'.rate = AttemptsPerSecond
          /\ back'.bad = IF back.bad + 1 < Bucket THEN back.bad + 1 ELSE Bucket
          /\ back'.block = IF back.block > 0 THEN back.block - 1 ELSE 0
      BY <2>1, <2>6, <3>1, Limits DEF Refilled, Least, Bucket, Entry
    <3>6. back.bad \in 0 .. Bucket /\ back.block \in 0 .. LongestBlock
      BY <3>1 DEF Entry
    <3>7. Recovered(back', sinceSwap')
      BY <2>1, <3>1, <3>4, <3>5, <3>6, Limits DEF Recovered
    <3> QED
      BY <2>4, <3>2, <3>3, <3>4, <3>7 DEF LimiterInv, Generations, SweepsRecovered, sweepAge
  <2> QED
    BY <2>5, <2>6
<1> QED
  BY <1>1, <1>2, <1>3, <1>4, <1>5, <1>6

\* Every step keeps it.
LEMMA LimiterStep ==
  ASSUME LimiterInv, [Next]_vars
  PROVE  LimiterInv'
<1>1. \/ allow \/ FlagBadOperation \/ UNCHANGED limiter \/ OtherTraffic \/ Restart \/ Tick
  BY DEF Next, Middleware, Verify, handlePasswordChange, handlePasswordReset, userScopesUpdate,
         Save, SaveFails, GetSession, vars, limiter
<1> QED
  BY <1>1, LimiterSteps

-----------------------------------------------------------------------------
(* Passwords *)

\* The history after a change: the password that is replaced comes last, and the
\* PasswordHistory - 1 latest stay.
LEMMA TrimmedShape ==
  ASSUME LoginTypes, PasswordHistory > 0
  PROVE  LET t == Trimmed(user.history)
             n == Len(user.history)
         IN  /\ t \in Seq(Passwords)
             /\ Len(t) = IF n + 1 <= PasswordHistory - 1 THEN n + 1 ELSE PasswordHistory - 1
             /\ \A d \in 1 .. Len(t) :
                  t[Len(t) + 1 - d] = IF d = 1 THEN user.pw ELSE user.history[n + 2 - d]
<1> DEFINE n == Len(user.history)
           h == Append(user.history, user.pw)
           cut == n + 1 - (PasswordHistory - 1)
           t == Trimmed(user.history)
<1>1. PasswordHistory \in Nat \ {0}
  BY LoginAssumption
<1>2. user.history \in Seq(Passwords) /\ user.pw \in Passwords /\ n \in Nat
  BY DEF LoginTypes
<1>3. /\ h \in Seq(Passwords) /\ Len(h) = n + 1
      /\ \A i \in 1 .. n : h[i] = user.history[i]
      /\ h[n + 1] = user.pw
  BY <1>2, AppendProperties
<1>4. t = IF cut > 0 THEN SubSeq(h, cut + 1, Len(h)) ELSE h
  <2>1. Len(h) - (PasswordHistory - 1) = cut
    <3> HIDE DEF h, n
    <3> QED
      BY <1>1, <1>2, <1>3
  <2> QED
    BY <2>1 DEF Trimmed
<1> HIDE DEF h, n, t
<1>5. CASE cut > 0
  <2>1. /\ cut \in Int /\ cut + 1 \in Int /\ Len(h) \in Int
        /\ \A i \in cut + 1 .. Len(h) : h[i] \in Passwords
    BY <1>1, <1>2, <1>3, <1>5
  <2>2. /\ t \in Seq(Passwords)
        /\ Len(t) = IF cut + 1 <= Len(h) THEN Len(h) - (cut + 1) + 1 ELSE 0
        /\ \A i \in 1 .. Len(h) - (cut + 1) + 1 : t[i] = h[cut + 1 + i - 1]
    BY <1>4, <1>5, <2>1, SubSeqProperties
  <2>3. Len(t) = PasswordHistory - 1 /\ \A i \in 1 .. Len(t) : t[i] = h[cut + i]
    <3>1. Len(h) - (cut + 1) + 1 = PasswordHistory - 1 /\ Len(t) = PasswordHistory - 1
      <4>1. Len(h) = n + 1 /\ n \in Nat /\ PasswordHistory \in Nat \ {0}
        BY <1>1, <1>2, <1>3
      <4>2. Len(t) = IF cut + 1 <= Len(h) THEN Len(h) - (cut + 1) + 1 ELSE 0
        BY <2>2
      <4> QED
        BY <1>5, <4>1, <4>2
    <3>2. \A i \in 1 .. Len(t) : t[i] = h[cut + 1 + i - 1]
      BY <2>2, <3>1
    <3>3. \A i \in 1 .. Len(t) : cut + 1 + i - 1 = cut + i
      BY <1>1, <1>2, <3>1
    <3> QED
      BY <3>1, <3>2, <3>3
  <2>4. \A d \in 1 .. Len(t) : t[Len(t) + 1 - d] = h[n + 2 - d]
    BY <1>1, <1>2, <2>3
  <2>5. \A d \in 1 .. Len(t) : n + 2 - d \in 1 .. n + 1 /\ (d # 1 => n + 2 - d \in 1 .. n)
    BY <1>1, <1>2, <1>5, <2>3
  <2>6. \A d \in 1 .. Len(t) :
          t[Len(t) + 1 - d] = IF d = 1 THEN user.pw ELSE user.history[n + 2 - d]
    BY <1>2, <1>3, <2>4, <2>5
  <2>7. ~(n + 1 <= PasswordHistory - 1)
    BY <1>1, <1>2, <1>5
  <2> QED
    BY <2>2, <2>3, <2>6, <2>7 DEF t, n
<1>6. CASE ~(cut > 0)
  <2>1. t = h
    BY <1>4, <1>6
  <2>2. \A d \in 1 .. Len(t) :
          t[Len(t) + 1 - d] = IF d = 1 THEN user.pw ELSE user.history[n + 2 - d]
    BY <1>2, <1>3, <2>1
  <2>3. n + 1 <= PasswordHistory - 1
    BY <1>1, <1>2, <1>6
  <2> QED
    BY <1>3, <2>1, <2>2, <2>3 DEF t, n
<1> QED
  BY <1>5, <1>6

\* The latest passwords after a change: the new one comes last, and no more than
\* PasswordHistory + 1 are compared.
LEMMA LatestShape ==
  ASSUME LoginTypes, NEW pw \in Passwords
  PROVE  LET r == Latest(Append(recent, pw))
             n == Len(recent)
         IN  /\ r \in Seq(Passwords) /\ r # <<>>
             /\ Len(r) = IF n + 1 > PasswordHistory + 1 THEN n ELSE n + 1
             /\ r[Len(r)] = pw
             /\ \A d \in 1 .. Len(r) - 1 : r[Len(r) - d] = recent[n + 1 - d]
<1> DEFINE n == Len(recent)
           a == Append(recent, pw)
           r == Latest(a)
<1>1. PasswordHistory \in Nat
  BY LoginAssumption
<1>2. recent \in Seq(Passwords) /\ n \in Nat
  BY DEF LoginTypes
<1>3. /\ a \in Seq(Passwords) /\ a # <<>> /\ Len(a) = n + 1
      /\ \A i \in 1 .. n : a[i] = recent[i]
      /\ a[n + 1] = pw
  BY <1>2, AppendProperties
<1> HIDE DEF a, n
<1>4. CASE n + 1 > PasswordHistory + 1
  <2>1. r = Tail(a)
    BY <1>3, <1>4 DEF Latest
  <2>2. r \in Seq(Passwords) /\ Len(r) = n /\ \A i \in 1 .. Len(r) : r[i] = a[i + 1]
    BY <1>2, <1>3, <2>1, HeadTailProperties
  <2> HIDE DEF r
  <2>3. r # <<>>
    BY <1>1, <1>2, <1>4, <2>2
  <2>4. r[Len(r)] = pw
    BY <1>1, <1>2, <1>3, <1>4, <2>2
  <2>5. \A d \in 1 .. Len(r) - 1 : r[Len(r) - d] = recent[n + 1 - d]
    BY <1>1, <1>2, <1>3, <1>4, <2>2
  <2> QED
    BY <1>4, <2>2, <2>3, <2>4, <2>5 DEF r, a, n
<1>5. CASE ~(n + 1 > PasswordHistory + 1)
  <2>1. r = a
    BY <1>3, <1>5 DEF Latest
  <2> QED
    BY <1>1, <1>2, <1>3, <1>5, <2>1 DEF a, n
<1> QED
  BY <1>4, <1>5

\* What a change leads to, when the new password was checked against the user as
\* it was: again no two of the latest are the same, and the history has the ones
\* that the next change must know.
LEMMA ChangeRemembered ==
  ASSUME LoginTypes, PasswordHistory > 0, Remembered, NEW r \in SaveRequest, Checked(r),
         user'.pw = r.pw, user'.history = r.history, recent' = Latest(Append(recent, r.pw))
  PROVE  Remembered'
<1> DEFINE n == Len(recent)
           m == Len(user.history)
           t == user'.history
           H == PasswordHistory
<1>1. H \in Nat \ {0} /\ n \in Nat \ {0} /\ m \in Nat /\ n <= H + 1
  BY LoginAssumption DEF LoginTypes, Remembered
<1>2. /\ Len(t) = IF m + 1 <= H - 1 THEN m + 1 ELSE H - 1
      /\ \A d \in 1 .. Len(t) :
           t[Len(t) + 1 - d] = IF d = 1 THEN user.pw ELSE user.history[m + 2 - d]
  <2>1. t = Trimmed(user.history)
    BY DEF Checked
  <2> QED
    BY <2>1, TrimmedShape
<1>3. /\ recent' \in Seq(Passwords) /\ recent' # <<>>
      /\ Len(recent') = IF n + 1 > H + 1 THEN n ELSE n + 1
      /\ recent'[Len(recent')] = r.pw
      /\ \A d \in 1 .. Len(recent') - 1 : recent'[Len(recent') - d] = recent[n + 1 - d]
  <2>1. r.pw \in Passwords
    BY DEF SaveRequest
  <2> QED
    BY <2>1, LatestShape
<1>4. Len(recent') \in 1 .. H + 1 /\ Len(recent') <= n + 1
  BY <1>1, <1>3
<1>5. \A d \in 0 .. H - 1 : d < n =>
        recent[n - d] = IF d = 0 THEN user.pw ELSE user.history[m + 1 - d]
  BY <1>1 DEF Remembered
<1>6. \A d \in 1 .. H - 1 : d < n => d <= m
  BY <1>1 DEF Remembered
<1>7. ASSUME NEW d \in 1 .. H - 1, d < Len(recent')
      PROVE  d <= Len(t) /\ t[Len(t) + 1 - d] = recent'[Len(recent') - d]
  <2>1. recent'[Len(recent') - d] = recent[n - (d - 1)] /\ d - 1 \in 0 .. H - 1 /\ d - 1 < n
    <3>1. d \in 1 .. Len(recent') - 1 /\ n + 1 - d = n - (d - 1)
      BY <1>1, <1>4, <1>7
    <3>2. d - 1 \in 0 .. H - 1 /\ d - 1 < n
      BY <1>1, <1>4, <1>7
    <3> QED
      BY <1>3, <3>1, <3>2
  <2>2. d <= Len(t)
    <3>1. d - 1 <= m
      BY <1>1, <1>6, <2>1
    <3> QED
      BY <1>1, <1>2, <3>1
  <2>3. t[Len(t) + 1 - d] = IF d = 1 THEN user.pw ELSE user.history[m + 2 - d]
    BY <1>1, <1>2, <2>2
  <2>4. recent[n - (d - 1)] = IF d - 1 = 0 THEN user.pw ELSE user.history[m + 1 - (d - 1)]
    BY <1>5, <2>1
  <2>5. m + 2 - d = m + 1 - (d - 1)
    BY <1>1
  <2> QED
    BY <2>1, <2>2, <2>3, <2>4, <2>5
<1>8. ASSUME NEW d \in 1 .. Len(recent') - 1
      PROVE  recent'[Len(recent') - d] # r.pw
  <2>1. recent'[Len(recent') - d] = recent[n - (d - 1)] /\ d - 1 \in 0 .. H - 1 /\ d - 1 < n
    BY <1>1, <1>3, <1>4
  <2>2. CASE d = 1
    BY <1>5, <2>1, <2>2 DEF Checked
  <2>3. CASE d # 1
    <3>1. recent[n - (d - 1)] = user.history[m + 1 - (d - 1)] /\ d - 1 <= m
      BY <1>1, <1>5, <1>6, <2>1, <2>3
    <3>2. m + 1 - (d - 1) \in DOMAIN user.history
      BY <1>1, <2>1, <2>3, <3>1 DEF LoginTypes
    <3> QED
      BY <2>1, <3>1, <3>2 DEF Checked
  <2> QED
    BY <2>2, <2>3
<1>9. ASSUME NEW i \in DOMAIN recent', NEW j \in DOMAIN recent', i < j
      PROVE  recent'[i] # recent'[j]
  <2> DEFINE l == Len(recent')
  <2>1. i \in 1 .. l /\ j \in 1 .. l /\ l - i \in 1 .. l - 1
    BY <1>3, <1>4, <1>9
  <2>2. CASE j = l
    <3>1. l - (l - i) = i
      BY <1>4, <2>1
    <3> QED
      BY <1>3, <1>8, <2>1, <2>2, <3>1
  <2>3. CASE j # l
    <3>1. l - j \in 1 .. l - 1 /\ l - (l - i) = i /\ l - (l - j) = j
      BY <1>4, <2>1, <2>3
    <3>2. recent'[i] = recent[n + 1 - (l - i)] /\ recent'[j] = recent[n + 1 - (l - j)]
      BY <1>3, <2>1, <3>1
    <3>3. /\ n + 1 - (l - i) \in 1 .. n /\ n + 1 - (l - j) \in 1 .. n
          /\ n + 1 - (l - i) # n + 1 - (l - j)
      <4> HIDE DEF n, l
      <4>1. n \in Nat /\ l \in Nat /\ l <= n + 1 /\ i \in Nat /\ j \in Nat /\ i < j
        BY <1>1, <1>4, <1>9, <2>1 DEF l
      <4> QED
        BY <2>1, <3>1, <4>1
    <3> QED
      BY <3>2, <3>3 DEF Remembered, LoginTypes
  <2> QED
    BY <2>2, <2>3
<1>10. \A i, j \in DOMAIN recent' : recent'[i] = recent'[j] => i = j
  BY <1>3, <1>4, <1>9
<1> QED
  BY <1>3, <1>4, <1>7, <1>10 DEF Remembered

\* A request that waits to be saved is one.
LEMMA SaveAt ==
  ASSUME LoginTypes, NEW p \in Procs, req[p].op = "save"
  PROVE  req[p] \in SaveRequest
BY DEF LoginTypes, Requests, Idle

\* The request that a change of the password leaves to be saved.
LEMMA SetPasswordShape ==
  ASSUME LoginTypes, NEW new \in Passwords
  PROVE  /\ setPassword(new) \in SaveRequest
         /\ setPassword(new).pw = new /\ setPassword(new).by = "user"
         /\ ~setPassword(new).stale
         /\ PasswordHistory > 0 => setPassword(new).history = Trimmed(user.history)
<1>1. PasswordHistory \in Nat /\ TooOld \in Nat \ {0}
  BY LoginAssumption DEF TooOld
<1>2. (IF PasswordHistory > 0 THEN Trimmed(user.history) ELSE user.history) \in Seq(Passwords)
  BY <1>1, TrimmedShape DEF LoginTypes
<1>3. 0 \in 0 .. TooOld
  BY <1>1
<1> QED
  BY <1>2, <1>3 DEF setPassword, SaveRequest

\* What every step does to the requests.
LEMMA RequestSteps ==
  ASSUME LoginTypes, NEW p \in Procs, NEW r \in Requests \cup SaveRequest \cup {Idle},
         req' = [req EXCEPT ![p] = r]
  PROVE  /\ req' \in [Procs -> Requests \cup SaveRequest \cup {Idle}]
         /\ \A q \in Procs : req'[q] = IF q = p THEN r ELSE req[q]
BY DEF LoginTypes

\* A step that writes no user: the requests go on, and a password that now waits
\* to be saved has been checked.
Waits(r) ==
  /\ r \in Requests \cup SaveRequest \cup {Idle}
  /\ r.op = "save" /\ r.by = "user" /\ PasswordHistory > 0 => Checked(r)
  /\ r.op = "save" /\ r.by = "admin" => r.age = TooOld
  /\ r.op = "save" /\ r.by = "scopes" => Same(r)

Continues ==
  /\ UNCHANGED <<user, recent, mustChange, mixed, undone>>
  /\ \/ \E p \in Procs, r \in Requests \cup SaveRequest \cup {Idle} :
          Waits(r) /\ req' = [req EXCEPT ![p] = r]
     \/ UNCHANGED req
     \/ req' = [p \in Procs |-> Idle]
  /\ leaked' \in BOOLEAN /\ (leaked' => leaked \/ (mustChange /\ ~undone /\ (PasswordAge = 0 \/ user.age < TooOld)))

\* Every step is one of these, a save or a tick.
LEMMA LoginSplit ==
  ASSUME LoginTypes, [Next]_vars
  PROVE  Continues \/ (\E p \in Procs : Save(p)) \/ Tick
<1>0. TooOld \in Nat \ {0} /\ PasswordHistory \in Nat
  BY LoginAssumption DEF TooOld
<1>1. Waits(Idle) /\ \A r \in Requests : Waits(r)
  BY DEF Waits, Idle, Requests
<1>2. ASSUME NEW p \in Procs, NEW r \in Requests, Middleware(p, r)
      PROVE  Continues
  BY <1>1, <1>2 DEF Middleware, Continues, LoginTypes, passwords
<1>3. ASSUME NEW p \in Procs, NEW good \in BOOLEAN, Verify(p, good)
      PROVE  Continues
  BY <1>1, <1>3 DEF Verify, End, Continues, LoginTypes, passwords
<1>4. ASSUME NEW p \in Procs, NEW cur \in Passwords, NEW new \in Passwords,
             handlePasswordChange(p, cur, new)
      PROVE  Continues
  <2> DEFINE wrong == cur # new /\ cur # user.pw
             refused == cur = new \/ wrong \/ ~validatePasswordComplexity(new) \/ InHistory(new)
             r == IF refused THEN Idle ELSE setPassword(new)
  <2>1. req' = [req EXCEPT ![p] = r] /\ UNCHANGED passwords
    BY <1>4 DEF handlePasswordChange
  <2>2. CASE refused
    BY <1>1, <2>1, <2>2 DEF Continues, LoginTypes, passwords
  <2>3. CASE ~refused
    <3>1. r = setPassword(new) /\ new # user.pw /\ ~InHistory(new)
      BY <2>3
    <3>2. /\ r \in SaveRequest /\ r.pw = new /\ r.by = "user"
          /\ PasswordHistory > 0 => r.history = Trimmed(user.history)
      BY <3>1, SetPasswordShape
    <3> HIDE DEF r
    <3>3. PasswordHistory > 0 => Checked(r)
      BY <3>1, <3>2 DEF Checked, InHistory
    <3>4. Waits(r)
      BY <3>2, <3>3 DEF Waits
    <3> QED
      BY <2>1, <3>2, <3>4 DEF Continues, LoginTypes, passwords
  <2> QED
    BY <2>2, <2>3
<1>5. ASSUME NEW p \in Procs, NEW pw \in Passwords, handlePasswordReset(p, pw)
      PROVE  Continues
  <2>1. Reset(pw) \in SaveRequest /\ Reset(pw).by = "admin" /\ Reset(pw).age = TooOld
    BY <1>0 DEF Reset, SaveRequest, LoginTypes
  <2>2. Waits(Reset(pw))
    BY <2>1 DEF Waits
  <2> QED
    BY <1>5, <2>1, <2>2 DEF handlePasswordReset, Continues, LoginTypes, passwords
<1>11. ASSUME NEW p \in Procs, userScopesUpdate(p)
      PROVE  Continues
  <2>1. Copy \in SaveRequest /\ Copy.by = "scopes" /\ Same(Copy)
    BY DEF Copy, SaveRequest, LoginTypes, Same
  <2>2. Waits(Copy)
    BY <2>1 DEF Waits
  <2> QED
    BY <1>11, <2>1, <2>2 DEF userScopesUpdate, Continues, LoginTypes, passwords
<1>6. ASSUME NEW p \in Procs, SaveFails(p)
      PROVE  Continues
  BY <1>1, <1>6 DEF SaveFails, End, Continues, LoginTypes, passwords
<1>7. CASE GetSession
  BY <1>7 DEF GetSession, Continues, LoginTypes
<1>8. CASE OtherTraffic
  BY <1>8 DEF OtherTraffic, Continues, LoginTypes, passwords
<1>9. CASE Restart
  BY <1>9 DEF Restart, Continues, LoginTypes, passwords
<1>10. CASE UNCHANGED vars
  BY <1>10 DEF vars, Continues, LoginTypes
<1> QED
  BY <1>2, <1>3, <1>4, <1>5, <1>6, <1>7, <1>8, <1>9, <1>10, <1>11 DEF Next

\* The requests after a step that writes no user.
LEMMA ContinuesRequests ==
  ASSUME LoginTypes, Continues
  PROVE  /\ req' \in [Procs -> Requests \cup SaveRequest \cup {Idle}]
         /\ \A q \in Procs : req'[q] = req[q] \/ Waits(req'[q])
<1>1. Waits(Idle)
  BY DEF Waits, Idle
<1>2. CASE UNCHANGED req
  BY <1>2 DEF LoginTypes
<1>3. CASE req' = [p \in Procs |-> Idle]
  BY <1>1, <1>3
<1>4. ASSUME NEW p \in Procs, NEW r \in Requests \cup SaveRequest \cup {Idle},
             Waits(r), req' = [req EXCEPT ![p] = r]
      PROVE  /\ req' \in [Procs -> Requests \cup SaveRequest \cup {Idle}]
             /\ \A q \in Procs : req'[q] = req[q] \/ Waits(req'[q])
  BY <1>4, RequestSteps
<1> QED
  BY <1>2, <1>3, <1>4 DEF Continues

\* Another request across a write of the user: if it has read the user and is not
\* outdated by now, then the user has not changed.
Kept(q) ==
  /\ req'[q].op = req[q].op
  /\ req[q].op = "save" =>
       /\ req'[q] \in SaveRequest
       /\ req'[q].by = req[q].by /\ req'[q].pw = req[q].pw /\ req'[q].history = req[q].history
       /\ req'[q].age = req[q].age
       /\ ~req'[q].stale => ~req[q].stale /\ user' = user

\* Writing the user.
LEMMA SaveEffect ==
  ASSUME LoginTypes, NEW p \in Procs, Save(p)
  PROVE  /\ req[p] \in SaveRequest
         /\ \A q \in Procs : q # p => Kept(q)
         /\ req'[p] = Idle
         /\ user'.pw = req[p].pw /\ user'.history = req[p].history /\ user'.age = req[p].age
         /\ mixed' = (mixed \/ req[p].stale)
         /\ LoginTypes'
<1>1. req[p] \in SaveRequest
  BY SaveAt DEF Save
<1>a. req' = Outdated(p) /\ req'[p] = Idle
  BY DEF Save, Outdated
<1>b. ASSUME NEW q \in Procs, q # p
      PROVE  Kept(q) /\ req'[q] \in Requests \cup SaveRequest \cup {Idle}
  <2>1. CASE req[q].op = "save"
    <3>1. req[q] \in SaveRequest
      BY <2>1, SaveAt
    <3>2. CASE user' # user
      <4>1. req'[q] = [req[q] EXCEPT !.stale = TRUE]
        BY <1>a, <1>b, <2>1, <3>2 DEF Outdated
      <4> QED
        BY <3>1, <4>1 DEF Kept, SaveRequest
    <3>3. CASE user' = user
      <4>1. req'[q] = req[q]
        BY <1>a, <1>b, <3>3 DEF Outdated
      <4> QED
        BY <3>1, <3>3, <4>1 DEF Kept
    <3> QED
      BY <3>2, <3>3
  <2>2. CASE req[q].op # "save"
    <3>1. req'[q] = req[q]
      BY <1>a, <1>b, <2>2 DEF Outdated
    <3> QED
      BY <2>2, <3>1 DEF Kept, LoginTypes
  <2> QED
    BY <2>1, <2>2
<1>2. req' \in [Procs -> Requests \cup SaveRequest \cup {Idle}]
  <2>1. \A q \in Procs : req'[q] \in Requests \cup SaveRequest \cup {Idle}
    BY <1>a, <1>b
  <2> QED
    BY <1>a, <2>1 DEF Outdated
<1>3. /\ user' = [pw |-> req[p].pw, history |-> req[p].history, age |-> req[p].age]
      /\ user' \in [pw : Passwords, history : Seq(Passwords), age : 0 .. TooOld]
  BY <1>1 DEF Save, SaveRequest
<1>4. recent' \in Seq(Passwords)
  <2>1. req[p].pw \in Passwords
    BY <1>1 DEF SaveRequest
  <2>2. Latest(Append(recent, req[p].pw)) \in Seq(Passwords)
    BY <2>1, LatestShape
  <2>3. <<req[p].pw>> \in Seq(Passwords) /\ recent \in Seq(Passwords)
    BY <2>1 DEF LoginTypes
  <2>4. recent' = <<req[p].pw>> \/ recent' = Latest(Append(recent, req[p].pw)) \/ recent' = recent
    <3>1. req[p].by \in {"user", "admin", "scopes"}
      BY <1>1 DEF SaveRequest
    <3>2. req[p].by = "admin" \/ mixed' => recent' = <<req[p].pw>>
      BY DEF Save
    <3>3. req[p].by = "user" /\ ~mixed' => recent' = Latest(Append(recent, req[p].pw))
      BY DEF Save
    <3>4. req[p].by = "scopes" /\ ~mixed' => recent' = recent
      BY DEF Save
    <3> QED
      BY <3>1, <3>2, <3>3, <3>4
  <2> QED
    BY <2>2, <2>3, <2>4
<1>5. mustChange' \in BOOLEAN /\ undone' \in BOOLEAN /\ mixed' \in BOOLEAN /\ leaked' \in BOOLEAN
  BY <1>1 DEF Save, LoginTypes, SaveRequest
<1>6. LoginTypes'
  BY <1>2, <1>3, <1>4, <1>5 DEF LoginTypes
<1>7. mixed' = (mixed \/ req[p].stale)
  BY DEF Save
<1> QED
  BY <1>1, <1>3, <1>6, <1>7, <1>a, <1>b

\* Time makes the passwords older, those that wait to be saved too.
LEMMA TickEffect ==
  ASSUME LoginTypes, Tick
  PROVE  /\ LoginTypes'
         /\ user'.pw = user.pw /\ user'.history = user.history
         /\ user.age = TooOld => user'.age = TooOld
         /\ \A q \in Procs :
              /\ req'[q].op = req[q].op
              /\ req[q].op = "save" =>
                   /\ req'[q].by = req[q].by /\ req'[q].stale = req[q].stale
                   /\ req'[q].pw = req[q].pw /\ req'[q].history = req[q].history
                   /\ req[q].age = TooOld => req'[q].age = TooOld
                   /\ req[q].age = user.age => req'[q].age = user'.age
         /\ UNCHANGED <<recent, mustChange, leaked, mixed, undone>>
<1> DEFINE older(n) == IF n + 1 < TooOld THEN n + 1 ELSE TooOld
<1>1. TooOld \in Nat
  BY LoginAssumption DEF TooOld
<1>2. \A n \in 0 .. TooOld : older(n) \in 0 .. TooOld
  BY <1>1
<1>3. older(TooOld) = TooOld
  BY <1>1
<1>4. /\ user' = [user EXCEPT !.age = older(user.age)]
      /\ req' = [p \in Procs |-> IF req[p].op = "save" THEN [req[p] EXCEPT !.age = older(req[p].age)] ELSE req[p]]
      /\ UNCHANGED <<recent, mustChange, leaked, mixed, undone>>
  BY DEF Tick, Least, Older
<1> HIDE DEF older
<1>5. user' \in [pw : Passwords, history : Seq(Passwords), age : 0 .. TooOld] /\ user'.age = older(user.age)
  BY <1>2, <1>4 DEF LoginTypes
<1>6. ASSUME NEW q \in Procs, req[q].op = "save"
      PROVE  /\ req'[q] \in SaveRequest /\ req'[q].op = req[q].op
             /\ req'[q].by = req[q].by /\ req'[q].stale = req[q].stale
             /\ req'[q].pw = req[q].pw /\ req'[q].history = req[q].history
             /\ req'[q].age = older(req[q].age)
  <2>1. req[q] \in SaveRequest
    BY <1>6, SaveAt
  <2>2. req'[q] = [req[q] EXCEPT !.age = older(req[q].age)]
    BY <1>4, <1>6
  <2> QED
    BY <1>2, <2>1, <2>2 DEF SaveRequest
<1>7. ASSUME NEW q \in Procs, req[q].op # "save"
      PROVE  req'[q] = req[q]
  BY <1>4, <1>7
<1>8. req' \in [Procs -> Requests \cup SaveRequest \cup {Idle}]
  <2>1. \A q \in Procs : req'[q] \in Requests \cup SaveRequest \cup {Idle}
    BY <1>6, <1>7 DEF LoginTypes
  <2> QED
    BY <1>4, <2>1
<1>9. LoginTypes'
  BY <1>4, <1>5, <1>8 DEF LoginTypes
<1> QED
  BY <1>3, <1>4, <1>5, <1>6, <1>7, <1>9 DEF LoginTypes

\* Every step keeps the types, the history and what a reset asks for.
LEMMA PasswordStep ==
  ASSUME LoginTypes, HistoryInv, ChangeInv, [Next]_vars
  PROVE  LoginTypes' /\ HistoryInv' /\ ChangeInv'
<1>0. Idle.op # "save"
  BY DEF Idle
<1>1. CASE Continues
  <2>1. /\ req' \in [Procs -> Requests \cup SaveRequest \cup {Idle}]
        /\ \A q \in Procs : req'[q] = req[q] \/ Waits(req'[q])
    BY <1>1, ContinuesRequests
  <2>2. LoginTypes'
    BY <1>1, <2>1 DEF Continues, LoginTypes
  <2>3. HistoryInv'
    <3>1. UNCHANGED <<user, recent, mixed>>
      BY <1>1 DEF Continues
    <3>2. Remembered => Remembered'
      BY <3>1 DEF Remembered
    <3>4. ASSUME ~mixed, PasswordHistory > 0, NEW q \in Procs, req'[q].op = "save",
                 req'[q].by = "user", ~req'[q].stale
          PROVE  Checked(req'[q])
      BY <2>1, <3>4 DEF HistoryInv, Waits
    <3> QED
      BY <3>1, <3>2, <3>4 DEF HistoryInv, Checked, Trimmed
  <2>4. ChangeInv'
    <3>1. PasswordAge \in Nat /\ TooOld \in Nat
      BY LoginAssumption DEF TooOld
    <3>2. PasswordAge > 0 => ~leaked'
      BY <1>1, <3>1 DEF Continues, ChangeInv
    <3>3. \A q \in Procs : req'[q].op = "save" /\ req'[q].by = "admin" => req'[q].age = TooOld
      BY <2>1 DEF ChangeInv, Waits
    <3>4. \A q \in Procs : req'[q].op = "save" /\ req'[q].by = "scopes" /\ ~req'[q].stale => Same(req'[q])
      BY <2>1 DEF ChangeInv, Waits
    <3> QED
      BY <1>1, <3>2, <3>3, <3>4 DEF Continues, ChangeInv, TooOld, Same
  <2> QED
    BY <2>2, <2>3, <2>4
<1>2. ASSUME NEW p \in Procs, Save(p)
      PROVE  LoginTypes' /\ HistoryInv' /\ ChangeInv'
  <2>1. /\ req[p] \in SaveRequest
        /\ \A q \in Procs : q # p => Kept(q)
        /\ req'[p] = Idle
        /\ user'.pw = req[p].pw /\ user'.history = req[p].history /\ user'.age = req[p].age
        /\ mixed' = (mixed \/ req[p].stale)
        /\ LoginTypes'
    BY <1>2, SaveEffect
  <2>2. req[p].op = "save" /\ req[p].by \in {"user", "admin", "scopes"} /\ req[p].stale \in BOOLEAN
    BY <2>1 DEF SaveRequest
  <2>3. req[p].by = "scopes" /\ ~req[p].stale => user' = user
    <3>1. req[p].by = "scopes" /\ ~req[p].stale => Same(req[p])
      BY <2>2 DEF ChangeInv
    <3>2. user' = [pw |-> req[p].pw, history |-> req[p].history, age |-> req[p].age]
      BY <1>2 DEF Save
    <3>3. user = [pw |-> user.pw, history |-> user.history, age |-> user.age]
      BY DEF LoginTypes
    <3> QED
      BY <3>1, <3>2, <3>3 DEF Same
  <2>4. HistoryInv'
    <3> SUFFICES ASSUME ~mixed', PasswordHistory > 0
                 PROVE  /\ Remembered'
                        /\ \A q \in Procs : req'[q].op = "save" /\ req'[q].by = "user" /\ ~req'[q].stale =>
                             Checked(req[q])'
      BY DEF HistoryInv
    <3>1. ~mixed /\ ~req[p].stale /\ Remembered
      BY <2>1, <2>2 DEF HistoryInv
    <3>2. Remembered'
      <4>1. CASE req[p].by = "user"
        <5>1. recent' = Latest(Append(recent, req[p].pw))
          BY <1>2, <4>1 DEF Save
        <5>2. Checked(req[p])
          BY <2>2, <3>1, <4>1 DEF HistoryInv
        <5> QED
          BY <2>1, <3>1, <5>1, <5>2, ChangeRemembered
      <4>2. CASE req[p].by = "admin"
        <5>1. recent' = <<req[p].pw>>
          BY <1>2, <4>2 DEF Save
        <5>2. Len(recent') = 1 /\ recent'[1] = user'.pw /\ recent' # <<>> /\ DOMAIN recent' = {1}
          BY <2>1, <5>1
        <5>3. PasswordHistory \in Nat
          BY LoginAssumption
        <5> QED
          BY <5>2, <5>3 DEF Remembered
      <4>3. CASE req[p].by = "scopes"
        <5>1. recent' = recent
          BY <1>2, <4>3 DEF Save
        <5> QED
          BY <2>3, <3>1, <4>3, <5>1 DEF Remembered
      <4> QED
        BY <2>2, <4>1, <4>2, <4>3
    <3>3. ASSUME NEW q \in Procs, req'[q].op = "save", req'[q].by = "user", ~req'[q].stale
          PROVE  Checked(req[q])'
      <4>1. q # p /\ Kept(q)
        BY <1>0, <2>1, <3>3
      <4>2. /\ req[q].op = "save" /\ req[q].by = "user" /\ ~req[q].stale /\ user' = user
            /\ req'[q].pw = req[q].pw /\ req'[q].history = req[q].history
        BY <3>3, <4>1 DEF Kept
      <4>3. Checked(req[q])
        BY <3>1, <4>2 DEF HistoryInv
      <4> QED
        BY <4>2, <4>3 DEF Checked, Trimmed
    <3> QED
      BY <3>2, <3>3
  <2>5. ChangeInv'
    <3>1. ASSUME NEW q \in Procs, req'[q].op = "save"
          PROVE  /\ req'[q].by = "admin" => req'[q].age = TooOld
                 /\ req'[q].by = "scopes" /\ ~req'[q].stale =>
                      req'[q].pw = user'.pw /\ req'[q].history = user'.history /\ req'[q].age = user'.age
      <4>1. q # p /\ Kept(q) /\ req[q].op = "save"
        BY <1>0, <2>1, <3>1 DEF Kept
      <4> QED
        BY <4>1 DEF Kept, ChangeInv, Same
    <3>2. mustChange' /\ ~undone' => user'.age = TooOld
      <4>1. CASE req[p].by = "admin"
        BY <2>1, <2>2, <4>1 DEF ChangeInv
      <4>2. CASE req[p].by = "user"
        BY <1>2, <2>2, <4>2 DEF Save
      <4>3. CASE req[p].by = "scopes"
        BY <1>2, <2>2, <2>3, <4>3 DEF Save, ChangeInv
      <4> QED
        BY <2>2, <4>1, <4>2, <4>3
    <3>3. leaked' = leaked
      BY <1>2 DEF Save
    <3> QED
      BY <3>1, <3>2, <3>3 DEF ChangeInv, Same, TooOld
  <2> QED
    BY <2>1, <2>4, <2>5
<1>3. CASE Tick
  <2>1. /\ LoginTypes' /\ user'.pw = user.pw /\ user'.history = user.history
        /\ user.age = TooOld => user'.age = TooOld
        /\ \A q \in Procs :
             /\ req'[q].op = req[q].op
             /\ req[q].op = "save" =>
                  /\ req'[q].by = req[q].by /\ req'[q].stale = req[q].stale
                  /\ req'[q].pw = req[q].pw /\ req'[q].history = req[q].history
                  /\ req[q].age = TooOld => req'[q].age = TooOld
                  /\ req[q].age = user.age => req'[q].age = user'.age
        /\ UNCHANGED <<recent, mustChange, leaked, mixed, undone>>
    BY <1>3, TickEffect
  <2>2. Remembered => Remembered'
    BY <2>1 DEF Remembered
  <2>3. HistoryInv'
    <3>1. Trimmed(user.history)' = Trimmed(user.history)
      BY <2>1 DEF Trimmed
    <3>2. ASSUME NEW q \in Procs, req[q].op = "save", Checked(req[q])
          PROVE  Checked(req[q])'
      BY <2>1, <3>1, <3>2 DEF Checked
    <3> QED
      BY <2>1, <2>2, <3>2 DEF HistoryInv
  <2>4. ChangeInv'
    BY <2>1 DEF ChangeInv, TooOld, Same
  <2> QED
    BY <2>1, <2>3, <2>4
<1> QED
  BY <1>1, <1>2, <1>3, LoginSplit

-----------------------------------------------------------------------------
(* The theorems *)

\* The server starts with an empty limiter and the password that user-add set.
LEMMA LoginInit ==
  ASSUME Init
  PROVE  Inv
<1>1. PasswordHistory \in Nat /\ TooOld \in Nat /\ FirstPassword \in Passwords
  BY LoginAssumption DEF TooOld
<1>2. LimiterInv
  BY Limits DEF Init, LimiterInv, Generations, getOrCreate, Alike
<1>3. LoginTypes
  <2>1. <<>> \in Seq(Passwords) /\ <<FirstPassword>> \in Seq(Passwords) /\ TooOld \in 0 .. TooOld
    BY <1>1
  <2>2. user \in [pw : Passwords, history : Seq(Passwords), age : 0 .. TooOld]
    BY <1>1, <2>1 DEF Init
  <2> QED
    BY <2>1, <2>2 DEF Init, LoginTypes
<1>4. \A p \in Procs : req[p].op # "save"
  BY DEF Init, Idle
<1>5. Remembered
  <2>1. Len(recent) = 1 /\ recent[1] = user.pw /\ recent # <<>> /\ DOMAIN recent = {1}
    BY DEF Init
  <2> QED
    BY <1>1, <2>1 DEF Remembered
<1>6. HistoryInv /\ ChangeInv
  BY <1>4, <1>5 DEF Init, HistoryInv, ChangeInv
<1> QED
  BY <1>2, <1>3, <1>6 DEF Inv

\* The limiter's entries, the history and the requests in progress keep to each
\* other.
THEOREM LoginInvariant == Spec => []Inv
<1>1. Init => Inv
  BY LoginInit
<1>2. Inv /\ [Next]_vars => Inv'
  BY LimiterStep, PasswordStep DEF Inv
<1> QED
  BY <1>1, <1>2, PTL DEF Spec

\* The two generations end no block early, whatever the limits and the traffic of
\* others; and if a bucket refills before it is forgotten, they never give an
\* address more than one entry that is kept for ever would.
THEOREM ForgettingIsHarmless == Spec => []LimiterRemembers
<1>1. Inv => LimiterRemembers
  <2> SUFFICES ASSUME Inv
               PROVE  LimiterRemembers
    OBVIOUS
  <2>1. /\ SweepsRecovered => Alike(getOrCreate(front, back), ref)
        /\ ref \in Entry /\ owed \in Nat /\ getOrCreate(front, back).block = owed
    BY DEF Inv, LimiterInv, Generations
  <2> QED
    BY <2>1, Limits DEF LimiterRemembers, Alike, Entry
<1> QED
  BY <1>1, LoginInvariant, PTL

\* No two of the latest PasswordHistory + 1 passwords are the same, for any length
\* of the history, unless the user was written from a copy that was not current.
THEOREM PasswordsDiffer == Spec => []NoRepeat
<1>1. Inv => NoRepeat
  <2>1. PasswordHistory \in Nat
    BY LoginAssumption
  <2> QED
    BY <2>1 DEF Inv, HistoryInv, Remembered, NoRepeat
<1> QED
  BY <1>1, LoginInvariant, PTL

\* A user whose password an administrator set is served no page before changing
\* it, whatever requests overlap, unless a copy from before the reset is written.
THEOREM ResetHolds == Spec => []ResetForcesChange
<1>1. Inv => ResetForcesChange
  BY DEF Inv, ChangeInv, ResetForcesChange
<1> QED
  BY <1>1, LoginInvariant, PTL

=============================================================================
