--------------------------- MODULE ConfigRegister ---------------------------
(***************************************************************************)
(* What a configuration directory promises its clients: a register that a  *)
(* request reads when it begins and replaces later, in one step, by a      *)
(* function of the value it read; whatever other requests made of the      *)
(* register in between is overwritten.  A request that fails may have      *)
(* replaced it or not.  How the value is kept (files, journal, purge) is   *)
(* not visible here.                                                       *)
(***************************************************************************)
CONSTANTS
  Requests,             \* the requests that may arrive, once each
  NewContent(_, _),     \* the value a request sets, given the one it found
  None                  \* the register's first value

VARIABLES
  latest,   \* the value
  status,   \* of each request: "open", "begun", "applied" or "failed"
  found     \* the value each request found when it began

vars == <<latest, status, found>>

Init ==
  /\ latest = None
  /\ status = [q \in Requests |-> "open"]
  /\ found = [q \in Requests |-> None]

Begin(q) ==
  /\ status[q] = "open"
  /\ status' = [status EXCEPT ![q] = "begun"]
  /\ found' = [found EXCEPT ![q] = latest]
  /\ UNCHANGED latest

\* The request replaces the value, and may fail all the same.
Apply(q) ==
  /\ status[q] = "begun"
  /\ latest' = NewContent(q, found[q])
  /\ \E end \in {"applied", "failed"} : status' = [status EXCEPT ![q] = end]
  /\ UNCHANGED found

\* The request found what it was to set, and succeeds.
Skip(q) ==
  /\ status[q] = "begun"
  /\ NewContent(q, found[q]) = found[q]
  /\ status' = [status EXCEPT ![q] = "applied"]
  /\ UNCHANGED <<latest, found>>

\* The requests in qs end without an answer or with an error: those that had not
\* replaced the value leave it alone.
Fail(qs) ==
  /\ \A q \in qs : status[q] \in {"begun", "applied"}
  /\ status' = [q \in Requests |-> IF q \in qs THEN "failed" ELSE status[q]]
  /\ UNCHANGED <<latest, found>>

Next ==
  \/ \E q \in Requests : Begin(q) \/ Apply(q) \/ Skip(q)
  \/ \E qs \in SUBSET Requests : Fail(qs)

Spec == Init /\ [][Next]_vars

=============================================================================
