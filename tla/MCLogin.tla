------------------------------- MODULE MCLogin -------------------------------
(***************************************************************************)
(* Instances of Login for TLC: up to three passwords, one of which lacks a *)
(* digit and can come only from an administrator.                          *)
(***************************************************************************)
EXTENDS Login

CONSTANTS a, b, weak

MCClasses == [pw \in {a, b, weak} |-> IF pw = weak THEN {"lower"} ELSE {"lower", "digit"}]

Unblocked == ref.bad = Full.bad /\ owed = 0 /\ back = NoEntry /\ sinceSwap <= TooOld

FirstSet ==
  /\ user.pw = FirstPassword /\ user.history = <<>> /\ ~mixed
  /\ \A p \in Procs : req[p].op # "save"

\* Bound: failures and blocks are explored before the password has changed, and
\* changes of the password before anything is held against the address and before
\* a sweep.
Apart == Unblocked \/ FirstSet
=============================================================================
