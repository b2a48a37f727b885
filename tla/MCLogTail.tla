----------------------------- MODULE MCLogTail -------------------------------
(***************************************************************************)
(* Instances of LogTail for TLC.                                           *)
(***************************************************************************)
EXTENDS LogTail

CONSTANTS d1, d2

Line(dev, form, number) == [uuid |-> dev, form |-> form, n |-> number]

\* A line of another device and one of the rollout's, what an append that broke off
\* has left, and behind it a line too long to be read.
MCLines ==
  <<Line(d2, "status", 1), Line(d1, "status", 2), Line(d2, "garbled", 3), Line(d1, "long", 4)>>
=============================================================================
