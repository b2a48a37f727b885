-------------------------- MODULE MCConfigHistory ---------------------------
(***************************************************************************)
(* Instances of ConfigHistory for TLC.                                     *)
(***************************************************************************)
EXTENDS ConfigHistory

CONSTANTS a, b, c

\* c has the files of a and of b: patching b into a gives c, and into c nothing new.
MCMerge == [x \in Contents \cup {None} |->
              [y \in Contents |-> IF x \in {a, c} /\ y = b THEN c ELSE y]]

\* Saves of three contents, two of them twice (rollbacks reuse a file name), and
\* a device's PATCH.
PutsAndPatch ==
  {[id |-> 1, kind |-> "put", content |-> a],
   [id |-> 2, kind |-> "put", content |-> b],
   [id |-> 3, kind |-> "put", content |-> c],
   [id |-> 4, kind |-> "put", content |-> a],
   [id |-> 5, kind |-> "put", content |-> b],
   [id |-> 6, kind |-> "patch", content |-> b]}

\* Bound: a PUT, another and a device's PATCH come in any overlap, the rest one
\* after the other.
FewOverlap == overlapped => \A q \in Requests : pc[q] # "idle" => q.id \in {1, 2, 6}

\* Of two requests that are alike the first comes first.
FirstFirst ==
  \A p, q \in Requests :
    /\ p.kind = q.kind /\ p.content = q.content /\ p.id < q.id
    => (pc[q] # "idle" => pc[p] # "idle")
=============================================================================
