---------------------------- MODULE MCHydrangea ----------------------------
(***************************************************************************)
(* Instances of module Hydrangea for TLC.                                  *)
(***************************************************************************)
EXTENDS Hydrangea

CONSTANTS n1, n2, n3, n4

\* Who leads: the first three nodes in turn, or a node that has failed.
InTurn == [r \in 1..(MaxRound + 1) |-> <<n1, n2, n3>>[((r - 1) % 3) + 1]]

Failed == [r \in 1..(MaxRound + 1) |-> n4]

\* How often the timers expire.
Twice == [n \in Honest |-> 2]

Once == [n \in Honest |-> 1]

OnceAndTwice == [n \in Honest |-> IF n = n1 THEN 1 ELSE 2]

OnceButN1 == [n \in Honest |-> IF n = n1 THEN 0 ELSE 1]

\* What the network loses.
Nothing == {}

\* n1 counts the votes for blocks and does not hear of Timeouts, n2 hears of
\* Timeouts and certificates, n3 counts the votes to commit.  The proposals that
\* recover from a failure are made, and reach no one.
Divided ==
    {"Commit", "QC", "Timeout", "F"} \X {n1} \cup
    {"Normal", "Commit", "F"} \X {n2} \cup
    {"Normal", "QC", "Timeout", "F"} \X {n3}

\* All running nodes are alike, and so are the payloads.
Alike == Permutations(Honest) \cup Permutations(Payload)
=============================================================================
