--------------------------- MODULE MCSynchronizer ---------------------------
(***************************************************************************)
(* Instances of module Synchronizer for TLC.                               *)
(***************************************************************************)
EXTENDS Synchronizer

CONSTANTS n1, n2, n3, p1

\* The peers lead in turn.
PeersInTurn == [r \in 1..(MaxRound + 1) |-> IF r % 2 = 1 THEN n2 ELSE n3]

NoTimeouts == [n \in Honest |-> 0]

\* One block in every round.
Longest == [r \in 1..MaxRound |-> [round |-> r, author |-> PeersInTurn[r], payload |-> p1]]

\* The second block and the last one are committed on their own.
SecondAndLast == {Ancestor(Longest, 2), Longest}

\* Peer n2, which led the odd rounds, has failed.
OnlyN3 == [p \in Peer |-> IF p = n3 THEN Certified ELSE {}]
=============================================================================
