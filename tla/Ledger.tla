------------------------------- MODULE Ledger -------------------------------
(***************************************************************************)
(* What the consensus engine promises to the application: every node       *)
(* outputs blocks of one chain, oldest first, without gaps, and never      *)
(* takes one back.                                                         *)
(***************************************************************************)
EXTENDS Sequences, Naturals

CONSTANT
    Honest      \* the nodes that output blocks

VARIABLE
    log         \* log[n] is the sequence of the blocks that node n has output

StartsWith(s, t) == Len(t) <= Len(s) /\ \A i \in 1..Len(t) : s[i] = t[i]

\* Of any two logs one is the beginning of the other.
Compatible(l) ==
    \A m, n \in Honest : StartsWith(l[m], l[n]) \/ StartsWith(l[n], l[m])

\* A block is the sequence of headers from the first block to itself: the
\* blocks of a log each extend the one before by one header.
Linked(s) ==
    \A i \in 1..Len(s) : Len(s[i]) = i /\ (i > 1 => StartsWith(s[i], s[i - 1]))

Init == log = [n \in Honest |-> << >>]

\* Node n outputs one or more blocks.
Output(n) ==
    /\ log' = [log EXCEPT ![n] = log'[n]]
    /\ StartsWith(log'[n], log[n])
    /\ Linked(log'[n])
    /\ Compatible(log')

Next == \E n \in Honest : Output(n)

Spec == Init /\ [][Next]_log
=============================================================================
