---------------------------- MODULE MCPacemaker ----------------------------
(***************************************************************************)
(* An instance of module Pacemaker for TLC.                                *)
(***************************************************************************)
EXTENDS Pacemaker

CONSTANTS n1, n2, n3

\* Node n1 leads two rounds, and n3 the third.
TwiceN1 == [r \in 1..(MaxRound + 1) |-> <<n1, n1, n3, n2>>[r]]

\* The bound of module Hydrangea on Timeouts is not used here.
NoTimeouts == [n \in Honest |-> 0]

\* n1 proposes and counts votes, n2 has to be told of the QC or make it, n3 may
\* learn of the commit first; the timers of n2 and n3 may expire.
Partly ==
    ({"Timeout", "Timer", "QC", "Commit"} \X {n1}) \cup
    ({"Timeout", "Normal", "Commit"} \X {n2}) \cup
    ({"Timeout", "Normal", "QC"} \X {n3})
=============================================================================
