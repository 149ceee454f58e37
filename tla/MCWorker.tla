------------------------------ MODULE MCWorker ------------------------------
(***************************************************************************)
(* An instance of module Worker for TLC.                                   *)
(***************************************************************************)
EXTENDS Worker

CONSTANTS n1, n2, n3, t1, t2

\* The clients send everything to the worker of n1.
ToN1 == [t \in Txn |-> n1]
=============================================================================
