----------------------------- MODULE Committee -----------------------------
(***************************************************************************)
(* The committee and its thresholds (config/src/lib.rs, Committee).        *)
(*                                                                         *)
(* Every authority has stake 1, as in every committee file the repository  *)
(* generates, so that the weight of a set of authorities is its size.      *)
(* The code computes with f64 and truncates or takes the ceiling; the      *)
(* operators below are the integers that come out.                         *)
(***************************************************************************)
EXTENDS Integers, FiniteSets

CONSTANTS
    Node,       \* the authorities of the committee
    F,          \* f: the Byzantine authorities the committee tolerates
    C,          \* c: the crashed authorities it tolerates on top of those
    K           \* k: the slack that buys a larger fast path

N == Cardinality(Node)

\* Committee::new takes any n, f, c and k; the scripts that write the files of a
\* committee insist on n = 3f + 2c + k + 1.
ASSUME CommitteeAssumption ==
    /\ IsFiniteSet(Node)
    /\ F \in Nat /\ C \in Nat /\ K \in Nat
    /\ N >= 3 * F + 2 * C + K + 1

\* (c + k) as f64 / 2.0, truncated by "as u32".
P == (C + K) \div 2

\* The ceiling of (n + f + 1) / 2.
quorum_threshold == (N + F + 2) \div 2

slow_commit_threshold == 2 * F + C + 1

fast_commit_quorum_threshold == N - P

view_change_threshold == N - F - C

validity_threshold == F + 1

\* The size of a weak certificate: TCMaker::check_wqc.
weak_cert_threshold == F + P + 1
=============================================================================
