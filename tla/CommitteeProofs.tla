-------------------------- MODULE CommitteeProofs --------------------------
(***************************************************************************)
(* What the thresholds of the committee guarantee, for every committee     *)
(* that satisfies CommitteeAssumption.  A set of authorities of at most F  *)
(* members stands for the faulty ones.                                     *)
(***************************************************************************)
EXTENDS Committee, FiniteSetTheorems, TLAPS

\* N is a natural number and every threshold is an integer.
LEMMA ThresholdTypes ==
    /\ N \in Nat /\ P \in Nat
    /\ quorum_threshold \in Int /\ slow_commit_threshold \in Int
    /\ fast_commit_quorum_threshold \in Int /\ view_change_threshold \in Int
    /\ validity_threshold \in Int /\ weak_cert_threshold \in Int
<1>1. N \in Nat
  BY FS_CardinalityType, CommitteeAssumption DEF N
<1>2. QED
  BY <1>1, CommitteeAssumption DEF P, quorum_threshold, slow_commit_threshold,
     fast_commit_quorum_threshold, view_change_threshold, validity_threshold,
     weak_cert_threshold

\* Two sets of authorities have at least as many members in common as their
\* sizes exceed the committee.
LEMMA Overlap ==
    ASSUME NEW A \in SUBSET Node, NEW B \in SUBSET Node
    PROVE  /\ IsFiniteSet(A) /\ IsFiniteSet(B) /\ IsFiniteSet(A \cap B)
           /\ Cardinality(A) \in Nat /\ Cardinality(B) \in Nat
           /\ Cardinality(A \cap B) \in Nat
           /\ Cardinality(A \cap B) >= Cardinality(A) + Cardinality(B) - N
<1>1. IsFiniteSet(A) /\ IsFiniteSet(B) /\ IsFiniteSet(A \cap B)
  BY FS_Subset, CommitteeAssumption
<1>2. /\ Cardinality(A) \in Nat /\ Cardinality(B) \in Nat
      /\ Cardinality(A \cap B) \in Nat /\ N \in Nat
  BY <1>1, FS_CardinalityType, ThresholdTypes
<1>3. Cardinality(A \cup B) = Cardinality(A) + Cardinality(B) - Cardinality(A \cap B)
  BY <1>1, FS_Union
<1>4. Cardinality(A \cup B) <= N
  <2>1. A \cup B \subseteq Node
    OBVIOUS
  <2>2. QED
    BY <2>1, FS_Subset, CommitteeAssumption DEF N
<1>5. QED
  BY <1>1, <1>2, <1>3, <1>4

\* Two quorums of Normal votes have an authority in common that is not faulty,
\* so that two blocks of one round cannot both get a prepare QC (QCMaker::append).
THEOREM QuorumsIntersect ==
    ASSUME NEW A \in SUBSET Node, NEW B \in SUBSET Node,
           Cardinality(A) >= quorum_threshold,
           Cardinality(B) >= quorum_threshold
    PROVE  Cardinality(A \cap B) >= F + 1
<1>1. /\ Cardinality(A) \in Nat /\ Cardinality(B) \in Nat
      /\ Cardinality(A \cap B) \in Nat
      /\ Cardinality(A \cap B) >= Cardinality(A) + Cardinality(B) - N
  BY Overlap
<1>2. QED
  BY <1>1, ThresholdTypes, CommitteeAssumption DEF quorum_threshold

\* The authorities of a slow commit and those of a TC have one in common that is
\* not faulty, so that the high QC of the TC is at least the one committed.
THEOREM SlowCommitMeetsViewChange ==
    ASSUME NEW A \in SUBSET Node, NEW B \in SUBSET Node,
           Cardinality(A) >= slow_commit_threshold,
           Cardinality(B) >= view_change_threshold
    PROVE  Cardinality(A \cap B) >= F + 1
<1>1. /\ Cardinality(A) \in Nat /\ Cardinality(B) \in Nat
      /\ Cardinality(A \cap B) \in Nat
      /\ Cardinality(A \cap B) >= Cardinality(A) + Cardinality(B) - N
  BY Overlap
<1>2. QED
  BY <1>1, ThresholdTypes, CommitteeAssumption
     DEF slow_commit_threshold, view_change_threshold

\* A block with a fast quorum has enough votes among the authorities of every TC
\* for a weak certificate (TCMaker::check_wqc), whoever the faulty ones are.
THEOREM FastCommitIsRecovered ==
    ASSUME NEW A \in SUBSET Node, NEW B \in SUBSET Node, NEW Faulty \in SUBSET Node,
           Cardinality(A) >= fast_commit_quorum_threshold,
           Cardinality(B) >= view_change_threshold,
           Cardinality(Faulty) <= F
    PROVE  Cardinality((A \cap B) \ Faulty) >= weak_cert_threshold
<1>1. Cardinality(A \cap B) >= N - P - F - C
  <2>1. /\ Cardinality(A) \in Nat /\ Cardinality(B) \in Nat
        /\ Cardinality(A \cap B) \in Nat
        /\ Cardinality(A \cap B) >= Cardinality(A) + Cardinality(B) - N
    BY Overlap
  <2>2. QED
    BY <2>1, ThresholdTypes, CommitteeAssumption
       DEF fast_commit_quorum_threshold, view_change_threshold
<1>2. /\ IsFiniteSet(A \cap B) /\ IsFiniteSet(Faulty)
      /\ Cardinality(A \cap B) \in Nat /\ Cardinality(Faulty) \in Nat
  BY Overlap
<1>3. Cardinality((A \cap B) \ Faulty)
          = Cardinality(A \cap B) - Cardinality((A \cap B) \cap Faulty)
  BY <1>2, FS_Difference
<1>4. /\ Cardinality((A \cap B) \cap Faulty) \in Nat
      /\ Cardinality((A \cap B) \cap Faulty) <= Cardinality(Faulty)
  BY <1>2, FS_Intersection, FS_CardinalityType
<1>5. 2 * P <= C + K
  BY CommitteeAssumption DEF P
<1>6. QED
  BY <1>1, <1>2, <1>3, <1>4, <1>5, ThresholdTypes, CommitteeAssumption
     DEF weak_cert_threshold

\* No other block of the round can get a weak certificate: its voters are
\* outside the fast quorum or faulty, and those are too few.
THEOREM FastCommitExcludesOthers ==
    ASSUME NEW A \in SUBSET Node, NEW W \in SUBSET Node, NEW Faulty \in SUBSET Node,
           Cardinality(A) >= fast_commit_quorum_threshold,
           Cardinality(Faulty) <= F,
           W \cap (A \ Faulty) = {}
    PROVE  Cardinality(W) < weak_cert_threshold
<1>1. W \cap A \subseteq Faulty
  OBVIOUS
<1>2. Cardinality(W \cap A) <= Cardinality(Faulty)
  BY <1>1, Overlap, FS_Subset
<1>3. Cardinality(W \cap A) >= Cardinality(W) + Cardinality(A) - N
  BY Overlap
<1>4. /\ Cardinality(W) \in Nat /\ Cardinality(A) \in Nat
      /\ Cardinality(W \cap A) \in Nat /\ Cardinality(Faulty) \in Nat
  BY Overlap
<1>5. QED
  BY <1>2, <1>3, <1>4, ThresholdTypes, CommitteeAssumption
     DEF weak_cert_threshold, fast_commit_quorum_threshold

\* The Timeouts that make a TCMaker emit a TC are as many as the quorum that
\* TC::is_well_formed asks for.  As many authorities are left when F + C of them
\* are silent, and they can certify a block and commit it on the slow path.
THEOREM EnoughAreLeft ==
    /\ view_change_threshold >= quorum_threshold
    /\ view_change_threshold >= slow_commit_threshold
    /\ view_change_threshold >= validity_threshold
BY ThresholdTypes, CommitteeAssumption
   DEF view_change_threshold, quorum_threshold, slow_commit_threshold, validity_threshold
=============================================================================
