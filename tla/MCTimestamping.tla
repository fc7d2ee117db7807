--------------------------- MODULE MCTimestamping ---------------------------
(***************************************************************************)
(* Small instances of Timestamping.                                        *)
(***************************************************************************)
EXTENDS Timestamping, TLC

CONSTANTS e1, e2, x1, d1, d2, g1, g2

MCSourceOf == [e \in Events |-> x1]

DigestSymmetry == Permutations(Digests) \cup Permutations(Stamps)

=============================================================================
