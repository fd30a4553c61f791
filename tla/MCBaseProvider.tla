--------------------------- MODULE MCBaseProvider ---------------------------
(* The instance of BaseProvider that TLC checks.                            *)
EXTENDS BaseProvider, TLC

SessionSymmetry == Permutations(Sessions)
=============================================================================
