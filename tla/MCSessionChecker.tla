-------------------------- MODULE MCSessionChecker --------------------------
(* Instances of SessionChecker for TLC.                                    *)
EXTENDS SessionChecker, TLC

ThreadSymmetry == Permutations(Threads)
=============================================================================
