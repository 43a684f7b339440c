------------------------------ MODULE MCAccess ------------------------------
(* Instances of Access for TLC.                                            *)
EXTENDS Access, TLC

Symmetry == Permutations(Threads) \cup Permutations(Clis)

\* For a POST a group with every member and tab; for a PUT, one without members.
SomeBodies == {[has |-> {"tabs"}, members |-> Users, tabs |-> Tabs]}
=============================================================================
