----------------------------- MODULE MCLogUsage -----------------------------
(* Instances of LogUsage for TLC.  One tick is 15 seconds: the deadline of  *)
(* 75 s is 5, the consumer's 90 s is 6, a search may take 60 s (4) and a    *)
(* device list 30 s (2).                                                    *)
EXTENDS LogUsage, TLC

DeviceSymmetry == Permutations(Devices)
=============================================================================
