---------------------------- MODULE MCLoginGuard -----------------------------
(* An instance of LoginGuard for TLC: two threads and one remembered name,   *)
(* so that a success between test and record makes room by eviction.         *)
EXTENDS LoginGuard, TLC
==============================================================================
