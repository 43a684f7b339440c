---------------------------- MODULE SnapshotFeed ----------------------------
(***************************************************************************)
(* What the clients of the executive summary may rely on, without caches,  *)
(* databases or polls: there is one latest reading, identified by its      *)
(* collected_at (0: none yet), which only advances.  A server may show any *)
(* reading that was the latest at some time since the server started, and  *)
(* its threads need not agree: what clients see may go back, but never to  *)
(* before the server's start, and so never across a restart.               *)
(***************************************************************************)
EXTENDS Integers

CONSTANTS Servers, Threads

VARIABLES
    latest,   \* collected_at of the collector's latest result
    floor,    \* floor[s]: what was the latest when server s started
    seen      \* seen[s][t]: collected_at of the last answer of thread t of s

Init ==
    /\ latest = 0
    /\ floor = [s \in Servers |-> 0]
    /\ seen = [s \in Servers |-> [t \in Threads |-> 0]]

Advance ==
    /\ latest' \in Nat
    /\ latest' >= latest
    /\ UNCHANGED <<floor, seen>>

Observe(s, t) ==
    /\ \E v \in floor[s] .. latest : seen' = [seen EXCEPT ![s][t] = v]
    /\ UNCHANGED <<latest, floor>>

Restart(s) ==
    /\ floor' = [floor EXCEPT ![s] = latest]
    /\ UNCHANGED <<latest, seen>>

Next ==
    \/ Advance
    \/ \E s \in Servers : Restart(s) \/ \E t \in Threads : Observe(s, t)

Spec == Init /\ [][Next]_<<latest, floor, seen>>
=============================================================================
