---------------------------- MODULE MCThreatStats ----------------------------
(* Instances of ThreatStats for TLC.  Logs of different kinds touch          *)
(* different numbers of a snapshot, so a scenario has one kind of them.      *)
EXTENDS ThreatStats, TLC

Scenario(t, logs, b) == [now |-> t, logs |-> logs, enabled |-> Targets, budget |-> b]

Quiet == [[k \in Kinds |-> 0] EXCEPT !["poll"] = 1, !["odd"] = 1]
Some(kind) == [Quiet EXCEPT ![kind] = 1]

\* What a target may have logged before the poll.
Alerts == {[NoLogs EXCEPT !.alerts = c] : c \in [Severities -> 0..1]}
Attacks(n) == {[NoLogs EXCEPT !.hits = c] : c \in [Signatures -> 0..n]}
Logins(t) == {[NoLogs EXCEPT !.logins = c] : c \in {{}} \cup {{x} : x \in t - Day .. t - 1}}
Sessions == {[NoLogs EXCEPT !.sess = c] : c \in [Tunnels -> {{}, {"open"}, {"closed"}}]}

LateLogins == {Scenario(t, Logins(t), Some("login")) : t \in Day .. 2 * Day - 1}

\* One poll during which one more log arrives; a poll of many signatures; two
\* polls with a restart; targets that are not to be polled.
EveryScenario ==
    LateLogins \cup
    {Scenario(Day, Alerts, Some("alert")),
     Scenario(Day, Attacks(1), Some("ips")),
     Scenario(Day, Attacks(2), Quiet),
     Scenario(Day, Sessions, Some("vpn")),
     Scenario(Day, {NoLogs}, [Some("alert") EXCEPT !["poll"] = 2, !["restart"] = 1]),
     [Scenario(Day, {NoLogs}, Some("alert")) EXCEPT !.enabled = {}]}

NineToFive == [from |-> 1, to |-> 3]
FleetSymmetry == Permutations(Targets) \cup Permutations(Tunnels)
                    \cup Permutations(Signatures) \cup Permutations(Severities)
==============================================================================
