----------------------------- MODULE MCFazHealth -----------------------------
(* Instances of FazHealth for TLC.  Hosts are strings, as the value of an   *)
(* unset host is.                                                           *)
EXTENDS FazHealth, TLC

CONSTANTS a, b

TwoHosts == {"h1", "h2"}

\* A bound of ticks, edits, requests and restarts of the collector and of the
\* web process.
Bounds(t, e, q, c, w) ==
    [tick |-> t, edit |-> e, request |-> q, collector |-> c, web |-> w]
From(targets, o, bounds) == [targets |-> targets, overlap |-> o, left |-> bounds]

Both == (a :> "h1") @@ (b :> "h1")
One == (a :> "h1") @@ (b :> "unset")
None == (a :> "unset") @@ (b :> "unset")

\* Two targets and a restarted collector over time; requests at the same time,
\* over time; edits at the same time; an edit, a request and a restarted web
\* process; polls that overlap.
EveryScenario ==
    {From(Both, FALSE, Bounds(1, 0, 0, 1, 0)),
     From(One, FALSE, Bounds(1, 0, 2, 0, 0)),
     From(None, FALSE, Bounds(0, 2, 0, 0, 0)),
     From(One, FALSE, Bounds(0, 1, 1, 0, 1)),
     From(One, TRUE, Bounds(0, 1, 0, 0, 0)),
     From(One, TRUE, Bounds(1, 0, 0, 0, 0))}
==============================================================================
