------------------------------ MODULE LogUsage ------------------------------
(***************************************************************************)
(* The search behind POST /external/api/log-usage                          *)
(* (app/routes/external_api_routes.py, _run_log_usage_search): one request *)
(* thread asks the FortiAnalyzers of an ADOM, one after the other, which   *)
(* of the requested devices they know, and searches the logs of each       *)
(* device found.  Every call may fail or be slow, and the whole request    *)
(* has a deadline.                                                         *)
(*                                                                         *)
(* A device name stands for its case-insensitive class, which              *)
(* _validate_log_usage_request reduced to one spelling.  The addresses,    *)
(* ports and counts a search adds to the answer are left out: they are     *)
(* determined by which devices were searched.                              *)
(***************************************************************************)
EXTENDS Integers

CONSTANTS
    Devices,        \* the requested device names, after deduplication
    MaxTargets,     \* bound on the number of FortiAnalyzers configured for the ADOM
    Deadline,       \* _LOG_USAGE_DEADLINE_SECS
    MaxResolve,     \* longest get_devices call, failed or not
    MaxSearch       \* longest search of one device, failed or not

ASSUME UsageAssumption ==
    /\ Devices # {}
    /\ MaxTargets \in Nat
    /\ Deadline \in Nat \ {0}
    /\ MaxResolve \in Nat
    /\ MaxSearch \in Nat

VARIABLES
    pc,         \* "target", "device" or "done"
    elapsed,    \* time since the request began
    idx,        \* index of the target being asked, or of the next one
    knows,      \* knows[i]: the devices the i-th target of the ADOM lists (fixed)
    remaining,  \* requested names no search was attempted for
    resolved,   \* names resolved on the current target, still to be searched
    queried,    \* devices_queried
    errors,     \* device_errors: name -> kind of message, a partial function
    notFound,   \* devices_not_found
    status,     \* HTTP status, 0 while running
    searches,   \* (auxiliary) searches[d]: how often d was searched
    answered    \* (auxiliary) the targets that returned their device list

vars == <<pc, elapsed, idx, knows, remaining, resolved, queried, errors,
          notFound, status, searches, answered>>

Kinds == {"target failed", "search failed", "skipped"}
NoError == "none"
Failing == {d \in Devices : errors[d] # NoError}

\* What the targets of an ADOM may list; no target at all is one case.
Inventories == UNION {[1..k -> SUBSET Devices] : k \in 0..MaxTargets}
Targets == DOMAIN knows

Init ==
    /\ pc = "target"
    /\ elapsed = 0
    /\ idx = 1
    /\ knows \in Inventories
    /\ remaining = Devices
    /\ resolved = {}
    /\ queried = {}
    /\ errors = [d \in Devices |-> NoError]
    /\ notFound = {}
    /\ status = 0
    /\ searches = [d \in Devices |-> 0]
    /\ answered = {}

\* _match_targets_for_adom found nothing.
NoTarget ==
    /\ pc = "target"
    /\ Targets = {}
    /\ pc' = "done"
    /\ status' = 404
    /\ UNCHANGED <<elapsed, idx, knows, remaining, resolved, queried, errors,
                   notFound, searches, answered>>

MoreTargets == pc = "target" /\ idx \in Targets /\ remaining # {}

\* _resolve_devices_for_target returned: the names this target lists are
\* searched next, the others stay in remaining for a later target.
Resolve(d) ==
    /\ MoreTargets
    /\ elapsed' = elapsed + d
    /\ resolved' = remaining \cap knows[idx]
    /\ answered' = answered \cup {idx}
    /\ pc' = "device"
    /\ UNCHANGED <<idx, knows, remaining, queried, errors, notFound, status, searches>>

\* It raised: every remaining name gets the message unless it has one.
ResolveFails(d) ==
    /\ MoreTargets
    /\ elapsed' = elapsed + d
    /\ errors' = [n \in Devices |->
                    IF n \in remaining /\ errors[n] = NoError
                    THEN "target failed" ELSE errors[n]]
    /\ idx' = idx + 1
    /\ UNCHANGED <<pc, knows, remaining, resolved, queried, notFound, status,
                   searches, answered>>

\* The head of the loop over resolved: the deadline is tested before each
\* search, and only there.
MaySearch(n) == pc = "device" /\ n \in resolved /\ elapsed < Deadline

\* Faulty variant: a searched name stays in remaining.
Attempt_KeepsName(n, d) ==
    /\ MaySearch(n)
    /\ elapsed' = elapsed + d
    /\ resolved' = resolved \ {n}
    /\ searches' = [searches EXCEPT ![n] = @ + 1]
    /\ UNCHANGED remaining

\* What one turn of that loop does besides its outcome.
Attempt(n, d) ==
    /\ MaySearch(n)
    /\ elapsed' = elapsed + d
    /\ remaining' = remaining \ {n}
    /\ resolved' = resolved \ {n}
    /\ searches' = [searches EXCEPT ![n] = @ + 1]

\* Faulty variant: the message of an earlier target is not removed.
Search_KeepsError(n, d) ==
    /\ Attempt(n, d)
    /\ queried' = queried \cup {n}
    /\ UNCHANGED <<pc, idx, knows, errors, notFound, status, answered>>

Search(n, d) ==
    /\ Attempt(n, d)
    /\ errors' = [errors EXCEPT ![n] = NoError]
    /\ queried' = queried \cup {n}
    /\ UNCHANGED <<pc, idx, knows, notFound, status, answered>>

SearchFails(n, d) ==
    /\ Attempt(n, d)
    /\ errors' = [errors EXCEPT ![n] = "search failed"]
    /\ UNCHANGED <<pc, idx, knows, queried, notFound, status, answered>>

TargetDone ==
    /\ pc = "device"
    /\ resolved = {}
    /\ pc' = "target"
    /\ idx' = idx + 1
    /\ UNCHANGED <<elapsed, knows, remaining, resolved, queried, errors,
                   notFound, status, searches, answered>>

\* The end of the function: 502 when nothing was searched and something
\* failed, the partial answer otherwise.
Respond(left, errs) ==
    /\ notFound' = left
    /\ errors' = errs
    /\ status' = IF queried = {} /\ \E n \in Devices : errs[n] # NoError
                 THEN 502 ELSE 200
    /\ pc' = "done"
    /\ UNCHANGED <<elapsed, idx, knows, resolved, queried, searches, answered>>

\* Faulty variant: what the deadline cut off is reported as not found.
DeadlineHit_NotFound ==
    /\ pc = "device"
    /\ resolved # {}
    /\ elapsed >= Deadline
    /\ UNCHANGED remaining
    /\ Respond(remaining, errors)

\* deadline_hit: all that remains is marked as skipped.
DeadlineHit ==
    /\ pc = "device"
    /\ resolved # {}
    /\ elapsed >= Deadline
    /\ remaining' = {}
    /\ Respond({}, [n \in Devices |-> IF n \in remaining THEN "skipped" ELSE errors[n]])

AllAsked ==
    /\ pc = "target"
    /\ Targets # {}
    /\ idx \notin Targets \/ remaining = {}
    /\ UNCHANGED remaining
    /\ Respond(remaining, errors)

Next ==
    \/ NoTarget
    \/ \E d \in 0..MaxResolve : Resolve(d) \/ ResolveFails(d)
    \/ \E n \in Devices, d \in 0..MaxSearch : Search(n, d) \/ SearchFails(n, d)
    \/ TargetDone
    \/ DeadlineHit
    \/ AllAsked

Spec == Init /\ [][Next]_vars

-----------------------------------------------------------------------------
(* Properties. *)

\* Every variable holds a value of its kind.
TypeOK ==
    /\ pc \in {"target", "device", "done"}
    /\ elapsed \in Nat
    /\ idx \in Nat \ {0}
    /\ knows \in Inventories
    /\ remaining \in SUBSET Devices
    /\ resolved \in SUBSET Devices
    /\ queried \in SUBSET Devices
    /\ errors \in [Devices -> Kinds \cup {NoError}]
    /\ notFound \in SUBSET Devices
    /\ status \in {0, 200, 404, 502}
    /\ searches \in [Devices -> Nat]
    /\ answered \in SUBSET Targets

\* The answer accounts for every requested device: searched, not found or in
\* error; and a device listed as searched is in neither of the other lists,
\* whatever failed on the way to the target that had it.
EveryDeviceAccounted ==
    status = 200 =>
        /\ Devices = queried \cup notFound \cup Failing
        /\ queried \cap (notFound \cup Failing) = {}

\* No device is searched twice, even if several targets list it or an earlier
\* target or search failed: its logs would be counted twice.
SearchedAtMostOnce == \A d \in Devices : searches[d] <= 1

\* "device_not_found implies FAZ was actually asked": every target was asked
\* for a device reported as not found; each answered without it, or failed,
\* and then the device also carries an error.
NotFoundWasAsked ==
    status = 200 =>
        \A n \in notFound, i \in Targets :
            \/ i \in answered /\ n \notin knows[i]
            \/ i \notin answered /\ n \in Failing

\* How far a request may run past its deadline: one search and one device list
\* per target.  MaxResolve and MaxSearch are whatever those calls take; the code
\* bounds neither to less than several request timeouts, so this is no promise
\* that a request ends within the 90 s its client waits.
BoundedOverrun ==
    elapsed <= Deadline + MaxTargets * MaxResolve + MaxSearch
=============================================================================
