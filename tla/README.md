# 4tLog: a TLA+ model of the collector, the caches and the session checks

4tLog is a Flask application that watches a fleet of FortiAnalyzers: a collector
process polls them, a web process shows the results and searches logs, and a
suite of sibling applications (4tSuite, 4tExecutive) talks to it through service
tokens. This directory holds TLA+ modules translated from the code under `src/`,
the TLC configurations that check them on small instances, and proofs checked by
TLAPS. `PROJECT.json` lists for every definition the lines it models, for every
run its properties, for every property a mutation of the code that breaks it,
the hazards of the code and the theorems.

## 1. The system

| Component | State it keeps | Operations | Hard part | Module |
|---|---|---|---|---|
| Log-statistics cache (`log_stats_cache.py`) | `_cache` per process, behind `_lock` | `poll_all_targets` (start-up thread and interval job), `get_cached` with read-through | threads publish under the lock and persist outside it; read, unlock, overwrite | `StatsCache` |
| Collector store (`collector_store.py`) | one SQLite row per cache key | `write_cache`, `read_cache` | any call may raise; shared by two processes | `StatsCache`, `FazHealth` |
| Log-volume history (`log_stats_history.py`) | rollup rows | `write_rollup`, `get_latest_rollup`, `prune_old_rows` | written after the store; cutoff compared as text | `StatsCache` |
| Collector (`collector.py`) | none of its own | starts the schedulers | restarts between any two steps | `StatsCache`, `FazHealth` |
| Executive summary (`external_api_routes.py`) | none | answers from cache, else from the newest rollup | must not fabricate zeros, nor pass over a stored snapshot | `StatsCache` (log part), `ThreatStats` (threats, admin access, VPN) |
| FAZ health cache (`faz_health_cache.py`) | `_cache[label]` per process | `poll_all_targets`, `get_all_cached` | target list edited while a cycle works through its copy | `FazHealth` |
| FAZ targets (`faz_targets.py`) | `faz_targets.json`, behind a lock of each process | create, update, delete, list | edits race polls; the file is truncated before it is written, and the other process does not share the lock | `FazHealth` |
| Log usage API (`external_api_routes.py`) | one request | resolve devices, search each, report | partial failures and a deadline | `LogUsage` |
| 4tSuite session checker (`tsuite_adapter.py`) | list of logouts, offset, two time stamps, behind a lock | `sso_session_valid`, `refresh` | remote clock, slow or failing fetches under the lock, grace, restart | `SessionChecker` |
| Accounts (`auth.py`, `manage_users.py`) | `users.json`, no lock | `add_user`, `delete_user`, `_load_users` | other processes truncate and rewrite the file | `Access` |
| Groups and tabs (`groups.py`, groups API, group push) | `groups.json`, lock per function | create, PUT, delete, push, `get_allowed_tabs` | handlers of several lock sections; crash in `_save` | `Access` |
| Sessions (`decorators.py`, `auth_routes.py`) | a cookie in the browser | login, SSO login, revalidation per request | three unlocked reads decide one request | `Access`, `SessionChecker` |
| Login rate limiter (`auth_routes.py`) | failure times per address and name, behind a lock | test, record, clear | test and update around a slow password check; a sliding window; eviction | `LoginGuard` |
| Threat statistics (`threat_stats_cache.py`, `threat_stats_history.py`) | like log statistics | a poll of a dozen questions per target, merged over the targets | answers of different moments, failing targets, cut lists, windows of the day | `ThreatStats` |
| Log search (`log_search.js`, `log_search_routes.py`, `FAZClient.search_logs`) | a request, a task on the appliance, the table in the browser | search, poll, time out; refine, turn pages | rows arrive while the table is in use; a deadline tested between calls | `LogSearch` |
| Host metrics, application log buffer | SQLite samples, ring buffer | append, prune, read | limits | not modelled |
| API tokens, settings | JSON files | read-modify-write in one function each | none the others do not have | not modelled |
| SSO token verification, CSRF, SNMP decoding, formatting, pages | none | pure functions and I/O | none that a state model shows | not modelled |

How they interact: in the default deployment (`RUN_SCHEDULERS=collector`) the
pollers run in the collector process and write SQLite; the web process (one
gunicorn worker, eight threads) reads that row once, through `get_cached`, and
keeps it in memory. With `RUN_SCHEDULERS=inline` one process does both. Every
request of a session goes through `_revalidate_session`, which calls the session
checker for SSO sessions, then reads `users.json` twice and `groups.json` once.
4tSuite pushes group memberships and serves the list of logouts.

## 2. The modules

**`StatsCache`** has the collector's two poll threads (`Jobs`: `"now"` for
`poll_now`, `"sched"` for the interval job), the request threads of the web
processes, `_cache` of each process (`mem`), the store row and the history. A
snapshot is its `collected_at` and the set of targets it rests on; all counts
derive from that and are left out. A poll is `StartPoll`, `Collect` (the early
return of a cycle without an answering target included), `Publish` (under the
lock), `WriteStore`, `WriteRollup`, `Prune`; `JobDies` is an exception of SQLite
in any of the last three. A request is `Request` (first lock section),
`ReadStore`, `Fill` (second lock section), `ReadRollup`; `ReadFails` is a read
that SQLite refuses (a 500). `Restart` forgets a process's memory and threads.
`born[p]` is auxiliary: what the store held when process `p` started. `MayOverlap` says whether the first interval may
elapse while the start-up poll still runs; `Poller \in Web` gives the inline
deployment. The history is pruned with the code's text comparison (a row exactly
at the cutoff goes). `threat_stats_cache.py` uses the same protocol line by line.

**`SnapshotFeed`** is the abstract specification: a latest published time that
never goes back, and servers whose threads show any time between what was the
latest when the server started and the latest. It lets two threads of one server
disagree, and what a client sees go back to an older of these times: two requests
that find the cache empty may read the store before and after a poll, and the one
that read first may fill the cache last. No client sees what was out of date when
the server started, so nothing shown after a restart is older than what was shown
before it.
`StatsCache` implements it (`FeedSpec`) with `latest <- store.at`,
`floor <- born` and a thread's last answer as what it has shown.

**`FazHealth`** has `faz_targets.json`, the collector's cache, the store row, the
web process's cache, the two poll threads working through their copies of the
list, the requests of the dashboard and those of the administrators. An entry is
the host it was read from and when. An edit reads the file under the web
process's lock (`EditLoad`), truncates it (`EditOpen`) and writes it
(`EditDump`); the collector reads the file at any moment, since its lock is
another one, and takes a truncated file for an empty list, as `_load` does.
`RestartWeb` cuts off a save, `ReadFails` is a read of the store that SQLite
refuses. Auxiliary are `acked` (what administrators were told) and `due[r]` (what
the store held when request `r` found the cache empty).

**`ThreatStats`** is one poll of `threat_stats_cache.py` after the other, question
by question (`GetTotal`, `GetSeverity`, `RunTopType`, `RunTopThreats`,
`RunAdminLogins`, `RunBusinessLogins`, `RunSiteToSite`), while the logs of the
FortiAnalyzers change between any two questions. Any question may fail, which
drops the target; a count may come in an unknown shape (zero) and a time range
may be the wrong one (`local_time_range` falls back silently). `Merge`, `Publish`,
`WriteStore` and `WriteRollup` follow the code; `GetCached` and `GetLatestRollup`
are the two reads of the threat part of `executive_summary`, and polls go on
between them. A clock tick is a share of the day, so that the business
hours and midnight fall between ticks. How snapshots travel between overlapping
threads is left to `StatsCache`, whose protocol is the same. `poll.noise` (what
disturbed the poll) and `poll.stay` (tunnels that stayed up or down) are
auxiliary.

**`LoginGuard`** has the two dictionaries of the limiter and the request threads:
`Post` (the form, the clock is read), `Check` (`_is_rate_limited` under the lock),
`Accept` or `Refuse` (the password check without the lock) or `Raises` (a damaged
`users.json`: a 500, nothing is recorded), `RecordFailure` or `ClearFailures`. Failures are bags of ages, so that time can pass for ever in a
finite model; `lag` is the time between reading the clock and getting the lock.
The keys of `_user_failures` are kept in their order, because the oldest one is
evicted. Auxiliary are `failed` (the passwords that were refused) and `raced` (the
names and addresses whose last attempt to pass the test found another one between
test and record).

**`LogUsage`** is one request of `POST /external/api/log-usage`, with time: which
devices each FortiAnalyzer lists is chosen initially, every call fails or
succeeds after any time up to its timeout. `searches` and `answered` are
auxiliary.

**`SessionChecker`** has the checker's dictionary, the lock (a thread holds it
from `EnterStale` to `RefreshOk` or `RefreshFails`), 4tSuite's logouts, its
clock (`Skew` ahead) and the latency of a fetch (the clock may advance in any
state). `synced`, `asked` (the `now` of the last fetch) and the `known` field of a
thread are auxiliary.

**`Access`** has `users.json` and `groups.json` with their damaged states, runs
of `manage_users.py` (`CliLoad`, `CliOpen`, `CliDump`, `CliDies`), the browsers'
cookies and request threads that go through `_revalidate_session` (`Revalidate`,
`TabsOfAdmin`, `TabsOfGroups`) and the handlers of the groups API and of the
push, one step per lock section. A response replaces the browser's cookie, as
Flask does for permanent sessions. Auxiliary are `seen[t]`, what the files said
at some time of the request under way (`Standing` for `users.json`), and `admins`,
the users whom `users.json` ever called admins: an SSO session whose user has no
account goes on with the role it carries, about which the file says nothing any
more.

**`LogSearch`** has one page (the Search button, the error box, the table with
its refine and paging controls) and the request of its last search, which goes
through `ApiSearch`, `LocalTimeRange`, `Submit` and turns of `Poll` and `Sleep`
to an answer, with the time each takes. The operations of the table
(`GoToPage`, `ApplyRefineFilter`, `RenderResults`) are operators from a table to
a table, as the functions of the page are. A post takes up to `PostMax`, which is
the appliance's doing: `FAZ_REQUEST_TIMEOUT` bounds its connect and each read and
not the whole. `req.hits`, the logs in the period asked for, is what the table is
compared with. `req.sound` is auxiliary: the period was converted to the
appliance's time zone (else the task may find other logs), and the `return-lines`
that decides about the banner was not below the rows returned.

## 3. The runs

| Run | Asks | Bounds |
|---|---|---|
| `stats_feed` | `TypeOK`, `Honest`, `DetailsOnceStored`, `StoreCoversHistory`, the refinement `FeedSpec`, and the liveness property `EveryClientGetsDetails` | two request threads in the web process, so that a read-through overtakes another; two clock values and a retention of one, so that rows leave the history; failing targets, SQLite errors and a restart; polls do not overlap, a limit without which the first three properties are proved |
| `usage` | `EveryDeviceAccounted`, `SearchedAtMostOnce`, `NotFoundWasAsked` | three devices, up to three FortiAnalyzers, deadline 5, calls up to 2 and 4: the deadline falls before, between and inside searches |
| `session` | `KnowsOldLogouts`, `RevokedWithinGrace`, `NoFalseReject`, `ProbesSpaced`, `LastGoodAdvances` | one user, two threads, cache 2, grace 3, retry 1, six ticks: a fetch, a failure, the end of the grace and a retry fit |
| `health` | `CycleRefreshesAll`, `FirstViewCurrent`, `EditsNotLost`, `StoreNeverGoesBack`, `DashboardComplete` and the liveness property `EditReachesStore` | two labels, two hosts, two administrators, two requests of the dashboard; six scenarios: polls and requests over time with a restart of either process, two edits at once, an edit cut off by a restart, and overlapping polls with an edit or with time passing |
| `search` | `TypeOK`, `CompleteOrSaysSo`, `ShownAsRefined`, `PageHasRows`, `WithinBudget` and the liveness property `ButtonComesBack` | three logs and a limit of two, so that results are cut; page sizes one and two; a term that is no regular expression; timeout 2, posts and sleep up to 1: the deadline falls before, on and inside a fetch |
| `threat` | `UndisturbedPollExact`, `DownBracketed`, `NumbersPossible`, `TopListBounded` | two FortiAnalyzers, three signatures and top lists of one, two tunnels, a day of four ticks with every time of day; the logs a target holds at first are chosen (alerts, sessions, a login, up to two detections per signature), and one more log of one kind and one odd answer may come during a poll, since kinds touch different numbers; two polls with a restart |
| `guard` | `FailuresBounded`, `RefusalJustified` and the liveness property `LockoutEnds` | two threads, two names and one address, limits of one (a success clears the address and its own name, so either limit can be the one that refuses), a window of two ticks, one remembered name, so that a success between test and record evicts the other name; time does not end |
| `access` | `ServedWasGranted`, `RefusedForCause`, `DeletedStaysDeleted` | one user, group and tab, two threads, three requests (a login and two that overlap), two runs of `manage_users.py` that may overlap, one restart; the initial files are arbitrary |

`access`, `health` and `threat` stop when their bounded requests, edits or events
are used up, so deadlock is not checked there.

Four runs show a disagreement between the code and its own words (`findings`):

* `stats_stale`: a web process reads the store once in its life, so its answers
  fall behind "the collector's most recent result".
* `session_revoked`: the clock offset is taken from a `now` read before the lock
  and the fetch, so it contains their latency, and a logout shortly after the
  login is taken for an earlier one.
* `access_put`: a membership pushed between the read and the write of a PUT
  without members is undone, although absent fields "keep their current value".
* `threat_hours`: the logins outside business hours are those of 24 hours less
  those of today's hours so far, so until today's hours end, yesterday's business
  logins count as outside; the comment speaks of "the few hours after midnight".

`CycleRefreshesAll` promises entries of this cycle only while polls do not
overlap: the code records an answer when it comes, so of two overlapping cycles
the one that asked first may record last. What it promises in any case is an
entry for every target of the list.

`StoreCoversHistory` and `FeedSpec` are stated for polls that do not overlap, and
the second for the split deployment. Outside that they fail: with `MayOverlap` the
older of two polls may write the store last, and in the inline deployment a
process shows what it has polled before it has stored it.

Some properties say exactly how far a promise goes. `FailuresBounded`: the comment
at `auth_routes.py:14-15` states ten and five attempts per window, which holds
while attempts come one after the other; attempts that are under way at once all
pass the test before one of them is recorded, and exceed the limit by up to one
for every other thread. `RevokedWithinGrace`: a process that has not reached
4tSuite since it started accepts every session for one grace from its start, as
the checker's own comment says. `ServedWasGranted`: an SSO session without an
account is served on a role that `users.json` gave its user at some earlier time.
`CompleteOrSaysSo` leaves out a search whose period could not be converted, or
whose `return-lines` were wrong. `FirstViewCurrent` speaks of the request that
finds the cache empty: a later one gets what is there, however old, and a target
added since then stays gray until the web process restarts. How long a log usage
request takes is no property of a run: the comment at `external_api_routes.py:33-36`
wants it to stay below the consumer's 90 seconds, but after the deadline of 75 one
search and a device list per FortiAnalyzer may still be under way, and the length
of each is bounded by the appliance and not by the timeouts of `requests`, which
are per connect and read. What holds for any lengths is `BoundedOverrun`, proved
in `LogUsageProofs`.

### Fairness

`StatsCache!Fairness` is weak fairness of every thread's next step (the operating
system schedules threads, APScheduler keeps starting the interval job, clients
keep asking) and strong fairness of three things the code cannot force but its
operation presumes, of the interval job and of every request thread: a target
that can be polled again and again answers some time (`SomeTargetAnswers`), and
SQLite does not refuse every write (`WriteStore`) nor every read of a request
(`ReadStore`). `FazHealth!FairSpec` has the weak fairness, that of a save that
began, and the strong fairness of writing the store: a failing target is recorded
as such. `LogSearch!FairSpec` has weak fairness of the
request thread, every post of which ends some time, and of the browser's
delivery of an answer that has come; nothing is assumed of the appliance, as the
deadline ends a task that never completes. `LoginGuard!FairSpec` has weak fairness of
time and of a request that began (a password check ends). Nothing is assumed of restarts, edits,
failures and, elsewhere, the clock.

## 4. The proofs

| Module | Theorems | Assumes |
|---|---|---|
| `StatsCacheProofs` | `TypeCorrect`, `AlwaysHonest`, `AlwaysDetailsOnceStored` | the module's `ASSUME` |
| | `StoreAlwaysCoversHistory`, `ImplementsFeed` | polls do not overlap; for the second also `Poller \notin Web` (the split deployment) |
| `SessionCheckerProofs` | `TypeCorrect`, `AlwaysKnowsOldLogouts`, `LogoutTakesEffect`, `NeverFalseReject`, `ProbesAreSpaced`, `LastGoodMonotone` | the module's `ASSUME` |
| `LogUsageProofs` | `AlwaysAccounted`, `NeverSearchedTwice`, `NotFoundMeansAsked`, `OverrunIsBounded` | the module's `ASSUME` |
| `LogSearchProofs` | `TypeCorrect`, `SearchWithinBudget`, `PagesHaveRows`, `RefinementShown`, `ResultsComplete` | the module's `ASSUME` |
| `FazHealthProofs` | `TypeCorrect`, `CyclesComplete`, `FirstViewsAreCurrent`, `NoEditIsLost`, `StoreMovesForward`, `DashboardIsComplete` | the module's `ASSUME` |
| `AccessProofs` | `TypeCorrect`, `GrantsAreReal`, `RefusalsAreReal`, `NoGroupComesBack` | the module's `ASSUME` |
| `LoginGuardProofs` | `LimitHolds`, `RefusalsHaveCause` | the module's `ASSUME` |
| `ThreatStatsProofs` | `NumbersArePossible`, `UndisturbedIsExact`, `DownIsBracketed`, `TopListIsBounded` | the module's `ASSUME` |

Every safety invariant and every action property that a run checks is stated by
one of these theorems. The assumptions say that the constants are of their kind,
that sets that are counted are finite, and that initial conditions are possible
ones.

All hold for every value of the constants, the bounds included.

* *Honest* follows a snapshot along its way: `HonestInv` says it of the value a
  poll thread carries and of the row a request fetched too, and needs that a
  thread past `Collect` carries a real snapshot (`CarriesSnapshot`).
* *DetailsOnceStored* needs what a request knows at each step: `Informed` says
  that a request that began with a filled store never reaches the fall back.
* *StoreCoversHistory* is not inductive: `OrderInv` adds that one poll runs at a
  time, that its snapshot is not older than the store before it stored it, and
  that it equals the store until it has added its row.
* *ImplementsFeed* adds `FeedInv`: what a web process has in memory, and what a
  request has fetched, lies between the store at the process's start and the
  store, and only a process that started with an empty store asks the history,
  which `StoreCoversHistory` keeps below the store. Each step of `StatsCache` is
  then an `Advance`, an `Observe`, a `Restart` or a stutter of `SnapshotFeed`.
* *The session checker's* `Inv` has three parts: times lie in the past
  (`TimeInv`); the holder of the lock is alone and still has reason to fetch, and
  a thread with an old `now` finds a fresh cache (`LockInv`), which is why
  `last_good` never goes back, and why the date a failed fetch leaves behind keeps
  the queue of threads from asking one after the other; the measured offset errs on one side only
  (`OffsetInv`), which is why nobody is rejected without cause.
* *The log usage search's* `Inv` is the bookkeeping (every device is remaining,
  queried or in error) with what has been asked so far (`AskedInv`); the bound on
  the overrun grows by one device list per target (`OverrunInv`).
* *The log search's* `Inv` has two halves: `BudgetInv` gives each phase of the
  request its share of the budget, and `GoodTable` is what every operation of the
  page preserves; that the last page begins before the last row
  (`LastPageBegins`) is the arithmetic behind `PagesHaveRows`.

* *ResultsComplete* follows the rows from the appliance to the table
  (`CompleteInv`): an answer is the newest logs up to the limit, so it holds all
  of them or as many as the limit, and the page says so in the second case.
* *The health cache's* `Inv` has three arguments over common types. `EditInv`:
  whoever holds the web process's lock has read the file as it is, unless a
  restart cut off a save, so an edit changes nothing but its own label.
  `CycleInv`: of every target on its list a cycle has still to ask, has recorded
  or holds the result. `AgeInv`: without overlap, the store is not newer than what
  may be written into it. `DueInv`: what a request is going to show, wherever it
  has got to, is not older than what is due to it, since the row it has fetched is
  laid over whatever other requests have filled in meanwhile.
* *A request's* permission rests on several readings of two files at different
  times. `SeenInv` (in `AccessProofs`) says, for each place in the handler, which
  facts must be in `seen[t]` once the thread is past it, and `FlowInv` how a
  request may have got there; a grant or a refusal is then a fact of the set.
  `CarriedInv` says that a session with the role of an admin, in a cookie or in a
  request, is one of a user in `admins`.
* *The login limiter* counts with sums over ages. `FailuresBounded` is inductive
  with the types and `RequestInv` (one name and address per request): what is on
  record within the window and the attempts under way that passed the test are together at most the limit, or, if the last one to pass met another
  under way, that and one for every other thread. That is kept because whoever
  passes the test sees fewer failures than the limit.
  `RefusalsHaveCause` needs `CauseInv`, which compares record and truth age by
  age: each failure on record or about to be recorded was a refused password,
  unless as many were refused at that age as the limit already.
* *The threat statistics'* `Inv` follows a poll question by question. `TypeInv`
  holds the arithmetic that never depends on luck: blocked is at most
  detections in every log, answer and snapshot, since both are taken from one
  row, and tunnels up are among the tunnels. `ExactInv` says that without noise
  each answer so far is what one look at the target shows (`Known`); `StayInv`
  that what stayed up or down since the poll began is seen so (`Brackets`);
  `SnapInv` that the snapshot about to be published is the merged one. The
  theorems are then facts about sums: a table of counts has the same total by
  rows and by columns (alerts by severity), a sum over the targets splits into
  those whose list shows a signature and the others (`TopListIsBounded`), and
  the logins of the last day outside today's hours so far are those outside the
  hours and those of yesterday's hours (`LateFact`).

Sums over a finite set are `MapThenSumSet` of the community modules, which is a
recursive function chosen by `CHOOSE`. What holds of all sums (that any element
may be taken out first, that they are monotone, split and can be exchanged) is
proved without an induction rule: the subsets for which it fails have a minimal
one, since strict inclusion of finite sets is well-founded (`HasMinimal`), and
taking its chosen element out gives a smaller one.

Only model-checked: the liveness properties `EveryClientGetsDetails`,
`EditReachesStore`, `ButtonComesBack` and `LockoutEnds`, which need fairness and
are out of the prover's reach. In `LoginGuard`, that the list of remembered names
has no duplicates is not proved (it would need an induction over `SelectSeq`);
neither theorem of that module depends on it.

## 5. What is left out

Addresses, texts, HTML, logging, SNMP and JSON-RPC encoding; passwords,
signatures and token scopes (decided by libraries, without state of this
program); the three group fields that are stored like the tabs; the lifetime of
a session, which is a choice in `Access!Expire`; clocks that step back; reports
cut off at a thousand rows. Two overlapping runs of `manage_users.py` are in the
model, and may undo each other as they may in the code; no property is stated
about them.

Some behaviours are in the model without a property, because the code does not
promise anything there: a save of `faz_targets.json` cut off by a restart loses
the targets (`acked.intact`); a collector restarted at the moment of a save may
store an empty snapshot until the next interval; a cycle in which only some
targets answered publishes the lower sums; a count in an unknown shape is zero;
hours that wrap around midnight count as not started; and the number of names
the login limiter remembers, whose limit is tested when the name is already
there.

Not modelled as components: host metrics, the log buffer, API tokens and settings
(one function under one lock or one SQL statement each, so that a model would
repeat the code), SSO token verification, CSRF (stateless), the device picker,
columns and exports of the search page (the picker's answers may arrive out of
order, but nothing says what it shows meanwhile).

## 6. Plan

Done: the caches with their store and history, the log usage search, the session
checker, the health cache with the target file, accounts, groups and sessions,
the log search, the threat statistics, the login limiter; proofs for all of
them. Left, in this order:

1. `StatsCache`'s protocol for the threat statistics' snapshots, by an instance
   of `ThreatStats` that shares its store and history, so that overlapping polls
   and the meaning of the numbers are in one model.
