------------------------------ MODULE LogSearch ------------------------------
(***************************************************************************)
(* One user's Log Search page, from the Search button to the table and     *)
(* back:                                                                   *)
(*   - the page, app/static/js/log_search.js: runSearch, renderResults,    *)
(*     the paging controls and the box that refines the rows shown;        *)
(*   - the route api_search of app/routes/log_search_routes.py with the    *)
(*     checks of app/log_search_filters.py;                                *)
(*   - FAZClient.local_time_range and search_logs, app/faz_client.py,      *)
(*     which submit a task to the FortiAnalyzer and poll it.               *)
(*                                                                         *)
(* A log is a number, the newest being 1; a box of the form is the set of  *)
(* the kinds of its entries.  The button is disabled while a search is     *)
(* under way, so a page has one at a time; the table can be used meanwhile.*)
(* Who may search which target is the subject of Access and is a choice    *)
(* here.  Columns, exports and the device picker are left out.             *)
(***************************************************************************)
EXTENDS Integers, FiniteSets, FiniteSetsExt

CONSTANTS
    MaxLogs,          \* bound on the logs the appliance holds
    Limit,            \* LOG_SEARCH_MAX_RESULTS
    Timeout,          \* LOG_SEARCH_TIMEOUT, in ticks
    PollInterval,     \* LOG_SEARCH_POLL_INTERVAL, in ticks
    PostMax,          \* longest a post to the appliance takes, in ticks
    PageSizes,        \* options of pageSizeSelect
    DefaultPageSize,  \* the one selected at first
    Terms,            \* texts the user may type to refine the rows
    BadRegex,         \* the ones that are no regular expression
    MatchedBy         \* MatchedBy[t]: the logs that t matches

Logs == 1..MaxLogs

ASSUME LogSearchAssumption ==
    /\ MaxLogs \in Nat
    /\ {Limit, Timeout, PollInterval, PostMax} \subseteq Nat \ {0}
    /\ PageSizes \subseteq Nat \ {0}
    /\ DefaultPageSize \in PageSizes
    /\ "" \notin Terms
    /\ BadRegex \subseteq Terms
    /\ MatchedBy \in [Terms -> SUBSET Logs]

VARIABLES
    searching,    \* the Search button is disabled
    searchError,  \* the box searchError is shown
    req,          \* the request of the last search
    table         \* the results on the page

vars == <<searching, searchError, req, table>>

-----------------------------------------------------------------------------
(* The form and the request *)

\* A box is empty, or has entries that name no address (ANY, ALL), that name
\* one, or that cannot be parsed.
Boxes == SUBSET {"any", "ip", "bad"}

\* The other inputs: the two times, the ports and the extra filters.
Forms == [src : Boxes, dst : Boxes, rest : {"ok", "bad"}]

\* parse_ip_entries: the clauses of a box; it raises on an entry it cannot parse.
ParseFails(box) == "bad" \in box
Clauses(box) == box \cap {"ip"}

\* A fetched task, or an error of any kind.
NoResult == [ok |-> FALSE, rows |-> {}, truncated |-> FALSE]
Results == [ok : BOOLEAN, rows : SUBSET Logs, truncated : BOOLEAN]

\* form: what was sent.  hits: the logs of the period the user asked for.
\* sound (auxiliary): the appliance was given that period in its own time zone
\* and reported no fewer lines than it returned.
\* spent: ticks since the route began.  deadline: when search_logs gives up.
NoForm == [src |-> {}, dst |-> {}, rest |-> "ok"]
IdleRequest == [pc |-> "none", form |-> NoForm, hits |-> {}, sound |-> TRUE,
                spent |-> 0, deadline |-> 0, result |-> NoResult]

\* The rows a fetch with a limit returns, newest first.
Newest(hits) == {l \in hits : Cardinality({m \in hits : m < l}) < Limit}

-----------------------------------------------------------------------------
(* The table *)

NoRefine == [term |-> "", mode |-> "contains", negate |-> FALSE]

Init ==
    /\ searching = FALSE
    /\ searchError = FALSE
    /\ req = IdleRequest
    /\ table = [rows |-> {}, visible |-> {}, banner |-> FALSE, page |-> 1,
                pageSize |-> DefaultPageSize, refine |-> NoRefine,
                refineError |-> FALSE]

\* Math.max(1, Math.ceil(visibleRows.length / pageSize))
TotalPages_NoFloor(t) ==
    (Cardinality(t.visible) + t.pageSize - 1) \div t.pageSize

TotalPages(t) ==
    Max({1, (Cardinality(t.visible) + t.pageSize - 1) \div t.pageSize})

GoToPage(t, p) == [t EXCEPT !.page = Min({Max({1, p}), TotalPages(t)})]

\* rowMatches for every row.  It raises, once there is a row to try, on a term
\* that is no regular expression.
Kept(rows, f) ==
    IF f.term = "" THEN rows
    ELSE IF f.negate THEN rows \ MatchedBy[f.term]
    ELSE rows \cap MatchedBy[f.term]

Raises(rows, f) == rows # {} /\ f.mode = "regex" /\ f.term \in BadRegex

ApplyRefineFilter_KeepsPage(t, f) ==
    IF Raises(t.rows, f)
    THEN [t EXCEPT !.refine = f, !.refineError = TRUE]
    ELSE [t EXCEPT !.refine = f, !.refineError = FALSE,
                   !.visible = Kept(t.rows, f)]

ApplyRefineFilter(t, f) ==
    IF Raises(t.rows, f)
    THEN [t EXCEPT !.refine = f, !.refineError = TRUE]
    ELSE [t EXCEPT !.refine = f, !.refineError = FALSE,
                   !.visible = Kept(t.rows, f), !.page = 1]

RenderResults_KeepsRefine(t, result) ==
    [t EXCEPT !.rows = result.rows, !.visible = result.rows,
              !.refineError = FALSE, !.page = 1, !.banner = result.truncated]

RenderResults(t, result) ==
    [t EXCEPT !.rows = result.rows, !.visible = result.rows,
              !.refine = NoRefine, !.refineError = FALSE,
              !.page = 1, !.banner = result.truncated]

\* The user types into the box, picks a mode or ticks the negation.
Refine ==
    /\ \/ \E s \in Terms \cup {""} :
            table' = ApplyRefineFilter(table, [table.refine EXCEPT !.term = s])
       \/ \E m \in {"contains", "regex"} :
            table' = ApplyRefineFilter(table, [table.refine EXCEPT !.mode = m])
       \/ table' = ApplyRefineFilter(table, [table.refine EXCEPT !.negate = ~@])
    /\ UNCHANGED <<searching, searchError, req>>

\* The four page buttons, each disabled where it leads nowhere.
TurnPage ==
    /\ \/ /\ table.page > 1
          /\ \E p \in {1, table.page - 1} : table' = GoToPage(table, p)
       \/ /\ table.page < TotalPages(table)
          /\ \E p \in {table.page + 1, TotalPages(table)} :
                table' = GoToPage(table, p)
    /\ UNCHANGED <<searching, searchError, req>>

PickPageSize ==
    /\ \E n \in PageSizes :
          table' = GoToPage([table EXCEPT !.pageSize = n], 1)
    /\ UNCHANGED <<searching, searchError, req>>

-----------------------------------------------------------------------------
(* The search *)

RunSearch ==
    /\ ~searching
    /\ searching' = TRUE
    /\ searchError' = FALSE
    /\ \E f \in Forms : req' = [IdleRequest EXCEPT !.pc = "sent", !.form = f]
    /\ UNCHANGED table

\* The thread of the request goes on at pc, d ticks later, or answers.
Continue(pc, d) == req' = [req EXCEPT !.pc = pc, !.spent = @ + d]
Answer(result, d) ==
    req' = [req EXCEPT !.pc = "answered", !.result = result, !.spent = @ + d]

\* FAZ_REQUEST_TIMEOUT bounds the connection and each wait for bytes, not the
\* whole post: how long one takes is a constant of the model.
PostTime == 0..PostMax

\* The checks api_search makes of a form.
Rejected(f) ==
    \/ f.rest = "bad"
    \/ ParseFails(f.src) \/ ParseFails(f.dst)
    \/ Clauses(f.src) = {} /\ Clauses(f.dst) = {}

\* The checks before the appliance is contacted.  allowed: the user may see the
\* target and the target exists.  The form is not looked at again.
ApiSearch ==
    /\ req.pc = "sent"
    /\ \E allowed \in BOOLEAN :
          IF allowed /\ ~Rejected(req.form)
          THEN req' = [req EXCEPT !.pc = "zone", !.form = NoForm]
          ELSE Answer(NoResult, 0)
    /\ UNCHANGED <<searching, searchError, table>>

\* local_time_range asks for the time zone.  If it cannot be had, the period is
\* sent as it is, in UTC, which the appliance takes for its local time.
LocalTimeRange ==
    /\ req.pc = "zone"
    /\ \E d \in PostTime, known \in BOOLEAN :
          req' = [req EXCEPT !.pc = "submit", !.spent = @ + d, !.sound = known]
    /\ UNCHANGED <<searching, searchError, table>>

\* search_logs up to its loop: the task is created, or the call fails or
\* returns no task ID.
Submit ==
    /\ req.pc = "submit"
    /\ \E d \in PostTime :
          \/ \E h \in SUBSET Logs :
                req' = [req EXCEPT !.pc = "poll", !.spent = @ + d, !.hits = h,
                                   !.deadline = req.spent + d + Timeout]
          \/ Answer(NoResult, d)
    /\ UNCHANGED <<searching, searchError, table>>

\* The logs the task may find: the ones asked for, or any if it was given
\* another period.
Reach == IF req.sound THEN req.hits ELSE Logs

\* One turn of the loop.  The task is still running, with the rows found so
\* far, or at 100 percent; or the call fails.  lines: its "return-lines", which
\* decides about the banner.
Done_AnyRows(percentage, rows) == percentage = 100 \/ rows # {}
Done(percentage, rows) == percentage >= 100

Expired_Never == FALSE
Expired == req.spent >= req.deadline

Fetch(d) ==
    \/ \E percentage \in {50, 100}, found \in SUBSET Reach, lines \in 0..Limit :
          /\ percentage = 100 /\ req.sound => found = req.hits
          /\ LET rows == Newest(found) IN
             IF Done(percentage, rows)
             THEN req' = [req EXCEPT
                            !.pc = "answered", !.spent = @ + d,
                            !.sound = @ /\ lines >= Cardinality(rows),
                            !.result = [ok |-> TRUE, rows |-> rows,
                                        truncated |-> lines >= Limit]]
             ELSE Continue("sleep", d)
    \/ Answer(NoResult, d)

Poll ==
    /\ req.pc = "poll"
    /\ IF Expired THEN Answer(NoResult, 0)
                  ELSE \E d \in PostTime : Fetch(d)
    /\ UNCHANGED <<searching, searchError, table>>

Sleep ==
    /\ req.pc = "sleep"
    /\ Continue("poll", PollInterval)
    /\ UNCHANGED <<searching, searchError, table>>

\* The rest of runSearch.  The page goes on showing what this search was about.
Settled == [IdleRequest EXCEPT !.hits = req.hits, !.sound = req.sound]

TakeAnswer_NoFinally ==
    /\ req.pc = "answered"
    /\ IF req.result.ok
       THEN /\ table' = RenderResults(table, req.result)
            /\ searching' = FALSE
            /\ UNCHANGED searchError
       ELSE /\ searchError' = TRUE
            /\ UNCHANGED <<table, searching>>
    /\ req' = Settled

TakeAnswer ==
    /\ req.pc = "answered"
    /\ IF req.result.ok
       THEN table' = RenderResults(table, req.result) /\ UNCHANGED searchError
       ELSE searchError' = TRUE /\ UNCHANGED table
    /\ searching' = FALSE
    /\ req' = Settled

\* fetch rejects, or the body is no JSON: the connection or the server failed.
\* A thread that is left behind goes on with nobody to answer.
LoseAnswer ==
    /\ searching
    /\ searching' = FALSE
    /\ searchError' = TRUE
    /\ req' = Settled
    /\ UNCHANGED table

ServerStep == ApiSearch \/ LocalTimeRange \/ Submit \/ Poll \/ Sleep

Next ==
    \/ RunSearch
    \/ ServerStep
    \/ TakeAnswer
    \/ LoseAnswer
    \/ Refine
    \/ TurnPage
    \/ PickPageSize

Spec == Init /\ [][Next]_vars

\* A request thread runs on, every post ends, and the browser delivers an
\* answer that has come.
FairSpec == Spec /\ WF_vars(ServerStep) /\ WF_vars(TakeAnswer)

-----------------------------------------------------------------------------
(* Properties *)

Phases == {"none", "sent", "zone", "submit", "poll", "sleep", "answered"}
Requests == [pc : Phases, form : Forms, hits : SUBSET Logs, sound : BOOLEAN,
             spent : Nat, deadline : Nat, result : Results]
Refinements == [term : Terms \cup {""}, mode : {"contains", "regex"},
                negate : BOOLEAN]
Tables == [rows : SUBSET Logs, visible : SUBSET Logs, banner : BOOLEAN,
           page : Nat \ {0}, pageSize : PageSizes, refine : Refinements,
           refineError : BOOLEAN]

\* The longest a search may take: the time zone, the submission and the last
\* fetch may each be as slow as a post can be, the last fetch starting just
\* before the deadline, and a sleep may follow it.
Budget == 3 * PostMax + Timeout + PollInterval

\* Every variable has a value of its kind; pages count from 1, also when there
\* is nothing to show (totalPages).
TypeOK ==
    /\ searching \in BOOLEAN
    /\ searchError \in BOOLEAN
    /\ req \in Requests
    /\ table \in Tables

\* Once a search has ended without an error, the rows of the page are all the
\* logs it matches, or the banner says that there may be more (search_logs
\* polls until 100 percent, renderResults replaces the rows and the banner).
\* Two things the page cannot see are excepted: local_time_range sent the period
\* unconverted, or the appliance's return-lines was below the rows it returned.
CompleteOrSaysSo ==
    ~searching /\ ~searchError /\ req.sound =>
        /\ table.rows \subseteq req.hits
        /\ table.rows # req.hits =>
              table.banner /\ Cardinality(table.rows) = Limit

\* Unless the box says the expression is invalid, the rows shown are those of
\* the last result that the refine controls on the page select, whatever
\* arrives while the user is typing (applyRefineFilter, renderResults).
ShownAsRefined ==
    ~table.refineError => table.visible = Kept(table.rows, table.refine)

\* The page that is open has rows whenever there are rows to show: renderPage
\* slices visibleRows by currentPage without looking, so each way to shrink the
\* list or the pages must move currentPage back.
PageHasRows ==
    table.visible # {} =>
        (table.page - 1) * table.pageSize < Cardinality(table.visible)

\* A request thread is held for less than the configured timeout, one sleep and
\* three posts, however many fetches a slow task takes and however long a post
\* is (search_logs tests its deadline before each fetch).
WithinBudget == req.spent < Budget

\* The Search button comes back after every search: runSearch re-enables it in
\* a finally clause and every path of the route ends in an answer.
ButtonComesBack == searching ~> ~searching
==============================================================================
