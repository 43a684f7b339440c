--------------------------- MODULE LogSearchProofs ---------------------------
(* Theorems about LogSearch, for any number of logs, any limit, timeouts and  *)
(* page sizes, and any terms.  The argument has two halves that do not meet:  *)
(* the request, followed from phase to phase, and the table, where each       *)
(* operation of the page returns a good table when it is given one.           *)
EXTENDS LogSearch, FiniteSetTheorems, WellFoundedInduction, TLAPS

\* How much of the budget may be gone in each phase of a request.
BudgetInv ==
    /\ req.pc \in {"none", "sent", "zone"} => req.spent = 0
    /\ req.pc = "submit" => req.spent <= PostMax
    /\ req.pc \in {"poll", "sleep"} =>
          req.deadline <= 2 * PostMax + Timeout
    /\ req.pc = "poll" =>
          req.spent < req.deadline + PostMax + PollInterval
    /\ req.pc = "sleep" => req.spent < req.deadline + PostMax
    /\ req.spent < Budget

\* A table whose page has rows and whose rows are the ones refined to.
GoodTable(t) ==
    /\ t \in Tables
    /\ ~t.refineError => t.visible = Kept(t.rows, t.refine)
    /\ t.visible # {} => (t.page - 1) * t.pageSize < Cardinality(t.visible)

RequestInv == req \in Requests /\ BudgetInv

Inv ==
    /\ searching \in BOOLEAN /\ searchError \in BOOLEAN
    /\ RequestInv
    /\ GoodTable(table)

-----------------------------------------------------------------------------
(* The table *)

\* The bounds are positive integers.
LEMMA Positive ==
    /\ MaxLogs \in Nat
    /\ Limit \in Nat \ {0}
    /\ Timeout \in Nat \ {0}
    /\ PollInterval \in Nat \ {0}
    /\ PostMax \in Nat \ {0}
    /\ DefaultPageSize \in Nat \ {0}
    /\ \A s \in PageSizes : s \in Nat \ {0}
    BY LogSearchAssumption, Zenon

\* The rows shown are finitely many.
LEMMA RowCount ==
    ASSUME NEW S \in SUBSET Logs
    PROVE  Cardinality(S) \in Nat /\ (S # {} => Cardinality(S) > 0)
<1>1. IsFiniteSet(Logs)
    BY Positive, FS_Interval DEF Logs
<1>2. IsFiniteSet(S)
    BY <1>1, FS_Subset
<1> QED
    BY <1>2, FS_CardinalityType, FS_EmptySet

\* The larger and the smaller of two integers.
LEMMA MaxMinOfTwo ==
    ASSUME NEW a \in Int, NEW b \in Int
    PROVE  /\ Max({a, b}) = IF a >= b THEN a ELSE b
           /\ Min({a, b}) = IF a <= b THEN a ELSE b
<1>1. /\ \E x \in {a, b} : \A y \in {a, b} : x >= y
      /\ \E x \in {a, b} : \A y \in {a, b} : x <= y
    OBVIOUS
<1>2. Max({a, b}) \in {a, b} /\ \A y \in {a, b} : Max({a, b}) >= y
    BY <1>1 DEF Max
<1>3. Min({a, b}) \in {a, b} /\ \A y \in {a, b} : Min({a, b}) <= y
    BY <1>1 DEF Min
<1> QED
    BY <1>2, <1>3

\* The last page begins before the last row (totalPages).
LEMMA LastPageBegins ==
    ASSUME NEW c \in Nat \ {0}, NEW s \in Nat \ {0}
    PROVE  /\ (c + s - 1) \div s \in Nat \ {0}
           /\ ((c + s - 1) \div s - 1) * s < c
<1> DEFINE q == (c + s - 1) \div s
<1>1. q \in Int /\ q * s <= c + s - 1 /\ c + s - 1 < q * s + s
    BY Z3
<1>2. q >= 1
    <2> SUFFICES ASSUME q <= 0 PROVE FALSE
        BY <1>1
    <2>1. q * s <= 0
        BY <1>1
    <2> QED
        BY <1>1, <2>1
<1>3. (q - 1) * s = q * s - s
    BY <1>1
<1> QED
    BY <1>1, <1>2, <1>3

\* totalPages is positive and its last page has rows if there are any.
LEMMA TotalPagesFact ==
    ASSUME NEW t \in Tables
    PROVE  /\ TotalPages(t) \in Nat \ {0}
           /\ t.visible # {} =>
                (TotalPages(t) - 1) * t.pageSize < Cardinality(t.visible)
<1> DEFINE c == Cardinality(t.visible)
           s == t.pageSize
           q == (c + s - 1) \div s
<1>1. s \in Nat \ {0} /\ t.visible \in SUBSET Logs
    BY Positive DEF Tables
<1>2. c \in Nat /\ (t.visible # {} => c > 0)
    BY <1>1, RowCount
<1>3. q \in Int
    BY <1>1, <1>2
<1>4. TotalPages(t) = IF 1 >= q THEN 1 ELSE q
    BY <1>3, MaxMinOfTwo DEF TotalPages
<1>5. c > 0 => q \in Nat \ {0} /\ (q - 1) * s < c
    BY <1>1, <1>2, LastPageBegins
<1>6. TotalPages(t) \in Nat \ {0}
    BY <1>3, <1>4
<1>7. c > 0 => TotalPages(t) = q
    BY <1>4, <1>5
<1> HIDE DEF q
<1> QED
    BY <1>2, <1>5, <1>6, <1>7

\* goToPage opens a page that has rows, whichever page was asked for.
LEMMA GoToPageGood ==
    ASSUME NEW t \in Tables, NEW p \in Int,
           ~t.refineError => t.visible = Kept(t.rows, t.refine)
    PROVE  GoodTable(GoToPage(t, p))
<1> DEFINE n == TotalPages(t)
           k == Min({Max({1, p}), n})
           s == t.pageSize
           c == Cardinality(t.visible)
<1>1. n \in Nat \ {0} /\ (t.visible # {} => (n - 1) * s < c)
    BY TotalPagesFact
<1>2. s \in Nat \ {0} /\ c \in Nat
    BY Positive, RowCount DEF Tables
<1> HIDE DEF n, c
<1>3. Max({1, p}) \in Nat \ {0}
    BY MaxMinOfTwo
<1>4. k \in Nat \ {0} /\ k <= n
    <2>1. \A a, b \in Int : Min({a, b}) = IF a <= b THEN a ELSE b
        BY MaxMinOfTwo
    <2>2. k = IF Max({1, p}) <= n THEN Max({1, p}) ELSE n
        <3>1. Max({1, p}) \in Int /\ n \in Int
            BY <1>1, <1>3
        <3> QED
            BY <2>1, <3>1, Zenon DEF k
    <2> HIDE DEF k
    <2> QED
        BY <1>1, <1>3, <2>2
<1>5. GoToPage(t, p) = [t EXCEPT !.page = k]
    BY DEF GoToPage, n
<1> HIDE DEF k
<1>6. (k - 1) * s <= (n - 1) * s
    <2>1. PICK e \in Nat : n = k + e
        BY <1>1, <1>4
    <2>2. (n - 1) * s = (k - 1) * s + e * s /\ e * s >= 0
        BY <1>2, <1>4, <2>1
    <2> QED
        BY <1>1, <1>2, <1>4, <2>2
<1>7. t.visible # {} => (k - 1) * s < c
    BY <1>1, <1>2, <1>4, <1>6
<1>8. [t EXCEPT !.page = k] \in Tables
    BY <1>4 DEF Tables
<1> QED
    BY <1>5, <1>7, <1>8 DEF GoodTable, Tables, c

\* The first page has rows if there are any.
LEMMA FirstPageGood ==
    ASSUME NEW t \in Tables, t.page = 1,
           ~t.refineError => t.visible = Kept(t.rows, t.refine)
    PROVE  GoodTable(t)
<1>1. t.visible # {} => Cardinality(t.visible) > 0
    BY RowCount DEF Tables
<1>2. t.pageSize \in Int
    BY Positive DEF Tables
<1>3. (t.page - 1) * t.pageSize = 0
    BY <1>2
<1> QED
    BY <1>1, <1>3 DEF GoodTable

\* applyRefineFilter, whether or not it raises.
LEMMA RefineGood ==
    ASSUME NEW t, GoodTable(t), NEW f \in Refinements
    PROVE  GoodTable(ApplyRefineFilter(t, f))
<1> DEFINE a == ApplyRefineFilter(t, f)
<1>1. t \in Tables
    BY DEF GoodTable
<1>2. CASE Raises(t.rows, f)
    <2>1. a = [t EXCEPT !.refine = f, !.refineError = TRUE]
        BY <1>2 DEF ApplyRefineFilter
    <2> QED
        BY <1>1, <2>1 DEF GoodTable, Tables
<1>3. CASE ~Raises(t.rows, f)
    <2>1. a = [t EXCEPT !.refine = f, !.refineError = FALSE,
                        !.visible = Kept(t.rows, f), !.page = 1]
        BY <1>3 DEF ApplyRefineFilter
    <2>2. Kept(t.rows, f) \in SUBSET Logs
        BY <1>1 DEF Kept, Tables
    <2>3. a \in Tables
        <3> DEFINE P == SUBSET Logs
                   N == Nat \ {0}
        <3>1. Kept(t.rows, f) \in P /\ 1 \in N
            BY <2>2
        <3>2. Tables = [rows : P, visible : P, banner : BOOLEAN, page : N,
                        pageSize : PageSizes, refine : Refinements,
                        refineError : BOOLEAN]
            BY DEF Tables
        <3> HIDE DEF P, N
        <3> QED
            BY <1>1, <2>1, <3>1, <3>2
    <2>4. a.page = 1 /\ a.visible = Kept(a.rows, a.refine)
        BY <1>1, <2>1 DEF Tables
    <2> QED
        BY <2>3, <2>4, FirstPageGood
<1> QED
    BY <1>2, <1>3

\* renderResults, whatever the user has typed meanwhile.
LEMMA RenderGood ==
    ASSUME NEW t \in Tables, NEW r \in Results
    PROVE  GoodTable(RenderResults(t, r))
<1> DEFINE a == RenderResults(t, r)
<1>1. NoRefine \in Refinements /\ NoRefine.term = ""
    BY DEF NoRefine, Refinements
<1>2. r.rows \in SUBSET Logs /\ r.truncated \in BOOLEAN
    BY DEF Results
<1>3. a \in Tables
    <2> DEFINE P == SUBSET Logs
               N == Nat \ {0}
    <2>1. r.rows \in P /\ 1 \in N
        BY <1>2
    <2>2. Tables = [rows : P, visible : P, banner : BOOLEAN, page : N,
                    pageSize : PageSizes, refine : Refinements,
                    refineError : BOOLEAN]
        BY DEF Tables
    <2> HIDE DEF P, N
    <2> QED
        BY <1>1, <1>2, <2>1, <2>2 DEF RenderResults
<1>4. a.page = 1 /\ a.visible = r.rows /\ a.rows = r.rows /\ a.refine = NoRefine
    BY DEF RenderResults, Tables
<1>5. a.visible = Kept(a.rows, a.refine)
    BY <1>1, <1>4 DEF Kept
<1> QED
    BY <1>3, <1>4, <1>5, FirstPageGood

-----------------------------------------------------------------------------
(* The request *)

\* A thread that has d ticks more on it, at another phase or with an answer.
LEMMA RequestUpdate ==
    ASSUME req \in Requests, NEW d \in Nat, NEW pc \in Phases, NEW r \in Results
    PROVE  /\ [req EXCEPT !.pc = pc, !.spent = @ + d] \in Requests
           /\ [req EXCEPT !.pc = pc, !.result = r, !.spent = @ + d] \in Requests
<1>1. req.spent + d \in Nat
    BY DEF Requests
<1> QED
    BY <1>1 DEF Requests

\* NoResult, NoForm and IdleRequest are what they should be.
LEMMA IdleTypes ==
    NoResult \in Results /\ NoForm \in Forms /\ IdleRequest \in Requests
<1>1. NoResult \in Results
    BY DEF NoResult, Results
<1>2. NoForm \in Forms
    BY DEF NoForm, Forms, Boxes
<1>3. IdleRequest \in Requests
    BY <1>1, <1>2 DEF IdleRequest, Requests, Phases
<1> QED
    BY <1>1, <1>2, <1>3

\* The auxiliary note may take either value.
LEMMA UpdateSound ==
    ASSUME NEW q \in Requests, NEW b \in BOOLEAN
    PROVE  [q EXCEPT !.sound = b] \in Requests
    BY Zenon DEF Requests

\* An answer given within the budget keeps the invariant of the request.
LEMMA AnswerKeeps ==
    ASSUME RequestInv, NEW r \in Results, NEW d \in Nat, Answer(r, d),
           req.spent + d < Budget
    PROVE  RequestInv'
<1>1. req \in Requests /\ req.spent \in Nat
    BY DEF RequestInv, Requests
<1>2. req' \in Requests
    BY <1>1, RequestUpdate DEF Answer, Phases
<1>3. req'.pc = "answered" /\ req'.spent = req.spent + d
    BY <1>1 DEF Answer, Requests
<1>4. BudgetInv'
    BY <1>3 DEF BudgetInv, Budget
<1> QED
    BY <1>2, <1>3, <1>4 DEF RequestInv

\* A thread that goes on within the share of its next phase.
LEMMA ContinueKeeps ==
    ASSUME RequestInv, NEW pc \in {"zone", "submit", "poll", "sleep"},
           NEW d \in Nat, Continue(pc, d)
    PROVE  /\ req' \in Requests
           /\ req'.pc = pc
           /\ req'.spent = req.spent + d
           /\ req'.deadline = req.deadline
<1>1. req \in Requests
    BY DEF RequestInv
<1>2. req' \in Requests
    BY <1>1, RequestUpdate, IdleTypes DEF Continue, Phases
<1> QED
    BY <1>1, <1>2 DEF Continue, Requests

\* A search that ends, in whatever way, leaves an idle request.
LEMMA SettledKeeps ==
    ASSUME RequestInv, req' = Settled
    PROVE  RequestInv'
<1>1. req.hits \in SUBSET Logs /\ req.sound \in BOOLEAN
    BY DEF RequestInv, Requests
<1> DEFINE i == [IdleRequest EXCEPT !.hits = req.hits]
<1>2. i \in Requests /\ i.pc = "none" /\ i.spent = 0
    BY <1>1, IdleTypes DEF IdleRequest, Requests
<1>3. req' = [i EXCEPT !.sound = req.sound]
    BY DEF Settled, IdleRequest
<1> HIDE DEF i
<1>4. req' \in Requests /\ req'.pc = "none" /\ req'.spent = 0
    BY <1>1, <1>2, <1>3, UpdateSound DEF Requests
<1>5. BudgetInv'
    BY <1>4, Positive DEF BudgetInv, Budget
<1> QED
    BY <1>4, <1>5 DEF RequestInv

\* A new search begins with nothing spent.
LEMMA RunSearchKeeps ==
    ASSUME RequestInv, RunSearch
    PROVE  RequestInv'
<1>1. PICK f \in Forms : req' = [IdleRequest EXCEPT !.pc = "sent", !.form = f]
    BY DEF RunSearch
<1>2. req' \in Requests /\ req'.pc = "sent" /\ req'.spent = 0
    BY <1>1, IdleTypes DEF IdleRequest, Requests, Phases
<1>3. BudgetInv'
    BY <1>2, Positive DEF BudgetInv, Budget
<1> QED
    BY <1>2, <1>3 DEF RequestInv

\* The checks of the form take no time.
LEMMA ApiSearchKeeps ==
    ASSUME RequestInv, ApiSearch
    PROVE  RequestInv'
<1>1. req.pc = "sent" /\ req.spent = 0 /\ req.spent < Budget
    BY DEF ApiSearch, RequestInv, BudgetInv
<1>2. CASE Answer(NoResult, 0)
    BY <1>1, <1>2, AnswerKeeps, IdleTypes
<1>3. CASE req' = [req EXCEPT !.pc = "zone", !.form = NoForm]
    <2>1. req' \in Requests /\ req'.pc = "zone" /\ req'.spent = 0
        BY <1>1, <1>3, IdleTypes DEF RequestInv, Requests, Phases
    <2>2. BudgetInv'
        BY <1>1, <2>1 DEF BudgetInv, Budget
    <2> QED
        BY <2>1, <2>2 DEF RequestInv
<1> QED
    BY <1>2, <1>3 DEF ApiSearch

\* The time zone takes one post.
LEMMA LocalTimeRangeKeeps ==
    ASSUME RequestInv, LocalTimeRange
    PROVE  RequestInv'
<1>1. PICK d \in PostTime, known \in BOOLEAN :
          req' = [req EXCEPT !.pc = "submit", !.spent = @ + d, !.sound = known]
    BY DEF LocalTimeRange
<1>2. d \in Nat /\ d <= PostMax
    BY Positive DEF PostTime
<1>3. req \in Requests /\ req.pc = "zone" /\ req.spent = 0
    BY DEF LocalTimeRange, RequestInv, BudgetInv
<1>4. req' \in Requests
    <2>1. req.spent + d \in Nat
        BY <1>2, <1>3
    <2>2. [req EXCEPT !.pc = "submit", !.spent = @ + d] \in Requests
        BY <1>3, <2>1 DEF Requests, Phases
    <2>3. req' = [[req EXCEPT !.pc = "submit", !.spent = @ + d] EXCEPT !.sound = known]
        BY <1>1, <1>3 DEF Requests
    <2> QED
        BY <2>2, <2>3, UpdateSound
<1>5. req'.pc = "submit" /\ req'.spent = d
    BY <1>1, <1>2, <1>3 DEF Requests
<1>6. BudgetInv'
    BY <1>2, <1>5, Positive DEF BudgetInv, Budget
<1> QED
    BY <1>4, <1>6 DEF RequestInv

\* The deadline is set after at most two posts.
LEMMA SubmitKeeps ==
    ASSUME RequestInv, Submit
    PROVE  RequestInv'
<1>1. PICK d \in PostTime :
          \/ \E h \in SUBSET Logs :
                req' = [req EXCEPT !.pc = "poll", !.spent = @ + d, !.hits = h,
                                   !.deadline = req.spent + d + Timeout]
          \/ Answer(NoResult, d)
    BY DEF Submit
<1>2. d \in Nat /\ d <= PostMax
    BY Positive DEF PostTime
<1>3. /\ req \in Requests /\ req.pc = "submit"
      /\ req.spent \in Nat /\ req.spent <= PostMax
    BY DEF Submit, RequestInv, BudgetInv, Requests
<1>4. req.spent + d < Budget
    BY <1>2, <1>3, Positive DEF Budget
<1>5. CASE Answer(NoResult, d)
    BY <1>2, <1>4, <1>5, AnswerKeeps, IdleTypes
<1>6. ASSUME NEW h \in SUBSET Logs,
             req' = [req EXCEPT !.pc = "poll", !.spent = @ + d, !.hits = h,
                                !.deadline = req.spent + d + Timeout]
      PROVE  RequestInv'
    <2>1. req.spent + d \in Nat /\ req.spent + d + Timeout \in Nat
        BY <1>2, <1>3, Positive
    <2>2. req' \in Requests
        BY <1>3, <1>6, <2>1, IdleTypes DEF Requests, Phases
    <2>3. /\ req'.pc = "poll" /\ req'.spent = req.spent + d
          /\ req'.deadline = req.spent + d + Timeout
        BY <1>3, <1>6 DEF Requests
    <2>4. BudgetInv'
        BY <1>2, <1>3, <1>4, <2>3, Positive DEF BudgetInv
    <2> QED
        BY <2>2, <2>3, <2>4 DEF RequestInv
<1> QED
    BY <1>1, <1>5, <1>6

\* The request once a fetch has returned the last rows.
Fetched(found, lines, d) ==
    [req EXCEPT !.pc = "answered", !.spent = @ + d,
                !.sound = @ /\ lines >= Cardinality(Newest(found)),
                !.result = [ok |-> TRUE, rows |-> Newest(found),
                            truncated |-> lines >= Limit]]

\* What that is, field by field.
LEMMA FetchedFact ==
    ASSUME req \in Requests, NEW found \in SUBSET Reach, NEW lines \in 0..Limit,
           NEW d \in Nat
    PROVE  /\ Fetched(found, lines, d) \in Requests
           /\ Fetched(found, lines, d).pc = "answered"
           /\ Fetched(found, lines, d).spent = req.spent + d
           /\ Fetched(found, lines, d).hits = req.hits
           /\ Fetched(found, lines, d).result.rows = Newest(found)
           /\ Fetched(found, lines, d).result.truncated = (lines >= Limit)
           /\ Fetched(found, lines, d).sound =
                 (req.sound /\ lines >= Cardinality(Newest(found)))
<1>1. Newest(found) \in SUBSET Logs
    BY DEF Newest, Reach, Requests
<1>2. Cardinality(Newest(found)) \in Nat
    BY <1>1, RowCount
<1>3. lines \in Int /\ Limit \in Int
    BY Positive
<1> DEFINE full == lines >= Limit
           honest == req.sound /\ lines >= Cardinality(Newest(found))
           r == [ok |-> TRUE, rows |-> Newest(found), truncated |-> full]
<1>4. full \in BOOLEAN /\ honest \in BOOLEAN
    OBVIOUS
<1>5. Fetched(found, lines, d) =
        [req EXCEPT !.pc = "answered", !.spent = @ + d, !.sound = honest, !.result = r]
    BY DEF Fetched
<1> HIDE DEF full, honest
<1>6. r \in Results /\ r.rows = Newest(found) /\ r.truncated = full
    BY <1>1, <1>4 DEF Results
<1> HIDE DEF r
<1>7. req.spent + d \in Nat
    BY DEF Requests
<1>8. Fetched(found, lines, d) \in Requests
    BY <1>4, <1>5, <1>6, <1>7 DEF Requests, Phases
<1>9. LET q == Fetched(found, lines, d)
      IN  /\ q.pc = "answered" /\ q.spent = req.spent + d /\ q.hits = req.hits
          /\ q.result = r /\ q.sound = honest
    BY <1>5 DEF Requests
<1> QED
    BY <1>6, <1>8, <1>9 DEF full, honest

\* A fetch begins before the deadline and ends within the budget.
LEMMA PollKeeps ==
    ASSUME RequestInv, Poll
    PROVE  RequestInv'
<1>1. /\ req \in Requests /\ req.pc = "poll"
      /\ req.spent \in Nat /\ req.deadline \in Nat
      /\ req.deadline <= 2 * PostMax + Timeout
      /\ req.spent < Budget
    BY DEF Poll, RequestInv, BudgetInv, Requests
<1>2. CASE Expired /\ Answer(NoResult, 0)
    BY <1>1, <1>2, AnswerKeeps, IdleTypes
<1>3. ASSUME ~Expired, NEW d \in PostTime, Fetch(d)
      PROVE  RequestInv'
    <2>1. d \in Nat /\ d <= PostMax /\ req.spent < req.deadline
        BY <1>1, <1>3, Positive DEF PostTime, Expired
    <2>2. req.spent + d < Budget /\ req.spent + d < req.deadline + PostMax
        BY <1>1, <2>1, Positive DEF Budget
    <2>3. CASE Answer(NoResult, d)
        BY <2>1, <2>2, <2>3, AnswerKeeps, IdleTypes
    <2>4. CASE Continue("sleep", d)
        <3>1. /\ req' \in Requests /\ req'.pc = "sleep"
              /\ req'.spent = req.spent + d /\ req'.deadline = req.deadline
            BY <2>1, <2>4, ContinueKeeps
        <3>2. BudgetInv'
            BY <1>1, <2>2, <3>1 DEF BudgetInv, Budget
        <3> QED
            BY <3>1, <3>2 DEF RequestInv
    <2>5. ASSUME NEW found \in SUBSET Reach, NEW lines \in 0..Limit,
                 req' = Fetched(found, lines, d)
          PROVE  RequestInv'
        <3>1. req' \in Requests /\ req'.pc = "answered" /\ req'.spent = req.spent + d
            BY <1>1, <2>1, <2>5, FetchedFact
        <3>2. BudgetInv'
            BY <2>2, <3>1 DEF BudgetInv, Budget
        <3> QED
            BY <3>1, <3>2 DEF RequestInv
    <2> QED
        BY <1>3, <2>3, <2>4, <2>5 DEF Fetch, Fetched
<1> QED
    BY <1>2, <1>3 DEF Poll

\* A sleep follows a fetch that began before the deadline.
LEMMA SleepKeeps ==
    ASSUME RequestInv, Sleep
    PROVE  RequestInv'
<1>1. /\ req.pc = "sleep" /\ Continue("poll", PollInterval)
      /\ req.spent \in Nat /\ req.deadline \in Nat
      /\ req.deadline <= 2 * PostMax + Timeout
      /\ req.spent < req.deadline + PostMax
    BY DEF Sleep, RequestInv, BudgetInv, Requests
<1>2. /\ req' \in Requests /\ req'.pc = "poll"
      /\ req'.spent = req.spent + PollInterval /\ req'.deadline = req.deadline
    BY <1>1, Positive, ContinueKeeps
<1>3. BudgetInv'
    BY <1>1, <1>2, Positive DEF BudgetInv, Budget
<1> QED
    BY <1>2, <1>3 DEF RequestInv

-----------------------------------------------------------------------------
(* The specification *)

\* The page starts with an empty table and no request.
LEMMA InvInit == Init => Inv
<1> SUFFICES ASSUME Init PROVE Inv
    OBVIOUS
<1>1. RequestInv
    <2>1. req \in Requests /\ req.pc = "none" /\ req.spent = 0
        BY IdleTypes DEF Init, IdleRequest
    <2>2. BudgetInv
        BY <2>1, Positive DEF BudgetInv, Budget
    <2> QED
        BY <2>1, <2>2 DEF RequestInv
<1>2. GoodTable(table)
    <2>1. NoRefine \in Refinements /\ NoRefine.term = ""
        BY DEF NoRefine, Refinements
    <2>2. DefaultPageSize \in PageSizes
        BY LogSearchAssumption, Zenon
    <2>3. table \in Tables
        <3> DEFINE P == SUBSET Logs
                   N == Nat \ {0}
        <3>1. {} \in P /\ 1 \in N
            OBVIOUS
        <3>2. Tables = [rows : P, visible : P, banner : BOOLEAN, page : N,
                        pageSize : PageSizes, refine : Refinements,
                        refineError : BOOLEAN]
            BY DEF Tables
        <3> HIDE DEF P, N
        <3> QED
            BY <2>1, <2>2, <3>1, <3>2 DEF Init
    <2>4. table.page = 1 /\ table.visible = Kept(table.rows, table.refine)
        BY <2>1 DEF Init, Kept
    <2> QED
        BY <2>3, <2>4, FirstPageGood
<1>3. searching \in BOOLEAN /\ searchError \in BOOLEAN
    BY Zenon DEF Init
<1> QED
    BY <1>1, <1>2, <1>3 DEF Inv

\* The operations of the page that do not search leave a good table.
LEMMA PageKeeps ==
    ASSUME GoodTable(table), Refine \/ TurnPage \/ PickPageSize
    PROVE  GoodTable(table')
<1>1. table \in Tables /\ table.refine \in Refinements
    BY DEF GoodTable, Tables
<1>2. CASE Refine
    <2>1. \A s \in Terms \cup {""} :
              [table.refine EXCEPT !.term = s] \in Refinements
        BY <1>1 DEF Refinements
    <2>2. \A m \in {"contains", "regex"} :
              [table.refine EXCEPT !.mode = m] \in Refinements
        BY <1>1 DEF Refinements
    <2>3. [table.refine EXCEPT !.negate = ~@] \in Refinements
        BY <1>1 DEF Refinements
    <2>4. \E f \in Refinements : table' = ApplyRefineFilter(table, f)
        BY <1>2, <2>1, <2>2, <2>3 DEF Refine
    <2> QED
        BY <2>4, RefineGood
<1>3. CASE TurnPage
    <2>1. TotalPages(table) \in Int /\ table.page \in Int
        BY <1>1, TotalPagesFact DEF Tables
    <2>2. \E p \in Int : table' = GoToPage(table, p)
        BY <1>3, <2>1 DEF TurnPage
    <2> QED
        BY <1>1, <2>2, GoToPageGood DEF GoodTable
<1>4. CASE PickPageSize
    <2>1. PICK n \in PageSizes :
              table' = GoToPage([table EXCEPT !.pageSize = n], 1)
        BY <1>4 DEF PickPageSize
    <2> DEFINE u == [table EXCEPT !.pageSize = n]
    <2>2. u \in Tables
        BY <1>1 DEF Tables
    <2>3. ~u.refineError => u.visible = Kept(u.rows, u.refine)
        BY <1>1 DEF GoodTable, Tables
    <2> HIDE DEF u
    <2>4. GoodTable(GoToPage(u, 1))
        BY <2>2, <2>3, GoToPageGood
    <2> QED
        BY <2>1, <2>4 DEF u
<1> QED
    BY <1>2, <1>3, <1>4

\* Every step of the page and of the request thread keeps the invariant.
LEMMA InvNext == Inv /\ [Next]_vars => Inv'
<1> SUFFICES ASSUME Inv, [Next]_vars PROVE Inv'
    OBVIOUS
<1> USE DEF Inv
<1>1. CASE RunSearch
    <2>1. RequestInv'
        BY <1>1, RunSearchKeeps
    <2>2. searching' = TRUE /\ searchError' = FALSE /\ table' = table
        BY <1>1 DEF RunSearch
    <2> QED
        BY <2>1, <2>2, Zenon
<1>2. CASE ServerStep
    <2>1. RequestInv'
        BY <1>2, ApiSearchKeeps, LocalTimeRangeKeeps, SubmitKeeps, PollKeeps,
           SleepKeeps DEF ServerStep
    <2>2. UNCHANGED <<searching, searchError, table>>
        BY <1>2 DEF ServerStep, ApiSearch, LocalTimeRange, Submit, Poll, Sleep
    <2> QED
        BY <2>1, <2>2, Zenon
<1>3. CASE TakeAnswer
    <2>1. RequestInv'
        BY <1>3, SettledKeeps DEF TakeAnswer
    <2>2. table' = RenderResults(table, req.result) \/ table' = table
        BY <1>3, Zenon DEF TakeAnswer
    <2>3. table \in Tables /\ req.result \in Results
        BY DEF GoodTable, RequestInv, Requests
    <2>4. GoodTable(table')
        BY <2>2, <2>3, RenderGood
    <2>5. searching' = FALSE /\ (searchError' = TRUE \/ searchError' = searchError)
        BY <1>3, Zenon DEF TakeAnswer
    <2> QED
        BY <2>1, <2>4, <2>5, Zenon
<1>4. CASE LoseAnswer
    <2>1. RequestInv'
        BY <1>4, SettledKeeps DEF LoseAnswer
    <2>2. searching' = FALSE /\ searchError' = TRUE /\ table' = table
        BY <1>4 DEF LoseAnswer
    <2> QED
        BY <2>1, <2>2, Zenon
<1>5. CASE Refine \/ TurnPage \/ PickPageSize
    <2>1. UNCHANGED <<searching, searchError, req>>
        BY <1>5 DEF Refine, TurnPage, PickPageSize
    <2>2. GoodTable(table')
        BY <1>5, PageKeeps
    <2>3. RequestInv'
        BY <2>1 DEF RequestInv, BudgetInv
    <2> QED
        BY <2>1, <2>2, <2>3, Zenon
<1>6. CASE UNCHANGED vars
    <2>1. searching' = searching /\ searchError' = searchError /\ req' = req /\ table' = table
        BY <1>6 DEF vars
    <2>2. RequestInv'
        BY <2>1 DEF RequestInv, BudgetInv
    <2> QED
        BY <2>1, <2>2, Zenon
<1> QED
    BY <1>1, <1>2, <1>3, <1>4, <1>5, <1>6 DEF Next

\* The inductive invariant, of which the theorems below are parts.
THEOREM Invariance == Spec => []Inv
    BY InvInit, InvNext, PTL DEF Spec

\* Every variable of the page and of the request has a value of its kind.
THEOREM TypeCorrect == Spec => []TypeOK
<1>1. Inv => TypeOK
    BY DEF Inv, RequestInv, GoodTable, TypeOK
<1> QED
    BY <1>1, Invariance, PTL

\* No request thread is held beyond the configured timeout, one sleep and three
\* posts, whatever these are and however many fetches the task takes.
THEOREM SearchWithinBudget == Spec => []WithinBudget
<1>1. Inv => WithinBudget
    BY DEF Inv, RequestInv, BudgetInv, WithinBudget
<1> QED
    BY <1>1, Invariance, PTL

\* The open page has rows whenever there are rows to show, for every page size
\* and number of rows.
THEOREM PagesHaveRows == Spec => []PageHasRows
<1>1. Inv => PageHasRows
    BY DEF Inv, GoodTable, PageHasRows
<1> QED
    BY <1>1, Invariance, PTL

\* The rows shown are the ones the refine controls select.
THEOREM RefinementShown == Spec => []ShownAsRefined
<1>1. Inv => ShownAsRefined
    BY DEF Inv, GoodTable, ShownAsRefined
<1> QED
    BY <1>1, Invariance, PTL
-----------------------------------------------------------------------------
(* Complete results.  A fetch returns the newest of the logs it found; if it  *)
(* leaves out any, it returns exactly Limit of them.  The argument counts the *)
(* logs before the first one left out and before the last one returned.       *)

\* A set of natural numbers has a least element.
LEMMA HasLeast ==
    ASSUME NEW T \in SUBSET Nat, T # {}
    PROVE  \E x \in T : \A y \in T : x <= y
<1> DEFINE R == {p \in Nat \X Nat : p[1] < p[2]}
<1>1. IsWellFoundedOn(R, Nat)
    BY NatLessThanWellFounded, Zenon DEF OpToRel
<1>2. PICK x \in T : \A y \in T : <<y, x>> \notin R
    <2> HIDE DEF R
    <2> QED
        BY <1>1, WFMin
<1>3. ASSUME NEW y \in T PROVE x <= y
    <2>1. x \in Nat /\ y \in Nat
        OBVIOUS
    <2>2. <<y, x>> \notin R
        BY <1>2
    <2> QED
        BY <2>1, <2>2
<1> QED
    BY <1>3

\* A set of logs has a last one.
LEMMA HasLast ==
    ASSUME NEW T \in SUBSET Logs, T # {}
    PROVE  \E x \in T : \A y \in T : y <= x
<1> DEFINE U == {MaxLogs - y : y \in T}
<1>1. MaxLogs \in Nat /\ \A y \in T : y \in Int /\ MaxLogs - y \in Nat
    BY Positive DEF Logs
<1>2. U \in SUBSET Nat /\ U # {}
    BY <1>1
<1>3. PICK u \in U : \A v \in U : u <= v
    <2> HIDE DEF U
    <2> QED
        BY <1>2, HasLeast
<1>4. PICK x \in T : u = MaxLogs - x
    OBVIOUS
<1>5. \A y \in T : MaxLogs - x <= MaxLogs - y
    BY <1>3, <1>4
<1> QED
    BY <1>1, <1>5

\* A fetch returns all it found, or exactly as many logs as the limit says.
LEMMA NewestFact ==
    ASSUME NEW found \in SUBSET Logs
    PROVE  /\ Newest(found) \subseteq found
           /\ Newest(found) # found => Cardinality(Newest(found)) = Limit
<1> DEFINE Before(l) == {m \in found : m < l}
           N == Newest(found)
<1>1. N \subseteq found /\ \A l \in found : l \in N <=> Cardinality(Before(l)) < Limit
    BY DEF Newest
<1> SUFFICES ASSUME N # found PROVE Cardinality(N) = Limit
    BY <1>1
<1>2. /\ \A l \in found : l \in Nat
      /\ \A l : Before(l) \in SUBSET Logs
      /\ Limit \in Nat \ {0}
    <2>1. \A l \in Logs : l \in Nat
        BY Positive DEF Logs
    <2>2. \A l \in found : l \in Logs
        OBVIOUS
    <2> QED
        BY <2>1, <2>2, Positive
<1>3. ASSUME NEW S \in SUBSET Logs PROVE IsFiniteSet(S) /\ Cardinality(S) \in Nat
    <2>1. IsFiniteSet(Logs)
        BY Positive, FS_Interval DEF Logs
    <2> QED
        BY <2>1, FS_Subset, RowCount
<1>4. PICK first \in found \ N : \A l \in found \ N : first <= l
    <2>1. found \ N \in SUBSET Nat /\ found \ N # {}
        BY <1>1, <1>2
    <2> HIDE DEF N
    <2> QED
        BY <2>1, HasLeast
<1>5. N = Before(first)
    <2>1. ASSUME NEW l \in found, l < first PROVE l \in N
        BY <1>2, <1>4, <2>1
    <2>2. ASSUME NEW l \in N PROVE l < first
        <3> SUFFICES ASSUME first <= l PROVE FALSE
            BY <1>1, <1>2
        <3>1. Before(first) \in SUBSET Before(l)
            BY <1>1, <1>2
        <3>2. Cardinality(Before(first)) <= Cardinality(Before(l))
            BY <1>2, <1>3, <3>1, FS_Subset
        <3>3. Cardinality(Before(l)) < Limit /\ ~(Cardinality(Before(first)) < Limit)
            BY <1>1
        <3>4. Cardinality(Before(first)) \in Nat /\ Cardinality(Before(l)) \in Nat
            BY <1>2, <1>3
        <3> QED
            BY <1>2, <3>2, <3>3, <3>4
    <2> QED
        BY <1>1, <2>1, <2>2
<1>6. Cardinality(N) \in Nat /\ Cardinality(N) >= Limit
    <2>1. ~(Cardinality(Before(first)) < Limit) /\ Cardinality(Before(first)) \in Nat
        BY <1>1, <1>2, <1>3
    <2> QED
        BY <1>2, <1>5, <2>1
<1>7. PICK last \in N : \A l \in N : l <= last
    <2>1. N \in SUBSET Logs /\ N # {}
        BY <1>1, <1>2, <1>6, FS_EmptySet
    <2> HIDE DEF N
    <2> QED
        BY <2>1, HasLast
<1>8. N = Before(last) \cup {last}
    <2>1. ASSUME NEW l \in found, l < last PROVE l \in N
        BY <1>1, <1>2, <1>5, <1>7, <2>1
    <2>2. ASSUME NEW l \in N PROVE l = last \/ l < last
        BY <1>1, <1>2, <1>7
    <2> QED
        BY <1>1, <1>7, <2>1, <2>2
<1>9. Cardinality(N) <= Cardinality(Before(last)) + 1
    <2> DEFINE B == Before(last)
    <2>1. IsFiniteSet(B) /\ Cardinality(B) \in Nat
        BY <1>2, <1>3
    <2> HIDE DEF B
    <2>2. Cardinality(B \cup {last}) =
              IF last \in B THEN Cardinality(B) ELSE Cardinality(B) + 1
        BY <2>1, FS_AddElement, Zenon
    <2>3. Cardinality(B \cup {last}) <= Cardinality(B) + 1
        BY <2>1, <2>2
    <2> QED
        BY <1>8, <2>3, Zenon DEF B
<1>10. Cardinality(Before(last)) < Limit /\ Cardinality(Before(last)) \in Nat
    BY <1>1, <1>2, <1>3, <1>7
<1> QED
    BY <1>2, <1>6, <1>9, <1>10

\* What a table, or an answer, with these rows owes to the logs matched.
Whole(rows, banner, hits) ==
    /\ rows \subseteq hits
    /\ rows # hits => banner /\ Cardinality(rows) = Limit

\* An answer that has come is whole, and the page waits as long as a request
\* is under way.
CompleteInv ==
    /\ ~searching => req.pc = "none"
    /\ req.pc = "answered" /\ req.result.ok /\ req.sound =>
          Whole(req.result.rows, req.result.truncated, req.hits)
    /\ ~searching /\ ~searchError /\ req.sound =>
          Whole(table.rows, table.banner, req.hits)

\* The page's own operations keep the rows and the banner.
LEMMA PageKeepsRows ==
    ASSUME table \in Tables, Refine \/ TurnPage \/ PickPageSize
    PROVE  table'.rows = table.rows /\ table'.banner = table.banner
<1>1. \A f : /\ ApplyRefineFilter(table, f).rows = table.rows
             /\ ApplyRefineFilter(table, f).banner = table.banner
    BY DEF ApplyRefineFilter, Tables
<1>2. \A p : /\ GoToPage(table, p).rows = table.rows
             /\ GoToPage(table, p).banner = table.banner
    BY DEF GoToPage, Tables
<1>3. \A n, p : LET u == [table EXCEPT !.pageSize = n]
                IN  /\ GoToPage(u, p).rows = table.rows
                    /\ GoToPage(u, p).banner = table.banner
    BY DEF GoToPage, Tables
<1>4. CASE Refine
    BY <1>1, <1>4 DEF Refine
<1>5. CASE TurnPage
    BY <1>2, <1>5 DEF TurnPage
<1>6. CASE PickPageSize
    BY <1>3, <1>6 DEF PickPageSize
<1> QED
    BY <1>4, <1>5, <1>6

\* A step of the request thread leaves the logs matched alone, unless it submits,
\* and only a fetch at 100 percent answers with rows.
LEMMA ServerStepWhole ==
    ASSUME Inv, CompleteInv, ServerStep
    PROVE  CompleteInv'
<1>1. req \in Requests /\ req.pc # "none" /\ searching
    BY DEF Inv, RequestInv, CompleteInv, ServerStep, ApiSearch, LocalTimeRange,
       Submit, Poll, Sleep
<1>2. searching'
    BY <1>1 DEF ServerStep, ApiSearch, LocalTimeRange, Submit, Poll, Sleep
<1> SUFFICES ASSUME req'.pc = "answered", req'.result.ok, req'.sound
             PROVE  Whole(req'.result.rows, req'.result.truncated, req'.hits)
    BY <1>2 DEF CompleteInv
<1>3. ASSUME NEW pc \in {"zone", "submit", "poll", "sleep"}, NEW d, Continue(pc, d)
      PROVE  FALSE
    BY <1>1, <1>3 DEF Continue, Requests
<1>4. ASSUME NEW d, Answer(NoResult, d) PROVE FALSE
    BY <1>1, <1>4 DEF Answer, NoResult, Requests
<1>5. CASE ApiSearch
    BY <1>1, <1>4, <1>5 DEF ApiSearch, Requests
<1>6. CASE LocalTimeRange
    BY <1>1, <1>6 DEF LocalTimeRange, Requests
<1>7. CASE Submit
    BY <1>1, <1>4, <1>7 DEF Submit, Requests
<1>8. CASE Sleep
    BY <1>3, <1>8 DEF Sleep
<1>9. CASE Poll
    <2>1. PICK d \in PostTime : Fetch(d)
        BY <1>4, <1>9 DEF Poll
    <2>2. d \in Nat
        BY Positive DEF PostTime
    <2>3. PICK percentage \in {50, 100}, found \in SUBSET Reach, lines \in 0..Limit :
              /\ percentage = 100 /\ req.sound => found = req.hits
              /\ IF Done(percentage, Newest(found))
                 THEN req' = Fetched(found, lines, d)
                 ELSE Continue("sleep", d)
        BY <1>4, <2>1 DEF Fetch, Fetched
    <2>4. percentage = 100 /\ req' = Fetched(found, lines, d)
        BY <1>3, <2>3 DEF Done
    <2>5. /\ req'.hits = req.hits
          /\ req'.result.rows = Newest(found)
          /\ req'.result.truncated = (lines >= Limit)
          /\ req.sound /\ lines >= Cardinality(Newest(found))
        BY <1>1, <2>2, <2>4, FetchedFact
    <2>6. found = req.hits
        BY <2>3, <2>4, <2>5
    <2>7. /\ Newest(found) \subseteq found
          /\ Newest(found) # found => Cardinality(Newest(found)) = Limit
        BY <1>1, <2>6, NewestFact DEF Requests
    <2>8. Newest(found) # found => lines >= Limit
        BY <2>5, <2>7, Positive
    <2> QED
        BY <2>5, <2>6, <2>7, <2>8, Zenon DEF Whole
<1> QED
    BY <1>5, <1>6, <1>7, <1>8, <1>9 DEF ServerStep

\* Every step keeps the answers and the table whole.
LEMMA CompleteNext == Inv /\ CompleteInv /\ [Next]_vars => CompleteInv'
<1> SUFFICES ASSUME Inv, CompleteInv, [Next]_vars PROVE CompleteInv'
    OBVIOUS
<1>1. req \in Requests /\ table \in Tables
    BY DEF Inv, RequestInv, GoodTable
<1>2. CASE RunSearch
    <2>1. searching' /\ req'.pc = "sent"
        BY <1>2 DEF RunSearch, IdleRequest
    <2> QED
        BY <2>1 DEF CompleteInv
<1>3. CASE ServerStep
    BY <1>3, ServerStepWhole
<1>4. CASE TakeAnswer
    <2>1. req'.pc = "none" /\ req'.hits = req.hits /\ req'.sound = req.sound
        BY <1>4 DEF TakeAnswer, Settled, IdleRequest
    <2>2. CASE req.result.ok
        <3>1. table' = RenderResults(table, req.result)
            BY <1>4, <2>2 DEF TakeAnswer
        <3>2. table'.rows = req.result.rows /\ table'.banner = req.result.truncated
            BY <1>1, <3>1 DEF RenderResults, Tables
        <3>3. req.sound => Whole(req.result.rows, req.result.truncated, req.hits)
            BY <1>4, <2>2 DEF TakeAnswer, CompleteInv
        <3> QED
            BY <2>1, <3>2, <3>3 DEF CompleteInv
    <2>3. CASE ~req.result.ok
        BY <1>4, <2>1, <2>3 DEF TakeAnswer, CompleteInv
    <2> QED
        BY <2>2, <2>3
<1>5. CASE LoseAnswer
    BY <1>5 DEF LoseAnswer, Settled, IdleRequest, CompleteInv
<1>6. CASE Refine \/ TurnPage \/ PickPageSize
    <2>1. UNCHANGED <<searching, searchError, req>>
        BY <1>6 DEF Refine, TurnPage, PickPageSize
    <2> QED
        BY <1>1, <1>6, <2>1, PageKeepsRows DEF CompleteInv
<1>7. CASE UNCHANGED vars
    BY <1>7 DEF vars, CompleteInv
<1> QED
    BY <1>2, <1>3, <1>4, <1>5, <1>6, <1>7 DEF Next

\* A search that ended without an error shows all the logs it matches, or the
\* banner says that it shows the limit, for every limit and number of logs, if
\* the appliance was asked in its own time zone and did not report fewer lines
\* than it returned.
THEOREM ResultsComplete == Spec => []CompleteOrSaysSo
<1>1. Init => CompleteInv
    BY DEF Init, IdleRequest, CompleteInv, Whole
<1>2. CompleteInv => CompleteOrSaysSo
    BY DEF CompleteInv, Whole, CompleteOrSaysSo
<1> QED
    BY <1>1, <1>2, CompleteNext, Invariance, PTL DEF Spec
==============================================================================
