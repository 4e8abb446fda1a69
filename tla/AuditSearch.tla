---------------------------- MODULE AuditSearch ----------------------------
(***************************************************************************)
(* An operator walks the audit log page by page while it grows: the admin  *)
(* UI's page (internal/adminui/audit.go), its API client and the handler   *)
(* of GET /admin/audit/search (internal/api/handlers/admin_audit.go), on   *)
(* top of the log of AuditChain. The handler writes audit rows of its own: *)
(* it is the writer Searcher, and a page it returns may hold its own       *)
(* received row.                                                           *)
(***************************************************************************)
EXTENDS AuditChain

CONSTANTS
    Searcher,   \* the search handler, one of the Writers
    Others,     \* events the other writers write meanwhile
    Filters,    \* filters the operator may submit
    PageSizes,  \* page sizes he may choose
    MaxLimit    \* the largest limit the handler accepts

ASSUME SearchAssumption ==
    /\ Searcher \in Writers
    /\ {"received", "validated", "delivered", "denied"} \union Others \subseteq Events
    /\ \A f \in Filters : f.stages \subseteq Events /\ {f.since, f.until} \subseteq Nat
    /\ PageSizes \subseteq Nat \ {0} /\ MaxLimit \in Nat \ {0}

VARIABLE search   \* the walk of the operator and the request under way

allVars == <<vars, search>>

-----------------------------------------------------------------------------
(* The query. *)

\* Mutant: the cursor row itself belongs to the next page.
WhereInclusive(T, f, before) ==
    {r \in T : r.ev \in f.stages /\ r.at \in f.since..f.until
               /\ (before = 0 \/ r.id <= before)}

\* The WHERE clause; before = 0 when no before_id was sent.
Where(T, f, before) ==
    {r \in T : r.ev \in f.stages /\ r.at \in f.since..f.until
               /\ (before = 0 \/ r.id < before)}

\* ORDER BY id DESC LIMIT n.
Newest(T, n) == {r \in T : Cardinality({s \in T : s.id > r.id}) < n}

\* One row more than the page shows, within the handler's limit.
FetchLimit(size) == IF size < MaxLimit THEN size + 1 ELSE MaxLimit

-----------------------------------------------------------------------------
(* Requests of the admin UI. *)

NoSearch == [step |-> "idle", filter |-> CHOOSE f \in Filters : TRUE, size |-> 1,
             before |-> 0, rows |-> {}, next |-> 0, seen |-> {}, count |-> 0,
             start |-> {}]

\* The search request reaches the handler, which begins its received row.
Request(walk) ==
    /\ search.step \in {"idle", "shown", "failed"}
    /\ Begin(Searcher, "received")
    /\ search' = [walk EXCEPT !.step = "received", !.rows = {}]

\* The filter form, or the link to the first page.
Open == \E f \in Filters, n \in PageSizes :
            Request([NoSearch EXCEPT !.filter = f, !.size = n])

\* The link to the next page.
NextPage ==
    /\ search.step = "shown" /\ search.next # 0
    /\ Request([search EXCEPT !.before = search.next])

\* The operator reloads a page that came back as an error banner.
Reload == search.step = "failed" /\ Request(search)

-----------------------------------------------------------------------------
(* AdminAuditHandler.Search; every Write before has ended, well or not. *)

Written(step) == search.step = step /\ pc[Searcher] = "idle"

\* The statement reads what is committed; flow.succeed begins its first row.
\* The rows committed at the first page are remembered for PagesComplete.
Query ==
    /\ Written("received")
    /\ Begin(Searcher, "validated")
    /\ search' = [search EXCEPT
            !.step = "validated",
            !.rows = Newest(Where(table, search.filter, search.before),
                            FetchLimit(search.size)),
            !.start = IF search.before = 0 THEN table ELSE @]

LogDelivered ==
    /\ Written("validated")
    /\ Begin(Searcher, "delivered")
    /\ search' = [search EXCEPT !.step = "delivered"]

\* A parameter is rejected or the query fails: flow.deny.
DenySearch ==
    /\ Written("received")
    /\ Begin(Searcher, "denied")
    /\ search' = [search EXCEPT !.step = "denied"]

-----------------------------------------------------------------------------
(* The answer is rendered. *)

\* The id of the last row displayed.
Cursor ==
    LET displayed == Newest(search.rows, search.size)
    IN  CHOOSE i \in {r.id : r \in displayed} : \A r \in displayed : i <= r.id

Show ==
    /\ Written("delivered")
    /\ LET hasNext   == Cardinality(search.rows) > search.size
           displayed == IF hasNext THEN Newest(search.rows, search.size)
                                   ELSE search.rows
       IN  search' = [search EXCEPT
              !.step = "shown",
              !.next = IF hasNext THEN Cursor ELSE 0,
              !.seen = @ \union displayed,
              !.count = @ + Cardinality(displayed)]
    /\ UNCHANGED vars

\* The handler denied the request, or its answer was lost or not decoded.
ShowError ==
    /\ Written("denied") \/ Written("delivered")
    /\ search' = [search EXCEPT !.step = "failed"]
    /\ UNCHANGED vars

-----------------------------------------------------------------------------
SearchInit == Init /\ search = NoSearch

SearchStep == \/ Open \/ NextPage \/ Reload
              \/ Query \/ LogDelivered \/ DenySearch
              \/ Show \/ ShowError

\* The transactions of every writer; only the search begins the Searcher's.
LogStep ==
    /\ \E w \in Writers :
          \/ w # Searcher /\ \E e \in Others : Begin(w, e)
          \/ Lock(w) \/ Insert(w) \/ Commit(w) \/ Abort(w)
    /\ UNCHANGED search

SearchNext == SearchStep \/ LogStep

SearchSpec == SearchInit /\ [][SearchNext]_allVars

-----------------------------------------------------------------------------
(* Properties. *)

\* With every page the operator has seen exactly the newest matching rows that
\* were committed when the first page was read, each once and nothing else,
\* whatever was appended, rolled back or failed in between; once the UI offers
\* no further page he has seen all of them. A page as large as the handler's
\* limit has no surplus row and ends the walk (auditPageData's has-next probe,
\* Search's before_id).
PagesComplete ==
    LET due == Where(search.start, search.filter, 0)
    IN  search.step = "shown" =>
            /\ search.seen = Newest(due, search.count)
            /\ search.count = Cardinality(search.seen)
            /\ search.next = 0 =>
                  search.count = IF search.size < MaxLimit
                                 THEN Cardinality(due)
                                 ELSE Cardinality(Newest(due, MaxLimit))
=============================================================================
