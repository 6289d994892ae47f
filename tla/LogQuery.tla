------------------------------ MODULE LogQuery ------------------------------
(***************************************************************************)
(* Reading the log while it is written: GET /logs page by page, GET        *)
(* /logs/export and GET /logs/:id/context (internal/api/handler/logs,      *)
(* internal/app/logs, internal/repo/pg/logs), composed with LogStream,     *)
(* whose writers insert the rows.                                          *)
(*                                                                         *)
(* Every request is several statements, each of which sees what is         *)
(* committed when it starts.  A row's created_at is the time its insertion *)
(* began, so a row may become visible after rows that are newer than it,   *)
(* and ties are broken by the id.                                          *)
(***************************************************************************)
EXTENDS LogStream, Integers, SequencesExt

CONSTANTS
    CreatedAt,     \* entry -> created_at; the entry itself is its id
    Kind,          \* entry -> what the filters look at
    Filters,       \* sets of kinds a request may ask for
    Readers,       \* requests in progress
    ReaderTenant,  \* reader -> the tenant of its requests
    Limits,        \* values of ?limit=
    DefaultLimit, MaxLimit,
    MaxExport,
    Windows, DefaultWindow, MaxWindow

ASSUME LogQueryAssumption ==
    /\ IsFiniteSet(Past)
    /\ CreatedAt \in [Entry -> Nat]
    /\ Limits \cup Windows \subseteq Int
    /\ DefaultLimit \in Nat \ {0} /\ MaxLimit \in Nat
    /\ DefaultWindow \in Nat /\ MaxWindow \in Nat
    /\ MaxExport \in Nat

VARIABLE q         \* reader -> its request

queryVars == <<q>>
vars == <<streamVars, queryVars>>

NoQuery == [pc |-> "idle", filter |-> {}, limit |-> 0, cursor |-> NoEntry,
            total |-> 0, rows |-> <<>>, base |-> {}, truncated |-> FALSE]

Init == StreamInit /\ q = [r \in Readers |-> NoQuery]

-----------------------------------------------------------------------------
(* SQL.                                                                    *)

(* Mistake: the cursor compares created_at alone.                           *)
OlderByTime(a, b) == CreatedAt[a] < CreatedAt[b]

(* (created_at, id) < ($n, $n+1).                                          *)
Older(a, b) == CreatedAt[a] < CreatedAt[b] \/ (CreatedAt[a] = CreatedAt[b] /\ a < b)

(* WHERE tenant_id = $1 AND the clauses of the filters that were given.    *)
Matching(t, f) == {e \in log : EntryTenant[e] = t /\ Kind[e] \in f}

Descending(a, b) == CreatedAt[a] > CreatedAt[b] \/ (CreatedAt[a] = CreatedAt[b] /\ a > b)

First(s, n) == SubSeq(s, 1, IF n < Len(s) THEN n ELSE Len(s))

(* ORDER BY created_at DESC, id DESC LIMIT n: rows of S in the order, and  *)
(* a row that is left out has n rows before it.                            *)
Newest(S, n) ==
    {p \in SeqOf(S, n) :
        /\ \A i, j \in 1..Len(p) : i < j => Descending(p[i], p[j])
        /\ \A e \in S \ ToSet(p) : Len(p) = n /\ \A i \in 1..Len(p) : Descending(p[i], e)}

(* ORDER BY created_at ASC, id ASC LIMIT n.                                *)
Oldest(S, n) ==
    {p \in SeqOf(S, n) :
        /\ \A i, j \in 1..Len(p) : i < j => Descending(p[j], p[i])
        /\ \A e \in S \ ToSet(p) : Len(p) = n /\ \A i \in 1..Len(p) : Descending(e, p[i])}

Begin(r, pc, f, n, c) ==
    /\ q[r].pc = "idle"
    /\ q' = [q EXCEPT ![r] = [NoQuery EXCEPT !.pc = pc, !.filter = f, !.limit = n, !.cursor = c,
                                             !.base = Matching(ReaderTenant[r], f)]]

-----------------------------------------------------------------------------
(* GET /logs, asked again with next_cursor as long as there is one.        *)

PageLimit(n) == IF n <= 0 \/ n > MaxLimit THEN DefaultLimit ELSE n

ListLogs(r, f, n) == Begin(r, "count", f, PageLimit(n), NoEntry)

Remaining(r) ==
    {e \in Matching(ReaderTenant[r], q[r].filter) : q[r].cursor = NoEntry \/ Older(e, q[r].cursor)}

ListCount(r) ==
    /\ q[r].pc = "count"
    /\ q' = [q EXCEPT ![r].pc = "data", ![r].total = Cardinality(Remaining(r))]

(* Mistake: a cursor only when more rows are known to follow, by the total. *)
HasNextByTotal(r, page) == q[r].total > Len(page) + 1

(* if len(entries) == params.Limit.                                        *)
HasNext(r, page) == Len(page) = q[r].limit

ListData(r) ==
    /\ q[r].pc = "data"
    /\ \E page \in Newest(Remaining(r), q[r].limit) :
          q' = [q EXCEPT ![r].rows = q[r].rows \o page,
                         ![r].pc = IF HasNext(r, page) THEN "more" ELSE "listed",
                         ![r].cursor = IF HasNext(r, page) THEN Last(page) ELSE NoEntry]

NextPage(r) == q[r].pc = "more" /\ q' = [q EXCEPT ![r].pc = "count"]

-----------------------------------------------------------------------------
(* GET /logs/export.                                                       *)

ExportLogs(r, f) == Begin(r, "xcount", f, 0, NoEntry)

ExportCount(r) ==
    /\ q[r].pc = "xcount"
    /\ q' = [q EXCEPT ![r].pc = "xdata",
                      ![r].total = Cardinality(Matching(ReaderTenant[r], q[r].filter))]

(* Mistake: no extra row is fetched to notice the truncation.               *)
ExportRowsExact == MaxExport

ExportRows == MaxExport + 1

ExportData(r) ==
    /\ q[r].pc = "xdata"
    /\ \E fetched \in Newest(Matching(ReaderTenant[r], q[r].filter), ExportRows) :
          q' = [q EXCEPT ![r].pc = "exported",
                         ![r].truncated = Len(fetched) > MaxExport,
                         ![r].rows = First(fetched, MaxExport)]

-----------------------------------------------------------------------------
(* GET /logs/:id/context; an id the tenant does not have is a 404.         *)

WindowSize(n) == IF n <= 0 \/ n > MaxWindow THEN DefaultWindow ELSE n

GetLogContext(r, e, n) ==
    /\ e \in log /\ EntryTenant[e] = ReaderTenant[r]
    /\ Begin(r, "before", {Kind[x] : x \in Entry}, WindowSize(n), e)

Anchored(r) == Matching(ReaderTenant[r], q[r].filter)

ContextBefore(r) ==
    /\ q[r].pc = "before"
    /\ \E page \in Newest({e \in Anchored(r) : Older(e, q[r].cursor)}, q[r].limit) :
          q' = [q EXCEPT ![r].pc = "after", ![r].rows = Append(Reverse(page), q[r].cursor)]

ContextAfter(r) ==
    /\ q[r].pc = "after"
    /\ \E page \in Oldest({e \in Anchored(r) : Older(q[r].cursor, e)}, q[r].limit) :
          q' = [q EXCEPT ![r].pc = "context", ![r].rows = q[r].rows \o page]

(* The answer is sent, or a statement failed and the answer is a 500.      *)
QueryEnds(r) == q[r].pc # "idle" /\ q' = [q EXCEPT ![r] = NoQuery]

-----------------------------------------------------------------------------
Query(r) ==
    /\ \/ \E f \in Filters : (\E n \in Limits : ListLogs(r, f, n)) \/ ExportLogs(r, f)
       \/ \E e \in Entry, n \in Windows : GetLogContext(r, e, n)
       \/ ListCount(r) \/ ListData(r) \/ NextPage(r)
       \/ ExportCount(r) \/ ExportData(r)
       \/ ContextBefore(r) \/ ContextAfter(r)
       \/ QueryEnds(r)
    /\ UNCHANGED streamVars

Next == (StreamNext /\ UNCHANGED queryVars) \/ \E r \in Readers : Query(r)

Spec == Init /\ [][Next]_vars

-----------------------------------------------------------------------------
(* Properties.                                                             *)

Increasing(s) == \A i \in 1..Len(s) - 1 : Older(s[i], s[i + 1])

(* CE-002: following next_cursor to its end gives every row that was there *)
(* when the first page was asked for, once, newest first, and nothing that *)
(* the filters or the tenant exclude, although rows appear between pages.  *)
PagesFaithful ==
    \A r \in Readers : q[r].pc \in {"more", "listed"} =>
        /\ Increasing(Reverse(q[r].rows))
        /\ ToSet(q[r].rows) \subseteq Matching(ReaderTenant[r], q[r].filter)
        /\ q[r].pc = "listed" => q[r].base \subseteq ToSet(q[r].rows)

(* RF-006: an export that is not marked truncated holds everything its     *)
(* total counted and everything there was when it began; a truncated one   *)
(* is full and leaves out only rows older than all it holds.               *)
ExportHonest ==
    \A r \in Readers : q[r].pc = "exported" =>
        /\ q[r].truncated => Len(q[r].rows) = MaxExport
        /\ ~q[r].truncated => q[r].base \subseteq ToSet(q[r].rows) /\ q[r].total <= Len(q[r].rows)
        /\ \A e \in q[r].base \ ToSet(q[r].rows), x \in ToSet(q[r].rows) : Older(e, x)

(* RF-004: the context of an entry is chronological, holds the entry, and  *)
(* leaves out no row of the tenant that lies between two it shows.         *)
ContextContiguous ==
    \A r \in Readers : q[r].pc = "context" =>
        /\ q[r].cursor \in ToSet(q[r].rows)
        /\ Increasing(q[r].rows)
        /\ \A e \in q[r].base \ ToSet(q[r].rows) :
              Older(e, Head(q[r].rows)) \/ Older(Last(q[r].rows), e)
=============================================================================
