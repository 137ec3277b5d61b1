------------------------------- MODULE Paging -------------------------------
(***************************************************************************)
(* Lists in pages (src/internal/httpapi/server.go): each request cuts one  *)
(* page from a list made afresh, after the identifier the last page ended  *)
(* with.  Between two requests objects come to be under random identifiers *)
(* and objects on the list already served or not change their status.      *)
(* Qualifications and review tasks are listed by the same code; this is    *)
(* the list of tasks.                                                      *)
(***************************************************************************)
EXTENDS Sorting, SequencesExt

CONSTANTS
    TaskId,         \* identifiers, natural numbers greater than the empty text's 0
    MaxLimit        \* bound: items on a page

ASSUME TaskIdAssumption == TaskId \subseteq Nat \ {0}

VARIABLES
    status,         \* the status of each task there is
    filter,         \* the status asked for, or "" for all
    after,          \* the identifier in the cursor, 0 when there is none
    items,          \* the identifiers on the pages received, in order
    ended,          \* the last page had no cursor
    constant        \* the tasks that matched all the time since the first page

pagingVars == <<status, filter, after, items, ended, constant>>

Put(f, k, v) == [j \in DOMAIN f \cup {k} |-> IF j = k THEN v ELSE f[j]]

Matching(st) == {t \in DOMAIN st : filter = "" \/ st[t] = filter}
ListTasks == Ascending(Matching(status))

\* Mutant: a page starts behind the very item the cursor names.
StartOf_Named(all) ==
    IF \E i \in DOMAIN all : all[i] = after
    THEN 1 + CHOOSE i \in DOMAIN all : all[i] = after ELSE 1
StartOf(all) ==
    CHOOSE i \in 1..(Len(all) + 1) :
        /\ \A j \in 1..(i - 1) : all[j] <= after
        /\ i \in DOMAIN all => all[i] > after

\* Mutant: the cursor is the first item that is still to come.
Cursor_Coming(all, end) == IF end < Len(all) /\ end > 0 THEN all[end + 1] ELSE 0
Cursor(all, end) == IF end < Len(all) /\ end > 0 THEN all[end] ELSE 0

PagingInit ==
    /\ status = << >>
    /\ filter \in {"", "PENDING", "DONE"}
    /\ after = 0
    /\ items = << >>
    /\ ended = FALSE
    /\ constant = {}

\* A page the size the request asks for, in the order of the identifiers.
GetPage ==
    /\ ~ended
    /\ \E limit \in 1..MaxLimit :
          LET start == StartOf(ListTasks)
              end == IF start - 1 + limit > Len(ListTasks) THEN Len(ListTasks)
                     ELSE start - 1 + limit
          IN  /\ items' = items \o SubSeq(ListTasks, start, end)
              /\ after' = Cursor(ListTasks, end)
              /\ ended' = (after' = 0)
    /\ constant' = IF after = 0 THEN Matching(status) ELSE constant
    /\ UNCHANGED <<status, filter>>

Change(st) ==
    /\ status' = st
    /\ constant' = constant \cap Matching(st)
    /\ UNCHANGED <<filter, after, items, ended>>

Enqueue == \E t \in TaskId \ DOMAIN status : Change(Put(status, t, "PENDING"))
Finish == \E t \in DOMAIN status : status[t] = "PENDING" /\ Change(Put(status, t, "DONE"))

PagingNext == GetPage \/ Enqueue \/ Finish
-----------------------------------------------------------------------------

\* Whatever comes and goes between the pages, no task is listed twice and all
\* are in order.
PagesAscend == \A i \in 1..(Len(items) - 1) : items[i] < items[i + 1]

\* A task that matched from the first page on is on one of the pages when the
\* last one comes, and on one already once the cursor has passed it.
PagesAreComplete ==
    \A t \in constant : ended \/ t <= after => t \in ToSet(items)
=============================================================================
