--------------------------- MODULE DeveloperPages ---------------------------
(***************************************************************************)
(* The views that list developer balances (lib.rs, pagination.rs): all at  *)
(* once, by position, and by cursor.  A reconciliation job walks through   *)
(* the pages while payments insert developers into the index.              *)
(***************************************************************************)
EXTENDS Settlement

CONSTANTS
    PageLimits,                         \* limits the job may ask for
    MAX_DEVELOPER_BALANCES_PAGE_SIZE    \* 100 in the code

ASSUME PageAssumption ==
    /\ PageLimits \cup {MAX_DEVELOPER_BALANCES_PAGE_SIZE} \subseteq Nat \ {0}
    /\ None \notin Devs

VARIABLE
    walk    \* None, or the job's progress: how it walks, the developers that were indexed
            \* when it began, those it has seen, its cursor, and whether it is through

-----------------------------------------------------------------------------
DeveloperBalance(dev, token) ==
    [address |-> dev, token |-> token, balance |-> balance[dev][token]]

AllDeveloperBalances(token) == [i \in DOMAIN index |-> DeveloperBalance(index[i], token)]

\* start counts from 0; past the end, and for a limit of 0, there is nothing.
DeveloperBalancesPage(start, limit, token) ==
    SubSeq(AllDeveloperBalances(token), start + 1,
           Min({start + Min({limit, MAX_DEVELOPER_BALANCES_PAGE_SIZE}), Len(index)}))

\* The positions after the cursor; none when it is not in the index.
After(cursor) ==
    IF cursor = None THEN index
    ELSE SubSeq(index, Min({i \in DOMAIN index : index[i] = cursor} \cup {Len(index)}) + 1, Len(index))

\* A page that is full gives the next cursor, also when nothing follows.
PageOfAskedSize(cursor, limit, token) ==
    LET page == SubSeq(After(cursor), 1, Min({limit, MAX_DEVELOPER_BALANCES_PAGE_SIZE, Len(After(cursor))}))
    IN  [result |-> [i \in DOMAIN page |-> DeveloperBalance(page[i], token)],
         next_cursor |-> IF limit > 0 /\ Len(page) >= limit THEN Last(page) ELSE None]
GetPage(cursor, limit, token) ==
    LET size == Min({limit, MAX_DEVELOPER_BALANCES_PAGE_SIZE})
        page == SubSeq(After(cursor), 1, Min({size, Len(After(cursor))}))
    IN  [result |-> [i \in DOMAIN page |-> DeveloperBalance(page[i], token)],
         next_cursor |-> IF size > 0 /\ Len(page) >= size THEN Last(page) ELSE None]

-----------------------------------------------------------------------------
(* The job.  All three views are for the admin only, and write nothing.    *)

Addresses(records) == [i \in DOMAIN records |-> records[i].address]

StartWalk(way) ==
    /\ walk = None
    /\ walk' = [way |-> way, began |-> index, seen |-> <<>>, cursor |-> None, done |-> FALSE]
    /\ UNCHANGED vars

Walking(caller, way) == AdminCalls(caller) /\ walk # None /\ walk.way = way /\ ~walk.done

ReadAll(caller, token) ==
    /\ Walking(caller, "all")
    /\ walk' = [walk EXCEPT !.seen = Addresses(AllDeveloperBalances(token)), !.done = TRUE]
    /\ UNCHANGED vars

\* The job asks for the position after the records it has, until a page is empty.
ReadPosition(caller, limit, token) ==
    LET page == DeveloperBalancesPage(Len(walk.seen), limit, token) IN
    /\ Walking(caller, "position")
    /\ walk' = [walk EXCEPT !.seen = @ \o Addresses(page), !.done = page = <<>>]
    /\ UNCHANGED vars

ReadCursor(caller, limit, token) ==
    LET page == GetPage(walk.cursor, limit, token) IN
    /\ Walking(caller, "cursor")
    /\ walk' = [walk EXCEPT !.seen = @ \o Addresses(page.result), !.cursor = page.next_cursor,
                            !.done = page.next_cursor = None]
    /\ UNCHANGED vars

WalkStep ==
    \/ \E way \in {"all", "position", "cursor"} : StartWalk(way)
    \/ \E c \in Principals, t \in Tokens :
         \/ ReadAll(c, t)
         \/ \E n \in PageLimits : ReadPosition(c, n, t)
         \/ \E n \in PageLimits : ReadCursor(c, n, t)

-----------------------------------------------------------------------------
\* A walk that is through has seen every developer who was indexed when it began,
\* however many were inserted, anywhere in the index, between its pages.  By cursor it has
\* seen nobody twice, by position that can happen.  With no insertion every way lists the
\* same developers in the same order.  ("Pages are stable across interleaved
\* receive_payment calls": lib.rs, get_developer_balances_cursor.)
WalksMissNobody ==
    walk # None /\ walk.done =>
        /\ Range(walk.began) \subseteq Range(walk.seen)
        /\ walk.way # "position" => IsInjective(walk.seen)
        /\ walk.began = index => walk.seen = index
=============================================================================
