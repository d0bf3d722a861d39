---------------------------- MODULE KeysetPaging ----------------------------
(***************************************************************************)
(* A reader turns the pages of a list while other requests write to it.    *)
(* Source: the console's work queues, closed list and browse list          *)
(* (apps/console/lib/db/keyset-cursor.ts, crm-queue-repo.ts,               *)
(* crm-browse-repo.ts) and the listings of platform-api                    *)
(* (internal/platform/paging, the CRM queues and the tickets).             *)
(*                                                                         *)
(* A page is two reads of two snapshots: a count of the rows, and of those *)
(* that sort ahead; and limit + 1 rows beyond the cursor's anchor.  The    *)
(* console starts both at once, the API counts first.  A row is its id and *)
(* its sort key, an instant in microseconds; a row outside the list's      *)
(* predicate has no instant.  The ticket queue's four-part key is one      *)
(* instant here.                                                           *)
(***************************************************************************)
EXTENDS Integers, FiniteSets, SequencesExt

CONSTANTS
    RowIds,         \* a finite set of naturals: uuids, compared as such
    Instants,       \* sort keys, in microseconds
    PerMilli,       \* microseconds in the millisecond of a JavaScript Date
    Limit,          \* rows of a page
    Lists,          \* what may be paged, see PagedList
    MaxRowWrites,   \* bound: writes to the list during a session
    NoValue

\* A list of the console or of the API, its direction, and the instants that
\* its sort keys take.
PagedList == [console : BOOLEAN, descending : BOOLEAN, instants : SUBSET Instants]

Directions == {"after", "before"}
Cursor == [direction : Directions, key : Nat \X RowIds]

\* What the reads bring, and what is shown of it.
ListedRow == [id : RowIds, at : Instants]
RowCount == [total : Nat, preceding : Nat]
Request == [cursor : Cursor \cup {NoValue}, count : RowCount \cup {NoValue},
            fetched : Seq(ListedRow) \cup {NoValue}]
Page == [rows : Seq(ListedRow), total : Nat, preceding : Nat,
         next : Cursor \cup {NoValue}, previous : Cursor \cup {NoValue}]

ASSUME PagingAssumption ==
    /\ RowIds \subseteq Nat /\ IsFiniteSet(RowIds)
    /\ Instants \subseteq Nat
    /\ PerMilli \in Nat \ {0} /\ Limit \in Nat \ {0} /\ MaxRowWrites \in Nat
    /\ \A list \in Lists : list \in PagedList \cup {NoValue}
    /\ NoValue \notin Instants \cup PagedList \cup Cursor \cup RowCount
    /\ NoValue \notin Seq(ListedRow) \cup Request \cup Page

VARIABLES
    list,       \* the list of this session, or NoValue: nobody pages
    table,      \* the instant of each row, or NoValue: not in the list
    request,    \* the page being read, or NoValue
    page,       \* the page on the screen, or NoValue
    writes,     \* writes since the list was opened
    walk        \* history: the pages turned in one direction, see Walk

listVars == <<list, table, request, page, writes, walk>>

\* The rows a walk owes the reader, those it showed, and those it showed again.
Walk == [direction : Directions, owed : SUBSET RowIds, shown : SUBSET RowIds,
         again : SUBSET RowIds]

KeyOf(r) == <<table[r], r>>
Matching == {r \in RowIds : table[r] # NoValue}

\* Postgres compares rows column by column.
Smaller(k, l) == k[1] < l[1] \/ (k[1] = l[1] /\ k[2] < l[2])

\* The order of the list: the id breaks the ties of the instants.
Ahead(k, l) == IF list.descending THEN Smaller(l, k) ELSE Smaller(k, l)

Backwards(cursor) == cursor # NoValue /\ cursor.direction = "before"

\* A backward read mirrors the list.
Beyond(k, cursor) ==
    CASE cursor = NoValue -> TRUE
      [] Backwards(cursor) -> Ahead(k, cursor.key)
      [] OTHER -> Ahead(cursor.key, k)

RowsBeyond(cursor) == {r \in Matching : Beyond(KeyOf(r), cursor)}

Nearer(k, l, cursor) == IF Backwards(cursor) THEN Ahead(l, k) ELSE Ahead(k, l)

\* ORDER BY: the row at a place has so many of the others before it.
PlaceOf(r, rows, cursor) == Cardinality({s \in rows : Nearer(KeyOf(s), KeyOf(r), cursor)}) + 1

Ordered(rows, cursor) ==
    [i \in 1..Cardinality(rows) |-> CHOOSE r \in rows : PlaceOf(r, rows, cursor) = i]

\* Forward, the anchor is the last row of the page before, and is counted;
\* backward, it is the first row of the page that is left, and is not.
Precedes(k, cursor) ==
    Ahead(k, cursor.key) \/ (~Backwards(cursor) /\ k = cursor.key)

RenderedInMillis(at) == at - (at % PerMilli)

\* toIsoRequired of a Date keeps milliseconds, RFC3339Nano everything.
Rendered(at) == IF list.console THEN at - (at % PerMilli) ELSE at

MintCursor(r, at, direction) == [direction |-> direction, key |-> <<Rendered(at), r>>]

(***************************************************************************)
(* The reader                                                              *)
(***************************************************************************)

Read(cursor) == [cursor |-> cursor, count |-> NoValue, fetched |-> NoValue]

StartWalk(direction, owed) ==
    [direction |-> direction, owed |-> owed, shown |-> {}, again |-> {}]

\* The list without a cursor: its first page.
OpenList ==
    /\ list # NoValue
    /\ request = NoValue
    /\ request' = Read(NoValue)
    /\ writes' = 0
    /\ page' = NoValue
    /\ walk' = StartWalk("after", Matching)
    /\ UNCHANGED <<list, table>>

\* The row at the end of the page that a turn leaves, as it was shown.
Edge(direction) ==
    LET row == IF direction = "after" THEN Last(page.rows) ELSE Head(page.rows)
    IN [direction |-> direction, key |-> <<row.at, row.id>>]

\* Next or Previous: a turn the other way starts another walk, which owes the
\* reader what lies beyond the row it left.
TurnPage(direction) ==
    /\ request = NoValue
    /\ page # NoValue
    /\ LET cursor == IF direction = "after" THEN page.next ELSE page.previous IN
       /\ cursor # NoValue
       /\ request' = Read(cursor)
       /\ walk' = IF walk.direction = direction THEN walk
                  ELSE StartWalk(direction, RowsBeyond(Edge(direction)))
    /\ UNCHANGED <<list, table, page, writes>>

\* SELECT count(*), count(*) FILTER (WHERE the row sorts ahead)
CountRows ==
    /\ request # NoValue
    /\ request.count = NoValue
    /\ LET preceding == IF request.cursor = NoValue THEN {}
                        ELSE {r \in Matching : Precedes(KeyOf(r), request.cursor)}
       IN request' = [request EXCEPT !.count =
                        [total |-> Cardinality(Matching),
                         preceding |-> Cardinality(preceding)]]
    /\ UNCHANGED <<list, table, page, writes, walk>>

\* SELECT ... WHERE (key, id) beyond the anchor ORDER BY ... LIMIT limit + 1:
\* the rows nearest the anchor come first.
Fetched(cursor) ==
    LET found == Ordered(RowsBeyond(cursor), cursor)
        taken == IF Len(found) <= Limit THEN found ELSE SubSeq(found, 1, Limit + 1)
    IN [i \in 1..Len(taken) |-> [id |-> taken[i], at |-> table[taken[i]]]]

FetchRows ==
    /\ request # NoValue
    /\ request.fetched = NoValue
    /\ list.console \/ request.count # NoValue
    /\ request' = [request EXCEPT !.fetched = Fetched(request.cursor)]
    /\ UNCHANGED <<list, table, page, writes, walk>>

TrimmedAsFetched(fetched, cursor) ==
    IF Len(fetched) > Limit THEN SubSeq(fetched, 1, Limit) ELSE fetched

\* trimForwardPage and trimBackwardPage: the row too many is the last one
\* either way, and the rest comes back in display order.
Trimmed(fetched, cursor) ==
    LET kept == IF Len(fetched) > Limit THEN SubSeq(fetched, 1, Limit) ELSE fetched
    IN IF Backwards(cursor) THEN Reverse(kept) ELSE kept

\* Backward, the count covers the page too; deletions may make it smaller.
PrecedingCount(counted, rows, cursor) ==
    CASE ~Backwards(cursor) -> counted
      [] Backwards(cursor) /\ counted < Len(rows) -> 0
      [] OTHER -> counted - Len(rows)

\* A page with no row has no edge to mint a cursor from.  A backward page was
\* reached from the one after it; what precedes it, the console takes from the
\* count and the API from the row too many.
HasNext(rows, hasMore, cursor) == rows # <<>> /\ (Backwards(cursor) \/ hasMore)

HasPrevious(rows, hasMore, preceding, cursor) ==
    /\ rows # <<>>
    /\ IF Backwards(cursor) /\ ~list.console THEN hasMore ELSE preceding > 0

IdsOf(rows) == {rows[i].id : i \in DOMAIN rows}

ShowPage ==
    /\ request # NoValue
    /\ request.count # NoValue
    /\ request.fetched # NoValue
    /\ LET cursor == request.cursor
           rows == Trimmed(request.fetched, cursor)
           hasMore == Len(request.fetched) > Limit
           preceding == PrecedingCount(request.count.preceding, rows, cursor)
           due == IdsOf(rows) \cap walk.owed
       IN
       /\ page' = [rows |-> rows, total |-> request.count.total,
                   preceding |-> preceding,
                   next |-> IF HasNext(rows, hasMore, cursor)
                            THEN MintCursor(Last(rows).id, Last(rows).at, "after")
                            ELSE NoValue,
                   previous |-> IF HasPrevious(rows, hasMore, preceding, cursor)
                                THEN MintCursor(Head(rows).id, Head(rows).at, "before")
                                ELSE NoValue]
       /\ walk' = [walk EXCEPT !.shown = @ \cup due,
                               !.again = @ \cup (due \cap walk.shown)]
    /\ request' = NoValue
    /\ UNCHANGED <<list, table, writes>>

(***************************************************************************)
(* The others                                                              *)
(***************************************************************************)

\* A row enters the list, leaves it, or moves: the walk owes it no longer.
WriteRow(r, at) ==
    /\ list # NoValue
    /\ writes < MaxRowWrites
    /\ at # table[r]
    /\ table' = [table EXCEPT ![r] = at]
    /\ writes' = writes + 1
    /\ walk' = [walk EXCEPT !.owed = @ \ {r}, !.shown = @ \ {r}, !.again = @ \ {r}]
    /\ UNCHANGED <<list, request, page>>

(***************************************************************************)
(* The specification                                                       *)
(***************************************************************************)

ListInit ==
    /\ list \in Lists
    /\ table \in [RowIds -> (IF list = NoValue THEN {} ELSE list.instants) \cup {NoValue}]
    /\ request = NoValue
    /\ page = NoValue
    /\ writes = 0
    /\ walk = StartWalk("after", {})

ListNext ==
    \/ OpenList
    \/ \E direction \in Directions : TurnPage(direction)
    \/ CountRows
    \/ FetchRows
    \/ ShowPage
    \/ \E r \in RowIds, at \in Instants \cup {NoValue} :
          /\ list # NoValue => at \in list.instants \cup {NoValue}
          /\ WriteRow(r, at)

ListSpec == ListInit /\ [][ListNext]_listVars

(***************************************************************************)
(* What should hold                                                        *)
(***************************************************************************)

\* The walk's page on the screen has no further page in the walk's direction.
\* Previous is only trusted on the API: the console takes it from a count that
\* another snapshot may have given.
WalkEnded ==
    /\ request = NoValue
    /\ page # NoValue
    /\ IF walk.direction = "after" THEN page.next = NoValue
       ELSE ~list.console /\ page.previous = NoValue

\* A cursor keeps the key of its row, but for a list of the console with
\* instants inside a millisecond: there it moves to an earlier instant.
KeepsKeys == list.console => \A at \in list.instants : at % PerMilli = 0

\* Towards later instants.
ReadsUp(direction) == list.descending <=> direction = "before"

\* Whoever turns the pages of a list one way, from its first page or from
\* where they turned round, sees every row beyond that point exactly once,
\* whatever is written to the other rows between two pages or between the two
\* reads of one: no row is repeated, and none is left out when the pages end.
\* Where the cursor is cut to the millisecond (crm-row.ts), half of it is
\* left: reading up leaves no row out, reading down repeats none.
WalkShowsEachRowOnce ==
    list # NoValue =>
        /\ KeepsKeys \/ ~ReadsUp(walk.direction) => walk.again = {}
        /\ WalkEnded /\ (KeepsKeys \/ ReadsUp(walk.direction)) => walk.shown = walk.owed

\* queuePage's comment: with the id as tiebreak, no row that shares its sort
\* timestamp with others is repeated, or lost, by the pages of a queue.
TiesNeverRepeat == walk.again = {}

InOrder == Ordered(Matching, NoValue)

\* While nobody writes, every page is a stretch of the list, upright, with the
\* place and the total the list really has; where rows follow it has a Next,
\* and a Previous if and only if rows precede it.  If the cursors keep their
\* keys, Next and Previous lead through the same pages, each at a multiple of
\* the limit, with a control for each neighbour and none besides.
QuietSessionsPageTheList ==
    page # NoValue /\ writes = 0 =>
        LET all == InOrder
            first == page.preceding + 1
            last == page.preceding + Len(page.rows)
            full == IF page.preceding + Limit < Len(all)
                    THEN page.preceding + Limit ELSE Len(all)
        IN
        /\ [i \in DOMAIN page.rows |-> page.rows[i].id] = SubSeq(all, first, last)
        /\ page.total = Len(all)
        /\ page.rows # <<>> =>
              /\ last < Len(all) => page.next # NoValue
              /\ page.previous # NoValue <=> first > 1
        /\ KeepsKeys =>
              /\ page.preceding % Limit = 0
              /\ last = full
              /\ page.next # NoValue <=> last < Len(all)
              /\ page.previous # NoValue <=> first > 1
=============================================================================
