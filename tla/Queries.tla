------------------------------ MODULE Queries -------------------------------
(***************************************************************************)
(* The cursor pagination of the listings: orders (OrdersQueryService),     *)
(* products (ProductsService.findAll), reviews (getReviews) and users      *)
(* (UsersService.findAll), over REST and, for orders, over GraphQL.        *)
(*                                                                         *)
(* A client walks through one listing, page by page, while rows are        *)
(* inserted, changed and removed. created_at is kept in microseconds, a    *)
(* JavaScript Date and so every cursor in milliseconds.                    *)
(***************************************************************************)
EXTENDS Integers, FiniteSets, Sequences, SequencesExt

CONSTANTS
  Ids,          \* row ids; the order of uuids is the order of numbers
  Times,        \* moments in microseconds
  Micros,       \* microseconds in a millisecond
  Keys,         \* prices, and places of titles in the collation
  Limits,       \* page sizes a client asks for
  NoCursor,     \* no cursor in the request or in the answer
  MaxChanges    \* bound: changes of rows during the walk

\* What a cursor stands for: a row, and a value of the sort column.
Positions == [id : Ids, key : Nat]

ASSUME QueriesAssumption ==
  /\ IsFiniteSet(Ids)
  /\ Ids \subseteq Nat /\ Times \subseteq Nat /\ Keys \subseteq Nat
  /\ Micros \in Nat \ {0} /\ MaxChanges \in Nat
  /\ Limits \subseteq Nat \ {0} /\ NoCursor \notin Positions

Listing(t, s, d) == [table : {t}, sortBy : s, dir : d, limit : Limits, graph : {FALSE}]

\* The listings a client can ask for: only products have a choice of order,
\* and only orders are also served by GraphQL.
Listings ==
  LET byDate == {"createdAt"}
      newest == {"DESC"}
      orders == Listing("orders", byDate, newest)
  IN  UNION {orders, {[l EXCEPT !.graph = TRUE] : l \in orders},
             Listing("reviews", byDate, newest), Listing("users", byDate, newest),
             Listing("products", {"createdAt", "price", "title"}, {"ASC", "DESC"})}

VARIABLES
  listing,     \* the request the client repeats with the cursor it was given
  rows,        \* the table; matches: the row passes the filters of the request
  walk, cursor, \* the walk, and the cursor of its next page
  from,        \* the position the page query starts after
  ids,         \* the rows the first of two statements of a page has chosen
  page, seen,  \* the last page, and all pages so far
  steady,      \* rows present, matching and with one sort key since the start
  restarted,   \* a cursor was not found and the walk went back to the start
  shortened,   \* rows of a page went between its two statements, and its cursor with them
  changes

walkVars == <<walk, cursor, from, ids, page, seen, restarted, shortened>>
qvars == <<listing, rows, steady, changes, walkVars>>

Row == [state : {"none", "live", "removed"}, at : Times, key : Keys, matches : BOOLEAN]

Shown(id) == rows[id].state = "live" /\ rows[id].matches

\* IDX_products_title_unique, also over removed rows.
TitlesDistinct(rs) ==
  listing.sortBy = "title" =>
    \A i, j \in Ids : i # j /\ "none" \notin {rs[i].state, rs[j].state} => rs[i].key # rs[j].key

QInit ==
  /\ listing \in Listings
  /\ rows \in [Ids -> {r \in Row : r.state # "removed"}]
  /\ TitlesDistinct(rows)
  /\ walk = "ask" /\ cursor = NoCursor /\ from = NoCursor
  /\ ids = {} /\ page = <<>> /\ seen = <<>>
  /\ steady = {id \in Ids : Shown(id)}
  /\ restarted = FALSE /\ shortened = FALSE
  /\ changes = 0

-----------------------------------------------------------------------------
(* The rows change *)

Change(rs, id) ==
  /\ changes < MaxChanges /\ walk \notin {"done", "refused", "failed"}
  /\ TitlesDistinct(rs)
  /\ rows' = rs
  /\ changes' = changes + 1
  /\ steady' = steady \ {id}
  /\ UNCHANGED <<listing, walkVars>>

\* created_at is the start of the inserting transaction, which commits in any
\* order with others.
InsertRow(id, r) ==
  /\ rows[id].state = "none" /\ r.state = "live"
  /\ Change([rows EXCEPT ![id] = r], id)

\* An update moves an order to another status, a user or a product out of the
\* search, and a product to another price or title; a review has no filter.
UpdateRow(id, k, m) ==
  /\ rows[id].state = "live" /\ listing.table # "reviews"
  /\ k # rows[id].key => listing.table = "products"
  /\ Change([rows EXCEPT ![id].key = k, ![id].matches = m], id)

\* Reviews are deleted, products and users soft-deleted, orders stay.
RemoveRow(id) ==
  /\ rows[id].state = "live" /\ listing.table # "orders"
  /\ Change([rows EXCEPT ![id].state = "removed"], id)

-----------------------------------------------------------------------------
(* A page *)

ByDate == listing.sortBy = "createdAt"

\* date_trunc('milliseconds', ...), and what a JavaScript Date keeps.
Trunc(t) == t - (t % Micros)

Precedes(a, b) == IF listing.dir = "ASC" THEN a < b ELSE a > b

\* ORDER BY the sort column and the id.
SortKey(id) == IF ByDate THEN rows[id].at ELSE rows[id].key

Before(i, j) == \/ Precedes(SortKey(i), SortKey(j))
                \/ SortKey(i) = SortKey(j) /\ Precedes(i, j)

\* The sort value a cursor carries or stands for.
CursorOf(id) == [id |-> id, key |-> IF ByDate THEN Trunc(rows[id].at) ELSE rows[id].key]

\* The column the cursor is compared with; users compare the full timestamp.
ComparedKey(id) == IF listing.table = "users" THEN rows[id].at ELSE CursorOf(id).key

\* Variants of Beyond: without the id as tie-break, and with the cursor's row.
Beyond_NoTieBreak(id, c) == Precedes(c.key, ComparedKey(id))

Beyond_Inclusive(id, c) == \/ Precedes(c.key, ComparedKey(id))
                           \/ c.key = ComparedKey(id) /\ ~Precedes(id, c.id)

Beyond(id, c) == \/ Precedes(c.key, ComparedKey(id))
                 \/ c.key = ComparedKey(id) /\ Precedes(c.id, id)

\* The rows of a set in the order of the listing.
Sorted(S) ==
  CHOOSE q \in [1..Cardinality(S) -> S] :
    \A i, j \in 1..Cardinality(S) : i < j => Before(q[i], q[j])

\* The filters of the query.
Found(c) == {id \in Ids : Shown(id) /\ (c # NoCursor => Beyond(id, c))}

\* The query with take(limit + 1).
Fetched(c) ==
  LET all == Sorted(Found(c))
  IN  SubSeq(all, 1, IF Len(all) > listing.limit THEN listing.limit + 1 ELSE Len(all))

HasNextPage(f) == Len(f) > listing.limit

PageOf(f) == IF HasNextPage(f) THEN SubSeq(f, 1, listing.limit) ELSE f

NextCursor(f) == IF HasNextPage(f) THEN CursorOf(Last(PageOf(f))) ELSE NoCursor

\* The cursor of orders and products carries the sort value; that of reviews
\* and users is an id, looked up first: for users a missing one is a 400, for
\* reviews it is ignored and the listing starts again.
CarriesKey == listing.table \in {"orders", "products"}

Lookup ==
  /\ walk = "ask" /\ cursor # NoCursor /\ ~CarriesKey
  /\ LET found == rows[cursor.id].state = "live" IN
       /\ walk' = IF ~found /\ listing.table = "users" THEN "refused" ELSE "read"
       /\ from' = IF found THEN CursorOf(cursor.id) ELSE NoCursor
       /\ restarted' = (restarted \/ ~found)
  /\ UNCHANGED <<listing, rows, steady, changes, cursor, ids, page, seen, shortened>>

\* findProductOrFail: the product of the reviews has been removed.
ProductGone ==
  /\ walk = "ask" /\ listing.table = "reviews"
  /\ walk' = "refused"
  /\ UNCHANGED <<listing, rows, steady, changes, cursor, from, ids, page, seen, restarted, shortened>>

Answered(c) == IF listing.graph THEN "resolve" ELSE IF c = NoCursor THEN "done" ELSE "ask"

\* The page query can be asked, and the position it starts after.
QueryReady == walk = "read" \/ (walk = "ask" /\ (CarriesKey \/ cursor = NoCursor))

Start == IF walk = "read" THEN from ELSE cursor

ShowPage(f) ==
  /\ page' = PageOf(f)
  /\ seen' = seen \o PageOf(f)
  /\ cursor' = NextCursor(f)
  /\ walk' = Answered(NextCursor(f))
  /\ from' = NoCursor /\ ids' = {}
  /\ UNCHANGED <<listing, rows, steady, changes, restarted>>

\* A listing of one table is one statement. Orders take two, but page and
\* cursor are those of the first, and no row of it is ever removed.
ReadPage ==
  /\ QueryReady /\ listing.table # "reviews"
  /\ ShowPage(Fetched(Start))
  /\ UNCHANGED shortened

\* take with a joined table (review.user) is two statements: the ids of the
\* page come first,
SelectIds ==
  /\ QueryReady /\ listing.table = "reviews"
  /\ ids' = ToSet(Fetched(Start))
  /\ walk' = "rows" /\ from' = Start
  /\ UNCHANGED <<listing, rows, steady, changes, cursor, page, seen, restarted, shortened>>

\* and then the rows that still are there; whether there is a next page is
\* counted on these.
ReadRows ==
  /\ walk = "rows"
  /\ LET f == Sorted({id \in ids : Shown(id)}) IN
       /\ ShowPage(f)
       /\ shortened' = (shortened \/ (Cardinality(ids) > listing.limit /\ ~HasNextPage(f)))

-----------------------------------------------------------------------------
(* GraphQL *)

\* The items of the page ask for their orders and products, in one batch
\* each. An item whose product has been removed meanwhile fails the whole
\* answer.
Resolve ==
  /\ walk = "resolve"
  /\ \/ walk' = IF cursor = NoCursor THEN "done" ELSE "ask"
     \/ page # <<>> /\ walk' = "failed"
  /\ UNCHANGED <<listing, rows, steady, changes, cursor, from, ids, page, seen, restarted, shortened>>

WalkStep == Lookup \/ ProductGone \/ ReadPage \/ SelectIds \/ ReadRows \/ Resolve

QNext ==
  \/ WalkStep
  \/ \E id \in Ids : \/ \E r \in Row : InsertRow(id, r)
                     \/ \E k \in Keys, m \in BOOLEAN : UpdateRow(id, k, m)
                     \/ RemoveRow(id)

QSpec == QInit /\ [][QNext]_qvars

-----------------------------------------------------------------------------
(* Properties *)

SameMillisecond(i, j) == ByDate /\ Trunc(rows[i].at) = Trunc(rows[j].at)

Shares(id) == \E j \in Ids \ {id} : rows[j].state # "none" /\ SameMillisecond(id, j)

\* Rows that were there all along come in the order of the listing and so at
\* most once, whatever is inserted, changed or removed between two pages. Two
\* exceptions: rows of one millisecond, as the cursor does not tell them apart
\* (applyCursorPagination), but never for users, and reviews whose cursor row
\* was deleted (getReviews).
SeenInOrder ==
  \A i, j \in 1..Len(seen) :
    i < j /\ {seen[i], seen[j]} \subseteq steady /\ ~(restarted /\ listing.table = "reviews") =>
      \/ Before(seen[i], seen[j])
      \/ listing.table # "users" /\ SameMillisecond(seen[i], seen[j]) /\ Shares(seen[i])

\* A walk that ends has shown every row that was there all along, except one
\* that shares its millisecond with another, and except when a review of a
\* page was deleted between the page's two statements: the page then is no
\* longer than its limit, nextCursor is null and the walk ends there
\* (applyCursorPagination, getReviews, findAll).
NothingMissed ==
  walk = "done" /\ ~shortened => \A id \in steady : id \in ToSet(seen) \/ Shares(id)

-----------------------------------------------------------------------------
(* The inductive invariant behind the theorems of CatalogueProofs *)

QTypeOK ==
  /\ listing \in Listings
  /\ rows \in [Ids -> Row]
  /\ walk \in {"ask", "read", "rows", "resolve", "done", "refused", "failed"}
  /\ cursor \in Positions \cup {NoCursor} /\ from \in Positions \cup {NoCursor}
  /\ seen \in Seq(Ids)
  /\ steady \subseteq {id \in Ids : Shown(id)}
  /\ ids \subseteq Ids
  /\ restarted \in BOOLEAN /\ shortened \in BOOLEAN

\* A cursor names a row that was shown; its date never changes.
CursorReal ==
  cursor # NoCursor =>
    /\ cursor.id \in ToSet(seen) /\ rows[cursor.id].state # "none"
    /\ ByDate => cursor.key = Trunc(rows[cursor.id].at)

\* Where a walk without a cursor stands, and what a lookup leaves behind.
WalkConsistent ==
  /\ walk = "ask" /\ cursor = NoCursor => seen = <<>>
  /\ walk = "done" => cursor = NoCursor
  /\ walk = "read" =>
       /\ cursor # NoCursor
       /\ from = cursor \/ (from = NoCursor /\ restarted /\ listing.table = "reviews")
  /\ walk = "rows" =>
       /\ listing.table = "reviews"
       /\ from = cursor \/ (from = NoCursor /\ restarted)
       /\ cursor = NoCursor => seen = <<>>

\* The row is not after the position: of dates only the millisecond is known,
\* except for users, where the rows of the cursor's millisecond are skipped.
Passed(id, c) ==
  IF listing.table = "users"
    THEN id = c.id \/ Before(id, c.id)
    ELSE \/ Precedes(CursorOf(id).key, c.key)
         \/ CursorOf(id).key = c.key /\ (ByDate \/ id = c.id \/ Precedes(id, c.id))

\* The row is after the position.
Ahead(id, c) == \/ Precedes(c.key, CursorOf(id).key)
                \/ c.key = CursorOf(id).key /\ Precedes(c.id, id)

\* The steady rows seen are behind the cursor, those not seen ahead of it.
SeenBehind ==
  cursor # NoCursor /\ ~(restarted /\ listing.table = "reviews") =>
    \A i \in 1..Len(seen) : seen[i] \in steady => Passed(seen[i], cursor)

RestAhead ==
  \A id \in steady :
    \/ id \in ToSet(seen) \/ Shares(id) \/ shortened
    \/ IF cursor = NoCursor THEN walk \in {"ask", "rows", "refused"} ELSE Ahead(id, cursor)

\* Between the statements of a page of reviews: the ids chosen are beyond the
\* position, and a steady row beyond it is among them or after all of them,
\* when they are one more than the page holds.
IdsChosen ==
  walk = "rows" =>
    /\ \A y \in ids : rows[y].state # "none" /\ (from # NoCursor => Beyond(y, from))
    /\ \A x \in steady \ ids : (from # NoCursor => Beyond(x, from)) =>
         Cardinality(ids) > listing.limit /\ \A y \in ids : Before(y, x)

QInv ==
  /\ QTypeOK /\ CursorReal /\ WalkConsistent /\ SeenInOrder /\ SeenBehind /\ RestAhead
  /\ IdsChosen
=============================================================================
