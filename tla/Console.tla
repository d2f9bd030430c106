------------------------------- MODULE Console -------------------------------
(***************************************************************************)
(* The operations console in one tab: StoreService and the order form over *)
(* the session of the tab, and GET and POST /orders at the API.  Requests  *)
(* are answered in any order, late, or never, while the user changes the   *)
(* filters, orders, signs in and out, or goes to another page.             *)
(***************************************************************************)
EXTENDS Session, Sequences, SequencesExt, FiniteSets

CONSTANTS
    Staff,         \* the users with a staff role
    Customers,     \* customer records
    CustomerOf,    \* the customer_id claim of a user, or NoOne
    Statuses,      \* bound: the statuses that are chosen as a filter
    Limits,        \* of GET /orders
    InitialBook,   \* the orders table at first
    MaxOrders,     \* bound: rows of the orders table
    MaxLoads,      \* bound: GET /orders requests in flight
    MaxPosts       \* bound: POST /orders requests in flight

ASSUME UsersAssumption ==
    /\ Staff \subseteq Users
    /\ CustomerOf \in [Users -> Customers \cup {NoOne}]
ASSUME LimitsAssumption ==
    /\ Limits \subseteq Nat \ {0}
    /\ \E top \in Limits : \A l \in Limits : l <= top

OrderStatus == {"pending", "paid", "processing", "shipped", "delivered",
                "cancelled", "refunded"}

Rows == [id : Nat, customer : Customers, status : OrderStatus]

\* The rows that the database is seeded with are numbered from 1.
ASSUME BookAssumption ==
    /\ InitialBook \subseteq Rows /\ IsFiniteSet(InitialBook)
    /\ \A row \in InitialBook : row.id <= Cardinality(InitialBook)

VARIABLES
    filter,       \* the status and limit signals
    loads,        \* GET /orders requests in flight, oldest first
    listed,       \* the orders signal: the rows of the last load, by id,
    added,        \* and those that createOrder has put in front of them
    loading,
    failed,       \* the error signal is set
    current,      \* the list is the answer to the newest load
    posts,        \* POST /orders requests in flight
    submitting,   \* of the form on the page
    book,         \* the orders table
    told,         \* orders whose creation this tab was told of
    crossed       \* the newest load and a POST were in flight together

storeVars == <<filter, loads, listed, added, loading, failed, current, posts,
               submitting, crossed>>
vars == <<sessionVars, storeVars, book, told>>

Filters == [status : Statuses \cup {"any"}, limit : Limits]

FirstFilter ==
    CHOOSE f \in Filters : f.status = "any" /\ \A l \in Limits : l <= f.limit

\* StoreService and the form start out empty.
Init ==
    /\ SessionInit
    /\ filter = FirstFilter
    /\ loads = <<>> /\ listed = {} /\ added = {} /\ loading = TRUE /\ failed = FALSE
    /\ current = FALSE
    /\ posts = <<>> /\ submitting = FALSE /\ crossed = FALSE
    /\ book = InitialBook /\ told = {}

-----------------------------------------------------------------------------
(* The API.                                                                *)

\* require_user, then scope_customer_id.
MayActFor(u, c) == u # NoOne /\ (u \in Staff \/ CustomerOf[u] = c)

\* The same without a customer: who has no claim is refused.
MayList(u) == \E c \in Customers : MayActFor(u, c)

\* list_order_rows: ORDER BY o.id LIMIT.
Listing(u, f) ==
    LET matches == {row \in book : /\ MayActFor(u, row.customer)
                                   /\ f.status \in {"any", row.status}}
    IN  {row \in matches : Cardinality({r \in matches : r.id < row.id}) < f.limit}

NewRow(c) == [id |-> Cardinality(book) + 1, customer |-> c, status |-> "pending"]

\* list_orders reads the table.
ServeLoad(i) ==
    /\ loads[i].state = "sent" /\ MayList(loads[i].as)
    /\ loads' = [loads EXCEPT ![i] =
                    [state |-> "listed", rows |-> Listing(@.as, @.filter),
                     newest |-> @.newest]]
    /\ UNCHANGED <<sessionVars, filter, listed, added, loading, failed, current,
                   posts, submitting, crossed, book, told>>

\* create_order commits the row.
ServePost(i) ==
    /\ posts[i].state = "sent" /\ MayActFor(posts[i].as, posts[i].customer)
    /\ Cardinality(book) < MaxOrders
    /\ book' = book \cup {NewRow(posts[i].customer)}
    /\ posts' = [posts EXCEPT ![i] =
                    [state |-> "created", row |-> NewRow(@.customer),
                     awaited |-> @.awaited]]
    /\ UNCHANGED <<sessionVars, filter, loads, listed, added, loading, failed,
                   current, submitting, crossed, told>>

\* Another tab orders, or a request commits whose answer nobody awaits.
OrderElsewhere(c) ==
    /\ Cardinality(book) < MaxOrders
    /\ book' = book \cup {NewRow(c)}
    /\ UNCHANGED <<sessionVars, storeVars, told>>

-----------------------------------------------------------------------------
(* The console.                                                            *)

\* loadOrders: the interceptor adds the token.
LoadOrders(f) ==
    /\ Len(loads) < MaxLoads
    /\ loads' = Append([i \in DOMAIN loads |-> [loads[i] EXCEPT !.newest = FALSE]],
                       [state |-> "sent", as |-> token, filter |-> f,
                        newest |-> TRUE])
    /\ loading' = TRUE
    /\ current' = FALSE
    /\ crossed' = (posts # <<>>)
    /\ UNCHANGED <<sessionVars, listed, added, failed, book, told>>

\* The route of the console is opened: init, and a new form.
OpenConsole ==
    /\ page = "shown"
    /\ LoadOrders(filter)
    /\ posts' = [i \in DOMAIN posts |-> [posts[i] EXCEPT !.awaited = FALSE]]
    /\ submitting' = FALSE
    /\ UNCHANGED filter

\* refresh: the Refresh button is disabled while loading is set, the Retry
\* button is there while the error is.
Refresh ==
    /\ page = "shown"
    /\ ~loading \/ failed
    /\ LoadOrders(filter)
    /\ UNCHANGED <<filter, posts, submitting>>

\* setStatus, setLimit, clearFilters
SetFilter(f) ==
    /\ page = "shown" /\ f # filter
    /\ f.status = filter.status \/ f.limit = filter.limit
    /\ filter' = f
    /\ LoadOrders(f)
    /\ UNCHANGED <<posts, submitting>>

\* A load is answered: its rows are the list now, whichever load it is.
Loaded(i) ==
    /\ loads[i].state = "listed"
    /\ listed' = loads[i].rows /\ added' = {}
    /\ current' = loads[i].newest
    /\ loading' = FALSE /\ failed' = FALSE
    /\ loads' = RemoveAt(loads, i)
    /\ UNCHANGED <<sessionVars, filter, posts, submitting, crossed, book, told>>

\* Mistake: loading is left on.
LoadFailsQuietly(i) ==
    /\ listed' = {} /\ added' = {}
    /\ current' = FALSE
    /\ failed' = TRUE
    /\ loads' = RemoveAt(loads, i)
    /\ UNCHANGED <<sessionVars, filter, loading, posts, submitting, crossed, book, told>>

\* It is refused, fails, or its answer is lost: an error takes the list's place.
LoadFails(i) ==
    /\ listed' = {} /\ added' = {}
    /\ current' = FALSE
    /\ loading' = FALSE /\ failed' = TRUE
    /\ loads' = RemoveAt(loads, i)
    /\ UNCHANGED <<sessionVars, filter, posts, submitting, crossed, book, told>>

\* submit
Submit(c) ==
    /\ page = "shown" /\ ~submitting /\ Len(posts) < MaxPosts
    /\ submitting' = TRUE
    /\ posts' = Append(posts, [state |-> "sent", as |-> token, customer |-> c,
                               awaited |-> TRUE])
    /\ crossed' = (crossed \/ \E i \in DOMAIN loads : loads[i].newest)
    /\ UNCHANGED <<sessionVars, filter, loads, listed, added, loading, failed,
                   current, book, told>>

\* The form that sent it, when it is still there, can be submitted again.
Answered(i) ==
    /\ submitting' = (submitting /\ ~posts[i].awaited)
    /\ posts' = RemoveAt(posts, i)
    /\ UNCHANGED <<sessionVars, filter, loads, listed, loading, failed, current,
                   crossed, book>>

\* Mistake: the order only shows up with the next load.
CreatedNotListed(i) ==
    /\ posts[i].state = "created"
    /\ told' = told \cup {posts[i].row}
    /\ Answered(i) /\ UNCHANGED added

\* createOrder: the new order is put in front of the list.
Created(i) ==
    /\ posts[i].state = "created"
    /\ added' = added \cup {posts[i].row}
    /\ told' = told \cup {posts[i].row}
    /\ Answered(i)

\* 'Order was not created': refused, failed, or the answer was lost.
PostFails(i) == Answered(i) /\ UNCHANGED <<added, told>>

\* Mistake: what the page holds outlives it.
LeaveKeepsStore == Depart /\ UNCHANGED <<storeVars, book, told>>

\* The page is left: what it holds is gone, and its requests with it.
Leave ==
    /\ Depart
    /\ filter' = FirstFilter
    /\ loads' = <<>> /\ listed' = {} /\ added' = {} /\ loading' = TRUE
    /\ failed' = FALSE /\ current' = FALSE
    /\ posts' = <<>> /\ submitting' = FALSE /\ crossed' = FALSE
    /\ UNCHANGED <<book, told>>

-----------------------------------------------------------------------------

SettleLoad == \E i \in DOMAIN loads : Loaded(i) \/ LoadFails(i)

SettlePost == \E i \in DOMAIN posts : Created(i) \/ PostFails(i)

Next ==
    \/ Leave
    \/ (Arrive \/ Exchange \/ LoadUser \/ Logout) /\ UNCHANGED <<storeVars, book, told>>
    \/ OpenConsole \/ Refresh \/ (\E f \in Filters : SetFilter(f))
    \/ \E c \in Customers : Submit(c) \/ OrderElsewhere(c)
    \/ \E i \in DOMAIN loads : ServeLoad(i)
    \/ \E i \in DOMAIN posts : ServePost(i)
    \/ SettleLoad \/ SettlePost

Spec == Init /\ [][Next]_vars

\* The browser ends every request: with its answer or with an error.
FairSpec == Spec /\ WF_vars(SettleLoad) /\ WF_vars(SettlePost)

-----------------------------------------------------------------------------

\* The console shows who is signed in only rows that the API lets that user
\* see, also after another user has signed out in the tab with requests still in
\* flight.
RowsBelongToSession ==
    page = "shown" /\ token # NoOne =>
        \A row \in listed \cup added : MayActFor(token, row.customer)

\* When the list is the answer to the newest load, and no POST was in flight
\* together with that load, it has every order the tab was told of that a load
\* would return now, and none twice.  (When they cross, an order can be missing,
\* or be there two times; when an older load answers after the newest one, the
\* list is the older one's.)
ListKeepsUp ==
    current /\ ~crossed =>
        /\ listed \cap added = {}
        /\ told \cap Listing(token, filter) \subseteq listed \cup added

\* The console does not stay loading and the form does not stay blocked.
Settles ==
    /\ loads # <<>> /\ loading ~> ~loading \/ page # "shown"
    /\ submitting ~> ~submitting \/ page # "shown"
=============================================================================
