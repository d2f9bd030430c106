---------------------------- MODULE ConsoleProofs ----------------------------
(***************************************************************************)
(* A tab never shows its user rows of another one, and never exchanges one *)
(* user for another, for any number of users, sign-ins and requests.  The  *)
(* invariant says what is in flight in a tab: requests of the user who is  *)
(* signed in now, or who has just signed out, and of which the newest load *)
(* is for the filters on the page; and that no sign-in is pending while    *)
(* someone is signed in.  The answer to the newest load has the orders the *)
(* tab was told of, unless one of them and that load are in flight         *)
(* together.                                                               *)
(***************************************************************************)
EXTENDS Console, FiniteSetTheorems, SequenceTheorems, TLAPS

Accounts == Users \cup {NoOne}

Loads ==
    [state : {"sent"}, as : Accounts, filter : Filters, newest : BOOLEAN]
    \cup [state : {"listed"}, rows : SUBSET Rows, newest : BOOLEAN]

Posts ==
    [state : {"sent"}, as : Accounts, customer : Customers, awaited : BOOLEAN]
    \cup [state : {"created"}, row : Rows, awaited : BOOLEAN]

SessionTypeOK ==
    /\ page \in {"away", "exchanging", "asking", "shown", "blank"}
    /\ token \in Accounts
    /\ user \in Accounts
    /\ attempt \in Nat
    /\ stored \in Nat

StoreTypeOK ==
    /\ filter \in Filters
    /\ loads \in Seq(Loads)
    /\ posts \in Seq(Posts)
    /\ book \subseteq Rows /\ IsFiniteSet(book)

\* Who is signed in has no sign-in pending, so a return changes nothing.
SignInInv ==
    /\ token # NoOne \/ page = "exchanging" => stored = 0
    /\ page = "exchanging" => token = NoOne

\* Nothing outlives the page.
PageInv == page # "shown" => loads = <<>> /\ posts = <<>> /\ listed = {} /\ added = {}

\* What is left on a page after a sign-out is nobody's.
MaySee(rows) == token # NoOne => \A row \in rows : MayActFor(token, row.customer)

LoadInv(l) ==
    /\ l.state = "sent" => /\ l.as = token \/ token = NoOne
                           /\ l.newest => l.filter = filter
    /\ l.state = "listed" => MaySee(l.rows)

PostInv(p) ==
    /\ p.state = "sent" => p.as = token \/ token = NoOne
    /\ p.state = "created" => MaySee({p.row})

StoreInv ==
    /\ \A i \in DOMAIN loads : LoadInv(loads[i])
    /\ \A i \in DOMAIN posts : PostInv(posts[i])
    /\ MaySee(listed \cup added)

IInv == SessionTypeOK /\ StoreTypeOK /\ SignInInv /\ PageInv /\ StoreInv

-----------------------------------------------------------------------------

\* What is left when a request has been answered was there before.
LEMMA RemoveAtKeeps ==
    ASSUME NEW S, NEW s \in Seq(S), NEW i \in DOMAIN s
    PROVE  /\ RemoveAt(s, i) \in Seq(S)
           /\ \A k \in DOMAIN RemoveAt(s, i) :
                 \E j \in DOMAIN s : RemoveAt(s, i)[k] = s[j]
<1> DEFINE a == SubSeq(s, 1, i - 1)
           b == SubSeq(s, i + 1, Len(s))
<1>1. i \in 1..Len(s) /\ Len(s) \in Nat /\ \A k \in 1..Len(s) : s[k] \in S
  OBVIOUS
<1>2. /\ a \in Seq(S) /\ Len(a) = i - 1
      /\ \A k \in 1..(i - 1) : a[k] = s[k]
  <2>1. \A k \in 1..(i - 1) : s[k] \in S
    BY <1>1
  <2> QED
    BY <1>1, <2>1, SubSeqProperties
<1>3. /\ b \in Seq(S) /\ Len(b) = Len(s) - i
      /\ \A k \in 1..(Len(s) - i) : b[k] = s[k + i]
  <2>1. \A k \in (i + 1)..Len(s) : s[k] \in S
    BY <1>1
  <2> QED
    BY <1>1, <2>1, SubSeqProperties
<1> HIDE DEF a, b
<1>4. /\ a \o b \in Seq(S) /\ Len(a \o b) = Len(a) + Len(b)
      /\ \A k \in 1..(Len(a) + Len(b)) :
            (a \o b)[k] = IF k <= Len(a) THEN a[k] ELSE b[k - Len(a)]
  BY <1>2, <1>3, ConcatProperties
<1>5. Len(a) + Len(b) = Len(s) - 1
  BY <1>1, <1>2, <1>3
<1>6. ASSUME NEW k \in 1..(Len(s) - 1)
      PROVE  \E j \in DOMAIN s : (a \o b)[k] = s[j]
  <2>1. CASE k <= i - 1
    <3>1. (a \o b)[k] = s[k]
      BY <1>1, <1>2, <1>4, <1>5, <2>1
    <3> QED
      BY <1>1, <2>1, <3>1
  <2>2. CASE ~(k <= i - 1)
    <3>1. k - (i - 1) \in 1..(Len(s) - i) /\ (k - (i - 1)) + i = k + 1
      BY <1>1, <2>2
    <3>2. b[k - (i - 1)] = s[k + 1]
      BY <1>3, <3>1
    <3>3. (a \o b)[k] = b[k - (i - 1)]
      BY <1>1, <1>2, <1>4, <1>5, <2>2
    <3>4. k + 1 \in 1..Len(s)
      BY <1>1
    <3> QED
      BY <1>1, <3>2, <3>3, <3>4
  <2> QED
    BY <2>1, <2>2
<1>7. RemoveAt(s, i) = a \o b
  BY DEF RemoveAt, a, b
<1>8. DOMAIN (a \o b) = 1..(Len(s) - 1)
  BY <1>4, <1>5
<1> QED
  BY <1>4, <1>6, <1>7, <1>8

\* The console starts with filters that it offers.
LEMMA FirstFilterIsOne == FirstFilter \in Filters
<1>1. PICK top \in Limits : \A l \in Limits : l <= top
  BY LimitsAssumption
<1>2. [status |-> "any", limit |-> top] \in Filters
  BY <1>1 DEF Filters
<1> QED
  BY <1>1, <1>2 DEF FirstFilter

\* What list_orders answers may be seen by who asked.
LEMMA ListingIsScoped ==
    ASSUME NEW u, NEW f, book \subseteq Rows
    PROVE  /\ Listing(u, f) \subseteq Rows
           /\ \A row \in Listing(u, f) : MayActFor(u, row.customer)
BY DEF Listing

\* Orders only come after those that are there: an order that a load would
\* return has been within the limit since it was created.
LEMMA ListingShrinks ==
    ASSUME StoreTypeOK, StoreTypeOK', UNCHANGED <<token, filter>>, book \subseteq book'
    PROVE  book \cap Listing(token, filter)' \subseteq Listing(token, filter)
<1> DEFINE Matches(b) == {row \in b : /\ MayActFor(token, row.customer)
                                     /\ filter.status \in {"any", row.status}}
           Below(b, row) == {r \in Matches(b) : r.id < row.id}
<1>1. SUFFICES ASSUME NEW row \in book, row \in Listing(token, filter)'
               PROVE  row \in Listing(token, filter)
  OBVIOUS
<1>2. row \in Matches(book') /\ Cardinality(Below(book', row)) < filter.limit
  BY <1>1 DEF Listing
<1>3. Below(book, row) \subseteq Below(book', row) /\ Below(book', row) \subseteq book'
  OBVIOUS
<1>4. IsFiniteSet(Below(book', row)) /\ IsFiniteSet(Below(book, row))
  BY <1>3, FS_Subset DEF StoreTypeOK
<1>5. Cardinality(Below(book, row)) <= Cardinality(Below(book', row))
  BY <1>3, <1>4, FS_Subset
<1>6. /\ Cardinality(Below(book, row)) \in Nat /\ Cardinality(Below(book', row)) \in Nat
      /\ filter.limit \in Nat
  BY <1>4, FS_CardinalityType, LimitsAssumption DEF StoreTypeOK, Filters
<1>7. Cardinality(Below(book, row)) < filter.limit
  BY <1>2, <1>5, <1>6
<1> QED
  BY <1>1, <1>2, <1>7 DEF Listing

\* A new order is a row.
LEMMA NewRowIsRow ==
    ASSUME StoreTypeOK, NEW c \in Customers
    PROVE  /\ NewRow(c) \in Rows /\ NewRow(c).customer = c
           /\ book \cup {NewRow(c)} \subseteq Rows
           /\ IsFiniteSet(book \cup {NewRow(c)})
<1>1. Cardinality(book) + 1 \in Nat
  BY FS_CardinalityType DEF StoreTypeOK
<1>2. IsFiniteSet(book \cup {NewRow(c)})
  BY FS_AddElement DEF StoreTypeOK
<1>3. NewRow(c) \in Rows /\ NewRow(c).customer = c
  BY <1>1 DEF NewRow, Rows, OrderStatus
<1> QED
  BY <1>2, <1>3 DEF StoreTypeOK
-----------------------------------------------------------------------------
(* The session.                                                            *)

SessionInv == SessionTypeOK /\ SignInInv

\* A tab starts signed out, with no sign-in pending.
LEMMA SessionStarts == SessionInit => SessionInv
BY DEF SessionInit, SessionInv, SessionTypeOK, SignInInv, Accounts

\* A sign-in is only begun by who is signed out, and only completed once.
LEMMA SessionStep ==
    ASSUME SessionInv, SessionNext \/ UNCHANGED sessionVars
    PROVE  SessionInv' /\ (token # NoOne => token' \in {token, NoOne})
<1> USE NoOneAssumption DEF SessionInv, SessionTypeOK, SignInInv, Accounts
<1>1. CASE Depart
  BY <1>1 DEF Depart, Unload, Login
<1>2. CASE Open
  BY <1>2 DEF Open
<1>3. ASSUME NEW n \in 1..attempt, Return(n) PROVE SessionInv' /\ token' = token
  BY <1>3 DEF Return
<1>4. CASE Exchange
  BY <1>4 DEF Exchange
<1>5. CASE LoadUser
  BY <1>5 DEF LoadUser, Clear
<1>6. CASE Logout
  BY <1>6 DEF Logout, Clear
<1>7. CASE UNCHANGED sessionVars
  BY <1>7 DEF sessionVars
<1> QED
  BY <1>1, <1>2, <1>3, <1>4, <1>5, <1>6, <1>7 DEF SessionNext, Arrive

\* In the console too, the session takes only its own steps.
LEMMA SessionMoves == [Next]_vars => SessionNext \/ UNCHANGED sessionVars
<1> SUFFICES ASSUME Next PROVE SessionNext \/ UNCHANGED sessionVars
  BY DEF vars
<1> QED
  BY DEF Next, SessionNext, Leave, OpenConsole, Refresh, SetFilter, LoadOrders, Submit,
         OrderElsewhere, ServeLoad, ServePost, SettleLoad, SettlePost, Loaded, LoadFails,
         Created, PostFails, Answered

\* A user stays until a sign-out: no return of Keycloak to a page of the tab's
\* history can put another one in their place.
THEOREM OneUserPerSession == Spec => SessionIsOneUser
<1>1. Init => SessionInv
  BY SessionStarts DEF Init
<1>2. SessionInv /\ [Next]_vars => SessionInv'
  BY SessionStep, SessionMoves
<1>3. SessionInv /\ [Next]_vars => [token # NoOne => token' \in {token, NoOne}]_sessionVars
  BY SessionStep, SessionMoves
<1> QED
  BY <1>1, <1>2, <1>3, PTL DEF Spec, SessionIsOneUser

-----------------------------------------------------------------------------
(* The store.                                                              *)

\* Loads that are no longer the newest keep their user and their rows.
LEMMA LoadOrdersKeeps ==
    ASSUME IInv, NEW f \in Filters, LoadOrders(f), filter' = f
    PROVE  /\ loads' \in Seq(Loads)
           /\ \A i \in DOMAIN loads' : LoadInv(loads[i])'
<1> DEFINE Aged(l) == [l EXCEPT !.newest = FALSE]
           old == [i \in DOMAIN loads |-> Aged(loads[i])]
           new == [state |-> "sent", as |-> token, filter |-> f, newest |-> TRUE]
<1>1. ASSUME NEW l \in Loads
      PROVE  /\ Aged(l) \in Loads /\ ~Aged(l).newest
             /\ Aged(l).state = l.state
             /\ l.state = "sent" => Aged(l).as = l.as
             /\ l.state = "listed" => Aged(l).rows = l.rows
  BY DEF Loads
<1>2. new \in Loads
  BY DEF Loads, IInv, SessionTypeOK
<1>3. loads \in Seq(Loads) /\ \A i \in DOMAIN loads : loads[i] \in Loads
  BY DEF IInv, StoreTypeOK
<1> HIDE DEF Aged, new
<1>4. old \in Seq(Loads) /\ Len(old) = Len(loads)
  BY <1>1, <1>3
<1>5. loads' = Append(old, new)
  BY DEF LoadOrders, Aged, new
<1>6. loads' \in Seq(Loads) /\ DOMAIN loads' = 1..(Len(loads) + 1)
  BY <1>2, <1>4, <1>5
<1>7. token' = token
  BY DEF LoadOrders, sessionVars
<1>8. ASSUME NEW i \in DOMAIN loads' PROVE LoadInv(loads[i])'
  <2>1. CASE i \in DOMAIN loads
    <3>1. loads'[i] = Aged(loads[i])
      BY <1>3, <1>4, <1>5, <2>1
    <3>2. LoadInv(loads[i])
      BY <2>1 DEF IInv, StoreInv
    <3> QED
      BY <1>1, <1>3, <1>7, <2>1, <3>1, <3>2 DEF LoadInv, MaySee
  <2>2. CASE i = Len(loads) + 1
    <3>1. loads'[i] = new
      BY <1>4, <1>5, <2>2
    <3> QED
      BY <1>7, <3>1 DEF new, LoadInv
  <2> QED
    BY <1>3, <1>6, <2>1, <2>2
<1> QED
  BY <1>6, <1>8

\* The console starts empty.
LEMMA StoreStarts == Init => IInv
<1> SUFFICES ASSUME Init PROVE IInv
  OBVIOUS
<1>1. SessionInv
  BY SessionStarts DEF Init
<1>2. StoreTypeOK
  BY BookAssumption, FirstFilterIsOne DEF Init, StoreTypeOK
<1> QED
  BY <1>1, <1>2 DEF IInv, SessionInv, Init, PageInv, StoreInv, MaySee

StorePart == StoreTypeOK /\ PageInv /\ StoreInv

\* A load is sent with the token and the filters of the page.
LEMMA LoadOrdersStep ==
    ASSUME IInv, OpenConsole \/ Refresh \/ \E f \in Filters : SetFilter(f)
    PROVE  StorePart'
<1>1. PICK f \in Filters : LoadOrders(f) /\ filter' = f /\ page = "shown"
  BY DEF OpenConsole, Refresh, SetFilter, IInv, StoreTypeOK
<1>2. /\ loads' \in Seq(Loads)
      /\ \A i \in DOMAIN loads' : LoadInv(loads[i])'
  BY <1>1, LoadOrdersKeeps
<1>3. UNCHANGED <<sessionVars, listed, added, book, told>> /\ ~current'
  BY <1>1 DEF LoadOrders
<1>4. /\ posts' \in Seq(Posts)
      /\ \A i \in DOMAIN posts' : PostInv(posts[i])'
  <2>1. CASE UNCHANGED posts
    BY <1>3, <2>1 DEF IInv, StoreTypeOK, StoreInv, PostInv, MaySee, sessionVars
  <2>2. CASE OpenConsole
    <3> DEFINE Left(p) == [p EXCEPT !.awaited = FALSE]
    <3>1. ASSUME NEW p \in Posts
          PROVE  /\ Left(p) \in Posts /\ Left(p).state = p.state
                 /\ p.state = "sent" => Left(p).as = p.as
                 /\ p.state = "created" => Left(p).row = p.row
      BY DEF Posts
    <3>2. posts \in Seq(Posts) /\ \A i \in DOMAIN posts : posts[i] \in Posts
      BY DEF IInv, StoreTypeOK
    <3> HIDE DEF Left
    <3>3. posts' = [i \in DOMAIN posts |-> Left(posts[i])]
      BY <2>2 DEF OpenConsole, Left
    <3>4. posts' \in Seq(Posts) /\ DOMAIN posts' = DOMAIN posts
      BY <3>1, <3>2, <3>3
    <3>5. ASSUME NEW i \in DOMAIN posts' PROVE PostInv(posts[i])'
      BY <1>3, <3>1, <3>2, <3>3, <3>4 DEF IInv, StoreInv, PostInv, MaySee, sessionVars
    <3> QED
      BY <3>4, <3>5
  <2> QED
    BY <2>1, <2>2 DEF Refresh, SetFilter
<1> QED
  BY <1>1, <1>2, <1>3, <1>4
  DEF StorePart, IInv, StoreTypeOK, StoreInv, PageInv, MaySee, sessionVars

\* The API reads and writes for the user whose token the request carries.
LEMMA ServeStep ==
    ASSUME IInv,
           \/ \E i \in DOMAIN loads : ServeLoad(i)
           \/ \E i \in DOMAIN posts : ServePost(i)
           \/ \E c \in Customers : OrderElsewhere(c)
    PROVE  StorePart'
<1> USE DEF IInv, StoreTypeOK
<1>1. ASSUME NEW i \in DOMAIN loads, ServeLoad(i) PROVE StorePart'
  <2> DEFINE answer == [state |-> "listed", rows |-> Listing(loads[i].as, loads[i].filter),
                        newest |-> loads[i].newest]
  <2>1. loads[i] \in Loads /\ loads[i].state = "sent" /\ LoadInv(loads[i])
    BY <1>1 DEF ServeLoad, StoreInv
  <2>2. answer \in Loads
    BY <2>1, ListingIsScoped DEF Loads
  <2>3. MaySee(answer.rows)
    BY <2>1, ListingIsScoped DEF LoadInv, MaySee
  <2>4. answer.state = "listed"
    OBVIOUS
  <2>5. loads' = [loads EXCEPT ![i] = answer]
    BY <1>1 DEF ServeLoad
  <2> HIDE DEF answer
  <2>6. loads' \in Seq(Loads)
    BY <2>2, <2>5
  <2>7. ASSUME NEW j \in DOMAIN loads' PROVE LoadInv(loads[j])'
    BY <1>1, <2>3, <2>4, <2>5, <2>6 DEF ServeLoad, StoreInv, LoadInv, MaySee, sessionVars
  <2> QED
    BY <1>1, <2>6, <2>7
    DEF ServeLoad, StorePart, PageInv, StoreInv, PostInv, MaySee, sessionVars
<1>2. ASSUME NEW i \in DOMAIN posts, ServePost(i) PROVE StorePart'
  <2> DEFINE row == NewRow(posts[i].customer)
             answer == [state |-> "created", row |-> row, awaited |-> posts[i].awaited]
  <2>1. posts[i] \in Posts /\ posts[i].state = "sent" /\ PostInv(posts[i])
    BY <1>2 DEF ServePost, StoreInv
  <2>2. posts[i].customer \in Customers /\ posts[i].awaited \in BOOLEAN
    BY <2>1 DEF Posts
  <2>3. /\ row \in Rows /\ row.customer = posts[i].customer
        /\ book \cup {row} \subseteq Rows /\ IsFiniteSet(book \cup {row})
    BY <2>2, NewRowIsRow
  <2>4. token # NoOne => MayActFor(token, row.customer)
    BY <1>2, <2>1, <2>3 DEF ServePost, PostInv
  <2>5. posts' = [posts EXCEPT ![i] = answer] /\ book' = book \cup {row}
    BY <1>2 DEF ServePost
  <2> HIDE DEF row
  <2>6. answer \in Posts /\ answer.state = "created" /\ MaySee({answer.row})
    BY <2>2, <2>3, <2>4 DEF Posts, MaySee
  <2> HIDE DEF answer
  <2>7. posts' \in Seq(Posts)
    BY <2>5, <2>6
  <2>8. ASSUME NEW j \in DOMAIN posts' PROVE PostInv(posts[j])'
    BY <1>2, <2>5, <2>6, <2>7 DEF ServePost, StoreInv, PostInv, MaySee, sessionVars
  <2>9. page = "shown"
    BY DEF PageInv
  <2>10. UNCHANGED <<sessionVars, filter, loads, listed, added, current>>
    BY <1>2 DEF ServePost
  <2>11. StoreTypeOK' /\ PageInv'
    BY <2>3, <2>5, <2>7, <2>9, <2>10 DEF PageInv, sessionVars
  <2>12. StoreInv'
    BY <2>8, <2>10 DEF StoreInv, LoadInv, MaySee, sessionVars
  <2> QED
    BY <2>11, <2>12 DEF StorePart
<1>3. ASSUME NEW c \in Customers, OrderElsewhere(c) PROVE StorePart'
  BY <1>3, NewRowIsRow
  DEF OrderElsewhere, StorePart, PageInv, StoreInv, LoadInv, PostInv, MaySee,
      sessionVars, storeVars
<1> QED
  BY <1>1, <1>2, <1>3

\* An answer brings rows that were read for the user of the page.
LEMMA SettleStep ==
    ASSUME IInv, SettleLoad \/ SettlePost
    PROVE  StorePart'
<1> USE DEF IInv, StoreTypeOK
<1>1. ASSUME NEW i \in DOMAIN loads, Loaded(i) \/ LoadFails(i) PROVE StorePart'
  <2>1. /\ loads' = RemoveAt(loads, i)
        /\ UNCHANGED <<sessionVars, filter, posts, book>>
    BY <1>1 DEF Loaded, LoadFails
  <2>2. /\ loads' \in Seq(Loads)
        /\ \A k \in DOMAIN loads' : \E j \in DOMAIN loads : loads'[k] = loads[j]
    BY <2>1, RemoveAtKeeps
  <2>3. LoadInv(loads[i])
    BY DEF StoreInv
  <2>4. \A k \in DOMAIN loads' : LoadInv(loads[k])'
    BY <2>1, <2>2 DEF StoreInv, LoadInv, MaySee, sessionVars
  <2>5. MaySee(listed \cup added)'
    BY <1>1, <2>1, <2>3 DEF Loaded, LoadFails, LoadInv, MaySee, sessionVars
  <2>6. page = "shown"
    BY DEF PageInv
  <2> QED
    BY <2>1, <2>2, <2>4, <2>5, <2>6
    DEF StorePart, PageInv, StoreInv, PostInv, MaySee, sessionVars
<1>2. ASSUME NEW i \in DOMAIN posts, Created(i) \/ PostFails(i) PROVE StorePart'
  <2>1. /\ posts' = RemoveAt(posts, i)
        /\ UNCHANGED <<sessionVars, filter, loads, listed, current, book>>
    BY <1>2 DEF Created, PostFails, Answered
  <2>2. /\ posts' \in Seq(Posts)
        /\ \A k \in DOMAIN posts' : \E j \in DOMAIN posts : posts'[k] = posts[j]
    BY <2>1, RemoveAtKeeps
  <2>3. PostInv(posts[i])
    BY DEF StoreInv
  <2>4. \A k \in DOMAIN posts' : PostInv(posts[k])'
    BY <2>1, <2>2 DEF StoreInv, PostInv, MaySee, sessionVars
  <2>5. MaySee(listed \cup added)'
    BY <1>2, <2>1, <2>3 DEF Created, PostFails, StoreInv, PostInv, MaySee, sessionVars
  <2>6. page = "shown"
    BY DEF PageInv
  <2> QED
    BY <2>1, <2>2, <2>4, <2>5, <2>6
    DEF StorePart, PageInv, StoreInv, LoadInv, MaySee, sessionVars
<1> QED
  BY <1>1, <1>2 DEF SettleLoad, SettlePost

\* A submitted order carries the token of the page.
LEMMA SubmitStep ==
    ASSUME IInv, NEW c \in Customers, Submit(c)
    PROVE  StorePart'
<1> USE DEF IInv, StoreTypeOK
<1> DEFINE new == [state |-> "sent", as |-> token, customer |-> c, awaited |-> TRUE]
<1>1. new \in Posts /\ new.state = "sent" /\ new.as = token
  BY DEF Posts, SessionTypeOK
<1>2. posts' = Append(posts, new) /\ page = "shown"
  BY DEF Submit
<1> HIDE DEF new
<1>3. posts' \in Seq(Posts)
  BY <1>1, <1>2
<1>4. ASSUME NEW i \in DOMAIN posts' PROVE PostInv(posts[i])'
  BY <1>1, <1>2, <1>3 DEF Submit, StoreInv, PostInv, MaySee, sessionVars
<1> QED
  BY <1>2, <1>3, <1>4 DEF Submit, StorePart, PageInv, StoreInv, LoadInv, MaySee, sessionVars

SessionPart ==
    \/ Leave
    \/ (Arrive \/ Exchange \/ LoadUser \/ Logout) /\ UNCHANGED <<storeVars, book, told>>

\* While there is something on the page, the token only gives way to none.
LEMMA SessionKeepsStore ==
    ASSUME IInv, SessionPart
    PROVE  StorePart'
<1> USE DEF IInv, StoreTypeOK
<1>1. CASE Leave
  BY <1>1, FirstFilterIsOne DEF Leave, StorePart, PageInv, StoreInv, MaySee
<1>2. CASE (Arrive \/ Exchange \/ LoadUser \/ Logout) /\ UNCHANGED <<storeVars, book, told>>
  <2>1. CASE Arrive \/ Exchange \/ LoadUser
    <3>1. page # "shown"
      BY <2>1 DEF Arrive, Open, Return, Exchange, LoadUser
    <3> QED
      BY <1>2, <3>1 DEF PageInv, StorePart, StoreInv, MaySee, storeVars
  <2>2. CASE Logout
    <3>1. page' = page /\ token' = NoOne
      BY <2>2 DEF Logout, Clear
    <3>2. StoreInv'
      BY <1>2, <3>1 DEF StoreInv, LoadInv, PostInv, MaySee, storeVars
    <3> QED
      BY <1>2, <3>1, <3>2 DEF PageInv, StorePart, storeVars
  <2> QED
    BY <1>2, <2>1, <2>2
<1> QED
  BY <1>1, <1>2 DEF SessionPart

\* Every step keeps the invariant.
LEMMA StoreStep == IInv /\ [Next]_vars => IInv'
<1> SUFFICES ASSUME IInv, [Next]_vars PROVE IInv'
  OBVIOUS
<1>1. SessionInv'
  BY SessionMoves, SessionStep DEF IInv, SessionInv
<1>2. StorePart'
  <2>1. CASE Next
    <3>1. CASE SessionPart
      BY <3>1, SessionKeepsStore
    <3>2. CASE OpenConsole \/ Refresh \/ \E f \in Filters : SetFilter(f)
      BY <3>2, LoadOrdersStep
    <3>3. ASSUME NEW c \in Customers, Submit(c) PROVE StorePart'
      BY <3>3, SubmitStep
    <3>4. ASSUME NEW c \in Customers, OrderElsewhere(c) PROVE StorePart'
      BY <3>4, ServeStep
    <3>5. CASE \E i \in DOMAIN loads : ServeLoad(i)
      BY <3>5, ServeStep
    <3>6. CASE \E i \in DOMAIN posts : ServePost(i)
      BY <3>6, ServeStep
    <3>7. CASE SettleLoad \/ SettlePost
      BY <3>7, SettleStep
    <3> QED
      BY <2>1, <3>1, <3>2, <3>3, <3>4, <3>5, <3>6, <3>7 DEF Next, SessionPart
  <2>2. CASE UNCHANGED vars
    BY <2>2 DEF IInv, StorePart, StoreTypeOK, PageInv, StoreInv, LoadInv, PostInv, MaySee,
                vars, sessionVars, storeVars
  <2> QED
    BY <2>1, <2>2
<1> QED
  BY <1>1, <1>2 DEF IInv, SessionInv, StorePart

\* No tab shows its user a row of somebody else's, through sign-outs, sign-ins
\* and answers that come late.
THEOREM RowsAreScoped == Spec => []RowsBelongToSession
<1>1. IInv => RowsBelongToSession
  BY DEF IInv, StoreInv, MaySee, RowsBelongToSession
<1> QED
  BY StoreStarts, StoreStep, <1>1, PTL DEF Spec

-----------------------------------------------------------------------------
(* The list.  An order is new to the tables when it is created, so it can  *)
(* be in front of the list and in it only when the load that brought the   *)
(* list was answered after the order was committed.                        *)

\* Rows are numbered in the order they come, and the tab has none that is not
\* in the table.
RowsInv ==
    /\ \A row \in book : row.id <= Cardinality(book)
    /\ told \cup listed \cup added \subseteq book
    /\ \A i \in DOMAIN loads : loads[i].state = "listed" => loads[i].rows \subseteq book
    /\ \A i \in DOMAIN posts : posts[i].state = "created" => posts[i].row \in book

\* A load that brings all the tab was told of, and that no order overtakes.
BringsAll(l) ==
    /\ posts = <<>>
    /\ l.state = "listed" => told \cap Listing(token, filter) \subseteq l.rows

UpToDate ==
    /\ listed \cap added = {}
    /\ told \cap Listing(token, filter) \subseteq listed \cup added
    /\ \A i \in DOMAIN posts : posts[i].state = "created" => posts[i].row \notin listed

CurrentInv ==
    /\ page # "shown" => ~current
    /\ ~crossed => \A i \in DOMAIN loads : loads[i].newest => BringsAll(loads[i])
    /\ ~crossed /\ current => UpToDate

ListInv == IInv /\ RowsInv /\ CurrentInv

\* A new order is in nothing that was there before.
LEMMA NewRowIsNew ==
    ASSUME StoreTypeOK, RowsInv, NEW c \in Customers
    PROVE  /\ NewRow(c) \notin book
           /\ \A row \in book \cup {NewRow(c)} :
                 row.id <= Cardinality(book \cup {NewRow(c)})
<1>1. Cardinality(book) \in Nat /\ \A row \in book : row.id \in Nat
  BY FS_CardinalityType DEF StoreTypeOK, Rows
<1>2. NewRow(c).id = Cardinality(book) + 1
  BY DEF NewRow
<1>3. NewRow(c) \notin book
  BY <1>1, <1>2 DEF RowsInv
<1>4. Cardinality(book \cup {NewRow(c)}) = Cardinality(book) + 1
  BY <1>3, FS_AddElement DEF StoreTypeOK
<1> QED
  BY <1>1, <1>2, <1>3, <1>4 DEF RowsInv

\* Neither the table nor what the tab was told of is touched.
LEMMA ListingStays ==
    ASSUME UNCHANGED <<token, filter, book>>
    PROVE  Listing(token, filter)' = Listing(token, filter)
BY DEF Listing

\* A tab starts with a list that is not current.
LEMMA ListStarts == Init => ListInv
<1> SUFFICES ASSUME Init PROVE ListInv
  OBVIOUS
<1> QED
  BY StoreStarts, BookAssumption DEF Init, ListInv, RowsInv, CurrentInv

\* A new load is the newest, and is crossed when an order is on its way.
LEMMA LoadOrdersList ==
    ASSUME ListInv, OpenConsole \/ Refresh \/ \E f \in Filters : SetFilter(f)
    PROVE  (RowsInv /\ CurrentInv)'
<1>1. PICK f \in Filters : LoadOrders(f) /\ filter' = f
  BY DEF OpenConsole, Refresh, SetFilter, ListInv, IInv, StoreTypeOK
<1> DEFINE Aged(l) == [l EXCEPT !.newest = FALSE]
           old == [i \in DOMAIN loads |-> Aged(loads[i])]
           new == [state |-> "sent", as |-> token, filter |-> f, newest |-> TRUE]
<1>2. ASSUME NEW l \in Loads
      PROVE  /\ Aged(l) \in Loads /\ ~Aged(l).newest /\ Aged(l).state = l.state
             /\ l.state = "listed" => Aged(l).rows = l.rows
  BY DEF Loads
<1>3. new \in Loads /\ new.state = "sent" /\ new.newest
  BY DEF Loads, ListInv, IInv, SessionTypeOK
<1>4. loads \in Seq(Loads) /\ \A i \in DOMAIN loads : loads[i] \in Loads
  BY DEF ListInv, IInv, StoreTypeOK
<1>5. /\ loads' = Append(old, new) /\ ~current' /\ crossed' = (posts # <<>>)
      /\ UNCHANGED <<sessionVars, listed, added, book, told>>
  BY <1>1 DEF LoadOrders
<1> HIDE DEF Aged, new
<1>6. old \in Seq(Loads) /\ Len(old) = Len(loads)
  BY <1>2, <1>4
<1>7. DOMAIN loads' = 1..(Len(loads) + 1) /\ DOMAIN loads = 1..Len(loads)
  BY <1>3, <1>4, <1>5, <1>6
<1>8. \A i \in DOMAIN loads' :
         \/ i \in DOMAIN loads /\ loads'[i] = Aged(loads[i])
         \/ loads'[i] = new
  BY <1>3, <1>4, <1>5, <1>6, <1>7
<1>9. /\ posts = <<>> => posts' = <<>>
      /\ \A i \in DOMAIN posts' : /\ i \in DOMAIN posts
                                  /\ posts'[i].state = posts[i].state
                                  /\ posts[i].state = "created" => posts'[i].row = posts[i].row
  <2>1. CASE UNCHANGED posts
    BY <2>1
  <2>2. CASE OpenConsole
    <3> DEFINE Left(p) == [p EXCEPT !.awaited = FALSE]
    <3>1. ASSUME NEW p \in Posts
          PROVE  Left(p).state = p.state /\ (p.state = "created" => Left(p).row = p.row)
      BY DEF Posts
    <3>2. posts \in Seq(Posts) /\ \A i \in DOMAIN posts : posts[i] \in Posts
      BY DEF ListInv, IInv, StoreTypeOK
    <3> HIDE DEF Left
    <3>3. posts' = [i \in DOMAIN posts |-> Left(posts[i])]
      BY <2>2 DEF OpenConsole, Left
    <3>4. posts = <<>> => posts' = <<>>
      BY <3>3
    <3> QED
      BY <3>1, <3>2, <3>3, <3>4
  <2> QED
    BY <2>1, <2>2 DEF Refresh, SetFilter
<1>10. RowsInv'
  BY <1>2, <1>3, <1>4, <1>5, <1>8, <1>9 DEF ListInv, RowsInv
<1>11. CurrentInv'
  <2>1. ASSUME NEW i \in DOMAIN loads', ~crossed', loads'[i].newest
        PROVE  BringsAll(loads[i])'
    <3>1. posts' = <<>>
      BY <1>5, <1>9, <2>1
    <3>2. loads'[i] = new
      BY <1>2, <1>4, <1>8, <2>1
    <3>3. loads'[i].state # "listed"
      BY <1>3, <3>2
    <3> QED
      BY <3>1, <3>3 DEF BringsAll
  <2> QED
    BY <1>5, <2>1 DEF CurrentInv
<1> QED
  BY <1>10, <1>11

\* A load reads what the tab was told of; an order is committed after all that
\* was read.
LEMMA ServeList ==
    ASSUME ListInv, StoreTypeOK',
           \/ \E i \in DOMAIN loads : ServeLoad(i)
           \/ \E i \in DOMAIN posts : ServePost(i)
           \/ \E c \in Customers : OrderElsewhere(c)
    PROVE  (RowsInv /\ CurrentInv)'
<1>1. ASSUME NEW i \in DOMAIN loads, ServeLoad(i) PROVE (RowsInv /\ CurrentInv)'
  <2> DEFINE answer == [state |-> "listed", rows |-> Listing(loads[i].as, loads[i].filter),
                        newest |-> loads[i].newest]
  <2>1. loads[i].state = "sent" /\ LoadInv(loads[i])
    BY <1>1 DEF ServeLoad, ListInv, IInv, StoreInv
  <2>2. /\ answer.state = "listed" /\ answer.newest = loads[i].newest
        /\ answer.rows \subseteq book
    BY DEF Listing
  <2>3. answer.newest => Listing(token, filter) \subseteq answer.rows
    BY <2>1 DEF LoadInv, Listing, MayActFor
  <2>4. loads' = [loads EXCEPT ![i] = answer]
    BY <1>1 DEF ServeLoad
  <2> HIDE DEF answer
  <2>5. /\ DOMAIN loads' = DOMAIN loads /\ loads'[i] = answer
        /\ \A j \in DOMAIN loads : j # i => loads'[j] = loads[j]
    BY <2>4
  <2>6. UNCHANGED <<sessionVars, filter, listed, added, current, posts, crossed, book, told>>
    BY <1>1 DEF ServeLoad
  <2>7. Listing(token, filter)' = Listing(token, filter)
    BY <2>6, ListingStays DEF sessionVars
  <2>8. RowsInv'
    BY <2>2, <2>5, <2>6 DEF ListInv, RowsInv
  <2>9. ASSUME NEW j \in DOMAIN loads', ~crossed', loads'[j].newest
        PROVE  BringsAll(loads[j])'
    BY <2>2, <2>3, <2>5, <2>6, <2>7, <2>9 DEF ListInv, CurrentInv, BringsAll
  <2>10. UpToDate => UpToDate'
    BY <2>6, <2>7 DEF UpToDate
  <2> QED
    BY <2>6, <2>8, <2>9, <2>10 DEF ListInv, CurrentInv, sessionVars
<1>2. ASSUME NEW i \in DOMAIN posts, ServePost(i) PROVE (RowsInv /\ CurrentInv)'
  <2> DEFINE row == NewRow(posts[i].customer)
             answer == [state |-> "created", row |-> row, awaited |-> posts[i].awaited]
  <2>1. posts[i] \in Posts /\ posts[i].state = "sent"
    BY <1>2 DEF ServePost, ListInv, IInv, StoreTypeOK
  <2>2. posts[i].customer \in Customers
    BY <2>1 DEF Posts
  <2>3. row \notin book /\ \A r \in book \cup {row} : r.id <= Cardinality(book \cup {row})
    BY <2>2, NewRowIsNew DEF ListInv, IInv
  <2>4. answer.state = "created" /\ answer.row = row
    OBVIOUS
  <2>5. posts' = [posts EXCEPT ![i] = answer] /\ book' = book \cup {row}
    BY <1>2 DEF ServePost
  <2> HIDE DEF row, answer
  <2>6. /\ DOMAIN posts' = DOMAIN posts /\ posts'[i] = answer
        /\ \A j \in DOMAIN posts : j # i => posts'[j] = posts[j]
    BY <2>5
  <2>7. UNCHANGED <<sessionVars, filter, loads, listed, added, current, crossed, told>>
    BY <1>2 DEF ServePost
  <2>8. book \cap Listing(token, filter)' \subseteq Listing(token, filter)
    BY <2>5, <2>7, ListingShrinks DEF ListInv, IInv, sessionVars
  <2>9. RowsInv'
    BY <2>3, <2>4, <2>5, <2>6, <2>7 DEF ListInv, RowsInv
  <2>10. ~crossed => \A j \in DOMAIN loads : ~loads[j].newest
    BY DEF ListInv, CurrentInv, BringsAll, IInv, StoreTypeOK
  <2>11. UpToDate => UpToDate'
    BY <2>3, <2>4, <2>6, <2>7, <2>8 DEF ListInv, RowsInv, UpToDate
  <2> QED
    BY <2>7, <2>9, <2>10, <2>11 DEF ListInv, CurrentInv, sessionVars
<1>3. ASSUME NEW c \in Customers, OrderElsewhere(c) PROVE (RowsInv /\ CurrentInv)'
  <2>1. book' = book \cup {NewRow(c)} /\ UNCHANGED <<sessionVars, storeVars, told>>
    BY <1>3 DEF OrderElsewhere
  <2>2. book \cap Listing(token, filter)' \subseteq Listing(token, filter)
    BY <2>1, ListingShrinks DEF ListInv, IInv, sessionVars, storeVars
  <2>3. \A row \in book' : row.id <= Cardinality(book')
    BY <2>1, NewRowIsNew DEF ListInv, IInv
  <2>4. RowsInv'
    BY <2>1, <2>3 DEF ListInv, RowsInv, storeVars
  <2>5. ASSUME NEW j \in DOMAIN loads, BringsAll(loads[j]) PROVE BringsAll(loads[j])'
    BY <2>1, <2>2, <2>5 DEF ListInv, RowsInv, BringsAll, storeVars
  <2>6. UpToDate => UpToDate'
    BY <2>1, <2>2 DEF ListInv, RowsInv, UpToDate, storeVars
  <2> QED
    BY <2>1, <2>4, <2>5, <2>6 DEF ListInv, CurrentInv, sessionVars, storeVars
<1> QED
  BY <1>1, <1>2, <1>3

\* The newest load's rows are up to date until an order is told of, which is
\* then put in front of them.
LEMMA SettleList ==
    ASSUME ListInv, SettleLoad \/ SettlePost
    PROVE  (RowsInv /\ CurrentInv)'
<1>1. ASSUME NEW i \in DOMAIN loads, Loaded(i) \/ LoadFails(i)
      PROVE  (RowsInv /\ CurrentInv)'
  <2>1. /\ loads' = RemoveAt(loads, i) /\ added' = {}
        /\ UNCHANGED <<sessionVars, filter, posts, crossed, book, told>>
    BY <1>1 DEF Loaded, LoadFails
  <2>2. \A k \in DOMAIN loads' : \E j \in DOMAIN loads : loads'[k] = loads[j]
    BY <2>1, RemoveAtKeeps DEF ListInv, IInv, StoreTypeOK
  <2>3. Listing(token, filter)' = Listing(token, filter)
    BY <2>1, ListingStays DEF sessionVars
  <2>4. listed' \subseteq book
    BY <1>1 DEF ListInv, RowsInv, Loaded, LoadFails
  <2>5. RowsInv'
    BY <2>1, <2>2, <2>4 DEF ListInv, RowsInv
  <2>6. ASSUME NEW k \in DOMAIN loads', ~crossed', loads'[k].newest
        PROVE  BringsAll(loads[k])'
    BY <2>1, <2>2, <2>3, <2>6 DEF ListInv, CurrentInv, BringsAll
  <2>7. current' /\ ~crossed' => UpToDate'
    <3>1. SUFFICES ASSUME current', ~crossed' PROVE UpToDate'
      OBVIOUS
    <3>2. loads[i].state = "listed" /\ listed' = loads[i].rows /\ loads[i].newest
      BY <1>1, <3>1 DEF Loaded, LoadFails
    <3>3. BringsAll(loads[i])
      BY <2>1, <3>1, <3>2 DEF ListInv, CurrentInv
    <3> QED
      BY <2>1, <2>3, <3>2, <3>3 DEF BringsAll, UpToDate
  <2>8. (page # "shown" => ~current)'
    BY <1>1, <2>1 DEF ListInv, IInv, PageInv, sessionVars
  <2> QED
    BY <2>5, <2>6, <2>7, <2>8 DEF CurrentInv
<1>2. ASSUME NEW i \in DOMAIN posts, Created(i) \/ PostFails(i)
      PROVE  (RowsInv /\ CurrentInv)'
  <2>1. /\ posts' = RemoveAt(posts, i)
        /\ UNCHANGED <<sessionVars, filter, loads, listed, current, crossed, book>>
    BY <1>2 DEF Created, PostFails, Answered
  <2>2. \A k \in DOMAIN posts' : \E j \in DOMAIN posts : posts'[k] = posts[j]
    BY <2>1, RemoveAtKeeps DEF ListInv, IInv, StoreTypeOK
  <2>3. Listing(token, filter)' = Listing(token, filter)
    BY <2>1, ListingStays DEF sessionVars
  <2>4. \/ posts[i].state = "created" /\ added' = added \cup {posts[i].row}
            /\ told' = told \cup {posts[i].row}
        \/ UNCHANGED <<added, told>>
    BY <1>2 DEF Created, PostFails
  <2>5. RowsInv'
    BY <2>1, <2>2, <2>4 DEF ListInv, RowsInv
  <2>6. ~crossed => \A j \in DOMAIN loads : ~loads[j].newest
    BY DEF ListInv, CurrentInv, BringsAll, IInv, StoreTypeOK
  <2>7. UpToDate => UpToDate'
    BY <2>1, <2>2, <2>3, <2>4 DEF UpToDate
  <2> QED
    BY <2>1, <2>5, <2>6, <2>7 DEF ListInv, CurrentInv, sessionVars
<1> QED
  BY <1>1, <1>2 DEF SettleLoad, SettlePost

\* An order that is submitted while the newest load is in flight crosses it.
LEMMA SubmitList ==
    ASSUME ListInv, NEW c \in Customers, Submit(c)
    PROVE  (RowsInv /\ CurrentInv)'
<1> DEFINE new == [state |-> "sent", as |-> token, customer |-> c, awaited |-> TRUE]
<1>1. new \in Posts /\ new.state = "sent"
  BY DEF Posts, ListInv, IInv, SessionTypeOK
<1>2. /\ posts' = Append(posts, new)
      /\ crossed' = (crossed \/ \E i \in DOMAIN loads : loads[i].newest)
      /\ UNCHANGED <<sessionVars, filter, loads, listed, added, current, book, told>>
  BY DEF Submit
<1> HIDE DEF new
<1>3. \A i \in DOMAIN posts' : (i \in DOMAIN posts /\ posts'[i] = posts[i]) \/ posts'[i] = new
  BY <1>1, <1>2 DEF ListInv, IInv, StoreTypeOK
<1>4. Listing(token, filter)' = Listing(token, filter)
  BY <1>2, ListingStays DEF sessionVars
<1>5. RowsInv'
  BY <1>1, <1>2, <1>3 DEF ListInv, RowsInv
<1>6. UpToDate => UpToDate'
  BY <1>1, <1>2, <1>3, <1>4 DEF UpToDate
<1> QED
  BY <1>2, <1>5, <1>6 DEF ListInv, CurrentInv, sessionVars

\* No list is current while nothing is shown.
LEMMA SessionKeepsList ==
    ASSUME ListInv, SessionPart
    PROVE  (RowsInv /\ CurrentInv)'
<1>1. CASE Leave
  BY <1>1 DEF Leave, ListInv, RowsInv, CurrentInv
<1>2. CASE (Arrive \/ Exchange \/ LoadUser \/ Logout) /\ UNCHANGED <<storeVars, book, told>>
  <2>1. CASE Arrive \/ Exchange \/ LoadUser
    <3>1. page # "shown"
      BY <2>1 DEF Arrive, Open, Return, Exchange, LoadUser
    <3>2. loads = <<>> /\ ~current
      BY <3>1 DEF ListInv, IInv, PageInv, CurrentInv
    <3> QED
      BY <1>2, <3>2 DEF ListInv, RowsInv, CurrentInv, storeVars
  <2>2. CASE Logout
    <3>1. page' = page /\ token' = NoOne
      BY <2>2 DEF Logout, Clear
    <3>2. Listing(token, filter)' = {}
      BY <3>1 DEF Listing, MayActFor
    <3>3. RowsInv'
      BY <1>2 DEF ListInv, RowsInv, storeVars
    <3>4. (UpToDate => UpToDate') /\ \A i \in DOMAIN loads : BringsAll(loads[i]) => BringsAll(loads[i])'
      BY <1>2, <3>2 DEF UpToDate, BringsAll, storeVars
    <3> QED
      BY <1>2, <3>1, <3>3, <3>4 DEF ListInv, CurrentInv, storeVars
  <2> QED
    BY <1>2, <2>1, <2>2
<1> QED
  BY <1>1, <1>2 DEF SessionPart

\* Every step keeps the list as current as it was.
LEMMA ListStep == ListInv /\ [Next]_vars => ListInv'
<1> SUFFICES ASSUME ListInv, [Next]_vars PROVE ListInv'
  OBVIOUS
<1>1. IInv' /\ StoreTypeOK'
  BY StoreStep DEF ListInv, IInv
<1>2. (RowsInv /\ CurrentInv)'
  <2>1. CASE Next
    <3>1. CASE SessionPart
      BY <3>1, SessionKeepsList
    <3>2. CASE OpenConsole \/ Refresh \/ \E f \in Filters : SetFilter(f)
      BY <3>2, LoadOrdersList
    <3>3. ASSUME NEW c \in Customers, Submit(c) PROVE (RowsInv /\ CurrentInv)'
      BY <3>3, SubmitList
    <3>4. ASSUME NEW c \in Customers, OrderElsewhere(c) PROVE (RowsInv /\ CurrentInv)'
      BY <1>1, <3>4, ServeList
    <3>5. CASE \E i \in DOMAIN loads : ServeLoad(i)
      BY <1>1, <3>5, ServeList
    <3>6. CASE \E i \in DOMAIN posts : ServePost(i)
      BY <1>1, <3>6, ServeList
    <3>7. CASE SettleLoad \/ SettlePost
      BY <3>7, SettleList
    <3> QED
      BY <2>1, <3>1, <3>2, <3>3, <3>4, <3>5, <3>6, <3>7 DEF Next, SessionPart
  <2>2. CASE UNCHANGED vars
    <3>1. Listing(token, filter)' = Listing(token, filter)
      BY <2>2, ListingStays DEF vars, sessionVars, storeVars
    <3> QED
      BY <2>2, <3>1 DEF ListInv, RowsInv, CurrentInv, BringsAll, UpToDate, vars,
                        sessionVars, storeVars
  <2> QED
    BY <2>1, <2>2
<1> QED
  BY <1>1, <1>2 DEF ListInv

\* Unless an order and the newest load are in flight together, the list has each
\* order the tab was told of, once.
THEOREM ListHasToldOrders == Spec => []ListKeepsUp
<1>1. ListInv => ListKeepsUp
  BY DEF ListInv, CurrentInv, UpToDate, ListKeepsUp
<1> QED
  BY ListStarts, ListStep, <1>1, PTL DEF Spec
=============================================================================
