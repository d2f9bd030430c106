-------------------------- MODULE OrderIntakeProofs --------------------------
(***************************************************************************)
(* Whatever start-ups, crashes and creations do to the sequence, orders    *)
(* enter the table as OrderBook says; and without an overlap no number     *)
(* that is drawn is ever taken.  The invariant has three parts: the seeds  *)
(* are in the table before the first request is served, a row that waits   *)
(* for its commit has its number for itself, and, without an overlap, the  *)
(* sequence is never behind the table.                                     *)
(***************************************************************************)
EXTENDS OrderIntake, TLAPS

\* A start-up whose transaction is open.
Seeding(p) == proc[p] \in {"max", "setval", "ready"}

SeedInv ==
    /\ \A p \in Processes : added[p] = IF Seeding(p) THEN Seeds \ Numbers ELSE {}
    /\ \A p, q \in Processes : p # q /\ added[p] # {} => added[q] = {}
    /\ \A p \in Processes : proc[p] = "serving" => Seeds \subseteq Numbers
    /\ \A r \in Requests : req[r] # "new" => Seeds \subseteq Numbers

RowInv ==
    /\ \A r \in Requests : req[r] = "commit" => number[r] \notin Numbers
    /\ \A r, s \in Requests :
          r # s /\ req[r] = "commit" /\ req[s] = "commit" => number[r] # number[s]
    /\ \A r \in Requests : req[r] \in {"committed", "answered"} => Row(r) \in book

FreshInv ==
    /\ \A n \in Numbers : n <= sequence
    /\ \A p \in Processes : proc[p] = "ready" => \A n \in added[p] : n <= sequence
    /\ \A p \in Processes : proc[p] = "setval" =>
          \A n \in Numbers \cup added[p] : n <= high[p]
    /\ \A r \in Requests : req[r] # "collided"
    /\ \A r \in Requests : Creating(r) =>
          /\ \A p \in Processes : ~StartingUp(p)
          /\ number[r] \notin Numbers /\ number[r] <= sequence
    /\ \A r, s \in Requests :
          r # s /\ Creating(r) /\ Creating(s) => number[r] # number[s]

IInv == TypeOK /\ SeedInv /\ RowInv /\ (~overlapped => FreshInv)

\* The number of a seed is an order number.
LEMMA SeedsAreIds == 1 \in Ids /\ Seeds \subseteq Ids /\ Ids \subseteq Int
<1>1. PICK n \in Seeds : n \in 1..MaxId
  BY SeedsAssumption DEF Ids
<1> QED
  BY <1>1, SeedsAssumption DEF Ids

-----------------------------------------------------------------------------
(* Types.                                                                  *)

\* Before the first start-up every variable is in its type.
LEMMA TypeInit == Init => TypeOK
<1> SUFFICES ASSUME Init PROVE TypeOK
  OBVIOUS
<1> DEFINE anyone == CHOOSE p \in Processes : TRUE
<1>1. anyone \in Processes
  BY ProcessesAssumption
<1>2. at = [r \in Requests |-> anyone]
  BY DEF Init
<1> HIDE DEF anyone
<1>3. at \in [Requests -> Processes]
  BY <1>1, <1>2
<1>4. /\ starts \in 0..MaxStarts /\ faults \in 0..MaxFaults
      /\ book \subseteq Book!Rows /\ overlapped \in BOOLEAN
  <2>1. 0 \in 0..MaxStarts /\ 0 \in 0..MaxFaults
    BY BoundsAssumption
  <2> QED
    BY <2>1 DEF Init
<1>5. sequence \in Ids /\ high \in [Processes -> Ids] /\ number \in [Requests -> Ids]
  BY SeedsAreIds DEF Init
<1> QED
  BY <1>3, <1>4, <1>5 DEF Init, TypeOK

\* No step takes a variable out of its type.
LEMMA TypeStep == TypeOK /\ [Next]_vars => TypeOK'
<1> SUFFICES ASSUME TypeOK, [Next]_vars PROVE TypeOK'
  OBVIOUS
<1> USE DEF TypeOK, orderVars, startVars
<1>1. ASSUME NEW p \in Processes, Seed(p) PROVE TypeOK'
  BY <1>1, BoundsAssumption DEF Seed, Creating
<1>2. ASSUME NEW p \in Processes, ReadMax(p) PROVE TypeOK'
  <2>1. Numbers \cup added[p] \subseteq Ids
    BY SeedsAreIds DEF Numbers, Book!Numbers, Book!Rows
  <2> QED
    BY <1>2, <2>1 DEF ReadMax
<1>3. ASSUME NEW p \in Processes, SetSequence(p) PROVE TypeOK'
  BY <1>3 DEF SetSequence
<1>4. ASSUME NEW p \in Processes, Serve(p) PROVE TypeOK'
  <2>1. Book!SeedRows(added[p]) \subseteq Book!Rows
    BY SeedsAreIds DEF Book!SeedRows, Book!Rows
  <2> QED
    BY <1>4, <2>1 DEF Serve
<1>5. ASSUME NEW p \in Processes, Stop(p) PROVE TypeOK'
  BY <1>5 DEF Stop
<1>6. ASSUME NEW r \in Requests, NEW p \in Processes, Draw(r, p) PROVE TypeOK'
  BY <1>6 DEF Draw, Goto
<1>7. ASSUME NEW r \in Requests, NEW p \in Processes, Reject(r, p) PROVE TypeOK'
  BY <1>7 DEF Reject, Goto
<1>8. ASSUME NEW r \in Requests, Commit(r) PROVE TypeOK'
  <2>1. Row(r) \in Book!Rows
    BY DEF Row, Book!Rows
  <2> QED
    BY <1>8, <2>1 DEF Commit, Goto
<1>9. ASSUME NEW r \in Requests, Abort(r) \/ LoseAnswer(r) PROVE TypeOK'
  BY <1>9, BoundsAssumption DEF Abort, LoseAnswer, Goto
<1>10. ASSUME NEW r \in Requests, Insert(r) \/ Answer(r) \/ Retry(r) PROVE TypeOK'
  BY <1>10 DEF Insert, Answer, Retry, Goto
<1>11. CASE UNCHANGED vars
  BY <1>11 DEF vars
<1> QED
  BY <1>1, <1>2, <1>3, <1>4, <1>5, <1>6, <1>7, <1>8, <1>9, <1>10, <1>11
  DEF Next, StartUp, Proceed

\* Every variable stays in its type.
THEOREM TypeCorrect == Spec => []TypeOK
BY TypeInit, TypeStep, PTL DEF Spec

-----------------------------------------------------------------------------
(* The table.                                                              *)

\* What a commit adds to the numbers in the table.
LEMMA NumbersGrow ==
    /\ \A p \in Processes : Serve(p) => Numbers' = Numbers \cup added[p]
    /\ \A r \in Requests : Commit(r) => Numbers' = Numbers \cup {number[r]}
    /\ book' = book => Numbers' = Numbers
<1> USE DEF Numbers, Book!Numbers
<1>1. ASSUME NEW p \in Processes, Serve(p) PROVE Numbers' = Numbers \cup added[p]
  <2> DEFINE new(n) == [id |-> n, by |-> "seed"]
  <2>1. \A n : new(n).id = n
    OBVIOUS
  <2>2. Book!SeedRows(added[p]) = {new(n) : n \in added[p]}
    BY DEF Book!SeedRows
  <2> HIDE DEF new
  <2>3. {row.id : row \in {new(n) : n \in added[p]}} = added[p]
    <3>1. ASSUME NEW n \in added[p] PROVE n \in {row.id : row \in {new(k) : k \in added[p]}}
      <4>1. new(n) \in {new(k) : k \in added[p]} /\ new(n).id = n
        BY <2>1
      <4> QED
        BY <4>1
    <3>2. ASSUME NEW row \in {new(k) : k \in added[p]} PROVE row.id \in added[p]
      BY <2>1
    <3> QED
      BY <3>1, <3>2
  <2>4. book' = book \cup {new(n) : n \in added[p]}
    BY <1>1, <2>2 DEF Serve
  <2> QED
    BY <2>3, <2>4
<1>2. ASSUME NEW r \in Requests, Commit(r) PROVE Numbers' = Numbers \cup {number[r]}
  <2>1. Row(r).id = number[r]
    BY DEF Row
  <2>2. book' = book \cup {Row(r)}
    BY <1>2 DEF Commit
  <2> QED
    BY <2>1, <2>2
<1>3. book' = book => Numbers' = Numbers
  OBVIOUS
<1> QED
  BY <1>1, <1>2, <1>3

\* The seeds are committed before a request is served.
LEMMA SeedStep == TypeOK /\ SeedInv /\ [Next]_vars => SeedInv'
<1> SUFFICES ASSUME TypeOK, SeedInv, [Next]_vars PROVE SeedInv'
  OBVIOUS
<1> USE DEF TypeOK, SeedInv, Seeding, orderVars, startVars
<1>1. ASSUME NEW p \in Processes, Seed(p) PROVE SeedInv'
  BY <1>1, NumbersGrow DEF Seed
<1>2. ASSUME NEW p \in Processes, ReadMax(p) \/ SetSequence(p) PROVE SeedInv'
  <2>1. Numbers' = Numbers
    BY <1>2, NumbersGrow DEF ReadMax, SetSequence
  <2>2. UNCHANGED <<book, added, starts, orderVars>>
    BY <1>2 DEF ReadMax, SetSequence
  <2>3. CASE ReadMax(p)
    BY <2>1, <2>2, <2>3 DEF ReadMax
  <2>4. CASE SetSequence(p)
    BY <2>1, <2>2, <2>4 DEF SetSequence
  <2> QED
    BY <1>2, <2>3, <2>4
<1>3. ASSUME NEW p \in Processes, Serve(p) PROVE SeedInv'
  <2>1. Numbers' = Numbers \cup added[p] /\ added[p] = Seeds \ Numbers
    BY <1>3, NumbersGrow DEF Serve
  <2>2. Seeds \subseteq Numbers'
    BY <2>1
  <2>3. ASSUME NEW q \in Processes, q # p PROVE added'[q] = {} \/ ~Seeding(q)'
    BY <1>3, <2>1, <2>3 DEF Serve
  <2> QED
    BY <1>3, <2>2, <2>3 DEF Serve
<1>4. ASSUME NEW p \in Processes, Stop(p) PROVE SeedInv'
  BY <1>4, NumbersGrow DEF Stop
<1>5. ASSUME NEW r \in Requests, NEW p \in Processes, Draw(r, p) \/ Reject(r, p)
      PROVE  SeedInv'
  BY <1>5, NumbersGrow DEF Draw, Reject, Goto
<1>6. ASSUME NEW r \in Requests, Commit(r) PROVE SeedInv'
  <2>1. Seeds \subseteq Numbers /\ Seeds \subseteq Numbers'
    BY <1>6, NumbersGrow DEF Commit
  <2> QED
    BY <1>6, <2>1 DEF Commit, Goto
<1>7. ASSUME NEW r \in Requests, Abort(r) \/ LoseAnswer(r) \/ Answer(r) \/ Retry(r)
      PROVE  SeedInv'
  BY <1>7, NumbersGrow DEF Abort, LoseAnswer, Answer, Retry, Creating, Goto
<1>8. ASSUME NEW r \in Requests, Insert(r) PROVE SeedInv'
  BY <1>8, NumbersGrow DEF Insert, Goto
<1>9. CASE UNCHANGED vars
  BY <1>9, NumbersGrow DEF vars
<1> QED
  BY <1>1, <1>2, <1>3, <1>4, <1>5, <1>6, <1>7, <1>8, <1>9 DEF Next, StartUp, Proceed

\* A row that waits for its commit has its number for itself.
LEMMA RowStep == TypeOK /\ SeedInv /\ RowInv /\ [Next]_vars => RowInv'
<1> SUFFICES ASSUME TypeOK, SeedInv, RowInv, [Next]_vars PROVE RowInv'
  OBVIOUS
<1> USE DEF TypeOK, RowInv, Row, orderVars, startVars
<1>1. ASSUME NEW p \in Processes, Seed(p) \/ ReadMax(p) \/ SetSequence(p) \/ Stop(p)
      PROVE  RowInv'
  BY <1>1, NumbersGrow DEF Seed, ReadMax, SetSequence, Stop
<1>2. ASSUME NEW p \in Processes, Serve(p) PROVE RowInv'
  <2>1. UNCHANGED <<req, number>> /\ book \subseteq book'
    BY <1>2 DEF Serve
  <2>2. ASSUME NEW r \in Requests, req[r] = "commit" PROVE number[r] \notin Numbers'
    <3>1. Seeds \subseteq Numbers
      BY <2>2 DEF SeedInv
    <3> QED
      BY <1>2, <2>2, <3>1, NumbersGrow DEF SeedInv, Serve
  <2> QED
    BY <2>1, <2>2
<1>3. ASSUME NEW r \in Requests, NEW p \in Processes, Draw(r, p) \/ Reject(r, p)
      PROVE  RowInv'
  BY <1>3, NumbersGrow DEF Draw, Reject, Goto
<1>4. ASSUME NEW r \in Requests, Insert(r) PROVE RowInv'
  BY <1>4, NumbersGrow DEF Insert, Goto
<1>5. ASSUME NEW r \in Requests, Commit(r) PROVE RowInv'
  <2>1. ASSUME NEW s \in Requests, req'[s] = "commit"
        PROVE  s # r /\ req[s] = "commit" /\ number[s] # number[r]
    BY <1>5, <2>1 DEF Commit, Goto
  <2>2. Numbers' = Numbers \cup {number[r]}
    BY <1>5, NumbersGrow
  <2>3. UNCHANGED number /\ book' = book \cup {Row(r)}
    BY <1>5 DEF Commit
  <2>4. \A s \in Requests : req'[s] \in {"committed", "answered"} => Row(s)' \in book'
    BY <1>5, <2>3 DEF Commit, Goto
  <2> QED
    BY <2>1, <2>2, <2>3, <2>4
<1>6. ASSUME NEW r \in Requests, Abort(r) \/ LoseAnswer(r) \/ Answer(r) \/ Retry(r)
      PROVE  RowInv'
  BY <1>6, NumbersGrow DEF Abort, LoseAnswer, Answer, Retry, Goto
<1>7. CASE UNCHANGED vars
  BY <1>7, NumbersGrow DEF vars
<1> QED
  BY <1>1, <1>2, <1>3, <1>4, <1>5, <1>6, <1>7 DEF Next, StartUp, Proceed

-----------------------------------------------------------------------------
(* The promise.                                                            *)

\* Nothing is in the table before the first start-up.
LEMMA InvInit == Init => IInv
<1> SUFFICES ASSUME Init PROVE IInv
  OBVIOUS
<1>1. TypeOK
  BY TypeInit
<1>2. Numbers = {}
  BY DEF Init, Numbers, Book!Numbers
<1> QED
  BY <1>1, <1>2
  DEF Init, IInv, SeedInv, Seeding, RowInv, FreshInv, Creating, StartingUp

\* Every step is one of OrderBook's, or changes neither the table nor what has
\* been answered.
LEMMA BookStep == TypeOK /\ SeedInv /\ RowInv /\ [Next]_vars => [Book!BookNext]_<<book, Told>>
<1> SUFFICES ASSUME TypeOK, SeedInv, RowInv, [Next]_vars
             PROVE  Book!BookNext \/ (book' = book /\ Told' = Told)
  BY DEF Book!BookNext
<1> USE DEF TypeOK, orderVars, startVars
<1>1. ASSUME NEW p \in Processes, Seed(p) \/ ReadMax(p) \/ SetSequence(p)
      PROVE  book' = book /\ Told' = Told
  BY <1>1 DEF Seed, ReadMax, SetSequence, Told, Row
<1>2. ASSUME NEW p \in Processes, Stop(p) PROVE book' = book /\ Told' = Told
  <2>1. \A r \in Requests : req'[r] = "answered" <=> req[r] = "answered"
    BY <1>2 DEF Stop
  <2> QED
    BY <1>2, <2>1 DEF Stop, Told, Row
<1>3. ASSUME NEW p \in Processes, Serve(p) PROVE Book!Stock
  <2>1. added[p] = Seeds \ Numbers
    BY <1>3 DEF Serve, SeedInv, Seeding
  <2>2. Told' = Told
    BY <1>3 DEF Serve, Told, Row
  <2> QED
    BY <1>3, <2>1, <2>2 DEF Serve, Book!Stock, Numbers
<1>4. ASSUME NEW r \in Requests, Commit(r) PROVE Book!BookNext
  <2>1. Row(r) \in Book!Rows /\ Row(r).id = number[r]
    BY DEF Row, Book!Rows
  <2>2. number[r] \notin Numbers
    BY <1>4 DEF Commit, RowInv
  <2>3. \A s \in Requests : req'[s] = "answered" <=> req[s] = "answered"
    BY <1>4 DEF Commit, Goto
  <2>4. Told' = Told
    BY <1>4, <2>3 DEF Commit, Told, Row
  <2>5. Book!Place(Row(r))
    BY <1>4, <2>1, <2>2, <2>4 DEF Commit, Book!Place, Numbers
  <2> QED
    BY <2>1, <2>5 DEF Book!BookNext
<1>5. ASSUME NEW r \in Requests, Answer(r) PROVE Book!BookNext
  <2>1. Row(r) \in Book!Rows
    BY DEF Row, Book!Rows
  <2>2. Row(r) \in book /\ book' = book /\ UNCHANGED number
    BY <1>5 DEF Answer, RowInv
  <2>3. \A s \in Requests : req'[s] = "answered" <=> req[s] = "answered" \/ s = r
    BY <1>5 DEF Answer, Goto
  <2>4. Told' = Told \cup {Row(r)}
    BY <2>2, <2>3 DEF Told, Row
  <2>5. Book!Tell(Row(r))
    BY <2>2, <2>4 DEF Book!Tell
  <2> QED
    BY <2>1, <2>5 DEF Book!BookNext
<1>6. ASSUME NEW r \in Requests, NEW p \in Processes, Draw(r, p) \/ Reject(r, p)
      PROVE  book' = book /\ Told' = Told
  <2>1. \A s \in Requests : req'[s] = "answered" <=> req[s] = "answered"
    BY <1>6 DEF Draw, Reject, Goto
  <2>2. \A s \in Requests : req[s] = "answered" => number'[s] = number[s]
    BY <1>6 DEF Draw, Reject
  <2> QED
    BY <1>6, <2>1, <2>2 DEF Draw, Reject, Told, Row
<1>7. ASSUME NEW r \in Requests, Insert(r) \/ Abort(r) \/ LoseAnswer(r) \/ Retry(r)
      PROVE  book' = book /\ Told' = Told
  <2>1. \A s \in Requests : req'[s] = "answered" <=> req[s] = "answered"
    BY <1>7 DEF Insert, Abort, LoseAnswer, Retry, Creating, Goto
  <2> QED
    BY <1>7, <2>1 DEF Insert, Abort, LoseAnswer, Retry, Told, Row
<1>8. CASE UNCHANGED vars
  BY <1>8 DEF vars, Told, Row
<1> QED
  BY <1>1, <1>2, <1>3, <1>4, <1>5, <1>6, <1>7, <1>8 DEF Next, StartUp, Proceed, Book!BookNext

TableInv == TypeOK /\ SeedInv /\ RowInv

\* Creating orders, with its start-ups, crashes and retries, implements
\* OrderBook.
THEOREM IntakeImplementsBook == Spec => BookSpec
<1>1. Init => TableInv /\ Book!BookInit
  BY InvInit DEF IInv, TableInv, Init, Book!BookInit, Told
<1>2. TableInv /\ [Next]_vars => TableInv'
  BY TypeStep, SeedStep, RowStep DEF TableInv
<1>3. TableInv /\ [Next]_vars => [Book!BookNext]_<<book, Told>>
  BY BookStep DEF TableInv
<1> QED
  BY <1>1, <1>2, <1>3, PTL DEF Spec, BookSpec, Book!BookSpec

-----------------------------------------------------------------------------
(* Without an overlap the sequence is never behind the table.              *)

\* Start-ups, when nothing is being created meanwhile.
LEMMA FreshInStartUp ==
    ASSUME IInv, NEW p \in Processes, StartUp(p) \/ Stop(p), ~overlapped'
    PROVE  FreshInv'
<1> USE DEF IInv, TypeOK, Creating, StartingUp, orderVars, startVars
<1>1. ~overlapped /\ FreshInv
  BY DEF StartUp, Seed, ReadMax, SetSequence, Serve, Stop
<1>2. Numbers \subseteq Int /\ (\A q \in Processes : added[q] \subseteq Int) /\ sequence \in Int
      /\ \A q \in Processes : high[q] \in Int
  BY SeedsAreIds DEF Numbers, Book!Numbers, Book!Rows
<1>3. CASE Seed(p)
  <2>1. \A r \in Requests : ~Creating(r) /\ ~Creating(r)'
    BY <1>1, <1>3 DEF Seed
  <2>2. Numbers' = Numbers
    BY <1>3, NumbersGrow DEF Seed
  <2> QED
    BY <1>1, <1>3, <2>1, <2>2 DEF Seed, FreshInv
<1>4. CASE ReadMax(p)
  BY <1>1, <1>4, NumbersGrow DEF ReadMax, FreshInv
<1>5. CASE SetSequence(p)
  <2>1. Numbers' = Numbers /\ sequence' = high[p] /\ \A r \in Requests : ~Creating(r)
    BY <1>1, <1>5, NumbersGrow DEF SetSequence, FreshInv
  <2>2. ASSUME NEW q \in Processes, proc[q] = "ready" PROVE added[q] \subseteq added[p]
    BY <1>5, <2>2 DEF SetSequence, SeedInv, Seeding
  <2> QED
    BY <1>1, <1>2, <1>5, <2>1, <2>2 DEF SetSequence, FreshInv
<1>6. CASE Serve(p)
  <2>1. Numbers' = Numbers \cup added[p]
    BY <1>6, NumbersGrow
  <2>2. ASSUME NEW q \in Processes, proc[q] = "setval", added[p] # {} PROVE FALSE
    <3>1. added[q] = Seeds \ Numbers /\ added[p] = Seeds \ Numbers /\ q # p
      BY <1>6, <2>2 DEF Serve, SeedInv, Seeding
    <3> QED
      BY <2>2, <3>1 DEF SeedInv
  <2>3. ASSUME NEW r \in Requests, Creating(r) PROVE added[p] = {}
    <3>1. req[r] # "new"
      BY <2>3
    <3> QED
      BY <1>6, <3>1 DEF Serve, SeedInv, Seeding
  <2> QED
    BY <1>1, <1>2, <1>6, <2>1, <2>2, <2>3 DEF Serve, FreshInv
<1>7. CASE Stop(p)
  BY <1>1, <1>7, NumbersGrow DEF Stop, FreshInv
<1> QED
  BY <1>3, <1>4, <1>5, <1>6, <1>7 DEF StartUp

\* Creations, when no start-up is under way.
LEMMA FreshInCreation ==
    ASSUME IInv, NEW r \in Requests, ~overlapped',
           \/ Proceed(r) \/ Abort(r) \/ LoseAnswer(r)
           \/ \E p \in Processes : Reject(r, p)
    PROVE  FreshInv'
<1> USE DEF IInv, TypeOK, Creating, StartingUp, orderVars, startVars
<1>1. ~overlapped /\ FreshInv
  BY DEF Proceed, Draw, Insert, Commit, Answer, Retry, Abort, LoseAnswer, Reject
<1>2. Numbers \subseteq Int /\ (\A q \in Processes : added[q] \subseteq Int) /\ sequence \in Int
      /\ (\A q \in Processes : high[q] \in Int) /\ (\A s \in Requests : number[s] \in Int)
  BY SeedsAreIds DEF Numbers, Book!Numbers, Book!Rows
<1>3. ASSUME NEW p \in Processes, Draw(r, p) PROVE FreshInv'
  <2>1. Numbers' = Numbers /\ \A q \in Processes : ~StartingUp(q)
    BY <1>1, <1>3, NumbersGrow DEF Draw
  <2>2. /\ \A n \in Numbers : n <= sequence'
        /\ \A q \in Processes : proc[q] = "ready" => \A n \in added[q] : n <= sequence'
    BY <1>1, <1>2, <1>3 DEF Draw, FreshInv
  <2>3. ASSUME NEW s \in Requests, Creating(s)'
        PROVE  /\ number'[s] \notin Numbers /\ number'[s] <= sequence'
               /\ s # r => Creating(s) /\ number'[s] = number[s] /\ number[s] <= sequence
    BY <1>1, <1>2, <1>3, <2>3 DEF Draw, FreshInv, Goto
  <2>4. number'[r] = sequence + 1
    BY <1>3 DEF Draw
  <2>5. ASSUME NEW s \in Requests, NEW t \in Requests, s # t, Creating(s)', Creating(t)'
        PROVE  number'[s] # number'[t]
    BY <1>1, <1>2, <2>3, <2>4, <2>5 DEF FreshInv
  <2>6. \A s \in Requests : req'[s] # "collided"
    BY <1>1, <1>3 DEF Draw, FreshInv, Goto
  <2> QED
    BY <1>3, <2>1, <2>2, <2>3, <2>5, <2>6 DEF Draw, FreshInv
<1>4. CASE Commit(r)
  <2>1. Numbers' = Numbers \cup {number[r]} /\ Creating(r)
    BY <1>4, NumbersGrow DEF Commit
  <2>2. \A s \in Requests : Creating(s)' => s # r /\ Creating(s)
    BY <1>4 DEF Commit, Goto
  <2>3. \A s \in Requests : req'[s] # "collided"
    BY <1>1, <1>4 DEF Commit, FreshInv, Goto
  <2> QED
    BY <1>1, <1>4, <2>1, <2>2, <2>3 DEF Commit, FreshInv
<1>5. CASE Insert(r)
  <2>1. number[r] \notin Numbers
    BY <1>1, <1>5 DEF Insert, FreshInv
  <2>2. Numbers' = Numbers
    BY <1>5, NumbersGrow DEF Insert
  <2> QED
    BY <1>1, <1>5, <2>1, <2>2 DEF Insert, FreshInv, Goto
<1>6. CASE Answer(r) \/ Retry(r) \/ Abort(r) \/ LoseAnswer(r)
  BY <1>1, <1>6, NumbersGrow DEF Answer, Retry, Abort, LoseAnswer, FreshInv, Goto
<1>7. ASSUME NEW p \in Processes, Reject(r, p) PROVE FreshInv'
  BY <1>1, <1>7, NumbersGrow DEF Reject, FreshInv, Goto
<1> QED
  BY <1>3, <1>4, <1>5, <1>6, <1>7 DEF Proceed

\* Every step keeps the invariant.
LEMMA InvStep == IInv /\ [Next]_vars => IInv'
<1> SUFFICES ASSUME IInv, [Next]_vars PROVE IInv'
  OBVIOUS
<1>1. TypeOK' /\ SeedInv' /\ RowInv'
  BY TypeStep, SeedStep, RowStep DEF IInv
<1>2. ASSUME ~overlapped' PROVE FreshInv'
  <2>1. ASSUME NEW p \in Processes, StartUp(p) \/ Stop(p) PROVE FreshInv'
    BY <1>2, <2>1, FreshInStartUp
  <2>2. ASSUME NEW r \in Requests,
               \/ Proceed(r) \/ Abort(r) \/ LoseAnswer(r)
               \/ \E p \in Processes : Reject(r, p)
        PROVE  FreshInv'
    BY <1>2, <2>2, FreshInCreation
  <2>3. CASE UNCHANGED vars
    BY <1>2, <2>3, NumbersGrow
    DEF IInv, FreshInv, Creating, StartingUp, vars, orderVars, startVars
  <2> QED
    BY <2>1, <2>2, <2>3 DEF Next
<1> QED
  BY <1>1, <1>2 DEF IInv

\* Only an overlap of a start-up with a creation makes a number collide.
THEOREM NumbersAreFresh == Spec => []CollisionNeedsOverlap
<1>1. IInv => CollisionNeedsOverlap
  BY DEF IInv, FreshInv, CollisionNeedsOverlap
<1> QED
  BY InvInit, InvStep, <1>1, PTL DEF Spec
=============================================================================
