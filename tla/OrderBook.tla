------------------------------ MODULE OrderBook ------------------------------
(***************************************************************************)
(* What POST /orders promises: an order enters the orders table in one     *)
(* step, under a number that no other order has, it never changes its      *)
(* number or its customer, and only orders in the table are confirmed.     *)
(***************************************************************************)
EXTENDS Naturals

CONSTANTS
    Ids,       \* order numbers
    Seeds,     \* the numbers of the seeded orders
    Placers    \* who an order can be placed by

VARIABLES
    book,      \* the rows of the orders table
    told       \* the rows whose creation was answered with 201

\* A row, as far as it never changes: its number and where it comes from.
Rows == [id : Ids, by : Placers \cup {"seed"}]

SeedRows(S) == {[id |-> n, by |-> "seed"] : n \in S}

Numbers(rows) == {row.id : row \in rows}

BookInit == book = {} /\ told = {}

\* initialize_database adds the seeded orders that are missing.
Stock ==
    /\ book' = book \cup SeedRows(Seeds \ Numbers(book))
    /\ UNCHANGED told

\* create_order_row
Place(row) ==
    /\ row.id \notin Numbers(book)
    /\ book' = book \cup {row}
    /\ UNCHANGED told

\* create_order answers.
Tell(row) ==
    /\ row \in book
    /\ told' = told \cup {row}
    /\ UNCHANGED book

BookNext == Stock \/ \E row \in Rows : Place(row) \/ Tell(row)

BookSpec == BookInit /\ [][BookNext]_<<book, told>>
=============================================================================
