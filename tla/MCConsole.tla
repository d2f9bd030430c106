------------------------------ MODULE MCConsole ------------------------------
EXTENDS Console, TLC

CONSTANTS alice, sam, acme, other

MCCustomerOf == (alice :> acme) @@ (sam :> NoOne)

\* One order of another customer, already on its way.
MCBook == {[id |-> 1, customer |-> other, status |-> "shipped"]}
=============================================================================
