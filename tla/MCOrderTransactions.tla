------------------------ MODULE MCOrderTransactions ------------------------
EXTENDS OrderTransactions, TLC

CONSTANTS alice, bob

MCOwner == [o \in Orders |-> alice]
MCTotal == [o \in Orders |-> 49]

\* Calls are interchangeable: no property tells one from another.
CallSymmetry == Permutations(Calls)
=============================================================================
