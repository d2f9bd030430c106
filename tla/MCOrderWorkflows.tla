-------------------------- MODULE MCOrderWorkflows --------------------------
EXTENDS OrderWorkflows

CONSTANTS alice, bob

MCOwner == [o \in Orders |-> alice]
\* Order n costs n: 200 is the largest refund without an approval.
MCTotal == [o \in Orders |-> o]
MCWriters == RunIds \X Attempts
=============================================================================
