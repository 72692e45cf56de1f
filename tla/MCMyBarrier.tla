---------------------------- MODULE MCMyBarrier ----------------------------
EXTENDS MyBarrier
\* EveryoneReturns asks for enough threads.
ASSUME Cardinality(Threads) >= Count
=============================================================================
