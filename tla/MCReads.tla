------------------------------ MODULE MCReads ------------------------------
(* Instances of BrokerReads for TLC. *)
EXTENDS BrokerReads, TLC

CONSTANTS a, b

TwoThreads == {a, b}
BookAndQuotes == {"order_book", "ltp"}
BookAndPositions == {"order_book", "positions"}
ShortTtl == [c \in Caches |-> IF c = "ltp" THEN 1 ELSE 2]

Symmetry == Permutations(Threads)
============================================================================
