---------------------------- MODULE MCTradeExit ----------------------------
\* TradeExit on small instances; the .cfg files choose the environment.
EXTENDS TradeExit, TLC

CONSTANTS t1, t2, r1, r2, k1, k2

OneTrade == {t1}
TwoTrades == {t1, t2}
NoThreads == {}
OneRecon == {r1}
OneKill == {k1}

\* Everything that can go wrong.
AllDisturbances ==
    {"read", "place", "lost", "cancel", "reject", "user", "session", "lock", "crash"}
\* A broker that answers every read and keeps what it accepts, but may refuse
\* or drop a stop-loss.
StopLossTrouble == {"place", "reject"}
OnlySession == {"session"}

Symmetry == Permutations(Trades) \cup Permutations(Reconcilers) \cup Permutations(KillThreads)
=============================================================================
