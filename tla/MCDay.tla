------------------------------- MODULE MCDay -------------------------------
\* Two underlyings, one signalling a CALL with the components of its evidence,
\* one a PUT, with or without; a trade of an earlier day was won on each.
EXTENDS TradingDay, TLC

CONSTANTS nifty, bank

MCUnd == 1 :> nifty @@ 2 :> bank
MCDirection == nifty :> "CALL" @@ bank :> "PUT"

Fit(core, structure) ==
    [pattern_fit |-> core, volume |-> 60, trend_alignment |-> 50,
     proximity |-> 30, structure |-> structure]
Told(evidence) ==
    [evidence |-> evidence, confidence |-> Composite(evidence, WeightMap({}))]
Bare(confidence) == [evidence |-> <<>>, confidence |-> confidence]
MCCandidates ==
    nifty :> {Told(Fit(80, 50))} @@ bank :> {Told(Fit(80, 60)), Bare(8000)}

\* Hours as seeded, and hours that end earlier, without a usable cutoff.
MCSeeded == [start |-> 600, cutoff |-> 720, sqoff |-> 840]
MCHours == {MCSeeded, [start |-> 600, cutoff |-> 900, sqoff |-> 700]}
MCPasts == {[u \in {nifty, bank} |-> "won"]}
MCSessions == {None, [start |-> 600, end |-> 700]}

\* The closing sessions do the same, and none of the properties is a liveness property.
Symmetry == Permutations(Closers)
=============================================================================
