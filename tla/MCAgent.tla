------------------------------ MODULE MCAgent ------------------------------
(* Instances of AgentLoop for TLC. *)
EXTENDS AgentLoop, TLC

CONSTANTS x, y, c, d

TwoInstruments == {x, y}
TwoCalls == {c, d}
SomeBatches == {<<c>>, <<d>>, <<c, c>>, <<c, d>>}

\* At the band's upper edge, and beyond it.
AtEdge == [direction |-> "CALL", pattern |-> "triangle", price |-> 201, confidence |-> 70]
Beyond == [AtEdge EXCEPT !.price = 202]
SomeFinals == {{}, {Beyond}, {Beyond, AtEdge}}
============================================================================
