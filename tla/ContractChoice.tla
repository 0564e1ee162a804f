--------------------------- MODULE ContractChoice ---------------------------
(***************************************************************************)
(* The option contract a lead would trade: the walk from the strike        *)
(* nearest the price towards cheaper ones, and the first contract on it    *)
(* that the margin pays for (app/services/contract_service.py, called by   *)
(* app/services/lead_service.py and app/scheduler/order_placer.py).        *)
(*                                                                         *)
(* A contract is its place in the chain sorted by strike; cost[c] is its   *)
(* premium times lot size times lots.  Pure definitions.                   *)
(***************************************************************************)
EXTENDS Integers, FiniteSetsExt

CONSTANTS MaxDepth,    \* margin_max_depth
          NoQuote,     \* the cost of a contract without a live price
          Unknown      \* a margin that could not be read, or must not be

ASSUME ChoiceAssumption == MaxDepth \in Nat

Skip == 0    \* no contract

\* The contracts from the one at the money, atm, towards cheaper ones, as far as
\* the chain of n strikes goes.
ShortWalk(n, atm, direction) ==    \* one strike too few
    IF direction = "PUT"
      THEN [d \in 1..Min({Max({MaxDepth, 1}), atm}) |-> atm - (d - 1)]
      ELSE [d \in 1..Min({Max({MaxDepth, 1}), n - atm + 1}) |-> atm + (d - 1)]
WalkCandidates(n, atm, direction) ==
    IF direction = "PUT"
      THEN [d \in 1..Min({MaxDepth + 1, atm}) |-> atm - (d - 1)]
      ELSE [d \in 1..Min({MaxDepth + 1, n - atm + 1}) |-> atm + (d - 1)]

\* The contract to trade: the first with a price within the margin; the one at
\* the money without a margin or any price; Skip when none is within the margin.
SelectAffordable(candidates, cost, margin) ==
    LET quoted == {d \in DOMAIN candidates : cost[candidates[d]] # NoQuote}
        paid == {d \in quoted : cost[candidates[d]] <= margin}
    IN  IF margin = Unknown \/ quoted = {} THEN candidates[1]
        ELSE IF paid = {} THEN Skip ELSE candidates[Min(paid)]

=============================================================================
