------------------------------ MODULE LeadDesk ------------------------------
(***************************************************************************)
(* What the desk of leads and trades promises to those who look at its     *)
(* tables, whatever its sessions do in between: a lead is decided once,    *)
(* and with its acceptance, in the same step, its trade is opened, on an   *)
(* underlying that has no other open trade; a closed trade stays closed    *)
(* (app/scheduler/order_placer.py, app/services/trade_service.py,          *)
(* app/services/lead_service.py).                                          *)
(*                                                                         *)
(* EntryPlacement implements it, which takes the placement of a lead apart,*)
(* and so does TradingDay, which takes it as a step.                       *)
(***************************************************************************)
CONSTANTS Leads,
          Underlying    \* Underlying[l]: the underlying of lead l

VARIABLES status,    \* status[l]: none yet, queued, accepted, skipped or deleted
          trade      \* trade[l]: none, open or closed

deskVars == <<status, trade>>

DeskInit ==
    /\ status \in [Leads -> {"none", "queued"}]
    /\ trade = [l \in Leads |-> "none"]

\* A scan stores a lead, unless its plan rules it out at once.
Arrive(l) ==
    /\ status[l] = "none"
    /\ \E s \in {"queued", "skipped"} : status' = [status EXCEPT ![l] = s]
    /\ UNCHANGED trade

\* A commit of the placer: some leads are skipped, one at most is accepted.
Decide(skipped, accepted) ==
    /\ \A l \in skipped \cup accepted : status[l] = "queued"
    /\ \A l, m \in accepted : l = m
    /\ skipped \cap accepted = {}
    /\ \A l \in accepted, m \in Leads : Underlying[m] = Underlying[l] => trade[m] # "open"
    /\ status' = [l \in Leads |-> IF l \in skipped THEN "skipped"
                                  ELSE IF l \in accepted THEN "accepted" ELSE status[l]]
    /\ trade' = [l \in Leads |-> IF l \in accepted THEN "open" ELSE trade[l]]

Close(l) ==
    /\ trade[l] = "open"
    /\ trade' = [trade EXCEPT ![l] = "closed"]
    /\ UNCHANGED status

\* Leads are deleted; their trades stay.
Delete(gone) ==
    /\ \A l \in gone : status[l] # "none"
    /\ status' = [l \in Leads |-> IF l \in gone THEN "deleted" ELSE status[l]]
    /\ UNCHANGED trade

DeskNext ==
    \/ \E l \in Leads : Arrive(l) \/ Close(l)
    \/ \E skipped, accepted \in SUBSET Leads : Decide(skipped, accepted)
    \/ \E gone \in SUBSET Leads : Delete(gone)

DeskSpec == DeskInit /\ [][DeskNext]_deskVars
=============================================================================
