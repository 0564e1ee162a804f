------------------------------ MODULE MCEntry ------------------------------
(* Instances of EntryPlacement for TLC. *)
EXTENDS EntryPlacement, TLC

CONSTANTS l1, l2

OneLead == {l1}
TwoLeads == {l1, l2}

\* two leads on one underlying
SameUnderlying == [l \in Leads |-> "u"]

AllDisturbances == {"read", "price", "cancel", "place", "lost", "reject", "verify",
                    "busy", "delete", "crash"}
NoDisturbance == {}

Symmetry == Permutations(Leads)
============================================================================
