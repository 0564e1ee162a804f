----------------------------- MODULE MCConsole -----------------------------
(* The instance TLC checks: two sessions, two jobs, a registry of one. *)
EXTENDS LeadConsole
=============================================================================
