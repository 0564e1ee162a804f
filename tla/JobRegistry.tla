---------------------------- MODULE JobRegistry ----------------------------
(***************************************************************************)
(* What the registry of manual lead jobs promises to whoever asks it       *)
(* (app/scheduler/lead_jobs.py: submit_manual_job, active_job_id, get_job):*)
(* at most one job runs, a job that runs is known, and it ends.  Which of  *)
(* the finished jobs are still known is left open.                         *)
(* LeadJobs implements it; LeadConsole uses it.                            *)
(***************************************************************************)
EXTENDS Naturals

CONSTANT MaxJobs    \* bound on submitted jobs

VARIABLES known,      \* the jobs get_job finds, in the order of submission
          working,    \* those of them whose status is "running"
          submitted   \* number of jobs submitted so far

registryVars == <<known, working, submitted>>

RegistryInit == known = {} /\ working = {} /\ submitted = 0

\* submit_manual_job starts a job; old ones may be forgotten.
Accept ==
    /\ working = {}
    /\ submitted < MaxJobs
    /\ submitted' = submitted + 1
    /\ working' = {submitted + 1}
    /\ \E kept \in SUBSET known : known' = kept \cup {submitted + 1}

\* A job reaches a terminal status.
End ==
    /\ working # {}
    /\ working' = {}
    /\ UNCHANGED <<known, submitted>>

RegistryNext == Accept \/ End
RegistrySpec == RegistryInit /\ [][RegistryNext]_registryVars /\ WF_registryVars(End)
=============================================================================
