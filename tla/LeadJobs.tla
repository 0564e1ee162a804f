------------------------------ MODULE LeadJobs ------------------------------
(***************************************************************************)
(* Lead generation: the registry of manual jobs                            *)
(* (app/scheduler/lead_jobs.py), the runs they and the scheduler start     *)
(* (run_lead_generator in app/scheduler/lead_generator.py), the Stop       *)
(* button, and the queued leads the runs leave in the database.            *)
(*                                                                         *)
(* HTTP threads submit and stop jobs, each under the module's lock, in one *)
(* step; a job's thread and the scheduler's tick scan the instruments one  *)
(* by one and look at the process-wide stop flag before each.              *)
(*                                                                         *)
(* Jobs are numbered in the order of submission.  Run 0 is the scheduler's *)
(* tick, run j > 0 the thread of job j.  run_lead_generator takes no lock: *)
(* acquire_generator_lock has no caller, so _generator_active stays FALSE  *)
(* and is left out, with the branches that need it.                        *)
(***************************************************************************)
EXTENDS Integers, FiniteSets

CONSTANTS MaxJobs,        \* bound on submitted jobs
          MaxTicks,       \* bound on scheduler ticks
          MaxRetained,    \* MAX_RETAINED
          Instruments,    \* number of enabled instruments
          LeadCap,        \* setting max_leads_per_run, 0: none
          MaxPerScan      \* bound on candidates of one instrument

ASSUME ConstantsAssumption ==
    /\ MaxJobs \in Nat /\ MaxTicks \in Nat /\ MaxRetained \in Nat \ {0}
    /\ Instruments \in Nat /\ LeadCap \in Nat /\ MaxPerScan \in Nat

VARIABLES jobs,        \* _jobs: the retained jobs
          submitted,   \* number of jobs submitted so far
          active,      \* _active_id, 0 for None
          stop,        \* _stop_requested
          run,         \* run[r] is the state of run r
          queued,      \* the runs with leads still queued (or picked) in the database
          ticks        \* scheduler ticks so far

vars == <<jobs, submitted, active, stop, run, queued, ticks>>

JobIds == 1..MaxJobs
Runs == 0..MaxJobs
Status == {"running", "done", "error", "cancelled"}
Job == [status: Status, asked: BOOLEAN]     \* asked: cancel_requested
RunState == [pc: {"off", "start", "scan", "store", "left", "finish"},
             left: 0..Instruments,          \* instruments whose result is not yet there
             created: Nat,                  \* leads made
             fresh: BOOLEAN,                \* its start cleared the queue
             end: {"done", "error", "cancelled"}]
Off == [pc |-> "off", left |-> 0, created |-> 0, fresh |-> FALSE, end |-> "done"]
OneTooMany == [pc |-> "start", left |-> Instruments + 1, created |-> 0, fresh |-> FALSE, end |-> "done"]
Started == [pc |-> "start", left |-> Instruments, created |-> 0, fresh |-> FALSE, end |-> "done"]

Init ==
    /\ jobs = [j \in {} |-> [status |-> "done", asked |-> FALSE]]
    /\ submitted = 0
    /\ active = 0
    /\ stop = FALSE
    /\ run = [r \in Runs |-> Off]
    /\ queued = {}
    /\ ticks = 0

Kept == DOMAIN jobs
Running(j) == j \in Kept /\ jobs[j].status = "running"

\* _trim: the oldest finished jobs go, never the running one.
Excess(js) == Cardinality(DOMAIN js) - MaxRetained
Oldest(ids, n) == {j \in ids : Cardinality({i \in ids : i < j}) < n}
Trim(js) ==
    [j \in DOMAIN js \ Oldest({i \in DOMAIN js : js[i].status # "running"}, Excess(js))
       |-> js[j]]

-----------------------------------------------------------------------------
(* HTTP threads *)

\* submit_manual_job: with a job running the caller is pointed to it.
CanSubmit == ~Running(active)
Submit ==
    /\ submitted < MaxJobs
    /\ CanSubmit
    /\ LET j == submitted + 1
           new == [i \in Kept \cup {j} |->
                     IF i = j THEN [status |-> "running", asked |-> FALSE] ELSE jobs[i]]
       IN  /\ submitted' = j
           /\ jobs' = Trim(new)
           /\ active' = j
           /\ run' = [run EXCEPT ![j] = Started]
    /\ UNCHANGED <<stop, queued, ticks>>

\* cancel_lead_generation and request_stop
RequestStop(j) ==
    /\ Running(j)
    /\ jobs' = [jobs EXCEPT ![j].asked = TRUE]
    /\ stop' = TRUE
    /\ UNCHANGED <<submitted, active, run, queued, ticks>>

-----------------------------------------------------------------------------
(* Runs *)

Registry == UNCHANGED <<jobs, submitted, active, stop>>
Leave(r, end) == [run[r] EXCEPT !.pc = "finish", !.end = end]

\* The scheduler's tick (max_instances=1).
TickBegin ==
    /\ run[0].pc = "off"
    /\ ticks < MaxTicks
    /\ ticks' = ticks + 1
    /\ run' = [run EXCEPT ![0] = Started]
    /\ Registry
    /\ UNCHANGED queued

\* A manual run first deletes the queued leads, whoever made them; that failing
\* is only logged.  The tick deletes none.  Whatever else fails, fails the run,
\* and outside trading hours the tick returns here.
ClearTicks == queued \ {0}
Cleared == {}
Start(r) ==
    /\ run[r].pc = "start"
    /\ \/ /\ r # 0
          /\ queued' = Cleared
          /\ run' = [run EXCEPT ![r].pc = "scan", ![r].fresh = TRUE]
       \/ run' = [run EXCEPT ![r].pc = "scan"] /\ UNCHANGED queued
       \/ run' = [run EXCEPT ![r] = Leave(r, "error")] /\ UNCHANGED queued
    /\ Registry
    /\ UNCHANGED ticks

Capped(r) == LeadCap # 0 /\ run[r].created >= LeadCap

\* An instrument's result is there: the flag is read, and a run that was stopped
\* leaves the loop.
Scan(r) ==
    /\ run[r].pc = "scan"
    /\ run[r].left > 0
    /\ run' = IF stop THEN [run EXCEPT ![r].left = @ - 1, ![r].pc = "left", ![r].end = "cancelled"]
                      ELSE [run EXCEPT ![r].left = @ - 1, ![r].pc = "store"]
    /\ Registry
    /\ UNCHANGED <<queued, ticks>>

\* There is nothing to store (an error, no candidate, the cap reached), or its
\* leads are stored; or a commit fails, and the run with it.
Stored(r, n) == [run EXCEPT ![r].pc = "scan", ![r].created = @ + n]
Store(r) ==
    /\ run[r].pc = "store"
    /\ \/ run' = Stored(r, 0) /\ UNCHANGED queued
       \/ /\ ~Capped(r)
          /\ \E n \in 1..MaxPerScan : run' = Stored(r, n)
          /\ queued' = queued \cup {r}
       \/ run' = [run EXCEPT ![r] = Leave(r, "error")] /\ UNCHANGED queued
    /\ Registry
    /\ UNCHANGED ticks

\* After the loop, stopped or not, the run logs what went wrong, which may fail too.
ScanEnd(r) ==
    /\ run[r].pc = "left" \/ (run[r].pc = "scan" /\ run[r].left = 0)
    /\ \E end \in {run[r].end, "error"} : run' = [run EXCEPT ![r] = Leave(r, end)]
    /\ Registry
    /\ UNCHANGED <<queued, ticks>>

\* _finish_job, for a run of the registry.
ErrorUnstamped(r) == IF run[r].end = "error" THEN "running" ELSE run[r].end
Stamp(r) == run[r].end
KeepStop == stop
StopAfterFinish == FALSE
Finish(r) ==
    /\ run[r].pc = "finish"
    /\ run' = [run EXCEPT ![r] = Off]
    /\ IF r = 0
         THEN Registry
         ELSE /\ jobs' = [jobs EXCEPT ![r].status = Stamp(r)]
              /\ active' = 0
              /\ stop' = StopAfterFinish
              /\ UNCHANGED submitted
    /\ UNCHANGED <<queued, ticks>>

\* The placer has dealt with the last queued lead of a run, or cleanup has.
LeadsTaken(r) ==
    /\ r \in queued
    /\ queued' = queued \ {r}
    /\ Registry
    /\ UNCHANGED <<run, ticks>>

RunStep(r) == Start(r) \/ Scan(r) \/ Store(r) \/ ScanEnd(r) \/ Finish(r)

Next ==
    \/ Submit \/ TickBegin
    \/ \E j \in JobIds : RequestStop(j)
    \/ \E r \in Runs : RunStep(r) \/ LeadsTaken(r)

Spec == Init /\ [][Next]_vars

\* A run's thread keeps running; each instrument's scan is bounded by timeouts.
FairSpec == Spec /\ \A r \in Runs : WF_vars(RunStep(r))

-----------------------------------------------------------------------------
(* Properties *)

\* Every variable has its type.
TypeOK ==
    /\ Kept \subseteq JobIds /\ jobs \in [Kept -> Job]
    /\ submitted \in 0..MaxJobs
    /\ active \in 0..MaxJobs
    /\ stop \in BOOLEAN
    /\ run \in [Runs -> RunState]
    /\ queued \subseteq Runs
    /\ ticks \in 0..MaxTicks

\* At most one manual run is in flight, and while it is, the registry names it
\* and keeps it: no trim loses a job whose thread is still working.
InFlight == {r \in JobIds : run[r].pc # "off"}
OneManualRun == \A r \in InFlight : r = active /\ Running(r)

\* A stop request does not outlive the job it was for, so the next run starts
\* from a clean slate, and no job is cancelled that nobody asked to stop.
StopIsForActive == stop => Running(active) /\ jobs[active].asked
CancelledWasAsked == \A j \in Kept : jobs[j].status = "cancelled" => jobs[j].asked

\* Once a run has reached the cap it makes no more leads: what it makes beyond
\* the cap comes from the instrument that reached it.
CapHolds == \A r \in Runs : LeadCap # 0 => run[r].created < LeadCap + MaxPerScan

\* While a manual run that cleared the queue is working, every queued lead is its
\* own or the scheduler's: no earlier manual run's list is mixed into the new one.
FreshList == \A r \in JobIds : run[r].fresh => queued \subseteq {0, r}

\* To its callers the registry is JobRegistry: one job at a time is accepted and
\* started, a job that runs is never forgotten, and every job ends, whatever is
\* stopped, trimmed or scheduled meanwhile.
Promise == INSTANCE JobRegistry WITH
    known <- Kept,
    working <- {j \in Kept : jobs[j].status = "running"}
JobsAsPromised == Promise!RegistrySpec
=============================================================================
