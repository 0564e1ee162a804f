------------------------- MODULE LeadJobs_proofs -------------------------
(***************************************************************************)
(* Proofs about LeadJobs for every number of jobs, ticks, instruments and  *)
(* retained jobs, and every cap.                                           *)
(***************************************************************************)
EXTENDS LeadJobs, TLAPS

(* What makes the properties inductive.                                      *)

\* Only the active job is marked running, and its thread is alive.
OnlyActiveRuns == \A j \in Kept : jobs[j].status = "running" => j = active /\ j \in InFlight

\* A run that was stopped, or ends as cancelled, is one whose stop was asked for.
CancelledEnd ==
    \A r \in InFlight : run[r].end = "cancelled" => jobs[r].asked

\* Only a run in flight has cleared the queue.
FreshInFlight == \A r \in JobIds : run[r].fresh => r \in InFlight


\* What ties the registry to the runs.
Registered == OneManualRun /\ OnlyActiveRuns /\ StopIsForActive

\* What the cancelled jobs were asked.
Asked == CancelledWasAsked /\ CancelledEnd

IInv == TypeOK /\ Registered /\ Asked /\ CapHolds /\ FreshList /\ FreshInFlight

-----------------------------------------------------------------------------
(* The actions keep the types. *)

LEMMA RunIds == JobIds = Runs \ {0} /\ 0 \in Runs
BY ConstantsAssumption DEF JobIds, Runs

\* Trimming drops finished jobs and changes none.
LEMMA TrimKeeps ==
    ASSUME NEW S \in SUBSET JobIds, NEW js \in [S -> Job]
    PROVE  /\ DOMAIN Trim(js) \subseteq S
           /\ Trim(js) \in [DOMAIN Trim(js) -> Job]
           /\ \A i \in DOMAIN Trim(js) : Trim(js)[i] = js[i]
           /\ \A i \in S : js[i].status = "running" => i \in DOMAIN Trim(js)
BY DEF Trim, Oldest

LEMMA StartedTypes == Started \in RunState /\ Off \in RunState
BY ConstantsAssumption DEF Started, Off, RunState

LEMMA LeaveType ==
    ASSUME TypeOK, NEW r \in Runs, NEW end \in {"done", "error", "cancelled"}
    PROVE  Leave(r, end) \in RunState
BY DEF Leave, TypeOK, RunState

\* What reading the flag makes of a run.
Gone(r) == [pc |-> IF stop THEN "left" ELSE "store", left |-> run[r].left - 1,
            created |-> run[r].created, fresh |-> run[r].fresh,
            end |-> IF stop THEN "cancelled" ELSE run[r].end]
LEMMA ScanIs ==
    ASSUME TypeOK, NEW r \in Runs, Scan(r), run[r].left - 1 \in 0..Instruments
    PROVE  run' = [run EXCEPT ![r] = Gone(r)] /\ Gone(r) \in RunState
<1>1. run[r] = [pc |-> run[r].pc, left |-> run[r].left, created |-> run[r].created,
                fresh |-> run[r].fresh, end |-> run[r].end] /\ run[r] \in RunState
  BY DEF TypeOK, RunState
<1>2. CASE stop
  BY <1>1, <1>2 DEF Scan, TypeOK, Gone, RunState
<1>3. CASE ~stop
  BY <1>1, <1>3 DEF Scan, TypeOK, Gone, RunState
<1> QED
  BY <1>2, <1>3

LEMMA TypeStep == TypeOK /\ [Next]_vars => TypeOK'
<1> SUFFICES ASSUME TypeOK, [Next]_vars PROVE TypeOK'
  OBVIOUS
<1> USE ConstantsAssumption, RunIds
<1>1. CASE Submit
  <2> DEFINE j == submitted + 1
             new == [i \in Kept \cup {j} |->
                      IF i = j THEN [status |-> "running", asked |-> FALSE] ELSE jobs[i]]
  <2>1. j \in JobIds /\ j \in Runs /\ Kept \cup {j} \in SUBSET JobIds
    BY <1>1 DEF Submit, TypeOK, JobIds, Runs
  <2>2. new \in [Kept \cup {j} -> Job]
    BY <2>1 DEF TypeOK, Job, Status, Kept
  <2>3. jobs' = Trim(new) /\ submitted' = j /\ active' = j /\ run' = [run EXCEPT ![j] = Started]
    BY <1>1 DEF Submit
  <2>4. DOMAIN jobs' \subseteq JobIds /\ jobs' \in [DOMAIN jobs' -> Job]
    <3> HIDE DEF new
    <3> QED BY <2>1, <2>2, <2>3, TrimKeeps
  <2>5. run' \in [Runs -> RunState]
    BY <2>1, <2>3, StartedTypes DEF TypeOK
  <2>6. UNCHANGED <<stop, queued, ticks>>
    BY <1>1 DEF Submit
  <2>7. submitted' \in 0..MaxJobs /\ active' \in 0..MaxJobs
    BY <2>1, <2>3 DEF JobIds
  <2> HIDE DEF j, new
  <2> QED
    BY <2>4, <2>5, <2>6, <2>7 DEF TypeOK, Kept
<1>2. CASE TickBegin
  BY <1>2, StartedTypes DEF TickBegin, TypeOK, Registry, Kept
<1>3. ASSUME NEW j \in JobIds, RequestStop(j) PROVE TypeOK'
  <2>1. Kept' = Kept /\ jobs' \in [Kept -> Job]
    BY <1>3 DEF RequestStop, TypeOK, Job, Kept
  <2> QED
    BY <1>3, <2>1 DEF RequestStop, TypeOK, Kept
<1>4. ASSUME NEW r \in Runs, Start(r) PROVE TypeOK'
  <2>1. Leave(r, "error") \in RunState
    BY LeaveType
  <2>2. run' \in [Runs -> RunState]
    BY <1>4, <2>1 DEF Start, TypeOK, RunState
  <2>3. queued' \subseteq Runs
    BY <1>4 DEF Start, TypeOK, Cleared
  <2> QED
    BY <1>4, <2>2, <2>3 DEF Start, TypeOK, Registry, Kept
<1>5. ASSUME NEW r \in Runs, Scan(r) PROVE TypeOK'
  <2>1. run[r] \in RunState /\ run[r].left - 1 \in 0..Instruments
    BY <1>5 DEF Scan, TypeOK, RunState
  <2>2. run' = [run EXCEPT ![r] = Gone(r)] /\ Gone(r) \in RunState
    BY <1>5, <2>1, ScanIs DEF TypeOK
  <2> QED
    BY <1>5, <2>2 DEF Scan, TypeOK, Registry, Kept
<1>10. ASSUME NEW r \in Runs, Store(r) PROVE TypeOK'
  <2>1. Leave(r, "error") \in RunState
    BY LeaveType
  <2>2. run[r] \in RunState
    BY DEF TypeOK
  <2>3. ASSUME NEW n \in Nat
        PROVE  [run[r] EXCEPT !.pc = "scan", !.created = @ + n] \in RunState
    <3>1. run[r].created + n \in Nat
      BY <2>2 DEF RunState
    <3> QED
      BY <2>2, <3>1 DEF RunState
  <2>4. run' \in [Runs -> RunState]
    <3>1. CASE run' = [run EXCEPT ![r] = Leave(r, "error")]
      BY <3>1, <2>1 DEF TypeOK
    <3>2. ASSUME NEW n \in Nat, run' = Stored(r, n) PROVE run' \in [Runs -> RunState]
      BY <3>2, <2>3 DEF TypeOK, Stored
    <3>3. \A n \in 1..MaxPerScan : n \in Nat
      OBVIOUS
    <3> QED
      BY <1>10, <3>1, <3>2, <3>3 DEF Store
  <2>5. queued' \subseteq Runs
    BY <1>10 DEF Store, TypeOK
  <2> QED
    BY <1>10, <2>4, <2>5 DEF Store, TypeOK, Registry, Kept
<1>6. ASSUME NEW r \in Runs, ScanEnd(r) PROVE TypeOK'
  <2>1. \A end \in {run[r].end, "error"} : Leave(r, end) \in RunState
    BY LeaveType DEF TypeOK, RunState
  <2>2. run' \in [Runs -> RunState]
    BY <1>6, <2>1 DEF ScanEnd, TypeOK
  <2> QED
    BY <1>6, <2>2 DEF ScanEnd, TypeOK, Registry, Kept
<1>7. ASSUME NEW r \in Runs, Finish(r) PROVE TypeOK'
  <2>1. run' \in [Runs -> RunState]
    BY <1>7, StartedTypes DEF Finish, TypeOK
  <2>2. Stamp(r) \in Status
    BY <1>7 DEF Stamp, TypeOK, RunState, Status
  <2>3. Kept' = Kept /\ jobs' \in [Kept -> Job] /\ active' \in 0..MaxJobs /\ stop' \in BOOLEAN
        /\ submitted' = submitted
    <3>1. CASE r = 0
      BY <1>7, <3>1 DEF Finish, Registry, TypeOK, Kept
    <3>2. CASE r # 0
      <4>1. jobs' = [jobs EXCEPT ![r].status = Stamp(r)]
        BY <1>7, <3>2 DEF Finish
      <4>2. \A k \in Kept : [jobs[k] EXCEPT !.status = Stamp(r)] \in Job
        BY <2>2 DEF TypeOK, Job
      <4>3. Kept' = Kept /\ jobs' \in [Kept -> Job]
        BY <4>1, <4>2 DEF TypeOK, Kept
      <4>4. active' \in 0..MaxJobs
        BY <1>7, <3>2 DEF Finish
      <4>5. stop' \in BOOLEAN
        BY <1>7, <3>2 DEF Finish, StopAfterFinish
      <4>6. submitted' = submitted
        BY <1>7, <3>2 DEF Finish
      <4> QED
        BY <4>3, <4>4, <4>5, <4>6
    <3> QED
      BY <3>1, <3>2
  <2> QED
    BY <1>7, <2>1, <2>3 DEF Finish, TypeOK, Kept
<1>8. ASSUME NEW r \in Runs, LeadsTaken(r) PROVE TypeOK'
  BY <1>8 DEF LeadsTaken, TypeOK, Registry, Kept
<1>9. CASE UNCHANGED vars
  BY <1>9 DEF TypeOK, vars, Kept
<1> QED
  BY <1>1, <1>2, <1>3, <1>4, <1>5, <1>6, <1>7, <1>8, <1>9, <1>10 DEF Next, RunStep

LEMMA InitTypes == Init => TypeOK
<1> SUFFICES ASSUME Init PROVE TypeOK
  OBVIOUS
<1>1. Kept = {} /\ jobs \in [Kept -> Job]
  BY DEF Init, Kept
<1>2. run \in [Runs -> RunState]
  BY StartedTypes DEF Init
<1>3. stop \in BOOLEAN
  BY DEF Init
<1>4. submitted \in 0..MaxJobs /\ active \in 0..MaxJobs /\ queued \subseteq Runs
      /\ ticks \in 0..MaxTicks
  BY ConstantsAssumption DEF Init
<1> QED
  BY <1>1, <1>2, <1>3, <1>4 DEF TypeOK

\* Every variable keeps its type, whatever runs, stops and fails.
THEOREM JobsTypeCorrect == Spec => []TypeOK
BY InitTypes, TypeStep, PTL DEF Spec

-----------------------------------------------------------------------------
(* The registry and the runs *)

Parts == Registered /\ Asked /\ CapHolds /\ FreshList /\ FreshInFlight

LEMMA InitParts == Init => Parts
BY RunIds, ConstantsAssumption
   DEF Init, Parts, Registered, Asked, OneManualRun, OnlyActiveRuns, StopIsForActive,
       CancelledWasAsked, CancelledEnd, CapHolds, FreshList, FreshInFlight, InFlight,
       Running, Kept, Off

\* With nothing running, no manual run is in flight and no stop is pending.
LEMMA Idle ==
    ASSUME IInv, CanSubmit
    PROVE  InFlight = {} /\ stop = FALSE /\ \A j \in Kept : jobs[j].status # "running"
<1>1. InFlight = {}
  BY DEF IInv, Registered, OneManualRun, CanSubmit
<1>2. stop = FALSE
  BY DEF IInv, Registered, StopIsForActive, CanSubmit, TypeOK
<1> QED
  BY <1>1, <1>2 DEF IInv, Registered, OnlyActiveRuns

LEMMA SubmitParts == IInv /\ Submit => Parts'
<1> SUFFICES ASSUME IInv, Submit PROVE Parts'
  OBVIOUS
<1> USE RunIds, ConstantsAssumption
<1> DEFINE j == submitted + 1
           new == [i \in Kept \cup {j} |->
                    IF i = j THEN [status |-> "running", asked |-> FALSE] ELSE jobs[i]]
<1>1. j \in JobIds /\ Kept \cup {j} \in SUBSET JobIds
  BY DEF Submit, IInv, TypeOK, JobIds
<1>2. new \in [Kept \cup {j} -> Job]
  BY DEF IInv, TypeOK, Job, Status, Kept
<1>3. jobs' = Trim(new) /\ active' = j /\ run' = [run EXCEPT ![j] = Started]
      /\ stop' = stop /\ queued' = queued
  BY DEF Submit
<1>4. InFlight = {} /\ stop = FALSE /\ \A i \in Kept : jobs[i].status # "running"
  BY Idle DEF Submit
<1>5. /\ Kept' \subseteq Kept \cup {j}
      /\ \A i \in Kept' : jobs'[i] = new[i]
      /\ \A i \in Kept \cup {j} : new[i].status = "running" => i \in Kept'
  <2> HIDE DEF new
  <2> QED BY <1>1, <1>2, <1>3, TrimKeeps DEF Kept
<1>6. new[j] = [status |-> "running", asked |-> FALSE]
  OBVIOUS
<1>7. \A i \in Kept : i # j => new[i] = jobs[i]
  OBVIOUS
<1>8. run'[j] = Started /\ \A r \in Runs : r # j => run'[r] = run[r]
  BY <1>1, <1>3 DEF IInv, TypeOK
<1> HIDE DEF j, new
<1>9. j \in Kept' /\ jobs'[j].status = "running" /\ jobs'[j].asked = FALSE
  BY <1>1, <1>5, <1>6
<1>10. InFlight' = {j}
  BY <1>1, <1>4, <1>8 DEF InFlight, Started
<1>11. \A i \in Kept' : i # j => i \in Kept /\ jobs'[i] = jobs[i]
  BY <1>5, <1>7
<1>12. Registered'
  BY <1>3, <1>4, <1>9, <1>10, <1>11
     DEF Registered, OneManualRun, OnlyActiveRuns, StopIsForActive, Running
<1>13. Asked'
  BY <1>1, <1>8, <1>9, <1>10, <1>11
     DEF Asked, CancelledWasAsked, CancelledEnd, IInv, Started
<1>14. CapHolds'
  BY <1>8 DEF CapHolds, IInv, Started
<1>15. FreshInFlight' /\ FreshList'
  BY <1>1, <1>4, <1>8, <1>10 DEF FreshInFlight, FreshList, IInv, Started
<1> QED
  BY <1>12, <1>13, <1>14, <1>15 DEF Parts

LEMMA StopParts == ASSUME IInv, NEW j \in JobIds, RequestStop(j) PROVE Parts'
<1>1. Kept' = Kept /\ j \in Kept /\ jobs[j].status = "running"
  BY DEF RequestStop, Running, Kept, IInv, TypeOK
<1>2. jobs'[j].asked = TRUE /\ jobs'[j].status = "running"
      /\ \A i \in Kept : i # j => jobs'[i] = jobs[i]
  BY <1>1 DEF RequestStop, Kept, IInv, TypeOK, Job
<1>3. j = active /\ active' = active /\ run' = run /\ queued' = queued /\ InFlight' = InFlight
  BY <1>1 DEF RequestStop, IInv, Registered, OnlyActiveRuns, InFlight
<1>4. Registered'
  <2>1. \A i \in Kept : jobs'[i].status = jobs[i].status
    BY <1>1, <1>2
  <2>2. OneManualRun' /\ OnlyActiveRuns'
    BY <1>1, <1>3, <2>1 DEF IInv, Registered, OneManualRun, OnlyActiveRuns, Running
  <2>3. StopIsForActive'
    BY <1>1, <1>2, <1>3 DEF StopIsForActive, Running
  <2> QED
    BY <2>2, <2>3 DEF Registered
<1>5. Asked'
  <2>1. CancelledWasAsked'
    BY <1>1, <1>2 DEF IInv, Asked, CancelledWasAsked
  <2>2. \A r \in InFlight : r = j
    BY <1>3 DEF IInv, Registered, OneManualRun
  <2>3. CancelledEnd'
    BY <1>2, <1>3, <2>2 DEF CancelledEnd
  <2> QED
    BY <2>1, <2>3 DEF Asked
<1>6. CapHolds' /\ FreshList' /\ FreshInFlight'
  BY <1>3 DEF IInv, CapHolds, FreshList, FreshInFlight
<1> QED
  BY <1>4, <1>5, <1>6 DEF Parts

\* A step of run r that leaves the registry alone: what it may do to r's state.
LEMMA RunParts ==
    ASSUME IInv, NEW r \in Runs, NEW x \in RunState, Registry,
           run' = [run EXCEPT ![r] = x],
           r # 0 => (x.pc # "off" <=> run[r].pc # "off"),
           LeadCap # 0 => x.created < LeadCap + MaxPerScan,
           x.end = "cancelled" => run[r].end = "cancelled" \/ stop = TRUE \/ r = 0,
           r # 0 /\ x.fresh => r \in InFlight /\ queued' \subseteq {0, r},
           queued' \subseteq queued \/ (queued' = queued \cup {r} /\ (r = 0 \/ r \in InFlight))
    PROVE  Parts'
<1> USE RunIds
<1>1. run'[r] = x /\ \A q \in Runs : q # r => run'[q] = run[q]
  BY DEF IInv, TypeOK
<1>2. InFlight' = InFlight
  BY <1>1 DEF InFlight
<1>3. jobs' = jobs /\ active' = active /\ stop' = stop /\ Kept' = Kept
  BY DEF Registry, Kept
<1>4. Registered'
  BY <1>2, <1>3 DEF IInv, Registered, OneManualRun, OnlyActiveRuns, StopIsForActive, Running
<1>5. Asked'
  <2>1. ASSUME NEW q \in InFlight, run'[q].end = "cancelled"
        PROVE  jobs[q].asked
    <3>1. CASE q = r
      <4>1. q # 0 /\ (run[q].end = "cancelled" \/ stop = TRUE)
        BY <1>1, <2>1, <3>1 DEF InFlight
      <4> QED
        BY <4>1 DEF IInv, Registered, OneManualRun, StopIsForActive, Asked, CancelledEnd
    <3>2. CASE q # r
      BY <1>1, <2>1, <3>2 DEF IInv, Asked, CancelledEnd, InFlight
    <3> QED
      BY <3>1, <3>2
  <2> QED
    BY <1>2, <1>3, <2>1 DEF IInv, Asked, CancelledWasAsked, CancelledEnd
<1>6. CapHolds'
  BY <1>1 DEF IInv, CapHolds
<1>7. FreshInFlight'
  BY <1>1, <1>2 DEF IInv, FreshInFlight
<1>8. FreshList'
  <2> SUFFICES ASSUME NEW q \in JobIds, run'[q].fresh PROVE queued' \subseteq {0, q}
    BY DEF FreshList
  <2>1. CASE q = r
    BY <1>1, <2>1
  <2>2. CASE q # r
    <3>1. run[q].fresh /\ q \in InFlight
      BY <1>1, <2>2 DEF IInv, FreshInFlight
    <3>2. queued \subseteq {0, q}
      BY <3>1 DEF IInv, FreshList
    <3>3. r = 0 \/ r \notin InFlight
      BY <2>2, <3>1 DEF IInv, Registered, OneManualRun
    <3> QED
      BY <3>2, <3>3
  <2> QED
    BY <2>1, <2>2
<1> QED
  BY <1>4, <1>5, <1>6, <1>7, <1>8 DEF Parts

LEMMA LeaveIs ==
    ASSUME TypeOK, NEW r \in Runs, NEW end \in {"done", "error", "cancelled"}
    PROVE  LET x == Leave(r, end)
           IN  x.pc = "finish" /\ x.end = end /\ x.fresh = run[r].fresh
               /\ x.created = run[r].created
BY DEF Leave, TypeOK, RunState

\* A run that leaves its loop is one that was in flight.
LEMMA LeaveParts ==
    ASSUME IInv, NEW r \in Runs, NEW end \in {"done", "error", "cancelled"}, Registry,
           run' = [run EXCEPT ![r] = Leave(r, end)], queued' = queued,
           run[r].pc # "off", end = "cancelled" => run[r].end = "cancelled"
    PROVE  Parts'
<1> DEFINE x == Leave(r, end)
<1>1. x \in RunState /\ x.pc = "finish" /\ x.end = end /\ x.fresh = run[r].fresh
      /\ x.created = run[r].created
  BY LeaveIs, LeaveType DEF IInv
<1>2. run' = [run EXCEPT ![r] = x]
  OBVIOUS
<1> HIDE DEF x
<1>3. LeadCap # 0 => x.created < LeadCap + MaxPerScan
  BY <1>1 DEF IInv, CapHolds
<1>4. r # 0 /\ x.fresh => r \in InFlight /\ queued' \subseteq {0, r}
  BY <1>1, RunIds DEF IInv, FreshInFlight, FreshList
<1>5. x.end = "cancelled" => run[r].end = "cancelled" \/ stop = TRUE \/ r = 0
  BY <1>1
<1> QED
  BY <1>1, <1>2, <1>3, <1>4, <1>5, RunParts

LEMMA TickParts == IInv /\ TickBegin => Parts'
<1> SUFFICES ASSUME IInv, TickBegin PROVE Parts'
  OBVIOUS
<1>1. Started \in RunState /\ Started.created = 0 /\ Started.end # "cancelled"
  BY StartedTypes DEF Started
<1>2. LeadCap # 0 => Started.created < LeadCap + MaxPerScan
  BY <1>1, ConstantsAssumption
<1>3. run' = [run EXCEPT ![0] = Started] /\ queued' = queued /\ Registry
  BY DEF TickBegin
<1> QED
  BY <1>1, <1>2, <1>3, RunParts, RunIds

LEMMA StartParts == ASSUME IInv, NEW r \in Runs, Start(r) PROVE Parts'
<1> DEFINE go == [run[r] EXCEPT !.pc = "scan"]
           cleared == [run[r] EXCEPT !.pc = "scan", !.fresh = TRUE]
<1>1. Registry /\ run[r].pc = "start"
  BY DEF Start
<1>2. r # 0 => r \in InFlight
  BY <1>1 DEF InFlight, Runs, JobIds
<1>3. LeadCap # 0 => run[r].created < LeadCap + MaxPerScan
  BY DEF IInv, CapHolds
<1>4. CASE run' = [run EXCEPT ![r] = Leave(r, "error")] /\ UNCHANGED queued
  BY <1>1, <1>4, LeaveParts
<1>5. CASE run' = [run EXCEPT ![r].pc = "scan"] /\ UNCHANGED queued
  <2>1. run' = [run EXCEPT ![r] = go]
    BY <1>5 DEF IInv, TypeOK
  <2>2. go \in RunState /\ go.pc = "scan" /\ go.created = run[r].created
        /\ go.fresh = run[r].fresh /\ go.end = run[r].end
    BY DEF IInv, TypeOK, RunState
  <2>3. r # 0 /\ go.fresh => r \in InFlight /\ queued' \subseteq {0, r}
    BY <1>2, <1>5, <2>2 DEF IInv, FreshList, InFlight
  <2> HIDE DEF go
  <2> QED
    BY <1>1, <1>2, <1>3, <1>5, <2>1, <2>2, <2>3, RunParts
<1>6. CASE /\ r # 0 /\ queued' = Cleared
           /\ run' = [run EXCEPT ![r].pc = "scan", ![r].fresh = TRUE]
  <2>1. run' = [run EXCEPT ![r] = cleared]
    BY <1>6 DEF IInv, TypeOK
  <2>2. cleared \in RunState /\ cleared.pc = "scan" /\ cleared.created = run[r].created
        /\ cleared.end = run[r].end
    BY DEF IInv, TypeOK, RunState
  <2>3. queued' = {}
    BY <1>6 DEF Cleared
  <2> HIDE DEF cleared
  <2> QED
    BY <1>1, <1>2, <1>3, <2>1, <2>2, <2>3, RunParts
<1> QED
  BY <1>4, <1>5, <1>6 DEF Start

LEMMA ScanParts == ASSUME IInv, NEW r \in Runs, Scan(r) PROVE Parts'
<1>1. Registry /\ run[r].pc = "scan" /\ run[r].left - 1 \in 0..Instruments /\ queued' = queued
  BY DEF Scan, IInv, TypeOK, RunState
<1>2. run' = [run EXCEPT ![r] = Gone(r)] /\ Gone(r) \in RunState
  BY <1>1, ScanIs DEF IInv
<1>3. /\ Gone(r).pc # "off" /\ Gone(r).created = run[r].created /\ Gone(r).fresh = run[r].fresh
      /\ Gone(r).end = "cancelled" => run[r].end = "cancelled" \/ stop = TRUE
  BY DEF Gone, IInv, TypeOK
<1>4. LeadCap # 0 => Gone(r).created < LeadCap + MaxPerScan
  BY <1>3 DEF IInv, CapHolds
<1>5. r # 0 /\ Gone(r).fresh => r \in InFlight /\ queued' \subseteq {0, r}
  BY <1>1, <1>3, RunIds DEF IInv, FreshList, InFlight
<1> QED
  BY <1>1, <1>2, <1>3, <1>4, <1>5, RunParts

LEMMA StoreParts == ASSUME IInv, NEW r \in Runs, Store(r) PROVE Parts'
<1> DEFINE made(n) == [run[r] EXCEPT !.pc = "scan", !.created = @ + n]
<1>1. Registry /\ run[r].pc = "store" /\ run[r].created \in Nat
  BY DEF Store, IInv, TypeOK, RunState
<1>2. r # 0 => r \in InFlight
  BY <1>1, RunIds DEF InFlight
<1>3. r # 0 /\ run[r].fresh => queued \subseteq {0, r}
  BY RunIds DEF IInv, FreshList
<1>4. CASE run' = [run EXCEPT ![r] = Leave(r, "error")] /\ UNCHANGED queued
  BY <1>1, <1>4, LeaveParts
<1>5. ASSUME NEW n \in Nat, run' = Stored(r, n),
             LeadCap # 0 => run[r].created + n < LeadCap + MaxPerScan,
             queued' = queued \/ queued' = queued \cup {r}
      PROVE  Parts'
  <2>1. run' = [run EXCEPT ![r] = made(n)]
    BY <1>5 DEF IInv, TypeOK, Stored
  <2>2. run[r].created + n \in Nat
    BY <1>1
  <2>3. made(n) \in RunState
    BY <1>1, <2>2 DEF IInv, TypeOK, RunState
  <2>4. made(n).pc = "scan" /\ made(n).created = run[r].created + n
        /\ made(n).fresh = run[r].fresh /\ made(n).end = run[r].end
    BY <1>1 DEF IInv, TypeOK, RunState
  <2>5. LeadCap # 0 => made(n).created < LeadCap + MaxPerScan
    BY <1>5, <2>4
  <2> HIDE DEF made
  <2> QED
    BY <1>1, <1>2, <1>3, <1>5, <2>1, <2>3, <2>4, <2>5, RunParts
<1>6. CASE run' = Stored(r, 0) /\ UNCHANGED queued
  <2>1. LeadCap # 0 => run[r].created + 0 < LeadCap + MaxPerScan
    BY <1>1 DEF IInv, CapHolds
  <2> QED
    BY <1>5, <1>6, <2>1
<1>7. ASSUME ~Capped(r), NEW n \in 1..MaxPerScan, run' = Stored(r, n),
             queued' = queued \cup {r}
      PROVE  Parts'
  <2>1. LeadCap # 0 => run[r].created + n < LeadCap + MaxPerScan
    BY <1>1, <1>7, ConstantsAssumption DEF Capped
  <2> QED
    BY <1>5, <1>7, <2>1
<1> QED
  BY <1>4, <1>6, <1>7 DEF Store

LEMMA FinishParts == ASSUME IInv, NEW r \in Runs, Finish(r) PROVE Parts'
<1> USE RunIds
<1>1. run'[r] = Off /\ (\A q \in Runs : q # r => run'[q] = run[q]) /\ queued' = queued
  BY DEF Finish, IInv, TypeOK
<1>2. InFlight' = InFlight \ {r}
  BY <1>1 DEF InFlight, Off
<1>3. FreshInFlight' /\ FreshList'
  BY <1>1, <1>2 DEF IInv, FreshInFlight, FreshList, Off
<1>4. CapHolds'
  BY <1>1, ConstantsAssumption DEF IInv, CapHolds, Off
<1>5. CASE r = 0
  <2>1. jobs' = jobs /\ active' = active /\ stop' = stop /\ Kept' = Kept
    BY <1>5 DEF Finish, Registry, Kept
  <2>2. InFlight' = InFlight
    BY <1>2, <1>5 DEF InFlight
  <2>3. Registered'
    BY <2>1, <2>2 DEF IInv, Registered, OneManualRun, OnlyActiveRuns, StopIsForActive, Running
  <2>4. Asked'
    BY <1>1, <1>5, <2>1, <2>2 DEF IInv, Asked, CancelledWasAsked, CancelledEnd, InFlight
  <2> QED
    BY <1>3, <1>4, <2>3, <2>4 DEF Parts
<1>6. CASE r # 0
  <2>1. r \in InFlight /\ r = active /\ r \in Kept
    BY <1>6 DEF Finish, InFlight, IInv, Registered, OneManualRun, Running, Runs, JobIds
  <2>2. jobs' = [jobs EXCEPT ![r].status = run[r].end] /\ active' = 0 /\ stop' = FALSE
    BY <1>6 DEF Finish, StopAfterFinish, Stamp
  <2>3. Kept' = Kept /\ jobs'[r].status = run[r].end /\ jobs'[r].asked = jobs[r].asked
        /\ \A i \in Kept : i # r => jobs'[i] = jobs[i]
    BY <2>1, <2>2 DEF IInv, TypeOK, Kept, Job
  <2>4. run[r].end # "running"
    BY DEF IInv, TypeOK, RunState
  <2>5. InFlight' = {}
    BY <1>2, <2>1 DEF IInv, Registered, OneManualRun
  <2>6. \A i \in Kept' : jobs'[i].status # "running"
    BY <2>1, <2>3, <2>4 DEF IInv, Registered, OnlyActiveRuns
  <2>7. Registered'
    BY <2>2, <2>5, <2>6 DEF Registered, OneManualRun, OnlyActiveRuns, StopIsForActive
  <2>8. run[r].end = "cancelled" => jobs[r].asked
    BY <2>1 DEF Finish, IInv, Asked, CancelledEnd
  <2>9. Asked'
    BY <2>3, <2>5, <2>8 DEF IInv, Asked, CancelledWasAsked, CancelledEnd
  <2> QED
    BY <1>3, <1>4, <2>7, <2>9 DEF Parts
<1> QED
  BY <1>5, <1>6

LEMMA TakenParts == ASSUME IInv, NEW r \in Runs, LeadsTaken(r) PROVE Parts'
<1>1. UNCHANGED <<jobs, submitted, active, stop, run>> /\ queued' \subseteq queued
  BY DEF LeadsTaken, Registry
<1>2. InFlight' = InFlight /\ Kept' = Kept
  BY <1>1 DEF InFlight, Kept
<1> QED
  BY <1>1, <1>2
     DEF IInv, Parts, Registered, OneManualRun, OnlyActiveRuns, StopIsForActive, Running,
         Asked, CancelledWasAsked, CancelledEnd, CapHolds, FreshList, FreshInFlight

LEMMA StutterParts == IInv /\ UNCHANGED vars => Parts'
BY DEF vars, InFlight, Kept, IInv, Parts, Registered, OneManualRun, OnlyActiveRuns,
       StopIsForActive, Running, Asked, CancelledWasAsked, CancelledEnd, CapHolds,
       FreshList, FreshInFlight

LEMMA Inductive == IInv /\ [Next]_vars => IInv'
<1> SUFFICES ASSUME IInv, [Next]_vars PROVE IInv'
  OBVIOUS
<1>1. TypeOK'
  BY TypeStep DEF IInv
<1>2. ASSUME NEW r \in Runs, RunStep(r) PROVE Parts'
  <2>1. CASE ScanEnd(r)
    <3>1. PICK end \in {run[r].end, "error"} : run' = [run EXCEPT ![r] = Leave(r, end)]
      BY <2>1 DEF ScanEnd
    <3>2. run[r].end \in {"done", "error", "cancelled"} /\ run[r].pc # "off"
      BY <2>1 DEF ScanEnd, IInv, TypeOK, RunState
    <3> QED
      BY <2>1, <3>1, <3>2, LeaveParts DEF ScanEnd
  <2> QED
    BY <1>2, <2>1, StartParts, ScanParts, StoreParts, FinishParts DEF RunStep
<1>3. Parts'
  BY <1>2, SubmitParts, TickParts, StopParts, TakenParts, StutterParts DEF Next
<1> QED
  BY <1>1, <1>3 DEF IInv, Parts

LEMMA Invariant == Spec => []IInv
<1>1. Init => IInv
  BY InitParts, InitTypes DEF IInv, Parts
<1> QED
  BY <1>1, Inductive, PTL DEF Spec

\* However requests, stops, ticks and failures interleave, at most one manual run
\* is in flight, and the registry knows it.
THEOREM OneRun == Spec => []OneManualRun
<1>1. IInv => OneManualRun
  BY DEF IInv, Registered
<1> QED
  BY <1>1, Invariant, PTL

\* The process-wide stop flag is up only for a running job somebody asked to stop.
THEOREM StopScoped == Spec => []StopIsForActive
<1>1. IInv => StopIsForActive
  BY DEF IInv, Registered
<1> QED
  BY <1>1, Invariant, PTL

\* A job ends as cancelled only when somebody asked for it.
THEOREM NoStrayCancel == Spec => []CancelledWasAsked
<1>1. IInv => CancelledWasAsked
  BY DEF IInv, Asked
<1> QED
  BY <1>1, Invariant, PTL

\* A run exceeds its cap by less than one instrument's candidates.
THEOREM CapBounded == Spec => []CapHolds
<1>1. IInv => CapHolds
  BY DEF IInv
<1> QED
  BY <1>1, Invariant, PTL

\* A cleared queue holds no lead of an earlier manual run while the new one works.
THEOREM QueueFresh == Spec => []FreshList
<1>1. IInv => FreshList
  BY DEF IInv
<1> QED
  BY <1>1, Invariant, PTL
-----------------------------------------------------------------------------
(* LeadJobs implements JobRegistry. *)

Working == {j \in Kept : jobs[j].status = "running"}

\* The statuses of a registry that an action leaves alone, or changes only in asked.
LEMMA SameWorking ==
    ASSUME Kept' = Kept, \A j \in Kept : jobs'[j].status = jobs[j].status
    PROVE  Working' = Working
BY DEF Working

LEMMA PromiseInit == Init => Promise!RegistryInit
<1> SUFFICES ASSUME Init PROVE Kept = {} /\ Working = {} /\ submitted = 0
  BY DEF Promise!RegistryInit, Working
<1> QED
  BY DEF Init, Kept, Working

LEMMA SubmitAccepts == IInv /\ Submit => Promise!Accept
<1> SUFFICES ASSUME IInv, Submit PROVE Promise!Accept
  OBVIOUS
<1> USE ConstantsAssumption
<1> DEFINE j == submitted + 1
           new == [i \in Kept \cup {j} |->
                    IF i = j THEN [status |-> "running", asked |-> FALSE] ELSE jobs[i]]
<1>1. j \in JobIds /\ Kept \cup {j} \in SUBSET JobIds
  BY DEF Submit, IInv, TypeOK, JobIds
<1>2. new \in [Kept \cup {j} -> Job]
  BY <1>1 DEF IInv, TypeOK, Job, Status, Kept
<1>3. jobs' = Trim(new) /\ submitted' = j
  BY DEF Submit
<1>4. Working = {}
  BY DEF Submit, CanSubmit, Running, Working, IInv, Registered, OnlyActiveRuns
<1>5. \A i \in Kept \cup {j} : new[i].status = "running" <=> i = j
  BY <1>4 DEF Working
<1>6. /\ Kept' \subseteq Kept \cup {j}
      /\ \A i \in Kept' : jobs'[i] = new[i]
      /\ j \in Kept'
  <2>1. j \in Kept \cup {j} /\ new[j].status = "running"
    BY <1>5
  <2> HIDE DEF new, j
  <2> QED
    BY <1>1, <1>2, <1>3, <2>1, TrimKeeps DEF Kept
<1>7. Working' = {j}
  BY <1>5, <1>6 DEF Working
<1>8. PICK kept \in SUBSET Kept : Kept' = kept \cup {j}
  BY <1>6, Kept' \ {j} \in SUBSET Kept, Kept' = (Kept' \ {j}) \cup {j}
<1>9. submitted < MaxJobs
  BY DEF Submit
<1> HIDE DEF new
<1> QED
  BY <1>3, <1>4, <1>7, <1>8, <1>9 DEF Promise!Accept, Working

LEMMA FinishEnds ==
    ASSUME IInv, NEW r \in Runs, Finish(r)
    PROVE  Promise!End \/ UNCHANGED Promise!registryVars
<1> USE ConstantsAssumption, RunIds
<1>1. CASE r = 0
  <2>1. Kept' = Kept /\ Working' = Working /\ submitted' = submitted
    BY <1>1 DEF Finish, Registry, Kept, Working
  <2> QED
    BY <2>1 DEF Promise!registryVars, Working
<1>2. CASE r # 0
  <2>1. r \in InFlight /\ r = active /\ Running(r)
    BY <1>2 DEF Finish, InFlight, IInv, Registered, OneManualRun
  <2>2. Working = {r}
    BY <2>1 DEF Running, Working, IInv, Registered, OnlyActiveRuns
  <2>3. jobs' = [jobs EXCEPT ![r].status = run[r].end] /\ submitted' = submitted
    BY <1>2 DEF Finish, Stamp
  <2>4. run[r].end # "running"
    BY DEF IInv, TypeOK, RunState
  <2>5. Kept' = Kept
    BY <2>3 DEF Kept, IInv, TypeOK
  <2>6. Working' = {}
    BY <2>1, <2>2, <2>3, <2>4, <2>5 DEF Working, Running, IInv, TypeOK
  <2> QED
    BY <2>2, <2>3, <2>5, <2>6 DEF Promise!End, Working
<1> QED
  BY <1>1, <1>2

LEMMA PromiseStep ==
    IInv /\ [Next]_vars => [Promise!RegistryNext]_(Promise!registryVars)
<1> SUFFICES ASSUME IInv, [Next]_vars
             PROVE  Promise!RegistryNext \/ UNCHANGED Promise!registryVars
  OBVIOUS
<1>0. ASSUME UNCHANGED <<jobs, submitted>> PROVE UNCHANGED Promise!registryVars
  BY <1>0 DEF Promise!registryVars, Kept
<1>1. CASE Submit
  BY <1>1, SubmitAccepts DEF Promise!RegistryNext
<1>2. CASE TickBegin
  BY <1>0, <1>2 DEF TickBegin, Registry
<1>3. ASSUME NEW j \in JobIds, RequestStop(j) PROVE UNCHANGED Promise!registryVars
  <2>1. Kept' = Kept /\ \A i \in Kept : jobs'[i].status = jobs[i].status
    BY <1>3 DEF RequestStop, Kept, IInv, TypeOK, Job
  <2>2. Working' = Working /\ submitted' = submitted
    BY <1>3, <2>1, SameWorking DEF RequestStop
  <2> QED
    BY <2>1, <2>2 DEF Promise!registryVars, Working
<1>4. ASSUME NEW r \in Runs, Start(r) \/ Scan(r) \/ Store(r) \/ ScanEnd(r) \/ LeadsTaken(r)
      PROVE  UNCHANGED Promise!registryVars
  BY <1>0, <1>4 DEF Start, Scan, Store, ScanEnd, LeadsTaken, Registry
<1>5. ASSUME NEW r \in Runs, Finish(r)
      PROVE  Promise!RegistryNext \/ UNCHANGED Promise!registryVars
  BY <1>5, FinishEnds DEF Promise!RegistryNext
<1>6. CASE UNCHANGED vars
  BY <1>0, <1>6 DEF vars
<1> QED
  BY <1>1, <1>2, <1>3, <1>4, <1>5, <1>6 DEF Next, RunStep

\* To the endpoints and the consoles behind them, the registry with all its runs,
\* stops, ticks and trims is the one JobRegistry describes: it accepts one job at a
\* time and never forgets one that runs (that every job ends is left to TLC).
THEOREM RegistryRefined ==
    Spec => Promise!RegistryInit /\ [][Promise!RegistryNext]_(Promise!registryVars)
<1>1. IInv /\ [Next]_vars => [Promise!RegistryNext]_(Promise!registryVars)
  BY PromiseStep
<1>2. Init => Promise!RegistryInit
  BY PromiseInit
<1> QED
  BY <1>1, <1>2, Invariant, PTL DEF Spec
=============================================================================
