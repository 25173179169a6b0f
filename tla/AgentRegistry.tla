---------------------------- MODULE AgentRegistry ----------------------------
(***************************************************************************)
(* The run registry of every agent process (distributed/registry.go): the  *)
(* map of runs, the single active slot, the goroutine that executes a run  *)
(* and the Start, Status and Cancel operations served over RPC.  A         *)
(* critical section under Registry.mu is one action.                       *)
(***************************************************************************)
EXTENDS Integers, Sequences, FiniteSets

CONSTANTS
    Agents,         \* the agent processes
    RunIDs,         \* run identifiers, the empty one left out
    NoRun,          \* the empty run identifier: no active run
    Capabilities,   \* Capabilities[a]: what agent a announces
    Requests        \* the run requests that may arrive

ASSUME NoRunAssumption == NoRun \notin RunIDs

ASSUME CapabilitiesAssumption ==
    Capabilities \in [Agents -> [capacity: Nat, direct: Nat, browser: Nat,
                                 protocols: SUBSET STRING]]

(* A request names a run, or nothing, and carries a list of jobs.          *)
ASSUME RequestsAssumption ==
    \A req \in Requests :
        /\ req.runID \in RunIDs \cup {NoRun}
        /\ Len(req.jobs) \in Nat /\ DOMAIN req.jobs = 1..Len(req.jobs)

VARIABLES
    runs,       \* runs[a][r]: the record agent a keeps of run r
    active,     \* active[a]: the run that occupies agent a, or NoRun
    stopping    \* stopping[a]: the agent's parent context is done

registryVars == <<runs, active, stopping>>

-----------------------------------------------------------------------------
(* Request validation.  A request carries its run, whether its durations,  *)
(* retry count and activity intervals are in range ("policyOK"), and jobs. *)

DirectModes == {"ssh", "rdp", "vnc", "web", "mysql"}
BrowserModes == DirectModes \ {"ssh"}

JobsInMode(jobs, mode) == {i \in DOMAIN jobs : jobs[i].mode = mode}

JobSupported(job, cap) ==
    \/ job.mode = "direct" /\ job.protocol \in DirectModes \cap cap.protocols
    \/ job.mode = "browser" /\ job.protocol \in BrowserModes

DistinctBy(jobs, field) ==
    \A i, j \in DOMAIN jobs : jobs[i][field] = jobs[j][field] => i = j

FitsCapacity(jobs, cap) ==
    /\ Len(jobs) <= cap.capacity
    /\ Cardinality(JobsInMode(jobs, "direct")) <= cap.direct
    /\ Cardinality(JobsInMode(jobs, "browser")) <= cap.browser

ValidRunRequest(req, cap) ==
    /\ req.runID # NoRun
    /\ req.policyOK
    /\ req.jobs # <<>>
    /\ \A i \in DOMAIN req.jobs :
          req.jobs[i].bound /\ JobSupported(req.jobs[i], cap)
    /\ DistinctBy(req.jobs, "id")
    /\ DistinctBy(req.jobs, "asset")
    /\ DistinctBy(req.jobs, "account")
    /\ FitsCapacity(req.jobs, cap)

-----------------------------------------------------------------------------
Terminal == {"completed", "failed", "cancelled"}

(* The run's goroutine: inside execute, returned without or with an error  *)
(* and not yet holding the lock, or gone.                                  *)
Live == {"executing", "returnedNil", "returnedErr"}

Absent == [status |-> "absent", report |-> "none", cancelRequested |-> FALSE,
           ctxDone |-> FALSE, goroutine |-> "none", jobs |-> <<>>]

RequestJobs == {<<>>} \cup {req.jobs : req \in Requests}

RunRecord == [status: {"absent", "running"} \cup Terminal,
              report: {"none"} \cup Terminal,
              cancelRequested: BOOLEAN, ctxDone: BOOLEAN,
              goroutine: {"none"} \cup Live, jobs: RequestJobs]

RegistryTypeOK ==
    /\ runs \in [Agents -> [RunIDs -> RunRecord]]
    /\ active \in [Agents -> RunIDs \cup {NoRun}]
    /\ stopping \in [Agents -> BOOLEAN]

NewRegistry == [r \in RunIDs |-> Absent]

RegistryInit ==
    /\ runs = [a \in Agents |-> NewRegistry]
    /\ active = [a \in Agents |-> NoRun]
    /\ stopping = [a \in Agents |-> FALSE]

(* The three refusals of Start, in the order of the code.                  *)
Accepts(a, req) ==
    /\ ValidRunRequest(req, Capabilities[a])
    /\ runs[a][req.runID].status = "absent"
    /\ active[a] = NoRun

Start(a, req) ==
    /\ Accepts(a, req)
    /\ runs' = [runs EXCEPT ![a][req.runID] =
                   [Absent EXCEPT !.status = "running",
                                  !.ctxDone = stopping[a],
                                  !.goroutine = "executing",
                                  !.jobs = req.jobs]]
    /\ active' = [active EXCEPT ![a] = req.runID]
    /\ UNCHANGED stopping

(* The executor returns its report, at any time and with any outcome: it   *)
(* may fail early, ignore a cancelled context or finish just before it.    *)
ExecuteReturns(a, r) ==
    /\ runs[a][r].goroutine = "executing"
    /\ \E g \in {"returnedNil", "returnedErr"} :
          runs' = [runs EXCEPT ![a][r].goroutine = g]
    /\ UNCHANGED <<active, stopping>>

(* Mutation: an error of the executor outranks the cancellation.           *)
FinalStatusErrorFirst(rec) ==
    IF rec.goroutine = "returnedErr" THEN "failed"
    ELSE IF rec.cancelRequested \/ rec.ctxDone THEN "cancelled"
    ELSE "completed"

FinalStatus(rec) ==
    IF rec.cancelRequested \/ rec.ctxDone THEN "cancelled"
    ELSE IF rec.goroutine = "returnedErr" THEN "failed"
    ELSE "completed"

(* Mutation: the goroutine keeps the slot of a run that did not complete.  *)
SettleKeepingSlot(a, r) ==
    /\ runs[a][r].goroutine \in {"returnedNil", "returnedErr"}
    /\ LET s == FinalStatus(runs[a][r])
       IN  /\ runs' = [runs EXCEPT ![a][r].status = s,
                                   ![a][r].report = s,
                                   ![a][r].goroutine = "none"]
           /\ active' = IF s = "completed" THEN [active EXCEPT ![a] = NoRun] ELSE active
    /\ UNCHANGED stopping

(* The goroutine's critical section: it settles the record, attaches the   *)
(* report under the same status and frees the slot if it is still its own. *)
Settle(a, r) ==
    /\ runs[a][r].goroutine \in {"returnedNil", "returnedErr"}
    /\ LET s == FinalStatus(runs[a][r])
       IN  runs' = [runs EXCEPT ![a][r].status = s,
                                ![a][r].report = s,
                                ![a][r].goroutine = "none"]
    /\ active' = [active EXCEPT ![a] = IF @ = r THEN NoRun ELSE @]
    /\ UNCHANGED stopping

Known(a, r) == runs[a][r].status # "absent"

StatusReply(a, r) == [status |-> runs[a][r].status, report |-> runs[a][r].report]

(* Mutations of Cancel: it frees the slot itself; it marks ended runs too; *)
(* it writes the terminal status at once; it forgets to end the context;   *)
(* it invents a status for the time the run winds down.                    *)
CancelFreeingSlot(a, r) ==
    /\ Known(a, r)
    /\ runs' = [runs EXCEPT ![a][r].cancelRequested = TRUE, ![a][r].ctxDone = TRUE]
    /\ active' = [active EXCEPT ![a] = IF @ = r THEN NoRun ELSE @]
    /\ UNCHANGED stopping

CancelAnyStatus(a, r) ==
    /\ Known(a, r)
    /\ runs' = [runs EXCEPT ![a][r].cancelRequested = TRUE, ![a][r].ctxDone = TRUE]
    /\ UNCHANGED <<active, stopping>>

CancelWriting(a, r, status) ==
    /\ Known(a, r)
    /\ runs' = IF runs[a][r].status = "running"
                  THEN [runs EXCEPT ![a][r].cancelRequested = TRUE,
                                    ![a][r].ctxDone = TRUE,
                                    ![a][r].status = status]
                  ELSE runs
    /\ UNCHANGED <<active, stopping>>

CancelExposingStatus(a, r) == CancelWriting(a, r, "cancelled")

CancelInventingStatus(a, r) == CancelWriting(a, r, "cancelling")

CancelWithoutContext(a, r) ==
    /\ Known(a, r)
    /\ runs' = IF runs[a][r].status = "running"
                  THEN [runs EXCEPT ![a][r].cancelRequested = TRUE]
                  ELSE runs
    /\ UNCHANGED <<active, stopping>>

Cancel(a, r) ==
    /\ Known(a, r)
    /\ runs' = IF runs[a][r].status = "running"
                  THEN [runs EXCEPT ![a][r].cancelRequested = TRUE,
                                    ![a][r].ctxDone = TRUE]
                  ELSE runs
    /\ UNCHANGED <<active, stopping>>

(* What the caller of Cancel is told, in the state Cancel leaves behind.   *)
CancelReply(a, r) ==
    IF runs[a][r].cancelRequested THEN "cancelled" ELSE runs[a][r].status

(* The agent is told to stop: the parent context of every run is done.     *)
StopAgent(a) ==
    /\ ~stopping[a]
    /\ stopping' = [stopping EXCEPT ![a] = TRUE]
    /\ runs' = [runs EXCEPT ![a] =
                  [r \in RunIDs |-> [runs[a][r] EXCEPT !.ctxDone = @ \/ Known(a, r)]]]
    /\ UNCHANGED active

(* The process dies, before or after it was told to, and a new one serves  *)
(* the same address: the registry is only in memory.                       *)
Restart(a) ==
    /\ runs' = [runs EXCEPT ![a] = NewRegistry]
    /\ active' = [active EXCEPT ![a] = NoRun]
    /\ stopping' = [stopping EXCEPT ![a] = FALSE]

(* The agent's own steps, without the calls it serves.                     *)
AgentStep(a) ==
    \/ \E r \in RunIDs : ExecuteReturns(a, r) \/ Settle(a, r)
    \/ StopAgent(a)
    \/ Restart(a)

RegistryNext ==
    \E a \in Agents :
        \/ AgentStep(a)
        \/ \E req \in Requests : Start(a, req)
        \/ \E r \in RunIDs : Cancel(a, r)

(* A returned executor takes the lock; an executor whose context is done   *)
(* returns (RunConfigJobs derives every wait from that context).           *)
RegistryFairness ==
    \A a \in Agents : \A r \in RunIDs :
        /\ WF_registryVars(Settle(a, r))
        /\ WF_registryVars(runs[a][r].ctxDone /\ ExecuteReturns(a, r))

RegistrySpec == RegistryInit /\ [][RegistryNext]_registryVars

-----------------------------------------------------------------------------
(* Properties *)

(* The slot names exactly the runs whose goroutine is alive, so it is      *)
(* neither freed under a run that is still winding down nor left taken by  *)
(* one that ended (registry.go:57-64 and 87-89).                           *)
SlotMatchesGoroutine ==
    \A a \in Agents : \A r \in RunIDs :
        active[a] = r <=> runs[a][r].goroutine \in Live

(* The jobs that really run on an agent, those of cancelled runs that are  *)
(* still winding down included, never exceed what it announced: in total,  *)
(* as direct sessions or as browser sessions (registry.go:157-207).        *)
LiveRuns(a) == {r \in RunIDs : runs[a][r].goroutine \in Live}

LiveJobs(a, modes) ==
    UNION {{r} \X {i \in DOMAIN runs[a][r].jobs : runs[a][r].jobs[i].mode \in modes} :
             r \in LiveRuns(a)}

LoadWithinCapabilities ==
    \A a \in Agents :
        /\ Cardinality(LiveJobs(a, {"direct", "browser"})) <= Capabilities[a].capacity
        /\ Cardinality(LiveJobs(a, {"direct"})) <= Capabilities[a].direct
        /\ Cardinality(LiveJobs(a, {"browser"})) <= Capabilities[a].browser

(* A caller told "cancelled" never finds the run completed or failed: the  *)
(* race of Cancel with a run that returns is always settled for the caller *)
(* (registry.go:70-74 and 116-125).                                        *)
CancelPromiseKept ==
    \A a \in Agents : \A r \in RunIDs :
        Known(a, r) /\ CancelReply(a, r) = "cancelled"
            => runs[a][r].status \in {"running", "cancelled"}

(* No terminal status is visible without its report, nor a report before   *)
(* the run is terminal, and the two always agree.                          *)
TerminalCarriesReport ==
    \A a \in Agents : \A r \in RunIDs :
        runs[a][r].report =
            IF runs[a][r].status \in Terminal THEN runs[a][r].status ELSE "none"

(* What was answered about an ended run stays the answer until the process *)
(* forgets the run; in particular a late Cancel does not rewrite it.       *)
TerminalAnswersAreFinal ==
    [][\A a \in Agents : \A r \in RunIDs :
          runs[a][r].status \in Terminal /\ runs'[a][r].status # "absent"
            => /\ StatusReply(a, r)' = StatusReply(a, r)
               /\ CancelReply(a, r)' = CancelReply(a, r)]_registryVars

(* A cancelled run gives the agent back.                                   *)
CancelFreesAgent ==
    \A a \in Agents : \A r \in RunIDs :
        active[a] = r /\ runs[a][r].cancelRequested
            ~> active[a] # r /\ runs[a][r].status # "running"

(* The registry implements the abstract life cycle of runs: what an agent  *)
(* would answer about a run, under all the interleavings of registry.go.   *)
Fate(a, r) ==
    CASE runs[a][r].status = "absent"  -> "unknown"
      [] runs[a][r].status = "running" ->
            IF runs[a][r].cancelRequested THEN "cancelling" ELSE "pending"
      [] OTHER -> runs[a][r].status

Lifecycle == INSTANCE RunLifecycle WITH
    fate <- [a \in Agents |-> [r \in RunIDs |-> Fate(a, r)]]

LifecycleSpec == Lifecycle!Spec
=============================================================================
