------------------------- MODULE AgentRegistryProofs -------------------------
(***************************************************************************)
(* What holds of every agent registry, for all agents, run identifiers,    *)
(* capabilities and requests.  One inductive invariant carries the safety  *)
(* theorems, the finality of answers and the refinement of RunLifecycle.   *)
(***************************************************************************)
EXTENDS AgentRegistry, FiniteSetTheorems, TLAPS

(* A run is running exactly while its goroutine is alive.                  *)
RunningIffLive ==
    \A a \in Agents : \A r \in RunIDs :
        runs[a][r].status = "running" <=> runs[a][r].goroutine \in Live

(* Only a known run is ever asked to cancel, and then it is running or     *)
(* ends cancelled.                                                         *)
CancelRequestHonoured ==
    \A a \in Agents : \A r \in RunIDs :
        runs[a][r].cancelRequested => runs[a][r].status \in {"running", "cancelled"}

(* The work of a live run was validated against the announced limits.      *)
LiveRunFits ==
    \A a \in Agents : \A r \in RunIDs :
        runs[a][r].goroutine \in Live => FitsCapacity(runs[a][r].jobs, Capabilities[a])

IInv ==
    /\ RegistryTypeOK
    /\ SlotMatchesGoroutine
    /\ TerminalCarriesReport
    /\ RunningIffLive
    /\ CancelRequestHonoured
    /\ LiveRunFits

-----------------------------------------------------------------------------
(* The empty record is a record.                                           *)
LEMMA AbsentType == Absent \in RunRecord
  BY DEF Absent, RunRecord, RequestJobs

(* The outcome of a run is one of the three terminal statuses.             *)
LEMMA FinalStatusIsTerminal ==
  ASSUME NEW rec
  PROVE  FinalStatus(rec) \in Terminal
  BY DEF FinalStatus, Terminal

(* A step that rewrites one record keeps the types.                        *)
LEMMA RecordUpdateType ==
  ASSUME RegistryTypeOK, NEW a \in Agents, NEW r \in RunIDs, NEW rec \in RunRecord,
         runs' = [runs EXCEPT ![a][r] = rec],
         active' \in [Agents -> RunIDs \cup {NoRun}],
         stopping' \in [Agents -> BOOLEAN]
  PROVE  RegistryTypeOK'
  BY DEF RegistryTypeOK

(* The record that each of the four operations on one run leaves behind.   *)
StartedRecord(a, req) ==
    [Absent EXCEPT !.status = "running", !.ctxDone = stopping[a],
                   !.goroutine = "executing", !.jobs = req.jobs]

SettledRecord(a, r) ==
    [runs[a][r] EXCEPT !.status = FinalStatus(runs[a][r]),
                       !.report = FinalStatus(runs[a][r]),
                       !.goroutine = "none"]

CancelledRecord(a, r) ==
    [runs[a][r] EXCEPT !.cancelRequested = TRUE, !.ctxDone = TRUE]

LEMMA SettleIsUpdate ==
  ASSUME RegistryTypeOK, NEW a \in Agents, NEW r \in RunIDs, Settle(a, r)
  PROVE  runs' = [runs EXCEPT ![a][r] = SettledRecord(a, r)]
  BY DEF RegistryTypeOK, Settle, SettledRecord, RunRecord

LEMMA RecordTypes ==
  ASSUME RegistryTypeOK, NEW a \in Agents, NEW r \in RunIDs
  PROVE  /\ \A req \in Requests : StartedRecord(a, req) \in RunRecord
         /\ SettledRecord(a, r) \in RunRecord
         /\ CancelledRecord(a, r) \in RunRecord
<1>1. ASSUME NEW req \in Requests
      PROVE  StartedRecord(a, req) \in RunRecord
  <2>1. req.jobs \in RequestJobs
    BY DEF RequestJobs
  <2> QED
    BY <2>1, AbsentType DEF StartedRecord, RunRecord, Live, RegistryTypeOK
<1>2. runs[a][r] \in RunRecord
  BY DEF RegistryTypeOK
<1>3. SettledRecord(a, r) \in RunRecord
  <2>1. FinalStatus(runs[a][r]) \in Terminal
    BY FinalStatusIsTerminal
  <2> QED
    BY <1>2, <2>1 DEF SettledRecord, RunRecord
<1>4. CancelledRecord(a, r) \in RunRecord
  BY <1>2 DEF CancelledRecord, RunRecord
<1> QED
  BY <1>1, <1>3, <1>4

-----------------------------------------------------------------------------
(* Each action keeps the inductive invariant.                              *)

LEMMA StartKeepsIInv ==
  ASSUME IInv, NEW a \in Agents, NEW req \in Requests, Start(a, req)
  PROVE  IInv'
<1> DEFINE r == req.runID
           rec == StartedRecord(a, req)
<1>1. /\ r \in RunIDs
      /\ FitsCapacity(req.jobs, Capabilities[a])
      /\ active[a] = NoRun
  BY RequestsAssumption DEF Start, Accepts, ValidRunRequest
<1>2. /\ runs' = [runs EXCEPT ![a][r] = rec]
      /\ active' = [active EXCEPT ![a] = r]
      /\ stopping' = stopping
  BY DEF Start, StartedRecord
<1>3. rec \in RunRecord
  BY <1>1, RecordTypes DEF IInv
<1>4. \A b \in Agents : \A s \in RunIDs :
          runs'[b][s] = IF b = a /\ s = r THEN rec ELSE runs[b][s]
  <2> SUFFICES ASSUME NEW b \in Agents, NEW s \in RunIDs
               PROVE  runs'[b][s] = IF b = a /\ s = r THEN rec ELSE runs[b][s]
    OBVIOUS
  <2> QED
    BY <1>1, <1>2 DEF IInv, RegistryTypeOK
<1>5. RegistryTypeOK'
  <2>1. active' \in [Agents -> RunIDs \cup {NoRun}] /\ stopping' \in [Agents -> BOOLEAN]
    BY <1>1, <1>2 DEF IInv, RegistryTypeOK
  <2> QED
    BY <1>1, <1>2, <1>3, <2>1, RecordUpdateType DEF IInv
<1>6. /\ rec.status = "running" /\ rec.report = "none"
      /\ rec.cancelRequested = FALSE /\ rec.goroutine = "executing"
      /\ rec.jobs = req.jobs
  BY DEF StartedRecord, Absent
<1> HIDE DEF r, rec
<1>7. SlotMatchesGoroutine'
  <2>1. \A b \in Agents : active'[b] = IF b = a THEN r ELSE active[b]
    BY <1>2 DEF IInv, RegistryTypeOK
  <2> QED
    BY <1>1, <1>4, <1>6, <2>1, NoRunAssumption DEF IInv, SlotMatchesGoroutine, Live
<1>8. TerminalCarriesReport'
  BY <1>4, <1>6 DEF IInv, TerminalCarriesReport, Terminal
<1>9. RunningIffLive'
  BY <1>4, <1>6 DEF IInv, RunningIffLive, Live
<1>10. CancelRequestHonoured'
  BY <1>4, <1>6 DEF IInv, CancelRequestHonoured
<1>11. LiveRunFits'
  BY <1>1, <1>4, <1>6 DEF IInv, LiveRunFits, r
<1> QED
  BY <1>5, <1>7, <1>8, <1>9, <1>10, <1>11 DEF IInv

(* The executor returning changes nothing but where the goroutine is.      *)
LEMMA ExecuteReturnsKeepsIInv ==
  ASSUME IInv, NEW a \in Agents, NEW r \in RunIDs, ExecuteReturns(a, r)
  PROVE  IInv'
<1>1. PICK g \in {"returnedNil", "returnedErr"} :
          runs' = [runs EXCEPT ![a][r].goroutine = g]
  BY DEF ExecuteReturns
<1>2. active' = active /\ stopping' = stopping /\ runs[a][r].goroutine = "executing"
  BY DEF ExecuteReturns
<1> DEFINE rec == [runs[a][r] EXCEPT !.goroutine = g]
<1>3. runs[a][r] \in RunRecord
  BY DEF IInv, RegistryTypeOK
<1>4. rec \in RunRecord
  BY <1>3 DEF RunRecord, Live
<1>5. runs' = [runs EXCEPT ![a][r] = rec]
  BY <1>1 DEF IInv, RegistryTypeOK
<1>6. /\ rec.goroutine = g
      /\ rec.status = runs[a][r].status /\ rec.report = runs[a][r].report
      /\ rec.cancelRequested = runs[a][r].cancelRequested
      /\ rec.jobs = runs[a][r].jobs
  BY <1>3 DEF RunRecord
<1> HIDE DEF rec
<1>7. \A b \in Agents : \A s \in RunIDs :
          runs'[b][s] = IF b = a /\ s = r THEN rec ELSE runs[b][s]
  BY <1>5 DEF IInv, RegistryTypeOK
<1>8. RegistryTypeOK'
  BY <1>2, <1>4, <1>5, RecordUpdateType DEF IInv, RegistryTypeOK
<1>9. SlotMatchesGoroutine'
  BY <1>2, <1>6, <1>7 DEF IInv, SlotMatchesGoroutine, Live
<1>10. TerminalCarriesReport' /\ CancelRequestHonoured'
  BY <1>6, <1>7 DEF IInv, TerminalCarriesReport, CancelRequestHonoured
<1>11. RunningIffLive' /\ LiveRunFits'
  BY <1>2, <1>6, <1>7 DEF IInv, RunningIffLive, LiveRunFits, Live
<1> QED
  BY <1>8, <1>9, <1>10, <1>11 DEF IInv

LEMMA SettleKeepsIInv ==
  ASSUME IInv, NEW a \in Agents, NEW r \in RunIDs, Settle(a, r)
  PROVE  IInv'
<1> DEFINE rec == SettledRecord(a, r)
<1>1. runs' = [runs EXCEPT ![a][r] = rec]
  BY SettleIsUpdate DEF IInv
<1>2. /\ runs[a][r].goroutine \in {"returnedNil", "returnedErr"}
      /\ active' = [active EXCEPT ![a] = IF @ = r THEN NoRun ELSE @]
      /\ stopping' = stopping
  BY DEF Settle
<1>3. rec \in RunRecord
  BY RecordTypes DEF IInv
<1>4. runs[a][r] \in RunRecord
  BY DEF IInv, RegistryTypeOK
<1>5. /\ rec.status \in Terminal /\ rec.report = rec.status /\ rec.goroutine = "none"
      /\ rec.cancelRequested => rec.status = "cancelled"
  <2>1. /\ rec.status = FinalStatus(runs[a][r]) /\ rec.report = rec.status
        /\ rec.goroutine = "none" /\ rec.cancelRequested = runs[a][r].cancelRequested
    BY <1>4 DEF SettledRecord, RunRecord
  <2>2. runs[a][r].cancelRequested => FinalStatus(runs[a][r]) = "cancelled"
    BY DEF FinalStatus
  <2> QED
    BY <2>1, <2>2, FinalStatusIsTerminal
<1> HIDE DEF rec
<1>6. \A b \in Agents : \A s \in RunIDs :
          runs'[b][s] = IF b = a /\ s = r THEN rec ELSE runs[b][s]
  BY <1>1 DEF IInv, RegistryTypeOK
<1>7. RegistryTypeOK'
  <2>1. active' \in [Agents -> RunIDs \cup {NoRun}]
    BY <1>2 DEF IInv, RegistryTypeOK
  <2> QED
    BY <1>1, <1>2, <1>3, <2>1, RecordUpdateType DEF IInv, RegistryTypeOK
<1>8. active[a] = r
  BY <1>2 DEF IInv, SlotMatchesGoroutine, Live
<1>9. SlotMatchesGoroutine'
  <2>1. \A b \in Agents : active'[b] = IF b = a THEN NoRun ELSE active[b]
    BY <1>2, <1>8 DEF IInv, RegistryTypeOK
  <2> QED
    BY <1>5, <1>6, <1>8, <2>1, NoRunAssumption DEF IInv, SlotMatchesGoroutine, Live
<1>10. TerminalCarriesReport'
  BY <1>5, <1>6 DEF IInv, TerminalCarriesReport
<1>11. RunningIffLive'
  BY <1>5, <1>6 DEF IInv, RunningIffLive, Live, Terminal
<1>12. CancelRequestHonoured'
  BY <1>5, <1>6 DEF IInv, CancelRequestHonoured
<1>13. LiveRunFits'
  BY <1>5, <1>6 DEF IInv, LiveRunFits, Live
<1> QED
  BY <1>7, <1>9, <1>10, <1>11, <1>12, <1>13 DEF IInv

(* Cancelling a run that already ended changes nothing.                    *)
LEMMA CancelKeepsIInv ==
  ASSUME IInv, NEW a \in Agents, NEW r \in RunIDs, Cancel(a, r)
  PROVE  IInv'
<1> DEFINE rec == CancelledRecord(a, r)
<1>1. active' = active /\ stopping' = stopping
  BY DEF Cancel
<1>2. CASE runs[a][r].status # "running"
  <2>1. runs' = runs
    BY <1>2 DEF Cancel
  <2> QED
    BY <1>1, <2>1 DEF IInv, RegistryTypeOK, SlotMatchesGoroutine, TerminalCarriesReport,
                      RunningIffLive, CancelRequestHonoured, LiveRunFits
<1>3. CASE runs[a][r].status = "running"
  <2>1. runs[a][r] \in RunRecord
    BY DEF IInv, RegistryTypeOK
  <2>2. runs' = [runs EXCEPT ![a][r] = rec]
    BY <1>3 DEF Cancel, CancelledRecord, IInv, RegistryTypeOK
  <2>3. rec \in RunRecord
    BY RecordTypes DEF IInv
  <2>4. /\ rec.status = "running" /\ rec.goroutine = runs[a][r].goroutine
        /\ rec.report = runs[a][r].report /\ rec.jobs = runs[a][r].jobs
    BY <1>3, <2>1 DEF CancelledRecord, RunRecord
  <2> HIDE DEF rec
  <2>5. \A b \in Agents : \A s \in RunIDs :
            runs'[b][s] = IF b = a /\ s = r THEN rec ELSE runs[b][s]
    BY <2>2 DEF IInv, RegistryTypeOK
  <2>6. RegistryTypeOK'
    BY <1>1, <2>2, <2>3, RecordUpdateType DEF IInv, RegistryTypeOK
  <2>7. SlotMatchesGoroutine' /\ RunningIffLive'
    BY <1>1, <1>3, <2>4, <2>5 DEF IInv, SlotMatchesGoroutine, RunningIffLive
  <2>8. TerminalCarriesReport' /\ CancelRequestHonoured'
    BY <1>3, <2>4, <2>5 DEF IInv, TerminalCarriesReport, CancelRequestHonoured
  <2>9. LiveRunFits'
    BY <2>4, <2>5 DEF IInv, LiveRunFits
  <2> QED
    BY <2>6, <2>7, <2>8, <2>9 DEF IInv
<1> QED
  BY <1>2, <1>3

(* Stopping ends contexts only: every record keeps its other fields.       *)
LEMMA StopAgentKeepsFields ==
  ASSUME RegistryTypeOK, NEW a \in Agents, StopAgent(a), NEW b \in Agents, NEW s \in RunIDs
  PROVE  /\ runs'[b][s] \in RunRecord
         /\ runs'[b][s].status = runs[b][s].status
         /\ runs'[b][s].report = runs[b][s].report
         /\ runs'[b][s].cancelRequested = runs[b][s].cancelRequested
         /\ runs'[b][s].goroutine = runs[b][s].goroutine
         /\ runs'[b][s].jobs = runs[b][s].jobs
<1> DEFINE rec == [runs[a][s] EXCEPT !.ctxDone = @ \/ Known(a, s)]
<1>1. runs[b][s] \in RunRecord /\ runs[a][s] \in RunRecord
  BY DEF RegistryTypeOK
<1>2. runs'[b][s] = IF b = a THEN rec ELSE runs[b][s]
  BY DEF StopAgent, RegistryTypeOK
<1>3. rec = [status |-> runs[a][s].status, report |-> runs[a][s].report,
             cancelRequested |-> runs[a][s].cancelRequested, ctxDone |-> rec.ctxDone,
             goroutine |-> runs[a][s].goroutine, jobs |-> runs[a][s].jobs]
  BY <1>1 DEF RunRecord
<1>4. rec.ctxDone \in BOOLEAN
  <2>1. rec.ctxDone = (runs[a][s].ctxDone \/ Known(a, s))
    BY <1>1 DEF RunRecord
  <2> QED
    BY <2>1
<1> HIDE DEF rec
<1>5. rec \in RunRecord
  BY <1>1, <1>3, <1>4 DEF RunRecord
<1> QED
  BY <1>1, <1>2, <1>3, <1>5

LEMMA StopAgentKeepsIInv ==
  ASSUME IInv, NEW a \in Agents, StopAgent(a)
  PROVE  IInv'
<1> USE StopAgentKeepsFields
<1>1. active' = active /\ stopping' \in [Agents -> BOOLEAN]
  BY DEF StopAgent, IInv, RegistryTypeOK
<1>2. runs' \in [Agents -> [RunIDs -> RunRecord]]
  <2>1. /\ runs' = [b \in Agents |-> runs'[b]]
        /\ \A b \in Agents : runs'[b] = [s \in RunIDs |-> runs'[b][s]]
    BY DEF StopAgent, IInv, RegistryTypeOK
  <2>2. \A b \in Agents : \A s \in RunIDs : runs'[b][s] \in RunRecord
    BY DEF IInv
  <2>3. \A b \in Agents : runs'[b] \in [RunIDs -> RunRecord]
    BY <2>1, <2>2
  <2> QED
    BY <2>1, <2>3
<1>3. RegistryTypeOK'
  BY <1>1, <1>2 DEF IInv, RegistryTypeOK
<1>4. SlotMatchesGoroutine' /\ RunningIffLive'
  BY <1>1 DEF IInv, SlotMatchesGoroutine, RunningIffLive
<1>5. TerminalCarriesReport' /\ CancelRequestHonoured'
  BY DEF IInv, TerminalCarriesReport, CancelRequestHonoured
<1>6. LiveRunFits'
  BY DEF IInv, LiveRunFits
<1> QED
  BY <1>3, <1>4, <1>5, <1>6 DEF IInv

LEMMA RestartKeepsIInv ==
  ASSUME IInv, NEW a \in Agents, Restart(a)
  PROVE  IInv'
<1>1. \A b \in Agents : \A s \in RunIDs :
          runs'[b][s] = IF b = a THEN Absent ELSE runs[b][s]
  BY DEF Restart, NewRegistry, IInv, RegistryTypeOK
<1>2. \A b \in Agents : active'[b] = IF b = a THEN NoRun ELSE active[b]
  BY DEF Restart, IInv, RegistryTypeOK
<1>3. /\ Absent.status = "absent" /\ Absent.report = "none"
      /\ Absent.cancelRequested = FALSE /\ Absent.goroutine = "none"
  BY DEF Absent
<1>4. RegistryTypeOK'
  <2>1. NewRegistry \in [RunIDs -> RunRecord]
    BY AbsentType DEF NewRegistry
  <2> QED
    BY <2>1 DEF Restart, IInv, RegistryTypeOK
<1>5. SlotMatchesGoroutine'
  BY <1>1, <1>2, <1>3, NoRunAssumption DEF IInv, SlotMatchesGoroutine, Live
<1>6. TerminalCarriesReport' /\ CancelRequestHonoured'
  BY <1>1, <1>3 DEF IInv, TerminalCarriesReport, CancelRequestHonoured, Terminal
<1>7. RunningIffLive' /\ LiveRunFits'
  BY <1>1, <1>3 DEF IInv, RunningIffLive, LiveRunFits, Live
<1> QED
  BY <1>4, <1>5, <1>6, <1>7 DEF IInv

-----------------------------------------------------------------------------
(* The invariant holds initially and is kept by every step.                *)

LEMMA InitIInv == RegistryInit => IInv
<1> SUFFICES ASSUME RegistryInit PROVE IInv
  OBVIOUS
<1>1. \A a \in Agents : \A r \in RunIDs : runs[a][r] = Absent
  BY DEF RegistryInit, NewRegistry
<1>2. /\ Absent.status = "absent" /\ Absent.report = "none"
      /\ Absent.cancelRequested = FALSE /\ Absent.goroutine = "none"
  BY DEF Absent
<1>3. RegistryTypeOK
  BY AbsentType DEF RegistryTypeOK, RegistryInit, NewRegistry
<1>4. SlotMatchesGoroutine
  BY <1>1, <1>2, NoRunAssumption DEF RegistryInit, SlotMatchesGoroutine, Live
<1>5. TerminalCarriesReport /\ CancelRequestHonoured
  BY <1>1, <1>2 DEF TerminalCarriesReport, CancelRequestHonoured, Terminal
<1>6. RunningIffLive /\ LiveRunFits
  BY <1>1, <1>2 DEF RunningIffLive, LiveRunFits, Live
<1> QED
  BY <1>3, <1>4, <1>5, <1>6 DEF IInv

LEMMA NextIInv == IInv /\ [RegistryNext]_registryVars => IInv'
<1> SUFFICES ASSUME IInv, [RegistryNext]_registryVars
             PROVE  IInv'
  OBVIOUS
<1>1. CASE UNCHANGED registryVars
  BY <1>1 DEF registryVars, IInv, RegistryTypeOK, SlotMatchesGoroutine, TerminalCarriesReport,
              RunningIffLive, CancelRequestHonoured, LiveRunFits
<1>2. ASSUME NEW a \in Agents, NEW r \in RunIDs, ExecuteReturns(a, r)
      PROVE  IInv'
  BY <1>2, ExecuteReturnsKeepsIInv
<1>3. ASSUME NEW a \in Agents, NEW r \in RunIDs, Settle(a, r)
      PROVE  IInv'
  BY <1>3, SettleKeepsIInv
<1>4. ASSUME NEW a \in Agents, NEW r \in RunIDs, Cancel(a, r)
      PROVE  IInv'
  BY <1>4, CancelKeepsIInv
<1>5. ASSUME NEW a \in Agents, NEW req \in Requests, Start(a, req)
      PROVE  IInv'
  BY <1>5, StartKeepsIInv
<1>6. ASSUME NEW a \in Agents, StopAgent(a)
      PROVE  IInv'
  BY <1>6, StopAgentKeepsIInv
<1>7. ASSUME NEW a \in Agents, Restart(a)
      PROVE  IInv'
  BY <1>7, RestartKeepsIInv
<1> QED
  BY <1>1, <1>2, <1>3, <1>4, <1>5, <1>6, <1>7 DEF RegistryNext, AgentStep

(* Every reachable state of the registry satisfies the invariant that the  *)
(* theorems below draw on (registry.go:48-126).                            *)
THEOREM Inductive == RegistrySpec => []IInv
<1>1. RegistryInit => IInv
  BY InitIInv
<1>2. IInv /\ [RegistryNext]_registryVars => IInv'
  BY NextIInv
<1> QED
  BY <1>1, <1>2, PTL DEF RegistrySpec

-----------------------------------------------------------------------------
(* The results *)

(* Every record, slot and flag of the registry keeps its type.             *)
THEOREM TypeCorrect == RegistrySpec => []RegistryTypeOK
<1>1. IInv => RegistryTypeOK
  BY DEF IInv
<1> QED
  BY <1>1, Inductive, PTL

(* The slot always names exactly the run whose goroutine is alive, so an   *)
(* agent never executes two runs and never refuses one while it is idle.   *)
THEOREM SlotIsTheLiveRun == RegistrySpec => []SlotMatchesGoroutine
<1>1. IInv => SlotMatchesGoroutine
  BY DEF IInv
<1> QED
  BY <1>1, Inductive, PTL

(* No caller sees a terminal status without its report, or a report early. *)
THEOREM ReportsMatchStatuses == RegistrySpec => []TerminalCarriesReport
<1>1. IInv => TerminalCarriesReport
  BY DEF IInv
<1> QED
  BY <1>1, Inductive, PTL

(* A run that a caller was told is cancelled never completes or fails.     *)
THEOREM CancelIsHonoured == RegistrySpec => []CancelPromiseKept
<1>1. IInv => CancelPromiseKept
  <2> SUFFICES ASSUME IInv, NEW a \in Agents, NEW r \in RunIDs,
                      CancelReply(a, r) = "cancelled"
               PROVE  runs[a][r].status \in {"running", "cancelled"}
    BY DEF CancelPromiseKept
  <2>1. CASE runs[a][r].cancelRequested
    BY <2>1 DEF IInv, CancelRequestHonoured
  <2>2. CASE ~runs[a][r].cancelRequested
    BY <2>2 DEF CancelReply
  <2> QED
    BY <2>1, <2>2
<1> QED
  BY <1>1, Inductive, PTL

-----------------------------------------------------------------------------
(* Load *)

(* At most one run is live, and its jobs were validated.                   *)
LEMMA OneLiveRun ==
  ASSUME IInv, NEW a \in Agents
  PROVE  \/ LiveRuns(a) = {}
         \/ \E r \in RunIDs : /\ LiveRuns(a) = {r}
                             /\ FitsCapacity(runs[a][r].jobs, Capabilities[a])
  BY DEF IInv, LiveRuns, SlotMatchesGoroutine, LiveRunFits

(* Pairing a finite set with one element does not change its size.         *)
LEMMA PairedCardinality ==
  ASSUME NEW r, NEW S, IsFiniteSet(S)
  PROVE  Cardinality({r} \X S) = Cardinality(S)
<1> DEFINE f == [i \in S |-> <<r, i>>]
           T == {r} \X S
<1>1. f \in Bijection(S, T)
  <2>1. f \in [S -> T]
    OBVIOUS
  <2>2. \A i, j \in S : f[i] = f[j] => i = j
    OBVIOUS
  <2>3. ASSUME NEW t \in T
        PROVE  \E i \in S : f[i] = t
    <3>1. PICK i \in S : t = <<r, i>>
      OBVIOUS
    <3> QED
      BY <3>1
  <2> HIDE DEF f, T
  <2> QED
    BY <2>1, <2>2, <2>3 DEF Bijection, Injection, Surjection, IsInjective
<1>2. ExistsBijection(S, {r} \X S)
  BY <1>1 DEF ExistsBijection
<1> QED
  BY <1>2, FS_Bijection

(* The jobs of a known run form a finite list.                             *)
LEMMA JobsAreAList ==
  ASSUME RegistryTypeOK, NEW a \in Agents, NEW r \in RunIDs
  PROVE  LET jobs == runs[a][r].jobs
         IN  Len(jobs) \in Nat /\ DOMAIN jobs = 1..Len(jobs)
<1>1. runs[a][r].jobs \in RequestJobs
  BY DEF RegistryTypeOK, RunRecord
<1>2. CASE runs[a][r].jobs = <<>>
  BY <1>2
<1>3. CASE runs[a][r].jobs # <<>>
  BY <1>1, <1>3, RequestsAssumption DEF RequestJobs
<1> QED
  BY <1>2, <1>3

(* Work in some modes on an agent is the work of its live run in them.     *)
LEMMA LiveJobsBound ==
  ASSUME IInv, NEW a \in Agents, NEW modes, NEW n \in Nat,
         \A r \in LiveRuns(a) :
            Cardinality({i \in DOMAIN runs[a][r].jobs : runs[a][r].jobs[i].mode \in modes}) <= n
  PROVE  Cardinality(LiveJobs(a, modes)) <= n
<1>1. CASE LiveRuns(a) = {}
  <2>1. LiveJobs(a, modes) = {}
    BY <1>1 DEF LiveJobs
  <2> QED
    BY <2>1, FS_EmptySet
<1>2. ASSUME NEW r \in RunIDs, LiveRuns(a) = {r}
      PROVE  Cardinality(LiveJobs(a, modes)) <= n
  <2> DEFINE S == {i \in DOMAIN runs[a][r].jobs : runs[a][r].jobs[i].mode \in modes}
  <2>1. LiveJobs(a, modes) = {r} \X S
    BY <1>2 DEF LiveJobs
  <2>2. IsFiniteSet(S)
    <3>1. /\ Len(runs[a][r].jobs) \in Nat
          /\ DOMAIN runs[a][r].jobs = 1..Len(runs[a][r].jobs)
      BY JobsAreAList DEF IInv
    <3>2. IsFiniteSet(1..Len(runs[a][r].jobs))
      BY <3>1, FS_Interval
    <3> QED
      BY <3>1, <3>2, FS_Subset
  <2>3. Cardinality(S) <= n
    BY <1>2
  <2> HIDE DEF S
  <2>4. Cardinality({r} \X S) = Cardinality(S)
    BY <2>2, PairedCardinality
  <2> QED
    BY <2>1, <2>3, <2>4
<1> QED
  BY <1>1, <1>2, OneLiveRun

(* Whatever is cancelled, refused or winding down, the sessions an agent   *)
(* really runs stay within what it announced.                              *)
THEOREM LoadIsBounded == RegistrySpec => []LoadWithinCapabilities
<1>1. IInv => LoadWithinCapabilities
  <2> SUFFICES ASSUME IInv, NEW a \in Agents
               PROVE  /\ Cardinality(LiveJobs(a, {"direct", "browser"})) <= Capabilities[a].capacity
                      /\ Cardinality(LiveJobs(a, {"direct"})) <= Capabilities[a].direct
                      /\ Cardinality(LiveJobs(a, {"browser"})) <= Capabilities[a].browser
    BY DEF LoadWithinCapabilities
  <2>1. /\ Capabilities[a].capacity \in Nat
        /\ Capabilities[a].direct \in Nat
        /\ Capabilities[a].browser \in Nat
    BY CapabilitiesAssumption
  <2>2. ASSUME NEW r \in LiveRuns(a)
        PROVE  /\ FitsCapacity(runs[a][r].jobs, Capabilities[a])
               /\ Len(runs[a][r].jobs) \in Nat
               /\ DOMAIN runs[a][r].jobs = 1..Len(runs[a][r].jobs)
    BY <2>2, JobsAreAList DEF IInv, LiveRunFits, LiveRuns
  <2>3. ASSUME NEW r \in LiveRuns(a), NEW modes
        PROVE  Cardinality({i \in DOMAIN runs[a][r].jobs : runs[a][r].jobs[i].mode \in modes})
                  <= Capabilities[a].capacity
    <3> DEFINE S == {i \in DOMAIN runs[a][r].jobs : runs[a][r].jobs[i].mode \in modes}
               D == 1..Len(runs[a][r].jobs)
    <3>1. IsFiniteSet(D) /\ Cardinality(D) = Len(runs[a][r].jobs)
      BY <2>2, <2>3, FS_Interval
    <3>2. S \in SUBSET D
      BY <2>2, <2>3
    <3>3. Cardinality(S) <= Cardinality(D) /\ IsFiniteSet(S)
      BY <3>1, <3>2, FS_Subset
    <3>4. Cardinality(S) \in Nat
      BY <3>3, FS_CardinalityType
    <3> HIDE DEF S, D
    <3> QED
      BY <2>1, <2>2, <2>3, <3>1, <3>3, <3>4 DEF FitsCapacity, S
  <2>4. ASSUME NEW r \in LiveRuns(a), NEW mode
        PROVE  {i \in DOMAIN runs[a][r].jobs : runs[a][r].jobs[i].mode \in {mode}}
                  = JobsInMode(runs[a][r].jobs, mode)
    BY DEF JobsInMode
  <2>5. Cardinality(LiveJobs(a, {"direct", "browser"})) <= Capabilities[a].capacity
    BY <2>1, <2>3, LiveJobsBound
  <2>6. Cardinality(LiveJobs(a, {"direct"})) <= Capabilities[a].direct
    <3>1. \A r \in LiveRuns(a) :
             Cardinality({i \in DOMAIN runs[a][r].jobs :
                             runs[a][r].jobs[i].mode \in {"direct"}})
                <= Capabilities[a].direct
      BY <2>2, <2>4 DEF FitsCapacity
    <3> QED
      BY <2>1, <3>1, LiveJobsBound
  <2>7. Cardinality(LiveJobs(a, {"browser"})) <= Capabilities[a].browser
    <3>1. \A r \in LiveRuns(a) :
             Cardinality({i \in DOMAIN runs[a][r].jobs :
                             runs[a][r].jobs[i].mode \in {"browser"}})
                <= Capabilities[a].browser
      BY <2>2, <2>4 DEF FitsCapacity
    <3> QED
      BY <2>1, <3>1, LiveJobsBound
  <2> QED
    BY <2>5, <2>6, <2>7
<1> QED
  BY <1>1, Inductive, PTL

-----------------------------------------------------------------------------
(* Finality and refinement *)

(* An ended run has no live goroutine, so only forgetting touches it.      *)
LEMMA EndedRunIsLeftAlone ==
  ASSUME IInv, [RegistryNext]_registryVars,
         NEW a \in Agents, NEW r \in RunIDs,
         runs[a][r].status \in Terminal, runs'[a][r].status # "absent"
  PROVE  /\ runs'[a][r].status = runs[a][r].status
         /\ runs'[a][r].report = runs[a][r].report
         /\ runs'[a][r].cancelRequested = runs[a][r].cancelRequested
<1> DEFINE Same == /\ runs'[a][r].status = runs[a][r].status
                   /\ runs'[a][r].report = runs[a][r].report
                   /\ runs'[a][r].cancelRequested = runs[a][r].cancelRequested
<1>1. runs[a][r].goroutine \notin Live /\ runs[a][r].status \notin {"absent", "running"}
  BY DEF IInv, RunningIffLive, Terminal
<1>2. CASE UNCHANGED registryVars
  BY <1>2 DEF registryVars
<1>3. ASSUME NEW b \in Agents, NEW s \in RunIDs, ExecuteReturns(b, s)
      PROVE  Same
  BY <1>1, <1>3 DEF ExecuteReturns, IInv, RegistryTypeOK, Live
<1>4. ASSUME NEW b \in Agents, NEW s \in RunIDs, Settle(b, s)
      PROVE  Same
  <2>1. runs' = [runs EXCEPT ![b][s] = SettledRecord(b, s)] /\ ~(b = a /\ s = r)
    BY <1>1, <1>4, SettleIsUpdate DEF Settle, Live, IInv
  <2> QED
    BY <2>1 DEF IInv, RegistryTypeOK
<1>5. ASSUME NEW b \in Agents, NEW s \in RunIDs, Cancel(b, s)
      PROVE  Same
  BY <1>1, <1>5 DEF Cancel, IInv, RegistryTypeOK
<1>6. ASSUME NEW b \in Agents, NEW req \in Requests, Start(b, req)
      PROVE  Same
  <2>1. /\ runs' = [runs EXCEPT ![b][req.runID] = StartedRecord(b, req)]
        /\ ~(b = a /\ req.runID = r)
    BY <1>1, <1>6 DEF Start, StartedRecord, Accepts
  <2> HIDE DEF Same
  <2>2. runs'[a][r] = runs[a][r]
    BY <2>1 DEF IInv, RegistryTypeOK
  <2> QED
    BY <2>2 DEF Same
<1>7. ASSUME NEW b \in Agents, StopAgent(b)
      PROVE  Same
  BY <1>7, StopAgentKeepsFields DEF IInv
<1>8. ASSUME NEW b \in Agents, Restart(b)
      PROVE  Same
  <2>1. b # a
    BY <1>8 DEF Restart, NewRegistry, Absent, IInv, RegistryTypeOK
  <2> QED
    BY <1>8, <2>1 DEF Restart, IInv, RegistryTypeOK
<1> QED
  BY <1>2, <1>3, <1>4, <1>5, <1>6, <1>7, <1>8 DEF RegistryNext, AgentStep

(* What was answered about an ended run stays the answer: a late Cancel or *)
(* a second settling never rewrites it (registry.go:70-74, 116-125).       *)
THEOREM AnswersAreFinal == RegistrySpec => TerminalAnswersAreFinal
<1>1. IInv /\ [RegistryNext]_registryVars =>
        [\A a \in Agents : \A r \in RunIDs :
            runs[a][r].status \in Terminal /\ runs'[a][r].status # "absent"
              => /\ StatusReply(a, r)' = StatusReply(a, r)
                 /\ CancelReply(a, r)' = CancelReply(a, r)]_registryVars
  <2> SUFFICES ASSUME IInv, [RegistryNext]_registryVars,
                      NEW a \in Agents, NEW r \in RunIDs,
                      runs[a][r].status \in Terminal, runs'[a][r].status # "absent"
               PROVE  /\ StatusReply(a, r)' = StatusReply(a, r)
                      /\ CancelReply(a, r)' = CancelReply(a, r)
    OBVIOUS
  <2> QED
    BY EndedRunIsLeftAlone DEF StatusReply, CancelReply
<1> QED
  BY <1>1, Inductive, PTL DEF RegistrySpec, TerminalAnswersAreFinal

(* The mapped variable of RunLifecycle.                                    *)
fates == [a \in Agents |-> [r \in RunIDs |-> Fate(a, r)]]

(* A step that changes what is said of one run of one agent.               *)
LEMMA FateUpdate ==
  ASSUME NEW a \in Agents, NEW r \in RunIDs, NEW f,
         \A b \in Agents : \A s \in RunIDs :
            Fate(b, s)' = IF b = a /\ s = r THEN f ELSE Fate(b, s)
  PROVE  fates' = [fates EXCEPT ![a][r] = f]
  BY DEF fates

LEMMA FateUnchanged ==
  ASSUME \A b \in Agents : \A s \in RunIDs : Fate(b, s)' = Fate(b, s)
  PROVE  fates' = fates
  BY DEF fates

(* The fate of a run depends on its status and cancellation request only.  *)
LEMMA FateOfRecord ==
  ASSUME RegistryTypeOK, NEW a \in Agents, NEW r \in RunIDs
  PROVE  /\ Fate(a, r) = "unknown" <=> runs[a][r].status = "absent"
         /\ Fate(a, r) = "pending" <=>
               runs[a][r].status = "running" /\ ~runs[a][r].cancelRequested
         /\ Fate(a, r) = "cancelling" <=>
               runs[a][r].status = "running" /\ runs[a][r].cancelRequested
         /\ runs[a][r].status \in Terminal => Fate(a, r) = runs[a][r].status
<1>1. runs[a][r].status \in {"absent", "running", "completed", "failed", "cancelled"}
  BY DEF RegistryTypeOK, RunRecord, Terminal
<1> QED
  BY <1>1 DEF Fate, Terminal

LEMMA StartIsAdmit ==
  ASSUME IInv, NEW a \in Agents, NEW req \in Requests, Start(a, req)
  PROVE  \E r \in RunIDs : Lifecycle!Admit(a, r)
<1> DEFINE r == req.runID
           rec == StartedRecord(a, req)
<1>1. /\ r \in RunIDs /\ active[a] = NoRun /\ runs[a][r].status = "absent"
      /\ runs' = [runs EXCEPT ![a][r] = rec]
  BY RequestsAssumption DEF Start, Accepts, ValidRunRequest, StartedRecord
<1>2. rec.status = "running" /\ rec.cancelRequested = FALSE
  BY DEF StartedRecord, Absent
<1> HIDE DEF r, rec
<1>3. \A b \in Agents : \A s \in RunIDs :
          runs'[b][s] = IF b = a /\ s = r THEN rec ELSE runs[b][s]
  BY <1>1 DEF IInv, RegistryTypeOK
<1>4. \A b \in Agents : \A s \in RunIDs :
          Fate(b, s)' = IF b = a /\ s = r THEN "pending" ELSE Fate(b, s)
  BY <1>2, <1>3 DEF Fate
<1>5. fates' = [fates EXCEPT ![a][r] = "pending"]
  BY <1>1, <1>4, FateUpdate
<1>6. \A s \in RunIDs : fates[a][s] \notin {"pending", "cancelling"}
  <2>1. \A s \in RunIDs : runs[a][s].status # "running"
    BY <1>1, NoRunAssumption DEF IInv, SlotMatchesGoroutine, RunningIffLive
  <2>2. \A s \in RunIDs : fates[a][s] = Fate(a, s)
    BY DEF fates
  <2> QED
    BY <2>1, <2>2, FateOfRecord DEF IInv
<1>7. fates[a][r] = "unknown"
  BY <1>1, FateOfRecord DEF IInv, fates
<1> QED
  BY <1>1, <1>5, <1>6, <1>7 DEF Lifecycle!Admit, Lifecycle!InProgress, fates

LEMMA SettleIsConclude ==
  ASSUME IInv, NEW a \in Agents, NEW r \in RunIDs, Settle(a, r)
  PROVE  \E c \in Lifecycle!Conclusions : Lifecycle!Conclude(a, r, c)
<1> DEFINE rec == SettledRecord(a, r)
           c == FinalStatus(runs[a][r])
<1>1. runs' = [runs EXCEPT ![a][r] = rec] /\ runs[a][r].status = "running"
  BY SettleIsUpdate DEF IInv, RunningIffLive, Settle, Live
<1>2. c \in Terminal
  BY FinalStatusIsTerminal
<1>3. rec.status = c
  BY DEF SettledRecord, IInv, RegistryTypeOK, RunRecord
<1>4. runs[a][r].cancelRequested => c = "cancelled"
  BY DEF FinalStatus
<1> HIDE DEF rec, c
<1>5. \A b \in Agents : \A s \in RunIDs :
          runs'[b][s] = IF b = a /\ s = r THEN rec ELSE runs[b][s]
  BY <1>1 DEF IInv, RegistryTypeOK
<1>6. \A b \in Agents : \A s \in RunIDs :
          Fate(b, s)' = IF b = a /\ s = r THEN c ELSE Fate(b, s)
  BY <1>2, <1>3, <1>5 DEF Fate, Terminal
<1>7. fates' = [fates EXCEPT ![a][r] = c]
  BY <1>6, FateUpdate
<1>8. fates[a][r] = "pending" \/ (fates[a][r] = "cancelling" /\ c = "cancelled")
  BY <1>1, <1>4, FateOfRecord DEF IInv, fates, RegistryTypeOK, RunRecord
<1> QED
  BY <1>2, <1>7, <1>8 DEF Lifecycle!Conclude, Lifecycle!Conclusions, Terminal, fates

(* A cancellation is a request, or nothing if one was made or all is over. *)
LEMMA CancelIsRequest ==
  ASSUME IInv, NEW a \in Agents, NEW r \in RunIDs, Cancel(a, r)
  PROVE  Lifecycle!RequestCancel(a, r) \/ fates' = fates
<1> DEFINE rec == CancelledRecord(a, r)
<1>1. CASE runs[a][r].status # "running"
  <2>1. runs' = runs
    BY <1>1 DEF Cancel
  <2> QED
    BY <2>1, FateUnchanged DEF Fate
<1>2. CASE runs[a][r].status = "running"
  <2>1. runs' = [runs EXCEPT ![a][r] = rec]
    BY <1>2 DEF Cancel, CancelledRecord, IInv, RegistryTypeOK
  <2>2. rec.status = "running" /\ rec.cancelRequested = TRUE
    BY <1>2 DEF CancelledRecord, IInv, RegistryTypeOK, RunRecord
  <2> HIDE DEF rec
  <2>3. \A b \in Agents : \A s \in RunIDs :
            runs'[b][s] = IF b = a /\ s = r THEN rec ELSE runs[b][s]
    BY <2>1 DEF IInv, RegistryTypeOK
  <2>4. \A b \in Agents : \A s \in RunIDs :
            Fate(b, s)' = IF b = a /\ s = r THEN "cancelling" ELSE Fate(b, s)
    BY <2>2, <2>3 DEF Fate
  <2>5. CASE runs[a][r].cancelRequested
    <3>1. Fate(a, r) = "cancelling"
      BY <1>2, <2>5, FateOfRecord DEF IInv
    <3> QED
      BY <2>4, <3>1, FateUnchanged
  <2>6. CASE ~runs[a][r].cancelRequested
    <3>1. fates[a][r] = "pending"
      BY <1>2, <2>6, FateOfRecord DEF IInv, fates
    <3>2. fates' = [fates EXCEPT ![a][r] = "cancelling"]
      BY <2>4, FateUpdate
    <3> QED
      BY <3>1, <3>2 DEF Lifecycle!RequestCancel, fates
  <2> QED
    BY <2>5, <2>6
<1> QED
  BY <1>1, <1>2

LEMMA RestartIsForget ==
  ASSUME IInv, NEW a \in Agents, Restart(a)
  PROVE  Lifecycle!Forget(a)
<1>1. \A b \in Agents : \A s \in RunIDs :
          runs'[b][s] = IF b = a THEN Absent ELSE runs[b][s]
  BY DEF Restart, NewRegistry, IInv, RegistryTypeOK
<1>2. \A b \in Agents : \A s \in RunIDs :
          Fate(b, s)' = IF b = a THEN "unknown" ELSE Fate(b, s)
  BY <1>1 DEF Fate, Absent
<1> QED
  BY <1>2 DEF Lifecycle!Forget, Lifecycle!Forgotten

(* The registry implements the abstract life cycle: its initial states and *)
(* each of its steps are initial states and steps, or stutters, of it.     *)
THEOREM ImplementsLifecycle == RegistrySpec => LifecycleSpec
<1>1. RegistryInit => Lifecycle!Init
  <2> SUFFICES ASSUME RegistryInit PROVE Lifecycle!Init
    OBVIOUS
  <2>1. \A a \in Agents : \A r \in RunIDs : Fate(a, r) = "unknown"
    BY DEF RegistryInit, NewRegistry, Absent, Fate
  <2> QED
    BY <2>1 DEF Lifecycle!Init, Lifecycle!Forgotten
<1>2. IInv /\ [RegistryNext]_registryVars => [Lifecycle!Next]_fates
  <2> SUFFICES ASSUME IInv, [RegistryNext]_registryVars
               PROVE  Lifecycle!Next \/ fates' = fates
    BY DEF fates
  <2>1. CASE UNCHANGED registryVars
    BY <2>1, FateUnchanged DEF registryVars, Fate
  <2>2. ASSUME NEW a \in Agents, NEW r \in RunIDs, ExecuteReturns(a, r)
        PROVE  fates' = fates
    <3>1. \A b \in Agents : \A s \in RunIDs :
              /\ runs'[b][s].status = runs[b][s].status
              /\ runs'[b][s].cancelRequested = runs[b][s].cancelRequested
      BY <2>2 DEF ExecuteReturns, IInv, RegistryTypeOK, RunRecord
    <3> QED
      BY <3>1, FateUnchanged DEF Fate
  <2>3. ASSUME NEW a \in Agents, NEW r \in RunIDs, Settle(a, r)
        PROVE  Lifecycle!Next
    BY <2>3, SettleIsConclude DEF Lifecycle!Next
  <2>4. ASSUME NEW a \in Agents, NEW r \in RunIDs, Cancel(a, r)
        PROVE  Lifecycle!Next \/ fates' = fates
    BY <2>4, CancelIsRequest DEF Lifecycle!Next
  <2>5. ASSUME NEW a \in Agents, NEW req \in Requests, Start(a, req)
        PROVE  Lifecycle!Next
    BY <2>5, StartIsAdmit DEF Lifecycle!Next
  <2>6. ASSUME NEW a \in Agents, StopAgent(a)
        PROVE  fates' = fates
    BY <2>6, StopAgentKeepsFields, FateUnchanged DEF Fate, IInv
  <2>7. ASSUME NEW a \in Agents, Restart(a)
        PROVE  Lifecycle!Next
    BY <2>7, RestartIsForget DEF Lifecycle!Next
  <2> QED
    BY <2>1, <2>2, <2>3, <2>4, <2>5, <2>6, <2>7 DEF RegistryNext, AgentStep
<1> QED
  BY <1>1, <1>2, Inductive, PTL DEF RegistrySpec, LifecycleSpec, Lifecycle!Spec, fates
=============================================================================
