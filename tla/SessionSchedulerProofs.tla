------------------------ MODULE SessionSchedulerProofs ------------------------
(***************************************************************************)
(* What holds of every run of the scheduler, for any plan, any number of   *)
(* retries, any stop policy and any errors: its report adds up, agrees     *)
(* with the error it returns, and is "completed" only for a complete run.  *)
(***************************************************************************)
EXTENDS SessionScheduler, FiniteSetTheorems, TLAPS

(* How far a job has come: where its goroutine is or, once that is gone,   *)
(* whether it failed to start, was handed over or was collected too.       *)
Collected(j) ==
    /\ main \in {"collecting", "returned"}
    /\ \E i \in DOMAIN handles : i < pos /\ handles[i] = j

Stage(j) ==
    IF worker[j] # "gone" THEN worker[j]
    ELSE IF ~HandedOver(j) THEN "failed"
    ELSE IF Collected(j) THEN "collected"
    ELSE "handed"

Trying == {"calling", "selecting", "draining", "backoff"}

(* The counts of a job that neither started nor failed.                    *)
Undecided(c) ==
    /\ c.started = 0 /\ c.startFailures = 0 /\ c.runtimeFailures = 0
    /\ c.retrySuccesses = 0 /\ c.retryExhausted = 0

(* What session s, counts c and retry counter n of a job are at a stage.   *)
StageInv(stage, n, s, c) ==
    /\ c.used = (IF stage = "planned" THEN 0 ELSE 1)
    /\ stage = "planned" => Undecided(c) /\ c.retries = 0 /\ n = 0
    /\ stage \in {"planned", "calling"} => s.state = "none"
    /\ stage \in {"calling", "selecting", "draining"} => Undecided(c) /\ c.retries = n
    /\ stage \in {"selecting", "draining"} => s.state \in {"open", "ended"}
    /\ stage = "backoff" => /\ Undecided(c) /\ c.retries = n + 1
                            /\ n < MaxRetries /\ s.state = "ended"
    /\ stage = "failed" =>
          /\ c.started = 0 /\ c.startFailures = 1 /\ c.runtimeFailures = 0
          /\ c.retrySuccesses = 0 /\ c.retryExhausted \in {0, 1}
          /\ c.retryExhausted = 1 => c.retries > 0
          /\ s.state \in {"none", "ended"}
    /\ stage \in {"handed", "collected"} =>
          /\ c.startFailures = 0 /\ c.retryExhausted = 0
          /\ c.retrySuccesses \in {0, 1}
          /\ c.retrySuccesses = 1 => c.retries > 0
          /\ s.state \in {"open", "ended"}
    /\ stage = "handed" => c.started = 0 /\ c.runtimeFailures = 0
    /\ stage = "collected" =>
          /\ c.started = 1 /\ c.runtimeFailures \in {0, 1}
          /\ c.runtimeFailures = 0 =>
                /\ s.state = "ended" /\ s.evidence
                /\ s.reason = "failed" => s.err \in Transport

JobsInv == \A j \in Jobs : StageInv(Stage(j), attempt[j], sess[j], counts[j])

(* The jobs not launched yet are the rest of the plan.                     *)
LaunchInv ==
    main = "scheduling" =>
        \A i \in DOMAIN Plan : i >= pos => worker[Plan[i]] = "planned"

(* A job is handed over once, by a goroutine that is gone then.            *)
HandlesInv ==
    /\ \A i, k \in DOMAIN handles : handles[i] = handles[k] => i = k
    /\ \A i \in DOMAIN handles : worker[handles[i]] = "gone"

(* The collection starts when no goroutine of a job is left.               *)
MainInv ==
    /\ main \in {"collecting", "returned"} =>
          /\ pos <= Len(handles) + 1
          /\ \A j \in Jobs : worker[j] \in {"planned", "gone"}
    /\ main = "returned" => pos = Len(handles) + 1

StartFailed == {j \in Jobs : counts[j].startFailures > 0}
RuntimeFailed == {j \in Jobs : counts[j].runtimeFailures > 0}

ErrorsInv ==
    /\ errors.start = Cardinality(StartFailed)
    /\ errors.runtime <= Cardinality(RuntimeFailed)

VerdictInv ==
    /\ verdict # "none" => main = "returned"
    /\ verdict = "completed" => ctx = "deadline" /\ stopper # "fired" /\ Evident

SchedulerInv ==
    /\ TypeOK /\ LaunchInv /\ HandlesInv /\ MainInv
    /\ JobsInv /\ ErrorsInv /\ VerdictInv

-----------------------------------------------------------------------------
(* Types *)

(* An interval from one has as many elements as its end says.              *)
LEMMA IntervalCardinality ==
  ASSUME NEW n \in Nat
  PROVE  IsFiniteSet(1..n) /\ Cardinality(1..n) = n
<1>1. IsFiniteSet(1..n) /\ Cardinality(1..n) = IF 1 > n THEN 0 ELSE n - 1 + 1
  BY FS_Interval
<1>2. (IF 1 > n THEN 0 ELSE n - 1 + 1) = n
  OBVIOUS
<1> QED
  BY <1>1, <1>2

(* No more jobs are handed over than the plan has.                         *)
LEMMA HandlesLength ==
  ASSUME TypeOK, HandlesInv
  PROVE  Len(handles) \in Nat /\ DOMAIN handles = 1..Len(handles) /\ Len(handles) <= Len(Plan)
<1>1. /\ Len(handles) \in Nat /\ DOMAIN handles = 1..Len(handles)
      /\ handles \in [1..Len(handles) -> Jobs]
  BY DEF TypeOK
<1>2. /\ IsFiniteSet(1..Len(Plan)) /\ Cardinality(1..Len(Plan)) = Len(Plan)
      /\ IsFiniteSet(1..Len(handles)) /\ Cardinality(1..Len(handles)) = Len(handles)
  BY <1>1, PlanAssumption, IntervalCardinality
<1> DEFINE place == [i \in 1..Len(handles) |->
                        CHOOSE k \in 1..Len(Plan) : Plan[k] = handles[i]]
<1>3. \A i \in 1..Len(handles) : place[i] \in 1..Len(Plan) /\ Plan[place[i]] = handles[i]
  <2> SUFFICES ASSUME NEW i \in 1..Len(handles)
               PROVE  place[i] \in 1..Len(Plan) /\ Plan[place[i]] = handles[i]
    OBVIOUS
  <2>1. \E k \in 1..Len(Plan) : Plan[k] = handles[i]
    BY <1>1, PlanAssumption DEF Jobs
  <2> QED
    BY <2>1
<1>4. place \in Injection(1..Len(handles), 1..Len(Plan))
  <2>1. place \in [1..Len(handles) -> 1..Len(Plan)]
    BY <1>3
  <2>2. ASSUME NEW i \in 1..Len(handles), NEW k \in 1..Len(handles), place[i] = place[k]
        PROVE  i = k
    BY <1>1, <1>3, <2>2 DEF HandlesInv
  <2> QED
    BY <2>1, <2>2 DEF Injection, IsInjective
<1>5. Cardinality(1..Len(handles)) <= Cardinality(1..Len(Plan))
  BY <1>2, <1>4, FS_Injection
<1> QED
  BY <1>1, <1>2, <1>5

(* The records that steps write are of their types.                        *)
LEMMA RecordTypes ==
  ASSUME TypeOK, NEW j \in Jobs
  PROVE  /\ NoSession \in Session /\ NoCounts \in Tally /\ TimedOut \in Session
         /\ sess[j] \in Session /\ counts[j] \in Tally
         /\ Reclassified(sess[j]) \in Session /\ Exhausted(j) \in Tally
         /\ attempt[j] \in 0..MaxRetries /\ Plan \in [1..Len(Plan) -> Jobs]
<1>1. sess[j] \in Session /\ counts[j] \in Tally /\ attempt[j] \in 0..MaxRetries
  BY DEF TypeOK
<1>2. NoSession \in Session /\ TimedOut \in Session
  BY DEF NoSession, TimedOut, Session, ErrorKinds, Timeout
<1>3. NoCounts \in Tally
  BY DEF NoCounts, Tally
<1>4. Reclassified(sess[j]) \in Session
  BY <1>1 DEF Reclassified, Session, ErrorKinds
<1>5. Exhausted(j) \in Tally
  BY <1>1 DEF Exhausted, Tally
<1>6. Plan \in [1..Len(Plan) -> Jobs]
  BY PlanAssumption DEF Jobs
<1> QED
  BY <1>1, <1>2, <1>3, <1>4, <1>5, <1>6

(* The next job to launch is one of the plan.                              *)
LEMMA LaunchPosition ==
  ASSUME TypeOK, Launch
  PROVE  /\ pos \in 1..Len(Plan) /\ Plan[pos] \in Jobs
         /\ Len(Plan) \in Nat /\ DOMAIN Plan = 1..Len(Plan)
<1>1. Len(Plan) \in Nat /\ DOMAIN Plan = 1..Len(Plan)
  BY PlanAssumption
<1>2. pos \in 1..Len(Plan) + 1 /\ pos <= Len(Plan)
  BY DEF Launch, TypeOK
<1>3. pos \in 1..Len(Plan)
  BY <1>1, <1>2
<1> QED
  BY <1>1, <1>3 DEF Jobs

(* Ending keeps a session a session.                                       *)
LEMMA SessionEnded ==
  ASSUME NEW s \in Session, NEW reason \in {"completed", "cancelled", "failed"},
         NEW err \in ErrorKinds, NEW evidence \in BOOLEAN, NEW retryable \in BOOLEAN
  PROVE  [s EXCEPT !.state = "ended", !.reason = reason, !.err = err,
                   !.evidence = evidence, !.retryable = retryable] \in Session
  BY DEF Session

(* Counting keeps a tally a tally.                                         *)
LEMMA TallyIncrements ==
  ASSUME NEW c \in Tally
  PROVE  /\ [c EXCEPT !.used = 1] \in Tally
         /\ [c EXCEPT !.startFailures = @ + 1] \in Tally
         /\ [c EXCEPT !.retries = @ + 1] \in Tally
         /\ [c EXCEPT !.retrySuccesses = @ + 1] \in Tally
         /\ [c EXCEPT !.retryExhausted = @ + 1] \in Tally
  BY DEF Tally

(* The failures the scheduler counts and what the stop policy reads.       *)
ErrorCounts == [start: Nat, runtime: Nat]
Metrics == [attempts: Nat, failures: Nat, disconnects: Nat]

(* Counting keeps the failures and the metrics of their types.             *)
LEMMA CounterIncrements ==
  ASSUME TypeOK
  PROVE  /\ errors \in ErrorCounts /\ metrics \in Metrics
         /\ [errors EXCEPT !.start = @ + 1] \in ErrorCounts
         /\ [errors EXCEPT !.runtime = @ + 1] \in ErrorCounts
         /\ [metrics EXCEPT !.attempts = @ + 1] \in Metrics
         /\ [metrics EXCEPT !.disconnects = @ + 1] \in Metrics
         /\ \A review \in {0, 1} : [metrics EXCEPT !.failures = @ + review] \in Metrics
<1>1. errors \in ErrorCounts /\ metrics \in Metrics
  BY DEF TypeOK, ErrorCounts, Metrics
<1>2. /\ [errors EXCEPT !.start = @ + 1] \in ErrorCounts
      /\ [errors EXCEPT !.runtime = @ + 1] \in ErrorCounts
  BY <1>1 DEF ErrorCounts
<1>3. /\ [metrics EXCEPT !.attempts = @ + 1] \in Metrics
      /\ [metrics EXCEPT !.disconnects = @ + 1] \in Metrics
      /\ \A review \in {0, 1} : [metrics EXCEPT !.failures = @ + review] \in Metrics
  BY <1>1 DEF Metrics
<1> QED
  BY <1>1, <1>2, <1>3

(* The tally of one job is replaced by another.                            *)
LEMMA TallyUpdate ==
  ASSUME TypeOK, NEW j \in Jobs, NEW c \in Tally, counts' = [counts EXCEPT ![j] = c]
  PROVE  counts' \in [Jobs -> Tally]
  BY DEF TypeOK

(* A job that fails to start keeps the types.                              *)
LEMMA StartFailureTypes ==
  ASSUME TypeOK, NEW j \in Jobs, NEW c \in Tally, StartFailure(j, c)
  PROVE  /\ counts' \in [Jobs -> Tally] /\ errors' \in ErrorCounts
         /\ worker' \in [Jobs -> Trying \cup {"planned", "gone"}]
<1>1. counts' \in [Jobs -> Tally]
  <2>1. [c EXCEPT !.startFailures = @ + 1] \in Tally
    BY TallyIncrements
  <2> QED
    BY <2>1, TallyUpdate DEF StartFailure
<1>2. errors' \in ErrorCounts
  BY CounterIncrements DEF StartFailure
<1>3. worker' \in [Jobs -> Trying \cup {"planned", "gone"}]
  BY DEF StartFailure, TypeOK, Trying
<1> QED
  BY <1>1, <1>2, <1>3

(* So does the outcome of a job that was collected.                        *)
LEMMA TallySettled ==
  ASSUME NEW c \in Tally, NEW n \in Nat
  PROVE  [c EXCEPT !.started = @ + 1, !.runtimeFailures = @ + n] \in Tally
<1>1. c.started + 1 \in Nat /\ c.runtimeFailures + n \in Nat
  BY DEF Tally
<1> QED
  BY <1>1 DEF Tally

(* Every step keeps the types.                                             *)
LEMMA WorkerKeepsTypes ==
  ASSUME TypeOK, JobsInv, NEW j \in Jobs, Worker(j)
  PROVE  TypeOK'
<1> USE DEF vars, schedulerVars, workerVars, runVars, trackerVars, ErrorCounts, Metrics, Trying
<1>1. CASE RunFails(j)
  <2>1. counts' = [counts EXCEPT ![j] = [counts[j] EXCEPT !.startFailures = @ + 1]]
    BY <1>1 DEF RunFails
  <2>2. counts' \in [Jobs -> Tally]
    BY <2>1, RecordTypes, TallyIncrements, TallyUpdate
  <2>3. metrics' \in Metrics /\ errors' \in ErrorCounts
    BY <1>1, CounterIncrements DEF RunFails
  <2> QED
    BY <1>1, <2>2, <2>3 DEF TypeOK, RunFails
<1>2. CASE RunSucceeds(j)
  <2>1. [NoSession EXCEPT !.state = "open"] \in Session
    BY RecordTypes DEF Session
  <2> QED
    BY <1>2, <2>1 DEF TypeOK, RunSucceeds
<1>3. CASE SelectConnected(j)
  <2>1. handles' \in Seq(Jobs)
    BY <1>3 DEF TypeOK, SelectConnected
  <2>2. counts' \in [Jobs -> Tally]
    <3>1. CASE attempt[j] > 0
      <4>1. counts' = [counts EXCEPT ![j] = [counts[j] EXCEPT !.retrySuccesses = @ + 1]]
        BY <1>3, <3>1 DEF SelectConnected
      <4> QED
        BY <4>1, RecordTypes, TallyIncrements, TallyUpdate
    <3>2. CASE ~(attempt[j] > 0)
      BY <1>3, <3>2 DEF SelectConnected, TypeOK
    <3> QED
      BY <3>1, <3>2
  <2> QED
    BY <1>3, <2>1, <2>2 DEF TypeOK, SelectConnected
<1>4. CASE SelectEnded(j)
  <2>1. CASE MayRetry(j)
    <3>1. counts' = [counts EXCEPT ![j] = [counts[j] EXCEPT !.retries = @ + 1]]
      BY <1>4, <2>1 DEF SelectEnded
    <3>2. counts' \in [Jobs -> Tally]
      BY <3>1, RecordTypes, TallyIncrements, TallyUpdate
    <3> QED
      BY <1>4, <2>1, <3>2 DEF TypeOK, SelectEnded
  <2>2. CASE ~MayRetry(j)
    <3>1. StartFailure(j, Exhausted(j))
      BY <1>4, <2>2 DEF SelectEnded
    <3> QED
      BY <1>4, <3>1, RecordTypes, StartFailureTypes DEF TypeOK, SelectEnded
  <2> QED
    BY <2>1, <2>2
<1>5. CASE SelectContextDone(j)
  BY <1>5 DEF TypeOK, SelectContextDone
<1>6. CASE Drained(j)
  BY <1>6, RecordTypes, StartFailureTypes DEF TypeOK, Drained
<1>7. CASE BackoffOver(j)
  <2>1. attempt[j] + 1 \in 0..MaxRetries
    <3>1. Stage(j) = "backoff"
      BY <1>7 DEF BackoffOver, Stage
    <3>2. attempt[j] < MaxRetries /\ attempt[j] \in 0..MaxRetries
      BY <3>1, RecordTypes DEF JobsInv, StageInv
    <3> QED
      BY <3>2, PolicyAssumption
  <2>2. metrics' \in Metrics
    BY <1>7, CounterIncrements DEF BackoffOver
  <2>3. NoSession \in Session
    BY RecordTypes
  <2> QED
    BY <1>7, <2>1, <2>2, <2>3 DEF TypeOK, BackoffOver
<1>8. CASE BackoffCancelled(j)
  BY <1>8, RecordTypes, StartFailureTypes DEF TypeOK, BackoffCancelled
<1> QED
  BY <1>1, <1>2, <1>3, <1>4, <1>5, <1>6, <1>7, <1>8 DEF Worker

(* A session that connects or ends keeps the types.                        *)
LEMMA SessionKeepsTypes ==
  ASSUME TypeOK, NEW j \in Jobs, SessionConnects(j) \/ SessionEnds(j)
  PROVE  TypeOK'
<1> USE DEF vars, schedulerVars, workerVars, runVars, trackerVars, ErrorCounts, Metrics
<1>1. CASE SessionConnects(j)
  <2>1. [sess[j] EXCEPT !.connected = TRUE] \in Session
    BY RecordTypes DEF Session
  <2>2. sess' = [sess EXCEPT ![j] = [sess[j] EXCEPT !.connected = TRUE]]
    BY <1>1 DEF SessionConnects
  <2> QED
    BY <1>1, <2>1, <2>2 DEF TypeOK, SessionConnects
<1>2. CASE SessionEnds(j)
  <2>1. PICK err \in Errors, evidence \in BOOLEAN :
           /\ sess' = [sess EXCEPT ![j].state = "ended", ![j].reason = Reason(err),
                           ![j].err = err, ![j].evidence = evidence,
                           ![j].retryable = ConnectTimeout(j, err)]
           /\ metrics' = IF Reason(err) = "failed"
                            THEN [metrics EXCEPT !.disconnects = @ + 1] ELSE metrics
    BY <1>2 DEF SessionEnds
  <2> DEFINE ended == [sess[j] EXCEPT !.state = "ended", !.reason = Reason(err),
                           !.err = err, !.evidence = evidence,
                           !.retryable = ConnectTimeout(j, err)]
  <2>2. sess' = [sess EXCEPT ![j] = ended]
    BY <2>1
  <2>3. ended \in Session
    <3>1. err \in ErrorKinds /\ Reason(err) \in {"completed", "cancelled", "failed"}
      BY ErrorsAssumption DEF Reason
    <3>2. ConnectTimeout(j, err) \in BOOLEAN
      BY DEF ConnectTimeout
    <3>3. sess[j] \in Session
      BY RecordTypes
    <3> QED
      BY <3>1, <3>2, <3>3, SessionEnded
  <2> HIDE DEF ended
  <2>4. metrics' \in Metrics
    BY <2>1, CounterIncrements
  <2> QED
    BY <1>2, <2>2, <2>3, <2>4 DEF TypeOK, SessionEnds
<1> QED
  BY <1>1, <1>2

(* Collecting a job keeps the types.                                       *)
LEMMA SettleTypes ==
  ASSUME TypeOK, NEW j \in Jobs, NEW obs \in Session, Finalize(j, obs)
  PROVE  counts' \in [Jobs -> Tally] /\ errors' \in ErrorCounts
<1>1. counts' \in [Jobs -> Tally]
  <2>1. PICK atShutdown \in BOOLEAN :
           counts' = [counts EXCEPT ![j].started = @ + 1,
              ![j].runtimeFailures = @ + IF Invalid(obs, atShutdown) THEN 1 ELSE 0]
    BY DEF Finalize
  <2> DEFINE n == IF Invalid(obs, atShutdown) THEN 1 ELSE 0
             c == [counts[j] EXCEPT !.started = @ + 1, !.runtimeFailures = @ + n]
  <2>2. counts' = [counts EXCEPT ![j] = c]
    BY <2>1
  <2>3. n \in Nat
    OBVIOUS
  <2> HIDE DEF n
  <2>4. c \in Tally
    BY <2>3, RecordTypes, TallySettled
  <2> QED
    BY <2>2, <2>4, TallyUpdate
<1>2. errors' \in ErrorCounts
  BY CounterIncrements DEF Finalize
<1> QED
  BY <1>1, <1>2

(* The main goroutine keeps the types.                                     *)
LEMMA MainKeepsTypes ==
  ASSUME TypeOK, HandlesInv, MainInv, Main
  PROVE  TypeOK'
<1> USE DEF vars, schedulerVars, workerVars, runVars, trackerVars, ErrorCounts, Metrics
<1>1. CASE Launch
  <2>1. Plan[pos] \in Jobs /\ pos + 1 \in 1..Len(Plan) + 1
    BY <1>1, LaunchPosition
  <2>2. counts' = [counts EXCEPT ![Plan[pos]] = [counts[Plan[pos]] EXCEPT !.used = 1]]
    BY <1>1 DEF Launch
  <2>3. counts' \in [Jobs -> Tally]
    BY <2>1, <2>2, RecordTypes, TallyIncrements, TallyUpdate
  <2>4. metrics' \in Metrics
    BY <1>1, CounterIncrements DEF Launch
  <2> QED
    BY <1>1, <2>1, <2>3, <2>4 DEF TypeOK, Launch
<1>2. CASE StopScheduling
  BY <1>2 DEF TypeOK, StopScheduling
<1>3. CASE ContextSeen
  BY <1>3 DEF TypeOK, ContextSeen
<1>4. CASE JoinAndClose
  BY <1>4, PlanAssumption DEF TypeOK, JoinAndClose
<1>5. CASE Collect
  <2> DEFINE j == handles[pos]
             obs == IF sess[j].state = "ended" THEN Reclassified(sess[j]) ELSE TimedOut
  <2>1. j \in Jobs /\ pos + 1 \in 1..Len(Plan) + 1
    <3>1. /\ pos \in 1..Len(Plan) + 1 /\ pos <= Len(handles)
          /\ Len(Plan) \in Nat /\ handles \in Seq(Jobs)
      BY <1>5, PlanAssumption DEF TypeOK, Collect
    <3>2. pos \in 1..Len(handles) /\ pos <= Len(Plan)
      BY <3>1, HandlesLength
    <3>3. j \in Jobs
      BY <3>1, <3>2
    <3> QED
      BY <3>1, <3>2, <3>3
  <2>2. obs \in Session
    BY <2>1, RecordTypes
  <2>3. Finalize(j, obs)
    BY <1>5 DEF Collect
  <2> HIDE DEF j, obs
  <2>4. counts' \in [Jobs -> Tally] /\ errors' \in ErrorCounts
    BY <2>1, <2>2, <2>3, SettleTypes
  <2> QED
    BY <1>5, <2>1, <2>4 DEF TypeOK, Collect
<1>6. CASE Return
  <2>1. Verdict \in {"completed", "failed", "cancelled"}
    BY DEF Verdict
  <2> QED
    BY <1>6, <2>1 DEF TypeOK, Return
<1> QED
  BY <1>1, <1>2, <1>3, <1>4, <1>5, <1>6 DEF Main

(* The end of the run context and the automatic stop.                      *)
ContextStep == ContextEnds \/ StopTick \/ StopperLeaves

(* The run context and the automatic stop keep the types.                  *)
LEMMA ContextKeepsTypes ==
  ASSUME TypeOK, ContextStep
  PROVE  TypeOK'
  BY DEF ContextStep, TypeOK, ContextEnds, StopTick, StopperLeaves,
         vars, schedulerVars, workerVars, runVars, trackerVars

-----------------------------------------------------------------------------
(* Launching, handing over and joining *)

(* A job that was launched stays launched.                                 *)
LEMMA WorkerMoves ==
  ASSUME TypeOK, NEW j \in Jobs, Worker(j)
  PROVE  /\ worker[j] \in Trying
         /\ \A k \in Jobs \ {j} : worker'[k] = worker[k]
         /\ worker'[j] # "planned" /\ worker' \in [Jobs -> Trying \cup {"planned", "gone"}]
         /\ UNCHANGED <<main, pos, ctx, stopper, verdict>>
<1> USE DEF Worker, RunFails, RunSucceeds, SelectConnected, SelectEnded, SelectContextDone,
            Drained, BackoffOver, BackoffCancelled, StartFailure,
            schedulerVars, runVars, trackerVars, Trying
<1>1. worker[j] \in Trying
  OBVIOUS
<1>2. \E w \in Trying \cup {"gone"} : worker' = [worker EXCEPT ![j] = w]
  OBVIOUS
<1>3. UNCHANGED <<main, pos, ctx, stopper, verdict>>
  OBVIOUS
<1>4. worker \in [Jobs -> Trying \cup {"planned", "gone"}]
  BY DEF TypeOK
<1> QED
  BY <1>1, <1>2, <1>3, <1>4

(* Every step leaves the rest of the plan planned.                         *)
LEMMA LaunchStep ==
  ASSUME TypeOK, LaunchInv, Next
  PROVE  LaunchInv'
<1> USE DEF LaunchInv
<1>1. ASSUME NEW j \in Jobs, Worker(j) PROVE LaunchInv'
  <2>1. \A i \in DOMAIN Plan : Plan[i] \in Jobs
    BY DEF Jobs
  <2>2. worker[j] # "planned" /\ \A k \in Jobs \ {j} : worker'[k] = worker[k]
    BY <1>1, WorkerMoves DEF Trying
  <2> QED
    BY <1>1, <2>1, <2>2, WorkerMoves
<1>2. CASE Launch
  <2> SUFFICES ASSUME NEW i \in DOMAIN Plan, i >= pos + 1
               PROVE  worker'[Plan[i]] = "planned"
    BY <1>2 DEF Launch
  <2>1. pos \in DOMAIN Plan /\ i # pos /\ i >= pos
    BY <1>2, LaunchPosition
  <2>2. Plan[i] # Plan[pos] /\ Plan[i] \in Jobs
    BY <2>1, PlanAssumption DEF Jobs
  <2>3. worker[Plan[i]] = "planned"
    BY <1>2, <2>1 DEF Launch
  <2> QED
    BY <1>2, <2>2, <2>3 DEF Launch, TypeOK
<1>3. CASE StopScheduling \/ ContextSeen \/ JoinAndClose \/ Collect \/ Return
  BY <1>3 DEF StopScheduling, ContextSeen, JoinAndClose, Collect, Return
<1>4. ASSUME NEW j \in Jobs, SessionConnects(j) \/ SessionEnds(j) PROVE LaunchInv'
  BY <1>4 DEF SessionConnects, SessionEnds, schedulerVars, workerVars
<1>5. CASE ContextStep \/ Finished
  BY <1>5 DEF ContextStep, ContextEnds, StopTick, StopperLeaves, Finished, vars,
              schedulerVars, workerVars
<1> QED
  BY <1>1, <1>2, <1>3, <1>4, <1>5 DEF Next, Main, ContextStep

(* Only the goroutine of a job hands it over, and it does so once.         *)
LEMMA HandlesStep ==
  ASSUME TypeOK, HandlesInv, LaunchInv, Next
  PROVE  HandlesInv'
<1> USE DEF HandlesInv
<1>1. ASSUME NEW j \in Jobs, Worker(j) PROVE HandlesInv'
  <2>1. worker[j] # "gone" /\ \A k \in Jobs \ {j} : worker'[k] = worker[k]
    BY <1>1, WorkerMoves DEF Trying
  <2>2. \A i \in DOMAIN handles : handles[i] \in Jobs
    BY DEF TypeOK
  <2>3. CASE SelectConnected(j)
    <3>1. Len(handles) \in Nat /\ DOMAIN handles = 1..Len(handles)
      BY DEF TypeOK
    <3>2. /\ DOMAIN handles' = 1..Len(handles) + 1
          /\ \A i \in 1..Len(handles) : handles'[i] = handles[i]
          /\ handles'[Len(handles) + 1] = j
      BY <2>3, <3>1 DEF SelectConnected, TypeOK
    <3>3. worker'[j] = "gone"
      BY <2>3 DEF SelectConnected, TypeOK
    <3> QED
      BY <2>1, <2>2, <3>1, <3>2, <3>3
  <2>4. CASE ~SelectConnected(j)
    <3>1. handles' = handles
      BY <1>1, <2>4 DEF Worker, RunFails, RunSucceeds, SelectEnded, SelectContextDone,
         Drained, BackoffOver, BackoffCancelled, schedulerVars
    <3> QED
      BY <2>1, <2>2, <3>1
  <2> QED
    BY <2>3, <2>4
<1>2. CASE Launch
  <2>1. worker[Plan[pos]] = "planned"
    <3>1. main = "scheduling" /\ pos \in DOMAIN Plan /\ pos >= pos
      BY <1>2, LaunchPosition DEF Launch
    <3> QED
      BY <3>1 DEF LaunchInv
  <2>2. \A k \in Jobs \ {Plan[pos]} : worker'[k] = worker[k]
    BY <1>2 DEF Launch, TypeOK
  <2>3. \A i \in DOMAIN handles : handles[i] \in Jobs
    BY DEF TypeOK
  <2> QED
    BY <1>2, <2>1, <2>2, <2>3 DEF Launch
<1>3. CASE StopScheduling \/ ContextSeen \/ JoinAndClose \/ Collect \/ Return
  BY <1>3 DEF StopScheduling, ContextSeen, JoinAndClose, Collect, Return, workerVars
<1>4. ASSUME NEW j \in Jobs, SessionConnects(j) \/ SessionEnds(j) PROVE HandlesInv'
  BY <1>4 DEF SessionConnects, SessionEnds, schedulerVars, workerVars
<1>5. CASE ContextStep \/ Finished
  BY <1>5 DEF ContextStep, ContextEnds, StopTick, StopperLeaves, Finished, vars,
              schedulerVars, workerVars
<1> QED
  BY <1>1, <1>2, <1>3, <1>4, <1>5 DEF Next, Main, ContextStep

(* The main goroutine collects what is there when all others are gone.     *)
LEMMA MainStep ==
  ASSUME TypeOK, HandlesInv, MainInv, Next
  PROVE  MainInv'
<1> USE DEF MainInv
<1>1. ASSUME NEW j \in Jobs, Worker(j) PROVE MainInv'
  BY <1>1, WorkerMoves DEF Trying
<1>2. CASE Launch \/ StopScheduling \/ ContextSeen
  BY <1>2 DEF Launch, StopScheduling, ContextSeen
<1>3. CASE JoinAndClose
  <2>1. Len(handles) \in Nat
    BY DEF TypeOK
  <2> QED
    BY <1>3, <2>1 DEF JoinAndClose, workerVars
<1>4. CASE Collect \/ Return
  <2>1. Len(handles) \in Nat /\ pos \in Nat
    BY PlanAssumption DEF TypeOK
  <2> QED
    BY <1>4, <2>1 DEF Collect, Return, workerVars
<1>5. ASSUME NEW j \in Jobs, SessionConnects(j) \/ SessionEnds(j) PROVE MainInv'
  BY <1>5 DEF SessionConnects, SessionEnds, schedulerVars, workerVars
<1>6. CASE ContextStep \/ Finished
  BY <1>6 DEF ContextStep, ContextEnds, StopTick, StopperLeaves, Finished, vars,
              schedulerVars, workerVars
<1> QED
  BY <1>1, <1>2, <1>3, <1>4, <1>5, <1>6 DEF Next, Main, ContextStep

-----------------------------------------------------------------------------
(* The accounts of a job *)

(* A job whose goroutine is at work was not handed over, and none was      *)
(* collected.                                                              *)
LEMMA TryingStage ==
  ASSUME HandlesInv, MainInv, NEW j \in Jobs, worker[j] \in Trying
  PROVE  /\ Stage(j) = worker[j] /\ ~HandedOver(j)
         /\ main \notin {"collecting", "returned"}
         /\ \A k \in Jobs : ~Collected(k)
  BY DEF Stage, Trying, HandlesInv, HandedOver, MainInv, Collected

(* A step of one job's goroutine leaves the accounts of the others alone.  *)
LEMMA OtherJobs ==
  ASSUME TypeOK, HandlesInv, MainInv, JobsInv, NEW j \in Jobs, Worker(j),
         StageInv(Stage(j)', attempt'[j], sess'[j], counts'[j])
  PROVE  JobsInv'
<1> SUFFICES ASSUME NEW k \in Jobs \ {j}
             PROVE  StageInv(Stage(k)', attempt'[k], sess'[k], counts'[k])
  BY DEF JobsInv
<1>1. /\ attempt'[k] = attempt[k] /\ sess'[k] = sess[k] /\ counts'[k] = counts[k]
  BY DEF TypeOK, Worker, RunFails, RunSucceeds, SelectConnected, SelectEnded,
         SelectContextDone, Drained, BackoffOver, BackoffCancelled, StartFailure,
         schedulerVars, runVars, trackerVars, workerVars
<1>2. worker'[k] = worker[k] /\ main' = main /\ worker[j] \in Trying
  BY WorkerMoves
<1>3. main \notin {"collecting", "returned"}
  BY <1>2, TryingStage
<1>4. HandedOver(k)' <=> HandedOver(k)
  <2>1. CASE SelectConnected(j)
    <3>1. Len(handles) \in Nat /\ DOMAIN handles = 1..Len(handles)
      BY DEF TypeOK
    <3>2. /\ DOMAIN handles' = 1..Len(handles) + 1
          /\ \A i \in 1..Len(handles) : handles'[i] = handles[i]
          /\ handles'[Len(handles) + 1] = j
      BY <2>1, <3>1 DEF SelectConnected, TypeOK
    <3> QED
      BY <3>1, <3>2 DEF HandedOver
  <2>2. CASE ~SelectConnected(j)
    BY <2>2 DEF HandedOver, Worker, RunFails, RunSucceeds, SelectEnded,
         SelectContextDone, Drained, BackoffOver, BackoffCancelled, schedulerVars
  <2> QED
    BY <2>1, <2>2
<1>5. Stage(k)' = Stage(k)
  BY <1>2, <1>3, <1>4 DEF Stage, Collected
<1> QED
  BY <1>1, <1>5 DEF JobsInv

(* A goroutine that gives its job up accounts for it as a start failure.   *)
LEMMA StartFailureStep ==
  ASSUME TypeOK, HandlesInv, MainInv, NEW j \in Jobs, worker[j] \in Trying,
         NEW c \in Tally, StartFailure(j, c),
         c.used = 1 /\ c.started = 0 /\ c.startFailures = 0 /\ c.runtimeFailures = 0,
         c.retrySuccesses = 0 /\ c.retryExhausted \in {0, 1},
         c.retryExhausted = 1 => c.retries > 0,
         sess[j].state \in {"none", "ended"},
         UNCHANGED <<handles, main, attempt, sess>>
  PROVE  StageInv(Stage(j)', attempt'[j], sess'[j], counts'[j])
<1>1. Stage(j)' = "failed"
  <2>1. worker'[j] = "gone"
    BY DEF StartFailure, TypeOK
  <2>2. ~HandedOver(j)'
    BY TryingStage DEF HandedOver
  <2> QED
    BY <2>1, <2>2 DEF Stage
<1>2. counts'[j] = [c EXCEPT !.startFailures = @ + 1]
  BY DEF StartFailure, TypeOK
<1>3. /\ counts'[j].startFailures = 1 /\ counts'[j].used = 1
      /\ counts'[j].started = 0 /\ counts'[j].runtimeFailures = 0
      /\ counts'[j].retrySuccesses = 0 /\ counts'[j].retryExhausted = c.retryExhausted
      /\ counts'[j].retries = c.retries
  BY <1>2 DEF Tally
<1> QED
  BY <1>1, <1>3 DEF StageInv

(* The goroutine of a job keeps the accounts of every job.                 *)
LEMMA WorkerKeepsJobs ==
  ASSUME TypeOK, HandlesInv, MainInv, JobsInv, NEW j \in Jobs, Worker(j)
  PROVE  JobsInv'
<1> DEFINE c == counts[j]
<1>0. /\ worker[j] \in Trying /\ Stage(j) = worker[j]
      /\ StageInv(worker[j], attempt[j], sess[j], c)
      /\ c \in Tally /\ attempt[j] \in 0..MaxRetries
      /\ sess[j] \in Session /\ c.used = 1 /\ Undecided(c)
  <2>1. worker[j] \in Trying /\ Stage(j) = worker[j]
    BY WorkerMoves, TryingStage
  <2>2. StageInv(worker[j], attempt[j], sess[j], c)
    BY <2>1 DEF JobsInv
  <2> QED
    BY <2>1, <2>2, RecordTypes DEF StageInv, Trying
<1>s. SUFFICES StageInv(Stage(j)', attempt'[j], sess'[j], counts'[j])
  BY OtherJobs
<1>1. CASE RunFails(j)
  <2>1. StartFailure(j, c)
    BY <1>1 DEF RunFails, StartFailure
  <2>2. sess[j].state = "none"
    BY <1>0, <1>1 DEF RunFails, StageInv
  <2>3. UNCHANGED <<handles, main, attempt, sess>>
    BY <1>1 DEF RunFails, schedulerVars
  <2> QED
    BY <1>0, <2>1, <2>2, <2>3, StartFailureStep DEF Undecided
<1>2. CASE RunSucceeds(j)
  <2>1. /\ worker'[j] = "selecting" /\ counts'[j] = c /\ attempt'[j] = attempt[j]
    BY <1>2 DEF RunSucceeds, TypeOK, trackerVars
  <2>2. Stage(j)' = "selecting"
    BY <2>1 DEF Stage
  <2>3. worker[j] = "calling" /\ sess'[j].state = "open"
    BY <1>2 DEF RunSucceeds, TypeOK, NoSession
  <2> QED
    BY <1>0, <2>1, <2>2, <2>3 DEF StageInv
<1>3. CASE SelectConnected(j)
  <2>1. worker[j] = "selecting" /\ worker'[j] = "gone"
    BY <1>3 DEF SelectConnected, TypeOK
  <2>2. Stage(j)' = "handed"
    <3>1. Len(handles) \in Nat /\ main' = main
      BY <1>3 DEF SelectConnected, TypeOK
    <3>2. handles' = Append(handles, j)
      BY <1>3 DEF SelectConnected
    <3>3. /\ Len(handles) + 1 \in DOMAIN handles' /\ handles'[Len(handles) + 1] = j
      BY <3>1, <3>2 DEF TypeOK
    <3>4. HandedOver(j)'
      BY <3>3 DEF HandedOver
    <3>5. ~Collected(j)'
      BY <1>0, <3>1, TryingStage DEF Collected
    <3> QED
      BY <2>1, <3>4, <3>5 DEF Stage
  <2>3. sess'[j] = sess[j] /\ sess[j].state \in {"open", "ended"}
    BY <1>0, <1>3, <2>1 DEF SelectConnected, StageInv
  <2>4. CASE attempt[j] > 0
    <3>1. counts'[j] = [c EXCEPT !.retrySuccesses = @ + 1]
      BY <1>3, <2>4 DEF SelectConnected, TypeOK
    <3>2. /\ counts'[j].retrySuccesses = 1 /\ counts'[j].used = 1 /\ counts'[j].started = 0
          /\ counts'[j].startFailures = 0 /\ counts'[j].runtimeFailures = 0
          /\ counts'[j].retryExhausted = 0 /\ counts'[j].retries = c.retries
      BY <1>0, <3>1 DEF Tally, Undecided
    <3>3. c.retries > 0
      BY <1>0, <2>1, <2>4 DEF StageInv
    <3> QED
      BY <2>2, <2>3, <3>2, <3>3 DEF StageInv
  <2>5. CASE ~(attempt[j] > 0)
    <3>1. counts'[j] = c
      BY <1>3, <2>5 DEF SelectConnected
    <3> QED
      BY <1>0, <2>2, <2>3, <3>1 DEF StageInv, Undecided
  <2> QED
    BY <2>4, <2>5
<1>4. CASE SelectEnded(j)
  <2>1. /\ worker[j] = "selecting" /\ sess[j].state = "ended" /\ c.retries = attempt[j]
        /\ UNCHANGED <<handles, main, attempt, sess>>
    BY <1>0, <1>4 DEF SelectEnded, StageInv, schedulerVars
  <2>2. CASE MayRetry(j)
    <3>1. /\ counts'[j] = [c EXCEPT !.retries = @ + 1] /\ worker'[j] = "backoff"
      BY <1>4, <2>2 DEF SelectEnded, TypeOK
    <3>2. /\ counts'[j].retries = c.retries + 1 /\ counts'[j].used = c.used
          /\ Undecided(c) => Undecided(counts'[j])
      <4>1. c \in Tally
        BY RecordTypes
      <4> QED
        BY <3>1, <4>1 DEF Tally, Undecided
    <3>3. Stage(j)' = "backoff" /\ attempt[j] < MaxRetries
      BY <2>2, <3>1 DEF Stage, MayRetry
    <3> QED
      BY <1>0, <2>1, <3>2, <3>3 DEF StageInv
  <2>3. CASE ~MayRetry(j)
    <3>1. StartFailure(j, Exhausted(j))
      BY <1>4, <2>3 DEF SelectEnded
    <3>2. /\ Exhausted(j) \in Tally /\ Exhausted(j).used = 1 /\ Exhausted(j).started = 0
          /\ Exhausted(j).startFailures = 0 /\ Exhausted(j).runtimeFailures = 0
          /\ Exhausted(j).retrySuccesses = 0 /\ Exhausted(j).retryExhausted \in {0, 1}
          /\ Exhausted(j).retryExhausted = 1 => Exhausted(j).retries > 0
      <4>1. c \in Tally
        BY RecordTypes
      <4>2. CASE attempt[j] > 0
        <5>1. Exhausted(j) = [c EXCEPT !.retryExhausted = @ + 1] /\ c.retries > 0
          BY <2>1, <4>2 DEF Exhausted
        <5> QED
          BY <1>0, <4>1, <5>1 DEF Tally, Undecided
      <4>3. CASE ~(attempt[j] > 0)
        <5>1. Exhausted(j) = c
          BY <4>3 DEF Exhausted
        <5> QED
          BY <1>0, <4>1, <5>1 DEF Undecided
      <4> QED
        BY <4>2, <4>3
    <3> QED
      BY <1>0, <2>1, <3>1, <3>2, StartFailureStep
  <2> QED
    BY <2>2, <2>3
<1>5. CASE SelectContextDone(j)
  <2>1. /\ worker[j] = "selecting" /\ worker'[j] = "draining"
        /\ UNCHANGED <<attempt, sess, counts>>
    BY <1>5 DEF SelectContextDone, TypeOK, trackerVars
  <2>2. Stage(j)' = "draining"
    BY <2>1 DEF Stage
  <2> QED
    BY <1>0, <2>1, <2>2 DEF StageInv
<1>6. CASE Drained(j) \/ BackoffCancelled(j)
  <2>1. /\ StartFailure(j, c) /\ UNCHANGED <<handles, main, attempt, sess>>
    BY <1>6 DEF Drained, BackoffCancelled, schedulerVars
  <2>2. sess[j].state = "ended"
    BY <1>0, <1>6 DEF Drained, BackoffCancelled, StageInv
  <2> QED
    BY <1>0, <2>1, <2>2, StartFailureStep DEF Undecided
<1>7. CASE BackoffOver(j)
  <2>1. /\ worker[j] = "backoff" /\ worker'[j] = "calling" /\ counts'[j] = c
        /\ attempt'[j] = attempt[j] + 1 /\ sess'[j] = NoSession
    BY <1>7 DEF BackoffOver, TypeOK, trackerVars
  <2>2. Stage(j)' = "calling" /\ sess'[j].state = "none"
    BY <2>1 DEF Stage, NoSession
  <2> QED
    BY <1>0, <2>1, <2>2 DEF StageInv
<1> QED
  BY <1>1, <1>2, <1>3, <1>4, <1>5, <1>6, <1>7 DEF Worker

(* A session that connects or ends changes no account, and what was        *)
(* collected as maintained had ended before.                               *)
LEMMA SessionKeepsJobs ==
  ASSUME TypeOK, JobsInv, NEW j \in Jobs, SessionConnects(j) \/ SessionEnds(j)
  PROVE  JobsInv'
<1> SUFFICES ASSUME NEW k \in Jobs
             PROVE  StageInv(Stage(k)', attempt'[k], sess'[k], counts'[k])
  BY DEF JobsInv
<1>1. UNCHANGED <<main, pos, handles, worker, attempt, counts>>
  BY DEF SessionConnects, SessionEnds, schedulerVars, workerVars, trackerVars
<1>2. Stage(k)' = Stage(k)
  BY <1>1 DEF Stage, HandedOver, Collected
<1>3. StageInv(Stage(k), attempt[k], sess[k], counts[k])
  BY DEF JobsInv
<1>4. CASE k # j
  BY <1>1, <1>2, <1>3, <1>4 DEF SessionConnects, SessionEnds, TypeOK
<1>5. CASE k = j
  <2>1. sess[j].state = "open"
    BY DEF SessionConnects, SessionEnds
  <2>2. CASE SessionConnects(j)
    <3>1. sess'[j] = [sess[j] EXCEPT !.connected = TRUE] /\ sess[j] \in Session
      BY <2>2, RecordTypes DEF SessionConnects, TypeOK
    <3>2. sess'[j].state = "open"
      BY <2>1, <3>1 DEF Session
    <3> QED
      BY <1>1, <1>2, <1>3, <1>5, <2>1, <3>2 DEF StageInv
  <2>3. CASE SessionEnds(j)
    <3>1. PICK err \in Errors, evidence \in BOOLEAN :
             sess' = [sess EXCEPT ![j].state = "ended", ![j].reason = Reason(err),
                         ![j].err = err, ![j].evidence = evidence,
                         ![j].retryable = ConnectTimeout(j, err)]
      BY <2>3 DEF SessionEnds
    <3>2. /\ sess[j] \in Session
          /\ sess'[j] = [sess[j] EXCEPT !.state = "ended", !.reason = Reason(err),
                            !.err = err, !.evidence = evidence,
                            !.retryable = ConnectTimeout(j, err)]
      BY <3>1, RecordTypes DEF TypeOK
    <3>3. sess'[j].state = "ended"
      BY <3>2 DEF Session
    <3> QED
      BY <1>1, <1>2, <1>3, <1>5, <2>1, <3>3 DEF StageInv
  <2> QED
    BY <2>2, <2>3
<1> QED
  BY <1>4, <1>5

(* Collecting a job makes it a started one, maintained or not.             *)
LEMMA CollectKeepsJobs ==
  ASSUME TypeOK, HandlesInv, MainInv, JobsInv, Collect
  PROVE  JobsInv'
<1>0. PICK j \in Jobs : j = handles[pos]
  BY HandlesLength DEF Collect, TypeOK
<1> DEFINE obs == IF sess[j].state = "ended" THEN Reclassified(sess[j]) ELSE TimedOut
<1>1. /\ main = "collecting" /\ main' = main /\ pos' = pos + 1 /\ pos \in Nat
      /\ pos \in DOMAIN handles /\ DOMAIN handles = 1..Len(handles)
      /\ UNCHANGED <<handles, worker, attempt, sess>> /\ Finalize(j, obs)
  BY <1>0, HandlesLength DEF Collect, TypeOK, workerVars
<1>2. worker[j] = "gone" /\ counts[j] \in Tally /\ sess[j] \in Session
  BY <1>0, <1>1, RecordTypes DEF HandlesInv
<1>3. Stage(j) = "handed" /\ Stage(j)' = "collected"
  BY <1>0, <1>1, <1>2 DEF Stage, HandedOver, Collected, HandlesInv
<1>4. \A k \in Jobs \ {j} : Stage(k)' = Stage(k)
  <2> SUFFICES ASSUME NEW k \in Jobs \ {j}
               PROVE  Collected(k)' <=> Collected(k)
    BY <1>1 DEF Stage, HandedOver
  <2> QED
    BY <1>0, <1>1 DEF Collected
<1>5. PICK atShutdown \in BOOLEAN :
         counts' = [counts EXCEPT ![j].started = @ + 1,
            ![j].runtimeFailures = @ + IF Invalid(obs, atShutdown) THEN 1 ELSE 0]
  BY <1>1 DEF Finalize
<1> DEFINE n == IF Invalid(obs, atShutdown) THEN 1 ELSE 0
<1>6. counts'[j] = [counts[j] EXCEPT !.started = @ + 1, !.runtimeFailures = @ + n]
  BY <1>2, <1>5 DEF TypeOK
<1>7. n \in {0, 1} /\ (n = 0 => ~Invalid(obs, atShutdown))
  OBVIOUS
<1>8. ~Invalid(obs, atShutdown) =>
         /\ sess[j].state = "ended" /\ sess[j].evidence
         /\ sess[j].reason = "failed" => sess[j].err \in Transport
  <2>1. CASE sess[j].state = "ended"
    BY <1>2, <2>1 DEF Invalid, Reclassified, Session
  <2>2. CASE sess[j].state # "ended"
    BY <2>2 DEF Invalid, TimedOut, NoSession
  <2> QED
    BY <2>1, <2>2
<1> HIDE DEF obs, n
<1>9. StageInv(Stage(j)', attempt'[j], sess'[j], counts'[j])
  <2>1. StageInv("handed", attempt[j], sess[j], counts[j])
    BY <1>2, <1>3 DEF JobsInv
  <2>2. /\ counts'[j].started = 1 /\ counts'[j].runtimeFailures = n
        /\ counts'[j].used = 1 /\ counts'[j].startFailures = 0
        /\ counts'[j].retries = counts[j].retries
        /\ counts'[j].retrySuccesses = counts[j].retrySuccesses
        /\ counts'[j].retryExhausted = 0
    BY <1>2, <1>6, <1>7, <2>1 DEF StageInv, Tally
  <2> QED
    BY <1>1, <1>3, <1>7, <1>8, <2>1, <2>2 DEF StageInv
<1>10. \A k \in Jobs \ {j} : StageInv(Stage(k)', attempt'[k], sess'[k], counts'[k])
  <2> SUFFICES ASSUME NEW k \in Jobs \ {j}
               PROVE  StageInv(Stage(k)', attempt'[k], sess'[k], counts'[k])
    OBVIOUS
  <2>1. counts'[k] = counts[k]
    BY <1>2, <1>5 DEF TypeOK
  <2> QED
    BY <1>1, <1>4, <2>1 DEF JobsInv
<1> QED
  BY <1>9, <1>10 DEF JobsInv

(* Launching the next job keeps the accounts of every job.                 *)
LEMMA LaunchKeepsJobs ==
  ASSUME TypeOK, HandlesInv, LaunchInv, JobsInv, Launch
  PROVE  JobsInv'
<1>0. PICK j \in Jobs : j = Plan[pos]
  BY LaunchPosition
<1>1. worker[j] = "planned" /\ worker'[j] = "calling"
  <2>1. main = "scheduling" /\ pos \in DOMAIN Plan /\ pos >= pos
    BY LaunchPosition DEF Launch
  <2>2. worker[j] = "planned"
    BY <1>0, <2>1 DEF LaunchInv
  <2> QED
    BY <1>0, <2>2 DEF Launch, TypeOK
<1>2. /\ main = "scheduling" /\ UNCHANGED <<main, handles, attempt, sess>>
      /\ \A k \in Jobs \ {j} : worker'[k] = worker[k] /\ counts'[k] = counts[k]
  BY <1>0 DEF Launch, TypeOK
<1>3. \A k \in Jobs \ {j} : Stage(k)' = Stage(k)
  BY <1>2 DEF Stage, HandedOver, Collected
<1>4. Stage(j) = "planned" /\ Stage(j)' = "calling"
  BY <1>1 DEF Stage
<1>5. /\ counts[j] \in Tally
      /\ counts'[j] = [counts[j] EXCEPT !.used = 1]
  BY <1>0, RecordTypes DEF Launch, TypeOK
<1>6. StageInv(Stage(j)', attempt'[j], sess'[j], counts'[j])
  <2>1. StageInv("planned", attempt[j], sess[j], counts[j])
    BY <1>1, <1>4 DEF JobsInv
  <2>2. counts'[j].used = 1 /\ Undecided(counts'[j]) /\ counts'[j].retries = attempt[j]
    BY <1>5, <2>1 DEF StageInv, Undecided, Tally
  <2> QED
    BY <1>2, <1>4, <2>1, <2>2 DEF StageInv
<1>7. ASSUME NEW k \in Jobs \ {j}
      PROVE  StageInv(Stage(k)', attempt'[k], sess'[k], counts'[k])
  BY <1>2, <1>3 DEF JobsInv
<1> QED
  BY <1>6, <1>7 DEF JobsInv

(* Every step keeps the accounts of every job.                             *)
LEMMA JobsStep ==
  ASSUME TypeOK, HandlesInv, LaunchInv, MainInv, JobsInv, Next
  PROVE  JobsInv'
<1>1. ASSUME NEW j \in Jobs, Worker(j) PROVE JobsInv'
  BY <1>1, WorkerKeepsJobs
<1>2. ASSUME NEW j \in Jobs, SessionConnects(j) \/ SessionEnds(j) PROVE JobsInv'
  BY <1>2, SessionKeepsJobs
<1>3. CASE Launch
  BY <1>3, LaunchKeepsJobs
<1>4. CASE Collect
  BY <1>4, CollectKeepsJobs
<1>5. CASE StopScheduling \/ ContextSeen \/ JoinAndClose \/ Return \/ ContextStep \/ Finished
  <2>1. UNCHANGED <<handles, worker, attempt, sess, counts>>
    BY <1>5 DEF StopScheduling, ContextSeen, JoinAndClose, Return, ContextStep, ContextEnds,
       StopTick, StopperLeaves, Finished, vars, schedulerVars, workerVars, trackerVars
  <2>2. \A k \in Jobs : Collected(k)' <=> Collected(k)
    <3>1. CASE JoinAndClose
      <4>1. DOMAIN handles = 1..Len(handles) /\ Len(handles) \in Nat
        BY HandlesLength
      <4> QED
        BY <3>1, <4>1 DEF JoinAndClose, Collected
    <3>2. CASE ~JoinAndClose
      BY <1>5, <3>2 DEF Collected, StopScheduling, ContextSeen, Return, ContextStep, ContextEnds,
         StopTick, StopperLeaves, Finished, vars, schedulerVars
    <3> QED
      BY <3>1, <3>2
  <2>3. \A k \in Jobs : Stage(k)' = Stage(k)
    BY <2>1, <2>2 DEF Stage, HandedOver
  <2> QED
    BY <2>1, <2>3 DEF JobsInv
<1> QED
  BY <1>1, <1>2, <1>3, <1>4, <1>5 DEF Next, Main, ContextStep

-----------------------------------------------------------------------------
(* The error of the run and its verdict *)

(* A plan has finitely many jobs.                                          *)
LEMMA JobsFinite == IsFiniteSet(Jobs)
<1>1. Plan \in Surjection(1..Len(Plan), Jobs)
  BY PlanAssumption DEF Surjection, Jobs
<1>2. IsFiniteSet(1..Len(Plan))
  BY PlanAssumption, IntervalCardinality
<1> QED
  BY <1>1, <1>2, FS_Surjection

(* The sets of failed jobs are finite.                                     *)
LEMMA FailedFinite ==
  /\ IsFiniteSet(StartFailed) /\ Cardinality(StartFailed) \in Nat
  /\ IsFiniteSet(RuntimeFailed) /\ Cardinality(RuntimeFailed) \in Nat
<1>1. StartFailed \in SUBSET Jobs /\ RuntimeFailed \in SUBSET Jobs
  BY DEF StartFailed, RuntimeFailed
<1>2. IsFiniteSet(StartFailed) /\ IsFiniteSet(RuntimeFailed)
  BY <1>1, JobsFinite, FS_Subset
<1> QED
  BY <1>2, FS_CardinalityType

(* A goroutine counts at most one start failure, in both places.           *)
LEMMA WorkerErrors ==
  ASSUME TypeOK, HandlesInv, MainInv, JobsInv, NEW j \in Jobs, Worker(j)
  PROVE  /\ counts[j].startFailures = 0
         /\ counts[j].runtimeFailures = 0 /\ counts'[j].runtimeFailures = 0
         /\ \A k \in Jobs \ {j} : counts'[k] = counts[k]
         /\ \/ counts'[j].startFailures = 0 /\ errors' = errors
            \/ counts'[j].startFailures = 1 /\ errors' = [errors EXCEPT !.start = @ + 1]
<1> DEFINE c == counts[j]
<1>1. c \in Tally /\ Undecided(c)
  <2>1. worker[j] \in Trying /\ Stage(j) = worker[j]
    BY WorkerMoves, TryingStage
  <2> QED
    BY <2>1, RecordTypes DEF JobsInv, StageInv, Trying
<1>2. CASE RunFails(j) \/ Drained(j) \/ BackoffCancelled(j)
  <2>1. StartFailure(j, c)
    BY <1>2 DEF RunFails, Drained, BackoffCancelled, StartFailure
  <2>2. /\ counts'[j] = [c EXCEPT !.startFailures = @ + 1]
        /\ \A k \in Jobs \ {j} : counts'[k] = counts[k]
        /\ errors' = [errors EXCEPT !.start = @ + 1]
    BY <2>1 DEF StartFailure, TypeOK
  <2> QED
    BY <1>1, <2>2 DEF Undecided, Tally
<1>3. CASE SelectEnded(j)
  <2>1. CASE MayRetry(j)
    <3>1. /\ counts'[j] = [c EXCEPT !.retries = @ + 1]
          /\ \A k \in Jobs \ {j} : counts'[k] = counts[k]
          /\ errors' = errors
      BY <1>3, <2>1 DEF SelectEnded, TypeOK
    <3> QED
      BY <1>1, <3>1 DEF Undecided, Tally
  <2>2. CASE ~MayRetry(j)
    <3>1. StartFailure(j, Exhausted(j))
      BY <1>3, <2>2 DEF SelectEnded
    <3>2. /\ counts'[j] = [Exhausted(j) EXCEPT !.startFailures = @ + 1]
          /\ \A k \in Jobs \ {j} : counts'[k] = counts[k]
          /\ errors' = [errors EXCEPT !.start = @ + 1]
      BY <3>1 DEF StartFailure, TypeOK
    <3>3. /\ Exhausted(j) \in Tally
          /\ Exhausted(j).startFailures = 0 /\ Exhausted(j).runtimeFailures = 0
      BY <1>1, RecordTypes DEF Exhausted, Undecided, Tally
    <3> QED
      BY <1>1, <3>2, <3>3 DEF Undecided, Tally
  <2> QED
    BY <2>1, <2>2
<1>4. CASE SelectConnected(j)
  <2>1. errors' = errors /\ \A k \in Jobs \ {j} : counts'[k] = counts[k]
    BY <1>4 DEF SelectConnected, TypeOK
  <2>2. counts'[j] = c \/ counts'[j] = [c EXCEPT !.retrySuccesses = @ + 1]
    BY <1>4 DEF SelectConnected, TypeOK
  <2> QED
    BY <1>1, <2>1, <2>2 DEF Undecided, Tally
<1>5. CASE RunSucceeds(j) \/ SelectContextDone(j) \/ BackoffOver(j)
  <2>1. UNCHANGED <<counts, errors>>
    BY <1>5 DEF RunSucceeds, SelectContextDone, BackoffOver, trackerVars
  <2> QED
    BY <1>1, <2>1 DEF Undecided
<1> QED
  BY <1>2, <1>3, <1>4, <1>5 DEF Worker

(* The goroutine of a job keeps the two counts of failures equal.          *)
LEMMA WorkerKeepsErrors ==
  ASSUME TypeOK, HandlesInv, MainInv, JobsInv, ErrorsInv, NEW j \in Jobs, Worker(j)
  PROVE  ErrorsInv'
<1>1. /\ counts[j].startFailures = 0
      /\ counts[j].runtimeFailures = 0 /\ counts'[j].runtimeFailures = 0
      /\ \A k \in Jobs \ {j} : counts'[k] = counts[k]
  BY WorkerErrors
<1>2. RuntimeFailed' = RuntimeFailed /\ j \notin StartFailed
  BY <1>1 DEF RuntimeFailed, StartFailed
<1>3. errors \in ErrorCounts
  BY CounterIncrements
<1>4. CASE counts'[j].startFailures = 0 /\ errors' = errors
  <2>1. StartFailed' = StartFailed
    BY <1>1, <1>4 DEF StartFailed
  <2> QED
    BY <1>2, <1>4, <2>1 DEF ErrorsInv
<1>5. CASE counts'[j].startFailures = 1 /\ errors' = [errors EXCEPT !.start = @ + 1]
  <2>1. StartFailed' = StartFailed \cup {j}
    BY <1>1, <1>5 DEF StartFailed
  <2>2. Cardinality(StartFailed') = Cardinality(StartFailed) + 1
    BY <1>2, <2>1, FailedFinite, FS_AddElement
  <2>3. errors'.start = errors.start + 1 /\ errors'.runtime = errors.runtime
    BY <1>3, <1>5 DEF ErrorCounts
  <2> QED
    BY <1>2, <2>2, <2>3 DEF ErrorsInv
<1> QED
  BY <1>4, <1>5, WorkerErrors

(* A job that is collected as failed is one more runtime failure.          *)
LEMMA CollectKeepsErrors ==
  ASSUME TypeOK, HandlesInv, MainInv, JobsInv, ErrorsInv, Collect
  PROVE  ErrorsInv'
<1>1. PICK j \in Jobs : j = handles[pos]
  BY HandlesLength DEF Collect, TypeOK
<1> DEFINE obs == IF sess[j].state = "ended" THEN Reclassified(sess[j]) ELSE TimedOut
<1>2. Finalize(j, obs) /\ main = "collecting" /\ pos \in DOMAIN handles /\ pos \in Nat
  BY <1>1, HandlesLength DEF Collect, TypeOK
<1>3. counts[j] \in Tally /\ counts[j].startFailures = 0 /\ counts[j].runtimeFailures = 0
  <2>1. Stage(j) = "handed"
    BY <1>1, <1>2 DEF Stage, HandedOver, Collected, HandlesInv
  <2> QED
    BY <2>1, RecordTypes DEF JobsInv, StageInv
<1>4. PICK atShutdown \in BOOLEAN :
         counts' = [counts EXCEPT ![j].started = @ + 1,
            ![j].runtimeFailures = @ + IF Invalid(obs, atShutdown) THEN 1 ELSE 0]
  BY <1>2 DEF Finalize
<1>5. /\ counts'[j].startFailures = 0
      /\ counts'[j].runtimeFailures = (IF Invalid(obs, atShutdown) THEN 1 ELSE 0)
      /\ \A k \in Jobs \ {j} : counts'[k] = counts[k]
  BY <1>3, <1>4 DEF TypeOK, Tally
<1>6. StartFailed' = StartFailed
  BY <1>3, <1>5 DEF StartFailed
<1>7. errors \in ErrorCounts
  BY CounterIncrements
<1>8. CASE Invalid(obs, atShutdown)
  <2>1. RuntimeFailed' = RuntimeFailed \cup {j} /\ j \notin RuntimeFailed
    BY <1>3, <1>5, <1>8 DEF RuntimeFailed
  <2>2. Cardinality(RuntimeFailed') = Cardinality(RuntimeFailed) + 1
    BY <2>1, FailedFinite, FS_AddElement
  <2>3. errors'.start = errors.start
        /\ (errors'.runtime = errors.runtime \/ errors'.runtime = errors.runtime + 1)
    BY <1>2, <1>7 DEF Finalize, ErrorCounts
  <2> QED
    BY <1>6, <1>7, <2>2, <2>3, FailedFinite DEF ErrorsInv, ErrorCounts
<1>9. CASE ~Invalid(obs, atShutdown)
  <2>1. RuntimeFailed' = RuntimeFailed
    BY <1>3, <1>5, <1>9 DEF RuntimeFailed
  <2>2. errors' = errors
    BY <1>2, <1>9 DEF Finalize, Invalid
  <2> QED
    BY <1>6, <2>1, <2>2 DEF ErrorsInv
<1> QED
  BY <1>8, <1>9

(* Every step keeps the error of the run in line with its report.          *)
LEMMA ErrorsStep ==
  ASSUME TypeOK, HandlesInv, LaunchInv, MainInv, JobsInv, ErrorsInv, Next
  PROVE  ErrorsInv'
<1>1. ASSUME NEW j \in Jobs, Worker(j) PROVE ErrorsInv'
  BY <1>1, WorkerKeepsErrors
<1>2. CASE Collect
  BY <1>2, CollectKeepsErrors
<1>3. CASE Launch
  <2>1. PICK j \in Jobs : j = Plan[pos]
    BY <1>3, LaunchPosition
  <2>2. counts'[j] = [counts[j] EXCEPT !.used = 1] /\ counts[j] \in Tally
    BY <1>3, <2>1, RecordTypes DEF Launch, TypeOK
  <2>3. \A k \in Jobs : /\ counts'[k].startFailures = counts[k].startFailures
                        /\ counts'[k].runtimeFailures = counts[k].runtimeFailures
    BY <1>3, <2>1, <2>2 DEF Launch, TypeOK, Tally
  <2>4. StartFailed' = StartFailed /\ RuntimeFailed' = RuntimeFailed /\ errors' = errors
    BY <1>3, <2>3 DEF Launch, StartFailed, RuntimeFailed
  <2> QED
    BY <2>4 DEF ErrorsInv
<1>4. ASSUME \/ StopScheduling \/ ContextSeen \/ JoinAndClose \/ Return \/ ContextStep
             \/ Finished \/ \E j \in Jobs : SessionConnects(j) \/ SessionEnds(j)
      PROVE  ErrorsInv'
  <2>1. UNCHANGED <<counts, errors>>
    BY <1>4 DEF StopScheduling, ContextSeen, JoinAndClose, Return, ContextStep, ContextEnds,
       StopTick, StopperLeaves, Finished, SessionConnects, SessionEnds, vars, trackerVars
  <2> QED
    BY <2>1 DEF ErrorsInv, StartFailed, RuntimeFailed
<1> QED
  BY <1>1, <1>2, <1>3, <1>4 DEF Next, Main, ContextStep

(* Nothing changes what a verdict rests on once the run has returned.      *)
LEMMA VerdictStep ==
  ASSUME TypeOK, MainInv, VerdictInv, Next
  PROVE  VerdictInv'
<1> USE DEF VerdictInv
<1>1. CASE Return
  <2>1. verdict' = Verdict /\ main' = "returned" /\ UNCHANGED <<ctx, stopper, counts>>
    BY <1>1 DEF Return, runVars, trackerVars
  <2>2. Verdict = "completed" => ctx = "deadline" /\ stopper # "fired" /\ Evident
    BY DEF Verdict
  <2> QED
    BY <2>1, <2>2 DEF Evident
<1>2. ASSUME main = "returned", NEW j \in Jobs PROVE ~Worker(j)
  BY <1>2, WorkerMoves DEF MainInv, Trying
<1>3. CASE main = "returned"
  <2>1. UNCHANGED <<main, verdict, counts>> /\ (ctx = "deadline" => ctx' = ctx)
    BY <1>2, <1>3 DEF Next, Main, Launch, StopScheduling, ContextSeen, JoinAndClose, Collect,
       Return, ContextEnds, StopTick, StopperLeaves, Finished, SessionConnects, SessionEnds,
       vars, schedulerVars, runVars, trackerVars
  <2>2. stopper # "fired" => stopper' # "fired"
    BY <1>2, <1>3 DEF Next, Main, Launch, StopScheduling, ContextSeen, JoinAndClose, Collect,
       Return, ContextEnds, StopTick, StopperLeaves, Finished, SessionConnects, SessionEnds,
       vars, runVars
  <2> QED
    BY <1>3, <2>1, <2>2 DEF Evident
<1>4. CASE main # "returned" /\ ~Return
  <2>1. verdict = "none" /\ verdict' = verdict
    BY <1>4 DEF Next, Main, Launch, StopScheduling, ContextSeen, JoinAndClose, Collect, Finalize,
       Worker, RunFails, RunSucceeds, SelectConnected, SelectEnded, SelectContextDone, Drained,
       BackoffOver, BackoffCancelled, ContextEnds, StopTick, StopperLeaves, Finished,
       SessionConnects, SessionEnds, vars
  <2> QED
    BY <2>1
<1> QED
  BY <1>1, <1>3, <1>4


-----------------------------------------------------------------------------
(* The invariant and what follows from it *)

(* Every step of the run keeps the types.                                  *)
LEMMA TypeStep ==
  ASSUME SchedulerInv, Next
  PROVE  TypeOK'
<1>1. TypeOK /\ HandlesInv /\ MainInv /\ JobsInv
  BY DEF SchedulerInv
<1>2. ASSUME NEW j \in Jobs, Worker(j) PROVE TypeOK'
  BY <1>1, <1>2, WorkerKeepsTypes
<1>3. ASSUME NEW j \in Jobs, SessionConnects(j) \/ SessionEnds(j) PROVE TypeOK'
  BY <1>1, <1>3, SessionKeepsTypes
<1>4. CASE Main
  BY <1>1, <1>4, MainKeepsTypes
<1>5. CASE ContextStep
  BY <1>1, <1>5, ContextKeepsTypes
<1>6. CASE Finished
  BY <1>1, <1>6 DEF Finished, TypeOK, vars, schedulerVars, workerVars, runVars, trackerVars
<1> QED
  BY <1>2, <1>3, <1>4, <1>5, <1>6 DEF Next, ContextStep

(* The run starts with nothing launched, counted or decided.               *)
LEMMA SchedulerInit == Init => SchedulerInv
<1> SUFFICES ASSUME Init PROVE SchedulerInv
  OBVIOUS
<1>1. NoSession \in Session /\ NoCounts \in Tally
  BY DEF NoSession, NoCounts, Session, Tally, ErrorKinds
<1>2. Len(Plan) \in Nat /\ 0 \in 0..MaxRetries
  BY PlanAssumption, PolicyAssumption
<1>3. TypeOK
  <2>1. <<>> \in Seq(Jobs) /\ pos \in 1..Len(Plan) + 1
    BY <1>2 DEF Init
  <2> QED
    BY <1>1, <1>2, <2>1 DEF Init, TypeOK
<1>4. LaunchInv
  BY PlanAssumption DEF Init, LaunchInv, Jobs
<1>5. HandlesInv /\ MainInv
  BY DEF Init, HandlesInv, MainInv
<1>6. JobsInv
  <2> SUFFICES ASSUME NEW j \in Jobs
               PROVE  StageInv(Stage(j), attempt[j], sess[j], counts[j])
    BY DEF JobsInv
  <2>1. Stage(j) = "planned"
    BY DEF Init, Stage
  <2>2. attempt[j] = 0 /\ sess[j] = NoSession /\ counts[j] = NoCounts
    BY DEF Init
  <2> QED
    BY <2>1, <2>2 DEF StageInv, Undecided, NoSession, NoCounts
<1>7. ErrorsInv
  <2>1. \A j \in Jobs : counts[j].startFailures = 0 /\ counts[j].runtimeFailures = 0
    BY DEF Init, NoCounts
  <2>2. StartFailed = {} /\ RuntimeFailed = {}
    BY <2>1 DEF StartFailed, RuntimeFailed
  <2>3. errors.start = 0 /\ errors.runtime = 0
    BY DEF Init
  <2> QED
    BY <2>2, <2>3, FS_EmptySet DEF ErrorsInv
<1>8. VerdictInv
  BY DEF Init, VerdictInv
<1> QED
  BY <1>3, <1>4, <1>5, <1>6, <1>7, <1>8 DEF SchedulerInv

(* Every step of the run, and every stutter, keeps the invariant.          *)
LEMMA SchedulerStep == SchedulerInv /\ [Next]_vars => SchedulerInv'
<1> SUFFICES ASSUME SchedulerInv, [Next]_vars PROVE SchedulerInv'
  OBVIOUS
<1>1. CASE Next
  BY <1>1, TypeStep, LaunchStep, HandlesStep, MainStep, JobsStep, ErrorsStep, VerdictStep
     DEF SchedulerInv
<1>2. CASE UNCHANGED vars
  <2> USE <1>2 DEF vars, schedulerVars, workerVars, runVars, trackerVars
  <2>1. TypeOK'
    BY DEF SchedulerInv, TypeOK
  <2>2. LaunchInv' /\ HandlesInv' /\ MainInv'
    BY DEF SchedulerInv, LaunchInv, HandlesInv, MainInv
  <2>3. JobsInv'
    <3>1. \A j \in Jobs : Stage(j)' = Stage(j)
      BY DEF Stage, HandedOver, Collected
    <3> QED
      BY <3>1 DEF SchedulerInv, JobsInv
  <2>4. ErrorsInv' /\ VerdictInv'
    BY DEF SchedulerInv, ErrorsInv, StartFailed, RuntimeFailed, VerdictInv, Evident
  <2> QED
    BY <2>1, <2>2, <2>3, <2>4 DEF SchedulerInv
<1> QED
  BY <1>1, <1>2

(* In every state of every run the accounts of each job are those of the   *)
(* stage it has reached, whatever the plan, the policy and the errors.     *)
THEOREM SchedulerInductive == Spec => []SchedulerInv
  BY SchedulerInit, SchedulerStep, PTL DEF Spec

(* Once the run returned, a job was never launched, failed to start or was *)
(* collected; nothing is in between.                                       *)
LEMMA ReturnedStages ==
  ASSUME SchedulerInv, Returned, NEW j \in Jobs
  PROVE  /\ Stage(j) \in {"planned", "failed", "collected"}
         /\ Stage(j) = "planned" <=> worker[j] = "planned"
         /\ StageInv(Stage(j), attempt[j], sess[j], counts[j])
         /\ counts[j] \in Tally
<1>1. /\ worker[j] \in {"planned", "gone"} /\ pos = Len(handles) + 1
      /\ main = "returned"
  BY DEF SchedulerInv, MainInv, Returned
<1>2. DOMAIN handles = 1..Len(handles) /\ Len(handles) \in Nat
  BY HandlesLength DEF SchedulerInv
<1>3. HandedOver(j) => Collected(j)
  BY <1>1, <1>2 DEF HandedOver, Collected
<1>4. StageInv(Stage(j), attempt[j], sess[j], counts[j]) /\ counts[j] \in Tally
  BY RecordTypes DEF SchedulerInv, JobsInv
<1> QED
  BY <1>1, <1>3, <1>4 DEF Stage

(* Every record, counter and position keeps its type, the retry counter    *)
(* its bound included.                                                     *)
THEOREM SchedulerTypeCorrect == Spec => []TypeOK
<1>1. SchedulerInv => TypeOK
  BY DEF SchedulerInv
<1> QED
  BY <1>1, SchedulerInductive, PTL

(* The report of a run that returned passes the checks of validCounts.     *)
THEOREM ReportAddsUp == Spec => []ReportIsConsistent
<1>1. SchedulerInv => ReportIsConsistent
  <2> SUFFICES ASSUME SchedulerInv, Returned, NEW j \in Jobs
               PROVE  LET c == counts[j]
                      IN  /\ c.used = (IF worker[j] = "planned" THEN 0 ELSE 1)
                          /\ c.started + c.startFailures = c.used
                          /\ c.runtimeFailures <= c.started
                          /\ c.retrySuccesses <= c.retries /\ c.retryExhausted <= c.retries
    BY DEF ReportIsConsistent
  <2>1. CASE Stage(j) = "planned"
    BY <2>1, ReturnedStages DEF StageInv, Undecided, Tally
  <2>2. CASE Stage(j) = "failed"
    BY <2>2, ReturnedStages DEF StageInv, Tally
  <2>3. CASE Stage(j) = "collected"
    BY <2>3, ReturnedStages DEF StageInv, Tally
  <2> QED
    BY <2>1, <2>2, <2>3, ReturnedStages
<1> QED
  BY <1>1, SchedulerInductive, PTL

(* A retried job succeeds or is exhausted, never both, and agrees with     *)
(* what the run counts for it.                                             *)
THEOREM RetriesAreAccountedFor == Spec => []RetryOutcomesAgree
<1>1. SchedulerInv => RetryOutcomesAgree
  <2> SUFFICES ASSUME SchedulerInv, NEW j \in Jobs
               PROVE  LET c == counts[j]
                      IN  /\ c.retrySuccesses + c.retryExhausted <= 1
                          /\ c.retryExhausted = 1 => c.retries > 0 /\ c.startFailures = 1
                          /\ Returned /\ c.retrySuccesses = 1 => c.started = 1
    BY DEF RetryOutcomesAgree
  <2>1. /\ StageInv(Stage(j), attempt[j], sess[j], counts[j]) /\ counts[j] \in Tally
        /\ Stage(j) \in Trying \cup {"planned", "failed", "handed", "collected"}
    BY RecordTypes DEF SchedulerInv, JobsInv, Stage, Trying, TypeOK
  <2>2. CASE Stage(j) \in Trying \cup {"planned"}
    BY <2>1, <2>2 DEF StageInv, Undecided, Trying, Tally
  <2>3. CASE Stage(j) = "failed"
    BY <2>1, <2>3 DEF StageInv, Tally
  <2>4. CASE Stage(j) \in {"handed", "collected"}
    <3>1. Returned => Stage(j) = "collected"
      BY <2>4, ReturnedStages
    <3> QED
      BY <2>1, <2>4, <3>1 DEF StageInv, Tally
  <2> QED
    BY <2>1, <2>2, <2>3, <2>4
<1> QED
  BY <1>1, SchedulerInductive, PTL

(* The failures behind the error of RunWithRetries are those of the report.*)
THEOREM ErrorMatchesReport == Spec => []CountersAgree
<1>1. SchedulerInv => CountersAgree
  BY DEF SchedulerInv, ErrorsInv, CountersAgree, StartFailed, RuntimeFailed
<1> QED
  BY <1>1, SchedulerInductive, PTL

(* A completed run launched, connected and showed evidence for every job.  *)
THEOREM CompletedIsComplete == Spec => []CompletedRunIsComplete
<1>1. SchedulerInv => CompletedRunIsComplete
  <2> SUFFICES ASSUME SchedulerInv, verdict = "completed"
               PROVE  /\ ctx = "deadline" /\ stopper # "fired"
                      /\ \A j \in Jobs :
                            /\ sess[j].state = "ended" /\ sess[j].evidence
                            /\ sess[j].reason = "failed" => sess[j].err \in Transport
    BY DEF CompletedRunIsComplete
  <2>1. ctx = "deadline" /\ stopper # "fired" /\ Evident /\ Returned
    BY DEF SchedulerInv, VerdictInv, Returned
  <2>2. ASSUME NEW j \in Jobs
        PROVE  /\ sess[j].state = "ended" /\ sess[j].evidence
               /\ sess[j].reason = "failed" => sess[j].err \in Transport
    <3>1. counts[j].started = 1 /\ counts[j].runtimeFailures = 0
      BY <2>1 DEF Evident
    <3>2. Stage(j) = "collected"
      BY <2>1, <3>1, ReturnedStages DEF StageInv, Undecided
    <3> QED
      BY <2>1, <3>1, <3>2, ReturnedStages DEF StageInv
  <2> QED
    BY <2>1, <2>2
<1> QED
  BY <1>1, SchedulerInductive, PTL

(* A session that is still open when the run returned is a runtime failure.*)
THEOREM LeftoversFail == Spec => []LeftoverSessionIsAFailure
<1>1. SchedulerInv => LeftoverSessionIsAFailure
  <2> SUFFICES ASSUME SchedulerInv, Returned, NEW j \in Jobs, sess[j].state = "open"
               PROVE  counts[j].runtimeFailures = 1
    BY DEF LeftoverSessionIsAFailure
  <2>1. Stage(j) = "collected"
    BY ReturnedStages DEF StageInv
  <2> QED
    BY <2>1, ReturnedStages DEF StageInv
<1> QED
  BY <1>1, SchedulerInductive, PTL
=============================================================================
