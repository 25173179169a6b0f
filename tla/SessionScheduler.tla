--------------------------- MODULE SessionScheduler ---------------------------
(***************************************************************************)
(* One run on one agent: the scheduler that launches the planned jobs,     *)
(* retries those that time out while connecting and tears everything down  *)
(* (scheduler.RunWithRetries), the goroutine of every job and of every     *)
(* session (engine.Runner), the tracker behind the report, and the verdict *)
(* of app.RunConfigJobs with its automatic stop.                           *)
(***************************************************************************)
EXTENDS Integers, Sequences, FiniteSets

CONSTANTS
    Plan,           \* the jobs, in the order of their launch times
    SSHJobs,        \* those whose protocol is SSH
    MaxRetries,     \* the configured connect retries
    MinAttempts,    \* stop policy: attempts below which it never stops
    MaxFailurePercent, MaxDisconnectPercent,
    Errors          \* the kinds of error that sessions end with

Jobs == {Plan[i] : i \in DOMAIN Plan}

ASSUME PlanAssumption ==
    /\ Plan \in Seq(Jobs)
    /\ \A i, j \in DOMAIN Plan : Plan[i] = Plan[j] => i = j
    /\ SSHJobs \subseteq Jobs

ASSUME PolicyAssumption ==
    /\ MaxRetries \in Nat /\ MinAttempts \in Nat
    /\ MaxFailurePercent \in Nat /\ MaxDisconnectPercent \in Nat

(* Errors by what the code looks for in their text.                        *)
Transport == {"transport", "transportTimeout"}
Timeout == {"timeout", "transportTimeout"}
ErrorKinds == {"none", "cancel", "other"} \cup Transport \cup Timeout

ASSUME ErrorsAssumption == Errors \subseteq ErrorKinds

VARIABLES
    main,       \* where RunWithRetries is
    pos,        \* next job of the plan, then next handle to collect
    worker,     \* worker[j]: where the goroutine of job j is
    attempt,    \* attempt[j]: its retry counter
    sess,       \* sess[j]: its latest session
    handles,    \* the jobs whose session was handed over, in order
    ctx,        \* the run context: live, or why it is done
    stopper,    \* the automatic stop: watching, fired or gone
    metrics,    \* attempts, failures and disconnects
    errors,     \* the failures RunWithRetries counts itself
    counts,     \* counts[j]: what the tracker counted for job j
    verdict     \* the status of the report, once RunConfigJobs returned

schedulerVars == <<main, pos, handles>>
workerVars == <<worker, attempt>>
trackerVars == <<errors, counts>>
runVars == <<ctx, stopper>>
vars == <<schedulerVars, workerVars, sess, runVars, metrics, trackerVars, verdict>>

-----------------------------------------------------------------------------
(* Sessions and observations *)

(* "evidence": connect latency, activity and traffic were all recorded;    *)
(* "retryable": its error reads like a timeout while connecting.           *)
Session == [state: {"none", "open", "ended"}, connected: BOOLEAN,
            reason: {"none", "completed", "cancelled", "failed"},
            err: ErrorKinds, evidence: BOOLEAN, retryable: BOOLEAN]

NoSession == [state |-> "none", connected |-> FALSE, reason |-> "none",
              err |-> "none", evidence |-> FALSE, retryable |-> FALSE]

Tally == [used: Nat, started: Nat, startFailures: Nat, runtimeFailures: Nat,
          retries: Nat, retrySuccesses: Nat, retryExhausted: Nat]

NoCounts == [used |-> 0, started |-> 0, startFailures |-> 0, runtimeFailures |-> 0,
             retries |-> 0, retrySuccesses |-> 0, retryExhausted |-> 0]

Done == ctx # "live"

(* Any text with a timeout is enough for SSH; for the graphical protocols  *)
(* the engine renames the timeout of a session that is not connected,      *)
(* unless the context is done.                                             *)
ConnectTimeout(j, err) ==
    err \in Timeout /\ (j \in SSHJobs \/ (~sess[j].connected /\ ~Done))

(* retryableConnectTimeout.                                                *)
Retryable(j) == sess[j].reason = "failed" /\ sess[j].retryable

TypeOK ==
    /\ main \in {"scheduling", "waiting", "joining", "collecting", "returned"}
    /\ pos \in 1..Len(Plan) + 1
    /\ worker \in [Jobs -> {"planned", "calling", "selecting", "draining", "backoff", "gone"}]
    /\ attempt \in [Jobs -> 0..MaxRetries]
    /\ sess \in [Jobs -> Session]
    /\ handles \in Seq(Jobs)
    /\ ctx \in {"live", "deadline", "cancelled"}
    /\ stopper \in {"watching", "fired", "gone"}
    /\ metrics \in [attempts: Nat, failures: Nat, disconnects: Nat]
    /\ errors \in [start: Nat, runtime: Nat]
    /\ counts \in [Jobs -> Tally]
    /\ verdict \in {"none", "completed", "failed", "cancelled"}

Init ==
    /\ main = "scheduling" /\ pos = 1
    /\ worker = [j \in Jobs |-> "planned"]
    /\ attempt = [j \in Jobs |-> 0]
    /\ sess = [j \in Jobs |-> NoSession]
    /\ handles = <<>>
    /\ ctx = "live" /\ stopper = "watching"
    /\ metrics = [attempts |-> 0, failures |-> 0, disconnects |-> 0]
    /\ errors = [start |-> 0, runtime |-> 0]
    /\ counts = [j \in Jobs |-> NoCounts]
    /\ verdict = "none"

-----------------------------------------------------------------------------
(* The goroutine of a job *)

(* runner.Run returns an error: the review of the asset failed, which the  *)
(* stop policy counts, or creating the session did, which it does not.     *)
RunFails(j) ==
    /\ worker[j] = "calling"
    /\ worker' = [worker EXCEPT ![j] = "gone"]
    /\ \E review \in {0, 1} : metrics' = [metrics EXCEPT !.failures = @ + review]
    /\ counts' = [counts EXCEPT ![j].startFailures = @ + 1]
    /\ errors' = [errors EXCEPT !.start = @ + 1]
    /\ UNCHANGED <<schedulerVars, attempt, sess, runVars, verdict>>

(* It returns a session; under a context that is done it cannot.           *)
RunSucceeds(j) ==
    /\ worker[j] = "calling" /\ ~Done
    /\ worker' = [worker EXCEPT ![j] = "selecting"]
    /\ sess' = [sess EXCEPT ![j] = [NoSession EXCEPT !.state = "open"]]
    /\ UNCHANGED <<schedulerVars, attempt, runVars, metrics, trackerVars, verdict>>

SelectConnected(j) ==
    /\ worker[j] = "selecting" /\ sess[j].connected
    /\ worker' = [worker EXCEPT ![j] = "gone"]
    /\ handles' = Append(handles, j)
    /\ counts' = IF attempt[j] > 0 THEN [counts EXCEPT ![j].retrySuccesses = @ + 1]
                                   ELSE counts
    /\ UNCHANGED <<main, pos, attempt, sess, runVars, metrics, errors, verdict>>

(* Finalize of a session that was not connected, with recordStartFailure.  *)
StartFailure(j, c) ==
    /\ counts' = [counts EXCEPT ![j] = [c EXCEPT !.startFailures = @ + 1]]
    /\ errors' = [errors EXCEPT !.start = @ + 1]
    /\ worker' = [worker EXCEPT ![j] = "gone"]

(* Mutation: one retry more than configured.                               *)
MayRetryOnceMore(j) == attempt[j] <= MaxRetries /\ Retryable(j)

MayRetry(j) == attempt[j] < MaxRetries /\ Retryable(j)

(* Mutation: a first attempt that fails for good counts as exhausted.      *)
ExhaustedAlways(j) == [counts[j] EXCEPT !.retryExhausted = @ + 1]

Exhausted(j) ==
    IF attempt[j] > 0 THEN [counts[j] EXCEPT !.retryExhausted = @ + 1] ELSE counts[j]

SelectEnded(j) ==
    /\ worker[j] = "selecting" /\ sess[j].state = "ended"
    /\ IF MayRetry(j)
          THEN /\ counts' = [counts EXCEPT ![j].retries = @ + 1]
               /\ worker' = [worker EXCEPT ![j] = "backoff"]
               /\ UNCHANGED errors
          ELSE StartFailure(j, Exhausted(j))
    /\ UNCHANGED <<schedulerVars, attempt, sess, runVars, metrics, verdict>>

SelectContextDone(j) ==
    /\ worker[j] = "selecting" /\ Done
    /\ worker' = [worker EXCEPT ![j] = "draining"]
    /\ UNCHANGED <<schedulerVars, attempt, sess, runVars, metrics, trackerVars, verdict>>

(* Mutation: the handle is finalized, the failure is not recorded.         *)
DrainedSilently(j) ==
    /\ worker[j] = "draining" /\ sess[j].state = "ended"
    /\ counts' = [counts EXCEPT ![j].startFailures = @ + 1]
    /\ worker' = [worker EXCEPT ![j] = "gone"]
    /\ UNCHANGED <<schedulerVars, attempt, sess, runVars, metrics, errors, verdict>>

(* After the close, the goroutine waits for the session without a bound.   *)
Drained(j) ==
    /\ worker[j] = "draining" /\ sess[j].state = "ended"
    /\ StartFailure(j, counts[j])
    /\ UNCHANGED <<schedulerVars, attempt, sess, runVars, metrics, verdict>>

(* The backoff ends (at most three retries may be configured, so it is     *)
(* never empty); the next attempt may start although the context is done,  *)
(* if both were ready.                                                     *)
BackoffOver(j) ==
    /\ worker[j] = "backoff"
    /\ worker' = [worker EXCEPT ![j] = "calling"]
    /\ attempt' = [attempt EXCEPT ![j] = @ + 1]
    /\ sess' = [sess EXCEPT ![j] = NoSession]
    /\ metrics' = [metrics EXCEPT !.attempts = @ + 1]
    /\ UNCHANGED <<schedulerVars, runVars, trackerVars, verdict>>

(* Mutation: the session given up on is never finalized.                   *)
BackoffAbandoned(j) ==
    /\ worker[j] = "backoff" /\ Done
    /\ errors' = [errors EXCEPT !.start = @ + 1]
    /\ worker' = [worker EXCEPT ![j] = "gone"]
    /\ UNCHANGED <<schedulerVars, attempt, sess, runVars, metrics, counts, verdict>>

BackoffCancelled(j) ==
    /\ worker[j] = "backoff" /\ Done
    /\ StartFailure(j, counts[j])
    /\ UNCHANGED <<schedulerVars, attempt, sess, runVars, metrics, verdict>>

Worker(j) ==
    \/ RunFails(j) \/ RunSucceeds(j)
    \/ SelectConnected(j) \/ SelectEnded(j) \/ SelectContextDone(j)
    \/ Drained(j) \/ BackoffOver(j) \/ BackoffCancelled(j)

-----------------------------------------------------------------------------
(* The goroutine of a session *)

SessionConnects(j) ==
    /\ sess[j].state = "open" /\ ~sess[j].connected
    /\ sess' = [sess EXCEPT ![j].connected = TRUE]
    /\ UNCHANGED <<schedulerVars, workerVars, runVars, metrics, trackerVars, verdict>>

(* How a session may end: by itself, or with an error.  An error under a   *)
(* context that is done is a cancellation if it says so or is a transport  *)
(* error, and a failure otherwise; any error before is a failure.          *)
Reason(err) ==
    IF err = "none" THEN "completed"
    ELSE IF Done /\ err \in Transport \cup {"cancel"} THEN "cancelled"
    ELSE "failed"

SessionEnds(j) ==
    /\ sess[j].state = "open"
    /\ \E err \in Errors, evidence \in BOOLEAN :
          /\ err = "cancel" => Done
          /\ evidence => sess[j].connected
          /\ sess' = [sess EXCEPT ![j].state = "ended", ![j].reason = Reason(err),
                         ![j].err = err, ![j].evidence = evidence,
                         ![j].retryable = ConnectTimeout(j, err)]
          /\ metrics' = IF Reason(err) = "failed"
                           THEN [metrics EXCEPT !.disconnects = @ + 1] ELSE metrics
    /\ UNCHANGED <<schedulerVars, workerVars, runVars, trackerVars, verdict>>

-----------------------------------------------------------------------------
(* The main goroutine *)

(* The goroutine of a job starts by counting the attempt and the asset.    *)
Launch ==
    /\ main = "scheduling" /\ pos <= Len(Plan)
    /\ worker' = [worker EXCEPT ![Plan[pos]] = "calling"]
    /\ metrics' = [metrics EXCEPT !.attempts = @ + 1]
    /\ counts' = [counts EXCEPT ![Plan[pos]].used = 1]
    /\ pos' = pos + 1
    /\ UNCHANGED <<main, handles, attempt, sess, runVars, errors, verdict>>

(* The schedule is cut short, or complete and over.                        *)
StopScheduling ==
    /\ main = "scheduling"
    /\ \/ pos <= Len(Plan) /\ Done /\ main' = "joining"
       \/ pos > Len(Plan) /\ main' = "waiting"
    /\ UNCHANGED <<pos, handles, workerVars, sess, runVars, metrics, trackerVars, verdict>>

ContextSeen ==
    /\ main = "waiting" /\ Done
    /\ main' = "joining"
    /\ UNCHANGED <<pos, handles, workerVars, sess, runVars, metrics, trackerVars, verdict>>

(* Every launched goroutine returned; every session handed over is closed, *)
(* which adds nothing to the run context that is done by now.              *)
JoinAndClose ==
    /\ main = "joining"
    /\ \A j \in Jobs : worker[j] \in {"planned", "gone"}
    /\ main' = "collecting" /\ pos' = 1
    /\ UNCHANGED <<handles, workerVars, sess, runVars, metrics, trackerVars, verdict>>

(* The observation of a session that did not end within five seconds.      *)
TimedOut == [NoSession EXCEPT !.reason = "cancelled", !.err = "timeout"]

Reclassified(obs) ==
    IF obs.reason = "failed" /\ obs.err \in Transport
       THEN [obs EXCEPT !.reason = "cancelled", !.err = "cancel"] ELSE obs

(* Mutation: what was observed is taken on trust.                          *)
InvalidByReason(obs, atShutdown) ==
    obs.reason = "failed" \/ (obs.reason = "completed" /\ ~atShutdown)

(* Finalize of a connected session: a session that completed is valid only *)
(* if its last activity came shortly before it was closed.                 *)
Invalid(obs, atShutdown) ==
    \/ obs.reason = "failed"
    \/ obs.reason = "completed" /\ ~atShutdown
    \/ ~obs.evidence

Finalize(j, obs) ==
    /\ \E atShutdown \in BOOLEAN :
          counts' = [counts EXCEPT
             ![j].started = @ + 1,
             ![j].runtimeFailures = @ + IF Invalid(obs, atShutdown) THEN 1 ELSE 0]
    /\ errors' = IF obs.reason = "failed" THEN [errors EXCEPT !.runtime = @ + 1] ELSE errors

(* Mutation: no bound on the wait for an observation.                      *)
CollectPatiently ==
    /\ main = "collecting" /\ pos <= Len(handles)
    /\ sess[handles[pos]].state = "ended"
    /\ Finalize(handles[pos], Reclassified(sess[handles[pos]]))
    /\ pos' = pos + 1
    /\ UNCHANGED <<main, handles, workerVars, sess, runVars, metrics, verdict>>

Collect ==
    /\ main = "collecting" /\ pos <= Len(handles)
    /\ LET j == handles[pos]
       IN  Finalize(j, IF sess[j].state = "ended" THEN Reclassified(sess[j]) ELSE TimedOut)
    /\ pos' = pos + 1
    /\ UNCHANGED <<main, handles, workerVars, sess, runVars, metrics, verdict>>

(* terminalEvidenceError finds nothing to object to.                       *)
Evident ==
    \A j \in Jobs : /\ counts[j].used = 1 /\ counts[j].started = 1
                    /\ counts[j].startFailures = 0 /\ counts[j].runtimeFailures = 0

(* Mutation: a run without an error is a completed run.                    *)
VerdictWithoutEvidence ==
    IF stopper = "fired" \/ errors.start + errors.runtime > 0 THEN "failed"
    ELSE IF ctx = "deadline" THEN "completed"
    ELSE "cancelled"

(* What RunConfigJobs makes of the stop reason and the scheduler's error.  *)
Verdict ==
    IF stopper = "fired" \/ errors.start + errors.runtime > 0 THEN "failed"
    ELSE IF ctx = "deadline" THEN (IF Evident THEN "completed" ELSE "failed")
    ELSE "cancelled"

Return ==
    /\ main = "collecting" /\ pos > Len(handles)
    /\ main' = "returned"
    /\ verdict' = Verdict
    /\ UNCHANGED <<pos, handles, workerVars, sess, runVars, metrics, trackerVars>>

Main == Launch \/ StopScheduling \/ ContextSeen \/ JoinAndClose \/ Collect \/ Return

-----------------------------------------------------------------------------
(* The run context and the automatic stop *)

ContextEnds ==
    /\ ctx = "live"
    /\ ctx' \in {"deadline", "cancelled"}
    /\ UNCHANGED <<schedulerVars, workerVars, sess, stopper, metrics, trackerVars, verdict>>

(* StopPolicy.Evaluate.                                                    *)
ShouldStop ==
    /\ metrics.attempts >= MinAttempts /\ metrics.attempts > 0
    /\ \/ metrics.failures * 100 > MaxFailurePercent * metrics.attempts
       \/ metrics.disconnects * 100 > MaxDisconnectPercent * metrics.attempts

(* A tick of the watching goroutine; it may still see one after the end.   *)
StopTick ==
    /\ stopper = "watching" /\ main # "returned" /\ ShouldStop
    /\ stopper' = "fired"
    /\ ctx' = IF Done THEN ctx ELSE "cancelled"
    /\ UNCHANGED <<schedulerVars, workerVars, sess, metrics, trackerVars, verdict>>

StopperLeaves ==
    /\ stopper = "watching" /\ Done
    /\ stopper' = "gone"
    /\ UNCHANGED <<schedulerVars, workerVars, sess, ctx, metrics, trackerVars, verdict>>

Finished == main = "returned" /\ UNCHANGED vars

Next ==
    \/ Main
    \/ \E j \in Jobs : Worker(j) \/ SessionConnects(j) \/ SessionEnds(j)
    \/ ContextEnds \/ StopTick \/ StopperLeaves
    \/ Finished

(* Goroutines that can run do, the deadline of the run expires, and a      *)
(* session that a goroutine closed and waits for ends; no other session    *)
(* is assumed to end.                                                      *)
Fairness ==
    /\ WF_vars(Main)
    /\ WF_vars(ContextEnds)
    /\ \A j \in Jobs :
          WF_vars(Worker(j)) /\ WF_vars(worker[j] = "draining" /\ SessionEnds(j))

Spec == Init /\ [][Next]_vars

FairSpec == Spec /\ Fairness

-----------------------------------------------------------------------------
(* Properties *)

Returned == main = "returned"

(* validCounts, job by job: the report of a run satisfies what the         *)
(* controller checks before it aggregates it, however the run went.        *)
ReportIsConsistent ==
    Returned => \A j \in Jobs :
        LET c == counts[j]
        IN  /\ c.used = (IF worker[j] = "planned" THEN 0 ELSE 1)
            /\ c.started + c.startFailures = c.used
            /\ c.runtimeFailures <= c.started
            /\ c.retrySuccesses <= c.retries /\ c.retryExhausted <= c.retries

(* A job that was retried is accounted for at most one way, and the same   *)
(* way in the counters of retries and in those of the run.                 *)
RetryOutcomesAgree ==
    \A j \in Jobs :
        LET c == counts[j]
        IN  /\ c.retrySuccesses + c.retryExhausted <= 1
            /\ c.retryExhausted = 1 => c.retries > 0 /\ c.startFailures = 1
            /\ Returned /\ c.retrySuccesses = 1 => c.started = 1

(* The failures that make RunWithRetries return an error and those in the  *)
(* report are counted in different places and agree: none is lost.         *)
CountersAgree ==
    Returned =>
        /\ errors.start = Cardinality({j \in Jobs : counts[j].startFailures > 0})
        /\ errors.runtime <= Cardinality({j \in Jobs : counts[j].runtimeFailures > 0})

(* A completed report means that every planned job was launched and its    *)
(* session connected and showed evidence, that none failed for a reason    *)
(* other than its transport, and that nothing but the deadline ended it.   *)
CompletedRunIsComplete ==
    verdict = "completed" =>
        /\ ctx = "deadline" /\ stopper # "fired"
        /\ \A j \in Jobs :
              /\ sess[j].state = "ended" /\ sess[j].evidence
              /\ sess[j].reason = "failed" => sess[j].err \in Transport

(* A session that outlives the run was handed over and is reported as a    *)
(* runtime failure: it is never counted as maintained.                     *)
LeftoverSessionIsAFailure ==
    Returned => \A j \in Jobs :
        sess[j].state = "open" => counts[j].runtimeFailures = 1

(* The run always ends, also when sessions ignore that they are closed.    *)
RunReturns == <>Returned

HandedOver(j) == \E i \in DOMAIN handles : handles[i] = j

(* The comment on the reclassification of transport failures says it is    *)
(* for those that surfaced after the teardown began.                       *)
FailureDuringRampIsNotMaintained ==
    \A j \in Jobs :
        [](main = "scheduling" /\ ~Done /\ HandedOver(j) /\ sess[j].reason = "failed"
             => [](Returned => counts[j].runtimeFailures = 1))
=============================================================================
