------------------------------ MODULE Controller ------------------------------
(***************************************************************************)
(* The distributed controller (app.RunController) driving the registries   *)
(* of its agents: it starts the agents one after the other, polls them     *)
(* until every one has reported, and cancels all of them as soon as        *)
(* anything goes wrong.  Every call is a request the agent serves later    *)
(* and an answer the controller takes later still; either may be lost, and *)
(* a request the controller gave up on may still be served.                *)
(***************************************************************************)
EXTENDS AgentRegistry

CONSTANTS
    AgentSeq,       \* the agents, in the order of PAM_AGENTS
    Assignment,     \* Assignment[a]: the jobs Partition gave to agent a
    RunID,          \* the run identifier of this controller
    StartDelay,     \* whether PAM_AGENT_START_DELAY is positive
    ForeignRequests,\* requests of other controllers
    MaxFaults       \* bound on lost calls, agent stops, restarts, foreign runs

(* What the controller asks of agent a; its own request always validates   *)
(* as far as the policy is concerned.                                      *)
Request(a) == [runID |-> RunID, policyOK |-> TRUE, jobs |-> Assignment[a]]

ASSUME ControllerAssumption ==
    /\ AgentSeq \in Seq(Agents)
    /\ \A a \in Agents : \E i \in DOMAIN AgentSeq : AgentSeq[i] = a
    /\ \A i, j \in DOMAIN AgentSeq : AgentSeq[i] = AgentSeq[j] => i = j
    /\ \E a \in Agents : Assignment[a] # <<>>
    /\ RunID \in RunIDs
    /\ \A req \in ForeignRequests : req.runID \in RunIDs \ {RunID}
    /\ {Request(a) : a \in Agents} \cup ForeignRequests \subseteq Requests
    /\ MaxFaults \in Nat

VARIABLES
    pc,             \* where RunController is
    next,           \* position in AgentSeq (starting) or in started (polling)
    cursor,         \* position in started of the loop that cancels
    call,           \* the call in progress
    started,        \* the agents that acknowledged the run, in order
    reports,        \* the terminal reports collected
    terminalStatus, \* "" until something went wrong
    primaryErr,     \* whether a first error was kept
    cleanup,        \* cleanupStarted
    done,           \* the contexts that are done
    result,         \* what RunController returned
    late,           \* requests given up on that may still be served
    faults          \* faults of the environment so far

controllerVars == <<pc, next, cursor, call, started, reports, terminalStatus,
                    primaryErr, cleanup, done, result>>
networkVars == <<late, faults>>
vars == <<registryVars, controllerVars, networkVars>>

-----------------------------------------------------------------------------
(* An answer; "ok" is FALSE when the handler returned an error.            *)
Answer(ok, accepted, status, report) ==
    [ok |-> ok, accepted |-> accepted, status |-> status, report |-> report]

Error == Answer(FALSE, 0, "none", "none")

NoCall == [op |-> "none", agent |-> "none", stage |-> "none", reply |-> Error]

StartedSet == {started[i] : i \in DOMAIN started}

AllReported == \A a \in StartedSet : reports[a] # "missing"

(* The context the call in progress, or the next one, is made under.       *)
CallContextDone ==
    CASE pc = "starting" -> "operator" \in done
      [] pc = "aborting" -> "abort" \in done
      [] cleanup         -> "grace" \in done
      [] OTHER           -> done \cap {"operator", "deadline"} # {}

ControllerInit ==
    /\ RegistryInit
    /\ pc = "starting" /\ next = 1 /\ cursor = 1
    /\ call = NoCall
    /\ started = <<>>
    /\ reports = [a \in Agents |-> "missing"]
    /\ terminalStatus = "" /\ primaryErr = FALSE /\ cleanup = FALSE
    /\ done = {} /\ result = "none"
    /\ late = {} /\ faults = 0

-----------------------------------------------------------------------------
(* Calls.  A call whose context is already done fails without being sent.  *)

Send(op, a) ==
    call' = [op |-> op, agent |-> a, reply |-> Error,
             stage |-> IF CallContextDone THEN "failed" ELSE "sent"]

Replied(reply) == call' = [call EXCEPT !.stage = "replied", !.reply = reply]

Served(op, a) == call.stage = "sent" /\ call.op = op /\ call.agent = a

ServeStart(a) ==
    /\ Served("start", a)
    /\ IF Accepts(a, Request(a))
          THEN Start(a, Request(a)) /\ Replied(Answer(TRUE, Len(Assignment[a]), "running", "none"))
          ELSE UNCHANGED registryVars /\ Replied(Error)

ServeStatus(a) ==
    /\ Served("status", a)
    /\ Replied(IF Known(a, RunID)
                  THEN Answer(TRUE, 0, StatusReply(a, RunID).status,
                              StatusReply(a, RunID).report)
                  ELSE Error)
    /\ UNCHANGED registryVars

ServeCancel(a) ==
    /\ Served("cancel", a)
    /\ IF Known(a, RunID)
          THEN Cancel(a, RunID) /\ Replied(Answer(TRUE, 0, "none", "none"))
          ELSE UNCHANGED registryVars /\ Replied(Error)

Serve(a) ==
    /\ ServeStart(a) \/ ServeStatus(a) \/ ServeCancel(a)
    /\ UNCHANGED <<pc, next, cursor, started, reports, terminalStatus, primaryErr,
                   cleanup, done, result, networkVars>>

(* The call returns an error although it was sent: its context ended, the  *)
(* agent is stopping or, as a fault, the transport gave up.  The request   *)
(* or the answer is lost, or the request is still on its way.              *)
CallFails ==
    /\ call.stage \in {"sent", "replied"}
    /\ IF CallContextDone \/ stopping[call.agent]
          THEN faults' = faults
          ELSE faults < MaxFaults /\ faults' = faults + 1
    /\ call' = [call EXCEPT !.stage = "failed", !.reply = Error]
    /\ \/ late' = late
       \/ /\ call.stage = "sent" /\ call.op # "status"
          /\ late' = late \cup {<<call.op, call.agent>>}
    /\ UNCHANGED <<registryVars, pc, next, cursor, started, reports, terminalStatus,
                   primaryErr, cleanup, done, result>>

Answered(op) == call.op = op /\ call.stage \in {"replied", "failed"}

CallFailed == ~call.reply.ok

-----------------------------------------------------------------------------
(* Starting the agents *)

Returns(r) == pc' = "returned" /\ result' = r

(* The loop over the agents goes on; the delay precedes every start but    *)
(* the first.                                                              *)
NextAgent(acknowledged) ==
    /\ next' = IF next = Len(AgentSeq) THEN 1 ELSE next + 1
    /\ pc' = IF next = Len(AgentSeq) THEN "polling"
             ELSE IF StartDelay /\ acknowledged # <<>> THEN "delaying"
             ELSE "starting"
    /\ UNCHANGED <<cursor, result>>

(* cancelStartedBeforeReturn: under a context of its own, results ignored. *)
Abort(acknowledged) ==
    /\ cursor' = 1
    /\ IF acknowledged = <<>> THEN Returns("aborted")
                              ELSE pc' = "aborting" /\ UNCHANGED result
    /\ UNCHANGED next

SkipAgent ==
    /\ pc = "starting" /\ Assignment[AgentSeq[next]] = <<>>
    /\ NextAgent(started)
    /\ UNCHANGED <<call, started>>

SendStart ==
    /\ pc = "starting" /\ call = NoCall
    /\ Assignment[AgentSeq[next]] # <<>>
    /\ Send("start", AgentSeq[next])
    /\ UNCHANGED <<pc, next, cursor, started, result>>

StartReturns ==
    /\ pc = "starting" /\ Answered("start")
    /\ call' = NoCall
    /\ IF CallFailed
          THEN Abort(started) /\ UNCHANGED started
          ELSE /\ started' = Append(started, call.agent)
               /\ IF call.reply.accepted # Len(Assignment[call.agent])
                     THEN Abort(started')
                     ELSE NextAgent(started')

DelayEnds ==
    /\ pc = "delaying"
    /\ \/ pc' = "starting" /\ UNCHANGED <<next, cursor, result>>
       \/ "operator" \in done /\ Abort(started)
    /\ UNCHANGED <<call, started>>

SendAbortCancel ==
    /\ pc = "aborting" /\ call = NoCall
    /\ Send("cancel", started[cursor])
    /\ UNCHANGED <<pc, next, cursor, started, result>>

AbortCancelReturns ==
    /\ pc = "aborting" /\ Answered("cancel")
    /\ call' = NoCall
    /\ cursor' = cursor + 1
    /\ IF cursor = Len(started) THEN Returns("aborted") ELSE UNCHANGED <<pc, result>>
    /\ UNCHANGED <<next, started>>

Starting ==
    /\ \/ SkipAgent \/ SendStart \/ StartReturns \/ DelayEnds
       \/ SendAbortCancel \/ AbortCancelReturns
    /\ UNCHANGED <<registryVars, networkVars, reports, terminalStatus, primaryErr,
                   cleanup, done>>

-----------------------------------------------------------------------------
(* Polling and cleanup *)

(* Mutation: the first status wins, whatever it is.                        *)
WithFirstStatus(status) == IF terminalStatus = "" THEN status ELSE terminalStatus

(* setTerminalStatus.                                                      *)
WithStatus(status) ==
    IF status = "failed" \/ terminalStatus = "" THEN status ELSE terminalStatus

(* beginCleanup: the first call replaces the poll context by one of its    *)
(* own and cancels every started agent, then the pass over the agents goes *)
(* on where it was.                                                        *)
BeginCleanup(status, cause) ==
    /\ terminalStatus' = WithStatus(status)
    /\ primaryErr' = (primaryErr \/ cause)
    /\ cleanup' = TRUE
    /\ pc' = IF cleanup THEN "polling" ELSE "cancelling"
    /\ cursor' = 1

NoCleanup == UNCHANGED <<terminalStatus, primaryErr, cleanup, pc, cursor>>

PassOver == next > Len(started)

SkipReported ==
    /\ pc = "polling" /\ ~PassOver /\ call = NoCall
    /\ reports[started[next]] # "missing"
    /\ next' = next + 1
    /\ NoCleanup /\ UNCHANGED <<call, reports, result>>

SendStatus ==
    /\ pc = "polling" /\ ~PassOver /\ call = NoCall
    /\ reports[started[next]] = "missing"
    /\ Send("status", started[next])
    /\ NoCleanup /\ UNCHANGED <<next, reports, result>>

(* Mutation: an agent that cannot be reached is taken for one that failed. *)
UnusableReplyGuessing ==
    /\ BeginCleanup("failed", TRUE)
    /\ reports' = [reports EXCEPT ![call.agent] = "failed"]

(* The call failed, or a terminal status came without its report.          *)
UnusableReply == BeginCleanup("failed", TRUE) /\ UNCHANGED reports

(* Mutation: a cancelled agent does not stop the run.                      *)
RecordReportTolerant ==
    /\ reports' = [reports EXCEPT ![call.agent] = call.reply.report]
    /\ IF call.reply.status # "failed"
          THEN NoCleanup ELSE BeginCleanup(call.reply.status, FALSE)

RecordReport ==
    /\ reports' = [reports EXCEPT ![call.agent] = call.reply.report]
    /\ IF call.reply.status = "completed"
          THEN NoCleanup ELSE BeginCleanup(call.reply.status, FALSE)

StatusReturns ==
    /\ pc = "polling" /\ Answered("status")
    /\ call' = NoCall
    /\ next' = next + 1
    /\ UNCHANGED result
    /\ IF CallFailed THEN UnusableReply
       ELSE IF call.reply.status = "running" THEN NoCleanup /\ UNCHANGED reports
       ELSE IF call.reply.report = "none" THEN UnusableReply
       ELSE RecordReport

SendCancel ==
    /\ pc = "cancelling" /\ call = NoCall
    /\ Send("cancel", started[cursor])
    /\ UNCHANGED <<pc, next, cursor, reports, terminalStatus, primaryErr, cleanup, result>>

CancelReturns ==
    /\ pc = "cancelling" /\ Answered("cancel")
    /\ call' = NoCall
    /\ primaryErr' = (primaryErr \/ CallFailed)
    /\ cursor' = cursor + 1
    /\ pc' = IF cursor = Len(started) THEN "polling" ELSE "cancelling"
    /\ UNCHANGED <<next, reports, terminalStatus, cleanup, result>>

(* Every report is in.  The aggregation refuses reports whose counts do    *)
(* not add up to the assignment, which this model leaves open.             *)
Aggregate ==
    /\ pc = "polling" /\ AllReported
    /\ call = NoCall /\ PassOver
    /\ \/ Returns("aggregateError")
       \/ Returns(IF terminalStatus # "" \/ primaryErr THEN terminalStatus ELSE "completed")
    /\ UNCHANGED <<next, call, reports, terminalStatus, primaryErr, cleanup, cursor>>

EndPass ==
    /\ pc = "polling" /\ PassOver /\ ~AllReported
    /\ pc' = "waiting"
    /\ UNCHANGED <<next, call, reports, terminalStatus, primaryErr, cleanup, cursor, result>>

Tick ==
    /\ pc = "waiting" /\ ~CallContextDone
    /\ pc' = "polling" /\ next' = 1
    /\ UNCHANGED <<call, reports, terminalStatus, primaryErr, cleanup, cursor, result>>

(* Mutation: a cleanup whose time is over polls on.                        *)
PollContextEndsForgiving ==
    /\ pc = "waiting" /\ CallContextDone
    /\ next' = 1
    /\ BeginCleanup(IF "operator" \in done THEN "cancelled" ELSE "failed", TRUE)
    /\ UNCHANGED <<call, reports, result>>

PollContextEnds ==
    /\ pc = "waiting" /\ CallContextDone
    /\ IF cleanup
          THEN /\ Returns("cleanupFailed")
               /\ UNCHANGED <<next, terminalStatus, primaryErr, cleanup, cursor>>
          ELSE /\ next' = 1
               /\ BeginCleanup(IF "operator" \in done THEN "cancelled" ELSE "failed", TRUE)
               /\ UNCHANGED result
    /\ UNCHANGED <<call, reports>>

Polling ==
    /\ \/ SkipReported \/ SendStatus \/ StatusReturns \/ SendCancel \/ CancelReturns
       \/ Aggregate \/ EndPass \/ Tick \/ PollContextEnds
    /\ UNCHANGED <<registryVars, networkVars, started, done>>

-----------------------------------------------------------------------------
(* The environment *)

OperatorCancels ==
    /\ pc # "returned" /\ "operator" \notin done
    /\ done' = done \cup {"operator"}

(* ramp + hold + grace for the run, grace for the cleanup, 5 s to abort.   *)
TimerExpires ==
    \/ /\ pc \in {"polling", "waiting"} /\ ~cleanup /\ "deadline" \notin done
       /\ done' = done \cup {"deadline"}
    \/ /\ pc # "returned" /\ cleanup /\ "grace" \notin done
       /\ done' = done \cup {"grace"}
    \/ /\ pc = "aborting" /\ "abort" \notin done
       /\ done' = done \cup {"abort"}

ContextEnds ==
    /\ OperatorCancels \/ TimerExpires
    /\ UNCHANGED <<registryVars, networkVars, pc, next, cursor, call, started, reports,
                   terminalStatus, primaryErr, cleanup, result>>

(* A request the controller gave up on reaches its agent after all.        *)
ServeLate(a) ==
    /\ \/ <<"start", a>> \in late /\ late' = late \ {<<"start", a>>}
          /\ IF Accepts(a, Request(a)) THEN Start(a, Request(a))
                                       ELSE UNCHANGED registryVars
       \/ <<"cancel", a>> \in late /\ late' = late \ {<<"cancel", a>>}
          /\ IF Known(a, RunID) THEN Cancel(a, RunID) ELSE UNCHANGED registryVars
    /\ UNCHANGED <<controllerVars, faults>>

(* An agent without a job has no part in the run.                          *)
AgentFault(a) ==
    /\ Assignment[a] # <<>>
    /\ faults < MaxFaults /\ faults' = faults + 1
    /\ \/ StopAgent(a)
       \/ Restart(a)
       \/ \E req \in ForeignRequests : Start(a, req)
    /\ UNCHANGED <<controllerVars, late>>

AgentWorks(a) ==
    /\ \E r \in RunIDs : ExecuteReturns(a, r) \/ Settle(a, r)
    /\ UNCHANGED <<controllerVars, networkVars>>

Finished == pc = "returned" /\ UNCHANGED vars

ControllerNext ==
    \/ Starting
    \/ Polling
    \/ CallFails
    \/ ContextEnds
    \/ \E a \in Agents : Serve(a) \/ ServeLate(a) \/ AgentWorks(a) \/ AgentFault(a)
    \/ Finished

(* The controller does not stop by itself, its timers expire, and a call   *)
(* is answered unless it fails.  Nothing is assumed of the executors.      *)
ControllerFairness ==
    /\ WF_vars(Starting \/ Polling)
    /\ WF_vars(ContextEnds /\ TimerExpires)
    /\ WF_vars(CallContextDone /\ CallFails)
    /\ \A a \in Agents : WF_vars(Serve(a))

ControllerSpec == ControllerInit /\ [][ControllerNext]_vars

FairControllerSpec == ControllerSpec /\ ControllerFairness

-----------------------------------------------------------------------------
(* Properties *)

Emitted == result \in {"completed", "failed", "cancelled"}

(* When the controller emits a report, no agent that acknowledged the run  *)
(* is still executing it, even if calls were lost or agents restarted.     *)
EmittedReportMeansRunIsOver ==
    Emitted => \A a \in StartedSet : runs[a][RunID].goroutine \notin Live

(* A completed report means that every agent with jobs was started, and    *)
(* that none of them cancelled or failed its part, whatever the order in   *)
(* which cancellations, timeouts and answers crossed.                      *)
CompletedMeansEveryAgentCompleted ==
    result = "completed" =>
        \A a \in Agents : Assignment[a] # <<>> =>
            a \in StartedSet /\ runs[a][RunID].status \in {"completed", "absent"}

(* One failed agent makes the whole run failed: neither a cancellation of  *)
(* the operator nor the cancelled reports of its peers hide it.            *)
FailureDominates ==
    Emitted /\ (\E a \in Agents : reports[a] = "failed") => result = "failed"

(* RunController always returns, whatever the agents do: cleanup does not  *)
(* wait for an agent that never concludes or was restarted.                *)
ControllerReturns == <>(pc = "returned")

(* README: the controller "waits for every Agent terminal report".         *)
WaitsForEveryAgent ==
    pc = "returned" => \A a \in StartedSet : runs[a][RunID].goroutine \notin Live

(* The controller's test of a cancelled parent context expects the status  *)
(* "cancelled": nothing else than the operator ended this run.             *)
OperatorCancelIsReportedCancelled ==
    (/\ Emitted /\ "operator" \in done /\ "deadline" \notin done /\ faults = 0
     /\ \A a \in Agents : reports[a] # "failed")
        => result # "failed"
=============================================================================
