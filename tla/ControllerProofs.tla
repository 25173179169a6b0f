-------------------------- MODULE ControllerProofs ---------------------------
(***************************************************************************)
(* The controller and its agents, for every list of agents, assignment,    *)
(* number of faults and set of foreign requests.  First: whatever the      *)
(* controller and the network do, the registries only take registry steps, *)
(* so every theorem of AgentRegistryProofs holds here.  Then: one          *)
(* inductive invariant about the calls, the late requests and the reports  *)
(* gives the three properties of the emitted report.                       *)
(***************************************************************************)
EXTENDS Controller, AgentRegistryProofs

(* The values of the controller's program counter.                         *)
Pcs == {"starting", "delaying", "aborting", "polling", "cancelling",
        "waiting", "returned"}

(* Typing of what the controller keeps; a call is only typed as a record,  *)
(* what it holds in each phase is the business of CallMatchesPc.           *)
ControllerTypeOK ==
    /\ pc \in Pcs
    /\ next \in Nat \ {0} /\ cursor \in Nat \ {0}
    /\ started \in Seq(Agents)
    /\ reports \in [Agents -> Terminal \cup {"missing"}]
    /\ call = [op |-> call.op, agent |-> call.agent, stage |-> call.stage,
               reply |-> call.reply]

(* Every index the controller uses is in the range of its list.            *)
PositionsInRange ==
    /\ pc \in {"starting", "delaying"} => next \in DOMAIN AgentSeq
    /\ pc \in {"aborting", "cancelling"} => cursor \in DOMAIN started
    /\ pc \in {"polling", "cancelling", "waiting"} => next <= Len(started) + 1

(* The call in progress is the one of the phase the controller is in, and  *)
(* goes to the agent its loop has come to.                                 *)
CallMatchesPc ==
    \/ call = NoCall
    \/ /\ call.stage \in {"sent", "replied", "failed"}
       /\ call.stage = "failed" => ~call.reply.ok
       /\ \/ /\ pc = "starting" /\ call.op = "start"
             /\ call.agent = AgentSeq[next] /\ Assignment[call.agent] # <<>>
          \/ /\ pc \in {"aborting", "cancelling"} /\ call.op = "cancel"
             /\ call.agent = started[cursor]
          \/ /\ pc = "polling" /\ call.op = "status"
             /\ ~PassOver /\ call.agent = started[next]

(* The agents are started in order: those that acknowledged precede next.  *)
StartsAreInOrder ==
    pc \in {"starting", "delaying"} =>
        \A a \in StartedSet : \E j \in DOMAIN AgentSeq : j < next /\ AgentSeq[j] = a

(* No agent with jobs was passed over.                                     *)
NoAgentSkipped ==
    /\ pc \in {"starting", "delaying"} =>
          \A j \in DOMAIN AgentSeq :
              j < next /\ Assignment[AgentSeq[j]] # <<>> => AgentSeq[j] \in StartedSet
    /\ pc \in {"polling", "cancelling", "waiting"} \/ (pc = "returned" /\ Emitted) =>
          \A a \in Agents : Assignment[a] # <<>> => a \in StartedSet

(* A Start that was given up on makes the controller abort, and its agent  *)
(* is none of those that acknowledged: no run that was reported on can be  *)
(* started a second time by a late request.                                *)
LateStartsAreAborted ==
    \A a \in Agents : <<"start", a>> \in late =>
        /\ a \notin StartedSet
        /\ \/ pc = "aborting"
           \/ pc = "returned" /\ ~Emitted
           \/ pc = "starting" /\ call.op = "start" /\ call.stage = "failed"

(* The run of agent a is over with outcome s, or the agent restarted.      *)
Concluded(a, s) == runs[a][RunID].status \in {s, "absent"}

(* A terminal answer still holds when it is taken, however late that is.   *)
AnswersHold ==
    call.op = "status" /\ call.stage = "replied" /\ call.reply.ok =>
        /\ call.reply.status \in Terminal \cup {"running"}
        /\ call.reply.status \in Terminal =>
              call.reply.report = call.reply.status /\ Concluded(call.agent, call.reply.status)

(* So does every report that was collected.                                *)
ReportsHold ==
    \A a \in Agents : reports[a] # "missing" =>
        a \in StartedSet /\ Concluded(a, reports[a])

(* The controller's status is never weaker than the reports collected.     *)
StatusCoversReports ==
    /\ terminalStatus \in {"", "failed", "cancelled"}
    /\ \A a \in Agents : reports[a] = "failed" => terminalStatus = "failed"
    /\ \A a \in Agents : reports[a] = "cancelled" => terminalStatus # ""

(* A report is emitted after all reports came in, under that status.       *)
OutcomeFollowsStatus ==
    /\ result # "none" => pc = "returned"
    /\ Emitted => /\ AllReported
                  /\ result = IF terminalStatus = "" THEN "completed" ELSE terminalStatus

CInv ==
    /\ ControllerTypeOK
    /\ PositionsInRange
    /\ CallMatchesPc
    /\ StartsAreInOrder
    /\ NoAgentSkipped
    /\ LateStartsAreAborted
    /\ AnswersHold
    /\ ReportsHold
    /\ StatusCoversReports
    /\ OutcomeFollowsStatus

-----------------------------------------------------------------------------
(* The registries under the controller *)

(* A step of the composed system is a step of one registry or of none.     *)
LEMMA RegistrySteps ==
  ASSUME [ControllerNext]_vars
  PROVE  [RegistryNext]_registryVars
<1>1. CASE UNCHANGED vars \/ Finished
  BY <1>1 DEF Finished, vars
<1>2. CASE Starting \/ Polling \/ CallFails \/ ContextEnds
  BY <1>2 DEF Starting, Polling, CallFails, ContextEnds
<1>3. RunID \in RunIDs
  BY ControllerAssumption
<1>4. ASSUME NEW a \in Agents, Serve(a)
      PROVE  [RegistryNext]_registryVars
  <2>1. Request(a) \in Requests
    BY ControllerAssumption
  <2>2. CASE ServeStart(a)
    BY <2>1, <2>2 DEF ServeStart, RegistryNext
  <2>3. CASE ServeStatus(a)
    BY <2>3 DEF ServeStatus
  <2>4. CASE ServeCancel(a)
    BY <1>3, <2>4 DEF ServeCancel, RegistryNext
  <2> QED
    BY <1>4, <2>2, <2>3, <2>4 DEF Serve
<1>5. ASSUME NEW a \in Agents, ServeLate(a)
      PROVE  [RegistryNext]_registryVars
  <2>1. Request(a) \in Requests
    BY ControllerAssumption
  <2> QED
    BY <1>3, <1>5, <2>1 DEF ServeLate, RegistryNext
<1>6. ASSUME NEW a \in Agents, AgentWorks(a)
      PROVE  [RegistryNext]_registryVars
  BY <1>6 DEF AgentWorks, RegistryNext, AgentStep
<1>7. ASSUME NEW a \in Agents, AgentFault(a)
      PROVE  [RegistryNext]_registryVars
  <2>1. ForeignRequests \subseteq Requests
    BY ControllerAssumption
  <2> QED
    BY <1>7, <2>1 DEF AgentFault, RegistryNext, AgentStep
<1> QED
  BY <1>1, <1>2, <1>4, <1>5, <1>6, <1>7 DEF ControllerNext

(* The agents of a distributed run are registries: lost, late and repeated *)
(* calls, faults and other controllers included, the composed system       *)
(* implements RegistrySpec, and what is proved of it holds of the agents.  *)
THEOREM AgentsStayRegistries == ControllerSpec => RegistrySpec
<1>1. ControllerInit => RegistryInit
  BY DEF ControllerInit
<1>2. [ControllerNext]_vars => [RegistryNext]_registryVars
  BY RegistrySteps
<1> QED
  BY <1>1, <1>2, PTL DEF ControllerSpec, RegistrySpec

(* So each agent of a distributed run keeps the promise of RunLifecycle    *)
(* under the calls of the controller, those that come late, those of other *)
(* controllers, and restarts.                                              *)
THEOREM AgentsKeepTheirPromise == ControllerSpec => LifecycleSpec
  BY AgentsStayRegistries, ImplementsLifecycle, PTL

(* The answers the controller had about an ended run stay the answers:     *)
(* what a late cancel or a second status call finds is what the report of  *)
(* the distributed run was made of.                                        *)
THEOREM AnswersStayFinal == ControllerSpec => TerminalAnswersAreFinal
  BY AgentsStayRegistries, AnswersAreFinal, PTL

(* The invariant of the registries therefore holds under the controller.   *)
LEMMA RegistryInvariant == ControllerSpec => []IInv
  BY AgentsStayRegistries, Inductive, PTL

(* A registry step that does not start run r on agent a.                   *)
StepNotStarting(a, r) ==
    \/ UNCHANGED registryVars
    \/ \E b \in Agents :
          \/ AgentStep(b)
          \/ \E s \in RunIDs : Cancel(b, s)
          \/ \E req \in Requests : Start(b, req) /\ (b # a \/ req.runID # r)

(* Only a Start of run r makes an agent know it.                           *)
LEMMA UnknownStaysUnknown ==
  ASSUME IInv, NEW a \in Agents, NEW r \in RunIDs, runs[a][r].status = "absent",
         StepNotStarting(a, r)
  PROVE  runs'[a][r].status = "absent"
<1>1. runs[a][r].goroutine \notin Live
  BY DEF IInv, RunningIffLive
<1>2. CASE UNCHANGED registryVars
  BY <1>2 DEF registryVars
<1>3. ASSUME NEW b \in Agents, NEW s \in RunIDs, ExecuteReturns(b, s)
      PROVE  runs'[a][r].status = "absent"
  BY <1>1, <1>3 DEF ExecuteReturns, IInv, RegistryTypeOK, Live
<1>4. ASSUME NEW b \in Agents, NEW s \in RunIDs, Settle(b, s)
      PROVE  runs'[a][r].status = "absent"
  <2>1. runs' = [runs EXCEPT ![b][s] = SettledRecord(b, s)] /\ ~(b = a /\ s = r)
    BY <1>1, <1>4, SettleIsUpdate DEF Settle, Live, IInv
  <2> QED
    BY <2>1 DEF IInv, RegistryTypeOK
<1>5. ASSUME NEW b \in Agents, NEW s \in RunIDs, Cancel(b, s)
      PROVE  runs'[a][r].status = "absent"
  BY <1>5 DEF Cancel, Known, IInv, RegistryTypeOK
<1>6. ASSUME NEW b \in Agents, NEW req \in Requests, Start(b, req), b # a \/ req.runID # r
      PROVE  runs'[a][r].status = "absent"
  <2>1. runs' = [runs EXCEPT ![b][req.runID] = StartedRecord(b, req)]
    BY <1>6 DEF Start, StartedRecord
  <2>2. runs'[a][r] = runs[a][r]
    BY <1>6, <2>1 DEF IInv, RegistryTypeOK
  <2> QED
    BY <2>2
<1>7. ASSUME NEW b \in Agents, StopAgent(b)
      PROVE  runs'[a][r].status = "absent"
  BY <1>7, StopAgentKeepsFields DEF IInv
<1>8. ASSUME NEW b \in Agents, Restart(b)
      PROVE  runs'[a][r].status = "absent"
  BY <1>8 DEF Restart, NewRegistry, Absent, IInv, RegistryTypeOK
<1> QED
  BY <1>2, <1>3, <1>4, <1>5, <1>6, <1>7, <1>8 DEF StepNotStarting, AgentStep

(* No step of the composed system starts the run on an agent that already  *)
(* acknowledged it: not the loop over the agents, which never comes back   *)
(* to one, no late request, and no other controller.                       *)
LEMMA AcknowledgedIsNotRestarted ==
  ASSUME CInv, [ControllerNext]_vars, NEW a \in StartedSet
  PROVE  StepNotStarting(a, RunID)
<1>1. CASE UNCHANGED vars \/ Finished
  BY <1>1 DEF Finished, vars, StepNotStarting
<1>2. CASE Starting \/ Polling \/ CallFails \/ ContextEnds
  BY <1>2 DEF Starting, Polling, CallFails, ContextEnds, StepNotStarting
<1>3. RunID \in RunIDs
  BY ControllerAssumption
<1>4. ASSUME NEW b \in Agents, Serve(b)
      PROVE  StepNotStarting(a, RunID)
  <2>1. Request(b) \in Requests
    BY ControllerAssumption
  <2>2. CASE ServeStart(b)
    <3>1. pc = "starting" /\ b = AgentSeq[next] /\ next \in DOMAIN AgentSeq
      BY <2>2 DEF ServeStart, Served, CInv, CallMatchesPc, PositionsInRange, NoCall
    <3>2. PICK j \in DOMAIN AgentSeq : j < next /\ AgentSeq[j] = a
      BY <3>1 DEF CInv, StartsAreInOrder
    <3>3. b # a
      <4>1. DOMAIN AgentSeq \subseteq Nat
        BY ControllerAssumption
      <4> QED
        BY <3>1, <3>2, <4>1, ControllerAssumption
    <3> QED
      BY <2>1, <2>2, <3>3 DEF ServeStart, StepNotStarting
  <2>3. CASE ServeStatus(b)
    BY <2>3 DEF ServeStatus, StepNotStarting
  <2>4. CASE ServeCancel(b)
    BY <1>3, <2>4 DEF ServeCancel, StepNotStarting
  <2> QED
    BY <1>4, <2>2, <2>3, <2>4 DEF Serve
<1>5. ASSUME NEW b \in Agents, ServeLate(b)
      PROVE  StepNotStarting(a, RunID)
  <2>1. Request(b) \in Requests
    BY ControllerAssumption
  <2>2. <<"start", b>> \in late => b # a
    BY DEF CInv, LateStartsAreAborted
  <2> QED
    BY <1>3, <1>5, <2>1, <2>2 DEF ServeLate, StepNotStarting
<1>6. ASSUME NEW b \in Agents, AgentWorks(b)
      PROVE  StepNotStarting(a, RunID)
  BY <1>6 DEF AgentWorks, StepNotStarting, AgentStep
<1>7. ASSUME NEW b \in Agents, AgentFault(b)
      PROVE  StepNotStarting(a, RunID)
  <2>1. ForeignRequests \subseteq Requests /\ \A req \in ForeignRequests : req.runID # RunID
    BY ControllerAssumption
  <2> QED
    BY <1>7, <2>1 DEF AgentFault, StepNotStarting, AgentStep
<1> QED
  BY <1>1, <1>2, <1>4, <1>5, <1>6, <1>7 DEF ControllerNext

(* What was concluded about an agent's part stays so: ended runs are left  *)
(* alone, forgotten ones are not started again.                            *)
LEMMA ConcludedStays ==
  ASSUME IInv, CInv, [ControllerNext]_vars,
         NEW a \in Agents, a \in StartedSet, NEW s \in Terminal, Concluded(a, s)
  PROVE  Concluded(a, s)'
<1>1. RunID \in RunIDs
  BY ControllerAssumption
<1>2. CASE runs[a][RunID].status = "absent"
  <2>1. runs'[a][RunID].status = "absent"
    BY <1>1, <1>2, AcknowledgedIsNotRestarted, UnknownStaysUnknown
  <2> QED
    BY <2>1 DEF Concluded
<1>3. CASE runs[a][RunID].status # "absent"
  <2>1. runs[a][RunID].status = s
    BY <1>3 DEF Concluded
  <2>2. runs'[a][RunID].status # "absent" => runs'[a][RunID].status = s
    BY <1>1, <2>1, RegistrySteps, EndedRunIsLeftAlone
  <2> QED
    BY <2>2 DEF Concluded
<1> QED
  BY <1>2, <1>3

-----------------------------------------------------------------------------
(* Facts about the controller's data *)

LEMMA AgentSeqFacts ==
  /\ Len(AgentSeq) \in Nat \ {0} /\ DOMAIN AgentSeq = 1..Len(AgentSeq)
  /\ \A i \in 1..Len(AgentSeq) : AgentSeq[i] \in Agents
<1>1. AgentSeq \in Seq(Agents) /\ \E i \in DOMAIN AgentSeq : TRUE
  BY ControllerAssumption
<1> QED
  BY <1>1

LEMMA StartedFacts ==
  ASSUME ControllerTypeOK
  PROVE  /\ Len(started) \in Nat /\ DOMAIN started = 1..Len(started)
         /\ StartedSet \subseteq Agents
         /\ \A i \in 1..Len(started) : started[i] \in StartedSet
         /\ started = <<>> => StartedSet = {}
         /\ started # <<>> => Len(started) > 0
  BY DEF ControllerTypeOK, StartedSet

(* An acknowledgement adds one agent to those that have the run.           *)
LEMMA AcknowledgeFacts ==
  ASSUME ControllerTypeOK, NEW a \in Agents, started' = Append(started, a)
  PROVE  /\ started' \in Seq(Agents) /\ started' # <<>>
         /\ Len(started') = Len(started) + 1 /\ DOMAIN started' = 1..Len(started')
         /\ StartedSet' = StartedSet \cup {a}
<1>1. started \in Seq(Agents)
  BY DEF ControllerTypeOK
<1>2. /\ started' \in Seq(Agents) /\ started' # <<>>
      /\ Len(started') = Len(started) + 1 /\ DOMAIN started' = 1..Len(started')
      /\ DOMAIN started = 1..Len(started) /\ Len(started) \in Nat
      /\ \A i \in 1..Len(started) : started'[i] = started[i]
      /\ started'[Len(started) + 1] = a
  BY <1>1
<1>3. StartedSet' = {started'[i] : i \in DOMAIN started'}
  BY DEF StartedSet
<1> QED
  BY <1>2, <1>3 DEF StartedSet

LEMMA NoCallFacts ==
  /\ NoCall = [op |-> NoCall.op, agent |-> NoCall.agent, stage |-> NoCall.stage,
               reply |-> NoCall.reply]
  /\ NoCall.op = "none" /\ NoCall.stage = "none"
  BY DEF NoCall

(* A call just sent has no answer yet.                                     *)
LEMMA SendFacts ==
  ASSUME NEW op, NEW a, Send(op, a)
  PROVE  /\ call' = [op |-> call'.op, agent |-> call'.agent, stage |-> call'.stage,
                     reply |-> call'.reply]
         /\ call'.op = op /\ call'.agent = a /\ ~call'.reply.ok
         /\ call'.stage \in {"sent", "failed"}
  BY DEF Send, Error, Answer

(* Reports that were collected hold after a step that collects none.       *)
LEMMA ReportsStay ==
  ASSUME IInv, CInv, [ControllerNext]_vars, reports' = reports,
         StartedSet \subseteq StartedSet'
  PROVE  ReportsHold'
<1> SUFFICES ASSUME NEW a \in Agents, reports[a] # "missing"
             PROVE  a \in StartedSet' /\ Concluded(a, reports[a])'
  BY DEF ReportsHold
<1>1. a \in StartedSet /\ reports[a] \in Terminal /\ Concluded(a, reports[a])
  BY DEF CInv, ReportsHold, ControllerTypeOK
<1>2. \A s \in Terminal : Concluded(a, s) => Concluded(a, s)'
  BY <1>1, ConcludedStays
<1>3. Concluded(a, reports[a])'
  BY <1>1, <1>2 DEF Concluded
<1> QED
  BY <1>1, <1>3

-----------------------------------------------------------------------------
(* Each step of the loop that starts the agents keeps the invariant.       *)

(* What these steps leave alone, and what follows for the conjuncts that   *)
(* are about it: no result was emitted before, no report changes.          *)
LEMMA StartingFrame ==
  ASSUME IInv, CInv, [ControllerNext]_vars, Starting, result' \in {result, "aborted"},
         StartedSet \subseteq StartedSet'
  PROVE  /\ reports' = reports /\ late' = late /\ done' = done
         /\ result = "none" /\ ~Emitted'
         /\ ReportsHold' /\ StatusCoversReports'
<1>1. /\ reports' = reports /\ late' = late /\ terminalStatus' = terminalStatus
      /\ done' = done
  BY DEF Starting, networkVars
<1>2. pc \in {"starting", "delaying", "aborting"}
  BY DEF Starting, SkipAgent, SendStart, StartReturns, DelayEnds, SendAbortCancel,
         AbortCancelReturns
<1>3. result = "none"
  BY <1>2 DEF CInv, OutcomeFollowsStatus
<1>4. StatusCoversReports'
  BY <1>1 DEF CInv, StatusCoversReports
<1> QED
  BY <1>1, <1>3, <1>4, ReportsStay DEF Emitted

(* The loop moves on to the next agent, with every agent up to this one    *)
(* either acknowledged or without a job.                                   *)
LEMMA NextAgentKeepsCInv ==
  ASSUME IInv, CInv, [ControllerNext]_vars, Starting, pc = "starting", call' = NoCall,
         started' \in Seq(Agents), StartedSet \subseteq StartedSet',
         \A a \in Agents : <<"start", a>> \notin late,
         StartedSet' \subseteq StartedSet \cup {AgentSeq[next]},
         Assignment[AgentSeq[next]] # <<>> => AgentSeq[next] \in StartedSet',
         NextAgent(started')
  PROVE  CInv'
<1> USE AgentSeqFacts, NoCallFacts
<1>1. /\ next \in 1..Len(AgentSeq) /\ cursor' = cursor /\ result' = result
      /\ ControllerTypeOK
  BY DEF CInv, PositionsInRange, NextAgent
<1>2. /\ reports' = reports /\ late' = late /\ result = "none" /\ ~Emitted'
      /\ ReportsHold' /\ StatusCoversReports'
  BY <1>1, StartingFrame
<1>3. \/ /\ next = Len(AgentSeq) /\ next' = 1 /\ pc' = "polling"
      \/ /\ next # Len(AgentSeq) /\ next' = next + 1 /\ pc' \in {"starting", "delaying"}
  BY DEF NextAgent
<1>4. ControllerTypeOK'
  BY <1>1, <1>2, <1>3 DEF ControllerTypeOK, Pcs
<1>5. PositionsInRange'
  <2>1. Len(started') \in Nat
    OBVIOUS
  <2> QED
    BY <1>1, <1>3, <2>1 DEF PositionsInRange
<1>6. CallMatchesPc' /\ AnswersHold'
  BY DEF CallMatchesPc, AnswersHold, NoCall
<1>7. StartsAreInOrder'
  BY <1>1, <1>3 DEF CInv, StartsAreInOrder
<1>8. ASSUME NEW j \in DOMAIN AgentSeq, j <= next, Assignment[AgentSeq[j]] # <<>>
      PROVE  AgentSeq[j] \in StartedSet'
  BY <1>1, <1>8 DEF CInv, NoAgentSkipped
<1>9. NoAgentSkipped'
  <2>1. CASE pc' = "polling"
    <3>1. \A a \in Agents : \E j \in DOMAIN AgentSeq : j <= next /\ AgentSeq[j] = a
      BY <1>3, <2>1, ControllerAssumption
    <3> QED
      BY <1>8, <2>1, <3>1 DEF NoAgentSkipped
  <2>2. CASE pc' \in {"starting", "delaying"}
    <3>1. next' = next + 1
      BY <1>3, <2>2
    <3> QED
      BY <1>1, <1>8, <2>2, <3>1 DEF NoAgentSkipped
  <2> QED
    BY <1>3, <2>1, <2>2
<1>10. LateStartsAreAborted'
  BY <1>2 DEF LateStartsAreAborted
<1>11. OutcomeFollowsStatus'
  BY <1>1, <1>2 DEF OutcomeFollowsStatus
<1> QED
  BY <1>2, <1>4, <1>5, <1>6, <1>7, <1>9, <1>10, <1>11 DEF CInv

(* The run is given up: a late Start may be on its way, but its agent did  *)
(* not acknowledge and no report will be emitted.                          *)
LEMMA AbortKeepsCInv ==
  ASSUME IInv, CInv, [ControllerNext]_vars, Starting, pc \in {"starting", "delaying"},
         call' = NoCall, started' \in Seq(Agents), StartedSet \subseteq StartedSet',
         \A a \in Agents : <<"start", a>> \in late => a \notin StartedSet',
         Abort(started')
  PROVE  CInv'
<1> USE NoCallFacts
<1>1. next' = next /\ cursor' = 1 /\ result' \in {result, "aborted"}
  BY DEF Abort, Returns
<1>2. /\ reports' = reports /\ late' = late /\ result = "none" /\ ~Emitted'
      /\ ReportsHold' /\ StatusCoversReports'
  BY <1>1, StartingFrame
<1>3. \/ started' = <<>> /\ pc' = "returned"
      \/ started' # <<>> /\ pc' = "aborting" /\ result' = result
  BY DEF Abort, Returns
<1>4. ControllerTypeOK'
  BY <1>1, <1>2, <1>3 DEF CInv, ControllerTypeOK, Pcs
<1>5. PositionsInRange'
  <2>1. started' # <<>> => 1 \in DOMAIN started'
    OBVIOUS
  <2> QED
    BY <1>1, <1>3, <2>1 DEF PositionsInRange
<1>6. CallMatchesPc' /\ AnswersHold'
  BY DEF CallMatchesPc, AnswersHold, NoCall
<1>7. StartsAreInOrder' /\ NoAgentSkipped'
  BY <1>2, <1>3 DEF StartsAreInOrder, NoAgentSkipped
<1>8. LateStartsAreAborted'
  BY <1>2, <1>3 DEF LateStartsAreAborted
<1>9. OutcomeFollowsStatus'
  BY <1>2, <1>3 DEF OutcomeFollowsStatus
<1> QED
  BY <1>2, <1>4, <1>5, <1>6, <1>7, <1>8, <1>9 DEF CInv

(* No Start was given up on before this agent's own turn fails.            *)
LEMMA NoLateStartYet ==
  ASSUME CInv, pc \in {"starting", "delaying"},
         ~(call.op = "start" /\ call.stage = "failed"),
         NEW a \in Agents
  PROVE  <<"start", a>> \notin late
  BY DEF CInv, LateStartsAreAborted

LEMMA SkipAgentKeepsCInv ==
  ASSUME IInv, CInv, [ControllerNext]_vars, Starting, SkipAgent
  PROVE  CInv'
<1>1. /\ pc = "starting" /\ Assignment[AgentSeq[next]] = <<>>
      /\ started' = started /\ call' = call /\ NextAgent(started')
  BY DEF SkipAgent, NextAgent
<1>2. call = NoCall
  BY <1>1 DEF CInv, CallMatchesPc
<1>3. StartedSet' = StartedSet /\ started' \in Seq(Agents)
  BY <1>1 DEF StartedSet, CInv, ControllerTypeOK
<1>4. \A a \in Agents : <<"start", a>> \notin late
  BY <1>1, <1>2, NoLateStartYet, NoCallFacts
<1> QED
  BY <1>1, <1>2, <1>3, <1>4, NextAgentKeepsCInv

LEMMA SendStartKeepsCInv ==
  ASSUME IInv, CInv, [ControllerNext]_vars, Starting, SendStart
  PROVE  CInv'
<1>1. /\ pc = "starting" /\ pc' = pc /\ next' = next /\ cursor' = cursor
      /\ started' = started /\ result' = result
      /\ Assignment[AgentSeq[next]] # <<>> /\ call = NoCall
  BY DEF SendStart
<1>2. /\ call' = [op |-> call'.op, agent |-> call'.agent, stage |-> call'.stage,
                  reply |-> call'.reply]
      /\ call'.op = "start" /\ call'.agent = AgentSeq[next] /\ ~call'.reply.ok
      /\ call'.stage \in {"sent", "failed"}
  BY SendFacts DEF SendStart
<1>3. StartedSet' = StartedSet
  BY <1>1 DEF StartedSet
<1>4. /\ reports' = reports /\ late' = late /\ result = "none" /\ ~Emitted'
      /\ ReportsHold' /\ StatusCoversReports'
  BY <1>1, <1>3, StartingFrame
<1>5. \A a \in Agents : <<"start", a>> \notin late
  BY <1>1, NoLateStartYet, NoCallFacts
<1>6. ControllerTypeOK' /\ PositionsInRange'
  <2>1. terminalStatus' = terminalStatus
    BY DEF Starting
  <2> QED
    BY <1>1, <1>2, <1>4, <2>1 DEF CInv, ControllerTypeOK, PositionsInRange
<1>7. CallMatchesPc' /\ AnswersHold'
  BY <1>1, <1>2 DEF CallMatchesPc, AnswersHold
<1>8. StartsAreInOrder' /\ NoAgentSkipped'
  BY <1>1, <1>3 DEF CInv, StartsAreInOrder, NoAgentSkipped
<1>9. LateStartsAreAborted'
  BY <1>4, <1>5 DEF LateStartsAreAborted
<1>10. OutcomeFollowsStatus'
  BY <1>1, <1>4 DEF OutcomeFollowsStatus
<1> QED
  BY <1>4, <1>6, <1>7, <1>8, <1>9, <1>10 DEF CInv

LEMMA StartReturnsKeepsCInv ==
  ASSUME IInv, CInv, [ControllerNext]_vars, Starting, StartReturns
  PROVE  CInv'
<1>1. /\ pc = "starting" /\ call.op = "start" /\ call.stage \in {"replied", "failed"}
      /\ call' = NoCall
  BY DEF StartReturns, Answered
<1>2. /\ call.agent = AgentSeq[next] /\ Assignment[call.agent] # <<>>
      /\ call.agent \in Agents
      /\ call.stage = "failed" => ~call.reply.ok
  BY <1>1, AgentSeqFacts DEF CInv, CallMatchesPc, NoCall, PositionsInRange
<1>3. CASE CallFailed
  <2>1. Abort(started) /\ started' = started
    BY <1>3 DEF StartReturns
  <2>2. StartedSet' = StartedSet /\ started' \in Seq(Agents)
    BY <2>1 DEF StartedSet, CInv, ControllerTypeOK
  <2>3. \A a \in Agents : <<"start", a>> \in late => a \notin StartedSet'
    BY <2>2 DEF CInv, LateStartsAreAborted
  <2> QED
    BY <1>1, <2>1, <2>2, <2>3, AbortKeepsCInv
<1>4. CASE ~CallFailed
  <2>1. /\ started' = Append(started, call.agent)
        /\ Abort(started') \/ NextAgent(started')
    BY <1>4 DEF StartReturns
  <2>2. started' \in Seq(Agents) /\ StartedSet' = StartedSet \cup {call.agent}
    BY <1>2, <2>1, AcknowledgeFacts DEF CInv
  <2>3. call.stage # "failed"
    BY <1>2, <1>4 DEF CallFailed
  <2>4. \A a \in Agents : <<"start", a>> \notin late
    BY <1>1, <2>3, NoLateStartYet
  <2>5. CASE Abort(started')
    BY <1>1, <2>2, <2>4, <2>5, AbortKeepsCInv
  <2>6. CASE NextAgent(started')
    BY <1>1, <1>2, <2>2, <2>4, <2>6, NextAgentKeepsCInv
  <2> QED
    BY <2>1, <2>5, <2>6
<1> QED
  BY <1>3, <1>4

LEMMA DelayEndsKeepsCInv ==
  ASSUME IInv, CInv, [ControllerNext]_vars, Starting, DelayEnds
  PROVE  CInv'
<1>1. pc = "delaying" /\ started' = started /\ call' = call
  BY DEF DelayEnds
<1>2. call = NoCall
  BY <1>1 DEF CInv, CallMatchesPc
<1>3. StartedSet' = StartedSet /\ started' \in Seq(Agents)
  BY <1>1 DEF StartedSet, CInv, ControllerTypeOK
<1>4. \A a \in Agents : <<"start", a>> \notin late
  BY <1>1, <1>2, NoLateStartYet, NoCallFacts
<1>5. CASE Abort(started)
  BY <1>1, <1>2, <1>3, <1>4, <1>5, AbortKeepsCInv
<1>6. CASE pc' = "starting" /\ UNCHANGED <<next, cursor, result>>
  <2>1. /\ reports' = reports /\ late' = late /\ result = "none" /\ ~Emitted'
        /\ ReportsHold' /\ StatusCoversReports'
    BY <1>3, <1>6, StartingFrame
  <2>2. ControllerTypeOK' /\ PositionsInRange'
    BY <1>1, <1>6, <2>1 DEF CInv, ControllerTypeOK, PositionsInRange, Pcs
  <2>3. CallMatchesPc' /\ AnswersHold'
    BY <1>1, <1>2, NoCallFacts DEF CallMatchesPc, AnswersHold
  <2>4. StartsAreInOrder' /\ NoAgentSkipped'
    BY <1>1, <1>3, <1>6 DEF CInv, StartsAreInOrder, NoAgentSkipped
  <2>5. LateStartsAreAborted'
    BY <1>4, <2>1 DEF LateStartsAreAborted
  <2>6. OutcomeFollowsStatus'
    BY <1>6, <2>1 DEF OutcomeFollowsStatus
  <2> QED
    BY <2>1, <2>2, <2>3, <2>4, <2>5, <2>6 DEF CInv
<1> QED
  BY <1>5, <1>6 DEF DelayEnds

(* Cancelling what was started, in order, before returning the error.      *)
LEMMA AbortLoopKeepsCInv ==
  ASSUME IInv, CInv, [ControllerNext]_vars, Starting,
         SendAbortCancel \/ AbortCancelReturns
  PROVE  CInv'
<1> USE NoCallFacts
<1>1. /\ pc = "aborting" /\ next' = next /\ started' = started
      /\ result' \in {result, "aborted"}
  BY DEF SendAbortCancel, AbortCancelReturns, Returns
<1>2. StartedSet' = StartedSet
  BY <1>1 DEF StartedSet
<1>3. /\ reports' = reports /\ late' = late /\ result = "none" /\ ~Emitted'
      /\ ReportsHold' /\ StatusCoversReports'
  BY <1>1, <1>2, StartingFrame
<1>4. /\ cursor \in 1..Len(started) /\ Len(started) \in Nat
      /\ DOMAIN started = 1..Len(started) /\ started[cursor] \in StartedSet
  BY <1>1, StartedFacts DEF CInv, PositionsInRange
<1>5. /\ call' = [op |-> call'.op, agent |-> call'.agent, stage |-> call'.stage,
                  reply |-> call'.reply]
      /\ \/ call' = NoCall
         \/ /\ call'.op = "cancel" /\ call'.agent = started'[cursor']
            /\ call'.stage \in {"sent", "failed"} /\ pc' = "aborting"
            /\ ~call'.reply.ok
  <2>1. CASE SendAbortCancel
    BY <1>1, <2>1, SendFacts DEF SendAbortCancel
  <2>2. CASE AbortCancelReturns
    BY <2>2 DEF AbortCancelReturns
  <2> QED
    BY <2>1, <2>2
<1>6. \/ pc' = pc /\ cursor' = cursor
      \/ pc' = "returned" /\ cursor' = cursor + 1
      \/ pc' = pc /\ cursor' = cursor + 1 /\ cursor # Len(started)
  BY DEF SendAbortCancel, AbortCancelReturns, Returns
<1>7. result' # "none" => pc' = "returned"
  BY <1>3 DEF SendAbortCancel, AbortCancelReturns, Returns
<1>8. ControllerTypeOK'
  BY <1>1, <1>3, <1>5, <1>6 DEF CInv, ControllerTypeOK, Pcs
<1>9. PositionsInRange'
  BY <1>1, <1>4, <1>6 DEF PositionsInRange
<1>10. CallMatchesPc' /\ AnswersHold'
  BY <1>2, <1>5 DEF CallMatchesPc, AnswersHold
<1>11. StartsAreInOrder' /\ NoAgentSkipped'
  BY <1>1, <1>3, <1>6 DEF StartsAreInOrder, NoAgentSkipped
<1>12. LateStartsAreAborted'
  BY <1>1, <1>2, <1>3, <1>6 DEF CInv, LateStartsAreAborted
<1>13. OutcomeFollowsStatus'
  BY <1>3, <1>7 DEF OutcomeFollowsStatus
<1> QED
  BY <1>3, <1>8, <1>9, <1>10, <1>11, <1>12, <1>13 DEF CInv

LEMMA StartingKeepsCInv ==
  ASSUME IInv, CInv, [ControllerNext]_vars, Starting
  PROVE  CInv'
  BY SkipAgentKeepsCInv, SendStartKeepsCInv, StartReturnsKeepsCInv, DelayEndsKeepsCInv,
     AbortLoopKeepsCInv DEF Starting

-----------------------------------------------------------------------------
(* Each step of the polling loop and of the cleanup keeps the invariant.   *)

(* Polling starts after every agent with jobs acknowledged the run and no  *)
(* Start was given up on; neither changes until the controller returns.    *)
LEMMA PollingFrame ==
  ASSUME CInv, Polling
  PROVE  /\ pc \in {"polling", "cancelling", "waiting"}
         /\ pc' \in {"polling", "cancelling", "waiting", "returned"}
         /\ started' = started /\ StartedSet' = StartedSet /\ Len(started) > 0
         /\ result = "none"
         /\ runs' = runs
         /\ StartsAreInOrder' /\ NoAgentSkipped' /\ LateStartsAreAborted'
<1>1. pc \in {"polling", "cancelling", "waiting"}
  BY DEF Polling, SkipReported, SendStatus, StatusReturns, SendCancel, CancelReturns,
         Aggregate, EndPass, Tick, PollContextEnds
<1>2. pc' \in {"polling", "cancelling", "waiting", "returned"}
  BY <1>1 DEF Polling, SkipReported, SendStatus, StatusReturns, SendCancel, CancelReturns,
              Aggregate, EndPass, Tick, PollContextEnds, NoCleanup, BeginCleanup, Returns,
              UnusableReply, RecordReport
<1>3. started' = started /\ runs' = runs /\ late' = late
  BY DEF Polling, registryVars, networkVars
<1>4. StartedSet' = StartedSet
  BY <1>3 DEF StartedSet
<1>5. result = "none"
  BY <1>1 DEF CInv, OutcomeFollowsStatus
<1>6. \A a \in Agents : Assignment[a] # <<>> => a \in StartedSet
  BY <1>1 DEF CInv, NoAgentSkipped
<1>7. Len(started) > 0
  <2>1. StartedSet # {}
    BY <1>6, ControllerAssumption
  <2> QED
    BY <2>1, StartedFacts DEF CInv
<1>8. \A a \in Agents : <<"start", a>> \notin late
  BY <1>1, <1>5 DEF CInv, LateStartsAreAborted
<1>9. StartsAreInOrder' /\ NoAgentSkipped' /\ LateStartsAreAborted'
  BY <1>2, <1>3, <1>4, <1>6, <1>8 DEF StartsAreInOrder, NoAgentSkipped, LateStartsAreAborted
<1> QED
  BY <1>1, <1>2, <1>3, <1>4, <1>5, <1>7, <1>9

(* The steps that collect no report and leave the status as it is.         *)
LEMMA NothingCollected ==
  ASSUME CInv, Polling, reports' = reports, terminalStatus' = terminalStatus
  PROVE  ReportsHold' /\ StatusCoversReports'
<1> USE PollingFrame
<1>1. ReportsHold'
  <2> SUFFICES ASSUME NEW a \in Agents, reports[a] # "missing"
               PROVE  a \in StartedSet' /\ Concluded(a, reports[a])'
    BY DEF ReportsHold
  <2>1. a \in StartedSet /\ Concluded(a, reports[a])
    BY DEF CInv, ReportsHold
  <2> QED
    BY <2>1 DEF Concluded
<1>2. StatusCoversReports'
  BY DEF CInv, StatusCoversReports
<1> QED
  BY <1>1, <1>2

(* beginCleanup never weakens the status, and cancels from the first agent.*)
LEMMA CleanupFacts ==
  ASSUME CInv, NEW status \in {"failed", "cancelled"}, NEW cause,
         BeginCleanup(status, cause)
  PROVE  /\ terminalStatus' \in {"failed", "cancelled"}
         /\ status = "failed" \/ terminalStatus = "failed" => terminalStatus' = "failed"
         /\ pc' \in {"polling", "cancelling"} /\ cursor' = 1
  BY DEF CInv, StatusCoversReports, BeginCleanup, WithStatus

(* The steps without a call and a report: an agent that already reported   *)
(* is skipped, a pass ends, the ticker starts the next one.                *)
LEMMA PassKeepsCInv ==
  ASSUME CInv, Polling, SkipReported \/ EndPass \/ Tick
  PROVE  CInv'
<1> USE PollingFrame
<1>1. /\ reports' = reports /\ terminalStatus' = terminalStatus /\ result' = result
      /\ cursor' = cursor /\ call' = call /\ call = NoCall
      /\ pc' \in {"polling", "waiting"}
  <2>1. CASE SkipReported
    BY <2>1 DEF SkipReported, NoCleanup
  <2>2. CASE EndPass \/ Tick
    <3>1. pc' \in {"polling", "waiting"}
      BY <2>2 DEF EndPass, Tick
    <3>2. call = NoCall
      BY <2>2 DEF EndPass, Tick, CInv, CallMatchesPc
    <3> QED
      BY <2>2, <3>1, <3>2 DEF EndPass, Tick
  <2> QED
    BY <2>1, <2>2
<1>2. next' \in Nat \ {0} /\ next' <= Len(started) + 1
  BY StartedFacts DEF SkipReported, EndPass, Tick, CInv, ControllerTypeOK,
                      PositionsInRange, PassOver
<1>3. ControllerTypeOK'
  BY <1>1, <1>2 DEF CInv, ControllerTypeOK, Pcs
<1>4. PositionsInRange'
  BY <1>1, <1>2 DEF PositionsInRange
<1>5. CallMatchesPc' /\ AnswersHold'
  BY <1>1, NoCallFacts DEF CallMatchesPc, AnswersHold
<1>6. ReportsHold' /\ StatusCoversReports'
  BY <1>1, NothingCollected
<1>7. OutcomeFollowsStatus'
  BY <1>1 DEF OutcomeFollowsStatus, Emitted
<1> QED
  BY <1>3, <1>4, <1>5, <1>6, <1>7 DEF CInv

(* A status or a cancel call is sent to the agent the loop has come to.    *)
LEMMA PollingSendKeepsCInv ==
  ASSUME CInv, Polling, SendStatus \/ SendCancel
  PROVE  CInv'
<1> USE PollingFrame
<1>1. /\ reports' = reports /\ terminalStatus' = terminalStatus /\ result' = result
      /\ cursor' = cursor /\ next' = next /\ pc' = pc
  BY DEF SendStatus, SendCancel, NoCleanup
<1>2. /\ call' = [op |-> call'.op, agent |-> call'.agent, stage |-> call'.stage,
                  reply |-> call'.reply]
      /\ ~call'.reply.ok /\ call'.stage \in {"sent", "failed"}
      /\ \/ pc = "polling" /\ ~PassOver /\ call'.op = "status" /\ call'.agent = started[next]
         \/ pc = "cancelling" /\ call'.op = "cancel" /\ call'.agent = started[cursor]
  BY SendFacts DEF SendStatus, SendCancel
<1>3. ControllerTypeOK' /\ PositionsInRange'
  BY <1>1, <1>2 DEF CInv, ControllerTypeOK, PositionsInRange
<1>4. CallMatchesPc' /\ AnswersHold'
  BY <1>1, <1>2 DEF CallMatchesPc, AnswersHold, PassOver
<1>5. ReportsHold' /\ StatusCoversReports'
  BY <1>1, NothingCollected
<1>6. OutcomeFollowsStatus'
  BY <1>1 DEF OutcomeFollowsStatus, Emitted
<1> QED
  BY <1>3, <1>4, <1>5, <1>6 DEF CInv

LEMMA CancelReturnsKeepsCInv ==
  ASSUME CInv, Polling, CancelReturns
  PROVE  CInv'
<1> USE PollingFrame, NoCallFacts
<1>1. /\ reports' = reports /\ terminalStatus' = terminalStatus /\ result' = result
      /\ cursor' = cursor + 1 /\ next' = next /\ call' = NoCall /\ pc = "cancelling"
      /\ pc' = IF cursor = Len(started) THEN "polling" ELSE "cancelling"
  BY DEF CancelReturns
<1>2. cursor \in 1..Len(started) /\ next <= Len(started) + 1
  BY <1>1, StartedFacts DEF CInv, PositionsInRange
<1>3. ControllerTypeOK'
  BY <1>1 DEF CInv, ControllerTypeOK, Pcs
<1>4. PositionsInRange'
  BY <1>1, <1>2, StartedFacts DEF CInv, PositionsInRange
<1>5. CallMatchesPc' /\ AnswersHold'
  BY <1>1 DEF CallMatchesPc, AnswersHold
<1>6. ReportsHold' /\ StatusCoversReports'
  BY <1>1, NothingCollected
<1>7. OutcomeFollowsStatus'
  BY <1>1 DEF OutcomeFollowsStatus, Emitted
<1> QED
  BY <1>3, <1>4, <1>5, <1>6, <1>7 DEF CInv

(* The next position after an answer, and the cleanup it may begin.        *)
LEMMA AnswerTakenKeepsCInv ==
  ASSUME CInv, Polling, pc = "polling", call' = NoCall, next <= Len(started),
         next' = next + 1, result' = result,
         reports' \in [Agents -> Terminal \cup {"missing"}],
         \/ NoCleanup
         \/ \E s \in {"failed", "cancelled"}, c \in {TRUE, FALSE} : BeginCleanup(s, c),
         ReportsHold', StatusCoversReports'
  PROVE  CInv'
<1> USE PollingFrame, NoCallFacts
<1>1. \/ pc' = "polling" /\ cursor' = cursor
      \/ pc' \in {"polling", "cancelling"} /\ cursor' = 1
  BY CleanupFacts DEF NoCleanup
<1>2. ControllerTypeOK'
  BY <1>1 DEF CInv, ControllerTypeOK, Pcs
<1>3. PositionsInRange'
  BY <1>1, StartedFacts DEF CInv, PositionsInRange, ControllerTypeOK
<1>4. CallMatchesPc' /\ AnswersHold'
  BY DEF CallMatchesPc, AnswersHold
<1>5. OutcomeFollowsStatus'
  BY DEF OutcomeFollowsStatus, Emitted
<1> QED
  BY <1>2, <1>3, <1>4, <1>5 DEF CInv

LEMMA StatusReturnsKeepsCInv ==
  ASSUME CInv, Polling, StatusReturns
  PROVE  CInv'
<1> USE PollingFrame
<1> DEFINE a == call.agent
           s == call.reply.status
<1>1. /\ pc = "polling" /\ call' = NoCall /\ next' = next + 1 /\ result' = result
      /\ call.op = "status" /\ call.stage \in {"replied", "failed"}
  BY DEF StatusReturns, Answered
<1>2. /\ next <= Len(started) /\ a \in StartedSet /\ a \in Agents
      /\ call.stage = "failed" => ~call.reply.ok
  BY <1>1, StartedFacts, NoCallFacts DEF CInv, CallMatchesPc, PassOver, ControllerTypeOK
<1>3. CASE UnusableReply
  <2>1. BeginCleanup("failed", TRUE) /\ reports' = reports
    BY <1>3 DEF UnusableReply
  <2>2. terminalStatus' = "failed"
    BY <2>1, CleanupFacts
  <2>3. ReportsHold'
    BY <2>1 DEF CInv, ReportsHold, Concluded
  <2>4. StatusCoversReports'
    BY <2>2 DEF StatusCoversReports
  <2>5. reports' \in [Agents -> Terminal \cup {"missing"}]
    BY <2>1 DEF CInv, ControllerTypeOK
  <2> QED
    BY <1>1, <1>2, <2>1, <2>3, <2>4, <2>5, AnswerTakenKeepsCInv
<1>4. CASE NoCleanup /\ reports' = reports
  <2>1. ReportsHold' /\ StatusCoversReports'
    BY <1>4, NothingCollected DEF NoCleanup
  <2>2. reports' \in [Agents -> Terminal \cup {"missing"}]
    BY <1>4 DEF CInv, ControllerTypeOK
  <2> QED
    BY <1>1, <1>2, <1>4, <2>1, <2>2, AnswerTakenKeepsCInv
<1>5. CASE RecordReport /\ call.reply.ok /\ s # "running"
  <2>1. /\ s \in Terminal /\ call.reply.report = s /\ Concluded(a, s)
    BY <1>1, <1>2, <1>5 DEF CInv, AnswersHold
  <2>2. reports' = [reports EXCEPT ![a] = s]
    BY <1>5, <2>1 DEF RecordReport
  <2>3. /\ reports' \in [Agents -> Terminal \cup {"missing"}]
        /\ \A b \in Agents : reports'[b] = IF b = a THEN s ELSE reports[b]
    BY <1>2, <2>1, <2>2 DEF CInv, ControllerTypeOK
  <2>4. ReportsHold'
    BY <1>2, <2>1, <2>3 DEF CInv, ReportsHold, Concluded
  <2>5. CASE s = "completed"
    <3>1. NoCleanup
      BY <1>5, <2>5 DEF RecordReport
    <3>2. StatusCoversReports'
      BY <2>3, <2>5, <3>1 DEF NoCleanup, CInv, StatusCoversReports
    <3> QED
      BY <1>1, <1>2, <2>3, <2>4, <3>1, <3>2, AnswerTakenKeepsCInv
  <2>6. CASE s # "completed"
    <3>1. BeginCleanup(s, FALSE) /\ s \in {"failed", "cancelled"}
      BY <1>5, <2>1, <2>6 DEF RecordReport, Terminal
    <3>2. /\ terminalStatus' \in {"failed", "cancelled"}
          /\ s = "failed" \/ terminalStatus = "failed" => terminalStatus' = "failed"
      BY <3>1, CleanupFacts
    <3>3. StatusCoversReports'
      BY <2>3, <3>2 DEF CInv, StatusCoversReports
    <3> QED
      BY <1>1, <1>2, <2>3, <2>4, <3>1, <3>3, AnswerTakenKeepsCInv
  <2> QED
    BY <2>5, <2>6
<1> QED
  BY <1>3, <1>4, <1>5 DEF StatusReturns, CallFailed

(* The report is emitted with the status that covers all that was reported.*)
LEMMA AggregateKeepsCInv ==
  ASSUME CInv, Polling, Aggregate
  PROVE  CInv'
<1> USE PollingFrame
<1>1. /\ pc = "polling" /\ pc' = "returned" /\ AllReported /\ call = NoCall
      /\ next' = next /\ call' = call /\ reports' = reports /\ cursor' = cursor
      /\ terminalStatus' = terminalStatus
      /\ result' \in {"aggregateError",
                      IF terminalStatus # "" \/ primaryErr THEN terminalStatus
                                                           ELSE "completed"}
  BY DEF Aggregate, Returns
<1>2. ControllerTypeOK' /\ PositionsInRange'
  BY <1>1 DEF CInv, ControllerTypeOK, PositionsInRange, Pcs
<1>3. CallMatchesPc' /\ AnswersHold'
  BY <1>1, NoCallFacts DEF CallMatchesPc, AnswersHold
<1>4. ReportsHold' /\ StatusCoversReports'
  BY <1>1, NothingCollected
<1>5. OutcomeFollowsStatus'
  <2>1. AllReported'
    BY <1>1 DEF AllReported
  <2>2. Emitted' => result' = IF terminalStatus = "" THEN "completed" ELSE terminalStatus
    BY <1>1 DEF Emitted
  <2> QED
    BY <1>1, <2>1, <2>2 DEF OutcomeFollowsStatus
<1> QED
  BY <1>2, <1>3, <1>4, <1>5 DEF CInv

(* The poll context ends: the run is cleaned up, or the cleanup failed.    *)
LEMMA PollContextEndsKeepsCInv ==
  ASSUME CInv, Polling, PollContextEnds
  PROVE  CInv'
<1> USE PollingFrame
<1>1. pc = "waiting" /\ call' = call /\ reports' = reports /\ call = NoCall
  BY DEF PollContextEnds, CInv, CallMatchesPc
<1>2. \/ /\ pc' = "returned" /\ result' = "cleanupFailed" /\ next' = next
         /\ cursor' = cursor /\ terminalStatus' = terminalStatus
      \/ /\ pc' \in {"polling", "cancelling"} /\ next' = 1 /\ cursor' = 1
         /\ result' = result /\ terminalStatus' \in {"failed", "cancelled"}
         /\ terminalStatus = "failed" => terminalStatus' = "failed"
  BY CleanupFacts DEF PollContextEnds, Returns
<1>3. ControllerTypeOK'
  BY <1>1, <1>2 DEF CInv, ControllerTypeOK, Pcs
<1>4. PositionsInRange'
  BY <1>2, StartedFacts DEF CInv, PositionsInRange
<1>5. CallMatchesPc' /\ AnswersHold'
  BY <1>1, NoCallFacts DEF CallMatchesPc, AnswersHold
<1>6. ReportsHold' /\ StatusCoversReports'
  BY <1>1, <1>2 DEF CInv, ReportsHold, StatusCoversReports, Concluded
<1>7. OutcomeFollowsStatus'
  BY <1>2 DEF OutcomeFollowsStatus, Emitted
<1> QED
  BY <1>3, <1>4, <1>5, <1>6, <1>7 DEF CInv

LEMMA PollingKeepsCInv ==
  ASSUME CInv, Polling
  PROVE  CInv'
  BY PassKeepsCInv, PollingSendKeepsCInv, CancelReturnsKeepsCInv, StatusReturnsKeepsCInv,
     AggregateKeepsCInv, PollContextEndsKeepsCInv DEF Polling

-----------------------------------------------------------------------------
(* Calls that are served, lost or late, and the agents' own steps.         *)

(* What holds as long as the controller itself does not move.              *)
LEMMA EnvironmentFrame ==
  ASSUME IInv, CInv, [ControllerNext]_vars,
         UNCHANGED <<pc, next, cursor, started, reports, terminalStatus, result>>
  PROVE  /\ StartedSet' = StartedSet /\ (Emitted' <=> Emitted)
         /\ PositionsInRange' /\ StartsAreInOrder' /\ NoAgentSkipped'
         /\ ReportsHold' /\ StatusCoversReports' /\ OutcomeFollowsStatus'
<1>1. StartedSet' = StartedSet /\ (Emitted' <=> Emitted)
  BY DEF StartedSet, Emitted
<1>2. PositionsInRange' /\ StartsAreInOrder' /\ NoAgentSkipped'
  BY <1>1 DEF CInv, PositionsInRange, StartsAreInOrder, NoAgentSkipped
<1>3. ReportsHold' /\ StatusCoversReports'
  BY <1>1, ReportsStay DEF CInv, StatusCoversReports
<1>4. OutcomeFollowsStatus'
  BY <1>1 DEF CInv, OutcomeFollowsStatus, AllReported
<1> QED
  BY <1>1, <1>2, <1>3, <1>4

(* An answer on its way stays true until it is taken.                      *)
LEMMA AnswersStay ==
  ASSUME IInv, CInv, [ControllerNext]_vars, call' = call
  PROVE  AnswersHold'
<1> SUFFICES ASSUME call.op = "status", call.stage = "replied", call.reply.ok
             PROVE  /\ call.reply.status \in Terminal \cup {"running"}
                    /\ call.reply.status \in Terminal =>
                          /\ call.reply.report = call.reply.status
                          /\ Concluded(call.agent, call.reply.status)'
  BY DEF AnswersHold, Concluded
<1>1. call.agent \in StartedSet /\ call.agent \in Agents
  BY StartedFacts, NoCallFacts DEF CInv, CallMatchesPc, PassOver, ControllerTypeOK
<1>2. /\ call.reply.status \in Terminal \cup {"running"}
      /\ call.reply.status \in Terminal =>
            /\ call.reply.report = call.reply.status
            /\ Concluded(call.agent, call.reply.status)
  BY DEF CInv, AnswersHold
<1>3. \A s \in Terminal : Concluded(call.agent, s) => Concluded(call.agent, s)'
  <2> SUFFICES ASSUME NEW b \in Agents, b \in StartedSet, NEW s \in Terminal, Concluded(b, s)
               PROVE  Concluded(b, s)'
    BY <1>1 DEF Concluded
  <2> QED
    BY ConcludedStays
<1> QED
  BY <1>2, <1>3 DEF Concluded

(* A step that touches neither the controller nor its call.                *)
LEMMA ForeignStepKeepsCInv ==
  ASSUME IInv, CInv, [ControllerNext]_vars, late' \subseteq late,
         UNCHANGED <<pc, next, cursor, call, started, reports, terminalStatus, result>>
  PROVE  CInv'
<1> USE EnvironmentFrame, AnswersStay
<1>1. ControllerTypeOK' /\ CallMatchesPc'
  BY DEF CInv, ControllerTypeOK, CallMatchesPc, PassOver
<1>2. LateStartsAreAborted'
  BY DEF CInv, LateStartsAreAborted
<1> QED
  BY <1>1, <1>2 DEF CInv

(* The call is given up on; if it was a Start, nobody acknowledged it.     *)
LEMMA CallFailsKeepsCInv ==
  ASSUME IInv, CInv, [ControllerNext]_vars, CallFails
  PROVE  CInv'
<1>1. /\ UNCHANGED <<pc, next, cursor, started, reports, terminalStatus, result>>
      /\ call.stage \in {"sent", "replied"}
      /\ call' = [call EXCEPT !.stage = "failed", !.reply = Error]
      /\ late' \in {late, late \cup {<<call.op, call.agent>>}}
  BY DEF CallFails
<1> USE EnvironmentFrame
<1>2. /\ call' = [op |-> call'.op, agent |-> call'.agent, stage |-> call'.stage,
                  reply |-> call'.reply]
      /\ call'.op = call.op /\ call'.agent = call.agent
      /\ call'.stage = "failed" /\ ~call'.reply.ok
  <2>1. call = [op |-> call.op, agent |-> call.agent, stage |-> call.stage,
                reply |-> call.reply]
    BY DEF CInv, ControllerTypeOK
  <2>2. call' = [op |-> call.op, agent |-> call.agent, stage |-> "failed", reply |-> Error]
    BY <1>1, <2>1
  <2> QED
    BY <2>2 DEF Error, Answer
<1>3. ControllerTypeOK' /\ CallMatchesPc' /\ AnswersHold'
  BY <1>1, <1>2, NoCallFacts
  DEF CInv, ControllerTypeOK, CallMatchesPc, AnswersHold, PassOver
<1>4. LateStartsAreAborted'
  <2> SUFFICES ASSUME NEW a \in Agents, <<"start", a>> \in late'
               PROVE  /\ a \notin StartedSet
                      /\ \/ pc = "aborting"
                         \/ pc = "returned" /\ ~Emitted
                         \/ pc = "starting" /\ call'.op = "start" /\ call'.stage = "failed"
    BY <1>1 DEF LateStartsAreAborted
  <2>1. CASE <<"start", a>> \in late
    BY <1>1, <1>2, <2>1 DEF CInv, LateStartsAreAborted
  <2>2. CASE <<"start", a>> \notin late
    <3>1. call.op = "start" /\ call.agent = a
      BY <1>1, <2>2
    <3>2. pc = "starting" /\ a = AgentSeq[next] /\ next \in DOMAIN AgentSeq
      BY <3>1, NoCallFacts DEF CInv, CallMatchesPc, PositionsInRange
    <3>3. a \notin StartedSet
      <4> SUFFICES ASSUME a \in StartedSet PROVE FALSE
        OBVIOUS
      <4>1. PICK j \in DOMAIN AgentSeq : j < next /\ AgentSeq[j] = a
        BY <3>2 DEF CInv, StartsAreInOrder
      <4>2. j = next
        BY <3>2, <4>1, ControllerAssumption
      <4> QED
        BY <4>1, <4>2, AgentSeqFacts
    <3> QED
      BY <1>2, <3>1, <3>2, <3>3
  <2> QED
    BY <2>1, <2>2
<1> QED
  BY <1>1, <1>3, <1>4 DEF CInv

(* The agent answers what its registry says at that moment.                *)
LEMMA ServeKeepsCInv ==
  ASSUME IInv, CInv, [ControllerNext]_vars, NEW a \in Agents, Serve(a)
  PROVE  CInv'
<1>1. /\ UNCHANGED <<pc, next, cursor, started, reports, terminalStatus, result>>
      /\ late' = late
  BY DEF Serve, networkVars
<1> USE EnvironmentFrame
<1>2. /\ call.stage = "sent" /\ call.agent = a
      /\ call.op \in {"start", "status", "cancel"}
      /\ \E reply : call' = [call EXCEPT !.stage = "replied", !.reply = reply]
  BY DEF Serve, ServeStart, ServeStatus, ServeCancel, Served, Replied
<1>3. /\ call' = [op |-> call'.op, agent |-> call'.agent, stage |-> call'.stage,
                  reply |-> call'.reply]
      /\ call'.op = call.op /\ call'.agent = a /\ call'.stage = "replied"
  <2>1. call = [op |-> call.op, agent |-> call.agent, stage |-> call.stage,
                reply |-> call.reply]
    BY DEF CInv, ControllerTypeOK
  <2>2. PICK reply : call' = [call EXCEPT !.stage = "replied", !.reply = reply]
    BY <1>2
  <2>3. call' = [op |-> call.op, agent |-> call.agent, stage |-> "replied", reply |-> reply]
    BY <2>1, <2>2
  <2> QED
    BY <1>2, <2>3
<1>4. ControllerTypeOK' /\ CallMatchesPc'
  BY <1>1, <1>2, <1>3, NoCallFacts DEF CInv, ControllerTypeOK, CallMatchesPc, PassOver
<1>5. LateStartsAreAborted'
  BY <1>1, <1>2 DEF CInv, LateStartsAreAborted
<1>6. AnswersHold'
  <2> SUFFICES ASSUME call.op = "status", call'.reply.ok
               PROVE  /\ call'.reply.status \in Terminal \cup {"running"}
                      /\ call'.reply.status \in Terminal =>
                            /\ call'.reply.report = call'.reply.status
                            /\ runs'[a][RunID].status = call'.reply.status
    BY <1>3 DEF AnswersHold, Concluded
  <2>1. ServeStatus(a) /\ runs' = runs
    BY DEF Serve, ServeStart, ServeStatus, ServeCancel, Served, registryVars
  <2>2. RunID \in RunIDs
    BY ControllerAssumption
  <2>3. CASE Known(a, RunID)
    <3>1. call'.reply = Answer(TRUE, 0, runs[a][RunID].status, runs[a][RunID].report)
      <4>1. call = [op |-> call.op, agent |-> call.agent, stage |-> call.stage,
                    reply |-> call.reply]
        BY DEF CInv, ControllerTypeOK
      <4> QED
        BY <2>1, <2>3, <4>1 DEF ServeStatus, Replied, StatusReply
    <3>2. /\ call'.reply.status = runs[a][RunID].status
          /\ call'.reply.report = runs[a][RunID].report
      BY <3>1 DEF Answer
    <3>3. runs[a][RunID].status \in Terminal \cup {"running"}
      BY <2>2, <2>3 DEF Known, IInv, RegistryTypeOK, RunRecord
    <3>4. runs[a][RunID].status \in Terminal => runs[a][RunID].report = runs[a][RunID].status
      BY <2>2 DEF IInv, TerminalCarriesReport
    <3> QED
      BY <2>1, <3>2, <3>3, <3>4
  <2>4. CASE ~Known(a, RunID)
    <3>1. call'.reply = Error
      <4>1. call = [op |-> call.op, agent |-> call.agent, stage |-> call.stage,
                    reply |-> call.reply]
        BY DEF CInv, ControllerTypeOK
      <4> QED
        BY <2>1, <2>4, <4>1 DEF ServeStatus, Replied
    <3> QED
      BY <3>1 DEF Error, Answer
  <2> QED
    BY <2>3, <2>4
<1> QED
  BY <1>1, <1>4, <1>5, <1>6 DEF CInv

-----------------------------------------------------------------------------
(* The theorems *)

LEMMA InitCInv == ControllerInit => CInv
<1> SUFFICES ASSUME ControllerInit PROVE CInv
  OBVIOUS
<1> USE NoCallFacts
<1>1. /\ pc = "starting" /\ next = 1 /\ cursor = 1 /\ call = NoCall /\ started = <<>>
      /\ reports = [a \in Agents |-> "missing"]
      /\ result = "none" /\ late = {}
  BY DEF ControllerInit
<1>2. ControllerTypeOK
  <2>1. started \in Seq(Agents)
    BY <1>1
  <2> QED
    BY <1>1, <2>1 DEF ControllerTypeOK, Pcs
<1>3. StartedSet = {} /\ PositionsInRange
  BY <1>1, <1>2, StartedFacts, AgentSeqFacts DEF PositionsInRange
<1>4. CallMatchesPc /\ AnswersHold
  BY <1>1 DEF CallMatchesPc, AnswersHold
<1>5. StartsAreInOrder /\ NoAgentSkipped
  BY <1>1, <1>3, AgentSeqFacts DEF StartsAreInOrder, NoAgentSkipped
<1>6. LateStartsAreAborted /\ ReportsHold /\ OutcomeFollowsStatus
  BY <1>1 DEF LateStartsAreAborted, ReportsHold, OutcomeFollowsStatus, Emitted
<1>7. StatusCoversReports
  BY DEF ControllerInit, StatusCoversReports
<1> QED
  BY <1>2, <1>3, <1>4, <1>5, <1>6, <1>7 DEF CInv

LEMMA NextCInv == IInv /\ CInv /\ [ControllerNext]_vars => CInv'
<1> SUFFICES ASSUME IInv, CInv, [ControllerNext]_vars
             PROVE  CInv'
  OBVIOUS
<1>1. CASE UNCHANGED vars \/ Finished \/ ContextEnds
  <2>1. /\ late' = late
        /\ UNCHANGED <<pc, next, cursor, call, started, reports, terminalStatus, result>>
    BY <1>1 DEF Finished, ContextEnds, vars, controllerVars, networkVars
  <2> QED
    BY <2>1, ForeignStepKeepsCInv
<1>2. CASE Starting
  BY <1>2, StartingKeepsCInv
<1>3. CASE Polling
  BY <1>3, PollingKeepsCInv
<1>4. CASE CallFails
  BY <1>4, CallFailsKeepsCInv
<1>5. ASSUME NEW a \in Agents, Serve(a)
      PROVE  CInv'
  BY <1>5, ServeKeepsCInv
<1>6. ASSUME NEW a \in Agents, ServeLate(a) \/ AgentWorks(a) \/ AgentFault(a)
      PROVE  CInv'
  <2>1. /\ late' \subseteq late
        /\ UNCHANGED <<pc, next, cursor, call, started, reports, terminalStatus, result>>
    BY <1>6 DEF ServeLate, AgentWorks, AgentFault, controllerVars, networkVars
  <2> QED
    BY <2>1, ForeignStepKeepsCInv
<1> QED
  BY <1>1, <1>2, <1>3, <1>4, <1>5, <1>6 DEF ControllerNext

(* The inductive invariant of the composed system: typing, indices in      *)
(* range, calls of the right phase, late starts only of aborted runs, and  *)
(* answers and reports that are still true when they are used.             *)
THEOREM ControllerInductive == ControllerSpec => [](IInv /\ CInv)
<1>1. ControllerInit => CInv
  BY InitCInv
<1>2. IInv /\ CInv /\ [ControllerNext]_vars => CInv'
  BY NextCInv
<1> QED
  BY <1>1, <1>2, RegistryInvariant, PTL DEF ControllerSpec

(* When RunController emits a report, no agent that acknowledged the run   *)
(* still executes it, whatever calls were lost or served late and whichever*)
(* agents were stopped or restarted.                                       *)
THEOREM EmittedRunsAreOver == ControllerSpec => []EmittedReportMeansRunIsOver
<1>1. IInv /\ CInv => EmittedReportMeansRunIsOver
  <2> SUFFICES ASSUME IInv, CInv, Emitted, NEW a \in StartedSet
               PROVE  runs[a][RunID].goroutine \notin Live
    BY DEF EmittedReportMeansRunIsOver
  <2>1. a \in Agents /\ RunID \in RunIDs
    BY StartedFacts, ControllerAssumption DEF CInv
  <2>2. reports[a] # "missing"
    BY DEF CInv, OutcomeFollowsStatus, AllReported
  <2>3. Concluded(a, reports[a]) /\ reports[a] \in Terminal
    BY <2>1, <2>2 DEF CInv, ReportsHold, ControllerTypeOK
  <2>4. runs[a][RunID].status # "running"
    BY <2>3 DEF Concluded, Terminal
  <2> QED
    BY <2>1, <2>4 DEF IInv, RunningIffLive
<1> QED
  BY <1>1, ControllerInductive, PTL

(* A completed report hides no agent: each one with jobs was started, and  *)
(* none of them ended its part cancelled or failed.                        *)
THEOREM CompletedIsComplete == ControllerSpec => []CompletedMeansEveryAgentCompleted
<1>1. CInv => CompletedMeansEveryAgentCompleted
  <2> SUFFICES ASSUME CInv, result = "completed", NEW a \in Agents, Assignment[a] # <<>>
               PROVE  a \in StartedSet /\ runs[a][RunID].status \in {"completed", "absent"}
    BY DEF CompletedMeansEveryAgentCompleted
  <2>1. pc = "returned" /\ Emitted /\ AllReported
    BY DEF CInv, OutcomeFollowsStatus, Emitted
  <2>2. a \in StartedSet
    BY <2>1 DEF CInv, NoAgentSkipped
  <2>3. terminalStatus = ""
    BY <2>1 DEF CInv, OutcomeFollowsStatus, StatusCoversReports
  <2>4. reports[a] = "completed"
    BY <2>1, <2>2, <2>3 DEF CInv, AllReported, StatusCoversReports, ControllerTypeOK, Terminal
  <2> QED
    BY <2>2, <2>4 DEF CInv, ReportsHold, Concluded
<1> QED
  BY <1>1, ControllerInductive, PTL

(* One failed agent makes the emitted report a failed one, in whatever     *)
(* order failures, cancellations and timeouts are noticed.                 *)
THEOREM FailureIsNeverHidden == ControllerSpec => []FailureDominates
<1>1. CInv => FailureDominates
  BY DEF CInv, FailureDominates, OutcomeFollowsStatus, StatusCoversReports
<1> QED
  BY <1>1, ControllerInductive, PTL

=============================================================================
