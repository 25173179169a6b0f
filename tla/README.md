# A TLA+ model of EMM-GO-Script

The repository holds `pam-loadtest`, a distributed load generator for a PAM product (Go, with a Node
worker for browser sessions), and eleven stand-alone load tools and servers. These modules model what is
hard in it: several agents, each with its own runs, slots and goroutines; a controller that polls them over
calls that get lost; a scheduler that retries, stops and tears down sessions concurrently; a pool of worker
processes it talks to over pipes; the inventory and the planning that come before a run; and the queues,
counters, deadlines and files of eight of the tools. TLC checks the modules on small instances, and TLAPS proves
the properties of the registry, the controller, the scheduler, the browser pool, the SPA server and the
tools for every instance.
`PROJECT.json` maps each definition to the lines it models. Paths below are relative to
`src/pam-loadtest/internal/` unless they start with `src/`.

## Inventory

| Component | State | Operations | What is hard |
|---|---|---|---|
| Agent registry, RPC service (`distributed/registry.go`, `service.go`) | runs by id, the active run, the agent's context | Start, Status, Cancel, the goroutine of a run | cancel racing completion; one slot; visibility of status and report; memory only |
| Distributed controller (`app/distributed.go`) | agents started, reports, terminal status, primary error, cleanup timers | start all in order with a delay, poll, cancel, aggregate | lost and late calls, restarted agents, cancellation at any line, termination |
| Session scheduler (`scheduler/scheduler.go`) | handles, failure counters, a goroutine per job | launch, retry, drain, join, close, collect | three-way selects, teardown, retries, invented observations |
| Run assembly and report (`app/runtime.go`, `runreport/report.go`, `metrics/metrics.go`) | tracker counts, metrics, stop reason | attempt, start failure, finalize, snapshot, automatic stop, terminal evidence, aggregation | counters kept in several places that must agree |
| Session engine (`engine/runner.go`, `session/session.go`) | connected flag, observation channel | create a session, run it, reconnect SSH | classification of errors under a cancelled context |
| Browser pool and worker (`browser/`, `src/pam-loadtest/browser-worker/worker.mjs`) | slots, clients, pending sessions | run, restart, close; start, stop, heartbeat | close against restart, dropped or broadcast messages |
| Partition, allocation, configuration (`distributed/partition.go`, `allocation/`, `config/`) | none | expand, bind, partition | greedy choices, limits in three dimensions, uniqueness |
| Inventory (`inventory/`) | the remote assets | plan, apply in batches, run again | failure between two batches, imports carried out although they failed |
| Transports and protocols (`transport/`, `protocol/`) | connection, counters | reader and writer loops | inactivity timers, close |
| PAM client, SM2 login, command line | token, cookies | HTTP requests, flags, output | little control of their own |
| EMMProxy (`src/EMMProxy`) | task channel, counters, result file | tunnel and business request per task, batched result lines | full channels, drain at the end, stages without a deadline |
| EMMProxy-2, TLS-Test, sgp-xcad | channel or semaphore, counters | a fixed or timed number of attempts | everything handed out is counted before the report |
| quic-client | semaphore, counters, file of tokens | authenticate, append the token | look at the file, then append |
| ldap | two channels, a ticker, atomic statistics | feed readers and writers, run a scenario, record | scenarios left behind, lock-free minimum and maximum, writes owed for reads |
| arms-load-generator | permits, statistics, results file | start up, connect, send by permit, report | dropped permits, accounting of start-up, last row before the last write |
| SPA-test-server | places per path, log queue | authenticate, proxy, log, shut down | place on every path out, deadlines against the write timeout, log closed under handlers |
| emm-download-2, redis-test, cpu_load_controlle | a counter at most | independent loops | nothing shared |

How they interact: the controller expands the configuration into jobs, binds each to an asset,
partitions them over the agents, and calls Start, Status and Cancel on each agent's service. The
service drives the registry; the goroutine the registry starts calls `RunConfigJobs`, which assembles
tracker, metrics, engine and stop policy and runs the scheduler. The scheduler calls the engine once per
attempt and reads connection and outcome over channels; its calls into the tracker make the report
that travels back to the controller in a Status reply, where the reports are validated and merged. The
stand-alone tools share no code and no state with each other or with `pam-loadtest`.

What makes each correct is in the hazards of `PROJECT.json`, each with the properties that watch it
or the reason none does yet.

## Modules

| Module | Models | Checked by |
|---|---|---|
| `RunLifecycle` | what a registry promises of one run: once cancelled for a caller it never completes; it ends once; what was answered stays true | refined by `AgentRegistry` |
| `AgentRegistry` | `Registry` of one or several agents, with the service's checks and the agent process | `agent` |
| `AgentRegistryProofs` | theorems about it | TLAPS |
| `Controller` | `RunController` composed with the registries (extends `AgentRegistry`) and the calls between them | `controller`, `controller_orphan`, `controller_cancel_status` |
| `ControllerProofs` | theorems about it (extends `AgentRegistryProofs`) | TLAPS |
| `SessionScheduler` | `RunWithRetries`, the goroutines of jobs and sessions, tracker, stop policy, verdict | `agent`, `scheduler_teardown` |
| `SessionSchedulerProofs` | theorems about it | TLAPS |
| `BrowserWorker` | the Node process, its pipes, the goroutine that reads them, `ProcessClient.Close` | with `BrowserPool` |
| `BrowserPool` | `Pool` and the calls of `ProcessClient.Run` (extends `BrowserWorker`) | `browser_shared`, `browser_single`, `browser_isolation` |
| `BrowserPoolProofs` | theorems about it | TLAPS |
| `Planning` | `config.Expand`, `allocation.Bind`, `distributed.Partition` and the checks between them | `standalone_tools` |
| `InventoryApply` | the plans of the inventory, and `Apply` against the PAM | `standalone_tools` |
| `PreparationProofs` | theorems about these two | TLAPS |
| `JTLWriter` | the result file of EMMProxy | with `LoadTools` |
| `LoadTools` | EMMProxy, EMMProxy-2, TLS-Test, quic-client, sgp-xcad (extends `JTLWriter`) | `standalone_tools` |
| `LoadToolsProofs` | theorems about both | TLAPS |
| `LDAPStress` | the LDAP tool in its three modes | `standalone_tools` |
| `ArmsGenerator` | the ARMS generator | `standalone_tools`, `arms_last_row` |
| `LoadGeneratorProofs` | theorems about these two | TLAPS |
| `LogSink` | the asynchronous logger of SPA-test-server | with `SPAServer` |
| `SPAServer` | SPA-test-server (extends `LogSink`) | `standalone_tools`, `spa_cut_body`, `spa_shutdown` |
| `SPAServerProofs` | theorems about it | TLAPS |

### AgentRegistry

`runs[a][r]` is the record agent `a` keeps of run `r` (`Absent` if none): its status, its report, whether
cancellation was requested, whether its context is done, and where its goroutine is (executing, returned
with or without an error and not yet holding the mutex, gone); `active[a]` is the single slot;
`stopping[a]` says whether the parent context is done. Every handler takes the mutex once, so it is one
action: `Start` (guarded by `Accepts`, with `validateRunRequest` as `ValidRunRequest`), `Cancel`, and
`Settle` for the goroutine's section. `ExecuteReturns` lets the executor return with any outcome at any
time: the `SessionScheduler` module describes the executor the program has. `StopAgent` cancels the
parent context; `Restart` is a new process with an empty map, because nothing is persisted. `Status` changes nothing and is the operator `StatusReply`.
Jobs are records with a mode, a protocol, an asset and an account; capabilities are the numbers and
sets the service compares them with.

`MCAgent` checks the registry and the scheduler below in one run: either the registry serves requests, its executor
returning at any time, or the scheduler executes a run. The two do not move together, so that their state spaces add up.

### Controller

`pc` says where `RunController` is: starting the agents, in the delay between two starts, aborting,
polling, cancelling everyone, waiting for the next tick, returned. `next` and `cursor` are its loop
positions; `started`, `reports`, `terminalStatus`, `primaryErr` and `cleanup` are the variables of the
code; `done` holds the contexts that ended (operator, run deadline, cleanup grace, abort). `call` is the
call in progress: sent, then served by the agent's registry, then answered; it fails when its context
ends, when the agent stops, or as a fault, before or after it was served, and a Start or Cancel that was given
up on may still be served (`late`). `faults` counts lost calls, stopped or restarted agents and runs of
another controller that occupy an agent: at most `MaxFaults`. Timers may expire whenever they are armed.
The aggregation of reports may refuse them, which the model leaves open.

### SessionScheduler

`main` is the goroutine of `RunWithRetries`, `worker[j]` the one of job `j`, `sess[j]` the goroutine
of its latest session; each channel operation or locked call is a step, and each `select` is as many actions as
it has cases. `metrics` is what the stop policy reads, `counts[j]` what the tracker counts for the job,
`errors` the two failures the scheduler counts itself. An error is one of six kinds: what the code tells apart by
searching its text (transport, timeout, both, cancellation, other). `evidence` stands for the conditions
`Finalize` puts on latency, activity and traffic. A goroutine
counts its attempt as it starts, and a call of the engine that succeeds ends in one step. The order of
launch times is the plan's; their distance is abstracted, so the deadline may come at any time.

### BrowserWorker and BrowserPool

A worker is named by its slot and its generation: how many workers the slot had. `proc[w]` holds what the
process knows (its sessions, the start in progress) and how far its client has closed it; `input[w]` and `output[w]` are the
pipes; `pending[w]` is the map of registered calls with their channels. The process takes one message at
a time (`StartTaken`, `StartEnds`, `StopTaken`, `ShutdownTaken`, `Exit`), and an exception becomes an error without an id
(`Thrown`). `Deliver` hands the next message to its call or, without an id, to all; it may be lost once the session's
heartbeats can fill the channel. Heartbeats are not messages of the model: `held` marks the sessions that send them.

What throws leaves things behind. A start that throws after `newContext` and a stop whose `context.close` throws leave a context
of the browser without a session (`left`): a stop is answered all the same, and the context stays until the browser is
closed or its process ends. A shutdown may throw half way (`ShutdownFails`), and so may the second one, at the end of the input (`EndFails`): it only sets the exit code,
so that a browser that is still open keeps the process up (`stuck`), and `cmd.Wait` with it. Both are faults, counted by `MaxTrouble`.

`call[j]` is where the call of the session of job `j` is in `Pool.Run` and, below it, in `ProcessClient.Run`; each
channel operation, lock, write to a pipe and wait is a step. `avail[s]` counts how often slot `s` is in the channel;
the order in the channel is abstracted to any order. `closer` is the goroutine in `Pool.Close`. A caller may call again when the
engine would: the context goes on and the error came before the session was connected. The error of a message carries the job it is
about (`of`), which no code reads and only `SessionsAreIsolated` uses. The test of the protocol's name and what travels in a
message but its type and id are left out: the plan only gives browser jobs to the pool.

### Planning

`plan` is where the planning of one run is: its input, then its jobs, then the part of each agent. `Expand`,
`prepareManifestJobs` and `PartitionJobs` are the three steps, each of which may refuse. A job is its place in the
sequence with a protocol, a mode and an asset; the shuffle that the code draws from a seed is part of the input.
`UpTo` counts the jobs of the first protocols, and a job belongs to the protocol in whose block its number is. `Bound` gives the
job that is the n-th of its protocol the n-th asset of the pool. The dealing works on sets of job numbers: a deal is what is
`left`, the `cursor` and the `parts`. `NextJob` is the one the code's order (direct first, those with the fewest agents first,
stably) puts first, `Assign` is one turn of the round robin: the first agent from the cursor on that `MayTake` the job; `Partition` takes
as many turns as there are jobs, and the run is refused if a job is left. `RefusalIsJustified` compares a refusal with a search over all dealings.

### InventoryApply

`command` is the inventory command: the options and the report of `Apply`, what its first listing misses (`missing`), what of
that is `left` to import, how often the import was sent. The batch is the first of what is left. `pam[i]` says how many records the PAM has of the
planned asset `i`, and whether a record of somebody else has its
name or address. An import is carried out for any subset of its batch: answered, refused, or without an answer, then or later
(`late`); the client sends it again up to `ImportRetries` times. The plans of the program's own specifications are built
with their real numbers (`MakePlan`); what is applied is a small one. The PAM is external.

### LoadTools and JTLWriter

`Kind` says what distinguishes the five tools: a time or a number of attempts, a channel and a pool or
goroutines behind a semaphore, a result file or none, and the stages of an attempt with their deadlines. `Decide`, `Enqueue`,
`Spawn`, `Report` and `CloseFile` are the steps of main; `Passes`, `Fails`, `DialsAgain` those of an attempt, then `Record`,
`updateStats` and the two deferred calls of a goroutine. `StatTokens` and `AppendToken` are separate steps, as the code has no
lock around them. In `JTLWriter` a result goes into the channel or is counted as dropped, the goroutine collects batches, and a
batch that cannot be written is lost and emptied; the counts in `missed` are the model's, the code only logs.

### LDAPStress

`feeder` is the loop that hands users to `channel`; it looks at the end of the run between a read and the write the read made
due. `worker[i]` is a worker with the goroutine of its scenario, which it leaves behind at the timeout. `recordSuccess` is
four steps, load and compare-and-swap of the minimum and of the maximum. `took` and `applied` are history:
the latencies of the successes and the modifications the server made.

### ArmsGenerator

`main` goes through start-up, running, stopping and the last results; `thread[t]` is a worker that dials, serves and
reconnects. `scheduler` counts in fractions of a permit (`due`, `carry`), hands out the whole ones one by one and loses to `backlog` what finds the channel full. A
worker that finds a permit after the end throws it away. `reporter` writes rows, the last one when the context ends.

The code carries the fraction as a `float64`, whose sums are not exact: ten tenths are less than one. `permitsForTick` therefore has
two outcomes where the exact sum is a whole number, that number or one less with the fraction almost whole. Nowhere else does the
error of the sum matter: it is far smaller than the distance of any other sum from a whole number. `PermitsAreConserved` says what is left of the promise: at such a
point one permit may be late, and the next tick makes up for it.

`MCStandaloneTools` is the composition of `LoadTools`, `LDAPStress`, `ArmsGenerator`, `InventoryApply`, `Planning` and `SPAServer`: one of them runs while the others are in an ended state, since they share
nothing; the state spaces add up and do not multiply. It extends all of them, so that the properties it checks are the
ones the proofs state. Its `TypeOK` and `EveryAttemptIsCounted` are conjunctions of one property each of `LoadTools`, `LDAPStress` and `ArmsGenerator`;
`TypeOK` also says that the plans of the inventory are made (`PlansAreMade`).

### SPAServer and LogSink

`request[r]` is the handler of a request: reading, upstream at one of the stages of its path, answering with a status, done with how
its answer went out. `places` are the semaphores' channels, `server` the phase of main with the exit code, `sink` the log. A
stage passes, breaks or times out; the last one has one of the outcomes of the response parser. `Longest` adds, stage by stage, the
deadlines up to the stage a request is in, from the code's defaults, and compares them with the time to write. Every log line of a handler is put into the
queue, dropped and counted, or refused after `Close`, in the step that issues it.

The log's file may fail at any flush. The code ignores the error, and its buffered writer discards everything from then on: such lines are `lost`. The
model writes the buffer at a flush only, and counts a flush that fails as lost as a whole.

A shutdown ends when no request is unfinished, also with an error of the listener that met the signal, or when its fifteen seconds are over. `SinceSignal` says how long
a request may have run since the signal; only a request for which that can be more than fifteen seconds lets the shutdown time out.

## Runs

| Run | Instance | Shows |
|---|---|---|
| `agent` | one agent, 2 run ids, requests on both sides of every refusal; or an SSH and a graphical job, one retry, policy at 2 attempts and 50 % | registry: type, slot, capacity, cancel promise, report visibility, refinement of `RunLifecycle`, a cancelled run gives the agent back; scheduler: the report adds up and agrees with the error, completed means complete, a session left behind is a failure, the run returns |
| `controller` | three agents of which the second has no job, at most one fault | no report before the run is over; a completed report means every agent completed; a failure is never lowered; it always returns |
| `controller_orphan` | same | fails: `pam-loadtest/README.md:29` promises to wait for every agent |
| `controller_cancel_status` | same | fails: an operator's cancellation may be reported as failed |
| `scheduler_teardown` | the two jobs, no retry, policy off | fails: a transport failure during the ramp is reclassified by the teardown and maintained |
| `browser_shared` | two sessions on one worker that takes two, one fault or retry | slots are conserved, a cancelled session is no longer registered in its worker, a closed pool has no process |
| `browser_single` | two jobs after each other on a worker of one session, which may be replaced once | one process a slot; every worker that was there when the close began has been sent its shutdown and has its input closed when it returns, or a call is closing it; calls and close end |
| `browser_isolation` | as `browser_shared`, no fault | fails: a session that cannot start ends the others of its worker |
| `standalone_tools` | each tool, the inventory, the planning and the SPA server, one at a time; the server with two requests, one place a path, a queue of one line and four configurations | every attempt is counted once; files agree with the report; extremes, permits and owed writes are right; an inventory report is true; a plan is dealt exactly and refused for cause; places are conserved, every line of the log is accounted for, answers come in time; tools end, and the server comes to rest |
| `arms_last_row` | same | fails: after Ctrl+C the last row of the ARMS results does not wait for the current writes |
| `spa_cut_body` | the server alone | fails: a business response whose body breaks off is answered with 200 |
| `spa_shutdown` | the server alone | fails: the shutdown gives up on a request after fifteen seconds |

The seven failing runs are the findings; each states a sentence of the repository: `src/pam-loadtest/README.md:29` and `:3`, the test of the controller
(`app/controller_test.go:472`), the comment at `scheduler/scheduler.go:188`, `src/arms-load-generator/README.md:39`, and `src/SPA-test-server/README.md:122` and `:178`.

Bounds and why they are enough. Agents share no state, so one is enough for the registry, and two run
identifiers are what its slot needs to be contended. Two agents with jobs are the least for which one can
fail while another runs, and the third, without, is the one every loop skips; one fault gives every single
lost call, restart, stop or occupied agent at every place, and the controller has no counter of faults. Two jobs of different protocols cover both retry
rules and let one finish while another is at any point; one retry gives a first, a repeated and a last
attempt. The errors of the `agent` run leave out the transport error that does not read like a timeout: it is retried no more than any other error, and is
reclassified no differently from the one that does. The policy there is set so that the automatic stop fires on some paths and not on
others. No other counter is bounded: attempts stop with the retries.

Two browser jobs on one slot meet in every way the code has: on the same worker, or one after the other on a worker and its
replacement; slots share nothing but the channel. `MaxTrouble` counts crashes, failing activities, failing shutdowns, unreadable output and
retries, one of which may happen at any place; starts and closing sessions that throw, lost messages and workers that
cannot be created are not counted. `Generations` lets a worker be replaced once, and a replacement is final by the code.
`browser_single` checks liveness without those faults: a start that throws makes the replacements there.

The tools. Two clients with three attempts (two where there is a queue) meet at every counter, semaphore and file, and one client
with four attempts fills the queue of two; the result channel holds one result and a batch two, so that both overflow and
partial batches occur. The LDAP configurations have two workers that share their statistics, three latencies (0 among them, which the code
takes for "none"), every scenario and every mode, with an interval of two reads. The ARMS loads are full speed; five permits a
second on a channel that the third tick of the ramp overfills; and two threads that compete, with two ticks a second so that fractions are carried. Two nodes with two usable addresses and three assets in batches
of two make a partial last batch; one retry and two runs of the command let an import be carried out twice and be found by the second run.
Plans are dealt to two agents of every size from two to three sessions, or to one agent with every shuffle and with every kind of
wrong input. Two requests on one place are the least that compete; the four configurations have each path, log level,
a wanted body and a slow client.

## Fairness

- Registry: an executor whose context is done returns, and a goroutine that waits for the mutex gets it.
  That the executor honours its context is what `RunReturns` shows of the executor the program
  has, under the assumptions of that run.
- Controller: its own steps are taken, its timers expire, and a call is served or, when its context
  is done, fails. Nothing is assumed of the executors: the grace period bounds the wait for them.
- Scheduler: runnable goroutines run, the run's deadline expires (`WithTimeout`), and a session that its
  own goroutine closed before it was connected ends. The last is an assumption about the transports: the code waits
  for such a session without a bound (`scheduler.go:129`). Sessions that were handed over are not assumed to
  end: the five seconds of `scheduler.go:176` make the run return all the same.
- Browser pool: runnable goroutines run, the run's context ends, and a worker goes on with what it was asked for
  and exits at the end of its input. The last is an assumption about Node and Chromium, on which the code rests:
  `cmd.Wait` (`browser/process.go:200`) has no limit. A shutdown that throws (`EndFails`) breaks it, and the close never ends. That calls return needs the worker only to be closed, never
  to answer: five seconds bound the wait for a stop.
- Tools: goroutines that can run do, the run's time passes, and a stage with a deadline ends. Of a stage without one nothing
  is assumed: `ToolsEnd` says that a tool ends or waits in such a stage for ever, which only EMMProxy and EMMProxy-2 have. LDAP
  scenarios end by the timeout of their worker, ARMS dials and writes by theirs.
- SPA server: main, the handlers and the log's goroutine run, and every stage has a deadline. Clients, the other side and the
  operator are not fair: they may leave, stay silent or never interrupt.
- Inventory and planning: none, only safety is stated.

## Proofs

`AgentRegistryProofs` proves, for all agents, run identifiers, capabilities and requests, from the
named assumptions of `AgentRegistry` (the empty identifier is no run, capabilities are natural numbers, a
request carries a list of jobs):

- `TypeCorrect`, `SlotIsTheLiveRun`, `ReportsMatchStatuses`, `CancelIsHonoured`, `LoadIsBounded`:
  the invariants of the registry in the `agent` run;
- `AnswersAreFinal`: an action property; what Status and Cancel say of an ended run changes only when the process forgets it;
- `ImplementsLifecycle`: `Spec` implements `RunLifecycle` under the mapping `Fate`.

The argument. None of the invariants is inductive by itself: that the load is bounded needs that only
one run is live, which needs that the slot names it, and that a cancelled run stays cancelled
needs that a run with a report has no goroutine left to settle it again. `Inductive` proves the
conjunction of all of them with the type invariant, one step per action; the others follow from it.
The refinement uses it for the same reason: a step may change a run's fate only while its goroutine lives.

`SessionSchedulerProofs` proves, for any plan of distinct jobs, any number of retries, any stop policy and
any errors (the named assumptions of `SessionScheduler`):

- `SchedulerTypeCorrect`, `ReportAddsUp`, `RetriesAreAccountedFor`, `ErrorMatchesReport`,
  `CompletedIsComplete`, `LeftoversFail`: the invariants of the scheduler in the `agent` run.

The argument. Five of them speak of a run that has returned, so what they need must be carried through the
run. `Stage` says how far a job has come: where its goroutine is or, once that is gone, whether it failed to
start, was handed over or was collected. `SchedulerInv` gives the accounts of each stage (`StageInv`: a goroutine
that is trying has decided nothing and has counted as many retries as its counter says; a job handed over
has not failed to start; one collected without a failure ended with evidence) and adds that a job is
handed over at most once, that the collection starts when no goroutine is left, and that the scheduler's
counters are the sizes of the sets of failed jobs (`ErrorsInv`). `SchedulerInductive` is this invariant;
`ReturnedStages` says that a run that returned has only jobs never launched, failed or collected, and the
theorems follow. Conservation across `Collect` rests on the handles being distinct, which rests on a goroutine
that handed over being gone.

`ControllerProofs` proves, for every list of agents, assignment of jobs, set of foreign requests and number of faults (`ControllerAssumption`):

- `AgentsStayRegistries`: a step of the controller, the network or a fault is a step of the registries or leaves them alone, so that
  the theorems of `AgentRegistryProofs` hold of the agents of a distributed run;
- `AgentsKeepTheirPromise` and `AnswersStayFinal`: so each agent implements `RunLifecycle` under the calls of the controller, late ones and restarts
  included, and its answers about an ended run stay what they were;
- `EmittedRunsAreOver`, `CompletedIsComplete`, `FailureIsNeverHidden`: the invariants of the `controller` run.

The argument. What is reported must be true when the report is emitted, which may be long after an agent answered. `ControllerInductive` therefore
says that every answer on its way and every report collected still holds of the agent's registry, or the agent restarted and forgot it (`AnswersHold`,
`ReportsHold`). A registry can only break that by running the same run again, and only a Start of that run could make it: `LateStartsAreAborted` says
that a Start that was given up on, which may be served at any later time, goes to an agent that was never taken for started, and that the
controller aborts. The other parts place the call in progress in the loop it belongs to and say that the loops pass over no agent with jobs.

`BrowserPoolProofs` proves, for any finite set of jobs, number of slots, sessions a worker takes, replacements and faults:

- `PoolTypeCorrect`, `SlotsAreConserved`, `WorkersAreReplaced`, `CloseTellsEveryWorker`, `CancelledCallsLeaveNothing`, and `SharedPoolIsEmptied` for
  `PerWorker > 1`: the invariants of the `browser_shared` and `browser_single` runs. Without that last assumption a call may create a worker while the
  pool closes. `CloseTellsEveryWorker` says what is left of the promise: every worker that was there when the close began has been sent its shutdown and the end of its
  input, by the close or by the call that replaces it, unless that call is still between the two.

The argument has four layers, each of which uses those before. `Typed` adds to the types that a call works on the worker its slot has at that
moment, and that a call only replaces a worker it has to itself and has closed. `WorkersOfSlots`: only the newest worker of a slot is alive, and in an open pool only
the call that replaces it may have closed it. `ClosingInv` follows `Close` from slot to slot: what it inherited is still the worker of the slot, or
somebody closed it; `ClosedToTheEnd` that who set the flag goes on to the shutdown and the end of the input. `StopInv` is about messages: after the stop of a job there is no start of it in the pipe, and once the stop is
answered its worker has no session of the job and is starting none; a context in `left` belongs to no session, and the theorem says nothing of it. It needs the order of the pipe, and that nobody calls again for a job whose context is done.

`SPAServerProofs` proves, for any finite set of requests, any limits, configurations and length of the log's queue (`ServerAssumption`):

- `PlacesAreConserved`, `LogIsComplete`, `AnswersComeInTime`: the invariants of the server in `standalone_tools`.

The argument. Every step of a handler, its client or its peer is a `RequestStep`: the request becomes another, a place is taken or given
back as the one holds a place and the other does not, and the log keeps its accounts. That is shown once per action; that a `RequestStep` preserves the
invariant is then shown once, with the cardinality of the set of holders. `SinkInv` adds that only main closes the log, that nothing is refused before,
and that its goroutine ends with nothing left; `StopInv` that a server on its way to exit code 0 is closed to requests and has none, from which follows that none of its lines is refused.
That answers come in time needs that a request is only ever at a stage of its own path; the sum of `Longest` is a recursive function of at most five
steps, which are unfolded one by one.

`LoadGeneratorProofs` proves of the LDAP tool, for any configurations, number of workers, ticks and latencies (`StressAssumption`):

- `TypeCorrect`, `WritesAfterReads`, `ExtremesOfSuccesses`, `RequestsAreCounted`.

The argument. `FeederPlace` adds to `WritesFollowReads` where the feeder is: between a read and the write it made due the counts are one write apart. `ExtremesInv` says that the
minimum and maximum are those of the successes but for the workers that have counted one and not stored it yet, and that what such a worker has read is
the stored extreme or one that a better one replaced: without the second part the compare-and-swap might lose a value. `CountsInv` counts with
the users handed out those in the channels and with the workers; the modifications that were made lie between the successes and the requests because a
scenario left behind may still make its own, and makes it once.

It proves of the ARMS generator, for any loads, number of threads and ticks a second (`GeneratorAssumption`):

- `GeneratorTypeCorrect`, `PermitsAreKept`, `ConnectionsAreCounted`, `LastRowMissesFew`.

The argument. The types rest on main never hearing more first attempts than there are workers, so `FirstsAnswer` counts those that are unread, heard and not answered.
`PermitsInv` says that what is due is the permits given, times the ticks a second, and the fraction that is carried, which is a whole permit at most, however the sums were rounded; what
that leaves of the quotient is arithmetic of its own (`WholePermits`). `ConnectionsInv` adds the dials under way. `RowInv` says that after the last row nobody begins a transaction,
so that only those being sent then can be missing from it. Every action of a worker is shown once to be a `WorkerStep`, which
changes the counters as it changes the worker; the invariants are shown once for a `WorkerStep`.

`LoadToolsProofs` proves, for any clients, attempts, capacity of the result channel and size of a batch (`ToolsAssumption`):

- `ToolTypeCorrect`, `AttemptsAreReported`, `FilesAgree`: what `standalone_tools` checks of the five tools.

The argument. `Typed` says, besides the types, that tasks are handed out in their order and that the queue holds tasks nobody has taken, each once; `KindFacts` that every tool has
at most eight stages, that only quic-client touches the file of tokens and that it looks at it right before it appends. `CountsInv` says that the counters are those of the attempts
that have been counted, and that there are no others when the report is made. `WriterInv` follows a result: once recorded it is in the channel, in the batch, in the file or missed, in
one of these only and once, and the writer is told to stop when everything is reported. The three of them give the first half of `FilesAgree`. The second is about a look at a file that
is stale when it is used: `TokenInv` says that while the file is empty everybody about to append has seen it so, and that the titles written and those to come are no more than the clients.
That holds because all who see the empty file are behind the semaphore at that moment, which is `SemaphoreInv`.

`PreparationProofs` proves of the inventory command, for any plan that can be made, size of an import, number of retries and of runs (`InventoryAssumption`):

- `ReportsAreTrue`: the invariant of the inventory in `standalone_tools`.

The argument. A report is made of three listings, between which the PAM may change. `ReportAgrees` says at each point of `Apply` that everything wanted that is not left is
in the PAM and that the counters are those of the sets; `UnsentAreMissing` that what is left and there all the same was sent in an import without an
answer, for only that can be carried out late; `DoublesWereUnanswered` follows from it when an import meets a record that is already there.

It proves of the planning, for every configuration, manifest, shuffle and list of agents (`InputAssumption`: counts are integers, a shuffle has every place once):

- `JobsAreAsConfigured`, `PartsAreExact`, `RefusalsAreJustified`, and together `PlansAreSound`: the invariant of the planning in `standalone_tools`.

The argument. The jobs of a protocol are an interval of numbers, in two parts by their mode (`BlockFacts`, `AskedAreExpanded`). Every place in a set of numbers is taken by
exactly one of them (`EveryPlaceIsTaken`), so that jobs of a protocol that are told apart by their places get assets that differ (`BoundFacts`). The dealing is a recursive function: it
exists because steps can be taken one after the other (`StepsExist`), and after each turn a job less is left or nobody may take the next one (`TurnsAreDealt`), with every job that is not
left in one part and every part within its limits (`AssignFacts`). A dealing that is stuck with agents of the same protocols and only direct jobs has filled every agent as far as
another dealing can, so that the other one has no place for the job either (`StuckForCause`).

A word on induction. The library's induction theorems are of no use here, as they take a predicate as a parameter. `Smallest` (from the well-foundedness of the natural
numbers) gives the smallest counterexample instead, and `OneAfterTheOther` states it for a set of numbers; these carry the proofs about the recursive functions above.

What is only model-checked. Liveness (`CancelFreesAgent`, `ControllerReturns`, `RunReturns`, `CallsReturn`, `CloseEnds`, `ToolsEnd`, `ServerLives`) is out of
reach of the prover. `TypeOK` and `EveryAttemptIsCounted` of `MCStandaloneTools` are conjunctions over several tools: their parts are proved, each of its own module's
specification. The exception is `PlansAreMade`, a computation with the numbers of three fixed specifications, which TLC carries out.

## Not modelled, and the plan

Not modelled:

- the SSH reconnection loop of the engine and the reader and writer loops of the transports: their timers and
  counters need a model of the wire protocols to mean anything, and the scheduler sees only how they end;
- a browser worker that remembers a failed launch: in the model a start may fail always, not for good;
- reading configurations, their defaults and `ApplyRunOverrides`; building a manifest, the verify command and the
  paging of listings; the aggregation of reports, which the controller's model lets fail;
- TLS, QUIC, Kerberos, LDAP and gRPC encodings, SM2, terminal and pixel protocols, the layout of result and log lines, flags and output:
  no control to check. They appear as stages or calls that succeed, fail or take too long;
- the functions of EMMProxy-2 that its main does not reach (`src/EMMProxy-2/main.go:553-770`);
- emm-download-2, redis-test and cpu_load_controlle: loops that share nothing but a channel or a counter;
- a result file is written batch by batch in the model; that a batch may be written in part is abstracted to written or lost.

Plan, in this order:

1. The SSH reconnection loop as a refinement of what the scheduler takes for a session.
2. The aggregation of reports, with the controller's checks of them, as operators against a reference definition.
