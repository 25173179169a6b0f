---------------------------- MODULE ArmsGenerator ----------------------------
(***************************************************************************)
(* The ARMS load generator: workers that keep a connection each and send a *)
(* transaction for every permit; a scheduler that hands out permits at a   *)
(* rate that ramps up; a reporter that writes rows of statistics; and a    *)
(* main goroutine that waits for the first connections, for the duration   *)
(* or a signal, and for all of them.                                       *)
(***************************************************************************)
EXTENDS Naturals, FiniteSets, FiniteSetsExt

CONSTANTS
    Loads,          \* the loads to look at: threads, target and ramp-up; and the
                    \* bounds of each: the ticks of its scheduler, the connections
                    \* after which no worker dials again, the transactions begun
    MaxThreads,     \* the most threads of a load
    TicksPerSecond  \* of the scheduler

GeneratorAssumption ==
    /\ Loads \subseteq [threads: 1..MaxThreads, TargetTPS: Nat, RampUp: Nat,
                         ticks: Nat, attempts: Nat, writes: Nat]
    /\ TicksPerSecond \in Nat \ {0} /\ MaxThreads \in Nat

VARIABLES
    load,       \* the load; it never changes
    main,       \* where Run is
    ctx,        \* the contexts that are done: of the signal, of the run
    thread,     \* thread[t]: a worker
    startup,    \* what main has heard of the first attempts
    scheduler,  \* its state
    permits,    \* permits in the channel, and what became of the others
    counters,   \* of attempts, connections and transactions (Stats)
    reporter    \* its state, and the transactions in the last row it wrote

generatorVars == <<load, main, ctx, thread, startup, scheduler, permits, counters, reporter>>

Threads == 1..load.threads

GeneratorTypeOK ==
    /\ load \in Loads
    /\ main \in {"starting", "running", "stopping", "ended", "failed"}
    /\ ctx \in [parent: BOOLEAN, run: BOOLEAN]
    /\ \A t \in Threads : thread[t] \in
          [at: {"idle", "dialing", "serving", "sending", "beating", "waiting", "left"},
           first: BOOLEAN, had: BOOLEAN]
    /\ startup \in [unread: Nat, heard: Nat, connected: Nat] /\ startup.heard <= load.threads
    /\ scheduler.ticks \in 0..load.ticks /\ scheduler.carry \in 0..TicksPerSecond
    /\ reporter.at \in {"off", "running", "done", "failed"} /\ reporter.row <= counters.success

GeneratorInit ==
    /\ load \in Loads
    /\ main = "starting" /\ ctx = [parent |-> FALSE, run |-> FALSE]
    /\ thread = [t \in 1..MaxThreads |-> [at |-> "idle", first |-> TRUE, had |-> FALSE]]
    /\ startup = [unread |-> 0, heard |-> 0, connected |-> 0]
    /\ scheduler = [at |-> "off", ticks |-> 0, elapsed |-> 0, due |-> 0, carry |-> 0, count |-> 0]
    /\ permits = [waiting |-> 0, backlog |-> 0, taken |-> 0, discarded |-> 0]
    /\ counters = [attempts |-> 0, connectErrors |-> 0, reconnects |-> 0, active |-> 0,
                   success |-> 0, failed |-> 0]
    /\ reporter = [at |-> "off", row |-> 0]

-----------------------------------------------------------------------------
(* Run *)

Left == \A t \in Threads : thread[t].at = "left"

(* An answer of the first attempts is read from the channel. Which of them *)
(* it is does not matter: main only counts.                                *)
HearStartup ==
    /\ main = "starting" /\ startup.unread > 0
    /\ startup' = [startup EXCEPT !.unread = @ - 1, !.heard = @ + 1]
    /\ UNCHANGED <<main, ctx, thread, scheduler, permits, counters, reporter>>

(* All have answered: without a connection there is nothing to run.        *)
StartOrGiveUp ==
    /\ main = "starting" /\ startup.heard = load.threads
    /\ IF startup.connected = 0
          THEN /\ main' = "failed" /\ ctx' = [ctx EXCEPT !.run = TRUE]
               /\ UNCHANGED <<scheduler, reporter>>
          ELSE /\ main' = "running"
               /\ scheduler' = [scheduler EXCEPT !.at = IF load.TargetTPS > 0 THEN "running" ELSE "off"]
               /\ reporter' = [reporter EXCEPT !.at = "running"]
               /\ UNCHANGED ctx
    /\ UNCHANGED <<thread, startup, permits, counters>>

(* Ctrl+C, which ends the context of the run as well.                      *)
Interrupt ==
    /\ ~ctx.parent
    /\ ctx' = [parent |-> TRUE, run |-> TRUE]
    /\ UNCHANGED <<main, thread, startup, scheduler, permits, counters, reporter>>

StopStarting ==
    /\ main = "starting" /\ ctx.parent
    /\ main' = "failed"
    /\ UNCHANGED <<ctx, thread, startup, scheduler, permits, counters, reporter>>

(* The timer or the signal, and cancel().                                  *)
DurationEnds ==
    /\ main = "running"
    /\ main' = "stopping" /\ ctx' = [ctx EXCEPT !.run = TRUE]
    /\ UNCHANGED <<thread, startup, scheduler, permits, counters, reporter>>

Finish ==
    /\ main = "stopping"
    /\ scheduler.at = "off" /\ Left /\ reporter.at \in {"done", "failed"}
    /\ main' = "ended"
    /\ UNCHANGED <<ctx, thread, startup, scheduler, permits, counters, reporter>>

Run == HearStartup \/ StartOrGiveUp \/ StopStarting \/ Finish

-----------------------------------------------------------------------------
(* The scheduler. Its fractions are counted in parts of a permit, of which *)
(* TicksPerSecond make one; the code has them as floating point.           *)

currentTargetTPS(elapsed) ==
    IF elapsed >= load.RampUp THEN load.TargetTPS
    ELSE (load.TargetTPS * elapsed) \div load.RampUp

(* Mutation: the fraction of a permit is forgotten.                        *)
permitsForTickRounded(target, carry) ==
    {[count |-> target \div TicksPerSecond, carry |-> carry]}

(* The sum of the fractions is rounded, by far less than a part: it tells  *)
(* only when it should be a whole number and falls short of it. One permit *)
(* is not given then, and carried almost whole: ten times 0.1 is below 1.  *)
permitsForTick(target, carry) ==
    LET desired == target + carry
        short == IF desired > 0 /\ desired % TicksPerSecond = 0 THEN {1} ELSE {}
    IN  {[count |-> (desired \div TicksPerSecond) - s,
          carry |-> (desired % TicksPerSecond) + s * TicksPerSecond] : s \in {0} \cup short}

(* A tick that comes while the last one is handled is dropped: time goes   *)
(* on without it.                                                          *)
SchedulerTick ==
    /\ scheduler.at = "running" /\ scheduler.count = 0 /\ scheduler.ticks < load.ticks
    /\ \E elapsed \in {scheduler.elapsed + 1, scheduler.elapsed + 2} :
          LET target == currentTargetTPS(elapsed)
          IN  \E next \in permitsForTick(target, scheduler.carry) :
                 scheduler' = [scheduler EXCEPT !.ticks = @ + 1, !.elapsed = elapsed,
                                   !.due = @ + target, !.carry = next.carry, !.count = next.count]
    /\ UNCHANGED <<main, ctx, thread, startup, permits, counters, reporter>>

PermitBuffer == Max({load.TargetTPS, load.threads * 4, 1})

(* A permit that finds the channel full is counted and lost.               *)
HandOut ==
    /\ scheduler.at = "running" /\ scheduler.count > 0
    /\ scheduler' = [scheduler EXCEPT !.count = @ - 1]
    /\ permits' = IF permits.waiting < PermitBuffer
                     THEN [permits EXCEPT !.waiting = @ + 1]
                     ELSE [permits EXCEPT !.backlog = @ + 1]
    /\ UNCHANGED <<main, ctx, thread, startup, counters, reporter>>

SchedulerEnds ==
    /\ scheduler.at = "running" /\ ctx.run
    /\ scheduler' = [scheduler EXCEPT !.at = "off"]
    /\ UNCHANGED <<main, ctx, thread, startup, permits, counters, reporter>>
-----------------------------------------------------------------------------
(* A worker *)

Goes(t, at) == thread' = [thread EXCEPT ![t].at = at]

Others == UNCHANGED <<main, ctx, scheduler, reporter>>

Attempt(t) ==
    /\ thread[t].at = "idle"
    /\ \/ ctx.run /\ Goes(t, "left") /\ UNCHANGED counters
       \/ /\ ~ctx.run /\ (thread[t].first \/ counters.attempts < load.attempts)
          /\ Goes(t, "dialing")
          /\ counters' = [counters EXCEPT !.attempts = @ + 1]
    /\ UNCHANGED <<startup, permits>> /\ Others

(* The first attempt of a worker is reported, however it went.             *)
Reported(t, success) ==
    IF thread[t].first
       THEN startup' = [startup EXCEPT !.unread = @ + 1, !.connected = @ + success]
       ELSE UNCHANGED startup

DialSucceeds(t) ==
    /\ thread[t].at = "dialing"
    /\ Reported(t, 1)
    /\ counters' = [counters EXCEPT !.reconnects = @ + (IF thread[t].had THEN 1 ELSE 0),
                                    !.active = @ + 1]
    /\ thread' = [thread EXCEPT ![t] = [at |-> "serving", first |-> FALSE, had |-> TRUE]]
    /\ UNCHANGED permits /\ Others

(* Mutation: a worker that has no connection does not report.              *)
DialFailsSilently(t) ==
    /\ thread[t].at = "dialing"
    /\ counters' = [counters EXCEPT !.connectErrors = @ + 1]
    /\ thread' = [thread EXCEPT ![t].at = "waiting", ![t].first = FALSE]
    /\ UNCHANGED <<startup, permits>> /\ Others

DialFails(t) ==
    /\ thread[t].at = "dialing"
    /\ Reported(t, 0)
    /\ counters' = [counters EXCEPT !.connectErrors = @ + 1]
    /\ thread' = [thread EXCEPT ![t].at = "waiting", ![t].first = FALSE]
    /\ UNCHANGED permits /\ Others

(* The wait is over, or the run is.                                        *)
waitForReconnect(t) ==
    /\ thread[t].at = "waiting"
    /\ Goes(t, IF ctx.run THEN "left" ELSE "idle")
    /\ UNCHANGED <<startup, permits, counters>> /\ Others

(* The select may find a permit although the run is over: the context is   *)
(* looked at again.                                                        *)
TakePermit(t) ==
    /\ thread[t].at = "serving" /\ permits.waiting > 0
    /\ permits.taken < load.writes
    /\ IF ctx.run
          THEN /\ permits' = [permits EXCEPT !.waiting = @ - 1, !.discarded = @ + 1]
               /\ Goes(t, "left") /\ counters' = [counters EXCEPT !.active = @ - 1]
          ELSE /\ permits' = [permits EXCEPT !.waiting = @ - 1, !.taken = @ + 1]
               /\ Goes(t, "sending") /\ UNCHANGED counters
    /\ UNCHANGED startup /\ Others

(* Without a target every worker sends as fast as it can.                  *)
SendFreely(t) ==
    /\ thread[t].at = "serving" /\ load.TargetTPS = 0
    /\ ~ctx.run /\ permits.taken < load.writes
    /\ permits' = [permits EXCEPT !.taken = @ + 1]
    /\ Goes(t, "sending")
    /\ UNCHANGED <<startup, counters>> /\ Others

Heartbeat(t) ==
    /\ thread[t].at = "serving" /\ load.TargetTPS > 0 /\ ~ctx.run
    /\ Goes(t, "beating")
    /\ UNCHANGED <<startup, permits, counters>> /\ Others

StopServing(t) ==
    /\ thread[t].at = "serving" /\ ctx.run
    /\ Goes(t, "left") /\ counters' = [counters EXCEPT !.active = @ - 1]
    /\ UNCHANGED <<startup, permits>> /\ Others

(* RecordSuccess                                                           *)
WriteSucceeds(t) ==
    /\ thread[t].at \in {"sending", "beating"}
    /\ Goes(t, "serving")
    /\ counters' = IF thread[t].at = "sending" THEN [counters EXCEPT !.success = @ + 1] ELSE counters
    /\ UNCHANGED <<startup, permits>> /\ Others

(* RecordFailure for a transaction, RecordTransportError for a heartbeat;  *)
(* the connection is closed.                                               *)
WriteFails(t) ==
    /\ thread[t].at \in {"sending", "beating"}
    /\ Goes(t, IF ctx.run THEN "left" ELSE "waiting")
    /\ counters' = [counters EXCEPT !.active = @ - 1,
                                    !.failed = @ + (IF thread[t].at = "sending" THEN 1 ELSE 0)]
    /\ UNCHANGED <<startup, permits>> /\ Others

runWorker(t) ==
    \/ Attempt(t) \/ DialFails(t) \/ waitForReconnect(t)
    \/ TakePermit(t) \/ StopServing(t) \/ WriteFails(t)

Fortunate(t) == DialSucceeds(t) \/ WriteSucceeds(t) \/ SendFreely(t) \/ Heartbeat(t)

-----------------------------------------------------------------------------
(* The reporter *)

(* On its ticker; a row that cannot be written is its last.                *)
WriteRow ==
    /\ reporter.at = "running"
    /\ \/ reporter' = [reporter EXCEPT !.row = counters.success]
       \/ reporter' = [reporter EXCEPT !.at = "failed"]
    /\ UNCHANGED <<main, ctx, thread, startup, scheduler, permits, counters>>

(* The last row, when the run is over. Nobody has waited for the workers.  *)
LastRow ==
    /\ reporter.at = "running" /\ ctx.run
    /\ reporter' \in {[at |-> "done", row |-> counters.success], [reporter EXCEPT !.at = "failed"]}
    /\ UNCHANGED <<main, ctx, thread, startup, scheduler, permits, counters>>

-----------------------------------------------------------------------------
GeneratorNext ==
    /\ \/ Run \/ Interrupt \/ DurationEnds
       \/ SchedulerTick \/ HandOut \/ SchedulerEnds
       \/ WriteRow \/ LastRow
       \/ \E t \in Threads : runWorker(t) \/ Fortunate(t)
    /\ UNCHANGED load

GeneratorSpec == GeneratorInit /\ [][GeneratorNext]_generatorVars

(* Dialling and writing have deadlines, and so has the run; a select that  *)
(* may go on for ever does not leave out the end of the run for ever.      *)
GeneratorFairness ==
    /\ WF_generatorVars(Run /\ UNCHANGED load)
    /\ WF_generatorVars(DurationEnds /\ UNCHANGED load)
    /\ WF_generatorVars(SchedulerEnds /\ UNCHANGED load)
    /\ WF_generatorVars(LastRow /\ UNCHANGED load)
    /\ \A t \in 1..MaxThreads :
          WF_generatorVars(t \in Threads /\ (runWorker(t) \/ WriteSucceeds(t)) /\ UNCHANGED load)

-----------------------------------------------------------------------------
(* Properties *)

Sending == Cardinality({t \in Threads : thread[t].at = "sending"})

(* No permit is lost or made up over the ticks: the scheduler has handed   *)
(* out the whole permits that the rate is due, or one less while what is   *)
(* due is a whole number and the sum of the fractions fell short of it;    *)
(* and each waits, was lost to a full channel, was thrown away at the end, *)
(* or is one transaction that is counted once.                             *)
PermitsAreConserved ==
    /\ permits.taken = counters.success + counters.failed + Sending
    /\ load.TargetTPS > 0 =>
          LET given == permits.waiting + permits.backlog + permits.taken + permits.discarded
                          + scheduler.count
              whole == scheduler.due \div TicksPerSecond
          IN  \/ given = whole
              \/ given + 1 = whole /\ scheduler.due % TicksPerSecond = 0

(* The connections that are open are those that workers have, and every    *)
(* attempt is an error, the first connection of a worker or a reconnect.   *)
ConnectionsAddUp ==
    /\ counters.active =
          Cardinality({t \in Threads : thread[t].at \in {"serving", "sending", "beating"}})
    /\ counters.attempts = counters.connectErrors + counters.reconnects
                             + Cardinality({t \in Threads : thread[t].had})
                             + Cardinality({t \in Threads : thread[t].at = "dialing"})

(* README: Ctrl+C waits for the current writes and flushes results.csv     *)
(* then. The last row has every transaction that the summary counts        *)
(* (runReporter, Run).                                                     *)
LastRowIsComplete ==
    ctx.parent /\ main = "ended" /\ reporter.at = "done"
        => reporter.row = counters.success

(* The last row of the results is written when the run ends and not when   *)
(* the workers have: what it misses is at most a transaction of each.      *)
LastRowMissesAtMostOneEach ==
    reporter.at = "done" => counters.success <= reporter.row + load.threads

GeneratorOver == main \in {"ended", "failed"} /\ Left
=============================================================================
