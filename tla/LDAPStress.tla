----------------------------- MODULE LDAPStress -----------------------------
(***************************************************************************)
(* The LDAP load tool: a feeder that hands users to readers and, in a      *)
(* mixed run, to writers, by a ratio or on a ticker; workers that carry    *)
(* out a scenario each on a connection of its own, in a goroutine they     *)
(* leave behind when it takes too long; and statistics without a lock.     *)
(***************************************************************************)
EXTENDS Naturals, Sequences, FiniteSets

CONSTANTS
    Configs,        \* the configurations to look at; each has the latencies to tell
                    \* apart and a bound for the users that are handed to readers
    MaxWorkers,     \* the most workers of a configuration
    MaxTicks        \* bound: ticks of the write ticker

Scenarios == {"bind", "search", "modify", "bind_search", "bind_search_modify"}

StressAssumption ==
    /\ Configs \subseteq [mode: {"single", "ratio", "rate"}, readers: Nat, writers: Nat,
                          interval: Nat \ {0}, scenario: Scenarios, verify: BOOLEAN,
                          latencies: SUBSET Nat, users: Nat]
    /\ \A c \in Configs : c.readers + c.writers \in 1..MaxWorkers
    /\ MaxWorkers \in Nat /\ MaxTicks \in Nat

VARIABLES
    config,     \* the configuration; it never changes
    over,       \* the context of the run has ended
    feeder,     \* what the feeder does next
    sent,       \* sent[k]: users handed to the channel of kind k
    ticker,     \* ticks so far, and one that has not been received
    channel,    \* channel[k]: users in the channel of kind k
    worker,     \* worker[i]: a worker and the goroutine of its scenario
    stats,      \* stats[k]: the counters of the workers of kind k
    printed     \* the results are printed

stressVars == <<config, over, feeder, sent, ticker, channel, worker, stats, printed>>

Kinds == {"read", "write"}

Workers == 1..config.readers + config.writers

KindOf(i) == IF i <= config.readers THEN "read" ELSE "write"

ScenarioOf(k) == IF config.mode = "single" THEN config.scenario
                 ELSE IF k = "read" THEN "bind_search" ELSE "modify"

(* What runScenario does, in order.                                        *)
runScenario(scenario) ==
    CASE scenario = "bind"        -> <<"bind">>
      [] scenario \in {"search", "bind_search"} -> <<"bind", "search">>
      [] scenario = "modify"      -> <<"bind", "modify">>
      [] scenario = "bind_search_modify" ->
            IF config.verify THEN <<"bind", "search", "modify", "verify">>
                             ELSE <<"bind", "search", "modify">>

StepsOf(i) == runScenario(ScenarioOf(KindOf(i)))

Idle == [at |-> "idle", step |-> 0, result |-> "none", took |-> 0, seen |-> 0]

Capacity(k) == 10 * (IF k = "read" THEN config.readers ELSE config.writers)

StressTypeOK ==
    /\ config \in Configs /\ over \in BOOLEAN /\ printed \in BOOLEAN
    /\ feeder \in {"loop", "write", "ended"}
    /\ sent \in [Kinds -> Nat] /\ ticker \in [fired: 0..MaxTicks, pending: BOOLEAN]
    /\ \A k \in Kinds : channel[k] \in 0..Capacity(k)
    /\ \A i \in Workers : worker[i] \in
          [at: {"idle", "dialing", "waiting", "closing", "min", "casMin", "max", "casMax", "left"},
           step: 0..4, result: {"none", "ok", "failed"},
           took: config.latencies \cup {0}, seen: config.latencies \cup {0}]

NoStats == [total |-> 0, success |-> 0, failure |-> 0, MinTime |-> 0, MaxTime |-> 0,
            took |-> {}, applied |-> 0]

(* took (the latencies of the successes) and applied (the modifications    *)
(* that the server has made) are history.                                  *)
StressInit ==
    /\ config \in Configs
    /\ over = FALSE /\ feeder = "loop" /\ printed = FALSE
    /\ sent = [k \in Kinds |-> 0] /\ channel = [k \in Kinds |-> 0]
    /\ ticker = [fired |-> 0, pending |-> FALSE]
    /\ worker = [i \in 1..MaxWorkers |-> Idle]
    /\ stats = [k \in Kinds |-> NoStats]

DurationPasses ==
    /\ ~over /\ over' = TRUE
    /\ UNCHANGED <<feeder, sent, ticker, channel, worker, stats, printed>>

-----------------------------------------------------------------------------
(* The feeder *)

(* Mutation: the count before this read decides.                           *)
shouldScheduleWriteLate(reads) == config.mode = "ratio" /\ (reads - 1) % config.interval = 0

shouldScheduleWrite(reads) == config.mode = "ratio" /\ reads % config.interval = 0

Hand(k) ==
    /\ channel[k] < Capacity(k)
    /\ channel' = [channel EXCEPT ![k] = @ + 1]
    /\ sent' = [sent EXCEPT ![k] = @ + 1]

(* At the bound the feeder waits for the run to end.                       *)
FeedRead ==
    /\ feeder = "loop" /\ sent["read"] < config.users
    /\ Hand("read")
    /\ feeder' = IF shouldScheduleWrite(sent["read"] + 1) THEN "write" ELSE "loop"
    /\ UNCHANGED <<over, ticker, worker, stats, printed>>

FeedWrite ==
    /\ feeder = "write"
    /\ Hand("write")
    /\ feeder' = "loop"
    /\ UNCHANGED <<over, ticker, worker, stats, printed>>

(* A tick that finds the last one unreceived is dropped.                   *)
TickerFires ==
    /\ config.mode = "rate" /\ ~over /\ ticker.fired < MaxTicks
    /\ ticker' = [fired |-> ticker.fired + 1, pending |-> TRUE]
    /\ UNCHANGED <<over, feeder, sent, channel, worker, stats, printed>>

feedMixedRateWork ==
    /\ feeder = "loop" /\ ticker.pending
    /\ ticker' = [ticker EXCEPT !.pending = FALSE]
    /\ feeder' = "write"
    /\ UNCHANGED <<over, sent, channel, worker, stats, printed>>

(* Every wait of the feeder is one for the context as well. The channels   *)
(* are closed.                                                             *)
FeederEnds ==
    /\ over /\ feeder # "ended" /\ feeder' = "ended"
    /\ UNCHANGED <<over, sent, ticker, channel, worker, stats, printed>>

-----------------------------------------------------------------------------
(* A worker *)

Becomes(i, w) == worker' = [worker EXCEPT ![i] = w]

Count(i, s) == stats' = [stats EXCEPT ![KindOf(i)] = s]

S(i) == stats[KindOf(i)]

TakeUser(i) ==
    /\ worker[i].at = "idle" /\ channel[KindOf(i)] > 0
    /\ channel' = [channel EXCEPT ![KindOf(i)] = @ - 1]
    /\ Becomes(i, [Idle EXCEPT !.at = "dialing"])
    /\ Count(i, [S(i) EXCEPT !.total = @ + 1])
    /\ UNCHANGED <<over, feeder, sent, ticker, printed>>

(* Users may be left in the channel.                                       *)
Leave(i) ==
    /\ worker[i].at = "idle"
    /\ over \/ (feeder = "ended" /\ channel[KindOf(i)] = 0)
    /\ Becomes(i, [Idle EXCEPT !.at = "left"])
    /\ UNCHANGED <<over, feeder, sent, ticker, channel, stats, printed>>

Same == UNCHANGED <<over, feeder, sent, ticker, channel, printed>>

recordFailure(i) == Count(i, [S(i) EXCEPT !.failure = @ + 1])

(* newLDAPClient                                                           *)
Dial(i) ==
    /\ worker[i].at = "dialing"
    /\ \/ Becomes(i, [Idle EXCEPT !.at = "waiting", !.step = 1]) /\ UNCHANGED stats
       \/ Becomes(i, Idle) /\ recordFailure(i)
    /\ Same

Running(i) == worker[i].step > 0 /\ worker[i].result = "none"

Modifying(i) == StepsOf(i)[worker[i].step] = "modify"

(* The goroutine of the scenario: a step that fails may have had its       *)
(* effect on the server.                                                   *)
RunnerPasses(i) ==
    /\ Running(i)
    /\ Becomes(i, IF worker[i].step = Len(StepsOf(i))
                     THEN [worker[i] EXCEPT !.result = "ok"]
                     ELSE [worker[i] EXCEPT !.step = @ + 1])
    /\ IF Modifying(i) THEN Count(i, [S(i) EXCEPT !.applied = @ + 1]) ELSE UNCHANGED stats
    /\ Same

RunnerFails(i) ==
    /\ Running(i)
    /\ Becomes(i, [worker[i] EXCEPT !.result = "failed"])
    /\ \/ UNCHANGED stats
       \/ Modifying(i) /\ Count(i, [S(i) EXCEPT !.applied = @ + 1])
    /\ Same

(* The worker has the result before its 60 seconds have passed.            *)
ResultArrives(i) ==
    /\ worker[i].at = "waiting"
    /\ \/ /\ worker[i].result = "failed"
          /\ Becomes(i, Idle) /\ recordFailure(i)
       \/ /\ worker[i].result = "ok"
          /\ \E d \in config.latencies :
                /\ Becomes(i, [Idle EXCEPT !.at = "min", !.took = d])
                /\ Count(i, [S(i) EXCEPT !.success = @ + 1, !.took = @ \cup {d}])
    /\ Same

(* It has not, or came too late to be looked at.                           *)
TimesOut(i) ==
    /\ worker[i].at = "waiting"
    /\ Becomes(i, [worker[i] EXCEPT !.at = "closing"])
    /\ recordFailure(i)
    /\ Same

(* The deferred Close of the connection ends what still runs on it.        *)
CloseClient(i) ==
    /\ worker[i].at = "closing"
    /\ Becomes(i, Idle)
    /\ \/ UNCHANGED stats
       \/ Running(i) /\ Modifying(i) /\ Count(i, [S(i) EXCEPT !.applied = @ + 1])
    /\ Same

(* recordSuccess: two loops of a load and a compare-and-swap. A minimum of *)
(* zero is taken for one that was never set.                               *)
LoadMin(i) ==
    /\ worker[i].at = "min"
    /\ Becomes(i, [worker[i] EXCEPT
                     !.seen = S(i).MinTime,
                     !.at = IF S(i).MinTime = 0 \/ worker[i].took < S(i).MinTime
                               THEN "casMin" ELSE "max"])
    /\ UNCHANGED stats /\ Same

(* Mutation: a store in place of the compare-and-swap.                     *)
StoreMin(i) ==
    /\ worker[i].at = "casMin"
    /\ Count(i, [S(i) EXCEPT !.MinTime = worker[i].took])
    /\ Becomes(i, [worker[i] EXCEPT !.at = "max"])
    /\ Same

SwapMin(i) ==
    /\ worker[i].at = "casMin"
    /\ IF S(i).MinTime = worker[i].seen
          THEN /\ Count(i, [S(i) EXCEPT !.MinTime = worker[i].took])
               /\ Becomes(i, [worker[i] EXCEPT !.at = "max"])
          ELSE UNCHANGED stats /\ Becomes(i, [worker[i] EXCEPT !.at = "min"])
    /\ Same

LoadMax(i) ==
    /\ worker[i].at = "max"
    /\ Becomes(i, IF worker[i].took > S(i).MaxTime
                     THEN [worker[i] EXCEPT !.seen = S(i).MaxTime, !.at = "casMax"]
                     ELSE Idle)
    /\ UNCHANGED stats /\ Same

SwapMax(i) ==
    /\ worker[i].at = "casMax"
    /\ IF S(i).MaxTime = worker[i].seen
          THEN Count(i, [S(i) EXCEPT !.MaxTime = worker[i].took]) /\ Becomes(i, Idle)
          ELSE UNCHANGED stats /\ Becomes(i, [worker[i] EXCEPT !.at = "max"])
    /\ Same

(* wg.Wait, and the printing. Nobody waits for the feeder.                 *)
printStats ==
    /\ ~printed /\ \A i \in Workers : worker[i].at = "left"
    /\ printed' = TRUE
    /\ UNCHANGED <<over, feeder, sent, ticker, channel, worker, stats>>

Feed == FeedRead \/ FeedWrite \/ feedMixedRateWork \/ FeederEnds

Work(i) ==
    \/ Leave(i) \/ Dial(i) \/ ResultArrives(i) \/ CloseClient(i)
    \/ LoadMin(i) \/ SwapMin(i) \/ LoadMax(i) \/ SwapMax(i)

StressNext ==
    /\ \/ Feed \/ TickerFires \/ DurationPasses \/ printStats
       \/ \E i \in Workers :
             Work(i) \/ TakeUser(i) \/ RunnerPasses(i) \/ RunnerFails(i) \/ TimesOut(i)
    /\ UNCHANGED config

StressSpec == StressInit /\ [][StressNext]_stressVars

(* The context ends the run and, after a minute, a scenario; a goroutine   *)
(* of a scenario need not get anywhere. A worker may find users in the     *)
(* channel when the run is over, but nobody adds to them.                  *)
StressFairness ==
    /\ WF_stressVars(DurationPasses /\ UNCHANGED config)
    /\ WF_stressVars(FeederEnds /\ UNCHANGED config)
    /\ WF_stressVars(printStats /\ UNCHANGED config)
    /\ \A i \in 1..MaxWorkers :
          WF_stressVars(i \in Workers /\ (Work(i) \/ TimesOut(i)) /\ UNCHANGED config)

-----------------------------------------------------------------------------
(* Properties *)

(* Every user that a worker took is counted once, as a success or as a     *)
(* failure, when the results are printed; a success has modified its       *)
(* entry, a failure may have.                                              *)
EveryRequestIsCounted ==
    printed => \A k \in Kinds :
        /\ stats[k].total = stats[k].success + stats[k].failure
        /\ (\E n \in DOMAIN runScenario(ScenarioOf(k)) : runScenario(ScenarioOf(k))[n] = "modify")
              => stats[k].applied \in stats[k].success..stats[k].total

Recorded(k) ==
    \A i \in Workers : KindOf(i) = k => worker[i].at \notin {"min", "casMin", "max", "casMax"}

(* When no worker is in recordSuccess, as when they are printed, the       *)
(* extremes are those of the successes, whatever workers did at the same   *)
(* time; the minimum, if no success took less than a millisecond.          *)
ExtremesAreExact ==
    \A k \in Kinds : Recorded(k) /\ stats[k].took # {} =>
        /\ stats[k].MaxTime \in stats[k].took
        /\ \A d \in stats[k].took : d <= stats[k].MaxTime
        /\ 0 \notin stats[k].took =>
              /\ stats[k].MinTime \in stats[k].took
              /\ \A d \in stats[k].took : d >= stats[k].MinTime

(* A mixed run writes once for every interval of reads, never before, and  *)
(* does not read on while a write is due; on the ticker it writes no more  *)
(* than once for a tick.                                                   *)
WritesFollowReads ==
    /\ config.mode = "ratio" =>
          /\ config.interval * sent["write"] <= sent["read"]
          /\ sent["read"] <= config.interval * (sent["write"] + 1)
          /\ sent["read"] = config.interval * (sent["write"] + 1) => feeder # "loop"
    /\ config.mode = "rate" => sent["write"] <= ticker.fired
=============================================================================
