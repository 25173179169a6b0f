-------------------------- MODULE LoadGeneratorProofs --------------------------
(***************************************************************************)
(* The two load generators whose workers share their statistics, the LDAP  *)
(* load tool and the ARMS load generator, for all configurations, loads,   *)
(* numbers of workers, ticks and latencies.                                *)
(*                                                                         *)
(* The invariants of the first are: the types, with the states that nobody *)
(* leaves; the place of the feeder between two writes; the extremes with   *)
(* the successes that are still being recorded; and the counts with the    *)
(* requests that are still under way.  Those of the second are: the types; *)
(* the first attempts, with those that have not answered yet; the permits, *)
(* with the fraction that the scheduler carries; the connections; and the  *)
(* last row, with the transactions that are sent while it is written.      *)
(***************************************************************************)
EXTENDS LDAPStress, ArmsGenerator, FiniteSetTheorems, TLAPS

Times == config.latencies \cup {0}

Stages == {"idle", "dialing", "waiting", "closing", "min", "casMin", "max", "casMax", "left"}
Outcomes == {"none", "ok", "failed"}
Modes == {"single", "ratio", "rate"}
FeederStates == {"loop", "write", "ended"}

WorkerState == [at: Stages, step: 0..4, result: Outcomes, took: Times, seen: Times]

Statistics == [total: Nat, success: Nat, failure: Nat, MinTime: Times, MaxTime: Times,
               took: SUBSET Times, applied: Nat]

(* The goroutine of a scenario exists while its worker waits for it or     *)
(* closes its connection.                                                  *)
RunnersHaveWorkers ==
    \A i \in Workers : worker[i].step > 0 <=> worker[i].at \in {"waiting", "closing"}

(* It is within its scenario, and has a good result at the end of it only. *)
StepsInScenario ==
    \A i \in Workers :
        /\ worker[i].step <= Len(StepsOf(i))
        /\ worker[i].result = "ok" => worker[i].step = Len(StepsOf(i))

PrintedIsOver == printed => \A i \in Workers : worker[i].at = "left"

(* The first invariant.                                                    *)
Typed ==
    /\ config \in Configs /\ over \in BOOLEAN /\ printed \in BOOLEAN
    /\ feeder \in FeederStates
    /\ sent \in [Kinds -> Nat] /\ channel \in [Kinds -> Nat]
    /\ \A k \in Kinds : channel[k] <= Capacity(k)
    /\ ticker \in [fired: 0..MaxTicks, pending: BOOLEAN]
    /\ worker \in [1..MaxWorkers -> WorkerState]
    /\ stats \in [Kinds -> Statistics]
    /\ RunnersHaveWorkers /\ StepsInScenario /\ PrintedIsOver

-----------------------------------------------------------------------------
(* Configurations, steps and records *)

LEMMA ConfigFacts ==
  ASSUME StressAssumption, config \in Configs
  PROVE  /\ config.mode \in Modes /\ config.readers \in Nat /\ config.writers \in Nat
         /\ config.interval \in Nat \ {0} /\ config.scenario \in Scenarios
         /\ config.verify \in BOOLEAN /\ config.latencies \in SUBSET Nat /\ config.users \in Nat
         /\ Workers \subseteq 1..MaxWorkers /\ IsFiniteSet(Workers)
         /\ Times \subseteq Nat /\ 0 \in Times
         /\ \A i \in Workers : KindOf(i) \in Kinds
         /\ \A k \in Kinds : Capacity(k) \in Nat
<1>1. /\ config.mode \in Modes /\ config.readers \in Nat /\ config.writers \in Nat
      /\ config.interval \in Nat \ {0} /\ config.scenario \in Scenarios
      /\ config.verify \in BOOLEAN /\ config.latencies \in SUBSET Nat /\ config.users \in Nat
      /\ config.readers + config.writers \in 1..MaxWorkers /\ MaxWorkers \in Nat
  BY DEF StressAssumption, Modes
<1>2. IsFiniteSet(Workers)
  BY <1>1, FS_Interval DEF Workers
<1>3. Workers \subseteq 1..MaxWorkers
  BY <1>1 DEF Workers
<1> QED
  BY <1>1, <1>2, <1>3 DEF Times, KindOf, Kinds, Capacity

(* The step that modifies the entry, 0 if there is none.                   *)
ModifyAt(scenario) ==
    IF scenario = "modify" THEN 2 ELSE IF scenario = "bind_search_modify" THEN 3 ELSE 0

LEMMA StepsFacts ==
  ASSUME NEW scenario \in Scenarios
  PROVE  /\ Len(runScenario(scenario)) \in 1..4
         /\ DOMAIN runScenario(scenario) = 1..Len(runScenario(scenario))
         /\ ModifyAt(scenario) \in 0..Len(runScenario(scenario))
         /\ \A n \in 1..Len(runScenario(scenario)) :
               runScenario(scenario)[n] = "modify" <=> n = ModifyAt(scenario)
<1>1. CASE scenario = "bind"
  BY <1>1 DEF runScenario, ModifyAt
<1>2. CASE scenario \in {"search", "bind_search"}
  <2>1. runScenario(scenario) = <<"bind", "search">>
    BY <1>2 DEF runScenario
  <2>2. ModifyAt(scenario) = 0
    BY <1>2 DEF ModifyAt
  <2> QED
    BY <2>1, <2>2
<1>3. CASE scenario = "modify"
  BY <1>3 DEF runScenario, ModifyAt
<1>4. CASE scenario = "bind_search_modify"
  <2>1. ModifyAt(scenario) = 3
    BY <1>4 DEF ModifyAt
  <2>2. CASE config.verify
    <3>1. runScenario(scenario) = <<"bind", "search", "modify", "verify">>
      BY <1>4, <2>2 DEF runScenario
    <3> QED
      BY <2>1, <3>1
  <2>3. CASE ~config.verify
    <3>1. runScenario(scenario) = <<"bind", "search", "modify">>
      BY <1>4, <2>3 DEF runScenario
    <3> QED
      BY <2>1, <3>1
  <2> QED
    BY <2>2, <2>3
<1> QED
  BY <1>1, <1>2, <1>3, <1>4 DEF Scenarios

LEMMA ScenarioFacts ==
  ASSUME StressAssumption, config \in Configs, NEW k \in Kinds
  PROVE  ScenarioOf(k) \in Scenarios
  BY ConfigFacts DEF ScenarioOf, Scenarios

LEMMA StepsOfFacts ==
  ASSUME StressAssumption, config \in Configs, NEW i \in Workers
  PROVE  /\ Len(StepsOf(i)) \in 1..4
         /\ ModifyAt(ScenarioOf(KindOf(i))) \in 0..Len(StepsOf(i))
         /\ \A n \in 1..Len(StepsOf(i)) :
               StepsOf(i)[n] = "modify" <=> n = ModifyAt(ScenarioOf(KindOf(i)))
<1>1. ScenarioOf(KindOf(i)) \in Scenarios
  BY ConfigFacts, ScenarioFacts
<1> QED
  BY <1>1, StepsFacts DEF StepsOf

(* A record of a worker, by its fields.                                    *)
WorkerOf(at, step, res, took, seen) ==
    [at |-> at, step |-> step, result |-> res, took |-> took, seen |-> seen]

LEMMA WorkerFields ==
  ASSUME NEW w \in WorkerState
  PROVE  /\ w.at \in Stages /\ w.step \in 0..4 /\ w.result \in Outcomes
         /\ w.took \in Times /\ w.seen \in Times
  BY DEF WorkerState

LEMMA WorkerType ==
  ASSUME NEW at \in Stages, NEW step \in 0..4, NEW res \in Outcomes,
         NEW took \in Times, NEW seen \in Times
  PROVE  /\ WorkerOf(at, step, res, took, seen) \in WorkerState
         /\ WorkerOf(at, step, res, took, seen).at = at
         /\ WorkerOf(at, step, res, took, seen).step = step
         /\ WorkerOf(at, step, res, took, seen).result = res
         /\ WorkerOf(at, step, res, took, seen).took = took
         /\ WorkerOf(at, step, res, took, seen).seen = seen
  BY DEF WorkerState, WorkerOf

(* Setting the fields of a record, one at a time.                          *)
SetAt(w, x) == [w EXCEPT !.at = x]
SetStep(w, x) == [w EXCEPT !.step = x]
SetResult(w, x) == [w EXCEPT !.result = x]
SetTook(w, x) == [w EXCEPT !.took = x]
SetSeen(w, x) == [w EXCEPT !.seen = x]

LEMMA SetWorker ==
  ASSUME NEW a, NEW n, NEW r, NEW t, NEW e, NEW x
  PROVE  /\ SetAt(WorkerOf(a, n, r, t, e), x) = WorkerOf(x, n, r, t, e)
         /\ SetStep(WorkerOf(a, n, r, t, e), x) = WorkerOf(a, x, r, t, e)
         /\ SetResult(WorkerOf(a, n, r, t, e), x) = WorkerOf(a, n, x, t, e)
         /\ SetTook(WorkerOf(a, n, r, t, e), x) = WorkerOf(a, n, r, x, e)
         /\ SetSeen(WorkerOf(a, n, r, t, e), x) = WorkerOf(a, n, r, t, x)
<1>1. SetAt(WorkerOf(a, n, r, t, e), x) = WorkerOf(x, n, r, t, e)
  BY DEF SetAt, WorkerOf
<1>2. SetStep(WorkerOf(a, n, r, t, e), x) = WorkerOf(a, x, r, t, e)
  BY DEF SetStep, WorkerOf
<1>3. SetResult(WorkerOf(a, n, r, t, e), x) = WorkerOf(a, n, x, t, e)
  BY DEF SetResult, WorkerOf
<1>4. SetTook(WorkerOf(a, n, r, t, e), x) = WorkerOf(a, n, r, x, e)
  BY DEF SetTook, WorkerOf
<1>5. SetSeen(WorkerOf(a, n, r, t, e), x) = WorkerOf(a, n, r, t, x)
  BY DEF SetSeen, WorkerOf
<1> QED
  BY <1>1, <1>2, <1>3, <1>4, <1>5

LEMMA WorkerIsOf ==
  ASSUME NEW w \in WorkerState
  PROVE  w = WorkerOf(w.at, w.step, w.result, w.took, w.seen)
  BY DEF WorkerState, WorkerOf

LEMMA IdleIs == Idle = WorkerOf("idle", 0, "none", 0, 0)
  BY DEF Idle, WorkerOf

(* The records that the actions make.                                      *)
LEMMA WorkersMade ==
  ASSUME NEW w \in WorkerState, NEW at, NEW x
  PROVE  /\ SetAt(Idle, at) = WorkerOf(at, 0, "none", 0, 0)
         /\ SetStep(SetAt(Idle, at), x) = WorkerOf(at, x, "none", 0, 0)
         /\ SetTook(SetAt(Idle, at), x) = WorkerOf(at, 0, "none", x, 0)
         /\ SetAt(w, at) = WorkerOf(at, w.step, w.result, w.took, w.seen)
         /\ SetStep(w, x) = WorkerOf(w.at, x, w.result, w.took, w.seen)
         /\ SetResult(w, x) = WorkerOf(w.at, w.step, x, w.took, w.seen)
         /\ SetAt(SetSeen(w, x), at) = WorkerOf(at, w.step, w.result, w.took, x)
  BY WorkerIsOf, IdleIs, SetWorker

StatsOf(total, ok, bad, min, max, took, applied) ==
    [total |-> total, success |-> ok, failure |-> bad, MinTime |-> min, MaxTime |-> max,
     took |-> took, applied |-> applied]

LEMMA StatsFields ==
  ASSUME NEW s \in Statistics
  PROVE  /\ s.total \in Nat /\ s.success \in Nat /\ s.failure \in Nat
         /\ s.MinTime \in Times /\ s.MaxTime \in Times
         /\ s.took \in SUBSET Times /\ s.applied \in Nat
  BY DEF Statistics

LEMMA StatsType ==
  ASSUME NEW total \in Nat, NEW ok \in Nat, NEW bad \in Nat, NEW min \in Times,
         NEW max \in Times, NEW took \in SUBSET Times, NEW applied \in Nat
  PROVE  /\ StatsOf(total, ok, bad, min, max, took, applied) \in Statistics
         /\ StatsOf(total, ok, bad, min, max, took, applied).total = total
         /\ StatsOf(total, ok, bad, min, max, took, applied).success = ok
         /\ StatsOf(total, ok, bad, min, max, took, applied).failure = bad
         /\ StatsOf(total, ok, bad, min, max, took, applied).MinTime = min
         /\ StatsOf(total, ok, bad, min, max, took, applied).MaxTime = max
         /\ StatsOf(total, ok, bad, min, max, took, applied).took = took
         /\ StatsOf(total, ok, bad, min, max, took, applied).applied = applied
  BY DEF Statistics, StatsOf

SetTotal(s, x) == [s EXCEPT !.total = x]
SetSuccess(s, x) == [s EXCEPT !.success = x]
SetFailure(s, x) == [s EXCEPT !.failure = x]
SetMinTime(s, x) == [s EXCEPT !.MinTime = x]
SetMaxTime(s, x) == [s EXCEPT !.MaxTime = x]
SetAllTook(s, x) == [s EXCEPT !.took = x]
SetApplied(s, x) == [s EXCEPT !.applied = x]

LEMMA SetStats ==
  ASSUME NEW n, NEW o, NEW b, NEW l, NEW h, NEW t, NEW m, NEW x
  PROVE  /\ SetTotal(StatsOf(n, o, b, l, h, t, m), x) = StatsOf(x, o, b, l, h, t, m)
         /\ SetSuccess(StatsOf(n, o, b, l, h, t, m), x) = StatsOf(n, x, b, l, h, t, m)
         /\ SetFailure(StatsOf(n, o, b, l, h, t, m), x) = StatsOf(n, o, x, l, h, t, m)
         /\ SetMinTime(StatsOf(n, o, b, l, h, t, m), x) = StatsOf(n, o, b, x, h, t, m)
         /\ SetMaxTime(StatsOf(n, o, b, l, h, t, m), x) = StatsOf(n, o, b, l, x, t, m)
         /\ SetAllTook(StatsOf(n, o, b, l, h, t, m), x) = StatsOf(n, o, b, l, h, x, m)
         /\ SetApplied(StatsOf(n, o, b, l, h, t, m), x) = StatsOf(n, o, b, l, h, t, x)
<1>1. SetTotal(StatsOf(n, o, b, l, h, t, m), x) = StatsOf(x, o, b, l, h, t, m)
  BY DEF SetTotal, StatsOf
<1>2. SetSuccess(StatsOf(n, o, b, l, h, t, m), x) = StatsOf(n, x, b, l, h, t, m)
  BY DEF SetSuccess, StatsOf
<1>3. SetFailure(StatsOf(n, o, b, l, h, t, m), x) = StatsOf(n, o, x, l, h, t, m)
  BY DEF SetFailure, StatsOf
<1>4. SetMinTime(StatsOf(n, o, b, l, h, t, m), x) = StatsOf(n, o, b, x, h, t, m)
  BY DEF SetMinTime, StatsOf
<1>5. SetMaxTime(StatsOf(n, o, b, l, h, t, m), x) = StatsOf(n, o, b, l, x, t, m)
  BY DEF SetMaxTime, StatsOf
<1>6. SetAllTook(StatsOf(n, o, b, l, h, t, m), x) = StatsOf(n, o, b, l, h, x, m)
  BY DEF SetAllTook, StatsOf
<1>7. SetApplied(StatsOf(n, o, b, l, h, t, m), x) = StatsOf(n, o, b, l, h, t, x)
  BY DEF SetApplied, StatsOf
<1> QED
  BY <1>1, <1>2, <1>3, <1>4, <1>5, <1>6, <1>7

LEMMA StatsIsOf ==
  ASSUME NEW s \in Statistics
  PROVE  s = StatsOf(s.total, s.success, s.failure, s.MinTime, s.MaxTime, s.took, s.applied)
  BY DEF Statistics, StatsOf

LEMMA StatsMade ==
  ASSUME NEW s \in Statistics, NEW x, NEW y
  PROVE  /\ SetTotal(s, x) =
               StatsOf(x, s.success, s.failure, s.MinTime, s.MaxTime, s.took, s.applied)
         /\ SetFailure(s, x) =
               StatsOf(s.total, s.success, x, s.MinTime, s.MaxTime, s.took, s.applied)
         /\ SetApplied(s, x) =
               StatsOf(s.total, s.success, s.failure, s.MinTime, s.MaxTime, s.took, x)
         /\ SetAllTook(SetSuccess(s, x), y) =
               StatsOf(s.total, x, s.failure, s.MinTime, s.MaxTime, y, s.applied)
         /\ SetMinTime(s, x) =
               StatsOf(s.total, s.success, s.failure, x, s.MaxTime, s.took, s.applied)
         /\ SetMaxTime(s, x) =
               StatsOf(s.total, s.success, s.failure, s.MinTime, x, s.took, s.applied)
  BY StatsIsOf, SetStats


-----------------------------------------------------------------------------
(* What an action does to a worker and to the counters of its kind *)

(* Worker i is now of these fields, the others are what they were.         *)
Changed(i, at, step, res, took, seen) ==
    /\ worker' \in [1..MaxWorkers -> WorkerState]
    /\ worker'[i].at = at /\ worker'[i].step = step /\ worker'[i].result = res
    /\ worker'[i].took = took /\ worker'[i].seen = seen
    /\ \A j \in Workers \ {i} : worker'[j] = worker[j]

(* The same for the counters of a kind.                                    *)
Counted(k, total, ok, bad, min, max, took, applied) ==
    /\ stats' \in [Kinds -> Statistics]
    /\ stats'[k].total = total /\ stats'[k].success = ok /\ stats'[k].failure = bad
    /\ stats'[k].MinTime = min /\ stats'[k].MaxTime = max
    /\ stats'[k].took = took /\ stats'[k].applied = applied
    /\ \A l \in Kinds \ {k} : stats'[l] = stats[l]

LEMMA BecomesFacts ==
  ASSUME StressAssumption, Typed, NEW i \in Workers,
         NEW at \in Stages, NEW step \in 0..4, NEW res \in Outcomes,
         NEW took \in Times, NEW seen \in Times,
         Becomes(i, WorkerOf(at, step, res, took, seen))
  PROVE  Changed(i, at, step, res, took, seen)
<1>1. i \in 1..MaxWorkers /\ Workers \subseteq 1..MaxWorkers
  BY ConfigFacts DEF Typed
<1> DEFINE w == WorkerOf(at, step, res, took, seen)
<1>2. /\ w \in WorkerState /\ w.at = at /\ w.step = step /\ w.result = res
      /\ w.took = took /\ w.seen = seen
  BY WorkerType
<1>3. worker' = [worker EXCEPT ![i] = w] /\ worker \in [1..MaxWorkers -> WorkerState]
  BY DEF Becomes, Typed
<1> HIDE DEF w
<1>4. worker' \in [1..MaxWorkers -> WorkerState] /\ worker'[i] = w
  BY <1>1, <1>2, <1>3
<1>5. \A j \in Workers \ {i} : worker'[j] = worker[j]
  BY <1>1, <1>3
<1> QED
  BY <1>2, <1>4, <1>5 DEF Changed

LEMMA CountFacts ==
  ASSUME StressAssumption, Typed, NEW i \in Workers,
         NEW total \in Nat, NEW ok \in Nat, NEW bad \in Nat, NEW min \in Times,
         NEW max \in Times, NEW took \in SUBSET Times, NEW applied \in Nat,
         Count(i, StatsOf(total, ok, bad, min, max, took, applied))
  PROVE  Counted(KindOf(i), total, ok, bad, min, max, took, applied)
<1>1. KindOf(i) \in Kinds
  BY ConfigFacts DEF Typed
<1> DEFINE s == StatsOf(total, ok, bad, min, max, took, applied)
<1>2. /\ s \in Statistics /\ s.total = total /\ s.success = ok /\ s.failure = bad
      /\ s.MinTime = min /\ s.MaxTime = max /\ s.took = took /\ s.applied = applied
  BY StatsType
<1>3. stats' = [stats EXCEPT ![KindOf(i)] = s] /\ stats \in [Kinds -> Statistics]
  BY DEF Count, Typed
<1> HIDE DEF s
<1>4. stats' \in [Kinds -> Statistics] /\ stats'[KindOf(i)] = s
  BY <1>1, <1>2, <1>3
<1>5. \A l \in Kinds \ {KindOf(i)} : stats'[l] = stats[l]
  BY <1>3
<1> QED
  BY <1>2, <1>4, <1>5 DEF Counted

LEMMA StateFacts ==
  ASSUME StressAssumption, Typed, NEW i \in Workers
  PROVE  /\ worker[i] \in WorkerState
         /\ worker[i].at \in Stages /\ worker[i].step \in 0..4 /\ worker[i].result \in Outcomes
         /\ worker[i].took \in Times /\ worker[i].seen \in Times
         /\ worker[i].step > 0 <=> worker[i].at \in {"waiting", "closing"}
         /\ KindOf(i) \in Kinds /\ S(i) \in Statistics
         /\ S(i).total \in Nat /\ S(i).success \in Nat /\ S(i).failure \in Nat
         /\ S(i).MinTime \in Times /\ S(i).MaxTime \in Times
         /\ S(i).took \in SUBSET Times /\ S(i).applied \in Nat
         /\ 0 \in Times /\ Times \subseteq Nat
<1>1. i \in 1..MaxWorkers /\ KindOf(i) \in Kinds /\ 0 \in Times /\ Times \subseteq Nat
  BY ConfigFacts DEF Typed
<1>2. worker[i] \in WorkerState /\ S(i) \in Statistics
  BY <1>1 DEF Typed, S
<1>3. worker[i].step > 0 <=> worker[i].at \in {"waiting", "closing"}
  BY DEF Typed, RunnersHaveWorkers
<1> QED
  BY <1>1, <1>2, <1>3, WorkerFields, StatsFields

(* The counters after one of them has changed.                             *)
LEMMA CountsMade ==
  ASSUME StressAssumption, Typed, NEW i \in Workers
  PROVE  /\ Count(i, SetTotal(S(i), S(i).total + 1)) =>
               Counted(KindOf(i), S(i).total + 1, S(i).success, S(i).failure,
                       S(i).MinTime, S(i).MaxTime, S(i).took, S(i).applied)
         /\ Count(i, SetFailure(S(i), S(i).failure + 1)) =>
               Counted(KindOf(i), S(i).total, S(i).success, S(i).failure + 1,
                       S(i).MinTime, S(i).MaxTime, S(i).took, S(i).applied)
         /\ Count(i, SetApplied(S(i), S(i).applied + 1)) =>
               Counted(KindOf(i), S(i).total, S(i).success, S(i).failure,
                       S(i).MinTime, S(i).MaxTime, S(i).took, S(i).applied + 1)
         /\ \A d \in config.latencies :
               Count(i, SetAllTook(SetSuccess(S(i), S(i).success + 1), S(i).took \cup {d})) =>
               Counted(KindOf(i), S(i).total, S(i).success + 1, S(i).failure,
                       S(i).MinTime, S(i).MaxTime, S(i).took \cup {d}, S(i).applied)
         /\ Count(i, SetMinTime(S(i), worker[i].took)) =>
               Counted(KindOf(i), S(i).total, S(i).success, S(i).failure,
                       worker[i].took, S(i).MaxTime, S(i).took, S(i).applied)
         /\ Count(i, SetMaxTime(S(i), worker[i].took)) =>
               Counted(KindOf(i), S(i).total, S(i).success, S(i).failure,
                       S(i).MinTime, worker[i].took, S(i).took, S(i).applied)
<1>1. /\ S(i) \in Statistics /\ S(i).total \in Nat /\ S(i).success \in Nat
      /\ S(i).failure \in Nat /\ S(i).MinTime \in Times /\ S(i).MaxTime \in Times
      /\ S(i).took \in SUBSET Times /\ S(i).applied \in Nat /\ worker[i].took \in Times
  BY StateFacts
<1>2. /\ S(i).total + 1 \in Nat /\ S(i).success + 1 \in Nat
      /\ S(i).failure + 1 \in Nat /\ S(i).applied + 1 \in Nat
  BY <1>1
<1>3. \A d \in config.latencies : S(i).took \cup {d} \in SUBSET Times
  BY <1>1 DEF Times
<1>4. Count(i, SetTotal(S(i), S(i).total + 1)) =>
        Counted(KindOf(i), S(i).total + 1, S(i).success, S(i).failure,
                S(i).MinTime, S(i).MaxTime, S(i).took, S(i).applied)
  BY <1>1, <1>2, StatsMade, CountFacts
<1>5. Count(i, SetFailure(S(i), S(i).failure + 1)) =>
        Counted(KindOf(i), S(i).total, S(i).success, S(i).failure + 1,
                S(i).MinTime, S(i).MaxTime, S(i).took, S(i).applied)
  BY <1>1, <1>2, StatsMade, CountFacts
<1>6. Count(i, SetApplied(S(i), S(i).applied + 1)) =>
        Counted(KindOf(i), S(i).total, S(i).success, S(i).failure,
                S(i).MinTime, S(i).MaxTime, S(i).took, S(i).applied + 1)
  BY <1>1, <1>2, StatsMade, CountFacts
<1>7. ASSUME NEW d \in config.latencies,
             Count(i, SetAllTook(SetSuccess(S(i), S(i).success + 1), S(i).took \cup {d}))
      PROVE  Counted(KindOf(i), S(i).total, S(i).success + 1, S(i).failure,
                     S(i).MinTime, S(i).MaxTime, S(i).took \cup {d}, S(i).applied)
  <2>1. S(i).took \cup {d} \in SUBSET Times
    BY <1>3
  <2> QED
    BY <1>1, <1>2, <1>7, <2>1, StatsMade, CountFacts
<1>8. Count(i, SetMinTime(S(i), worker[i].took)) =>
        Counted(KindOf(i), S(i).total, S(i).success, S(i).failure,
                worker[i].took, S(i).MaxTime, S(i).took, S(i).applied)
  BY <1>1, StatsMade, CountFacts
<1>9. Count(i, SetMaxTime(S(i), worker[i].took)) =>
        Counted(KindOf(i), S(i).total, S(i).success, S(i).failure,
                S(i).MinTime, worker[i].took, S(i).took, S(i).applied)
  BY <1>1, StatsMade, CountFacts
<1> QED
  BY <1>4, <1>5, <1>6, <1>7, <1>8, <1>9


-----------------------------------------------------------------------------
(* The actions of a worker, by their effects *)

LEMMA TakeUserFacts ==
  ASSUME StressAssumption, Typed, NEW i \in Workers, TakeUser(i)
  PROVE  /\ worker[i].at = "idle"
         /\ Changed(i, "dialing", 0, "none", 0, 0)
         /\ Counted(KindOf(i), S(i).total + 1, S(i).success, S(i).failure,
                    S(i).MinTime, S(i).MaxTime, S(i).took, S(i).applied)
<1>1. /\ Becomes(i, SetAt(Idle, "dialing")) /\ Count(i, SetTotal(S(i), S(i).total + 1))
      /\ worker[i].at = "idle"
  BY DEF TakeUser, SetAt, SetTotal
<1>2. Becomes(i, WorkerOf("dialing", 0, "none", 0, 0))
  BY <1>1, IdleIs, SetWorker
<1>3. 0 \in Times /\ 0 \in 0..4 /\ "dialing" \in Stages /\ "none" \in Outcomes
  BY StateFacts DEF Stages, Outcomes
<1>4. Changed(i, "dialing", 0, "none", 0, 0)
  BY <1>2, <1>3, BecomesFacts
<1> QED
  BY <1>1, <1>4, CountsMade

LEMMA LeaveFacts ==
  ASSUME StressAssumption, Typed, NEW i \in Workers, Leave(i)
  PROVE  worker[i].at = "idle" /\ Changed(i, "left", 0, "none", 0, 0) /\ stats' = stats
<1>1. Becomes(i, SetAt(Idle, "left")) /\ worker[i].at = "idle" /\ stats' = stats
  BY DEF Leave, SetAt
<1>2. Becomes(i, WorkerOf("left", 0, "none", 0, 0))
  BY <1>1, IdleIs, SetWorker
<1>3. 0 \in Times /\ 0 \in 0..4 /\ "left" \in Stages /\ "none" \in Outcomes
  BY StateFacts DEF Stages, Outcomes
<1> QED
  BY <1>1, <1>2, <1>3, BecomesFacts

LEMMA IdleFacts ==
  ASSUME StressAssumption, Typed, NEW i \in Workers, Becomes(i, Idle)
  PROVE  Changed(i, "idle", 0, "none", 0, 0)
<1>1. 0 \in Times /\ 0 \in 0..4 /\ "idle" \in Stages /\ "none" \in Outcomes
  BY StateFacts DEF Stages, Outcomes
<1> QED
  BY <1>1, IdleIs, BecomesFacts

LEMMA FailureFacts ==
  ASSUME StressAssumption, Typed, NEW i \in Workers, recordFailure(i)
  PROVE  Counted(KindOf(i), S(i).total, S(i).success, S(i).failure + 1,
                 S(i).MinTime, S(i).MaxTime, S(i).took, S(i).applied)
<1>1. Count(i, SetFailure(S(i), S(i).failure + 1))
  BY DEF recordFailure, SetFailure
<1> QED
  BY <1>1, CountsMade

LEMMA AppliedFacts ==
  ASSUME StressAssumption, Typed, NEW i \in Workers,
         Count(i, [S(i) EXCEPT !.applied = @ + 1])
  PROVE  Counted(KindOf(i), S(i).total, S(i).success, S(i).failure,
                 S(i).MinTime, S(i).MaxTime, S(i).took, S(i).applied + 1)
<1>1. Count(i, SetApplied(S(i), S(i).applied + 1))
  BY DEF SetApplied
<1> QED
  BY <1>1, CountsMade

LEMMA DialFacts ==
  ASSUME StressAssumption, Typed, NEW i \in Workers, Dial(i)
  PROVE  /\ worker[i].at = "dialing"
         /\ \/ Changed(i, "waiting", 1, "none", 0, 0) /\ stats' = stats
            \/ /\ Changed(i, "idle", 0, "none", 0, 0)
               /\ Counted(KindOf(i), S(i).total, S(i).success, S(i).failure + 1,
                          S(i).MinTime, S(i).MaxTime, S(i).took, S(i).applied)
<1>1. CASE Becomes(i, [Idle EXCEPT !.at = "waiting", !.step = 1]) /\ stats' = stats
  <2>1. Becomes(i, SetStep(SetAt(Idle, "waiting"), 1))
    BY <1>1 DEF SetStep, SetAt
  <2>2. Becomes(i, WorkerOf("waiting", 1, "none", 0, 0))
    BY <2>1, IdleIs, SetWorker
  <2>3. 0 \in Times /\ 1 \in 0..4 /\ "waiting" \in Stages /\ "none" \in Outcomes
    BY StateFacts DEF Stages, Outcomes
  <2>4. Changed(i, "waiting", 1, "none", 0, 0)
    BY <2>2, <2>3, BecomesFacts
  <2> QED
    BY <1>1, <2>4 DEF Dial
<1>2. CASE Becomes(i, Idle) /\ recordFailure(i)
  BY <1>2, IdleFacts, FailureFacts DEF Dial
<1> QED
  BY <1>1, <1>2 DEF Dial

LEMMA RunnerPassesFacts ==
  ASSUME StressAssumption, Typed, NEW i \in Workers, RunnerPasses(i)
  PROVE  /\ Running(i)
         /\ \/ /\ worker[i].step = Len(StepsOf(i))
               /\ Changed(i, worker[i].at, worker[i].step, "ok", worker[i].took, worker[i].seen)
            \/ /\ worker[i].step # Len(StepsOf(i)) /\ worker[i].step + 1 \in 0..4
               /\ Changed(i, worker[i].at, worker[i].step + 1, worker[i].result,
                          worker[i].took, worker[i].seen)
         /\ \/ ~Modifying(i) /\ stats' = stats
            \/ /\ Modifying(i)
               /\ Counted(KindOf(i), S(i).total, S(i).success, S(i).failure,
                          S(i).MinTime, S(i).MaxTime, S(i).took, S(i).applied + 1)
<1>1. /\ worker[i] \in WorkerState /\ worker[i].at \in Stages /\ worker[i].step \in 0..4
      /\ worker[i].result \in Outcomes /\ worker[i].took \in Times /\ worker[i].seen \in Times
  BY StateFacts
<1>2. Len(StepsOf(i)) \in 1..4 /\ worker[i].step <= Len(StepsOf(i))
  BY StepsOfFacts DEF Typed, StepsInScenario
<1>3. ASSUME worker[i].step = Len(StepsOf(i))
      PROVE  Changed(i, worker[i].at, worker[i].step, "ok", worker[i].took, worker[i].seen)
  <2>1. Becomes(i, SetResult(worker[i], "ok"))
    BY <1>3 DEF RunnerPasses, SetResult
  <2>2. Becomes(i, WorkerOf(worker[i].at, worker[i].step, "ok", worker[i].took, worker[i].seen))
    BY <2>1, <1>1, WorkersMade
  <2>3. "ok" \in Outcomes
    BY DEF Outcomes
  <2> QED
    BY <1>1, <2>2, <2>3, BecomesFacts
<1>4. ASSUME worker[i].step # Len(StepsOf(i))
      PROVE  /\ worker[i].step + 1 \in 0..4
             /\ Changed(i, worker[i].at, worker[i].step + 1, worker[i].result,
                        worker[i].took, worker[i].seen)
  <2>1. Becomes(i, SetStep(worker[i], worker[i].step + 1))
    BY <1>4 DEF RunnerPasses, SetStep
  <2>2. Becomes(i, WorkerOf(worker[i].at, worker[i].step + 1, worker[i].result,
                            worker[i].took, worker[i].seen))
    BY <2>1, <1>1, WorkersMade
  <2>3. worker[i].step + 1 \in 0..4
    <3>1. \A m \in 0..4, n \in 1..4 : m <= n /\ m # n => m + 1 \in 0..4
      OBVIOUS
    <3> QED
      BY <1>1, <1>2, <1>4, <3>1
  <2> QED
    BY <1>1, <2>2, <2>3, BecomesFacts
<1>5. \/ ~Modifying(i) /\ stats' = stats
      \/ /\ Modifying(i)
         /\ Counted(KindOf(i), S(i).total, S(i).success, S(i).failure,
                    S(i).MinTime, S(i).MaxTime, S(i).took, S(i).applied + 1)
  BY AppliedFacts DEF RunnerPasses
<1> QED
  BY <1>3, <1>4, <1>5 DEF RunnerPasses

LEMMA RunnerFailsFacts ==
  ASSUME StressAssumption, Typed, NEW i \in Workers, RunnerFails(i)
  PROVE  /\ Running(i)
         /\ Changed(i, worker[i].at, worker[i].step, "failed", worker[i].took, worker[i].seen)
         /\ \/ stats' = stats
            \/ /\ Modifying(i)
               /\ Counted(KindOf(i), S(i).total, S(i).success, S(i).failure,
                          S(i).MinTime, S(i).MaxTime, S(i).took, S(i).applied + 1)
<1>1. /\ worker[i] \in WorkerState /\ worker[i].at \in Stages /\ worker[i].step \in 0..4
      /\ worker[i].took \in Times /\ worker[i].seen \in Times
  BY StateFacts
<1>2. Becomes(i, SetResult(worker[i], "failed"))
  BY DEF RunnerFails, SetResult
<1>3. Becomes(i, WorkerOf(worker[i].at, worker[i].step, "failed", worker[i].took, worker[i].seen))
  BY <1>1, <1>2, WorkersMade
<1>4. "failed" \in Outcomes
  BY DEF Outcomes
<1>5. Changed(i, worker[i].at, worker[i].step, "failed", worker[i].took, worker[i].seen)
  BY <1>1, <1>3, <1>4, BecomesFacts
<1> QED
  BY <1>5, AppliedFacts DEF RunnerFails

LEMMA ResultArrivesFacts ==
  ASSUME StressAssumption, Typed, NEW i \in Workers, ResultArrives(i)
  PROVE  /\ worker[i].at = "waiting"
         /\ \/ /\ worker[i].result = "failed" /\ Changed(i, "idle", 0, "none", 0, 0)
               /\ Counted(KindOf(i), S(i).total, S(i).success, S(i).failure + 1,
                          S(i).MinTime, S(i).MaxTime, S(i).took, S(i).applied)
            \/ /\ worker[i].result = "ok"
               /\ \E d \in Times :
                     /\ Changed(i, "min", 0, "none", d, 0)
                     /\ Counted(KindOf(i), S(i).total, S(i).success + 1, S(i).failure,
                                S(i).MinTime, S(i).MaxTime, S(i).took \cup {d}, S(i).applied)
<1>1. CASE worker[i].result = "failed" /\ Becomes(i, Idle) /\ recordFailure(i)
  BY <1>1, IdleFacts, FailureFacts DEF ResultArrives
<1>2. ASSUME worker[i].result = "ok", NEW d \in config.latencies,
             Becomes(i, [Idle EXCEPT !.at = "min", !.took = d]),
             Count(i, [S(i) EXCEPT !.success = @ + 1, !.took = @ \cup {d}])
      PROVE  /\ Changed(i, "min", 0, "none", d, 0)
             /\ Counted(KindOf(i), S(i).total, S(i).success + 1, S(i).failure,
                        S(i).MinTime, S(i).MaxTime, S(i).took \cup {d}, S(i).applied)
  <2>1. Becomes(i, SetTook(SetAt(Idle, "min"), d))
    BY <1>2 DEF SetTook, SetAt
  <2>2. Becomes(i, WorkerOf("min", 0, "none", d, 0))
    BY <2>1, IdleIs, SetWorker
  <2>3. /\ 0 \in Times /\ d \in Times /\ 0 \in 0..4 /\ "min" \in Stages /\ "none" \in Outcomes
    BY StateFacts DEF Stages, Outcomes, Times
  <2>4. Changed(i, "min", 0, "none", d, 0)
    BY <2>2, <2>3, BecomesFacts
  <2>5. Count(i, SetAllTook(SetSuccess(S(i), S(i).success + 1), S(i).took \cup {d}))
    BY <1>2 DEF SetAllTook, SetSuccess
  <2> QED
    BY <2>4, <2>5, CountsMade
<1>3. config.latencies \subseteq Times
  BY DEF Times
<1> QED
  BY <1>1, <1>2, <1>3 DEF ResultArrives

LEMMA TimesOutFacts ==
  ASSUME StressAssumption, Typed, NEW i \in Workers, TimesOut(i)
  PROVE  /\ worker[i].at = "waiting"
         /\ Changed(i, "closing", worker[i].step, worker[i].result,
                    worker[i].took, worker[i].seen)
         /\ Counted(KindOf(i), S(i).total, S(i).success, S(i).failure + 1,
                    S(i).MinTime, S(i).MaxTime, S(i).took, S(i).applied)
<1>1. /\ worker[i] \in WorkerState /\ worker[i].result \in Outcomes /\ worker[i].step \in 0..4
      /\ worker[i].took \in Times /\ worker[i].seen \in Times
  BY StateFacts
<1>2. Becomes(i, SetAt(worker[i], "closing"))
  BY DEF TimesOut, SetAt
<1>3. Becomes(i, WorkerOf("closing", worker[i].step, worker[i].result,
                          worker[i].took, worker[i].seen))
  BY <1>1, <1>2, WorkersMade
<1>4. "closing" \in Stages
  BY DEF Stages
<1>5. Changed(i, "closing", worker[i].step, worker[i].result, worker[i].took, worker[i].seen)
  BY <1>1, <1>3, <1>4, BecomesFacts
<1> QED
  BY <1>5, FailureFacts DEF TimesOut

LEMMA CloseClientFacts ==
  ASSUME StressAssumption, Typed, NEW i \in Workers, CloseClient(i)
  PROVE  /\ worker[i].at = "closing" /\ Changed(i, "idle", 0, "none", 0, 0)
         /\ \/ stats' = stats
            \/ /\ Running(i) /\ Modifying(i)
               /\ Counted(KindOf(i), S(i).total, S(i).success, S(i).failure,
                          S(i).MinTime, S(i).MaxTime, S(i).took, S(i).applied + 1)
  BY IdleFacts, AppliedFacts DEF CloseClient

LEMMA LoadMinFacts ==
  ASSUME StressAssumption, Typed, NEW i \in Workers, LoadMin(i)
  PROVE  /\ worker[i].at = "min" /\ stats' = stats
         /\ \/ /\ S(i).MinTime = 0 \/ worker[i].took < S(i).MinTime
               /\ Changed(i, "casMin", worker[i].step, worker[i].result,
                          worker[i].took, S(i).MinTime)
            \/ /\ S(i).MinTime # 0 /\ ~(worker[i].took < S(i).MinTime)
               /\ Changed(i, "max", worker[i].step, worker[i].result,
                          worker[i].took, S(i).MinTime)
<1>1. /\ worker[i] \in WorkerState /\ worker[i].result \in Outcomes /\ worker[i].step \in 0..4
      /\ worker[i].took \in Times /\ S(i).MinTime \in Times
  BY StateFacts
<1>2. "casMin" \in Stages /\ "max" \in Stages
  BY DEF Stages
<1>3. CASE S(i).MinTime = 0 \/ worker[i].took < S(i).MinTime
  <2>1. Becomes(i, SetAt(SetSeen(worker[i], S(i).MinTime), "casMin"))
    BY <1>3 DEF LoadMin, SetAt, SetSeen
  <2>2. Becomes(i, WorkerOf("casMin", worker[i].step, worker[i].result,
                            worker[i].took, S(i).MinTime))
    BY <2>1, <1>1, WorkersMade
  <2> QED
    BY <1>1, <1>2, <1>3, <2>2, BecomesFacts DEF LoadMin
<1>4. CASE ~(S(i).MinTime = 0 \/ worker[i].took < S(i).MinTime)
  <2>1. Becomes(i, SetAt(SetSeen(worker[i], S(i).MinTime), "max"))
    BY <1>4 DEF LoadMin, SetAt, SetSeen
  <2>2. Becomes(i, WorkerOf("max", worker[i].step, worker[i].result,
                            worker[i].took, S(i).MinTime))
    BY <2>1, <1>1, WorkersMade
  <2> QED
    BY <1>1, <1>2, <1>4, <2>2, BecomesFacts DEF LoadMin
<1> QED
  BY <1>3, <1>4

LEMMA SwapMinFacts ==
  ASSUME StressAssumption, Typed, NEW i \in Workers, SwapMin(i)
  PROVE  /\ worker[i].at = "casMin"
         /\ \/ /\ S(i).MinTime = worker[i].seen
               /\ Counted(KindOf(i), S(i).total, S(i).success, S(i).failure,
                          worker[i].took, S(i).MaxTime, S(i).took, S(i).applied)
               /\ Changed(i, "max", worker[i].step, worker[i].result,
                          worker[i].took, worker[i].seen)
            \/ /\ S(i).MinTime # worker[i].seen /\ stats' = stats
               /\ Changed(i, "min", worker[i].step, worker[i].result,
                          worker[i].took, worker[i].seen)
<1>1. /\ worker[i] \in WorkerState /\ worker[i].result \in Outcomes /\ worker[i].step \in 0..4
      /\ worker[i].took \in Times /\ worker[i].seen \in Times
  BY StateFacts
<1>2. "min" \in Stages /\ "max" \in Stages
  BY DEF Stages
<1>3. CASE S(i).MinTime = worker[i].seen
  <2>1. Becomes(i, SetAt(worker[i], "max")) /\ Count(i, SetMinTime(S(i), worker[i].took))
    BY <1>3 DEF SwapMin, SetAt, SetMinTime
  <2>2. Becomes(i, WorkerOf("max", worker[i].step, worker[i].result,
                            worker[i].took, worker[i].seen))
    BY <2>1, <1>1, WorkersMade
  <2>3. Changed(i, "max", worker[i].step, worker[i].result, worker[i].took, worker[i].seen)
    BY <1>1, <1>2, <2>2, BecomesFacts
  <2> QED
    BY <1>3, <2>1, <2>3, CountsMade DEF SwapMin
<1>4. CASE S(i).MinTime # worker[i].seen
  <2>1. Becomes(i, SetAt(worker[i], "min")) /\ stats' = stats
    BY <1>4 DEF SwapMin, SetAt
  <2>2. Becomes(i, WorkerOf("min", worker[i].step, worker[i].result,
                            worker[i].took, worker[i].seen))
    BY <2>1, <1>1, WorkersMade
  <2>3. Changed(i, "min", worker[i].step, worker[i].result, worker[i].took, worker[i].seen)
    BY <1>1, <1>2, <2>2, BecomesFacts
  <2> QED
    BY <1>4, <2>1, <2>3 DEF SwapMin
<1> QED
  BY <1>3, <1>4

LEMMA LoadMaxFacts ==
  ASSUME StressAssumption, Typed, NEW i \in Workers, LoadMax(i)
  PROVE  /\ worker[i].at = "max" /\ stats' = stats
         /\ \/ /\ worker[i].took > S(i).MaxTime
               /\ Changed(i, "casMax", worker[i].step, worker[i].result,
                          worker[i].took, S(i).MaxTime)
            \/ /\ ~(worker[i].took > S(i).MaxTime)
               /\ Changed(i, "idle", 0, "none", 0, 0)
<1>1. /\ worker[i] \in WorkerState /\ worker[i].result \in Outcomes /\ worker[i].step \in 0..4
      /\ worker[i].took \in Times /\ S(i).MaxTime \in Times
  BY StateFacts
<1>2. "casMax" \in Stages
  BY DEF Stages
<1>3. CASE worker[i].took > S(i).MaxTime
  <2>1. Becomes(i, SetAt(SetSeen(worker[i], S(i).MaxTime), "casMax"))
    BY <1>3 DEF LoadMax, SetAt, SetSeen
  <2>2. Becomes(i, WorkerOf("casMax", worker[i].step, worker[i].result,
                            worker[i].took, S(i).MaxTime))
    BY <2>1, <1>1, WorkersMade
  <2> QED
    BY <1>1, <1>2, <1>3, <2>2, BecomesFacts DEF LoadMax
<1>4. CASE ~(worker[i].took > S(i).MaxTime)
  BY <1>4, IdleFacts DEF LoadMax
<1> QED
  BY <1>3, <1>4

LEMMA SwapMaxFacts ==
  ASSUME StressAssumption, Typed, NEW i \in Workers, SwapMax(i)
  PROVE  /\ worker[i].at = "casMax"
         /\ \/ /\ S(i).MaxTime = worker[i].seen
               /\ Counted(KindOf(i), S(i).total, S(i).success, S(i).failure,
                          S(i).MinTime, worker[i].took, S(i).took, S(i).applied)
               /\ Changed(i, "idle", 0, "none", 0, 0)
            \/ /\ S(i).MaxTime # worker[i].seen /\ stats' = stats
               /\ Changed(i, "max", worker[i].step, worker[i].result,
                          worker[i].took, worker[i].seen)
<1>1. /\ worker[i] \in WorkerState /\ worker[i].result \in Outcomes /\ worker[i].step \in 0..4
      /\ worker[i].took \in Times /\ worker[i].seen \in Times
  BY StateFacts
<1>2. "max" \in Stages
  BY DEF Stages
<1>3. CASE S(i).MaxTime = worker[i].seen
  <2>1. Becomes(i, Idle) /\ Count(i, SetMaxTime(S(i), worker[i].took))
    BY <1>3 DEF SwapMax, SetMaxTime
  <2> QED
    BY <1>3, <2>1, IdleFacts, CountsMade DEF SwapMax
<1>4. CASE S(i).MaxTime # worker[i].seen
  <2>1. Becomes(i, SetAt(worker[i], "max")) /\ stats' = stats
    BY <1>4 DEF SwapMax, SetAt
  <2>2. Becomes(i, WorkerOf("max", worker[i].step, worker[i].result,
                            worker[i].took, worker[i].seen))
    BY <2>1, <1>1, WorkersMade
  <2>3. Changed(i, "max", worker[i].step, worker[i].result, worker[i].took, worker[i].seen)
    BY <1>1, <1>2, <2>2, BecomesFacts
  <2> QED
    BY <1>4, <2>1, <2>3 DEF SwapMax
<1> QED
  BY <1>3, <1>4


-----------------------------------------------------------------------------
(* The types *)

LEMMA SameConfig ==
  ASSUME config' = config
  PROVE  /\ Workers' = Workers /\ Times' = Times
         /\ WorkerState' = WorkerState /\ Statistics' = Statistics
         /\ \A k \in Kinds : Capacity(k)' = Capacity(k)
         /\ \A k \in Kinds : ScenarioOf(k)' = ScenarioOf(k)
         /\ \A i \in Workers : KindOf(i)' = KindOf(i) /\ StepsOf(i)' = StepsOf(i)
<1>1. Workers' = Workers /\ Times' = Times
  BY DEF Workers, Times
<1>2. WorkerState' = WorkerState /\ Statistics' = Statistics
  BY <1>1 DEF WorkerState, Statistics
<1>3. \A k \in Kinds : Capacity(k)' = Capacity(k) /\ ScenarioOf(k)' = ScenarioOf(k)
  BY DEF Capacity, ScenarioOf
<1>4. \A i \in Workers : KindOf(i)' = KindOf(i)
  BY DEF KindOf
<1>5. \A i \in Workers : StepsOf(i)' = StepsOf(i)
  BY DEF StepsOf, KindOf, ScenarioOf, runScenario
<1> QED
  BY <1>1, <1>2, <1>3, <1>4, <1>5

LEMMA WorkerPart ==
  ASSUME StressAssumption, Typed, config' = config, printed' = printed,
         NEW i \in Workers, NEW at \in Stages, NEW step \in 0..4, NEW res \in Outcomes,
         NEW took, NEW seen, Changed(i, at, step, res, took, seen),
         worker[i].at # "left", step > 0 <=> at \in {"waiting", "closing"},
         step <= Len(StepsOf(i)), res = "ok" => step = Len(StepsOf(i))
  PROVE  RunnersHaveWorkers' /\ StepsInScenario' /\ PrintedIsOver'
<1>1. Workers' = Workers /\ \A j \in Workers : StepsOf(j)' = StepsOf(j)
  BY SameConfig
<1>2. \A j \in Workers : j # i => worker'[j] = worker[j]
  BY DEF Changed
<1>3. RunnersHaveWorkers'
  BY <1>1, <1>2 DEF Typed, RunnersHaveWorkers, Changed
<1>4. StepsInScenario'
  BY <1>1, <1>2 DEF Typed, StepsInScenario, Changed
<1>5. PrintedIsOver'
  BY DEF Typed, PrintedIsOver
<1> QED
  BY <1>3, <1>4, <1>5

LEMMA StepNumbers ==
  /\ \A n \in 1..4 : 0 <= n /\ 1 <= n
  /\ \A m \in 0..4 : ~(m > 0) => m = 0
  /\ \A m \in 0..4, n \in 1..4 : m = n => m > 0
  /\ \A m \in 0..4, n \in 1..4 : m <= n /\ m # n => m + 1 <= n /\ m + 1 > 0
  OBVIOUS

(* A step of a worker that has not left.                                   *)
LEMMA WorkIsTyped ==
  ASSUME StressAssumption, Typed, config' = config, NEW i \in Workers,
         \/ Work(i) \/ TakeUser(i) \/ RunnerPasses(i) \/ RunnerFails(i) \/ TimesOut(i)
  PROVE  /\ worker' \in [1..MaxWorkers -> WorkerState] /\ stats' \in [Kinds -> Statistics]
         /\ RunnersHaveWorkers' /\ StepsInScenario' /\ PrintedIsOver'
<1> DEFINE Goal == /\ worker' \in [1..MaxWorkers -> WorkerState]
                   /\ stats' \in [Kinds -> Statistics]
                   /\ RunnersHaveWorkers' /\ StepsInScenario' /\ PrintedIsOver'
<1>1. /\ worker[i].at \in Stages /\ worker[i].step \in 0..4 /\ worker[i].result \in Outcomes
      /\ worker[i].step > 0 <=> worker[i].at \in {"waiting", "closing"}
      /\ stats \in [Kinds -> Statistics]
  BY StateFacts DEF Typed
<1>2. /\ worker[i].step <= Len(StepsOf(i))
      /\ worker[i].result = "ok" => worker[i].step = Len(StepsOf(i))
      /\ Len(StepsOf(i)) \in 1..4
  BY StepsOfFacts DEF Typed, StepsInScenario
<1>3. /\ 0 \in 0..4 /\ 1 \in 0..4 /\ 0 <= Len(StepsOf(i)) /\ 1 <= Len(StepsOf(i))
      /\ {"idle", "dialing", "waiting", "closing", "min", "casMin", "max", "casMax", "left"}
            \subseteq Stages
      /\ {"none", "ok", "failed"} \subseteq Outcomes
  <2>1. 0 <= Len(StepsOf(i)) /\ 1 <= Len(StepsOf(i))
    BY <1>2, StepNumbers
  <2>2. 0 \in 0..4 /\ 1 \in 0..4
    OBVIOUS
  <2> QED
    BY <2>1, <2>2 DEF Stages, Outcomes
<1>4. CASE TakeUser(i)
  <2>1. /\ worker[i].at = "idle" /\ Changed(i, "dialing", 0, "none", 0, 0)
        /\ stats' \in [Kinds -> Statistics] /\ printed' = printed
    BY <1>4, TakeUserFacts DEF Counted, TakeUser
  <2> QED
    BY <2>1, <1>3, WorkerPart DEF Changed
<1>5. CASE Leave(i)
  <2>1. /\ worker[i].at = "idle" /\ Changed(i, "left", 0, "none", 0, 0)
        /\ stats' \in [Kinds -> Statistics] /\ printed' = printed
    BY <1>1, <1>5, LeaveFacts DEF Leave
  <2> QED
    BY <2>1, <1>3, WorkerPart DEF Changed
<1>6. CASE Dial(i)
  <2>1. worker[i].at = "dialing" /\ stats' \in [Kinds -> Statistics] /\ printed' = printed
    BY <1>1, <1>6, DialFacts DEF Counted, Dial, Same
  <2>2. CASE Changed(i, "waiting", 1, "none", 0, 0)
    BY <2>1, <2>2, <1>3, WorkerPart DEF Changed
  <2>3. CASE Changed(i, "idle", 0, "none", 0, 0)
    BY <2>1, <2>3, <1>3, WorkerPart DEF Changed
  <2> QED
    BY <2>2, <2>3, <1>6, DialFacts
<1>7. CASE RunnerPasses(i)
  <2>1. /\ stats' \in [Kinds -> Statistics] /\ printed' = printed
    BY <1>1, <1>7, RunnerPassesFacts DEF Counted, RunnerPasses, Same
  <2>2. worker[i].step > 0 /\ worker[i].result = "none" /\ worker[i].at # "left"
    BY <1>1, <1>7 DEF RunnerPasses, Running
  <2>3. CASE /\ worker[i].step = Len(StepsOf(i))
             /\ Changed(i, worker[i].at, worker[i].step, "ok", worker[i].took, worker[i].seen)
    BY <2>1, <2>2, <2>3, <1>1, <1>2, <1>3, WorkerPart DEF Changed
  <2>4. CASE /\ worker[i].step # Len(StepsOf(i)) /\ worker[i].step + 1 \in 0..4
             /\ Changed(i, worker[i].at, worker[i].step + 1, worker[i].result,
                        worker[i].took, worker[i].seen)
    <3>1. /\ worker[i].step + 1 <= Len(StepsOf(i))
          /\ worker[i].step + 1 > 0 <=> worker[i].at \in {"waiting", "closing"}
      BY <1>1, <1>2, <2>2, <2>4, StepNumbers
    <3> QED
      BY <2>1, <2>2, <2>4, <1>1, <3>1, WorkerPart DEF Changed
  <2> QED
    BY <2>3, <2>4, <1>7, RunnerPassesFacts
<1>8. CASE RunnerFails(i)
  <2>1. /\ stats' \in [Kinds -> Statistics] /\ printed' = printed
        /\ Changed(i, worker[i].at, worker[i].step, "failed", worker[i].took, worker[i].seen)
    BY <1>1, <1>8, RunnerFailsFacts DEF Counted, RunnerFails, Same
  <2>2. worker[i].at # "left"
    BY <1>1, <1>8 DEF RunnerFails, Running
  <2> QED
    BY <2>1, <2>2, <1>1, <1>2, <1>3, WorkerPart DEF Changed
<1>9. CASE ResultArrives(i)
  <2>1. worker[i].at = "waiting" /\ printed' = printed
    BY <1>9, ResultArrivesFacts DEF ResultArrives, Same
  <2>2. CASE /\ Changed(i, "idle", 0, "none", 0, 0)
             /\ Counted(KindOf(i), S(i).total, S(i).success, S(i).failure + 1,
                        S(i).MinTime, S(i).MaxTime, S(i).took, S(i).applied)
    BY <2>1, <2>2, <1>3, WorkerPart DEF Changed, Counted
  <2>3. ASSUME NEW d \in Times, Changed(i, "min", 0, "none", d, 0),
               Counted(KindOf(i), S(i).total, S(i).success + 1, S(i).failure,
                       S(i).MinTime, S(i).MaxTime, S(i).took \cup {d}, S(i).applied)
        PROVE  Goal
    BY <2>1, <2>3, <1>3, WorkerPart DEF Changed, Counted
  <2> QED
    BY <2>2, <2>3, <1>9, ResultArrivesFacts
<1>10. CASE TimesOut(i)
  <2>1. /\ stats' \in [Kinds -> Statistics] /\ printed' = printed /\ worker[i].at = "waiting"
        /\ Changed(i, "closing", worker[i].step, worker[i].result, worker[i].took, worker[i].seen)
    BY <1>10, TimesOutFacts DEF Counted, TimesOut, Same
  <2> QED
    BY <2>1, <1>1, <1>2, <1>3, WorkerPart DEF Changed
<1>11. CASE CloseClient(i)
  <2>1. /\ stats' \in [Kinds -> Statistics] /\ printed' = printed /\ worker[i].at = "closing"
        /\ Changed(i, "idle", 0, "none", 0, 0)
    BY <1>1, <1>11, CloseClientFacts DEF Counted, CloseClient, Same
  <2> QED
    BY <2>1, <1>3, WorkerPart DEF Changed
<1>12. CASE LoadMin(i) \/ SwapMin(i) \/ LoadMax(i) \/ SwapMax(i)
  <2>1. stats' \in [Kinds -> Statistics]
    BY <1>1, <1>12, LoadMinFacts, SwapMinFacts, LoadMaxFacts, SwapMaxFacts DEF Counted
  <2>2. worker[i].at \in {"min", "casMin", "max", "casMax"} /\ printed' = printed
    BY <1>12, LoadMinFacts, SwapMinFacts, LoadMaxFacts, SwapMaxFacts
    DEF LoadMin, SwapMin, LoadMax, SwapMax, Same
  <2>3. ~(worker[i].step > 0)
    BY <2>2, <1>1
  <2>4. worker[i].step = 0
    BY <2>3, <1>1, StepNumbers
  <2>5. worker[i].result # "ok"
    BY <2>3, <1>1, <1>2, StepNumbers
  <2>6. CASE Changed(i, "idle", 0, "none", 0, 0)
    BY <2>1, <2>2, <2>6, <1>3, WorkerPart DEF Changed
  <2>7. ASSUME NEW at \in {"min", "casMin", "max", "casMax"}, NEW seen,
               Changed(i, at, worker[i].step, worker[i].result, worker[i].took, seen)
        PROVE  Goal
    <3>1. at \in Stages /\ at \notin {"waiting", "closing"}
      BY DEF Stages
    <3> QED
      BY <2>1, <2>2, <2>4, <2>5, <2>7, <3>1, <1>1, <1>2, <1>3, WorkerPart DEF Changed
  <2>8. \/ Changed(i, "idle", 0, "none", 0, 0)
        \/ \E at \in {"min", "casMin", "max", "casMax"} : \E seen \in Times :
              Changed(i, at, worker[i].step, worker[i].result, worker[i].took, seen)
    <3>1. worker[i].seen \in Times /\ S(i).MinTime \in Times /\ S(i).MaxTime \in Times
      BY StateFacts
    <3>2. CASE LoadMin(i)
      BY <3>1, <3>2, LoadMinFacts
    <3>3. CASE SwapMin(i)
      BY <3>1, <3>3, SwapMinFacts
    <3>4. CASE LoadMax(i)
      BY <3>1, <3>4, LoadMaxFacts
    <3>5. CASE SwapMax(i)
      BY <3>1, <3>5, SwapMaxFacts
    <3> QED
      BY <1>12, <3>2, <3>3, <3>4, <3>5
  <2> QED
    BY <2>6, <2>7, <2>8
<1> QED
  BY <1>4, <1>5, <1>6, <1>7, <1>8, <1>9, <1>10, <1>11, <1>12 DEF Work



LEMMA HandFacts ==
  ASSUME StressAssumption, Typed, NEW k \in Kinds, Hand(k)
  PROVE  /\ sent' \in [Kinds -> Nat] /\ channel' \in [Kinds -> Nat]
         /\ \A l \in Kinds : channel'[l] <= Capacity(l)
         /\ sent'[k] = sent[k] + 1 /\ \A l \in Kinds \ {k} : sent'[l] = sent[l]
<1>1. \A l \in Kinds : Capacity(l) \in Nat /\ channel[l] \in Nat /\ channel[l] <= Capacity(l)
  BY ConfigFacts DEF Typed
<1>2. /\ sent \in [Kinds -> Nat] /\ channel \in [Kinds -> Nat] /\ channel[k] < Capacity(k)
      /\ sent' = [sent EXCEPT ![k] = @ + 1] /\ channel' = [channel EXCEPT ![k] = @ + 1]
  BY DEF Typed, Hand
<1>3. channel' \in [Kinds -> Nat] /\ channel'[k] = channel[k] + 1
  BY <1>2
<1>4. \A l \in Kinds : channel'[l] <= Capacity(l)
  <2> SUFFICES ASSUME NEW l \in Kinds
               PROVE  channel'[l] <= Capacity(l)
    OBVIOUS
  <2>1. CASE l = k
    BY <2>1, <1>1, <1>2, <1>3
  <2>2. CASE l # k
    BY <2>2, <1>1, <1>2
  <2> QED
    BY <2>1, <2>2
<1> QED
  BY <1>2, <1>3, <1>4

LEMMA TickerFacts ==
  ASSUME StressAssumption, Typed
  PROVE  /\ ticker.fired \in 0..MaxTicks /\ ticker.pending \in BOOLEAN
         /\ \A x \in 0..MaxTicks, p \in BOOLEAN :
               /\ [fired |-> x, pending |-> p] \in [fired: 0..MaxTicks, pending: BOOLEAN]
               /\ [fired |-> x, pending |-> p].fired = x
               /\ [fired |-> x, pending |-> p].pending = p
         /\ MaxTicks \in Nat
<1>1. ticker \in [fired: 0..MaxTicks, pending: BOOLEAN] /\ MaxTicks \in Nat
  BY DEF Typed, StressAssumption
<1> QED
  BY <1>1

(* What the ticker and the feeder do to the ticker.                        *)
LEMMA TicksFacts ==
  ASSUME StressAssumption, Typed, TickerFires
  PROVE  /\ ticker'.fired = ticker.fired + 1 /\ ticker'.pending
         /\ ticker' \in [fired: 0..MaxTicks, pending: BOOLEAN]
<1>1. ticker.fired + 1 \in 0..MaxTicks
  BY TickerFacts DEF TickerFires
<1>2. PICK yes : yes = TRUE
  OBVIOUS
<1>3. ticker' = [fired |-> ticker.fired + 1, pending |-> yes] /\ yes \in BOOLEAN
  BY <1>2 DEF TickerFires
<1>4. ticker'.fired = ticker.fired + 1 /\ ticker'.pending = yes
  BY <1>3
<1>5. ticker' \in [fired: 0..MaxTicks, pending: BOOLEAN]
  BY <1>1, <1>3
<1> QED
  BY <1>2, <1>4, <1>5

LEMMA ReceiveFacts ==
  ASSUME StressAssumption, Typed, feedMixedRateWork
  PROVE  /\ ticker'.fired = ticker.fired /\ ~ticker'.pending
         /\ ticker' \in [fired: 0..MaxTicks, pending: BOOLEAN]
<1>1. ticker \in [fired: 0..MaxTicks, pending: BOOLEAN]
  BY DEF Typed
<1>2. PICK no : no = FALSE
  OBVIOUS
<1>3. ticker' = [ticker EXCEPT !.pending = no] /\ no \in BOOLEAN
  BY <1>2 DEF feedMixedRateWork
<1>4. ticker'.fired = ticker.fired /\ ticker'.pending = no
  BY <1>1, <1>3
<1>5. ticker' \in [fired: 0..MaxTicks, pending: BOOLEAN]
  BY <1>1, <1>3
<1> QED
  BY <1>2, <1>4, <1>5

LEMMA FeedIsTyped ==
  ASSUME StressAssumption, Typed, Feed \/ TickerFires
  PROVE  /\ feeder' \in FeederStates
         /\ sent' \in [Kinds -> Nat] /\ channel' \in [Kinds -> Nat]
         /\ \A k \in Kinds : channel'[k] <= Capacity(k)
         /\ ticker' \in [fired: 0..MaxTicks, pending: BOOLEAN]
<1>1. /\ feeder \in FeederStates /\ sent \in [Kinds -> Nat] /\ channel \in [Kinds -> Nat]
      /\ \A k \in Kinds : channel[k] <= Capacity(k)
      /\ ticker \in [fired: 0..MaxTicks, pending: BOOLEAN]
  BY DEF Typed
<1>2. "read" \in Kinds /\ "write" \in Kinds
  BY DEF Kinds
<1>3. CASE FeedRead
  BY <1>1, <1>2, <1>3, HandFacts DEF FeedRead, FeederStates
<1>4. CASE FeedWrite
  BY <1>1, <1>2, <1>4, HandFacts DEF FeedWrite, FeederStates
<1>5. CASE feedMixedRateWork
  BY <1>1, <1>5, ReceiveFacts DEF feedMixedRateWork, FeederStates
<1>6. CASE FeederEnds
  BY <1>1, <1>6 DEF FeederEnds, FeederStates
<1>7. CASE TickerFires
  BY <1>1, <1>7, TicksFacts DEF TickerFires
<1> QED
  BY <1>3, <1>4, <1>5, <1>6, <1>7 DEF Feed

(* A user that a worker takes leaves the channel.                          *)
LEMMA TakenIsTyped ==
  ASSUME StressAssumption, Typed, NEW i \in Workers, TakeUser(i)
  PROVE  /\ channel' \in [Kinds -> Nat] /\ \A l \in Kinds : channel'[l] <= Capacity(l)
<1>1. KindOf(i) \in Kinds /\ \A l \in Kinds : Capacity(l) \in Nat
  BY ConfigFacts DEF Typed
<1>2. PICK k \in Kinds : k = KindOf(i)
  BY <1>1
<1>3. /\ channel \in [Kinds -> Nat] /\ channel[k] > 0
      /\ channel' = [channel EXCEPT ![k] = @ - 1]
      /\ \A l \in Kinds : channel[l] \in Nat /\ channel[l] <= Capacity(l)
  BY <1>2 DEF Typed, TakeUser
<1>4. channel[k] - 1 \in Nat /\ channel[k] - 1 <= channel[k]
  BY <1>3
<1>5. channel' \in [Kinds -> Nat] /\ channel'[k] = channel[k] - 1
  BY <1>3, <1>4
<1>6. ASSUME NEW l \in Kinds
      PROVE  channel'[l] <= Capacity(l)
  <2>1. CASE l = k
    BY <2>1, <1>1, <1>3, <1>5
  <2>2. CASE l # k
    BY <2>2, <1>3
  <2> QED
    BY <2>1, <2>2
<1> QED
  BY <1>5, <1>6

LEMMA TypedStep ==
  ASSUME StressAssumption, Typed, [StressNext]_stressVars
  PROVE  Typed'
<1>1. config' = config
  BY DEF StressNext, stressVars
<1>2. /\ Workers' = Workers /\ WorkerState' = WorkerState /\ Statistics' = Statistics
      /\ \A k \in Kinds : Capacity(k)' = Capacity(k)
      /\ \A i \in Workers : StepsOf(i)' = StepsOf(i)
  BY <1>1, SameConfig
<1> DEFINE WorkPart == /\ worker' \in [1..MaxWorkers -> WorkerState]
                       /\ stats' \in [Kinds -> Statistics]
                       /\ RunnersHaveWorkers' /\ StepsInScenario' /\ PrintedIsOver'
           FeedPart == /\ feeder' \in FeederStates
                       /\ sent' \in [Kinds -> Nat] /\ channel' \in [Kinds -> Nat]
                       /\ \A k \in Kinds : channel'[k] <= Capacity(k)
                       /\ ticker' \in [fired: 0..MaxTicks, pending: BOOLEAN]
<1>3. WorkPart /\ FeedPart /\ over' \in BOOLEAN /\ printed' \in BOOLEAN => Typed'
  BY <1>1, <1>2 DEF Typed
<1>4. UNCHANGED <<worker, stats, printed>> => WorkPart
  BY <1>2 DEF Typed, RunnersHaveWorkers, StepsInScenario, PrintedIsOver
<1>5. UNCHANGED <<feeder, sent, channel, ticker>> => FeedPart
  BY DEF Typed
<1>6. over \in BOOLEAN /\ printed \in BOOLEAN
  BY DEF Typed
<1>7. CASE Feed \/ TickerFires
  <2>1. FeedPart
    BY <1>7, FeedIsTyped
  <2>2. UNCHANGED <<over, worker, stats, printed>>
    BY <1>7 DEF Feed, FeedRead, FeedWrite, feedMixedRateWork, FeederEnds, TickerFires
  <2> HIDE DEF WorkPart, FeedPart
  <2> QED
    BY <2>1, <2>2, <1>3, <1>4, <1>6
<1>8. CASE DurationPasses
  <2>1. over' = TRUE /\ UNCHANGED <<feeder, sent, channel, ticker, worker, stats, printed>>
    BY <1>8 DEF DurationPasses
  <2> HIDE DEF WorkPart, FeedPart
  <2> QED
    BY <2>1, <1>3, <1>4, <1>5, <1>6
<1>9. CASE printStats
  <2>1. /\ printed' = TRUE /\ UNCHANGED <<over, feeder, sent, channel, ticker, worker, stats>>
        /\ \A i \in Workers : worker[i].at = "left"
    BY <1>9 DEF printStats
  <2>2. WorkPart
    BY <1>2, <2>1 DEF Typed, RunnersHaveWorkers, StepsInScenario, PrintedIsOver
  <2> HIDE DEF WorkPart, FeedPart
  <2> QED
    BY <2>1, <2>2, <1>3, <1>5, <1>6
<1>10. ASSUME NEW i \in Workers,
              \/ Work(i) \/ TakeUser(i) \/ RunnerPasses(i) \/ RunnerFails(i) \/ TimesOut(i)
       PROVE  Typed'
  <2>1. WorkPart
    BY <1>1, <1>10, WorkIsTyped
  <2>2. UNCHANGED <<over, feeder, sent, ticker, printed>>
    BY <1>10 DEF Work, TakeUser, RunnerPasses, RunnerFails, TimesOut, Leave, Dial,
                 ResultArrives, CloseClient, LoadMin, SwapMin, LoadMax, SwapMax, Same
  <2>3. CASE TakeUser(i)
    <3>1. FeedPart
      BY <2>2, <2>3, TakenIsTyped DEF Typed
    <3> HIDE DEF WorkPart, FeedPart
    <3> QED
      BY <2>1, <2>2, <3>1, <1>3, <1>6
  <2>4. CASE ~TakeUser(i)
    <3>1. channel' = channel
      BY <1>10, <2>4 DEF Work, RunnerPasses, RunnerFails, TimesOut, Leave, Dial,
                 ResultArrives, CloseClient, LoadMin, SwapMin, LoadMax, SwapMax, Same
    <3> HIDE DEF WorkPart, FeedPart
    <3> QED
      BY <2>1, <2>2, <3>1, <1>3, <1>5, <1>6
  <2> QED
    BY <2>3, <2>4
<1>11. CASE UNCHANGED stressVars
  <2>1. UNCHANGED <<over, feeder, sent, channel, ticker, worker, stats, printed>>
    BY <1>11 DEF stressVars
  <2> HIDE DEF WorkPart, FeedPart
  <2> QED
    BY <2>1, <1>3, <1>4, <1>5, <1>6
<1> QED
  BY <1>7, <1>8, <1>9, <1>10, <1>11 DEF StressNext

LEMMA TypedInit ==
  ASSUME StressAssumption, StressInit
  PROVE  Typed
<1>1. config \in Configs /\ over \in BOOLEAN /\ printed \in BOOLEAN /\ feeder \in FeederStates
  BY DEF StressInit, FeederStates
<1>2. 0 \in Times /\ \A k \in Kinds : Capacity(k) \in Nat
  BY <1>1, ConfigFacts
<1>3. /\ sent \in [Kinds -> Nat] /\ channel \in [Kinds -> Nat]
      /\ \A k \in Kinds : channel[k] <= Capacity(k)
  BY <1>2 DEF StressInit
<1>4. ticker \in [fired: 0..MaxTicks, pending: BOOLEAN]
  <2>1. 0 \in 0..MaxTicks
    BY DEF StressAssumption
  <2>2. PICK no : no = FALSE
    OBVIOUS
  <2>3. ticker = [fired |-> 0, pending |-> no]
    BY <2>2 DEF StressInit
  <2> QED
    BY <2>1, <2>2, <2>3
<1>5. Idle \in WorkerState /\ Idle.at = "idle" /\ Idle.step = 0 /\ Idle.result = "none"
  <2>1. "idle" \in Stages /\ "none" \in Outcomes /\ 0 \in 0..4
    BY DEF Stages, Outcomes
  <2> QED
    BY <1>2, <2>1, IdleIs, WorkerType
<1>6. NoStats \in Statistics
  <2>1. NoStats = StatsOf(0, 0, 0, 0, 0, {}, 0)
    BY DEF NoStats, StatsOf
  <2> QED
    BY <1>2, <2>1, StatsType
<1>7. worker \in [1..MaxWorkers -> WorkerState] /\ stats \in [Kinds -> Statistics]
  BY <1>5, <1>6 DEF StressInit
<1>8. \A i \in Workers : worker[i] = Idle
  BY <1>1, ConfigFacts DEF StressInit
<1>9. RunnersHaveWorkers /\ PrintedIsOver
  <2>1. ~printed
    BY DEF StressInit
  <2>2. \A i \in Workers : ~(worker[i].step > 0) /\ worker[i].at \notin {"waiting", "closing"}
    BY <1>5, <1>8
  <2> QED
    BY <2>1, <2>2 DEF RunnersHaveWorkers, PrintedIsOver
<1>10. StepsInScenario
  <2>1. \A i \in Workers : Len(StepsOf(i)) \in 1..4
    BY <1>1, StepsOfFacts
  <2> QED
    BY <1>5, <1>8, <2>1, StepNumbers DEF StepsInScenario
<1> QED
  BY <1>1, <1>3, <1>4, <1>7, <1>9, <1>10 DEF Typed

LEMMA StressTyped == ASSUME StressAssumption PROVE StressSpec => []Typed
<1>1. StressInit => Typed
  BY TypedInit
<1>2. Typed /\ [StressNext]_stressVars => Typed'
  BY TypedStep
<1> QED
  BY <1>1, <1>2, PTL DEF StressSpec

(* The types: the channels within their capacity, the counters numbers,    *)
(* the steps of a scenario within it (runScenario, newStats).              *)
THEOREM TypeCorrect == ASSUME StressAssumption PROVE StressSpec => []StressTypeOK
<1>1. Typed => StressTypeOK
  <2> SUFFICES ASSUME Typed PROVE StressTypeOK
    OBVIOUS
  <2>1. \A k \in Kinds : channel[k] \in 0..Capacity(k)
    BY ConfigFacts DEF Typed
  <2>2. \A i \in Workers : worker[i] \in
          [at: {"idle", "dialing", "waiting", "closing", "min", "casMin", "max", "casMax", "left"},
           step: 0..4, result: {"none", "ok", "failed"},
           took: config.latencies \cup {0}, seen: config.latencies \cup {0}]
    BY StateFacts DEF WorkerState, Stages, Outcomes, Times
  <2> QED
    BY <2>1, <2>2 DEF Typed, StressTypeOK, FeederStates
<1> QED
  BY <1>1, StressTyped, PTL


-----------------------------------------------------------------------------
(* The feeder *)

LEMMA ProductFacts ==
  ASSUME NEW i \in Nat \ {0}, NEW w \in Nat
  PROVE  /\ i * w \in Nat /\ i * (w + 1) \in Nat /\ i * (w + 1) = i * w + i
         /\ \A q \in Nat : q <= w => i * q <= i * w
<1>1. i * w \in Nat /\ i * (w + 1) \in Nat /\ i * (w + 1) = i * w + i
  OBVIOUS
<1>2. ASSUME NEW q \in Nat, q <= w
      PROVE  i * q <= i * w
  <2>1. PICK d \in Nat : w = q + d
    <3>1. w - q \in Nat /\ w = q + (w - q)
      BY <1>2
    <3> QED
      BY <3>1
  <2>2. i * w = i * q + i * d /\ i * q \in Nat /\ i * d \in Nat
    BY <2>1
  <2> QED
    BY <2>2
<1> QED
  BY <1>1, <1>2

(* The multiple of an interval that follows w * interval is the next one.  *)
LEMMA NextMultiple ==
  ASSUME NEW i \in Nat \ {0}, NEW w \in Nat, NEW r \in Nat,
         i * w < r, r <= i * (w + 1)
  PROVE  r % i = 0 <=> r = i * (w + 1)
<1>1. r % i \in 0..i-1 /\ r \div i \in Nat /\ r = i * (r \div i) + (r % i)
  OBVIOUS
<1>2. PICK q \in Nat, m \in 0..i-1 : q = r \div i /\ m = r % i /\ r = i * q + m
  BY <1>1
<1>3. i * w \in Nat /\ i * q \in Nat /\ i * (w + 1) = i * w + i
  BY ProductFacts
<1>4. ASSUME m = 0
      PROVE  r = i * (w + 1)
  <2>1. i * q > i * w /\ r = i * q
    BY <1>2, <1>3, <1>4
  <2>2. ~(q <= w)
    BY <2>1, <1>3, ProductFacts
  <2>3. w + 1 <= q /\ w + 1 \in Nat
    BY <2>2
  <2>4. i * (w + 1) <= i * q
    BY <2>3, ProductFacts
  <2> QED
    BY <2>1, <2>4, <1>3
<1>5. ASSUME r = i * (w + 1), m # 0
      PROVE  FALSE
  <2>1. i * w + i = i * q + m /\ 0 < m /\ m < i
    BY <1>2, <1>3, <1>5
  <2>2. i * w < i * q /\ i * q < i * w + i
    BY <2>1, <1>3
  <2>3. ~(q <= w)
    BY <2>2, <1>3, ProductFacts
  <2>4. w + 1 <= q /\ w + 1 \in Nat
    BY <2>3
  <2>5. i * (w + 1) <= i * q
    BY <2>4, ProductFacts
  <2> QED
    BY <2>2, <2>5, <1>3
<1> QED
  BY <1>2, <1>4, <1>5

(* The second invariant: where the feeder is between two writes.           *)
RatioPlace ==
    config.mode = "ratio" =>
        /\ config.interval * sent["write"] <= sent["read"]
        /\ sent["read"] <= config.interval * (sent["write"] + 1)
        /\ feeder = "loop" => sent["read"] < config.interval * (sent["write"] + 1)
        /\ feeder = "write" => sent["read"] = config.interval * (sent["write"] + 1)

(* A tick is one that waits, one whose write is due, one whose write is    *)
(* made, or one that was dropped; nothing ticks unless the rate asks.      *)
RatePlace ==
    /\ config.mode = "rate" =>
          sent["write"] + (IF feeder = "write" THEN 1 ELSE 0)
                        + (IF ticker.pending THEN 1 ELSE 0) <= ticker.fired
    /\ config.mode # "rate" => ~ticker.pending

FeederPlace == RatioPlace /\ RatePlace

LEMMA FeedFacts ==
  ASSUME StressAssumption, Typed
  PROVE  /\ config.interval \in Nat \ {0} /\ feeder \in FeederStates
         /\ sent["read"] \in Nat /\ sent["write"] \in Nat
         /\ ticker.fired \in Nat /\ ticker.pending \in BOOLEAN
         /\ "read" \in Kinds /\ "write" \in Kinds
<1>1. sent \in [Kinds -> Nat] /\ "read" \in Kinds /\ "write" \in Kinds
  BY DEF Typed, Kinds
<1>2. ticker.fired \in Nat
  BY TickerFacts
<1> QED
  BY <1>1, <1>2, ConfigFacts, TickerFacts DEF Typed

LEMMA RatioStep ==
  ASSUME StressAssumption, Typed, FeederPlace, config' = config, Feed
  PROVE  RatioPlace'
<1> SUFFICES ASSUME config.mode = "ratio"
             PROVE  RatioPlace'
  BY DEF RatioPlace
<1>1. /\ config.interval \in Nat \ {0} /\ sent["read"] \in Nat /\ sent["write"] \in Nat
      /\ "read" \in Kinds /\ "write" \in Kinds
  BY FeedFacts
<1>2. PICK i \in Nat \ {0}, r \in Nat, w \in Nat :
         i = config.interval /\ r = sent["read"] /\ w = sent["write"]
  BY <1>1
<1>3. /\ i * w <= r /\ r <= i * (w + 1) /\ (feeder = "loop" => r < i * (w + 1))
      /\ feeder = "write" => r = i * (w + 1)
  BY <1>2 DEF FeederPlace, RatioPlace
<1>4. i * w \in Nat /\ i * (w + 1) \in Nat /\ i * (w + 1) = i * w + i
  BY ProductFacts
<1>5. CASE FeedRead
  <2>1. /\ feeder = "loop" /\ sent'["read"] = r + 1 /\ sent'["write"] = w
        /\ feeder' = IF (r + 1) % i = 0 THEN "write" ELSE "loop"
    <3>1. sent'["read"] = r + 1 /\ sent'["write"] = w
      BY <1>1, <1>2, <1>5, HandFacts DEF FeedRead
    <3> QED
      BY <1>2, <1>5, <3>1 DEF FeedRead, shouldScheduleWrite
  <2>2. i * w < r + 1 /\ r + 1 <= i * (w + 1) /\ r + 1 \in Nat
    BY <1>3, <1>4, <2>1
  <2>3. (r + 1) % i = 0 <=> r + 1 = i * (w + 1)
    BY <2>2, NextMultiple
  <2>4. CASE r + 1 = i * (w + 1)
    <3>1. feeder' = "write"
      BY <2>1, <2>3, <2>4
    <3>2. i * w <= r + 1 /\ r + 1 <= i * (w + 1)
      BY <1>4, <2>2
    <3> QED
      BY <1>2, <2>1, <2>4, <3>1, <3>2 DEF RatioPlace
  <2>5. CASE r + 1 # i * (w + 1)
    <3>1. feeder' = "loop"
      BY <2>1, <2>3, <2>5
    <3>2. i * w <= r + 1 /\ r + 1 <= i * (w + 1) /\ r + 1 < i * (w + 1)
      BY <1>4, <2>2, <2>5
    <3> QED
      BY <1>2, <2>1, <3>1, <3>2 DEF RatioPlace
  <2> QED
    BY <2>4, <2>5
<1>6. CASE FeedWrite
  <2>1. /\ feeder = "write" /\ feeder' = "loop"
        /\ sent'["read"] = r /\ sent'["write"] = w + 1
    BY <1>1, <1>2, <1>6, HandFacts DEF FeedWrite
  <2>2. w + 1 \in Nat /\ i * ((w + 1) + 1) = i * (w + 1) + i
    BY ProductFacts
  <2>3. i * (w + 1) <= r /\ r <= i * ((w + 1) + 1) /\ r < i * ((w + 1) + 1)
    BY <1>3, <1>4, <2>1, <2>2
  <2> QED
    BY <1>2, <2>1, <2>3 DEF RatioPlace
<1>7. CASE feedMixedRateWork
  BY <1>7 DEF feedMixedRateWork, FeederPlace, RatePlace
<1>8. CASE FeederEnds
  BY <1>8 DEF FeederEnds, FeederPlace, RatioPlace
<1> QED
  BY <1>5, <1>6, <1>7, <1>8 DEF Feed

LEMMA RateStep ==
  ASSUME StressAssumption, Typed, FeederPlace, config' = config, Feed \/ TickerFires
  PROVE  RatePlace'
<1>1. /\ sent["read"] \in Nat /\ sent["write"] \in Nat
      /\ ticker.fired \in Nat /\ "read" \in Kinds /\ "write" \in Kinds
  BY FeedFacts
<1>2. /\ config.mode = "rate" =>
            sent["write"] + (IF feeder = "write" THEN 1 ELSE 0)
                          + (IF ticker.pending THEN 1 ELSE 0) <= ticker.fired
      /\ config.mode # "rate" => ~ticker.pending
  BY DEF FeederPlace, RatePlace
<1>3. CASE FeedRead
  <2>1. /\ sent'["write"] = sent["write"] /\ ticker' = ticker /\ feeder = "loop"
    BY <1>1, <1>3, HandFacts DEF FeedRead
  <2>2. config.mode = "rate" => feeder' = "loop"
    BY <1>3 DEF FeedRead, shouldScheduleWrite
  <2> QED
    BY <1>1, <1>2, <2>1, <2>2 DEF RatePlace
<1>4. CASE FeedWrite
  <2>1. /\ sent'["write"] = sent["write"] + 1 /\ ticker' = ticker
        /\ feeder = "write" /\ feeder' = "loop"
    BY <1>1, <1>4, HandFacts DEF FeedWrite
  <2> QED
    BY <1>1, <1>2, <2>1 DEF RatePlace
<1>5. CASE feedMixedRateWork
  <2>1. /\ sent' = sent /\ ticker'.fired = ticker.fired /\ ~ticker'.pending
        /\ ticker.pending /\ feeder = "loop" /\ feeder' = "write"
    BY <1>5, ReceiveFacts DEF feedMixedRateWork
  <2> QED
    BY <1>1, <1>2, <2>1 DEF RatePlace
<1>6. CASE FeederEnds
  <2>1. sent' = sent /\ ticker' = ticker /\ feeder' = "ended"
    BY <1>6 DEF FeederEnds
  <2> QED
    BY <1>1, <1>2, <2>1 DEF RatePlace
<1>7. CASE TickerFires
  <2>1. /\ sent' = sent /\ feeder' = feeder /\ ticker'.fired = ticker.fired + 1
        /\ ticker'.pending /\ config.mode = "rate"
    BY <1>7, TicksFacts DEF TickerFires
  <2> QED
    BY <1>1, <1>2, <2>1 DEF RatePlace
<1> QED
  BY <1>3, <1>4, <1>5, <1>6, <1>7 DEF Feed

LEMMA FeederStep ==
  ASSUME StressAssumption, Typed, FeederPlace, [StressNext]_stressVars
  PROVE  FeederPlace'
<1>1. config' = config
  BY DEF StressNext, stressVars
<1>2. CASE Feed
  BY <1>1, <1>2, RatioStep, RateStep DEF FeederPlace
<1>3. CASE TickerFires
  <2>1. sent' = sent /\ feeder' = feeder
    BY <1>3 DEF TickerFires
  <2>2. RatioPlace'
    BY <1>1, <2>1 DEF FeederPlace, RatioPlace
  <2> QED
    BY <1>1, <1>3, <2>2, RateStep DEF FeederPlace
<1>4. CASE UNCHANGED <<sent, feeder, ticker>>
  BY <1>1, <1>4 DEF FeederPlace, RatioPlace, RatePlace
<1>5. CASE DurationPasses \/ printStats
  BY <1>4, <1>5 DEF DurationPasses, printStats
<1>6. ASSUME NEW i \in Workers,
             \/ Work(i) \/ TakeUser(i) \/ RunnerPasses(i) \/ RunnerFails(i) \/ TimesOut(i)
      PROVE  FeederPlace'
  BY <1>4, <1>6 DEF Work, TakeUser, RunnerPasses, RunnerFails, TimesOut, Leave, Dial,
                    ResultArrives, CloseClient, LoadMin, SwapMin, LoadMax, SwapMax, Same
<1>7. CASE UNCHANGED stressVars
  BY <1>4, <1>7 DEF stressVars
<1> QED
  BY <1>2, <1>3, <1>5, <1>6, <1>7 DEF StressNext

LEMMA FeederInit ==
  ASSUME StressAssumption, StressInit
  PROVE  FeederPlace
<1>1. /\ sent["read"] = 0 /\ sent["write"] = 0 /\ feeder = "loop"
      /\ ticker.fired = 0 /\ ~ticker.pending /\ config.interval \in Nat \ {0}
  <2>1. PICK no : no = FALSE
    OBVIOUS
  <2>2. ticker = [fired |-> 0, pending |-> no]
    BY <2>1 DEF StressInit
  <2> QED
    BY <2>1, <2>2, ConfigFacts DEF StressInit, Kinds
<1>2. RatioPlace
  <2>1. /\ config.interval * 0 = 0 /\ config.interval * (0 + 1) = config.interval
        /\ config.interval > 0
    BY <1>1
  <2> QED
    BY <1>1, <2>1 DEF RatioPlace
<1>3. RatePlace
  BY <1>1 DEF RatePlace
<1> QED
  BY <1>2, <1>3 DEF FeederPlace

(* A mixed run writes once for every interval of reads, never before, and  *)
(* does not read on while a write is due; on the ticker it writes no more  *)
(* than once for a tick (feedMixedRatioWork, feedMixedRateWork).           *)
THEOREM WritesAfterReads == ASSUME StressAssumption PROVE StressSpec => []WritesFollowReads
<1>1. StressInit => FeederPlace
  BY FeederInit
<1>2. Typed /\ FeederPlace /\ [StressNext]_stressVars => FeederPlace'
  BY FeederStep
<1>3. Typed /\ FeederPlace => WritesFollowReads
  <2> SUFFICES ASSUME Typed, FeederPlace PROVE WritesFollowReads
    OBVIOUS
  <2>1. /\ sent["read"] \in Nat /\ sent["write"] \in Nat /\ ticker.fired \in Nat
        /\ config.interval \in Nat \ {0}
    BY FeedFacts
  <2>2. /\ config.interval * sent["write"] \in Nat
        /\ config.interval * (sent["write"] + 1) \in Nat
    BY <2>1, ProductFacts
  <2>3. config.mode = "rate" => sent["write"] <= ticker.fired
    <3>1. \A w, f \in Nat, a, b \in {0, 1} : w + a + b <= f => w <= f
      OBVIOUS
    <3>2. /\ (IF feeder = "write" THEN 1 ELSE 0) \in {0, 1}
          /\ (IF ticker.pending THEN 1 ELSE 0) \in {0, 1}
      OBVIOUS
    <3> QED
      BY <2>1, <3>1, <3>2 DEF FeederPlace, RatePlace
  <2>4. config.mode = "ratio" =>
          /\ config.interval * sent["write"] <= sent["read"]
          /\ sent["read"] <= config.interval * (sent["write"] + 1)
          /\ sent["read"] = config.interval * (sent["write"] + 1) => feeder # "loop"
    <3>1. \A a, b \in Nat : a < b => a # b
      OBVIOUS
    <3> QED
      BY <2>1, <2>2, <3>1 DEF FeederPlace, RatioPlace
  <2> QED
    BY <2>3, <2>4 DEF WritesFollowReads
<1> QED
  BY <1>1, <1>2, <1>3, StressTyped, PTL DEF StressSpec


-----------------------------------------------------------------------------
(* The extremes *)

(* Those who record a success, and those who have still to see to it that  *)
(* the minimum is one.                                                     *)
Recording == {"min", "casMin", "max", "casMax"}

Lowering == {"min", "casMin"}

(* The third invariant: an extreme is that of the successes but for the    *)
(* workers that have not yet brought theirs in.                            *)
MaxCovers(k) ==
    \A d \in stats[k].took :
        \/ d <= stats[k].MaxTime
        \/ \E i \in Workers : KindOf(i) = k /\ worker[i].at \in Recording /\ worker[i].took = d

MinCovers(k) ==
    0 \notin stats[k].took =>
    \A d \in stats[k].took :
        \/ stats[k].MinTime # 0 /\ stats[k].MinTime <= d
        \/ \E i \in Workers : KindOf(i) = k /\ worker[i].at \in Lowering /\ worker[i].took = d

Extremes(k) ==
    /\ stats[k].MaxTime \in stats[k].took \cup {0} /\ stats[k].MinTime \in stats[k].took \cup {0}
    /\ MaxCovers(k) /\ MinCovers(k)

(* What a worker has seen of them when it swaps.                           *)
Swaps(i) ==
    /\ worker[i].at \in Recording => worker[i].took \in stats[KindOf(i)].took
    /\ worker[i].at = "casMax" => worker[i].took > worker[i].seen
    /\ worker[i].at = "casMin" => worker[i].seen = 0 \/ worker[i].took < worker[i].seen

ExtremesInv == (\A k \in Kinds : Extremes(k)) /\ (\A i \in Workers : Swaps(i))

(* What a step may do to the extremes of the kind of its worker: it adds   *)
(* a success that its worker goes on to record; it brings the extremes     *)
(* closer; and a worker that stops recording has been covered.             *)
Covering(i, k) ==
    /\ stats[k].took \subseteq stats'[k].took
    /\ \A d \in stats'[k].took \ stats[k].took :
          worker'[i].at \in Lowering /\ worker'[i].took = d
    /\ stats[k].MaxTime <= stats'[k].MaxTime
    /\ stats'[k].MaxTime \in stats'[k].took \cup {0}
    /\ stats'[k].MinTime \in stats'[k].took \cup {0}
    /\ worker[i].at \in Recording =>
          \/ worker[i].took <= stats'[k].MaxTime
          \/ worker'[i].at \in Recording /\ worker'[i].took = worker[i].took
    /\ 0 \notin stats'[k].took =>
          /\ stats[k].MinTime # 0 => stats'[k].MinTime # 0 /\ stats'[k].MinTime <= stats[k].MinTime
          /\ worker[i].at \in Lowering =>
                \/ stats'[k].MinTime # 0 /\ stats'[k].MinTime <= worker[i].took
                \/ worker'[i].at \in Lowering /\ worker'[i].took = worker[i].took

LEMMA CoveringStep ==
  ASSUME StressAssumption, Typed, Typed', ExtremesInv, config' = config,
         NEW i \in Workers, NEW k \in Kinds, KindOf(i) = k,
         \A j \in Workers \ {i} : worker'[j] = worker[j],
         \A l \in Kinds \ {k} : stats'[l] = stats[l],
         Covering(i, k), Swaps(i)'
  PROVE  ExtremesInv'
<1>1. Workers' = Workers /\ Times' = Times /\ \A j \in Workers : KindOf(j)' = KindOf(j)
  BY SameConfig
<1>2. /\ \A j \in Workers : KindOf(j) \in Kinds
      /\ Times \subseteq Nat
  BY ConfigFacts DEF Typed
<1>3. /\ \A l \in Kinds : stats[l].MinTime \in Nat /\ stats[l].MaxTime \in Nat
                          /\ stats[l].took \subseteq Nat
      /\ \A l \in Kinds : stats'[l].MinTime \in Nat /\ stats'[l].MaxTime \in Nat
                          /\ stats'[l].took \subseteq Nat
  <2>1. \A l \in Kinds : stats[l] \in Statistics /\ stats'[l] \in Statistics
    BY SameConfig DEF Typed
  <2> QED
    BY <1>2, <2>1, StatsFields
<1>4. Extremes(k) /\ Swaps(i)
  BY DEF ExtremesInv
<1>5. MaxCovers(k)'
  <2> SUFFICES ASSUME NEW d \in stats'[k].took, ~(d <= stats'[k].MaxTime)
               PROVE  \E j \in Workers : KindOf(j) = k /\ worker'[j].at \in Recording
                                         /\ worker'[j].took = d
    BY <1>1 DEF MaxCovers
  <2>1. CASE d \notin stats[k].took
    <3>1. worker'[i].at \in Lowering /\ worker'[i].took = d
      BY <2>1 DEF Covering
    <3> QED
      BY <3>1 DEF Lowering, Recording
  <2>2. CASE d \in stats[k].took
    <3>1. ~(d <= stats[k].MaxTime)
      BY <1>3, <2>2 DEF Covering
    <3>2. PICK j \in Workers : KindOf(j) = k /\ worker[j].at \in Recording /\ worker[j].took = d
      BY <1>4, <2>2, <3>1 DEF Extremes, MaxCovers
    <3>3. CASE j = i
      BY <3>2, <3>3 DEF Covering
    <3>4. CASE j # i
      BY <3>2, <3>4
    <3> QED
      BY <3>3, <3>4
  <2> QED
    BY <2>1, <2>2
<1>6. MinCovers(k)'
  <2> SUFFICES ASSUME 0 \notin stats'[k].took, NEW d \in stats'[k].took,
                      ~(stats'[k].MinTime # 0 /\ stats'[k].MinTime <= d)
               PROVE  \E j \in Workers : KindOf(j) = k /\ worker'[j].at \in Lowering
                                         /\ worker'[j].took = d
    BY <1>1 DEF MinCovers
  <2>1. CASE d \notin stats[k].took
    BY <2>1 DEF Covering
  <2>2. CASE d \in stats[k].took
    <3>1. 0 \notin stats[k].took
      BY DEF Covering
    <3>2. ~(stats[k].MinTime # 0 /\ stats[k].MinTime <= d)
      BY <1>3, <2>2 DEF Covering
    <3>3. PICK j \in Workers : KindOf(j) = k /\ worker[j].at \in Lowering /\ worker[j].took = d
      BY <1>4, <2>2, <3>1, <3>2 DEF Extremes, MinCovers
    <3>4. CASE j = i
      BY <3>3, <3>4 DEF Covering
    <3>5. CASE j # i
      BY <3>3, <3>5
    <3> QED
      BY <3>4, <3>5
  <2> QED
    BY <2>1, <2>2
<1>7. Extremes(k)'
  BY <1>5, <1>6 DEF Extremes, Covering
<1>8. ASSUME NEW l \in Kinds, l # k
      PROVE  Extremes(l)'
  <2>1. \A j \in Workers : KindOf(j) = l => worker'[j] = worker[j]
    BY <1>8
  <2>2. Extremes(l) /\ stats'[l] = stats[l]
    BY <1>8 DEF ExtremesInv
  <2>3. MaxCovers(l)'
    BY <1>1, <2>1, <2>2 DEF Extremes, MaxCovers
  <2>4. MinCovers(l)'
    BY <1>1, <2>1, <2>2 DEF Extremes, MinCovers
  <2> QED
    BY <2>2, <2>3, <2>4 DEF Extremes
<1>9. ASSUME NEW j \in Workers, j # i
      PROVE  Swaps(j)'
  <2>1. Swaps(j) /\ worker'[j] = worker[j] /\ KindOf(j)' = KindOf(j) /\ KindOf(j) \in Kinds
    BY <1>1, <1>2, <1>9 DEF ExtremesInv
  <2>2. stats[KindOf(j)].took \subseteq stats'[KindOf(j)].took
    BY <2>1 DEF Covering
  <2> QED
    BY <2>1, <2>2 DEF Swaps
<1> QED
  BY <1>1, <1>7, <1>8, <1>9 DEF ExtremesInv

LEMMA ExtremeNumbers ==
  ASSUME StressAssumption, Typed, ExtremesInv, NEW i \in Workers
  PROVE  /\ KindOf(i) \in Kinds /\ S(i) = stats[KindOf(i)]
         /\ worker[i].took \in Nat /\ worker[i].seen \in Nat
         /\ stats[KindOf(i)].MinTime \in Nat /\ stats[KindOf(i)].MaxTime \in Nat
         /\ stats[KindOf(i)].MaxTime \in stats[KindOf(i)].took \cup {0}
         /\ stats[KindOf(i)].MinTime \in stats[KindOf(i)].took \cup {0}
         /\ stats[KindOf(i)].took \subseteq Nat
         /\ Swaps(i)
<1>1. KindOf(i) \in Kinds /\ S(i) = stats[KindOf(i)]
  BY StateFacts DEF S
<1>2. /\ worker[i].took \in Times /\ worker[i].seen \in Times
      /\ S(i).MinTime \in Times /\ S(i).MaxTime \in Times /\ S(i).took \in SUBSET Times
      /\ Times \subseteq Nat
  BY StateFacts
<1>3. Extremes(KindOf(i)) /\ Swaps(i)
  BY <1>1 DEF ExtremesInv
<1> QED
  BY <1>1, <1>2, <1>3 DEF Extremes

(* A worker that records nothing before and after.                         *)
LEMMA NotRecording ==
  ASSUME StressAssumption, Typed, Typed', ExtremesInv, config' = config,
         NEW i \in Workers, NEW k \in Kinds, KindOf(i) = k,
         worker[i].at \notin Recording, worker'[i].at \notin Recording,
         \A j \in Workers \ {i} : worker'[j] = worker[j],
         \A l \in Kinds \ {k} : stats'[l] = stats[l],
         stats'[k].MinTime = stats[k].MinTime, stats'[k].MaxTime = stats[k].MaxTime,
         stats'[k].took = stats[k].took
  PROVE  ExtremesInv'
<1>1. /\ stats[k].MaxTime \in stats[k].took \cup {0} /\ stats[k].MinTime \in stats[k].took \cup {0}
      /\ stats[k].MaxTime \in Nat /\ stats[k].MinTime \in Nat
  BY ExtremeNumbers
<1>2. worker[i].at \notin Lowering
  BY DEF Lowering, Recording
<1>3. \A n \in Nat : n <= n
  OBVIOUS
<1>4. Covering(i, k)
  BY <1>1, <1>2, <1>3 DEF Covering
<1>5. Swaps(i)'
  BY DEF Swaps, Recording
<1> QED
  BY <1>4, <1>5, CoveringStep

LEMMA QuietExtremes ==
  ASSUME StressAssumption, Typed, Typed', ExtremesInv, config' = config, NEW i \in Workers,
         \/ TakeUser(i) \/ Leave(i) \/ Dial(i) \/ RunnerPasses(i) \/ RunnerFails(i)
         \/ TimesOut(i) \/ CloseClient(i)
  PROVE  ExtremesInv'
<1>1. /\ S(i) = stats[KindOf(i)] /\ KindOf(i) \in Kinds
      /\ worker[i].step > 0 <=> worker[i].at \in {"waiting", "closing"}
  BY StateFacts DEF S
<1>2. /\ \A j \in Workers \ {i} : worker'[j] = worker[j]
      /\ \A l \in Kinds \ {KindOf(i)} : stats'[l] = stats[l]
      /\ stats'[KindOf(i)].MinTime = stats[KindOf(i)].MinTime
      /\ stats'[KindOf(i)].MaxTime = stats[KindOf(i)].MaxTime
      /\ stats'[KindOf(i)].took = stats[KindOf(i)].took
      /\ worker[i].at \notin Recording /\ worker'[i].at \notin Recording
  <2>1. CASE TakeUser(i)
    BY <1>1, <2>1, TakeUserFacts DEF Changed, Counted, Recording
  <2>2. CASE Leave(i)
    BY <1>1, <2>2, LeaveFacts DEF Changed, Counted, Recording
  <2>3. CASE Dial(i)
    BY <1>1, <2>3, DialFacts DEF Changed, Counted, Recording
  <2>4. CASE RunnerPasses(i)
    <3>1. worker[i].at \in {"waiting", "closing"}
      BY <1>1, <2>4 DEF RunnerPasses, Running
    <3>2. worker'[i].at = worker[i].at
      BY <2>4, RunnerPassesFacts DEF Changed
    <3> QED
      BY <1>1, <2>4, <3>1, <3>2, RunnerPassesFacts DEF Changed, Counted, Recording
  <2>5. CASE RunnerFails(i)
    <3>1. worker[i].at \in {"waiting", "closing"}
      BY <1>1, <2>5 DEF RunnerFails, Running
    <3>2. worker'[i].at = worker[i].at
      BY <2>5, RunnerFailsFacts DEF Changed
    <3> QED
      BY <1>1, <2>5, <3>1, <3>2, RunnerFailsFacts DEF Changed, Counted, Recording
  <2>6. CASE TimesOut(i)
    BY <1>1, <2>6, TimesOutFacts DEF Changed, Counted, Recording
  <2>7. CASE CloseClient(i)
    BY <1>1, <2>7, CloseClientFacts DEF Changed, Counted, Recording
  <2> QED
    BY <2>1, <2>2, <2>3, <2>4, <2>5, <2>6, <2>7
<1> QED
  BY <1>1, <1>2, NotRecording

LEMMA ResultExtremes ==
  ASSUME StressAssumption, Typed, Typed', ExtremesInv, config' = config, NEW i \in Workers,
         ResultArrives(i)
  PROVE  ExtremesInv'
<1>1. /\ KindOf(i) \in Kinds /\ S(i) = stats[KindOf(i)] /\ KindOf(i)' = KindOf(i)
      /\ stats[KindOf(i)].MinTime \in Nat /\ stats[KindOf(i)].MaxTime \in Nat
      /\ stats[KindOf(i)].MaxTime \in stats[KindOf(i)].took \cup {0}
      /\ stats[KindOf(i)].MinTime \in stats[KindOf(i)].took \cup {0}
  BY ExtremeNumbers, SameConfig
<1>2. worker[i].at = "waiting"
  BY ResultArrivesFacts
<1>3. CASE /\ Changed(i, "idle", 0, "none", 0, 0)
           /\ Counted(KindOf(i), S(i).total, S(i).success, S(i).failure + 1,
                      S(i).MinTime, S(i).MaxTime, S(i).took, S(i).applied)
  BY <1>1, <1>2, <1>3, NotRecording DEF Changed, Counted, Recording
<1>4. ASSUME NEW d \in Times, Changed(i, "min", 0, "none", d, 0),
             Counted(KindOf(i), S(i).total, S(i).success + 1, S(i).failure,
                     S(i).MinTime, S(i).MaxTime, S(i).took \cup {d}, S(i).applied)
      PROVE  ExtremesInv'
  <2>1. PICK k \in Kinds : k = KindOf(i)
    BY <1>1
  <2>2. /\ \A j \in Workers \ {i} : worker'[j] = worker[j]
        /\ \A l \in Kinds \ {k} : stats'[l] = stats[l]
        /\ worker'[i].at = "min" /\ worker'[i].took = d
        /\ stats'[k].took = stats[k].took \cup {d}
        /\ stats'[k].MinTime = stats[k].MinTime /\ stats'[k].MaxTime = stats[k].MaxTime
    BY <1>1, <1>4, <2>1 DEF Changed, Counted
  <2>3. \A n \in Nat : n <= n
    OBVIOUS
  <2>4. worker[i].at \notin Recording /\ worker[i].at \notin Lowering /\ "min" \in Lowering
    BY <1>2 DEF Recording, Lowering
  <2>5. Covering(i, k)
    BY <1>1, <2>1, <2>2, <2>3, <2>4 DEF Covering
  <2>6. Swaps(i)'
    BY <1>1, <2>1, <2>2 DEF Swaps
  <2> QED
    BY <2>1, <2>2, <2>5, <2>6, CoveringStep
<1> QED
  BY <1>3, <1>4, ResultArrivesFacts

LEMMA LoadMinExtremes ==
  ASSUME StressAssumption, Typed, Typed', ExtremesInv, config' = config, NEW i \in Workers,
         LoadMin(i)
  PROVE  ExtremesInv'
<1>1. PICK k \in Kinds : k = KindOf(i)
  BY ExtremeNumbers
<1>2. /\ S(i) = stats[k] /\ KindOf(i)' = k
      /\ worker[i].took \in Nat /\ stats[k].MinTime \in Nat /\ stats[k].MaxTime \in Nat
      /\ stats[k].MaxTime \in stats[k].took \cup {0} /\ stats[k].MinTime \in stats[k].took \cup {0}
      /\ worker[i].at = "min" /\ stats' = stats /\ worker[i].took \in stats[k].took
  BY <1>1, ExtremeNumbers, SameConfig, LoadMinFacts DEF Swaps, Recording
<1>3. /\ \A j \in Workers \ {i} : worker'[j] = worker[j]
      /\ worker'[i].took = worker[i].took
      /\ \/ /\ worker'[i].at = "casMin" /\ worker'[i].seen = stats[k].MinTime
            /\ stats[k].MinTime = 0 \/ worker[i].took < stats[k].MinTime
         \/ /\ worker'[i].at = "max" /\ stats[k].MinTime # 0
            /\ ~(worker[i].took < stats[k].MinTime)
  BY <1>2, LoadMinFacts DEF Changed
<1>4. \A m, n \in Nat : n <= n /\ (~(m < n) => n <= m)
  OBVIOUS
<1>5. Covering(i, k)
  BY <1>2, <1>3, <1>4 DEF Covering, Recording, Lowering
<1>6. Swaps(i)'
  BY <1>1, <1>2, <1>3 DEF Swaps, Recording
<1> QED
  BY <1>1, <1>2, <1>3, <1>5, <1>6, CoveringStep

LEMMA SwapMinExtremes ==
  ASSUME StressAssumption, Typed, Typed', ExtremesInv, config' = config, NEW i \in Workers,
         SwapMin(i)
  PROVE  ExtremesInv'
<1>1. PICK k \in Kinds : k = KindOf(i)
  BY ExtremeNumbers
<1>2. /\ S(i) = stats[k] /\ KindOf(i)' = k
      /\ worker[i].took \in Nat /\ stats[k].MinTime \in Nat /\ stats[k].MaxTime \in Nat
      /\ stats[k].MaxTime \in stats[k].took \cup {0} /\ stats[k].MinTime \in stats[k].took \cup {0}
      /\ worker[i].at = "casMin" /\ worker[i].took \in stats[k].took /\ stats[k].took \subseteq Nat
      /\ worker[i].seen \in Nat /\ (worker[i].seen = 0 \/ worker[i].took < worker[i].seen)
  BY <1>1, ExtremeNumbers, SameConfig, SwapMinFacts DEF Swaps, Recording
<1>3. \A m, n \in Nat : n <= n /\ (m < n => m <= n)
  OBVIOUS
<1>4. CASE /\ S(i).MinTime = worker[i].seen
           /\ Counted(KindOf(i), S(i).total, S(i).success, S(i).failure,
                      worker[i].took, S(i).MaxTime, S(i).took, S(i).applied)
           /\ Changed(i, "max", worker[i].step, worker[i].result,
                      worker[i].took, worker[i].seen)
  <2>1. /\ \A j \in Workers \ {i} : worker'[j] = worker[j]
        /\ \A l \in Kinds \ {k} : stats'[l] = stats[l]
        /\ worker'[i].at = "max" /\ worker'[i].took = worker[i].took
        /\ stats'[k].took = stats[k].took /\ stats'[k].MaxTime = stats[k].MaxTime
        /\ stats'[k].MinTime = worker[i].took
    BY <1>1, <1>2, <1>4 DEF Changed, Counted
  <2>2. stats[k].MinTime = 0 \/ worker[i].took < stats[k].MinTime
    BY <1>2, <1>4
  <2>3. 0 \notin stats[k].took => worker[i].took # 0
    BY <1>2
  <2>4. Covering(i, k)
    BY <1>2, <1>3, <2>1, <2>2, <2>3 DEF Covering, Recording, Lowering
  <2>5. Swaps(i)'
    BY <1>1, <1>2, <2>1 DEF Swaps
  <2> QED
    BY <1>1, <2>1, <2>4, <2>5, CoveringStep
<1>5. CASE /\ stats' = stats
           /\ Changed(i, "min", worker[i].step, worker[i].result,
                      worker[i].took, worker[i].seen)
  <2>1. /\ \A j \in Workers \ {i} : worker'[j] = worker[j]
        /\ worker'[i].at = "min" /\ worker'[i].took = worker[i].took
    BY <1>5 DEF Changed
  <2>2. Covering(i, k)
    BY <1>2, <1>3, <1>5, <2>1 DEF Covering, Recording, Lowering
  <2>3. Swaps(i)'
    BY <1>1, <1>2, <1>5, <2>1 DEF Swaps
  <2> QED
    BY <1>1, <1>5, <2>1, <2>2, <2>3, CoveringStep
<1> QED
  BY <1>4, <1>5, SwapMinFacts

LEMMA LoadMaxExtremes ==
  ASSUME StressAssumption, Typed, Typed', ExtremesInv, config' = config, NEW i \in Workers,
         LoadMax(i)
  PROVE  ExtremesInv'
<1>1. PICK k \in Kinds : k = KindOf(i)
  BY ExtremeNumbers
<1>2. /\ S(i) = stats[k] /\ KindOf(i)' = k
      /\ worker[i].took \in Nat /\ stats[k].MinTime \in Nat /\ stats[k].MaxTime \in Nat
      /\ stats[k].MaxTime \in stats[k].took \cup {0} /\ stats[k].MinTime \in stats[k].took \cup {0}
      /\ worker[i].at = "max" /\ stats' = stats /\ worker[i].took \in stats[k].took
  BY <1>1, ExtremeNumbers, SameConfig, LoadMaxFacts DEF Swaps, Recording
<1>3. /\ \A j \in Workers \ {i} : worker'[j] = worker[j]
      /\ \/ /\ worker'[i].at = "casMax" /\ worker'[i].seen = stats[k].MaxTime
            /\ worker'[i].took = worker[i].took /\ worker[i].took > stats[k].MaxTime
         \/ worker'[i].at = "idle" /\ ~(worker[i].took > stats[k].MaxTime)
  BY <1>2, LoadMaxFacts DEF Changed
<1>4. \A m, n \in Nat : n <= n /\ (~(m > n) => m <= n)
  OBVIOUS
<1>5. Covering(i, k)
  BY <1>2, <1>3, <1>4 DEF Covering, Recording, Lowering
<1>6. Swaps(i)'
  BY <1>1, <1>2, <1>3 DEF Swaps, Recording
<1> QED
  BY <1>1, <1>2, <1>3, <1>5, <1>6, CoveringStep

LEMMA SwapMaxExtremes ==
  ASSUME StressAssumption, Typed, Typed', ExtremesInv, config' = config, NEW i \in Workers,
         SwapMax(i)
  PROVE  ExtremesInv'
<1>1. PICK k \in Kinds : k = KindOf(i)
  BY ExtremeNumbers
<1>2. /\ S(i) = stats[k] /\ KindOf(i)' = k
      /\ worker[i].took \in Nat /\ stats[k].MinTime \in Nat /\ stats[k].MaxTime \in Nat
      /\ stats[k].MaxTime \in stats[k].took \cup {0} /\ stats[k].MinTime \in stats[k].took \cup {0}
      /\ worker[i].at = "casMax" /\ worker[i].took \in stats[k].took
      /\ worker[i].seen \in Nat /\ worker[i].took > worker[i].seen
  BY <1>1, ExtremeNumbers, SameConfig, SwapMaxFacts DEF Swaps, Recording
<1>3. \A m, n \in Nat : n <= n /\ (m > n => n <= m)
  OBVIOUS
<1>4. CASE /\ S(i).MaxTime = worker[i].seen
           /\ Counted(KindOf(i), S(i).total, S(i).success, S(i).failure,
                      S(i).MinTime, worker[i].took, S(i).took, S(i).applied)
           /\ Changed(i, "idle", 0, "none", 0, 0)
  <2>1. /\ \A j \in Workers \ {i} : worker'[j] = worker[j]
        /\ \A l \in Kinds \ {k} : stats'[l] = stats[l]
        /\ worker'[i].at = "idle"
        /\ stats'[k].took = stats[k].took /\ stats'[k].MinTime = stats[k].MinTime
        /\ stats'[k].MaxTime = worker[i].took
    BY <1>1, <1>2, <1>4 DEF Changed, Counted
  <2>2. worker[i].took > stats[k].MaxTime
    BY <1>2, <1>4
  <2>3. Covering(i, k)
    BY <1>2, <1>3, <2>1, <2>2 DEF Covering, Recording, Lowering
  <2>4. Swaps(i)'
    BY <2>1 DEF Swaps, Recording
  <2> QED
    BY <1>1, <2>1, <2>3, <2>4, CoveringStep
<1>5. CASE /\ stats' = stats
           /\ Changed(i, "max", worker[i].step, worker[i].result,
                      worker[i].took, worker[i].seen)
  <2>1. /\ \A j \in Workers \ {i} : worker'[j] = worker[j]
        /\ worker'[i].at = "max" /\ worker'[i].took = worker[i].took
    BY <1>5 DEF Changed
  <2>2. Covering(i, k)
    BY <1>2, <1>3, <1>5, <2>1 DEF Covering, Recording, Lowering
  <2>3. Swaps(i)'
    BY <1>1, <1>2, <1>5, <2>1 DEF Swaps
  <2> QED
    BY <1>1, <1>5, <2>1, <2>2, <2>3, CoveringStep
<1> QED
  BY <1>4, <1>5, SwapMaxFacts

LEMMA ExtremesStep ==
  ASSUME StressAssumption, Typed, Typed', ExtremesInv, [StressNext]_stressVars
  PROVE  ExtremesInv'
<1>1. config' = config
  BY DEF StressNext, stressVars
<1>2. CASE UNCHANGED <<worker, stats>>
  <2>1. /\ Workers' = Workers /\ \A j \in Workers : KindOf(j)' = KindOf(j)
    BY <1>1, SameConfig
  <2>2. \A k \in Kinds : Extremes(k)'
    BY <1>2, <2>1 DEF ExtremesInv, Extremes, MaxCovers, MinCovers
  <2>3. \A j \in Workers : Swaps(j)'
    BY <1>2, <2>1 DEF ExtremesInv, Swaps
  <2> QED
    BY <2>1, <2>2, <2>3 DEF ExtremesInv
<1>3. CASE Feed \/ TickerFires \/ DurationPasses \/ printStats
  BY <1>2, <1>3 DEF Feed, FeedRead, FeedWrite, feedMixedRateWork, FeederEnds, TickerFires,
                    DurationPasses, printStats
<1>4. ASSUME NEW i \in Workers,
             \/ Work(i) \/ TakeUser(i) \/ RunnerPasses(i) \/ RunnerFails(i) \/ TimesOut(i)
      PROVE  ExtremesInv'
  BY <1>1, <1>4, QuietExtremes, ResultExtremes, LoadMinExtremes, SwapMinExtremes,
     LoadMaxExtremes, SwapMaxExtremes DEF Work
<1>5. CASE UNCHANGED stressVars
  BY <1>2, <1>5 DEF stressVars
<1> QED
  BY <1>3, <1>4, <1>5 DEF StressNext

LEMMA ExtremesInit ==
  ASSUME StressAssumption, StressInit
  PROVE  ExtremesInv
<1>1. Workers \subseteq 1..MaxWorkers
  BY ConfigFacts DEF StressInit
<1>2. \A k \in Kinds : stats[k].took = {} /\ stats[k].MinTime = 0 /\ stats[k].MaxTime = 0
  BY DEF StressInit, NoStats
<1>3. \A i \in Workers : worker[i].at = "idle"
  BY <1>1 DEF StressInit, Idle
<1> QED
  BY <1>2, <1>3 DEF ExtremesInv, Extremes, MaxCovers, MinCovers, Swaps, Recording

(* When no worker is in recordSuccess, as when they are printed, the       *)
(* extremes are those of the successes, whatever workers did at the same   *)
(* time: the compare-and-swaps of recordSuccess lose none.                 *)
THEOREM ExtremesOfSuccesses == ASSUME StressAssumption PROVE StressSpec => []ExtremesAreExact
<1>1. StressInit => ExtremesInv
  BY ExtremesInit
<1>2. Typed /\ Typed' /\ ExtremesInv /\ [StressNext]_stressVars => ExtremesInv'
  BY ExtremesStep
<1>3. Typed /\ ExtremesInv => ExtremesAreExact
  <2> SUFFICES ASSUME Typed, ExtremesInv, NEW k \in Kinds, Recorded(k), stats[k].took # {}
               PROVE  /\ stats[k].MaxTime \in stats[k].took
                      /\ \A d \in stats[k].took : d <= stats[k].MaxTime
                      /\ 0 \notin stats[k].took =>
                            /\ stats[k].MinTime \in stats[k].took
                            /\ \A d \in stats[k].took : d >= stats[k].MinTime
    BY DEF ExtremesAreExact
  <2>1. /\ stats[k].MaxTime \in stats[k].took \cup {0}
        /\ stats[k].MinTime \in stats[k].took \cup {0}
        /\ MaxCovers(k) /\ MinCovers(k)
    BY DEF ExtremesInv, Extremes
  <2>2. /\ stats[k].MinTime \in Nat /\ stats[k].MaxTime \in Nat /\ stats[k].took \subseteq Nat
    <3>1. stats[k] \in Statistics /\ Times \subseteq Nat
      BY ConfigFacts DEF Typed
    <3> QED
      BY <3>1, StatsFields
  <2>3. ~ \E i \in Workers : KindOf(i) = k /\ worker[i].at \in Recording
    BY DEF Recorded, Recording
  <2>4. ~ \E i \in Workers : KindOf(i) = k /\ worker[i].at \in Lowering
    BY <2>3 DEF Lowering, Recording
  <2>5. \A d \in stats[k].took : d <= stats[k].MaxTime
    BY <2>1, <2>3 DEF MaxCovers
  <2>6. stats[k].MaxTime \in stats[k].took
    <3>1. PICK d \in stats[k].took : d <= stats[k].MaxTime
      BY <2>5
    <3>2. CASE stats[k].MaxTime = 0
      <4>1. d = 0
        BY <2>2, <3>1, <3>2
      <4> QED
        BY <3>1, <3>2, <4>1
    <3> QED
      BY <2>1, <3>2
  <2>7. ASSUME 0 \notin stats[k].took
        PROVE  /\ stats[k].MinTime \in stats[k].took
               /\ \A d \in stats[k].took : d >= stats[k].MinTime
    <3>1. \A d \in stats[k].took : stats[k].MinTime # 0 /\ stats[k].MinTime <= d
      BY <2>1, <2>4, <2>7 DEF MinCovers
    <3>2. stats[k].MinTime \in stats[k].took
      BY <2>1, <3>1
    <3> QED
      BY <2>2, <3>1, <3>2
  <2> QED
    BY <2>5, <2>6, <2>7
<1> QED
  BY <1>1, <1>2, <1>3, StressTyped, PTL DEF StressSpec


-----------------------------------------------------------------------------
(* The counts *)

(* A request is under way; its modification was made and it is not yet a   *)
(* success; its modification may still be made, at step m.                 *)
IsOpen(w) == w.at \in {"dialing", "waiting"}

IsMade(w, m) == w.at = "waiting" /\ w.result # "failed" /\ (w.step > m \/ w.result = "ok")

IsUnmade(w, m) == w.at = "dialing" \/ (w.step > 0 /\ w.result = "none" /\ w.step <= m)

(* The step that modifies, in the scenario of a kind; 0 if there is none.   *)
PointOf(k) == ModifyAt(ScenarioOf(k))

Open(k) == {i \in Workers : KindOf(i) = k /\ IsOpen(worker[i])}

Made(k) == {i \in Workers : KindOf(i) = k /\ IsMade(worker[i], PointOf(k))}

Unmade(k) == {i \in Workers : KindOf(i) = k /\ IsUnmade(worker[i], PointOf(k))}

(* The fourth invariant: every request that was counted is a success, a    *)
(* failure or under way; and the modifications lie between those that are  *)
(* known to be made and those that cannot be excluded.                     *)
CountsInv ==
    \A k \in Kinds :
        /\ stats[k].total = stats[k].success + stats[k].failure + Cardinality(Open(k))
        /\ PointOf(k) > 0 =>
              /\ stats[k].success + Cardinality(Made(k)) <= stats[k].applied
              /\ stats[k].applied + Cardinality(Unmade(k)) <= stats[k].total

Bit(p) == IF p THEN 1 ELSE 0

(* Sets that differ in an element only.                                    *)
LEMMA CardMoves ==
  ASSUME NEW A, NEW B, NEW i, IsFiniteSet(A), IsFiniteSet(B), A \ {i} = B \ {i}
  PROVE  /\ Cardinality(A) \in Nat /\ Cardinality(B) \in Nat
         /\ Cardinality(B) + Bit(i \in A) = Cardinality(A) + Bit(i \in B)
<1>1. Cardinality(A) \in Nat /\ Cardinality(B) \in Nat
  BY FS_CardinalityType
<1>2. IsFiniteSet(A \ {i})
  BY FS_RemoveElement
<1>3. PICK n \in Nat : n = Cardinality(A \ {i})
  BY <1>2, FS_CardinalityType
<1>4. Cardinality(A) = n + Bit(i \in A)
  <2>1. CASE i \in A
    <3>1. Cardinality(A \ {i}) = Cardinality(A) - 1
      BY <2>1, FS_RemoveElement
    <3> QED
      BY <1>1, <1>3, <2>1, <3>1 DEF Bit
  <2>2. CASE i \notin A
    <3>1. A \ {i} = A
      BY <2>2
    <3>2. Bit(i \in A) = 0
      BY <2>2 DEF Bit
    <3> QED
      BY <1>3, <3>1, <3>2
  <2> QED
    BY <2>1, <2>2
<1>5. Cardinality(B) = n + Bit(i \in B)
  <2>1. CASE i \in B
    <3>1. Cardinality(B \ {i}) = Cardinality(B) - 1
      BY <2>1, FS_RemoveElement
    <3> QED
      BY <1>1, <1>3, <2>1, <3>1 DEF Bit
  <2>2. CASE i \notin B
    <3>1. B \ {i} = B
      BY <2>2
    <3>2. Bit(i \in B) = 0
      BY <2>2 DEF Bit
    <3> QED
      BY <1>3, <3>1, <3>2
  <2> QED
    BY <2>1, <2>2
<1> QED
  BY <1>1, <1>3, <1>4, <1>5 DEF Bit

LEMMA ScenarioStands ==
  ASSUME config' = config
  PROVE  \A k \in Kinds : PointOf(k)' = PointOf(k)
  BY SameConfig DEF PointOf, ModifyAt

LEMMA SetsMove ==
  ASSUME StressAssumption, Typed, config' = config, NEW i \in Workers, NEW k \in Kinds,
         \A j \in Workers \ {i} : worker'[j] = worker[j]
  PROVE  /\ IsFiniteSet(Open(k)) /\ IsFiniteSet(Open(k)') /\ Open(k) \ {i} = Open(k)' \ {i}
         /\ IsFiniteSet(Made(k)) /\ IsFiniteSet(Made(k)') /\ Made(k) \ {i} = Made(k)' \ {i}
         /\ IsFiniteSet(Unmade(k)) /\ IsFiniteSet(Unmade(k)')
         /\ Unmade(k) \ {i} = Unmade(k)' \ {i}
<1>1. /\ Workers' = Workers /\ IsFiniteSet(Workers)
      /\ \A j \in Workers : KindOf(j)' = KindOf(j)
      /\ PointOf(k)' = PointOf(k)
  BY SameConfig, ScenarioStands, ConfigFacts DEF Typed
<1>2. /\ Open(k)' = {j \in Workers : KindOf(j) = k /\ IsOpen(worker'[j])}
      /\ Made(k)' = {j \in Workers : KindOf(j) = k
                                       /\ IsMade(worker'[j], PointOf(k))}
      /\ Unmade(k)' = {j \in Workers : KindOf(j) = k
                                         /\ IsUnmade(worker'[j], PointOf(k))}
  BY <1>1 DEF Open, Made, Unmade, IsOpen, IsMade, IsUnmade
<1>3. /\ Open(k) \subseteq Workers /\ Made(k) \subseteq Workers /\ Unmade(k) \subseteq Workers
      /\ Open(k)' \subseteq Workers /\ Made(k)' \subseteq Workers /\ Unmade(k)' \subseteq Workers
  BY <1>2 DEF Open, Made, Unmade
<1>4. /\ IsFiniteSet(Open(k)) /\ IsFiniteSet(Open(k)') /\ IsFiniteSet(Made(k))
      /\ IsFiniteSet(Made(k)') /\ IsFiniteSet(Unmade(k)) /\ IsFiniteSet(Unmade(k)')
  BY <1>1, <1>3, FS_Subset
<1>5. Open(k) \ {i} = Open(k)' \ {i}
  BY <1>2 DEF Open
<1>6. Made(k) \ {i} = Made(k)' \ {i}
  BY <1>2 DEF Made
<1>7. Unmade(k) \ {i} = Unmade(k)' \ {i}
  BY <1>2 DEF Unmade
<1> QED
  BY <1>4, <1>5, <1>6, <1>7

(* What a step of a worker does to the counts of its kind, and to its own  *)
(* share in them.                                                          *)
Balance(i, k) ==
    /\ stats'[k].total + Bit(IsOpen(worker[i])) + stats[k].success + stats[k].failure
          = stats[k].total + Bit(IsOpen(worker'[i])) + stats'[k].success + stats'[k].failure
    /\ PointOf(k) > 0 =>
          /\ stats'[k].success + stats[k].applied
                + Bit(IsMade(worker'[i], PointOf(k)))
                <= stats[k].success + stats'[k].applied
                     + Bit(IsMade(worker[i], PointOf(k)))
          /\ stats'[k].applied + stats[k].total
                + Bit(IsUnmade(worker'[i], PointOf(k)))
                <= stats[k].applied + stats'[k].total
                     + Bit(IsUnmade(worker[i], PointOf(k)))

LEMMA BalanceNumbers ==
  ASSUME NEW t \in Nat, NEW s \in Nat, NEW f \in Nat, NEW a \in Nat,
         NEW t1 \in Nat, NEW s1 \in Nat, NEW f1 \in Nat, NEW a1 \in Nat,
         NEW o \in Nat, NEW o1 \in Nat, NEW b \in {0, 1}, NEW b1 \in {0, 1}
  PROVE  /\ (t = s + f + o /\ o1 + b = o + b1 /\ t1 + b + s + f = t + b1 + s1 + f1)
              => t1 = s1 + f1 + o1
         /\ (s + o <= a /\ o1 + b = o + b1 /\ s1 + a + b1 <= s + a1 + b)
              => s1 + o1 <= a1
         /\ (a + o <= t /\ o1 + b = o + b1 /\ a1 + t + b1 <= a + t1 + b)
              => a1 + o1 <= t1
  OBVIOUS

LEMMA BalanceStep ==
  ASSUME StressAssumption, Typed, Typed', CountsInv, config' = config,
         NEW i \in Workers, NEW k \in Kinds, KindOf(i) = k,
         \A j \in Workers \ {i} : worker'[j] = worker[j],
         \A l \in Kinds \ {k} : stats'[l] = stats[l],
         Balance(i, k)
  PROVE  CountsInv'
<1>1. /\ Workers' = Workers /\ \A j \in Workers : KindOf(j)' = KindOf(j)
      /\ \A l \in Kinds : PointOf(l)' = PointOf(l)
  BY SameConfig, ScenarioStands
<1>2. \A l \in Kinds : /\ stats[l].total \in Nat /\ stats[l].success \in Nat
                       /\ stats[l].failure \in Nat /\ stats[l].applied \in Nat
                       /\ stats'[l].total \in Nat /\ stats'[l].success \in Nat
                       /\ stats'[l].failure \in Nat /\ stats'[l].applied \in Nat
  <2>1. \A l \in Kinds : stats[l] \in Statistics /\ stats'[l] \in Statistics
    BY SameConfig DEF Typed
  <2> QED
    BY <2>1, StatsFields
<1>3. \A l \in Kinds :
         /\ Cardinality(Open(l)) \in Nat /\ Cardinality(Open(l)') \in Nat
         /\ Cardinality(Made(l)) \in Nat /\ Cardinality(Made(l)') \in Nat
         /\ Cardinality(Unmade(l)) \in Nat /\ Cardinality(Unmade(l)') \in Nat
         /\ Cardinality(Open(l)') + Bit(i \in Open(l)) = Cardinality(Open(l)) + Bit(i \in Open(l)')
         /\ Cardinality(Made(l)') + Bit(i \in Made(l)) = Cardinality(Made(l)) + Bit(i \in Made(l)')
         /\ Cardinality(Unmade(l)') + Bit(i \in Unmade(l))
              = Cardinality(Unmade(l)) + Bit(i \in Unmade(l)')
  BY SetsMove, CardMoves
<1>4. /\ Bit(i \in Open(k)) = Bit(IsOpen(worker[i]))
      /\ Bit(i \in Open(k)') = Bit(IsOpen(worker'[i]))
      /\ Bit(i \in Made(k)) = Bit(IsMade(worker[i], PointOf(k)))
      /\ Bit(i \in Made(k)') = Bit(IsMade(worker'[i], PointOf(k)))
      /\ Bit(i \in Unmade(k)) = Bit(IsUnmade(worker[i], PointOf(k)))
      /\ Bit(i \in Unmade(k)') = Bit(IsUnmade(worker'[i], PointOf(k)))
  <2>1. (i \in Open(k) <=> IsOpen(worker[i])) /\ (i \in Open(k)' <=> IsOpen(worker'[i]))
    BY <1>1 DEF Open, IsOpen
  <2>2. /\ i \in Made(k) <=> IsMade(worker[i], PointOf(k))
        /\ i \in Made(k)' <=> IsMade(worker'[i], PointOf(k))
    BY <1>1 DEF Made, IsMade
  <2>3. /\ i \in Unmade(k) <=> IsUnmade(worker[i], PointOf(k))
        /\ i \in Unmade(k)' <=> IsUnmade(worker'[i], PointOf(k))
    BY <1>1 DEF Unmade, IsUnmade
  <2> QED
    BY <2>1, <2>2, <2>3 DEF Bit
<1>5. /\ stats'[k].total = stats'[k].success + stats'[k].failure + Cardinality(Open(k)')
      /\ PointOf(k) > 0 =>
            /\ stats'[k].success + Cardinality(Made(k)') <= stats'[k].applied
            /\ stats'[k].applied + Cardinality(Unmade(k)') <= stats'[k].total
  <2>1. /\ Bit(IsOpen(worker[i])) \in {0, 1} /\ Bit(IsOpen(worker'[i])) \in {0, 1}
        /\ Bit(IsMade(worker[i], PointOf(k))) \in {0, 1}
        /\ Bit(IsMade(worker'[i], PointOf(k))) \in {0, 1}
        /\ Bit(IsUnmade(worker[i], PointOf(k))) \in {0, 1}
        /\ Bit(IsUnmade(worker'[i], PointOf(k))) \in {0, 1}
    BY DEF Bit
  <2>2. stats'[k].total = stats'[k].success + stats'[k].failure + Cardinality(Open(k)')
    <3>1. stats[k].total = stats[k].success + stats[k].failure + Cardinality(Open(k))
      BY DEF CountsInv
    <3>2. Cardinality(Open(k)') + Bit(IsOpen(worker[i]))
            = Cardinality(Open(k)) + Bit(IsOpen(worker'[i]))
      BY <1>3, <1>4
    <3>3. stats'[k].total + Bit(IsOpen(worker[i])) + stats[k].success + stats[k].failure
            = stats[k].total + Bit(IsOpen(worker'[i])) + stats'[k].success + stats'[k].failure
      BY DEF Balance
    <3>4. Cardinality(Open(k)) \in Nat /\ Cardinality(Open(k)') \in Nat
      BY <1>3
    <3> QED
      BY <1>2, <2>1, <3>1, <3>2, <3>3, <3>4, BalanceNumbers
  <2>3. ASSUME PointOf(k) > 0
        PROVE  stats'[k].success + Cardinality(Made(k)') <= stats'[k].applied
    BY <1>2, <1>3, <1>4, <2>1, <2>3, BalanceNumbers DEF Balance, CountsInv
  <2>4. ASSUME PointOf(k) > 0
        PROVE  stats'[k].applied + Cardinality(Unmade(k)') <= stats'[k].total
    BY <1>2, <1>3, <1>4, <2>1, <2>4, BalanceNumbers DEF Balance, CountsInv
  <2> QED
    BY <2>2, <2>3, <2>4
<1>6. ASSUME NEW l \in Kinds, l # k
      PROVE  /\ stats'[l].total = stats'[l].success + stats'[l].failure + Cardinality(Open(l)')
             /\ PointOf(l) > 0 =>
                   /\ stats'[l].success + Cardinality(Made(l)') <= stats'[l].applied
                   /\ stats'[l].applied + Cardinality(Unmade(l)') <= stats'[l].total
  <2>1. /\ i \notin Open(l) /\ i \notin Open(l)' /\ i \notin Made(l) /\ i \notin Made(l)'
        /\ i \notin Unmade(l) /\ i \notin Unmade(l)'
    BY <1>1, <1>6 DEF Open, Made, Unmade
  <2>2. Open(l)' = Open(l) /\ Made(l)' = Made(l) /\ Unmade(l)' = Unmade(l)
    BY <2>1, SetsMove
  <2>3. stats'[l] = stats[l]
    BY <1>6
  <2> QED
    BY <2>2, <2>3 DEF CountsInv
<1> QED
  BY <1>1, <1>5, <1>6 DEF CountsInv

(* The shares of a worker in the counts, by its fields.                    *)
LEMMA Shares ==
  ASSUME NEW w, NEW m
  PROVE  /\ w.at \in {"dialing", "waiting"} => Bit(IsOpen(w)) = 1
         /\ w.at \notin {"dialing", "waiting"} => Bit(IsOpen(w)) = 0
         /\ w.at # "waiting" => Bit(IsMade(w, m)) = 0
         /\ w.result = "failed" => Bit(IsMade(w, m)) = 0
         /\ w.at = "waiting" /\ w.result = "ok" => Bit(IsMade(w, m)) = 1
         /\ w.result = "none" /\ ~(w.step > m) => Bit(IsMade(w, m)) = 0
         /\ w.at = "dialing" => Bit(IsUnmade(w, m)) = 1
         /\ w.at # "dialing" /\ w.result # "none" => Bit(IsUnmade(w, m)) = 0
         /\ w.at # "dialing" /\ ~(w.step > 0) => Bit(IsUnmade(w, m)) = 0
         /\ w.at # "dialing" /\ ~(w.step <= m) => Bit(IsUnmade(w, m)) = 0
         /\ w.step > 0 /\ w.result = "none" /\ w.step <= m => Bit(IsUnmade(w, m)) = 1
         /\ Bit(IsOpen(w)) \in {0, 1} /\ Bit(IsMade(w, m)) \in {0, 1}
         /\ Bit(IsUnmade(w, m)) \in {0, 1}
  BY DEF Bit, IsOpen, IsMade, IsUnmade

LEMMA CountNumbers ==
  ASSUME StressAssumption, Typed, NEW i \in Workers, NEW k \in Kinds, KindOf(i) = k
  PROVE  /\ S(i) = stats[k]
         /\ stats[k].total \in Nat /\ stats[k].success \in Nat
         /\ stats[k].failure \in Nat /\ stats[k].applied \in Nat
         /\ worker[i].at \in Stages /\ worker[i].step \in 0..4 /\ worker[i].result \in Outcomes
         /\ worker[i].step > 0 <=> worker[i].at \in {"waiting", "closing"}
         /\ worker[i].step <= Len(StepsOf(i)) /\ Len(StepsOf(i)) \in 1..4
         /\ PointOf(k) \in 0..4 /\ PointOf(k) <= Len(StepsOf(i))
         /\ worker[i].step > 0 => (Modifying(i) <=> worker[i].step = PointOf(k))
<1>1. S(i) = stats[k] /\ S(i) \in Statistics
  BY StateFacts DEF S
<1>2. /\ stats[k].total \in Nat /\ stats[k].success \in Nat
      /\ stats[k].failure \in Nat /\ stats[k].applied \in Nat
  BY <1>1, StatsFields
<1>3. /\ worker[i].at \in Stages /\ worker[i].step \in 0..4 /\ worker[i].result \in Outcomes
      /\ worker[i].step > 0 <=> worker[i].at \in {"waiting", "closing"}
  BY StateFacts
<1>4. /\ worker[i].step <= Len(StepsOf(i)) /\ Len(StepsOf(i)) \in 1..4
      /\ PointOf(k) \in 0..Len(StepsOf(i))
      /\ \A n \in 1..Len(StepsOf(i)) : StepsOf(i)[n] = "modify" <=> n = PointOf(k)
  BY StepsOfFacts DEF Typed, StepsInScenario, PointOf
<1>5. \A n \in 1..4 : \A m \in 0..n : m \in 0..4 /\ m <= n
  OBVIOUS
<1>6. \A n \in 1..4, m \in 0..4 : m > 0 /\ m <= n => m \in 1..n
  OBVIOUS
<1>7. worker[i].step > 0 => (Modifying(i) <=> worker[i].step = PointOf(k))
  BY <1>3, <1>4, <1>6 DEF Modifying
<1>8. PointOf(k) \in 0..4 /\ PointOf(k) <= Len(StepsOf(i))
  BY <1>4, <1>5
<1> QED
  BY <1>1, <1>2, <1>3, <1>4, <1>7, <1>8

(* The counters that the counts are about.                                 *)
CountersOf(k, total, ok, bad, applied) ==
    /\ stats'[k].total = total /\ stats'[k].success = ok
    /\ stats'[k].failure = bad /\ stats'[k].applied = applied

(* Balance, for what the step adds to the counters.                        *)
LEMMA BalanceOf ==
  ASSUME NEW i, NEW k, NEW t \in Nat, NEW s \in Nat, NEW f \in Nat, NEW a \in Nat,
         NEW dt \in {0, 1}, NEW ds \in {0, 1}, NEW df \in {0, 1}, NEW da \in {0, 1},
         stats[k].total = t, stats[k].success = s, stats[k].failure = f, stats[k].applied = a,
         CountersOf(k, t + dt, s + ds, f + df, a + da),
         dt + Bit(IsOpen(worker[i])) = Bit(IsOpen(worker'[i])) + ds + df,
         PointOf(k) > 0 =>
            /\ ds + Bit(IsMade(worker'[i], PointOf(k)))
                  <= da + Bit(IsMade(worker[i], PointOf(k)))
            /\ da + Bit(IsUnmade(worker'[i], PointOf(k)))
                  <= dt + Bit(IsUnmade(worker[i], PointOf(k)))
  PROVE  Balance(i, k)
<1>1. /\ Bit(IsOpen(worker[i])) \in {0, 1} /\ Bit(IsOpen(worker'[i])) \in {0, 1}
      /\ Bit(IsMade(worker[i], PointOf(k))) \in {0, 1}
      /\ Bit(IsMade(worker'[i], PointOf(k))) \in {0, 1}
      /\ Bit(IsUnmade(worker[i], PointOf(k))) \in {0, 1}
      /\ Bit(IsUnmade(worker'[i], PointOf(k))) \in {0, 1}
  BY DEF Bit
<1>2. \A o, o1 \in {0, 1} : dt + o = o1 + ds + df =>
         t + dt + o + s + f = t + o1 + (s + ds) + (f + df)
  OBVIOUS
<1>3. \A b, b1 \in {0, 1} : ds + b1 <= da + b => (s + ds) + a + b1 <= s + (a + da) + b
  OBVIOUS
<1>4. \A u, u1 \in {0, 1} : da + u1 <= dt + u => (a + da) + t + u1 <= a + (t + dt) + u
  OBVIOUS
<1> QED
  BY <1>1, <1>2, <1>3, <1>4 DEF Balance, CountersOf

(* A worker at the step that modifies, and one that has passed or is       *)
(* before it.                                                              *)
LEMMA ModifyingShares ==
  ASSUME StressAssumption, Typed, NEW i \in Workers, NEW k \in Kinds, KindOf(i) = k,
         Running(i)
  PROVE  /\ worker[i].at \in {"waiting", "closing"} /\ worker[i].result = "none"
         /\ Modifying(i) => /\ Bit(IsUnmade(worker[i], PointOf(k))) = 1
                            /\ Bit(IsMade(worker[i], PointOf(k))) = 0
         /\ Modifying(i) <=> worker[i].step = PointOf(k)
<1>1. worker[i].step > 0 /\ worker[i].result = "none"
  BY DEF Running
<1>2. /\ worker[i].at \in {"waiting", "closing"}
      /\ Modifying(i) <=> worker[i].step = PointOf(k)
      /\ worker[i].step \in 0..4 /\ PointOf(k) \in 0..4
  BY <1>1, CountNumbers
<1>3. \A n \in 0..4 : n <= n /\ ~(n > n)
  OBVIOUS
<1> QED
  BY <1>1, <1>2, <1>3, Shares

LEMMA TakeBalance ==
  ASSUME StressAssumption, Typed, NEW i \in Workers, NEW k \in Kinds, KindOf(i) = k,
         TakeUser(i)
  PROVE  Balance(i, k)
<1>1. /\ S(i) = stats[k] /\ stats[k].total \in Nat /\ stats[k].success \in Nat
      /\ stats[k].failure \in Nat /\ stats[k].applied \in Nat
  BY CountNumbers
<1>2. \A n \in Nat : n + 0 = n
  OBVIOUS
<1>3. /\ worker[i].at = "idle" /\ worker'[i].at = "dialing"
      /\ CountersOf(k, stats[k].total + 1, stats[k].success + 0,
                    stats[k].failure + 0, stats[k].applied + 0)
  BY <1>1, <1>2, TakeUserFacts DEF Changed, Counted, CountersOf
<1>4. ~(worker[i].step > 0)
  BY <1>3, CountNumbers
<1>5. /\ Bit(IsOpen(worker[i])) = 0 /\ Bit(IsOpen(worker'[i])) = 1
      /\ Bit(IsMade(worker[i], PointOf(k))) = 0 /\ Bit(IsMade(worker'[i], PointOf(k))) = 0
      /\ Bit(IsUnmade(worker[i], PointOf(k))) = 0 /\ Bit(IsUnmade(worker'[i], PointOf(k))) = 1
  BY <1>3, <1>4, Shares
<1>6. /\ 1 + Bit(IsOpen(worker[i])) = Bit(IsOpen(worker'[i])) + 0 + 0
      /\ 0 + Bit(IsMade(worker'[i], PointOf(k))) <= 0 + Bit(IsMade(worker[i], PointOf(k)))
      /\ 0 + Bit(IsUnmade(worker'[i], PointOf(k))) <= 1 + Bit(IsUnmade(worker[i], PointOf(k)))
  BY <1>5
<1>7. CountersOf(k, stats[k].total + 1, stats[k].success + 0,
                 stats[k].failure + 0, stats[k].applied + 0)
  BY <1>3
<1> QED
  BY <1>1, <1>6, <1>7, BalanceOf

LEMMA LeaveBalance ==
  ASSUME StressAssumption, Typed, NEW i \in Workers, NEW k \in Kinds, KindOf(i) = k,
         Leave(i)
  PROVE  Balance(i, k)
<1>1. /\ S(i) = stats[k] /\ stats[k].total \in Nat /\ stats[k].success \in Nat
      /\ stats[k].failure \in Nat /\ stats[k].applied \in Nat
  BY CountNumbers
<1>2. \A n \in Nat : n + 0 = n
  OBVIOUS
<1>3. /\ worker[i].at = "idle" /\ worker'[i].at = "left" /\ worker'[i].step = 0
      /\ CountersOf(k, stats[k].total + 0, stats[k].success + 0,
                    stats[k].failure + 0, stats[k].applied + 0)
  BY <1>1, <1>2, LeaveFacts DEF Changed, CountersOf
<1>4. ~(worker[i].step > 0) /\ ~(worker'[i].step > 0)
  BY <1>3, CountNumbers
<1>5. /\ Bit(IsOpen(worker[i])) = 0 /\ Bit(IsOpen(worker'[i])) = 0
      /\ Bit(IsMade(worker[i], PointOf(k))) = 0 /\ Bit(IsMade(worker'[i], PointOf(k))) = 0
      /\ Bit(IsUnmade(worker[i], PointOf(k))) = 0 /\ Bit(IsUnmade(worker'[i], PointOf(k))) = 0
  BY <1>3, <1>4, Shares
<1>6. /\ 0 + Bit(IsOpen(worker[i])) = Bit(IsOpen(worker'[i])) + 0 + 0
      /\ 0 + Bit(IsMade(worker'[i], PointOf(k))) <= 0 + Bit(IsMade(worker[i], PointOf(k)))
      /\ 0 + Bit(IsUnmade(worker'[i], PointOf(k))) <= 0 + Bit(IsUnmade(worker[i], PointOf(k)))
  BY <1>5
<1>7. CountersOf(k, stats[k].total + 0, stats[k].success + 0,
                 stats[k].failure + 0, stats[k].applied + 0)
  BY <1>3
<1> QED
  BY <1>1, <1>6, <1>7, BalanceOf

LEMMA DialBalance ==
  ASSUME StressAssumption, Typed, NEW i \in Workers, NEW k \in Kinds, KindOf(i) = k,
         Dial(i)
  PROVE  Balance(i, k)
<1>1. /\ S(i) = stats[k] /\ stats[k].total \in Nat /\ stats[k].success \in Nat
      /\ stats[k].failure \in Nat /\ stats[k].applied \in Nat
  BY CountNumbers
<1>2. \A n \in Nat : n + 0 = n
  OBVIOUS
<1>3. /\ worker[i].at = "dialing"
      /\ Bit(IsOpen(worker[i])) = 1 /\ Bit(IsMade(worker[i], PointOf(k))) = 0
      /\ Bit(IsUnmade(worker[i], PointOf(k))) = 1
  BY DialFacts, Shares
<1>4. CASE Changed(i, "waiting", 1, "none", 0, 0) /\ stats' = stats
  <2>1. /\ worker'[i].at = "waiting" /\ worker'[i].step = 1 /\ worker'[i].result = "none"
        /\ CountersOf(k, stats[k].total + 0, stats[k].success + 0,
                      stats[k].failure + 0, stats[k].applied + 0)
    BY <1>1, <1>2, <1>4 DEF Changed, CountersOf
  <2>2. Bit(IsOpen(worker'[i])) = 1
    BY <2>1, Shares
  <2>3. ASSUME PointOf(k) > 0
        PROVE  Bit(IsMade(worker'[i], PointOf(k))) = 0 /\ Bit(IsUnmade(worker'[i], PointOf(k))) \in {0, 1}
    <3>1. PointOf(k) \in 0..4
      BY CountNumbers
    <3>2. ~(worker'[i].step > PointOf(k))
      BY <2>1, <2>3, <3>1
    <3> QED
      BY <2>1, <3>2, Shares
  <2>4. PointOf(k) > 0 =>
          /\ 0 + Bit(IsMade(worker'[i], PointOf(k))) <= 0 + Bit(IsMade(worker[i], PointOf(k)))
          /\ 0 + Bit(IsUnmade(worker'[i], PointOf(k))) <= 0 + Bit(IsUnmade(worker[i], PointOf(k)))
    BY <2>3, <1>3
  <2>5. 0 + Bit(IsOpen(worker[i])) = Bit(IsOpen(worker'[i])) + 0 + 0
    BY <1>3, <2>2
  <2> QED
    BY <1>1, <2>1, <2>4, <2>5, BalanceOf
<1>5. CASE /\ Changed(i, "idle", 0, "none", 0, 0)
           /\ Counted(KindOf(i), S(i).total, S(i).success, S(i).failure + 1,
                      S(i).MinTime, S(i).MaxTime, S(i).took, S(i).applied)
  <2>1. /\ worker'[i].at = "idle" /\ ~(worker'[i].step > 0)
        /\ CountersOf(k, stats[k].total + 0, stats[k].success + 0,
                      stats[k].failure + 1, stats[k].applied + 0)
    BY <1>1, <1>2, <1>5 DEF Changed, Counted, CountersOf
  <2>2. /\ Bit(IsOpen(worker'[i])) = 0 /\ Bit(IsMade(worker'[i], PointOf(k))) = 0
        /\ Bit(IsUnmade(worker'[i], PointOf(k))) = 0
    BY <2>1, Shares
  <2>3. /\ 0 + Bit(IsOpen(worker[i])) = Bit(IsOpen(worker'[i])) + 0 + 1
        /\ 0 + Bit(IsMade(worker'[i], PointOf(k))) <= 0 + Bit(IsMade(worker[i], PointOf(k)))
        /\ 0 + Bit(IsUnmade(worker'[i], PointOf(k))) <= 0 + Bit(IsUnmade(worker[i], PointOf(k)))
    BY <1>3, <2>2
  <2> QED
    BY <1>1, <2>1, <2>3, BalanceOf
<1> QED
  BY <1>4, <1>5, DialFacts

LEMMA TimesOutBalance ==
  ASSUME StressAssumption, Typed, NEW i \in Workers, NEW k \in Kinds, KindOf(i) = k,
         TimesOut(i)
  PROVE  Balance(i, k)
<1>1. /\ S(i) = stats[k] /\ stats[k].total \in Nat /\ stats[k].success \in Nat
      /\ stats[k].failure \in Nat /\ stats[k].applied \in Nat
  BY CountNumbers
<1>2. \A n \in Nat : n + 0 = n
  OBVIOUS
<1>3. /\ worker[i].at = "waiting" /\ worker'[i].at = "closing"
      /\ worker'[i].step = worker[i].step /\ worker'[i].result = worker[i].result
      /\ CountersOf(k, stats[k].total + 0, stats[k].success + 0,
                    stats[k].failure + 1, stats[k].applied + 0)
  BY <1>1, <1>2, TimesOutFacts DEF Changed, Counted, CountersOf
<1>4. /\ Bit(IsOpen(worker[i])) = 1 /\ Bit(IsOpen(worker'[i])) = 0
      /\ Bit(IsMade(worker[i], PointOf(k))) \in {0, 1} /\ Bit(IsMade(worker'[i], PointOf(k))) = 0
  BY <1>3, Shares
<1>5. Bit(IsUnmade(worker'[i], PointOf(k))) = Bit(IsUnmade(worker[i], PointOf(k)))
  BY <1>3 DEF IsUnmade
<1>6. Bit(IsUnmade(worker[i], PointOf(k))) \in {0, 1}
  BY Shares
<1>7. /\ 0 + Bit(IsMade(worker'[i], PointOf(k))) <= 0 + Bit(IsMade(worker[i], PointOf(k)))
      /\ 0 + Bit(IsUnmade(worker'[i], PointOf(k))) <= 0 + Bit(IsUnmade(worker[i], PointOf(k)))
      /\ 0 + Bit(IsOpen(worker[i])) = Bit(IsOpen(worker'[i])) + 0 + 1
  BY <1>4, <1>5, <1>6
<1> QED
  BY <1>1, <1>3, <1>7, BalanceOf

LEMMA ResultBalance ==
  ASSUME StressAssumption, Typed, NEW i \in Workers, NEW k \in Kinds, KindOf(i) = k,
         ResultArrives(i)
  PROVE  Balance(i, k)
<1>1. /\ S(i) = stats[k] /\ stats[k].total \in Nat /\ stats[k].success \in Nat
      /\ stats[k].failure \in Nat /\ stats[k].applied \in Nat
  BY CountNumbers
<1>2. \A n \in Nat : n + 0 = n
  OBVIOUS
<1>3. /\ worker[i].at = "waiting" /\ Bit(IsOpen(worker[i])) = 1
  BY ResultArrivesFacts, Shares
<1>4. CASE /\ worker[i].result = "failed" /\ Changed(i, "idle", 0, "none", 0, 0)
           /\ Counted(KindOf(i), S(i).total, S(i).success, S(i).failure + 1,
                      S(i).MinTime, S(i).MaxTime, S(i).took, S(i).applied)
  <2>1. /\ worker'[i].at = "idle" /\ ~(worker'[i].step > 0)
        /\ CountersOf(k, stats[k].total + 0, stats[k].success + 0,
                      stats[k].failure + 1, stats[k].applied + 0)
    BY <1>1, <1>2, <1>4 DEF Changed, Counted, CountersOf
  <2>2. /\ Bit(IsOpen(worker'[i])) = 0 /\ Bit(IsMade(worker'[i], PointOf(k))) = 0
        /\ Bit(IsUnmade(worker'[i], PointOf(k))) = 0
    BY <2>1, Shares
  <2>3. Bit(IsMade(worker[i], PointOf(k))) = 0 /\ Bit(IsUnmade(worker[i], PointOf(k))) = 0
    BY <1>3, <1>4, Shares
  <2>4. /\ 0 + Bit(IsOpen(worker[i])) = Bit(IsOpen(worker'[i])) + 0 + 1
        /\ 0 + Bit(IsMade(worker'[i], PointOf(k))) <= 0 + Bit(IsMade(worker[i], PointOf(k)))
        /\ 0 + Bit(IsUnmade(worker'[i], PointOf(k))) <= 0 + Bit(IsUnmade(worker[i], PointOf(k)))
    BY <1>3, <2>2, <2>3
  <2> QED
    BY <1>1, <2>1, <2>4, BalanceOf
<1>5. ASSUME worker[i].result = "ok", NEW d \in Times, Changed(i, "min", 0, "none", d, 0),
             Counted(KindOf(i), S(i).total, S(i).success + 1, S(i).failure,
                     S(i).MinTime, S(i).MaxTime, S(i).took \cup {d}, S(i).applied)
      PROVE  Balance(i, k)
  <2>1. /\ worker'[i].at = "min" /\ ~(worker'[i].step > 0)
        /\ CountersOf(k, stats[k].total + 0, stats[k].success + 1,
                      stats[k].failure + 0, stats[k].applied + 0)
    BY <1>1, <1>2, <1>5 DEF Changed, Counted, CountersOf
  <2>2. /\ Bit(IsOpen(worker'[i])) = 0 /\ Bit(IsMade(worker'[i], PointOf(k))) = 0
        /\ Bit(IsUnmade(worker'[i], PointOf(k))) = 0
    BY <2>1, Shares
  <2>3. Bit(IsMade(worker[i], PointOf(k))) = 1 /\ Bit(IsUnmade(worker[i], PointOf(k))) = 0
    BY <1>3, <1>5, Shares
  <2>4. /\ 0 + Bit(IsOpen(worker[i])) = Bit(IsOpen(worker'[i])) + 1 + 0
        /\ 1 + Bit(IsMade(worker'[i], PointOf(k))) <= 0 + Bit(IsMade(worker[i], PointOf(k)))
        /\ 0 + Bit(IsUnmade(worker'[i], PointOf(k))) <= 0 + Bit(IsUnmade(worker[i], PointOf(k)))
    BY <1>3, <2>2, <2>3
  <2> QED
    BY <1>1, <2>1, <2>4, BalanceOf
<1> QED
  BY <1>4, <1>5, ResultArrivesFacts

LEMMA CloseBalance ==
  ASSUME StressAssumption, Typed, NEW i \in Workers, NEW k \in Kinds, KindOf(i) = k,
         CloseClient(i)
  PROVE  Balance(i, k)
<1>1. /\ S(i) = stats[k] /\ stats[k].total \in Nat /\ stats[k].success \in Nat
      /\ stats[k].failure \in Nat /\ stats[k].applied \in Nat
  BY CountNumbers
<1>2. \A n \in Nat : n + 0 = n
  OBVIOUS
<1>3. /\ worker[i].at = "closing" /\ worker'[i].at = "idle" /\ ~(worker'[i].step > 0)
  BY CloseClientFacts DEF Changed
<1>4. /\ Bit(IsOpen(worker[i])) = 0 /\ Bit(IsOpen(worker'[i])) = 0
      /\ Bit(IsMade(worker[i], PointOf(k))) = 0 /\ Bit(IsMade(worker'[i], PointOf(k))) = 0
      /\ Bit(IsUnmade(worker'[i], PointOf(k))) = 0 /\ Bit(IsUnmade(worker[i], PointOf(k))) \in {0, 1}
  BY <1>3, Shares
<1>5. CASE stats' = stats
  <2>1. CountersOf(k, stats[k].total + 0, stats[k].success + 0,
                   stats[k].failure + 0, stats[k].applied + 0)
    BY <1>1, <1>2, <1>5 DEF CountersOf
  <2>2. /\ 0 + Bit(IsOpen(worker[i])) = Bit(IsOpen(worker'[i])) + 0 + 0
        /\ 0 + Bit(IsMade(worker'[i], PointOf(k))) <= 0 + Bit(IsMade(worker[i], PointOf(k)))
        /\ 0 + Bit(IsUnmade(worker'[i], PointOf(k))) <= 0 + Bit(IsUnmade(worker[i], PointOf(k)))
    BY <1>4
  <2> QED
    BY <1>1, <2>1, <2>2, BalanceOf
<1>6. CASE /\ Running(i) /\ Modifying(i)
           /\ Counted(KindOf(i), S(i).total, S(i).success, S(i).failure,
                      S(i).MinTime, S(i).MaxTime, S(i).took, S(i).applied + 1)
  <2>1. CountersOf(k, stats[k].total + 0, stats[k].success + 0,
                   stats[k].failure + 0, stats[k].applied + 1)
    BY <1>1, <1>2, <1>6 DEF Counted, CountersOf
  <2>2. Bit(IsUnmade(worker[i], PointOf(k))) = 1
    BY <1>6, ModifyingShares
  <2>3. /\ 0 + Bit(IsOpen(worker[i])) = Bit(IsOpen(worker'[i])) + 0 + 0
        /\ 0 + Bit(IsMade(worker'[i], PointOf(k))) <= 1 + Bit(IsMade(worker[i], PointOf(k)))
        /\ 1 + Bit(IsUnmade(worker'[i], PointOf(k))) <= 0 + Bit(IsUnmade(worker[i], PointOf(k)))
    BY <1>4, <2>2
  <2> QED
    BY <1>1, <2>1, <2>3, BalanceOf
<1> QED
  BY <1>5, <1>6, CloseClientFacts

(* A step of a scenario: it modifies the entry, and then cannot any more;  *)
(* or it has done so before, or comes before that.                         *)
LEMMA PassBalance ==
  ASSUME StressAssumption, Typed, NEW i \in Workers, NEW k \in Kinds, KindOf(i) = k,
         RunnerPasses(i)
  PROVE  Balance(i, k)
<1>1. /\ S(i) = stats[k] /\ stats[k].total \in Nat /\ stats[k].success \in Nat
      /\ stats[k].failure \in Nat /\ stats[k].applied \in Nat
  BY CountNumbers
<1>2. \A n \in Nat : n + 0 = n
  OBVIOUS
<1>3. /\ worker[i].at \in {"waiting", "closing"} /\ worker[i].result = "none"
      /\ Modifying(i) => /\ Bit(IsUnmade(worker[i], PointOf(k))) = 1
                         /\ Bit(IsMade(worker[i], PointOf(k))) = 0
      /\ Modifying(i) <=> worker[i].step = PointOf(k)
      /\ worker[i].step > 0
  BY ModifyingShares, RunnerPassesFacts DEF Running
<1>4. /\ worker[i].step \in 0..4 /\ PointOf(k) \in 0..4
      /\ worker[i].step <= Len(StepsOf(i)) /\ Len(StepsOf(i)) \in 1..4
      /\ PointOf(k) <= Len(StepsOf(i))
  BY CountNumbers
<1>5. /\ worker'[i].at = worker[i].at
      /\ \/ /\ worker[i].step = Len(StepsOf(i)) /\ worker'[i].result = "ok"
            /\ worker'[i].step = worker[i].step
         \/ /\ worker[i].step # Len(StepsOf(i)) /\ worker'[i].result = "none"
            /\ worker'[i].step = worker[i].step + 1
  BY <1>3, RunnerPassesFacts DEF Changed
<1>6. 0 + Bit(IsOpen(worker[i])) = Bit(IsOpen(worker'[i])) + 0 + 0
  <2>1. Bit(IsOpen(worker[i])) = Bit(IsOpen(worker'[i])) /\ Bit(IsOpen(worker[i])) \in {0, 1}
    BY <1>5 DEF IsOpen, Bit
  <2> QED
    BY <2>1
<1>7. /\ Bit(IsMade(worker[i], PointOf(k))) \in {0, 1}
      /\ Bit(IsMade(worker'[i], PointOf(k))) \in {0, 1}
      /\ Bit(IsUnmade(worker[i], PointOf(k))) \in {0, 1}
      /\ Bit(IsUnmade(worker'[i], PointOf(k))) \in {0, 1}
  BY DEF Bit
<1>8. CASE Modifying(i)
  <2>1. CountersOf(k, stats[k].total + 0, stats[k].success + 0,
                   stats[k].failure + 0, stats[k].applied + 1)
    BY <1>1, <1>2, <1>8, RunnerPassesFacts DEF Counted, CountersOf
  <2>2. Bit(IsUnmade(worker'[i], PointOf(k))) = 0
    <3>1. CASE worker'[i].result = "ok"
      BY <1>3, <1>5, <3>1, Shares
    <3>2. CASE worker'[i].step = worker[i].step + 1
      <4>1. \A n \in 0..4 : ~(n + 1 <= n)
        OBVIOUS
      <4>2. ~(worker'[i].step <= PointOf(k))
        BY <1>3, <1>4, <1>8, <3>2, <4>1
      <4> QED
        BY <1>3, <1>5, <4>2, Shares
    <3> QED
      BY <1>5, <3>1, <3>2
  <2>3. /\ 0 + Bit(IsMade(worker'[i], PointOf(k))) <= 1 + Bit(IsMade(worker[i], PointOf(k)))
        /\ 1 + Bit(IsUnmade(worker'[i], PointOf(k))) <= 0 + Bit(IsUnmade(worker[i], PointOf(k)))
    BY <1>3, <1>7, <1>8, <2>2
  <2> QED
    BY <1>1, <1>6, <2>1, <2>3, BalanceOf
<1>9. CASE ~Modifying(i)
  <2>1. CountersOf(k, stats[k].total + 0, stats[k].success + 0,
                   stats[k].failure + 0, stats[k].applied + 0)
    BY <1>1, <1>2, <1>9, RunnerPassesFacts DEF CountersOf
  <2>2. worker[i].step # PointOf(k)
    BY <1>3, <1>9
  <2>3. Bit(IsMade(worker'[i], PointOf(k))) = Bit(IsMade(worker[i], PointOf(k)))
    <3>1. CASE worker[i].step = Len(StepsOf(i)) /\ worker'[i].result = "ok"
      <4>1. \A n \in 1..4, m \in 0..4 : m <= n /\ n # m => n > m
        OBVIOUS
      <4>2. worker[i].step > PointOf(k)
        BY <1>4, <2>2, <3>1, <4>1
      <4> QED
        BY <1>3, <1>5, <3>1, <4>2 DEF IsMade
    <3>2. CASE worker'[i].result = "none" /\ worker'[i].step = worker[i].step + 1
      <4>1. \A n, m \in 0..4 : n # m => (n + 1 > m <=> n > m)
        OBVIOUS
      <4>2. worker'[i].step > PointOf(k) <=> worker[i].step > PointOf(k)
        BY <1>4, <2>2, <3>2, <4>1
      <4> QED
        BY <1>3, <1>5, <3>2, <4>2 DEF IsMade
    <3> QED
      BY <1>5, <3>1, <3>2
  <2>4. Bit(IsUnmade(worker'[i], PointOf(k))) <= Bit(IsUnmade(worker[i], PointOf(k)))
    <3>1. CASE worker'[i].result = "ok"
      <4>1. Bit(IsUnmade(worker'[i], PointOf(k))) = 0
        BY <1>3, <1>5, <3>1, Shares
      <4> QED
        BY <1>7, <4>1
    <3>2. CASE worker'[i].result = "none" /\ worker'[i].step = worker[i].step + 1
      <4>1. \A n, m \in 0..4 : n # m /\ ~(n <= m) => ~(n + 1 <= m)
        OBVIOUS
      <4>2. CASE worker[i].step <= PointOf(k)
        <5>1. Bit(IsUnmade(worker[i], PointOf(k))) = 1
          BY <1>3, <4>2, Shares
        <5> QED
          BY <1>7, <5>1
      <4>3. CASE ~(worker[i].step <= PointOf(k))
        <5>1. ~(worker'[i].step <= PointOf(k))
          BY <1>4, <2>2, <3>2, <4>1, <4>3
        <5>2. Bit(IsUnmade(worker'[i], PointOf(k))) = 0
          BY <1>3, <1>5, <5>1, Shares
        <5> QED
          BY <1>7, <5>2
      <4> QED
        BY <4>2, <4>3
    <3> QED
      BY <1>5, <3>1, <3>2
  <2>5. /\ 0 + Bit(IsMade(worker'[i], PointOf(k))) <= 0 + Bit(IsMade(worker[i], PointOf(k)))
        /\ 0 + Bit(IsUnmade(worker'[i], PointOf(k))) <= 0 + Bit(IsUnmade(worker[i], PointOf(k)))
    BY <1>7, <2>3, <2>4
  <2> QED
    BY <1>1, <1>6, <2>1, <2>5, BalanceOf
<1> QED
  BY <1>8, <1>9

LEMMA FailBalance ==
  ASSUME StressAssumption, Typed, NEW i \in Workers, NEW k \in Kinds, KindOf(i) = k,
         RunnerFails(i)
  PROVE  Balance(i, k)
<1>1. /\ S(i) = stats[k] /\ stats[k].total \in Nat /\ stats[k].success \in Nat
      /\ stats[k].failure \in Nat /\ stats[k].applied \in Nat
  BY CountNumbers
<1>2. \A n \in Nat : n + 0 = n
  OBVIOUS
<1>3. /\ worker[i].at \in {"waiting", "closing"}
      /\ worker'[i].at = worker[i].at /\ worker'[i].result = "failed"
  BY ModifyingShares, RunnerFailsFacts DEF Changed
<1>4. /\ Bit(IsMade(worker'[i], PointOf(k))) = 0 /\ Bit(IsUnmade(worker'[i], PointOf(k))) = 0
      /\ Bit(IsMade(worker[i], PointOf(k))) \in {0, 1}
      /\ Bit(IsUnmade(worker[i], PointOf(k))) \in {0, 1}
  BY <1>3, Shares
<1>5. 0 + Bit(IsOpen(worker[i])) = Bit(IsOpen(worker'[i])) + 0 + 0
  <2>1. Bit(IsOpen(worker[i])) = Bit(IsOpen(worker'[i])) /\ Bit(IsOpen(worker[i])) \in {0, 1}
    BY <1>3 DEF IsOpen, Bit
  <2> QED
    BY <2>1
<1>6. CASE stats' = stats
  <2>1. CountersOf(k, stats[k].total + 0, stats[k].success + 0,
                   stats[k].failure + 0, stats[k].applied + 0)
    BY <1>1, <1>2, <1>6 DEF CountersOf
  <2>2. /\ 0 + Bit(IsMade(worker'[i], PointOf(k))) <= 0 + Bit(IsMade(worker[i], PointOf(k)))
        /\ 0 + Bit(IsUnmade(worker'[i], PointOf(k))) <= 0 + Bit(IsUnmade(worker[i], PointOf(k)))
    BY <1>4
  <2> QED
    BY <1>1, <1>5, <2>1, <2>2, BalanceOf
<1>7. CASE /\ Modifying(i)
           /\ Counted(KindOf(i), S(i).total, S(i).success, S(i).failure,
                      S(i).MinTime, S(i).MaxTime, S(i).took, S(i).applied + 1)
  <2>1. CountersOf(k, stats[k].total + 0, stats[k].success + 0,
                   stats[k].failure + 0, stats[k].applied + 1)
    BY <1>1, <1>2, <1>7 DEF Counted, CountersOf
  <2>2. Bit(IsUnmade(worker[i], PointOf(k))) = 1
    BY <1>7, ModifyingShares, RunnerFailsFacts
  <2>3. /\ 0 + Bit(IsMade(worker'[i], PointOf(k))) <= 1 + Bit(IsMade(worker[i], PointOf(k)))
        /\ 1 + Bit(IsUnmade(worker'[i], PointOf(k))) <= 0 + Bit(IsUnmade(worker[i], PointOf(k)))
    BY <1>4, <2>2
  <2> QED
    BY <1>1, <1>5, <2>1, <2>3, BalanceOf
<1> QED
  BY <1>6, <1>7, RunnerFailsFacts

(* recordSuccess changes the extremes only.                                *)
LEMMA RecordBalance ==
  ASSUME StressAssumption, Typed, NEW i \in Workers, NEW k \in Kinds, KindOf(i) = k,
         LoadMin(i) \/ SwapMin(i) \/ LoadMax(i) \/ SwapMax(i)
  PROVE  Balance(i, k)
<1>1. /\ S(i) = stats[k] /\ stats[k].total \in Nat /\ stats[k].success \in Nat
      /\ stats[k].failure \in Nat /\ stats[k].applied \in Nat
      /\ worker[i].step > 0 <=> worker[i].at \in {"waiting", "closing"}
      /\ worker[i].step \in 0..4
  BY CountNumbers
<1>2. \A n \in Nat : n + 0 = n
  OBVIOUS
<1>3. CountersOf(k, stats[k].total + 0, stats[k].success + 0,
                 stats[k].failure + 0, stats[k].applied + 0)
  <2>1. \/ stats' = stats
        \/ /\ stats'[k].total = stats[k].total /\ stats'[k].success = stats[k].success
           /\ stats'[k].failure = stats[k].failure /\ stats'[k].applied = stats[k].applied
    BY <1>1, LoadMinFacts, SwapMinFacts, LoadMaxFacts, SwapMaxFacts DEF Counted
  <2> QED
    BY <1>1, <1>2, <2>1 DEF CountersOf
<1>4. worker[i].at \in Recording
  BY LoadMinFacts, SwapMinFacts, LoadMaxFacts, SwapMaxFacts DEF Recording
<1>5. worker[i].at \notin {"dialing", "waiting", "closing"} /\ ~(worker[i].step > 0)
  BY <1>1, <1>4 DEF Recording
<1>6. /\ worker'[i].at \in Recording \cup {"idle"}
      /\ worker'[i].step = worker[i].step \/ worker'[i].step = 0
  <2>1. CASE LoadMin(i)
    BY <2>1, LoadMinFacts DEF Changed, Recording
  <2>2. CASE SwapMin(i)
    BY <2>2, SwapMinFacts DEF Changed, Recording
  <2>3. CASE LoadMax(i)
    BY <2>3, LoadMaxFacts DEF Changed, Recording
  <2>4. CASE SwapMax(i)
    BY <2>4, SwapMaxFacts DEF Changed, Recording
  <2> QED
    BY <2>1, <2>2, <2>3, <2>4
<1>7. worker'[i].at \notin {"dialing", "waiting"} /\ ~(worker'[i].step > 0)
  BY <1>5, <1>6 DEF Recording
<1>8. /\ Bit(IsOpen(worker[i])) = 0 /\ Bit(IsOpen(worker'[i])) = 0
      /\ Bit(IsMade(worker[i], PointOf(k))) = 0 /\ Bit(IsMade(worker'[i], PointOf(k))) = 0
      /\ Bit(IsUnmade(worker[i], PointOf(k))) = 0 /\ Bit(IsUnmade(worker'[i], PointOf(k))) = 0
  BY <1>5, <1>7, Shares
<1>9. /\ 0 + Bit(IsOpen(worker[i])) = Bit(IsOpen(worker'[i])) + 0 + 0
      /\ 0 + Bit(IsMade(worker'[i], PointOf(k))) <= 0 + Bit(IsMade(worker[i], PointOf(k)))
      /\ 0 + Bit(IsUnmade(worker'[i], PointOf(k))) <= 0 + Bit(IsUnmade(worker[i], PointOf(k)))
  BY <1>8
<1> QED
  BY <1>1, <1>3, <1>9, BalanceOf

LEMMA CountsStep ==
  ASSUME StressAssumption, Typed, Typed', CountsInv, [StressNext]_stressVars
  PROVE  CountsInv'
<1>1. config' = config
  BY DEF StressNext, stressVars
<1>2. CASE UNCHANGED <<worker, stats>>
  <2>1. /\ Workers' = Workers /\ \A j \in Workers : KindOf(j)' = KindOf(j)
        /\ \A k \in Kinds : PointOf(k)' = PointOf(k)
    BY <1>1, SameConfig, ScenarioStands
  <2>2. \A k \in Kinds : Open(k)' = Open(k) /\ Made(k)' = Made(k) /\ Unmade(k)' = Unmade(k)
    BY <1>2, <2>1 DEF Open, Made, Unmade, IsOpen, IsMade, IsUnmade
  <2> QED
    BY <1>2, <2>1, <2>2 DEF CountsInv
<1>3. CASE Feed \/ TickerFires \/ DurationPasses \/ printStats
  BY <1>2, <1>3 DEF Feed, FeedRead, FeedWrite, feedMixedRateWork, FeederEnds, TickerFires,
                    DurationPasses, printStats
<1>4. ASSUME NEW i \in Workers,
             \/ Work(i) \/ TakeUser(i) \/ RunnerPasses(i) \/ RunnerFails(i) \/ TimesOut(i)
      PROVE  CountsInv'
  <2>1. PICK k \in Kinds : KindOf(i) = k
    BY StateFacts
  <2>2. Balance(i, k)
    BY <1>4, <2>1, TakeBalance, LeaveBalance, DialBalance, TimesOutBalance, ResultBalance,
       CloseBalance, PassBalance, FailBalance, RecordBalance DEF Work
  <2>3. /\ \A j \in Workers \ {i} : worker'[j] = worker[j]
        /\ \A l \in Kinds \ {k} : stats'[l] = stats[l]
    <3>1. CASE TakeUser(i) \/ Leave(i) \/ Dial(i) \/ TimesOut(i) \/ CloseClient(i)
      BY <2>1, <3>1, TakeUserFacts, LeaveFacts, DialFacts, TimesOutFacts, CloseClientFacts
      DEF Changed, Counted
    <3>2. CASE RunnerPasses(i) \/ RunnerFails(i) \/ ResultArrives(i)
      BY <2>1, <3>2, RunnerPassesFacts, RunnerFailsFacts, ResultArrivesFacts
      DEF Changed, Counted
    <3>3. CASE LoadMin(i) \/ SwapMin(i) \/ LoadMax(i) \/ SwapMax(i)
      BY <2>1, <3>3, LoadMinFacts, SwapMinFacts, LoadMaxFacts, SwapMaxFacts
      DEF Changed, Counted
    <3> QED
      BY <1>4, <3>1, <3>2, <3>3 DEF Work
  <2> QED
    BY <1>1, <2>1, <2>2, <2>3, BalanceStep
<1>5. CASE UNCHANGED stressVars
  BY <1>2, <1>5 DEF stressVars
<1> QED
  BY <1>3, <1>4, <1>5 DEF StressNext

LEMMA CountsInit ==
  ASSUME StressAssumption, StressInit
  PROVE  CountsInv
<1>1. Workers \subseteq 1..MaxWorkers
  BY ConfigFacts DEF StressInit
<1>2. \A k \in Kinds : /\ stats[k].total = 0 /\ stats[k].success = 0
                       /\ stats[k].failure = 0 /\ stats[k].applied = 0
  BY DEF StressInit, NoStats
<1>3. \A i \in Workers : worker[i].at = "idle" /\ worker[i].step = 0
  BY <1>1 DEF StressInit, Idle
<1>4. ~(0 > 0)
  OBVIOUS
<1>5. \A k \in Kinds : Open(k) = {} /\ Made(k) = {} /\ Unmade(k) = {}
  BY <1>3, <1>4 DEF Open, Made, Unmade, IsOpen, IsMade, IsUnmade
<1>6. Cardinality({}) = 0
  BY FS_EmptySet
<1> QED
  BY <1>2, <1>5, <1>6 DEF CountsInv

(* Every user that a worker took is counted once, as a success or as a     *)
(* failure, when the results are printed; a success has modified its       *)
(* entry, a failure may have: also when a goroutine of a scenario outlives *)
(* the wait of its worker (executeScenario).                               *)
THEOREM RequestsAreCounted == ASSUME StressAssumption PROVE StressSpec => []EveryRequestIsCounted
<1>1. StressInit => CountsInv
  BY CountsInit
<1>2. Typed /\ Typed' /\ CountsInv /\ [StressNext]_stressVars => CountsInv'
  BY CountsStep
<1>3. Typed /\ CountsInv => EveryRequestIsCounted
  <2> SUFFICES ASSUME Typed, CountsInv, printed, NEW k \in Kinds
               PROVE  /\ stats[k].total = stats[k].success + stats[k].failure
                      /\ (\E n \in DOMAIN runScenario(ScenarioOf(k)) :
                             runScenario(ScenarioOf(k))[n] = "modify")
                           => stats[k].applied \in stats[k].success..stats[k].total
    BY DEF EveryRequestIsCounted
  <2>1. \A i \in Workers : worker[i].at = "left" /\ ~(worker[i].step > 0)
    BY DEF Typed, PrintedIsOver, RunnersHaveWorkers
  <2>2. Open(k) = {} /\ Made(k) = {} /\ Unmade(k) = {}
    BY <2>1 DEF Open, Made, Unmade, IsOpen, IsMade, IsUnmade
  <2>3. Cardinality(Open(k)) = 0 /\ Cardinality(Made(k)) = 0 /\ Cardinality(Unmade(k)) = 0
    BY <2>2, FS_EmptySet
  <2>4. /\ stats[k].total \in Nat /\ stats[k].success \in Nat
        /\ stats[k].failure \in Nat /\ stats[k].applied \in Nat
    <3>1. stats[k] \in Statistics
      BY DEF Typed
    <3> QED
      BY <3>1, StatsFields
  <2>5. stats[k].total = stats[k].success + stats[k].failure
    BY <2>3, <2>4 DEF CountsInv
  <2>6. ASSUME NEW n \in DOMAIN runScenario(ScenarioOf(k)),
               runScenario(ScenarioOf(k))[n] = "modify"
        PROVE  stats[k].applied \in stats[k].success..stats[k].total
    <3>1. ScenarioOf(k) \in Scenarios
      BY ScenarioFacts DEF Typed
    <3>2. n = PointOf(k) /\ n \in 1..Len(runScenario(ScenarioOf(k)))
      BY <2>6, <3>1, StepsFacts DEF PointOf
    <3>3. PointOf(k) > 0
      BY <3>2
    <3>4. stats[k].success + 0 <= stats[k].applied /\ stats[k].applied + 0 <= stats[k].total
      BY <2>3, <3>3 DEF CountsInv
    <3> QED
      BY <2>4, <3>4
  <2> QED
    BY <2>5, <2>6
<1> QED
  BY <1>1, <1>2, <1>3, StressTyped, PTL DEF StressSpec

-----------------------------------------------------------------------------
(* The ARMS load generator                                                 *)

Phases == {"starting", "running", "stopping", "ended", "failed"}
Places == {"idle", "dialing", "serving", "sending", "beating", "waiting", "left"}
Rows == {"off", "running", "done", "failed"}

ThreadState == [at: Places, first: BOOLEAN, had: BOOLEAN]

Startups == [unread: Nat, heard: Nat, connected: Nat]

Schedulers == [at: {"off", "running"}, ticks: Nat, elapsed: Nat, due: Nat,
               carry: 0..TicksPerSecond, count: Nat]

Permits == [waiting: Nat, backlog: Nat, taken: Nat, discarded: Nat]

(* The connections that are open are a number because they are counted.    *)
ArmsStatistics == [attempts: Nat, connectErrors: Nat, reconnects: Nat, active: Int,
               success: Nat, failed: Nat]

(* The first invariant.                                                    *)
ArmsTyped ==
    /\ load \in Loads /\ main \in Phases
    /\ ctx \in [parent: BOOLEAN, run: BOOLEAN]
    /\ thread \in [1..MaxThreads -> ThreadState]
    /\ startup \in Startups
    /\ scheduler \in Schedulers /\ scheduler.ticks <= load.ticks
    /\ permits \in Permits /\ counters \in ArmsStatistics
    /\ reporter \in [at: Rows, row: Nat]

(* The others.                                                             *)
IsConnected(w) == w.at \in {"serving", "sending", "beating"}

Firsts == {t \in Threads : thread[t].first}
SendingThreads == {t \in Threads : thread[t].at = "sending"}
OpenThreads == {t \in Threads : IsConnected(thread[t])}
HadThreads == {t \in Threads : thread[t].had}
DialingThreads == {t \in Threads : thread[t].at = "dialing"}

(* Every worker has still to answer, or its answer is there, or was read.  *)
FirstsAnswer == startup.unread + startup.heard + Cardinality(Firsts) = load.threads

(* The permits that a rate has given.                                      *)
Given == permits.waiting + permits.backlog + permits.taken + permits.discarded + scheduler.count

PermitsInv ==
    /\ permits.taken = counters.success + counters.failed + Cardinality(SendingThreads)
    /\ load.TargetTPS > 0 => scheduler.due = TicksPerSecond * Given + scheduler.carry

ConnectionsInv ==
    /\ counters.active = Cardinality(OpenThreads)
    /\ counters.attempts = counters.connectErrors + counters.reconnects
                          + Cardinality(HadThreads) + Cardinality(DialingThreads)

(* Once the run is over nobody begins a transaction.                       *)
RowInv ==
    /\ reporter.row <= counters.success
    /\ reporter.at = "done" =>
          /\ ctx.run
          /\ counters.success + Cardinality(SendingThreads) <= reporter.row + load.threads

GeneratorInv == FirstsAnswer /\ PermitsInv /\ ConnectionsInv /\ RowInv

-----------------------------------------------------------------------------
(* Loads, and the records of the state *)

LEMMA LoadFacts ==
  ASSUME GeneratorAssumption, ArmsTyped
  PROVE  /\ load.threads \in 1..MaxThreads /\ load.TargetTPS \in Nat /\ load.RampUp \in Nat
         /\ load.ticks \in Nat /\ load.attempts \in Nat /\ load.writes \in Nat
         /\ TicksPerSecond \in Nat \ {0} /\ MaxThreads \in Nat
         /\ Threads \subseteq 1..MaxThreads /\ IsFiniteSet(Threads)
         /\ Cardinality(Threads) = load.threads
<1>1. /\ load.threads \in 1..MaxThreads /\ load.TargetTPS \in Nat /\ load.RampUp \in Nat
      /\ load.ticks \in Nat /\ load.attempts \in Nat /\ load.writes \in Nat
      /\ TicksPerSecond \in Nat \ {0} /\ MaxThreads \in Nat
  BY DEF GeneratorAssumption, ArmsTyped
<1>2. IsFiniteSet(Threads) /\ Cardinality(Threads) = load.threads
  <2>1. PICK n \in Nat \ {0} : n = load.threads
    BY <1>1
  <2>2. Threads = 1..n
    BY <2>1 DEF Threads
  <2>3. IsFiniteSet(1..n) /\ Cardinality(1..n) = IF 1 > n THEN 0 ELSE n - 1 + 1
    <3>1. 1 \in Int /\ n \in Int
      BY <2>1
    <3> QED
      BY <3>1, FS_Interval
  <2>4. (IF 1 > n THEN 0 ELSE n - 1 + 1) = n
    BY <2>1
  <2> QED
    BY <2>1, <2>2, <2>3, <2>4
<1>3. Threads \subseteq 1..MaxThreads
  BY <1>1 DEF Threads
<1> QED
  BY <1>1, <1>2, <1>3

LEMMA ArmsFacts ==
  ASSUME GeneratorAssumption, ArmsTyped
  PROVE  /\ startup.unread \in Nat /\ startup.heard \in Nat /\ startup.connected \in Nat
         /\ scheduler.at \in {"off", "running"} /\ scheduler.ticks \in Nat
         /\ scheduler.elapsed \in Nat /\ scheduler.due \in Nat
         /\ scheduler.carry \in 0..TicksPerSecond /\ scheduler.count \in Nat
         /\ permits.waiting \in Nat /\ permits.backlog \in Nat
         /\ permits.taken \in Nat /\ permits.discarded \in Nat
         /\ counters.attempts \in Nat /\ counters.connectErrors \in Nat /\ counters.reconnects \in Nat
         /\ counters.active \in Int /\ counters.success \in Nat /\ counters.failed \in Nat
         /\ reporter.at \in Rows /\ reporter.row \in Nat
         /\ ctx.parent \in BOOLEAN /\ ctx.run \in BOOLEAN
<1>1. startup.unread \in Nat /\ startup.heard \in Nat /\ startup.connected \in Nat
  BY DEF ArmsTyped, Startups
<1>2. /\ scheduler.at \in {"off", "running"} /\ scheduler.ticks \in Nat
      /\ scheduler.elapsed \in Nat /\ scheduler.due \in Nat
      /\ scheduler.carry \in 0..TicksPerSecond /\ scheduler.count \in Nat
  BY DEF ArmsTyped, Schedulers
<1>3. /\ permits.waiting \in Nat /\ permits.backlog \in Nat
      /\ permits.taken \in Nat /\ permits.discarded \in Nat
  BY DEF ArmsTyped, Permits
<1>4. /\ counters.attempts \in Nat /\ counters.connectErrors \in Nat /\ counters.reconnects \in Nat
      /\ counters.active \in Int /\ counters.success \in Nat /\ counters.failed \in Nat
  BY DEF ArmsTyped, ArmsStatistics
<1>5. reporter.at \in Rows /\ reporter.row \in Nat /\ ctx.parent \in BOOLEAN /\ ctx.run \in BOOLEAN
  BY DEF ArmsTyped
<1> QED
  BY <1>1, <1>2, <1>3, <1>4, <1>5

LEMMA ThreadFacts ==
  ASSUME GeneratorAssumption, ArmsTyped, NEW t \in Threads
  PROVE  /\ t \in 1..MaxThreads /\ thread[t] \in ThreadState
         /\ thread[t].at \in Places /\ thread[t].first \in BOOLEAN /\ thread[t].had \in BOOLEAN
<1>1. t \in 1..MaxThreads /\ thread[t] \in ThreadState
  BY LoadFacts DEF ArmsTyped
<1> QED
  BY <1>1 DEF ThreadState

-----------------------------------------------------------------------------
(* What a step does to a worker *)

(* Worker t is now at this place, the others are where they were.          *)
Moved(t, at) ==
    /\ thread' \in [1..MaxThreads -> ThreadState]
    /\ thread'[t].at = at
    /\ \A u \in Threads \ {t} : thread'[u] = thread[u]

Keeps(t) == thread'[t].first = thread[t].first /\ thread'[t].had = thread[t].had

LEMMA GoesFacts ==
  ASSUME GeneratorAssumption, ArmsTyped, NEW t \in Threads, NEW at \in Places, Goes(t, at)
  PROVE  Moved(t, at) /\ Keeps(t)
<1>1. t \in 1..MaxThreads /\ thread[t] \in ThreadState /\ thread \in [1..MaxThreads -> ThreadState]
  BY ThreadFacts DEF ArmsTyped
<1>2. thread' = [thread EXCEPT ![t] = [thread[t] EXCEPT !.at = at]]
  BY <1>1 DEF Goes
<1>3. PICK w : w = [thread[t] EXCEPT !.at = at]
  OBVIOUS
<1>4. w \in ThreadState /\ w.at = at /\ w.first = thread[t].first /\ w.had = thread[t].had
  BY <1>1, <1>3 DEF ThreadState
<1>5. thread' \in [1..MaxThreads -> ThreadState] /\ thread'[t] = w
  BY <1>1, <1>2, <1>3, <1>4
<1>6. \A u \in Threads \ {t} : thread'[u] = thread[u]
  BY <1>1, <1>2, LoadFacts
<1> QED
  BY <1>4, <1>5, <1>6 DEF Moved, Keeps

(* A worker whose dial succeeded, and one whose dial did not.              *)
LEMMA ConnectedFacts ==
  ASSUME GeneratorAssumption, ArmsTyped, NEW t \in Threads, DialSucceeds(t)
  PROVE  Moved(t, "serving") /\ ~thread'[t].first /\ thread'[t].had
<1>1. t \in 1..MaxThreads /\ thread \in [1..MaxThreads -> ThreadState]
  BY ThreadFacts DEF ArmsTyped
<1>2. PICK no, yes : no = FALSE /\ yes = TRUE
  OBVIOUS
<1>3. PICK w : w = [at |-> "serving", first |-> no, had |-> yes]
  OBVIOUS
<1>4. thread' = [thread EXCEPT ![t] = w]
  BY <1>2, <1>3 DEF DialSucceeds
<1>5. w.at = "serving" /\ w.first = no /\ w.had = yes
  BY <1>3
<1>6. w \in ThreadState
  <2>1. no \in BOOLEAN /\ yes \in BOOLEAN /\ "serving" \in Places
    BY <1>2 DEF Places
  <2> QED
    BY <1>3, <2>1 DEF ThreadState
<1>7. thread' \in [1..MaxThreads -> ThreadState] /\ thread'[t] = w
  BY <1>1, <1>4, <1>6
<1>8. \A u \in Threads \ {t} : thread'[u] = thread[u]
  BY <1>1, <1>4, LoadFacts
<1> QED
  BY <1>2, <1>5, <1>7, <1>8 DEF Moved

LEMMA FailedFacts ==
  ASSUME GeneratorAssumption, ArmsTyped, NEW t \in Threads, DialFails(t)
  PROVE  Moved(t, "waiting") /\ ~thread'[t].first /\ thread'[t].had = thread[t].had
<1>1. t \in 1..MaxThreads /\ thread[t] \in ThreadState /\ thread \in [1..MaxThreads -> ThreadState]
  BY ThreadFacts DEF ArmsTyped
<1>2. PICK no : no = FALSE
  OBVIOUS
<1>3. thread' = [thread EXCEPT ![t].at = "waiting", ![t].first = no]
  BY <1>2 DEF DialFails
<1>4. PICK v : v = [thread[t] EXCEPT !.at = "waiting"]
  OBVIOUS
<1>5. PICK w : w = [v EXCEPT !.first = no]
  OBVIOUS
<1>6. thread' = [thread EXCEPT ![t] = w]
  <2>1. thread' = [[thread EXCEPT ![t].at = "waiting"] EXCEPT ![t].first = no]
    BY <1>3
  <2>2. [thread EXCEPT ![t].at = "waiting"] = [thread EXCEPT ![t] = v]
    BY <1>1, <1>4
  <2>3. thread' = [[thread EXCEPT ![t] = v] EXCEPT ![t] = w]
    BY <1>1, <1>5, <2>1, <2>2
  <2> QED
    BY <1>1, <2>3
<1>7. "waiting" \in Places /\ no \in BOOLEAN
  BY <1>2 DEF Places
<1>8. v \in ThreadState /\ v.at = "waiting" /\ v.had = thread[t].had
  BY <1>1, <1>4, <1>7 DEF ThreadState
<1>9. w \in ThreadState /\ w.at = "waiting" /\ w.first = no /\ w.had = thread[t].had
  BY <1>5, <1>7, <1>8 DEF ThreadState
<1>10. thread' \in [1..MaxThreads -> ThreadState] /\ thread'[t] = w
  BY <1>1, <1>6, <1>9
<1>11. \A u \in Threads \ {t} : thread'[u] = thread[u]
  BY <1>1, <1>6, LoadFacts
<1> QED
  BY <1>2, <1>9, <1>10, <1>11 DEF Moved

-----------------------------------------------------------------------------
(* A step of a worker changes each of the counted sets by it at most.      *)
LEMMA ArmsSetsMove ==
  ASSUME GeneratorAssumption, ArmsTyped, load' = load, NEW t \in Threads, NEW at, Moved(t, at)
  PROVE  /\ Cardinality(Firsts) \in Nat /\ Cardinality(Firsts)' \in Nat
         /\ Cardinality(Firsts)' + Bit(thread[t].first)
              = Cardinality(Firsts) + Bit(thread'[t].first)
         /\ Cardinality(SendingThreads) \in Nat /\ Cardinality(SendingThreads)' \in Nat
         /\ Cardinality(SendingThreads)' + Bit(thread[t].at = "sending")
              = Cardinality(SendingThreads) + Bit(thread'[t].at = "sending")
         /\ Cardinality(OpenThreads) \in Nat /\ Cardinality(OpenThreads)' \in Nat
         /\ Cardinality(OpenThreads)' + Bit(IsConnected(thread[t]))
              = Cardinality(OpenThreads) + Bit(IsConnected(thread'[t]))
         /\ Cardinality(HadThreads) \in Nat /\ Cardinality(HadThreads)' \in Nat
         /\ Cardinality(HadThreads)' + Bit(thread[t].had)
              = Cardinality(HadThreads) + Bit(thread'[t].had)
         /\ Cardinality(DialingThreads) \in Nat /\ Cardinality(DialingThreads)' \in Nat
         /\ Cardinality(DialingThreads)' + Bit(thread[t].at = "dialing")
              = Cardinality(DialingThreads) + Bit(thread'[t].at = "dialing")
<1>1. IsFiniteSet(Threads) /\ Threads' = Threads
  BY LoadFacts DEF Threads
<1>2. \A u \in Threads \ {t} : thread'[u] = thread[u]
  BY DEF Moved
<1>3. /\ Firsts' = {u \in Threads : thread'[u].first}
      /\ SendingThreads' = {u \in Threads : thread'[u].at = "sending"}
      /\ OpenThreads' = {u \in Threads : IsConnected(thread'[u])}
      /\ HadThreads' = {u \in Threads : thread'[u].had}
      /\ DialingThreads' = {u \in Threads : thread'[u].at = "dialing"}
  BY <1>1 DEF Firsts, SendingThreads, OpenThreads, HadThreads, DialingThreads, IsConnected
<1>4. /\ Firsts \subseteq Threads /\ Firsts' \subseteq Threads
      /\ SendingThreads \subseteq Threads /\ SendingThreads' \subseteq Threads
      /\ OpenThreads \subseteq Threads /\ OpenThreads' \subseteq Threads
      /\ HadThreads \subseteq Threads /\ HadThreads' \subseteq Threads
      /\ DialingThreads \subseteq Threads /\ DialingThreads' \subseteq Threads
  BY <1>3 DEF Firsts, SendingThreads, OpenThreads, HadThreads, DialingThreads
<1>5. \A W : W \subseteq Threads => IsFiniteSet(W)
  BY <1>1, FS_Subset
<1>6. /\ Firsts \ {t} = Firsts' \ {t}
      /\ t \in Firsts <=> thread[t].first
      /\ t \in Firsts' <=> thread'[t].first
  BY <1>2, <1>3 DEF Firsts
<1>7. /\ SendingThreads \ {t} = SendingThreads' \ {t}
      /\ t \in SendingThreads <=> thread[t].at = "sending"
      /\ t \in SendingThreads' <=> thread'[t].at = "sending"
  BY <1>2, <1>3 DEF SendingThreads
<1>8. /\ OpenThreads \ {t} = OpenThreads' \ {t}
      /\ t \in OpenThreads <=> IsConnected(thread[t])
      /\ t \in OpenThreads' <=> IsConnected(thread'[t])
  BY <1>2, <1>3 DEF OpenThreads
<1>9. /\ HadThreads \ {t} = HadThreads' \ {t}
      /\ t \in HadThreads <=> thread[t].had
      /\ t \in HadThreads' <=> thread'[t].had
  BY <1>2, <1>3 DEF HadThreads
<1>10. /\ DialingThreads \ {t} = DialingThreads' \ {t}
       /\ t \in DialingThreads <=> thread[t].at = "dialing"
       /\ t \in DialingThreads' <=> thread'[t].at = "dialing"
  BY <1>2, <1>3 DEF DialingThreads
<1>11. /\ Cardinality(Firsts) \in Nat /\ Cardinality(Firsts)' \in Nat
       /\ Cardinality(Firsts)' + Bit(thread[t].first)
            = Cardinality(Firsts) + Bit(thread'[t].first)
  <2>1. IsFiniteSet(Firsts) /\ IsFiniteSet(Firsts')
    BY <1>4, <1>5
  <2>2. /\ Cardinality(Firsts) \in Nat /\ Cardinality(Firsts') \in Nat
        /\ Cardinality(Firsts') + Bit(t \in Firsts) = Cardinality(Firsts) + Bit(t \in Firsts')
    BY <1>6, <2>1, CardMoves
  <2> QED
    BY <1>6, <2>2 DEF Bit
<1>12. /\ Cardinality(SendingThreads) \in Nat /\ Cardinality(SendingThreads)' \in Nat
       /\ Cardinality(SendingThreads)' + Bit(thread[t].at = "sending")
            = Cardinality(SendingThreads) + Bit(thread'[t].at = "sending")
  <2>1. IsFiniteSet(SendingThreads) /\ IsFiniteSet(SendingThreads')
    BY <1>4, <1>5
  <2>2. /\ Cardinality(SendingThreads) \in Nat /\ Cardinality(SendingThreads') \in Nat
        /\ Cardinality(SendingThreads') + Bit(t \in SendingThreads)
             = Cardinality(SendingThreads) + Bit(t \in SendingThreads')
    BY <1>7, <2>1, CardMoves
  <2> QED
    BY <1>7, <2>2 DEF Bit
<1>13. /\ Cardinality(OpenThreads) \in Nat /\ Cardinality(OpenThreads)' \in Nat
       /\ Cardinality(OpenThreads)' + Bit(IsConnected(thread[t]))
            = Cardinality(OpenThreads) + Bit(IsConnected(thread'[t]))
  <2>1. IsFiniteSet(OpenThreads) /\ IsFiniteSet(OpenThreads')
    BY <1>4, <1>5
  <2>2. /\ Cardinality(OpenThreads) \in Nat /\ Cardinality(OpenThreads') \in Nat
        /\ Cardinality(OpenThreads') + Bit(t \in OpenThreads)
             = Cardinality(OpenThreads) + Bit(t \in OpenThreads')
    BY <1>8, <2>1, CardMoves
  <2> QED
    BY <1>8, <2>2 DEF Bit
<1>14. /\ Cardinality(HadThreads) \in Nat /\ Cardinality(HadThreads)' \in Nat
       /\ Cardinality(HadThreads)' + Bit(thread[t].had)
            = Cardinality(HadThreads) + Bit(thread'[t].had)
  <2>1. IsFiniteSet(HadThreads) /\ IsFiniteSet(HadThreads')
    BY <1>4, <1>5
  <2>2. /\ Cardinality(HadThreads) \in Nat /\ Cardinality(HadThreads') \in Nat
        /\ Cardinality(HadThreads') + Bit(t \in HadThreads)
             = Cardinality(HadThreads) + Bit(t \in HadThreads')
    BY <1>9, <2>1, CardMoves
  <2> QED
    BY <1>9, <2>2 DEF Bit
<1>15. /\ Cardinality(DialingThreads) \in Nat /\ Cardinality(DialingThreads)' \in Nat
       /\ Cardinality(DialingThreads)' + Bit(thread[t].at = "dialing")
            = Cardinality(DialingThreads) + Bit(thread'[t].at = "dialing")
  <2>1. IsFiniteSet(DialingThreads) /\ IsFiniteSet(DialingThreads')
    BY <1>4, <1>5
  <2>2. /\ Cardinality(DialingThreads) \in Nat /\ Cardinality(DialingThreads') \in Nat
        /\ Cardinality(DialingThreads') + Bit(t \in DialingThreads)
             = Cardinality(DialingThreads) + Bit(t \in DialingThreads')
    BY <1>10, <2>1, CardMoves
  <2> QED
    BY <1>10, <2>2 DEF Bit
<1> QED
  BY <1>11, <1>12, <1>13, <1>14, <1>15

-----------------------------------------------------------------------------
(* The steps keep the types *)

LEMMA ProductIsNat ==
  ASSUME NEW i \in Nat, NEW w \in Nat
  PROVE  i * w \in Nat
OBVIOUS

(* The rate that a ramp-up has reached is a number, as the ramp-up is not  *)
(* nothing while it lasts.                                                 *)
LEMMA RateIsNumber ==
  ASSUME GeneratorAssumption, ArmsTyped, NEW elapsed \in Nat
  PROVE  currentTargetTPS(elapsed) \in Nat
<1>1. PICK r \in Nat, p \in Nat : r = load.RampUp /\ p = load.TargetTPS
  BY LoadFacts
<1>2. CASE elapsed >= load.RampUp
  BY <1>1, <1>2 DEF currentTargetTPS
<1>3. CASE ~(elapsed >= load.RampUp)
  <2>1. r \in Nat \ {0}
    BY <1>1, <1>3
  <2>2. PICK n \in Nat : n = p * elapsed
    BY ProductIsNat
  <2>3. n \div r \in Nat
    BY <2>1, <2>2
  <2> QED
    BY <1>1, <1>3, <2>2, <2>3 DEF currentTargetTPS
<1> QED
  BY <1>2, <1>3

(* Whatever the rounding, what is given and what is carried are what the   *)
(* rate asked for.                                                         *)
LEMMA CarryIsFraction ==
  ASSUME GeneratorAssumption, NEW target \in Nat, NEW carry \in 0..TicksPerSecond,
         NEW next \in permitsForTick(target, carry)
  PROVE  /\ next.count \in Nat /\ next.carry \in 0..TicksPerSecond
         /\ target + carry = TicksPerSecond * next.count + next.carry
<1>1. PICK k \in Nat \ {0} : k = TicksPerSecond
  BY DEF GeneratorAssumption
<1>2. PICK d \in Nat : d = target + carry
  BY <1>1
<1>3. PICK q \in Nat, m \in 0..k - 1 : q = d \div k /\ m = d % k /\ d = k * q + m
  <2>1. d \div k \in Nat /\ d % k \in 0..k - 1 /\ d = k * (d \div k) + (d % k)
    BY <1>1, <1>2
  <2> QED
    BY <2>1
<1>4. PICK s \in {0, 1} : /\ next = [count |-> q - s, carry |-> m + s * k]
                          /\ s = 1 => d > 0 /\ m = 0
  <2> DEFINE desired == target + carry
             short == IF desired > 0 /\ desired % TicksPerSecond = 0 THEN {1} ELSE {}
             Tick(s) == [count |-> (desired \div TicksPerSecond) - s,
                         carry |-> (desired % TicksPerSecond) + s * TicksPerSecond]
  <2>1. \E s \in {0} \cup short : next = Tick(s)
    BY Zenon DEF permitsForTick
  <2>2. PICK s \in {0} \cup short : next = Tick(s)
    BY <2>1, Zenon
  <2>3. desired = d /\ desired \div TicksPerSecond = q /\ desired % TicksPerSecond = m
    BY <1>1, <1>2, <1>3
  <2>4. next = [count |-> q - s, carry |-> m + s * k]
    BY <1>1, <2>2, <2>3, Zenon
  <2>5. s \in short => s = 1 /\ d > 0 /\ m = 0
    <3> HIDE DEF desired
    <3> QED
      BY <2>3
  <2>6. s \in {0, 1} /\ (s = 1 => d > 0 /\ m = 0)
    <3>1. s = 0 \/ s \in short
      BY <2>2, Zenon
    <3> HIDE DEF short
    <3> QED
      BY <2>5, <3>1
  <2> QED
    BY <2>4, <2>6
<1>5. CASE s = 0
  <2>1. next = [count |-> q, carry |-> m]
    BY <1>1, <1>3, <1>4, <1>5
  <2> QED
    BY <1>1, <1>2, <1>3, <2>1
<1>6. CASE s = 1
  <2>0. d > 0 /\ m = 0
    BY <1>4, <1>6
  <2>1. q # 0
    <3>1. q = 0 => d = k * 0 + 0
      BY <1>3, <2>0
    <3>2. k * 0 = 0
      BY <1>1
    <3> QED
      BY <1>2, <2>0, <3>1, <3>2
  <2>2. PICK p \in Nat : p = q - 1 /\ q = p + 1
    BY <2>1
  <2>3. next = [count |-> p, carry |-> k]
    BY <1>1, <1>4, <1>6, <2>2
  <2>4. d = k * p + k
    BY <1>1, <1>3, <1>4, <1>6, <2>2
  <2>5. target + carry = k * p + k /\ k \in 0..k
    BY <1>1, <1>2, <2>4
  <2> QED
    BY <1>1, <2>2, <2>3, <2>5
<1> QED
  BY <1>4, <1>5, <1>6

(* A tick: what is due grows by the rate, and the whole permits of it are  *)
(* handed out.                                                             *)
Ticked(elapsed, target, carry, count) ==
    /\ scheduler.count = 0
    /\ target + scheduler.carry = TicksPerSecond * count + carry
    /\ scheduler' \in Schedulers
    /\ scheduler'.ticks = scheduler.ticks + 1 /\ scheduler'.due = scheduler.due + target
    /\ scheduler'.carry = carry /\ scheduler'.count = count

LEMMA TickFacts ==
  ASSUME GeneratorAssumption, ArmsTyped, SchedulerTick
  PROVE  \E elapsed \in Nat, target \in Nat, carry \in 0..TicksPerSecond, count \in Nat :
            Ticked(elapsed, target, carry, count)
<1>1. PICK elapsed \in {scheduler.elapsed + 1, scheduler.elapsed + 2} :
         \E next \in permitsForTick(currentTargetTPS(elapsed), scheduler.carry) :
            scheduler' = [scheduler EXCEPT !.ticks = @ + 1, !.elapsed = elapsed,
                !.due = @ + currentTargetTPS(elapsed), !.carry = next.carry, !.count = next.count]
  BY DEF SchedulerTick
<1>2. elapsed \in Nat /\ scheduler \in Schedulers
  <2>1. scheduler.elapsed \in Nat /\ scheduler \in Schedulers
    BY ArmsFacts DEF ArmsTyped
  <2>2. elapsed = scheduler.elapsed + 1 \/ elapsed = scheduler.elapsed + 2
    BY <1>1
  <2> QED
    BY <2>1, <2>2
<1>3. PICK target \in Nat : target = currentTargetTPS(elapsed)
  BY <1>2, RateIsNumber
<1>4. PICK carry \in 0..TicksPerSecond, count \in Nat :
         /\ scheduler' = [scheduler EXCEPT !.ticks = @ + 1, !.elapsed = elapsed,
                             !.due = @ + target, !.carry = carry, !.count = count]
         /\ target + scheduler.carry = TicksPerSecond * count + carry
  <2>1. scheduler.carry \in 0..TicksPerSecond
    BY ArmsFacts
  <2>2. PICK next \in permitsForTick(target, scheduler.carry) :
           scheduler' = [scheduler EXCEPT !.ticks = @ + 1, !.elapsed = elapsed,
                            !.due = @ + target, !.carry = next.carry, !.count = next.count]
    BY <1>1, <1>3
  <2>3. /\ next.count \in Nat /\ next.carry \in 0..TicksPerSecond
        /\ target + scheduler.carry = TicksPerSecond * next.count + next.carry
    BY <2>1, <2>2, CarryIsFraction
  <2> QED
    BY <2>2, <2>3
<1>5. PICK ticks \in Nat, due \in Nat : ticks = scheduler.ticks + 1 /\ due = scheduler.due + target
  BY <1>3, ArmsFacts
<1>6. scheduler' = [scheduler EXCEPT !.ticks = ticks, !.elapsed = elapsed,
                       !.due = due, !.carry = carry, !.count = count]
  BY <1>4, <1>5
<1>7. PICK a : a = [scheduler EXCEPT !.ticks = ticks]
  OBVIOUS
<1>8. a \in Schedulers /\ a.ticks = ticks
  BY <1>2, <1>7 DEF Schedulers
<1>9. PICK b : b = [a EXCEPT !.elapsed = elapsed]
  OBVIOUS
<1>10. b \in Schedulers /\ b.ticks = ticks
  BY <1>2, <1>8, <1>9 DEF Schedulers
<1>11. PICK c : c = [b EXCEPT !.due = due]
  OBVIOUS
<1>12. c \in Schedulers /\ c.ticks = ticks /\ c.due = due
  BY <1>10, <1>11 DEF Schedulers
<1>13. PICK d : d = [c EXCEPT !.carry = carry]
  OBVIOUS
<1>14. d \in Schedulers /\ d.ticks = ticks /\ d.due = due /\ d.carry = carry
  BY <1>12, <1>13 DEF Schedulers
<1>15. PICK e : e = [d EXCEPT !.count = count]
  OBVIOUS
<1>16. e \in Schedulers /\ e.ticks = ticks /\ e.due = due /\ e.carry = carry /\ e.count = count
  BY <1>14, <1>15 DEF Schedulers
<1>17. scheduler' = e
  BY <1>6, <1>7, <1>9, <1>11, <1>13, <1>15
<1>18. scheduler.count = 0
  BY DEF SchedulerTick
<1>19. Ticked(elapsed, target, carry, count)
  BY <1>4, <1>5, <1>16, <1>17, <1>18 DEF Ticked
<1> QED
  BY <1>3, <1>4, <1>2, <1>19

LEMMA SchedulerStepTyped ==
  ASSUME GeneratorAssumption, ArmsTyped, SchedulerTick \/ HandOut \/ SchedulerEnds
  PROVE  scheduler' \in Schedulers /\ scheduler'.ticks <= load.ticks /\ permits' \in Permits
<1>0. scheduler \in Schedulers /\ permits \in Permits /\ scheduler.ticks <= load.ticks
  BY DEF ArmsTyped
<1>1. CASE SchedulerTick
  <2>1. PICK elapsed \in Nat, target \in Nat, c \in 0..TicksPerSecond, n \in Nat :
           Ticked(elapsed, target, c, n)
    BY <1>1, TickFacts
  <2>2. scheduler' \in Schedulers /\ scheduler'.ticks = scheduler.ticks + 1
    BY <2>1 DEF Ticked
  <2>3. scheduler.ticks < load.ticks /\ permits' = permits
    BY <1>1 DEF SchedulerTick
  <2> QED
    BY <1>0, <2>2, <2>3, ArmsFacts, LoadFacts
<1>2. CASE HandOut
  <2>1. scheduler' = [scheduler EXCEPT !.count = @ - 1] /\ scheduler.count > 0
    BY <1>2 DEF HandOut
  <2>2. scheduler' \in Schedulers /\ scheduler'.ticks = scheduler.ticks
    BY <1>0, <2>1 DEF Schedulers
  <2>3. \/ permits' = [permits EXCEPT !.waiting = @ + 1]
        \/ permits' = [permits EXCEPT !.backlog = @ + 1]
    BY <1>2 DEF HandOut
  <2>4. permits' \in Permits
    BY <1>0, <2>3 DEF Permits
  <2> QED
    BY <1>0, <2>2, <2>4
<1>3. CASE SchedulerEnds
  <2>1. scheduler' = [scheduler EXCEPT !.at = "off"] /\ permits' = permits
    BY <1>3 DEF SchedulerEnds
  <2>2. scheduler' \in Schedulers /\ scheduler'.ticks = scheduler.ticks
    BY <1>0, <2>1 DEF Schedulers
  <2> QED
    BY <1>0, <2>1, <2>2
<1> QED
  BY <1>1, <1>2, <1>3

LEMMA RunStepTyped ==
  ASSUME GeneratorAssumption, ArmsTyped, load' = load, Run \/ Interrupt \/ DurationEnds
  PROVE  ArmsTyped'
<1>0. /\ load \in Loads /\ main \in Phases /\ ctx \in [parent: BOOLEAN, run: BOOLEAN]
      /\ thread \in [1..MaxThreads -> ThreadState] /\ startup \in Startups
      /\ scheduler \in Schedulers /\ scheduler.ticks <= load.ticks
      /\ permits \in Permits /\ counters \in ArmsStatistics /\ reporter \in [at: Rows, row: Nat]
  BY DEF ArmsTyped
<1>1. PICK yes : yes = TRUE
  OBVIOUS
<1>2. CASE HearStartup
  <2>1. startup.unread > 0 /\ startup' = [startup EXCEPT !.unread = @ - 1, !.heard = @ + 1]
    BY <1>2 DEF HearStartup
  <2>2. PICK n \in Nat, m \in Nat : n = startup.unread - 1 /\ m = startup.heard + 1
    BY <2>1, ArmsFacts
  <2>3. PICK s : s = [startup EXCEPT !.unread = n]
    OBVIOUS
  <2>4. s \in Startups
    BY <1>0, <2>2, <2>3 DEF Startups
  <2>5. startup' = [s EXCEPT !.heard = m]
    BY <2>1, <2>2, <2>3
  <2>6. startup' \in Startups
    BY <2>2, <2>4, <2>5 DEF Startups
  <2> QED
    BY <1>0, <1>2, <2>6 DEF HearStartup, ArmsTyped
<1>3. CASE StartOrGiveUp
  <2>1. main' \in Phases
    BY <1>3 DEF StartOrGiveUp, Phases
  <2>2. ctx' = ctx \/ ctx' = [ctx EXCEPT !.run = yes]
    BY <1>1, <1>3 DEF StartOrGiveUp
  <2>3. ctx' \in [parent: BOOLEAN, run: BOOLEAN]
    BY <1>0, <1>1, <2>2
  <2>4. PICK s \in {"off", "running"} :
           scheduler' = scheduler \/ scheduler' = [scheduler EXCEPT !.at = s]
    <3>1. PICK s : s = IF load.TargetTPS > 0 THEN "running" ELSE "off"
      OBVIOUS
    <3>2. s \in {"off", "running"}
      BY <3>1
    <3>3. scheduler' = scheduler \/ scheduler' = [scheduler EXCEPT !.at = s]
      BY <1>3, <3>1 DEF StartOrGiveUp
    <3> QED
      BY <3>2, <3>3
  <2>5. scheduler' \in Schedulers /\ scheduler'.ticks = scheduler.ticks
    BY <1>0, <2>4 DEF Schedulers
  <2>6. reporter' = reporter \/ reporter' = [reporter EXCEPT !.at = "running"]
    BY <1>3 DEF StartOrGiveUp
  <2>7. reporter' \in [at: Rows, row: Nat]
    BY <1>0, <2>6 DEF Rows
  <2> QED
    BY <1>0, <1>3, <2>1, <2>3, <2>5, <2>7 DEF StartOrGiveUp, ArmsTyped
<1>4. CASE StopStarting
  <2>1. main' \in Phases
    BY <1>4 DEF StopStarting, Phases
  <2> QED
    BY <1>0, <1>4, <2>1 DEF StopStarting, ArmsTyped
<1>5. CASE Finish
  <2>1. main' \in Phases
    BY <1>5 DEF Finish, Phases
  <2> QED
    BY <1>0, <1>5, <2>1 DEF Finish, ArmsTyped
<1>6. CASE Interrupt
  <2>1. ctx' = [parent |-> yes, run |-> yes]
    BY <1>1, <1>6 DEF Interrupt
  <2>2. ctx' \in [parent: BOOLEAN, run: BOOLEAN]
    BY <1>1, <2>1
  <2> QED
    BY <1>0, <1>6, <2>2 DEF Interrupt, ArmsTyped
<1>7. CASE DurationEnds
  <2>1. main' \in Phases
    BY <1>7 DEF DurationEnds, Phases
  <2>2. ctx' = [ctx EXCEPT !.run = yes]
    BY <1>1, <1>7 DEF DurationEnds
  <2>3. ctx' \in [parent: BOOLEAN, run: BOOLEAN]
    BY <1>0, <1>1, <2>2
  <2> QED
    BY <1>0, <1>7, <2>1, <2>3 DEF DurationEnds, ArmsTyped
<1> QED
  BY <1>2, <1>3, <1>4, <1>5, <1>6, <1>7 DEF Run

LEMMA ReporterStepTyped ==
  ASSUME GeneratorAssumption, ArmsTyped, load' = load, WriteRow \/ LastRow
  PROVE  ArmsTyped'
<1>1. PICK row \in Nat : row = counters.success
  BY ArmsFacts
<1>2. \/ reporter' = [reporter EXCEPT !.row = row]
      \/ reporter' = [reporter EXCEPT !.at = "failed"]
      \/ reporter' = [at |-> "done", row |-> row]
  BY <1>1 DEF WriteRow, LastRow
<1>3. reporter \in [at: Rows, row: Nat] /\ "failed" \in Rows /\ "done" \in Rows
  BY DEF ArmsTyped, Rows
<1>4. reporter' \in [at: Rows, row: Nat]
  BY <1>2, <1>3
<1> QED
  BY <1>4 DEF WriteRow, LastRow, ArmsTyped

-----------------------------------------------------------------------------
(* The steps of a worker *)

(* What it adds to one side of an account it adds to the other; and when   *)
(* the run is over it begins no transaction.                               *)
ArmsBalance(t) ==
    /\ startup'.unread + startup'.heard + Bit(thread'[t].first)
         = startup.unread + startup.heard + Bit(thread[t].first)
    /\ permits'.taken + counters.success + counters.failed + Bit(thread[t].at = "sending")
         = permits.taken + counters'.success + counters'.failed + Bit(thread'[t].at = "sending")
    /\ load.TargetTPS > 0 =>
          permits'.waiting + permits'.backlog + permits'.taken + permits'.discarded
            = permits.waiting + permits.backlog + permits.taken + permits.discarded
    /\ counters'.active + Bit(IsConnected(thread[t])) = counters.active + Bit(IsConnected(thread'[t]))
    /\ counters'.attempts + counters.connectErrors + counters.reconnects
         + Bit(thread[t].had) + Bit(thread[t].at = "dialing")
         = counters.attempts + counters'.connectErrors + counters'.reconnects
             + Bit(thread'[t].had) + Bit(thread'[t].at = "dialing")
    /\ counters.success <= counters'.success
    /\ ctx.run => counters'.success + Bit(thread'[t].at = "sending")
                    <= counters.success + Bit(thread[t].at = "sending")

WorkerStep(t) ==
    /\ Moved(t, thread'[t].at)
    /\ startup' \in Startups /\ permits' \in Permits /\ counters' \in ArmsStatistics
    /\ ArmsBalance(t)
    /\ Others

LEMMA OpenFacts ==
  ASSUME NEW w
  PROVE  /\ w.at \in {"idle", "dialing", "waiting", "left"} => Bit(IsConnected(w)) = 0
         /\ w.at \in {"serving", "sending", "beating"} => Bit(IsConnected(w)) = 1
BY DEF IsConnected, Bit

LEMMA PlaceFacts ==
  ASSUME NEW w
  PROVE  /\ w.at # "sending" => Bit(w.at = "sending") = 0
         /\ w.at = "sending" => Bit(w.at = "sending") = 1
         /\ w.at # "dialing" => Bit(w.at = "dialing") = 0
         /\ w.at = "dialing" => Bit(w.at = "dialing") = 1
         /\ Bit(w.first) \in {0, 1} /\ Bit(w.had) \in {0, 1}
         /\ w.first => Bit(w.first) = 1
         /\ ~w.first => Bit(w.first) = 0
         /\ w.had => Bit(w.had) = 1
         /\ ~w.had => Bit(w.had) = 0
BY DEF Bit

LEMMA WorkerFacts ==
  ASSUME GeneratorAssumption, ArmsTyped
  PROVE  startup \in Startups /\ permits \in Permits /\ counters \in ArmsStatistics
BY DEF ArmsTyped

LEMMA CountersWith ==
  ASSUME NEW c \in ArmsStatistics, NEW n \in Nat, NEW z \in Int
  PROVE  /\ [c EXCEPT !.attempts = n] \in ArmsStatistics
         /\ [c EXCEPT !.connectErrors = n] \in ArmsStatistics
         /\ [c EXCEPT !.reconnects = n] \in ArmsStatistics
         /\ [c EXCEPT !.success = n] \in ArmsStatistics
         /\ [c EXCEPT !.failed = n] \in ArmsStatistics
         /\ [c EXCEPT !.active = z] \in ArmsStatistics
BY DEF ArmsStatistics

LEMMA AttemptStep ==
  ASSUME GeneratorAssumption, ArmsTyped, NEW t \in Threads, Attempt(t)
  PROVE  WorkerStep(t)
<1>1. thread[t].at = "idle" /\ startup' = startup /\ permits' = permits /\ Others
  BY DEF Attempt
<1>2. CASE Goes(t, "left") /\ counters' = counters
  <2>1. Moved(t, "left") /\ Keeps(t)
    <3>1. "left" \in Places
      BY DEF Places
    <3> QED
      BY <1>2, <3>1, GoesFacts
  <2>2. thread'[t].at = "left" /\ thread'[t].first = thread[t].first /\ thread'[t].had = thread[t].had
    BY <2>1 DEF Moved, Keeps
  <2>3. /\ Bit(IsConnected(thread[t])) = 0 /\ Bit(IsConnected(thread'[t])) = 0
        /\ Bit(thread[t].at = "sending") = 0 /\ Bit(thread'[t].at = "sending") = 0
        /\ Bit(thread[t].at = "dialing") = 0 /\ Bit(thread'[t].at = "dialing") = 0
        /\ Bit(thread'[t].first) = Bit(thread[t].first) /\ Bit(thread'[t].had) = Bit(thread[t].had)
    BY <1>1, <2>2, OpenFacts, PlaceFacts
  <2>4. ArmsBalance(t)
    BY <1>1, <1>2, <2>3, ArmsFacts DEF ArmsBalance
  <2> QED
    BY <1>1, <1>2, <2>1, <2>2, <2>4, WorkerFacts DEF WorkerStep
<1>3. CASE Goes(t, "dialing") /\ counters' = [counters EXCEPT !.attempts = @ + 1]
  <2>1. Moved(t, "dialing") /\ Keeps(t)
    <3>1. "dialing" \in Places
      BY DEF Places
    <3> QED
      BY <1>3, <3>1, GoesFacts
  <2>2. thread'[t].at = "dialing" /\ thread'[t].first = thread[t].first /\ thread'[t].had = thread[t].had
    BY <2>1 DEF Moved, Keeps
  <2>3. /\ Bit(IsConnected(thread[t])) = 0 /\ Bit(IsConnected(thread'[t])) = 0
        /\ Bit(thread[t].at = "sending") = 0 /\ Bit(thread'[t].at = "sending") = 0
        /\ Bit(thread[t].at = "dialing") = 0 /\ Bit(thread'[t].at = "dialing") = 1
        /\ Bit(thread'[t].first) = Bit(thread[t].first) /\ Bit(thread'[t].had) = Bit(thread[t].had)
    BY <1>1, <2>2, OpenFacts, PlaceFacts
  <2>4. Bit(thread[t].first) \in {0, 1} /\ Bit(thread[t].had) \in {0, 1}
    BY PlaceFacts
  <2>5. /\ counters' \in ArmsStatistics /\ counters'.attempts = counters.attempts + 1
        /\ counters'.connectErrors = counters.connectErrors
        /\ counters'.reconnects = counters.reconnects /\ counters'.active = counters.active
        /\ counters'.success = counters.success /\ counters'.failed = counters.failed
    BY <1>3, WorkerFacts, ArmsFacts DEF ArmsStatistics
  <2>6. ArmsBalance(t)
    BY <1>1, <2>3, <2>4, <2>5, ArmsFacts DEF ArmsBalance
  <2> QED
    BY <1>1, <2>1, <2>2, <2>5, <2>6, WorkerFacts DEF WorkerStep
<1> QED
  BY <1>2, <1>3 DEF Attempt

LEMMA ReportedFacts ==
  ASSUME GeneratorAssumption, ArmsTyped, NEW t \in Threads, NEW success \in {0, 1},
         Reported(t, success), ~thread'[t].first
  PROVE  /\ startup' \in Startups
         /\ startup'.unread + startup'.heard + Bit(thread'[t].first)
              = startup.unread + startup.heard + Bit(thread[t].first)
<1>1. Bit(thread'[t].first) = 0
  BY PlaceFacts
<1>2. CASE thread[t].first
  <2>1. PICK n \in Nat, m \in Nat : n = startup.unread + 1 /\ m = startup.connected + success
    BY ArmsFacts
  <2>2. startup' = [startup EXCEPT !.unread = n, !.connected = m]
    BY <1>2, <2>1 DEF Reported
  <2>3. PICK s : s = [startup EXCEPT !.unread = n]
    OBVIOUS
  <2>4. s \in Startups /\ s.unread = n /\ s.heard = startup.heard
    BY <2>1, <2>3, WorkerFacts DEF Startups
  <2>5. startup' = [s EXCEPT !.connected = m]
    BY <2>2, <2>3
  <2>6. startup' \in Startups /\ startup'.unread = n /\ startup'.heard = startup.heard
    BY <2>1, <2>4, <2>5 DEF Startups
  <2>7. Bit(thread[t].first) = 1
    BY <1>2, PlaceFacts
  <2> QED
    BY <1>1, <2>1, <2>6, <2>7, ArmsFacts
<1>3. CASE ~thread[t].first
  <2>1. startup' = startup
    BY <1>3 DEF Reported
  <2>2. Bit(thread[t].first) = 0
    BY <1>3, PlaceFacts
  <2> QED
    BY <1>1, <2>1, <2>2, WorkerFacts
<1> QED
  BY <1>2, <1>3

LEMMA DialSucceedsStep ==
  ASSUME GeneratorAssumption, ArmsTyped, NEW t \in Threads, DialSucceeds(t)
  PROVE  WorkerStep(t)
<1>1. thread[t].at = "dialing" /\ permits' = permits /\ Others /\ Reported(t, 1)
  BY DEF DialSucceeds
<1>2. Moved(t, "serving") /\ ~thread'[t].first /\ thread'[t].had
  BY ConnectedFacts
<1>3. thread'[t].at = "serving"
  BY <1>2 DEF Moved
<1>4. /\ startup' \in Startups
      /\ startup'.unread + startup'.heard + Bit(thread'[t].first)
           = startup.unread + startup.heard + Bit(thread[t].first)
  BY <1>1, <1>2, ReportedFacts
<1>5. /\ Bit(IsConnected(thread[t])) = 0 /\ Bit(IsConnected(thread'[t])) = 1
      /\ Bit(thread[t].at = "sending") = 0 /\ Bit(thread'[t].at = "sending") = 0
      /\ Bit(thread[t].at = "dialing") = 1 /\ Bit(thread'[t].at = "dialing") = 0
      /\ Bit(thread'[t].had) = 1
  BY <1>1, <1>2, <1>3, OpenFacts, PlaceFacts
<1>6. PICK b \in {0, 1} : b = Bit(thread[t].had) /\ b = IF thread[t].had THEN 1 ELSE 0
  BY DEF Bit
<1>7. PICK n \in Nat, a \in Int : n = counters.reconnects + b /\ a = counters.active + 1
  BY <1>6, ArmsFacts
<1>8. counters' = [counters EXCEPT !.reconnects = n, !.active = a]
  BY <1>6, <1>7 DEF DialSucceeds
<1>9. PICK c : c = [counters EXCEPT !.reconnects = n]
  OBVIOUS
<1>10. /\ c \in ArmsStatistics /\ c.reconnects = n
       /\ c.attempts = counters.attempts /\ c.connectErrors = counters.connectErrors
       /\ c.success = counters.success /\ c.failed = counters.failed
  BY <1>7, <1>9, WorkerFacts DEF ArmsStatistics
<1>11. counters' = [c EXCEPT !.active = a]
  BY <1>8, <1>9
<1>12. /\ counters' \in ArmsStatistics /\ counters'.reconnects = n /\ counters'.active = a
       /\ counters'.attempts = counters.attempts
       /\ counters'.connectErrors = counters.connectErrors
       /\ counters'.success = counters.success /\ counters'.failed = counters.failed
  BY <1>7, <1>10, <1>11 DEF ArmsStatistics
<1>13. ArmsBalance(t)
  BY <1>1, <1>4, <1>5, <1>6, <1>7, <1>12, ArmsFacts DEF ArmsBalance
<1> QED
  BY <1>1, <1>2, <1>3, <1>4, <1>12, <1>13, WorkerFacts DEF WorkerStep

LEMMA DialFailsStep ==
  ASSUME GeneratorAssumption, ArmsTyped, NEW t \in Threads, DialFails(t)
  PROVE  WorkerStep(t)
<1>1. thread[t].at = "dialing" /\ permits' = permits /\ Others /\ Reported(t, 0)
  BY DEF DialFails
<1>2. Moved(t, "waiting") /\ ~thread'[t].first /\ thread'[t].had = thread[t].had
  BY FailedFacts
<1>3. thread'[t].at = "waiting"
  BY <1>2 DEF Moved
<1>4. /\ startup' \in Startups
      /\ startup'.unread + startup'.heard + Bit(thread'[t].first)
           = startup.unread + startup.heard + Bit(thread[t].first)
  BY <1>1, <1>2, ReportedFacts
<1>5. /\ Bit(IsConnected(thread[t])) = 0 /\ Bit(IsConnected(thread'[t])) = 0
      /\ Bit(thread[t].at = "sending") = 0 /\ Bit(thread'[t].at = "sending") = 0
      /\ Bit(thread[t].at = "dialing") = 1 /\ Bit(thread'[t].at = "dialing") = 0
      /\ Bit(thread'[t].had) = Bit(thread[t].had) /\ Bit(thread[t].had) \in {0, 1}
  BY <1>1, <1>2, <1>3, OpenFacts, PlaceFacts
<1>6. counters' = [counters EXCEPT !.connectErrors = @ + 1]
  BY DEF DialFails
<1>7. /\ counters' \in ArmsStatistics /\ counters'.connectErrors = counters.connectErrors + 1
      /\ counters'.attempts = counters.attempts
      /\ counters'.reconnects = counters.reconnects /\ counters'.active = counters.active
      /\ counters'.success = counters.success /\ counters'.failed = counters.failed
  BY <1>6, WorkerFacts, ArmsFacts DEF ArmsStatistics
<1>8. ArmsBalance(t)
  BY <1>1, <1>4, <1>5, <1>7, ArmsFacts DEF ArmsBalance
<1> QED
  BY <1>1, <1>2, <1>3, <1>4, <1>7, <1>8, WorkerFacts DEF WorkerStep

(* A step that goes to another place only: what it does to the permits and *)
(* to the counters makes up for the connection and the transaction.        *)
LEMMA GoesBalance ==
  ASSUME GeneratorAssumption, ArmsTyped, NEW t \in Threads, NEW at \in Places, Goes(t, at),
         startup' = startup, permits' \in Permits, counters' \in ArmsStatistics, Others,
         thread[t].at # "dialing", at # "dialing",
         permits'.taken + counters.success + counters.failed + Bit(thread[t].at = "sending")
           = permits.taken + counters'.success + counters'.failed + Bit(at = "sending"),
         load.TargetTPS > 0 =>
            permits'.waiting + permits'.backlog + permits'.taken + permits'.discarded
              = permits.waiting + permits.backlog + permits.taken + permits.discarded,
         counters'.active + Bit(thread[t].at \in {"serving", "sending", "beating"})
           = counters.active + Bit(at \in {"serving", "sending", "beating"}),
         counters'.attempts = counters.attempts,
         counters'.connectErrors = counters.connectErrors,
         counters'.reconnects = counters.reconnects,
         counters.success <= counters'.success,
         ctx.run => counters'.success + Bit(at = "sending")
                      <= counters.success + Bit(thread[t].at = "sending")
  PROVE  WorkerStep(t)
<1>1. Moved(t, at) /\ Keeps(t)
  BY GoesFacts
<1>2. thread'[t].at = at /\ thread'[t].first = thread[t].first /\ thread'[t].had = thread[t].had
  BY <1>1 DEF Moved, Keeps
<1>3. /\ Bit(thread[t].at = "dialing") = 0 /\ Bit(thread'[t].at = "dialing") = 0
      /\ Bit(thread'[t].first) = Bit(thread[t].first) /\ Bit(thread'[t].had) = Bit(thread[t].had)
  BY <1>2, PlaceFacts
<1>4. /\ Bit(IsConnected(thread[t])) = Bit(thread[t].at \in {"serving", "sending", "beating"})
      /\ Bit(IsConnected(thread'[t])) = Bit(at \in {"serving", "sending", "beating"})
      /\ Bit(thread'[t].at = "sending") = Bit(at = "sending")
  BY <1>2 DEF IsConnected
<1>5. startup'.unread + startup'.heard + Bit(thread'[t].first)
        = startup.unread + startup.heard + Bit(thread[t].first)
  BY <1>3
<1>6. counters'.attempts + counters.connectErrors + counters.reconnects
         + Bit(thread[t].had) + Bit(thread[t].at = "dialing")
         = counters.attempts + counters'.connectErrors + counters'.reconnects
             + Bit(thread'[t].had) + Bit(thread'[t].at = "dialing")
  BY <1>3
<1>7. ArmsBalance(t)
  BY <1>4, <1>5, <1>6 DEF ArmsBalance
<1> QED
  BY <1>1, <1>2, <1>7, WorkerFacts DEF WorkerStep

LEMMA BitFacts ==
  /\ Bit("idle" = "sending") = 0 /\ Bit("serving" = "sending") = 0
  /\ Bit("sending" = "sending") = 1 /\ Bit("beating" = "sending") = 0
  /\ Bit("waiting" = "sending") = 0 /\ Bit("left" = "sending") = 0
  /\ Bit("idle" \in {"serving", "sending", "beating"}) = 0
  /\ Bit("serving" \in {"serving", "sending", "beating"}) = 1
  /\ Bit("sending" \in {"serving", "sending", "beating"}) = 1
  /\ Bit("beating" \in {"serving", "sending", "beating"}) = 1
  /\ Bit("waiting" \in {"serving", "sending", "beating"}) = 0
  /\ Bit("left" \in {"serving", "sending", "beating"}) = 0
BY DEF Bit

LEMMA waitForReconnectStep ==
  ASSUME GeneratorAssumption, ArmsTyped, NEW t \in Threads, waitForReconnect(t)
  PROVE  WorkerStep(t)
<1>1. thread[t].at = "waiting" /\ UNCHANGED <<startup, permits, counters>> /\ Others
  BY DEF waitForReconnect
<1>2. PICK at : at \in {"left", "idle"} /\ Goes(t, at)
  BY DEF waitForReconnect
<1>3. at \in Places /\ at # "dialing" /\ thread[t].at # "dialing"
  BY <1>1, <1>2 DEF Places
<1>4. /\ Bit(thread[t].at = "sending") = 0 /\ Bit(at = "sending") = 0
      /\ Bit(thread[t].at \in {"serving", "sending", "beating"}) = 0
      /\ Bit(at \in {"serving", "sending", "beating"}) = 0
  BY <1>1, <1>2 DEF Bit
<1>5. /\ permits'.taken + counters.success + counters.failed + 0
           = permits.taken + counters'.success + counters'.failed + 0
      /\ counters'.active + 0 = counters.active + 0 /\ counters.success <= counters'.success
      /\ counters'.success + 0 <= counters.success + 0
      /\ permits'.waiting + permits'.backlog + permits'.taken + permits'.discarded
           = permits.waiting + permits.backlog + permits.taken + permits.discarded
  BY <1>1, ArmsFacts
<1>6. /\ counters'.attempts = counters.attempts
      /\ counters'.connectErrors = counters.connectErrors
      /\ counters'.reconnects = counters.reconnects /\ startup' = startup
      /\ permits' \in Permits /\ counters' \in ArmsStatistics
  BY <1>1, WorkerFacts
<1> QED
  BY <1>1, <1>2, <1>3, <1>4, <1>5, <1>6, GoesBalance

LEMMA TakePermitStep ==
  ASSUME GeneratorAssumption, ArmsTyped, NEW t \in Threads, TakePermit(t)
  PROVE  WorkerStep(t)
<1>1. thread[t].at = "serving" /\ permits.waiting > 0 /\ startup' = startup /\ Others
  BY DEF TakePermit
<1>2. PICK n \in Nat, m \in Nat, d \in Nat, a \in Int :
         /\ n = permits.waiting - 1 /\ m = permits.taken + 1
         /\ d = permits.discarded + 1 /\ a = counters.active - 1
  <2>1. /\ permits.waiting \in Nat /\ permits.taken \in Nat
        /\ permits.discarded \in Nat /\ counters.active \in Int
    BY ArmsFacts
  <2>2. /\ permits.waiting - 1 \in Nat /\ permits.taken + 1 \in Nat
        /\ permits.discarded + 1 \in Nat /\ counters.active - 1 \in Int
    BY <1>1, <2>1
  <2> QED
    BY <2>2
<1>3. PICK p : p = [permits EXCEPT !.waiting = n]
  OBVIOUS
<1>4. /\ p \in Permits /\ p.waiting = n /\ p.backlog = permits.backlog
      /\ p.taken = permits.taken /\ p.discarded = permits.discarded
  BY <1>2, <1>3, WorkerFacts DEF Permits
<1>5. /\ Bit(thread[t].at = "sending") = 0
      /\ Bit(thread[t].at \in {"serving", "sending", "beating"}) = 1
  BY <1>1 DEF Bit
<1>6. "left" \in Places /\ "sending" \in Places /\ thread[t].at # "dialing"
  BY <1>1 DEF Places
<1>7. CASE ctx.run
  <2>1. /\ permits' = [permits EXCEPT !.waiting = n, !.discarded = d]
        /\ Goes(t, "left") /\ counters' = [counters EXCEPT !.active = a]
    BY <1>2, <1>7 DEF TakePermit
  <2>2. permits' = [p EXCEPT !.discarded = d]
    BY <1>3, <2>1
  <2>3. /\ permits' \in Permits /\ permits'.waiting = n /\ permits'.backlog = permits.backlog
        /\ permits'.taken = permits.taken /\ permits'.discarded = d
    BY <1>2, <1>4, <2>2 DEF Permits
  <2>4. /\ counters' \in ArmsStatistics /\ counters'.active = a
        /\ counters'.attempts = counters.attempts
        /\ counters'.connectErrors = counters.connectErrors
        /\ counters'.reconnects = counters.reconnects
        /\ counters'.success = counters.success /\ counters'.failed = counters.failed
    BY <1>2, <2>1, WorkerFacts DEF ArmsStatistics
  <2>5. /\ permits'.taken + counters.success + counters.failed + 0
             = permits.taken + counters'.success + counters'.failed + 0
        /\ permits'.waiting + permits'.backlog + permits'.taken + permits'.discarded
             = permits.waiting + permits.backlog + permits.taken + permits.discarded
        /\ counters'.active + 1 = counters.active + 0
        /\ counters.success <= counters'.success
        /\ counters'.success + 0 <= counters.success + 0
    BY <1>2, <2>3, <2>4, ArmsFacts
  <2> QED
    BY <1>1, <1>5, <1>6, <2>1, <2>3, <2>4, <2>5, BitFacts, GoesBalance
<1>8. CASE ~ctx.run
  <2>1. /\ permits' = [permits EXCEPT !.waiting = n, !.taken = m]
        /\ Goes(t, "sending") /\ counters' = counters
    BY <1>2, <1>8 DEF TakePermit
  <2>2. permits' = [p EXCEPT !.taken = m]
    BY <1>3, <2>1
  <2>3. /\ permits' \in Permits /\ permits'.waiting = n /\ permits'.backlog = permits.backlog
        /\ permits'.taken = m /\ permits'.discarded = permits.discarded
    BY <1>2, <1>4, <2>2 DEF Permits
  <2>4. /\ permits'.taken + counters.success + counters.failed + 0
             = permits.taken + counters'.success + counters'.failed + 1
        /\ permits'.waiting + permits'.backlog + permits'.taken + permits'.discarded
             = permits.waiting + permits.backlog + permits.taken + permits.discarded
        /\ counters'.active + 1 = counters.active + 1
        /\ counters.success <= counters'.success
    BY <1>2, <2>1, <2>3, ArmsFacts
  <2>5. /\ counters'.attempts = counters.attempts
        /\ counters'.connectErrors = counters.connectErrors
        /\ counters'.reconnects = counters.reconnects /\ counters' \in ArmsStatistics
    BY <2>1, WorkerFacts
  <2> QED
    BY <1>1, <1>5, <1>6, <1>8, <2>1, <2>3, <2>4, <2>5, BitFacts, GoesBalance
<1> QED
  BY <1>7, <1>8

LEMMA SendFreelyStep ==
  ASSUME GeneratorAssumption, ArmsTyped, NEW t \in Threads, SendFreely(t)
  PROVE  WorkerStep(t)
<1>1. /\ thread[t].at = "serving" /\ load.TargetTPS = 0 /\ ~ctx.run /\ Others
      /\ Goes(t, "sending") /\ startup' = startup /\ counters' = counters
      /\ permits' = [permits EXCEPT !.taken = @ + 1]
  BY DEF SendFreely
<1>2. permits' \in Permits /\ permits'.taken = permits.taken + 1
  BY <1>1, WorkerFacts, ArmsFacts DEF Permits
<1>3. /\ Bit(thread[t].at = "sending") = 0
      /\ Bit(thread[t].at \in {"serving", "sending", "beating"}) = 1
  BY <1>1 DEF Bit
<1>4. "sending" \in Places /\ thread[t].at # "dialing" /\ ~(load.TargetTPS > 0)
  BY <1>1 DEF Places
<1>5. /\ permits'.taken + counters.success + counters.failed + 0
           = permits.taken + counters'.success + counters'.failed + 1
      /\ counters'.active + 1 = counters.active + 1
      /\ counters.success <= counters'.success
  BY <1>1, <1>2, ArmsFacts
<1>6. /\ counters'.attempts = counters.attempts
      /\ counters'.connectErrors = counters.connectErrors
      /\ counters'.reconnects = counters.reconnects /\ counters' \in ArmsStatistics
  BY <1>1, WorkerFacts
<1> QED
  BY <1>1, <1>2, <1>3, <1>4, <1>5, <1>6, BitFacts, GoesBalance

LEMMA HeartbeatStep ==
  ASSUME GeneratorAssumption, ArmsTyped, NEW t \in Threads, Heartbeat(t)
  PROVE  WorkerStep(t)
<1>1. /\ thread[t].at = "serving" /\ Goes(t, "beating") /\ Others
      /\ UNCHANGED <<startup, permits, counters>>
  BY DEF Heartbeat
<1>2. /\ Bit(thread[t].at = "sending") = 0
      /\ Bit(thread[t].at \in {"serving", "sending", "beating"}) = 1
  BY <1>1 DEF Bit
<1>3. "beating" \in Places /\ thread[t].at # "dialing"
  BY <1>1 DEF Places
<1>4. /\ permits'.taken + counters.success + counters.failed + 0
           = permits.taken + counters'.success + counters'.failed + 0
      /\ permits'.waiting + permits'.backlog + permits'.taken + permits'.discarded
           = permits.waiting + permits.backlog + permits.taken + permits.discarded
      /\ counters'.active + 1 = counters.active + 1
      /\ counters.success <= counters'.success
      /\ counters'.success + 0 <= counters.success + 0
  BY <1>1, ArmsFacts
<1>5. /\ counters'.attempts = counters.attempts
      /\ counters'.connectErrors = counters.connectErrors
      /\ counters'.reconnects = counters.reconnects /\ startup' = startup
      /\ permits' \in Permits /\ counters' \in ArmsStatistics
  BY <1>1, WorkerFacts
<1> QED
  BY <1>1, <1>2, <1>3, <1>4, <1>5, BitFacts, GoesBalance

LEMMA StopServingStep ==
  ASSUME GeneratorAssumption, ArmsTyped, NEW t \in Threads, StopServing(t)
  PROVE  WorkerStep(t)
<1>1. /\ thread[t].at = "serving" /\ Goes(t, "left") /\ Others
      /\ UNCHANGED <<startup, permits>> /\ counters' = [counters EXCEPT !.active = @ - 1]
  BY DEF StopServing
<1>2. /\ Bit(thread[t].at = "sending") = 0
      /\ Bit(thread[t].at \in {"serving", "sending", "beating"}) = 1
  BY <1>1 DEF Bit
<1>3. "left" \in Places /\ thread[t].at # "dialing"
  BY <1>1 DEF Places
<1>4. /\ counters' \in ArmsStatistics /\ counters'.active = counters.active - 1
      /\ counters'.attempts = counters.attempts
      /\ counters'.connectErrors = counters.connectErrors
      /\ counters'.reconnects = counters.reconnects
      /\ counters'.success = counters.success /\ counters'.failed = counters.failed
  BY <1>1, WorkerFacts, ArmsFacts DEF ArmsStatistics
<1>5. /\ permits'.taken + counters.success + counters.failed + 0
           = permits.taken + counters'.success + counters'.failed + 0
      /\ permits'.waiting + permits'.backlog + permits'.taken + permits'.discarded
           = permits.waiting + permits.backlog + permits.taken + permits.discarded
      /\ counters'.active + 1 = counters.active + 0
      /\ counters.success <= counters'.success
      /\ counters'.success + 0 <= counters.success + 0
  BY <1>1, <1>4, ArmsFacts
<1>6. startup' = startup /\ permits' \in Permits
  BY <1>1, WorkerFacts
<1> QED
  BY <1>1, <1>2, <1>3, <1>4, <1>5, <1>6, BitFacts, GoesBalance

LEMMA WriteSucceedsStep ==
  ASSUME GeneratorAssumption, ArmsTyped, NEW t \in Threads, WriteSucceeds(t)
  PROVE  WorkerStep(t)
<1>1. /\ thread[t].at \in {"sending", "beating"} /\ Goes(t, "serving") /\ Others
      /\ UNCHANGED <<startup, permits>>
  BY DEF WriteSucceeds
<1>2. Bit(thread[t].at \in {"serving", "sending", "beating"}) = 1
  BY <1>1 DEF Bit
<1>3. "serving" \in Places /\ thread[t].at # "dialing"
  BY <1>1 DEF Places
<1>4. PICK b \in {0, 1} : b = Bit(thread[t].at = "sending")
  BY DEF Bit
<1>5. /\ counters' \in ArmsStatistics /\ counters'.success = counters.success + b
      /\ counters'.attempts = counters.attempts
      /\ counters'.connectErrors = counters.connectErrors
      /\ counters'.reconnects = counters.reconnects
      /\ counters'.active = counters.active /\ counters'.failed = counters.failed
  <2>1. CASE thread[t].at = "sending"
    <3>1. b = 1 /\ counters' = [counters EXCEPT !.success = @ + 1]
      BY <1>4, <2>1, PlaceFacts DEF WriteSucceeds
    <3> QED
      BY <3>1, WorkerFacts, ArmsFacts DEF ArmsStatistics
  <2>2. CASE thread[t].at # "sending"
    <3>1. b = 0 /\ counters' = counters
      BY <1>4, <2>2, PlaceFacts DEF WriteSucceeds
    <3> QED
      BY <3>1, WorkerFacts, ArmsFacts
  <2> QED
    BY <2>1, <2>2
<1>6. /\ permits'.taken + counters.success + counters.failed + b
           = permits.taken + counters'.success + counters'.failed + 0
      /\ permits'.waiting + permits'.backlog + permits'.taken + permits'.discarded
           = permits.waiting + permits.backlog + permits.taken + permits.discarded
      /\ counters'.active + 1 = counters.active + 1
      /\ counters.success <= counters'.success
      /\ counters'.success + 0 <= counters.success + b
  BY <1>1, <1>5, ArmsFacts
<1>7. startup' = startup /\ permits' \in Permits
  BY <1>1, WorkerFacts
<1> QED
  BY <1>1, <1>2, <1>3, <1>4, <1>5, <1>6, <1>7, BitFacts, GoesBalance

LEMMA WriteFailsStep ==
  ASSUME GeneratorAssumption, ArmsTyped, NEW t \in Threads, WriteFails(t)
  PROVE  WorkerStep(t)
<1>1. thread[t].at \in {"sending", "beating"} /\ Others /\ UNCHANGED <<startup, permits>>
  BY DEF WriteFails
<1>2. PICK at : at \in {"left", "waiting"} /\ Goes(t, at)
  BY DEF WriteFails
<1>3. at \in Places /\ at # "dialing" /\ thread[t].at # "dialing"
  BY <1>1, <1>2 DEF Places
<1>4. /\ Bit(thread[t].at \in {"serving", "sending", "beating"}) = 1
      /\ Bit(at \in {"serving", "sending", "beating"}) = 0 /\ Bit(at = "sending") = 0
  BY <1>1, <1>2 DEF Bit
<1>5. PICK b \in {0, 1} : /\ b = Bit(thread[t].at = "sending")
                         /\ b = IF thread[t].at = "sending" THEN 1 ELSE 0
  BY DEF Bit
<1>6. PICK a \in Int, f \in Nat : a = counters.active - 1 /\ f = counters.failed + b
  BY <1>5, ArmsFacts
<1>7. counters' = [counters EXCEPT !.active = a, !.failed = f]
  BY <1>5, <1>6 DEF WriteFails
<1>8. PICK c : c = [counters EXCEPT !.active = a]
  OBVIOUS
<1>9. /\ c \in ArmsStatistics /\ c.active = a /\ c.attempts = counters.attempts
      /\ c.connectErrors = counters.connectErrors /\ c.reconnects = counters.reconnects
      /\ c.success = counters.success
  BY <1>6, <1>8, WorkerFacts DEF ArmsStatistics
<1>10. counters' = [c EXCEPT !.failed = f]
  BY <1>7, <1>8
<1>11. /\ counters' \in ArmsStatistics /\ counters'.active = a /\ counters'.failed = f
       /\ counters'.attempts = counters.attempts
       /\ counters'.connectErrors = counters.connectErrors
       /\ counters'.reconnects = counters.reconnects /\ counters'.success = counters.success
  BY <1>6, <1>9, <1>10 DEF ArmsStatistics
<1>12. /\ permits'.taken + counters.success + counters.failed + b
            = permits.taken + counters'.success + counters'.failed + 0
       /\ permits'.waiting + permits'.backlog + permits'.taken + permits'.discarded
            = permits.waiting + permits.backlog + permits.taken + permits.discarded
       /\ counters'.active + 1 = counters.active + 0
       /\ counters.success <= counters'.success
       /\ counters'.success + 0 <= counters.success + b
  BY <1>1, <1>5, <1>6, <1>11, ArmsFacts
<1>13. startup' = startup /\ permits' \in Permits
  BY <1>1, WorkerFacts
<1> QED
  BY <1>1, <1>2, <1>3, <1>4, <1>5, <1>11, <1>12, <1>13, GoesBalance

LEMMA WorkerStepOf ==
  ASSUME GeneratorAssumption, ArmsTyped, NEW t \in Threads, runWorker(t) \/ Fortunate(t)
  PROVE  WorkerStep(t)
BY AttemptStep, DialFailsStep, waitForReconnectStep, TakePermitStep, StopServingStep,
   WriteFailsStep, DialSucceedsStep, WriteSucceedsStep, SendFreelyStep, HeartbeatStep
   DEF runWorker, Fortunate

-----------------------------------------------------------------------------
(* The types *)

LEMMA ArmsTypedInit ==
  ASSUME GeneratorAssumption, GeneratorInit
  PROVE  ArmsTyped
<1>1. load \in Loads /\ main = "starting" /\ MaxThreads \in Nat /\ TicksPerSecond \in Nat \ {0}
  BY DEF GeneratorInit, GeneratorAssumption
<1>2. PICK no, yes : no = FALSE /\ yes = TRUE
  OBVIOUS
<1>3. /\ ctx = [parent |-> no, run |-> no]
      /\ thread = [t \in 1..MaxThreads |-> [at |-> "idle", first |-> yes, had |-> no]]
  BY <1>2 DEF GeneratorInit
<1>4. ctx \in [parent: BOOLEAN, run: BOOLEAN]
  BY <1>2, <1>3
<1>5. thread \in [1..MaxThreads -> ThreadState]
  <2>1. PICK w : w = [at |-> "idle", first |-> yes, had |-> no]
    OBVIOUS
  <2>2. "idle" \in Places /\ yes \in BOOLEAN /\ no \in BOOLEAN
    BY <1>2 DEF Places
  <2>3. w \in ThreadState
    BY <2>1, <2>2 DEF ThreadState
  <2> QED
    BY <1>3, <2>1, <2>3
<1>6. startup \in Startups
  BY DEF GeneratorInit, Startups
<1>7. scheduler \in Schedulers /\ scheduler.ticks = 0
  <2>1. 0 \in 0..TicksPerSecond
    BY <1>1
  <2> QED
    BY <2>1 DEF GeneratorInit, Schedulers
<1>8. permits \in Permits
  BY DEF GeneratorInit, Permits
<1>9. counters \in ArmsStatistics
  BY DEF GeneratorInit, ArmsStatistics
<1>10. reporter \in [at: Rows, row: Nat]
  BY DEF GeneratorInit, Rows
<1>11. load.ticks \in Nat
  BY <1>1 DEF GeneratorAssumption
<1>12. main \in Phases
  BY <1>1 DEF Phases
<1> QED
  BY <1>1, <1>4, <1>5, <1>6, <1>7, <1>8, <1>9, <1>10, <1>11, <1>12 DEF ArmsTyped

LEMMA ArmsTypedStep ==
  ASSUME GeneratorAssumption, ArmsTyped, [GeneratorNext]_generatorVars
  PROVE  ArmsTyped'
<1>1. load' = load
  BY DEF GeneratorNext, generatorVars
<1>2. CASE Run \/ Interrupt \/ DurationEnds
  BY <1>1, <1>2, RunStepTyped
<1>3. CASE WriteRow \/ LastRow
  BY <1>1, <1>3, ReporterStepTyped
<1>4. CASE SchedulerTick \/ HandOut \/ SchedulerEnds
  <2>1. scheduler' \in Schedulers /\ scheduler'.ticks <= load.ticks /\ permits' \in Permits
    BY <1>4, SchedulerStepTyped
  <2>2. UNCHANGED <<main, ctx, thread, startup, counters, reporter>>
    BY <1>4 DEF SchedulerTick, HandOut, SchedulerEnds
  <2> QED
    BY <1>1, <2>1, <2>2 DEF ArmsTyped
<1>5. ASSUME NEW t \in Threads, runWorker(t) \/ Fortunate(t)
      PROVE  ArmsTyped'
  <2>1. WorkerStep(t)
    BY <1>5, WorkerStepOf
  <2>2. /\ thread' \in [1..MaxThreads -> ThreadState]
        /\ startup' \in Startups /\ permits' \in Permits /\ counters' \in ArmsStatistics
        /\ UNCHANGED <<main, ctx, scheduler, reporter>>
    BY <2>1 DEF WorkerStep, Moved, Others
  <2> QED
    BY <1>1, <2>2 DEF ArmsTyped
<1>6. CASE UNCHANGED generatorVars
  BY <1>6 DEF generatorVars, ArmsTyped
<1> QED
  BY <1>2, <1>3, <1>4, <1>5, <1>6 DEF GeneratorNext

LEMMA GeneratorTyped == ASSUME GeneratorAssumption PROVE GeneratorSpec => []ArmsTyped
<1>1. GeneratorInit => ArmsTyped
  BY ArmsTypedInit
<1>2. ArmsTyped /\ [GeneratorNext]_generatorVars => ArmsTyped'
  BY ArmsTypedStep
<1> QED
  BY <1>1, <1>2, PTL DEF GeneratorSpec

-----------------------------------------------------------------------------
(* The other invariants *)

LEMMA CountsAreNumbers ==
  ASSUME GeneratorAssumption, ArmsTyped
  PROVE  /\ Cardinality(Firsts) \in Nat /\ Cardinality(SendingThreads) \in Nat
         /\ Cardinality(OpenThreads) \in Nat /\ Cardinality(HadThreads) \in Nat
         /\ Cardinality(DialingThreads) \in Nat
         /\ Cardinality(SendingThreads) <= load.threads
<1>1. IsFiniteSet(Threads) /\ Cardinality(Threads) = load.threads
  BY LoadFacts
<1>2. /\ Firsts \subseteq Threads /\ SendingThreads \subseteq Threads
      /\ OpenThreads \subseteq Threads /\ HadThreads \subseteq Threads
      /\ DialingThreads \subseteq Threads
  BY DEF Firsts, SendingThreads, OpenThreads, HadThreads, DialingThreads
<1>3. \A W : W \subseteq Threads =>
         Cardinality(W) \in Nat /\ Cardinality(W) <= Cardinality(Threads)
  BY <1>1, FS_Subset, FS_CardinalityType
<1> QED
  BY <1>1, <1>2, <1>3

LEMMA WorkerStepInv ==
  ASSUME GeneratorAssumption, ArmsTyped, ArmsTyped', GeneratorInv, load' = load,
         NEW t \in Threads, WorkerStep(t)
  PROVE  GeneratorInv'
<1>1. Moved(t, thread'[t].at) /\ ArmsBalance(t) /\ UNCHANGED <<main, ctx, scheduler, reporter>>
  BY DEF WorkerStep, Others
<1>2. PICK f \in Nat, f1 \in Nat, fb \in {0, 1}, fb1 \in {0, 1} :
         /\ f = Cardinality(Firsts) /\ f1 = Cardinality(Firsts)'
         /\ fb = Bit(thread[t].first) /\ fb1 = Bit(thread'[t].first)
         /\ f1 + fb = f + fb1
  <2>1. Bit(thread[t].first) \in {0, 1} /\ Bit(thread'[t].first) \in {0, 1}
    BY DEF Bit
  <2> QED
    BY <1>1, <2>1, ArmsSetsMove
<1>3. PICK s \in Nat, s1 \in Nat, sb \in {0, 1}, sb1 \in {0, 1} :
         /\ s = Cardinality(SendingThreads) /\ s1 = Cardinality(SendingThreads)'
         /\ sb = Bit(thread[t].at = "sending") /\ sb1 = Bit(thread'[t].at = "sending")
         /\ s1 + sb = s + sb1
  <2>1. Bit(thread[t].at = "sending") \in {0, 1} /\ Bit(thread'[t].at = "sending") \in {0, 1}
    BY DEF Bit
  <2> QED
    BY <1>1, <2>1, ArmsSetsMove
<1>4. PICK o \in Nat, o1 \in Nat, ob \in {0, 1}, ob1 \in {0, 1} :
         /\ o = Cardinality(OpenThreads) /\ o1 = Cardinality(OpenThreads)'
         /\ ob = Bit(IsConnected(thread[t])) /\ ob1 = Bit(IsConnected(thread'[t]))
         /\ o1 + ob = o + ob1
  <2>1. Bit(IsConnected(thread[t])) \in {0, 1} /\ Bit(IsConnected(thread'[t])) \in {0, 1}
    BY DEF Bit
  <2> QED
    BY <1>1, <2>1, ArmsSetsMove
<1>5. PICK h \in Nat, h1 \in Nat, hb \in {0, 1}, hb1 \in {0, 1} :
         /\ h = Cardinality(HadThreads) /\ h1 = Cardinality(HadThreads)'
         /\ hb = Bit(thread[t].had) /\ hb1 = Bit(thread'[t].had)
         /\ h1 + hb = h + hb1
  <2>1. Bit(thread[t].had) \in {0, 1} /\ Bit(thread'[t].had) \in {0, 1}
    BY DEF Bit
  <2> QED
    BY <1>1, <2>1, ArmsSetsMove
<1>6. PICK d \in Nat, d1 \in Nat, db \in {0, 1}, db1 \in {0, 1} :
         /\ d = Cardinality(DialingThreads) /\ d1 = Cardinality(DialingThreads)'
         /\ db = Bit(thread[t].at = "dialing") /\ db1 = Bit(thread'[t].at = "dialing")
         /\ d1 + db = d + db1
  <2>1. Bit(thread[t].at = "dialing") \in {0, 1} /\ Bit(thread'[t].at = "dialing") \in {0, 1}
    BY DEF Bit
  <2> QED
    BY <1>1, <2>1, ArmsSetsMove
<1>7. PICK cs \in Nat, cs1 \in Nat, cf \in Nat, cf1 \in Nat, pt \in Nat, pt1 \in Nat :
         /\ cs = counters.success /\ cs1 = counters'.success
         /\ cf = counters.failed /\ cf1 = counters'.failed
         /\ pt = permits.taken /\ pt1 = permits'.taken
  <2>1. /\ counters.success \in Nat /\ counters.failed \in Nat /\ permits.taken \in Nat
        /\ (counters.success \in Nat /\ counters.failed \in Nat /\ permits.taken \in Nat)'
    BY ArmsFacts DEF ArmsTyped, ArmsStatistics, Permits
  <2> QED
    BY <2>1
<1>8. FirstsAnswer'
  <2>1. PICK u \in Nat, u1 \in Nat, a \in Nat, a1 \in Nat, n \in Nat :
           /\ u = startup.unread /\ u1 = startup'.unread /\ a = startup.heard
           /\ a1 = startup'.heard /\ n = load.threads
    <3>1. startup.unread \in Nat /\ startup.heard \in Nat /\ load.threads \in Nat
      BY ArmsFacts, LoadFacts
    <3>2. startup'.unread \in Nat /\ startup'.heard \in Nat
      BY DEF ArmsTyped, Startups
    <3> QED
      BY <3>1, <3>2
  <2>2. u + a + f = n /\ u1 + a1 + fb1 = u + a + fb
    BY <1>1, <1>2, <2>1 DEF GeneratorInv, FirstsAnswer, ArmsBalance
  <2>3. u1 + a1 + f1 = n
    <3>1. /\ f1 + fb = f + fb1 /\ f \in Nat /\ f1 \in Nat /\ fb \in {0, 1} /\ fb1 \in {0, 1}
          /\ u \in Nat /\ u1 \in Nat /\ a \in Nat /\ a1 \in Nat /\ n \in Nat
      BY <1>2, <2>1
    <3> QED
      BY <2>2, <3>1
  <2> QED
    BY <1>2, <2>1, <2>3 DEF FirstsAnswer
<1>9. PermitsInv'
  <2>1. pt = cs + cf + s /\ pt1 + cs + cf + sb = pt + cs1 + cf1 + sb1
    BY <1>1, <1>3, <1>7 DEF GeneratorInv, PermitsInv, ArmsBalance
  <2>2. pt1 = cs1 + cf1 + s1
    <3>1. /\ s1 + sb = s + sb1 /\ s \in Nat /\ s1 \in Nat /\ sb \in {0, 1} /\ sb1 \in {0, 1}
          /\ cs \in Nat /\ cs1 \in Nat /\ cf \in Nat /\ cf1 \in Nat /\ pt \in Nat /\ pt1 \in Nat
      BY <1>3, <1>7
    <3> QED
      BY <2>1, <3>1
  <2>3. load.TargetTPS > 0 => Given' = Given
    BY <1>1 DEF ArmsBalance, Given
  <2>4. load.TargetTPS > 0 => scheduler'.due = TicksPerSecond * Given' + scheduler'.carry
    BY <1>1, <2>3 DEF GeneratorInv, PermitsInv
  <2> QED
    BY <1>3, <1>7, <2>2, <2>4 DEF PermitsInv
<1>10. ConnectionsInv'
  <2>1. PICK a \in Int, a1 \in Int, n \in Nat, n1 \in Nat, e \in Nat, e1 \in Nat,
             r \in Nat, r1 \in Nat :
           /\ a = counters.active /\ a1 = counters'.active
           /\ n = counters.attempts /\ n1 = counters'.attempts
           /\ e = counters.connectErrors /\ e1 = counters'.connectErrors
           /\ r = counters.reconnects /\ r1 = counters'.reconnects
    <3>1. /\ counters.active \in Int /\ counters.attempts \in Nat
          /\ counters.connectErrors \in Nat /\ counters.reconnects \in Nat
          /\ counters'.active \in Int /\ counters'.attempts \in Nat
          /\ counters'.connectErrors \in Nat /\ counters'.reconnects \in Nat
      BY ArmsFacts DEF ArmsTyped, ArmsStatistics
    <3> QED
      BY <3>1
  <2>2. a = o /\ a1 + ob = a + ob1
    BY <1>1, <1>4, <2>1 DEF GeneratorInv, ConnectionsInv, ArmsBalance
  <2>3. n = e + r + h + d /\ n1 + e + r + hb + db = n + e1 + r1 + hb1 + db1
    BY <1>1, <1>5, <1>6, <2>1 DEF GeneratorInv, ConnectionsInv, ArmsBalance
  <2>4. a1 = o1
    BY <1>4, <2>2
  <2>5. n1 = e1 + r1 + h1 + d1
    <3>1. /\ h1 + hb = h + hb1 /\ d1 + db = d + db1
          /\ h \in Nat /\ h1 \in Nat /\ d \in Nat /\ d1 \in Nat /\ n \in Nat /\ n1 \in Nat
          /\ e \in Nat /\ e1 \in Nat /\ r \in Nat /\ r1 \in Nat
          /\ hb \in {0, 1} /\ hb1 \in {0, 1} /\ db \in {0, 1} /\ db1 \in {0, 1}
      BY <1>5, <1>6, <2>1
    <3> QED
      BY <2>3, <3>1
  <2> QED
    BY <1>4, <1>5, <1>6, <2>1, <2>4, <2>5 DEF ConnectionsInv
<1>11. RowInv'
  <2>1. PICK w \in Nat, n \in Nat : w = reporter.row /\ n = load.threads
    <3>1. reporter.row \in Nat /\ load.threads \in Nat
      BY ArmsFacts, LoadFacts
    <3> QED
      BY <3>1
  <2>2. w <= cs /\ cs <= cs1
    BY <1>1, <1>7, <2>1 DEF GeneratorInv, RowInv, ArmsBalance
  <2>3. w <= cs1
    BY <1>7, <2>2
  <2>4. ASSUME reporter'.at = "done"
        PROVE  ctx'.run /\ cs1 + s1 <= w + n
    <3>1. reporter.at = "done" /\ reporter' = reporter /\ ctx' = ctx
      BY <1>1, <2>4
    <3>2. ctx.run /\ cs + s <= w + n
      BY <1>3, <1>7, <2>1, <3>1 DEF GeneratorInv, RowInv
    <3>3. cs1 + sb1 <= cs + sb
      BY <1>1, <1>3, <1>7, <3>2 DEF ArmsBalance
    <3>4. cs1 + s1 <= w + n
      BY <1>3, <1>7, <2>1, <3>2, <3>3
    <3> QED
      BY <3>1, <3>2, <3>4
  <2> QED
    BY <1>1, <1>3, <1>7, <2>1, <2>3, <2>4 DEF RowInv
<1> QED
  BY <1>8, <1>9, <1>10, <1>11 DEF GeneratorInv

(* A step that leaves the workers where they are.                          *)
LEMMA SetsStand ==
  ASSUME load' = load, thread' = thread
  PROVE  /\ Firsts' = Firsts /\ SendingThreads' = SendingThreads /\ OpenThreads' = OpenThreads
         /\ HadThreads' = HadThreads /\ DialingThreads' = DialingThreads
<1>1. Threads' = Threads
  BY DEF Threads
<1> QED
  BY <1>1 DEF Firsts, SendingThreads, OpenThreads, HadThreads, DialingThreads, IsConnected

LEMMA GivenFacts ==
  ASSUME GeneratorAssumption, ArmsTyped
  PROVE  Given \in Nat
BY ArmsFacts DEF Given

LEMMA ConnectionsStand ==
  ASSUME ConnectionsInv, load' = load, thread' = thread, counters' = counters
  PROVE  ConnectionsInv'
BY SetsStand DEF ConnectionsInv

LEMMA FirstsStand ==
  ASSUME FirstsAnswer, load' = load, thread' = thread, startup' = startup
  PROVE  FirstsAnswer'
BY SetsStand DEF FirstsAnswer

LEMMA PermitsStand ==
  ASSUME PermitsInv, load' = load, thread' = thread, counters' = counters, permits' = permits,
         scheduler'.due = scheduler.due, scheduler'.carry = scheduler.carry,
         scheduler'.count = scheduler.count
  PROVE  PermitsInv'
<1>1. Given' = Given
  BY DEF Given
<1> QED
  BY <1>1, SetsStand DEF PermitsInv

(* The results wait for the row, and a run that is over stays over.        *)
LEMMA RowStands ==
  ASSUME GeneratorAssumption, ArmsTyped, RowInv, load' = load, thread' = thread,
         counters' = counters,
         reporter' = reporter \/ (reporter'.at # "done" /\ reporter'.row = reporter.row),
         ctx.run => ctx'.run
  PROVE  RowInv'
BY SetsStand DEF RowInv

LEMMA RunStepInv ==
  ASSUME GeneratorAssumption, ArmsTyped, GeneratorInv, load' = load, Run \/ Interrupt \/ DurationEnds
  PROVE  GeneratorInv'
<1>1. /\ UNCHANGED <<thread, permits, counters>>
      /\ FirstsAnswer /\ PermitsInv /\ ConnectionsInv /\ RowInv
  BY DEF GeneratorInv, Run, HearStartup, StartOrGiveUp, StopStarting, Finish, Interrupt, DurationEnds
<1>2. ConnectionsInv'
  BY <1>1, ConnectionsStand
<1>3. FirstsAnswer'
  <2>1. CASE startup' = startup
    BY <1>1, <2>1, FirstsStand
  <2>2. CASE HearStartup
    <3>1. startup.unread > 0 /\ startup' = [startup EXCEPT !.unread = @ - 1, !.heard = @ + 1]
      BY <2>2 DEF HearStartup
    <3>2. PICK u \in Nat, h \in Nat, n \in Nat, f \in Nat :
             /\ u = startup.unread /\ h = startup.heard /\ n = load.threads
             /\ f = Cardinality(Firsts)
      <4>1. /\ startup.unread \in Nat /\ startup.heard \in Nat /\ load.threads \in Nat
            /\ Cardinality(Firsts) \in Nat
        BY ArmsFacts, LoadFacts, CountsAreNumbers
      <4> QED
        BY <4>1
    <3>3. PICK s : s = [startup EXCEPT !.unread = u - 1]
      OBVIOUS
    <3>4. startup' = [s EXCEPT !.heard = h + 1]
      BY <3>1, <3>2, <3>3
    <3>5. s.unread = u - 1 /\ s \in [unread: Int, heard: Nat, connected: Nat]
      BY <3>2, <3>3 DEF ArmsTyped, Startups
    <3>6. startup'.unread = u - 1 /\ startup'.heard = h + 1
      BY <3>4, <3>5
    <3>7. u + h + f = n
      BY <1>1, <3>2 DEF FirstsAnswer
    <3>8. (u - 1) + (h + 1) + f = n
      BY <3>2, <3>7
    <3>9. Cardinality(Firsts)' = f
      BY <1>1, <3>2, SetsStand
    <3> QED
      BY <3>2, <3>6, <3>8, <3>9 DEF FirstsAnswer
  <2> QED
    BY <2>1, <2>2 DEF Run, StartOrGiveUp, StopStarting, Finish, Interrupt, DurationEnds
<1>4. /\ scheduler'.due = scheduler.due /\ scheduler'.carry = scheduler.carry
      /\ scheduler'.count = scheduler.count
  <2>1. \/ scheduler' = scheduler
        \/ \E at : scheduler' = [scheduler EXCEPT !.at = at]
    BY DEF Run, HearStartup, StartOrGiveUp, StopStarting, Finish, Interrupt, DurationEnds
  <2> QED
    BY <2>1 DEF ArmsTyped, Schedulers
<1>5. PermitsInv'
  BY <1>1, <1>4, PermitsStand
<1>6. reporter' = reporter \/ (reporter'.at # "done" /\ reporter'.row = reporter.row)
  <2>1. reporter' = reporter \/ reporter' = [reporter EXCEPT !.at = "running"]
    BY DEF Run, HearStartup, StartOrGiveUp, StopStarting, Finish, Interrupt, DurationEnds
  <2> QED
    BY <2>1 DEF ArmsTyped
<1>7. ctx.run => ctx'.run
  <2>1. PICK yes : yes = TRUE
    OBVIOUS
  <2>2. \/ ctx' = ctx \/ ctx' = [ctx EXCEPT !.run = yes]
        \/ ctx' = [parent |-> yes, run |-> yes]
    BY <2>1 DEF Run, HearStartup, StartOrGiveUp, StopStarting, Finish, Interrupt, DurationEnds
  <2>3. ctx' = ctx \/ ctx'.run = yes
    BY <2>2 DEF ArmsTyped
  <2> QED
    BY <2>1, <2>3
<1>8. RowInv'
  BY <1>1, <1>6, <1>7, RowStands
<1> QED
  BY <1>2, <1>3, <1>5, <1>8 DEF GeneratorInv

(* The permits of a tick are what is due and the fraction that was left,   *)
(* without the fraction that is left now.                                  *)
LEMMA SchedulerStepInv ==
  ASSUME GeneratorAssumption, ArmsTyped, GeneratorInv, load' = load,
         SchedulerTick \/ HandOut \/ SchedulerEnds
  PROVE  GeneratorInv'
<1>1. /\ UNCHANGED <<main, ctx, thread, startup, counters, reporter>>
      /\ FirstsAnswer /\ PermitsInv /\ ConnectionsInv /\ RowInv
  BY DEF GeneratorInv, SchedulerTick, HandOut, SchedulerEnds
<1>2. FirstsAnswer' /\ ConnectionsInv' /\ RowInv'
  BY <1>1, FirstsStand, ConnectionsStand, RowStands
<1>3. ASSUME permits'.taken = permits.taken,
             load.TargetTPS > 0 => scheduler'.due = TicksPerSecond * Given' + scheduler'.carry
      PROVE  PermitsInv'
  BY <1>1, <1>3, SetsStand DEF PermitsInv
<1>4. CASE SchedulerTick
  <2>1. PICK elapsed \in Nat, target \in Nat, carry \in 0..TicksPerSecond, count \in Nat :
           Ticked(elapsed, target, carry, count)
    BY <1>4, TickFacts
  <2>2. permits' = permits
    BY <1>4 DEF SchedulerTick
  <2>3. PICK k \in Nat, g \in Nat, d \in Nat, c \in Nat, c1 \in Nat :
           /\ k = TicksPerSecond /\ g = Given /\ d = scheduler.due
           /\ c = scheduler.carry /\ c1 = carry
    BY ArmsFacts, GivenFacts DEF GeneratorAssumption
  <2>4. /\ scheduler.count = 0 /\ target + c = k * count + c1
        /\ scheduler'.due = d + target /\ scheduler'.carry = c1 /\ scheduler'.count = count
    BY <2>1, <2>3 DEF Ticked
  <2>5. Given' = g + count
    <3>1. PICK m \in Nat : m = permits.waiting + permits.backlog + permits.taken + permits.discarded
      BY ArmsFacts
    <3>2. g = m + 0 /\ Given' = m + count
      BY <2>2, <2>3, <2>4, <3>1 DEF Given
    <3> QED
      BY <3>1, <3>2
  <2>6. load.TargetTPS > 0 => d = k * g + c
    BY <1>1, <2>3 DEF PermitsInv
  <2>7. k * (g + count) = k * g + k * count /\ k * g \in Nat /\ k * count \in Nat
    OBVIOUS
  <2>8. d = k * g + c => d + target = k * (g + count) + c1
    <3>1. PICK x \in Nat, y \in Nat : x = k * g /\ y = k * count /\ x + y = k * (g + count)
      BY <2>7
    <3>2. target + c = y + c1
      BY <2>4, <3>1
    <3>3. d = x + c => d + target = (x + y) + c1
      BY <2>3, <3>2
    <3> QED
      BY <3>1, <3>3
  <2> QED
    BY <1>2, <1>3, <2>2, <2>3, <2>4, <2>5, <2>6, <2>8 DEF GeneratorInv
<1>5. CASE HandOut
  <2>1. scheduler' = [scheduler EXCEPT !.count = @ - 1] /\ scheduler.count > 0
    BY <1>5 DEF HandOut
  <2>2. /\ scheduler'.count = scheduler.count - 1 /\ scheduler'.due = scheduler.due
        /\ scheduler'.carry = scheduler.carry
    BY <2>1 DEF ArmsTyped, Schedulers
  <2>3. \/ permits' = [permits EXCEPT !.waiting = @ + 1]
        \/ permits' = [permits EXCEPT !.backlog = @ + 1]
    BY <1>5 DEF HandOut
  <2>4. /\ permits'.taken = permits.taken /\ permits'.discarded = permits.discarded
        /\ \/ permits'.waiting = permits.waiting + 1 /\ permits'.backlog = permits.backlog
           \/ permits'.waiting = permits.waiting /\ permits'.backlog = permits.backlog + 1
    BY <2>3 DEF ArmsTyped, Permits
  <2>5. Given' = Given
    BY <2>2, <2>4, ArmsFacts DEF Given
  <2>6. load.TargetTPS > 0 => scheduler'.due = TicksPerSecond * Given' + scheduler'.carry
    BY <1>1, <2>2, <2>5 DEF PermitsInv
  <2> QED
    BY <1>2, <1>3, <2>4, <2>6 DEF GeneratorInv
<1>6. CASE SchedulerEnds
  <2>1. scheduler' = [scheduler EXCEPT !.at = "off"] /\ permits' = permits
    BY <1>6 DEF SchedulerEnds
  <2>2. /\ scheduler'.count = scheduler.count /\ scheduler'.due = scheduler.due
        /\ scheduler'.carry = scheduler.carry
    BY <2>1 DEF ArmsTyped, Schedulers
  <2> QED
    BY <1>1, <1>2, <2>1, <2>2, PermitsStand DEF GeneratorInv
<1> QED
  BY <1>4, <1>5, <1>6

(* The last row has every success that was counted, and each worker may be *)
(* sending one transaction more.                                           *)
LEMMA ReporterStepInv ==
  ASSUME GeneratorAssumption, ArmsTyped, GeneratorInv, load' = load, WriteRow \/ LastRow
  PROVE  GeneratorInv'
<1>1. /\ UNCHANGED <<main, ctx, thread, startup, scheduler, permits, counters>>
      /\ FirstsAnswer /\ PermitsInv /\ ConnectionsInv /\ RowInv
  BY DEF GeneratorInv, WriteRow, LastRow
<1>2. FirstsAnswer' /\ ConnectionsInv' /\ PermitsInv'
  BY <1>1, FirstsStand, ConnectionsStand, PermitsStand
<1>3. PICK c \in Nat, s \in Nat, n \in Nat, w \in Nat :
         /\ c = counters.success /\ s = Cardinality(SendingThreads) /\ n = load.threads
         /\ w = reporter.row /\ s <= n
  <2>1. /\ counters.success \in Nat /\ Cardinality(SendingThreads) \in Nat
        /\ load.threads \in Nat /\ reporter.row \in Nat
    BY ArmsFacts, CountsAreNumbers, LoadFacts
  <2>2. Cardinality(SendingThreads) <= load.threads
    BY CountsAreNumbers
  <2> QED
    BY <2>1, <2>2
<1>4. counters'.success = c /\ Cardinality(SendingThreads)' = s /\ load'.threads = n
  BY <1>1, <1>3, SetsStand
<1>5. CASE reporter' = [reporter EXCEPT !.row = counters.success] /\ WriteRow
  <2>1. reporter'.row = c /\ reporter'.at = reporter.at /\ reporter.at = "running"
    BY <1>3, <1>5 DEF WriteRow, ArmsTyped
  <2> QED
    BY <1>2, <1>3, <1>4, <2>1 DEF GeneratorInv, RowInv
<1>6. CASE reporter' = [reporter EXCEPT !.at = "failed"]
  <2>1. reporter'.at # "done" /\ reporter'.row = reporter.row
    BY <1>6 DEF ArmsTyped
  <2> QED
    BY <1>1, <1>2, <2>1, RowStands DEF GeneratorInv
<1>7. CASE LastRow /\ reporter' = [at |-> "done", row |-> counters.success]
  <2>1. reporter'.row = c /\ ctx'.run
    BY <1>1, <1>3, <1>7 DEF LastRow
  <2>2. c <= c /\ c + s <= c + n
    BY <1>3
  <2> QED
    BY <1>2, <1>4, <2>1, <2>2 DEF GeneratorInv, RowInv
<1> QED
  BY <1>5, <1>6, <1>7 DEF WriteRow, LastRow

LEMMA GeneratorInvInit ==
  ASSUME GeneratorAssumption, GeneratorInit
  PROVE  GeneratorInv
<1>1. ArmsTyped
  BY ArmsTypedInit
<1>2. PICK no, yes : no = FALSE /\ yes = TRUE
  OBVIOUS
<1>3. thread = [t \in 1..MaxThreads |-> [at |-> "idle", first |-> yes, had |-> no]]
  BY <1>2 DEF GeneratorInit
<1>4. \A t \in Threads : thread[t].at = "idle" /\ thread[t].first /\ ~thread[t].had
  <2>1. \A t \in Threads : t \in 1..MaxThreads
    BY <1>1, LoadFacts
  <2>2. \A t \in Threads : thread[t] = [at |-> "idle", first |-> yes, had |-> no]
    BY <1>3, <2>1
  <2> QED
    BY <1>2, <2>2
<1>5. /\ Firsts = Threads /\ SendingThreads = {} /\ OpenThreads = {}
      /\ HadThreads = {} /\ DialingThreads = {}
  BY <1>4 DEF Firsts, SendingThreads, OpenThreads, HadThreads, DialingThreads, IsConnected
<1>6. /\ Cardinality(Firsts) = load.threads /\ Cardinality(SendingThreads) = 0
      /\ Cardinality(OpenThreads) = 0 /\ Cardinality(HadThreads) = 0
      /\ Cardinality(DialingThreads) = 0 /\ load.threads \in Nat
  BY <1>1, <1>5, LoadFacts, FS_EmptySet
<1>7. FirstsAnswer
  <2>1. startup.unread = 0 /\ startup.heard = 0
    BY DEF GeneratorInit
  <2> QED
    BY <1>6, <2>1 DEF FirstsAnswer
<1>8. PermitsInv
  <2>1. /\ permits.waiting = 0 /\ permits.backlog = 0 /\ permits.taken = 0
        /\ permits.discarded = 0 /\ counters.success = 0 /\ counters.failed = 0
        /\ scheduler.due = 0 /\ scheduler.carry = 0 /\ scheduler.count = 0
    BY DEF GeneratorInit
  <2>2. Given = 0
    BY <2>1 DEF Given
  <2>3. TicksPerSecond * 0 + 0 = 0
    BY DEF GeneratorAssumption
  <2> QED
    BY <1>6, <2>1, <2>2, <2>3 DEF PermitsInv
<1>9. ConnectionsInv
  <2>1. /\ counters.active = 0 /\ counters.attempts = 0 /\ counters.connectErrors = 0
        /\ counters.reconnects = 0
    BY DEF GeneratorInit
  <2> QED
    BY <1>6, <2>1 DEF ConnectionsInv
<1>10. RowInv
  <2>1. reporter.row = 0 /\ reporter.at = "off" /\ counters.success = 0
    BY DEF GeneratorInit
  <2> QED
    BY <2>1 DEF RowInv
<1> QED
  BY <1>7, <1>8, <1>9, <1>10 DEF GeneratorInv

LEMMA GeneratorInvStep ==
  ASSUME GeneratorAssumption, ArmsTyped, ArmsTyped', GeneratorInv, [GeneratorNext]_generatorVars
  PROVE  GeneratorInv'
<1>1. load' = load
  BY DEF GeneratorNext, generatorVars
<1>2. CASE Run \/ Interrupt \/ DurationEnds
  BY <1>1, <1>2, RunStepInv
<1>3. CASE WriteRow \/ LastRow
  BY <1>1, <1>3, ReporterStepInv
<1>4. CASE SchedulerTick \/ HandOut \/ SchedulerEnds
  BY <1>1, <1>4, SchedulerStepInv
<1>5. ASSUME NEW t \in Threads, runWorker(t) \/ Fortunate(t)
      PROVE  GeneratorInv'
  BY <1>1, <1>5, WorkerStepOf, WorkerStepInv
<1>6. CASE UNCHANGED generatorVars
  <2>1. /\ UNCHANGED <<load, main, ctx, thread, startup, scheduler, permits, counters, reporter>>
        /\ FirstsAnswer /\ PermitsInv /\ ConnectionsInv /\ RowInv
    BY <1>6 DEF generatorVars, GeneratorInv
  <2> QED
    BY <2>1, FirstsStand, ConnectionsStand, PermitsStand, RowStands DEF GeneratorInv
<1> QED
  BY <1>2, <1>3, <1>4, <1>5, <1>6 DEF GeneratorNext

-----------------------------------------------------------------------------
(* The theorems *)

LEMMA GeneratorInductive == ASSUME GeneratorAssumption PROVE GeneratorSpec => []GeneratorInv
<1>1. GeneratorInit => GeneratorInv
  BY GeneratorInvInit
<1>2. ArmsTyped /\ ArmsTyped' /\ GeneratorInv /\ [GeneratorNext]_generatorVars => GeneratorInv'
  BY GeneratorInvStep
<1> QED
  BY <1>1, <1>2, GeneratorTyped, PTL DEF GeneratorSpec

(* The variables have their types: main hears no more first attempts than  *)
(* there are workers, because every worker reports one only (runWorker),   *)
(* and no row says more than the counters (runReporter).                   *)
THEOREM GeneratorTypeCorrect == ASSUME GeneratorAssumption PROVE GeneratorSpec => []GeneratorTypeOK
<1>1. ArmsTyped /\ GeneratorInv => GeneratorTypeOK
  <2> SUFFICES ASSUME ArmsTyped, GeneratorInv
               PROVE  GeneratorTypeOK
    OBVIOUS
  <2>1. load \in Loads /\ main \in {"starting", "running", "stopping", "ended", "failed"}
    BY DEF ArmsTyped, Phases
  <2>2. ctx \in [parent: BOOLEAN, run: BOOLEAN] /\ startup \in [unread: Nat, heard: Nat, connected: Nat]
    BY DEF ArmsTyped, Startups
  <2>3. \A t \in Threads : thread[t] \in
           [at: {"idle", "dialing", "serving", "sending", "beating", "waiting", "left"},
            first: BOOLEAN, had: BOOLEAN]
    BY ThreadFacts DEF ThreadState, Places
  <2>4. startup.heard <= load.threads
    <3>1. PICK u \in Nat, h \in Nat, n \in Nat, f \in Nat :
             /\ u = startup.unread /\ h = startup.heard /\ n = load.threads
             /\ f = Cardinality(Firsts)
      <4>1. /\ startup.unread \in Nat /\ startup.heard \in Nat /\ load.threads \in Nat
            /\ Cardinality(Firsts) \in Nat
        BY ArmsFacts, LoadFacts, CountsAreNumbers
      <4> QED
        BY <4>1
    <3>2. u + h + f = n
      BY <3>1 DEF GeneratorInv, FirstsAnswer
    <3> QED
      BY <3>1, <3>2
  <2>5. scheduler.ticks \in 0..load.ticks /\ scheduler.carry \in 0..TicksPerSecond
    <3>1. scheduler.ticks <= load.ticks
      BY DEF ArmsTyped
    <3> QED
      BY <3>1, ArmsFacts, LoadFacts
  <2>6. reporter.at \in {"off", "running", "done", "failed"} /\ reporter.row <= counters.success
    BY ArmsFacts DEF Rows, GeneratorInv, RowInv
  <2> QED
    BY <2>1, <2>2, <2>3, <2>4, <2>5, <2>6 DEF GeneratorTypeOK
<1> QED
  BY <1>1, GeneratorTyped, GeneratorInductive, PTL

(* A number that is whole permits and a fraction of one.                   *)
LEMMA WholePermits ==
  ASSUME NEW k \in Nat \ {0}, NEW g \in Nat, NEW c \in 0..k - 1
  PROVE  (k * g + c) \div k = g
<1>1. PICK d \in Nat : d = k * g + c
  OBVIOUS
<1>2. PICK q \in Nat, m \in 0..k - 1 : q = d \div k /\ d = k * q + m
  <2>1. d \div k \in Nat /\ d % k \in 0..k - 1 /\ d = k * (d \div k) + (d % k)
    BY <1>1
  <2> QED
    BY <2>1
<1>3. \A a \in Nat, b \in Nat : a < b => k * a + k <= k * b
  <2> SUFFICES ASSUME NEW a \in Nat, NEW b \in Nat, a < b
               PROVE  k * a + k <= k * b
    OBVIOUS
  <2>1. PICK e \in Nat : b = (a + 1) + e
    <3>1. b - (a + 1) \in Nat /\ b = (a + 1) + (b - (a + 1))
      OBVIOUS
    <3> QED
      BY <3>1
  <2>2. k * ((a + 1) + e) = k * a + k + k * e /\ k * e \in Nat /\ k * a \in Nat
    OBVIOUS
  <2> QED
    BY <2>1, <2>2
<1>4. PICK x \in Nat, y \in Nat : x = k * g /\ y = k * q
  OBVIOUS
<1>5. d = x + c /\ d = y + m
  BY <1>1, <1>2, <1>4
<1>6. ~(g < q)
  <2>1. g < q => x + k <= y
    BY <1>3, <1>4
  <2> QED
    BY <1>5, <2>1
<1>7. ~(q < g)
  <2>1. q < g => y + k <= x
    BY <1>3, <1>4
  <2> QED
    BY <1>5, <2>1
<1> QED
  BY <1>1, <1>2, <1>6, <1>7

(* The whole permits of a number, when its rest is a whole one too.        *)
LEMMA ShortPermits ==
  ASSUME NEW k \in Nat \ {0}, NEW g \in Nat
  PROVE  (k * g + k) \div k = g + 1 /\ (k * g + k) % k = 0
<1>1. PICK h \in Nat : h = g + 1
  OBVIOUS
<1>2. k * h + 0 = k * g + k
  <2>1. k * (g + 1) = k * g + k
    OBVIOUS
  <2> QED
    BY <1>1, <2>1
<1>3. (k * h + 0) \div k = h
  <2>1. 0 \in 0..k - 1
    OBVIOUS
  <2> QED
    BY <2>1, WholePermits
<1>4. PICK d \in Nat : d = k * g + k
  OBVIOUS
<1>5. d \div k = h /\ d = k * h
  BY <1>2, <1>3, <1>4
<1>6. d % k \in 0..k - 1 /\ d = k * (d \div k) + (d % k)
  BY <1>4
<1>7. d % k = 0
  BY <1>5, <1>6
<1> QED
  BY <1>1, <1>4, <1>5, <1>7

(* No permit is lost or made up, at any rate and whatever the fractions    *)
(* that the scheduler carries from tick to tick: the rounding of their sum *)
(* never adds up, and holds back one permit only while what is due is a    *)
(* whole number; and each that was given waits, was lost to a full         *)
(* channel, was thrown away at the end, or is a transaction that is        *)
(* counted once (permitsForTick, runScheduler, serveConnection).           *)
THEOREM PermitsAreKept == ASSUME GeneratorAssumption PROVE GeneratorSpec => []PermitsAreConserved
<1>1. ArmsTyped /\ GeneratorInv => PermitsAreConserved
  <2> SUFFICES ASSUME ArmsTyped, GeneratorInv
               PROVE  PermitsAreConserved
    OBVIOUS
  <2>1. permits.taken = counters.success + counters.failed + Sending
    BY DEF GeneratorInv, PermitsInv, Sending, SendingThreads
  <2>2. ASSUME load.TargetTPS > 0
        PROVE  \/ Given = scheduler.due \div TicksPerSecond
               \/ Given + 1 = scheduler.due \div TicksPerSecond /\ scheduler.due % TicksPerSecond = 0
    <3>1. scheduler.due = TicksPerSecond * Given + scheduler.carry
      BY <2>2 DEF GeneratorInv, PermitsInv
    <3>2. /\ TicksPerSecond \in Nat \ {0} /\ Given \in Nat
          /\ scheduler.carry \in 0..TicksPerSecond
      BY LoadFacts, ArmsFacts, GivenFacts
    <3>3. CASE scheduler.carry \in 0..TicksPerSecond - 1
      BY <3>1, <3>2, <3>3, WholePermits
    <3>4. CASE scheduler.carry = TicksPerSecond
      BY <3>1, <3>2, <3>4, ShortPermits
    <3>5. scheduler.carry \in 0..TicksPerSecond - 1 \/ scheduler.carry = TicksPerSecond
      BY <3>2
    <3> QED
      BY <3>3, <3>4, <3>5
  <2> QED
    BY <2>1, <2>2 DEF PermitsAreConserved, Given
<1> QED
  BY <1>1, GeneratorTyped, GeneratorInductive, PTL

(* The connections that are open are those that workers have, and every    *)
(* attempt is an error, the first connection of a worker, a reconnect or   *)
(* under way (runWorker, serveConnection).                                 *)
THEOREM ConnectionsAreCounted == ASSUME GeneratorAssumption PROVE GeneratorSpec => []ConnectionsAddUp
<1>1. GeneratorInv => ConnectionsAddUp
  BY DEF GeneratorInv, ConnectionsInv, ConnectionsAddUp, OpenThreads, IsConnected, HadThreads, DialingThreads
<1> QED
  BY <1>1, GeneratorInductive, PTL

(* The last row misses what the workers were sending when it was written,  *)
(* at most a transaction each, although nobody waits for them before it:   *)
(* when the run is over none begins another (runReporter, serveConnection).*)
THEOREM LastRowMissesFew == ASSUME GeneratorAssumption PROVE GeneratorSpec => []LastRowMissesAtMostOneEach
<1>1. ArmsTyped /\ GeneratorInv => LastRowMissesAtMostOneEach
  <2> SUFFICES ASSUME ArmsTyped, GeneratorInv, reporter.at = "done"
               PROVE  counters.success <= reporter.row + load.threads
    BY DEF LastRowMissesAtMostOneEach
  <2>1. counters.success + Cardinality(SendingThreads) <= reporter.row + load.threads
    BY DEF GeneratorInv, RowInv
  <2>2. /\ counters.success \in Nat /\ Cardinality(SendingThreads) \in Nat
        /\ reporter.row \in Nat /\ load.threads \in Nat
    BY ArmsFacts, CountsAreNumbers, LoadFacts
  <2> QED
    BY <2>1, <2>2
<1> QED
  BY <1>1, GeneratorTyped, GeneratorInductive, PTL
==============================================================================
