----------------------------- MODULE BrowserPool -----------------------------
(***************************************************************************)
(* The pool of browser workers of a run (browser.Pool): calls of Run that  *)
(* wait for a slot, talk to the worker in it until their session ends, and *)
(* replace a worker of one session that failed them; and the Close of the  *)
(* pool, which walks the workers while calls may still be running.         *)
(***************************************************************************)
EXTENDS BrowserWorker, FiniteSets

CONSTANTS
    PerWorker       \* sessions a worker takes at a time

ASSUME PerWorkerAssumption == PerWorker \in Nat \ {0}
ASSUME JobsAssumption == IsFiniteSet(Jobs)

VARIABLES
    avail,      \* avail[s]: how often slot s is in the channel
    clients,    \* clients[s]: the generation of the worker in slot s, 0 if none
    call,       \* call[j]: the call of the session of job j
    called,     \* the jobs whose session called
    closer,     \* Close: where it is, and at which slot and worker
    ctxDone     \* the context of the run

poolVars == <<avail, clients>>
callVars == <<call, called>>
vars == <<workerVars, poolVars, callVars, closer, ctxDone>>

(* "again": on the replacement; "retry": the engine may take the error for *)
(* a timeout while connecting; "blame": whose error ended the call.        *)
Places == {"idle", "queued", "registering", "sending", "receiving", "draining",
           "judging", "closing", "creating"}

Results == {"none", "ok", "cancelled", "failed"}

Call == [at: Places, slot: 0..Size, gen: 0..Generations, again: BOOLEAN,
         connected: BOOLEAN, result: Results, retry: BOOLEAN, blame: Jobs \cup {None}]

NewCall == [at |-> "queued", slot |-> 0, gen |-> 0, again |-> FALSE, connected |-> FALSE,
            result |-> "none", retry |-> FALSE, blame |-> None]

(* The caller between its calls: all it keeps is whether it may retry.     *)
Idle(retry) == [NewCall EXCEPT !.at = "idle", !.retry = retry]

TypeOK ==
    /\ WorkerTypeOK
    /\ avail \in [Slots -> 0..PerWorker]
    /\ clients \in [Slots -> 0..Generations]
    /\ call \in [Jobs -> Call] /\ called \subseteq Jobs
    /\ closer \in [at: {"none", "walking", "waiting", "closed"}, slot: 1..Size + 1,
                  gen: 0..Generations, inherited: [Slots -> 0..Generations]]
    /\ ctxDone \in BOOLEAN

(* NewPoolWithCapacity: a worker that cannot be started leaves no client.  *)
Init ==
    \E started \in SUBSET Slots :
        /\ clients = [s \in Slots |-> IF s \in started THEN 1 ELSE 0]
        /\ WorkerInit(started \X {1})
        /\ avail = [s \in Slots |-> PerWorker]
        /\ call = [j \in Jobs |-> Idle(FALSE)]
        /\ called = {}
        /\ closer = [at |-> "none", slot |-> 1, gen |-> 0, inherited |-> [s \in Slots |-> 0]]
        /\ ctxDone = FALSE

At(j, where) == call[j].at = where
WorkerOf(j) == <<call[j].slot, call[j].gen>>
Goes(j, where) == call' = [call EXCEPT ![j].at = where]

-----------------------------------------------------------------------------
(* Pool.Run up to the worker *)

(* The goroutine of a session calls; that of a retry calls again.          *)
Enter(j) ==
    /\ At(j, "idle")
    /\ \/ j \notin called /\ UNCHANGED trouble
       \/ call[j].retry /\ Trouble
    /\ called' = called \cup {j}
    /\ call' = [call EXCEPT ![j] = IF closer.at = "none" THEN NewCall ELSE Idle(FALSE)]
    /\ UNCHANGED <<proc, input, output, pending, poolVars, closer, ctxDone>>

(* Mutation: the call gives back a slot it never took.                     *)
GiveUpAndRelease(j) ==
    /\ At(j, "queued") /\ ctxDone
    /\ call' = [call EXCEPT ![j] = Idle(FALSE)]
    /\ avail' = [avail EXCEPT ![1] = @ + 1]
    /\ UNCHANGED <<workerVars, clients, called, closer, ctxDone>>

GiveUp(j) ==
    /\ At(j, "queued") /\ ctxDone
    /\ call' = [call EXCEPT ![j] = Idle(FALSE)]
    /\ UNCHANGED <<workerVars, poolVars, called, closer, ctxDone>>

(* Mutation: a slot without a worker is not returned.                      *)
TakeSlotForGood(j) ==
    /\ At(j, "queued")
    /\ \E s \in Slots :
          /\ avail[s] > 0
          /\ avail' = [avail EXCEPT ![s] = @ - 1]
          /\ call' = [call EXCEPT
                ![j] = IF clients[s] = 0
                          THEN Idle(FALSE)
                          ELSE [@ EXCEPT !.at = "registering", !.slot = s, !.gen = clients[s]]]
    /\ UNCHANGED <<workerVars, clients, called, closer, ctxDone>>

(* A slot without a worker goes back at once, and the call fails.          *)
TakeSlot(j) ==
    /\ At(j, "queued")
    /\ \E s \in Slots :
          /\ avail[s] > 0
          /\ \/ /\ clients[s] = 0
                /\ call' = [call EXCEPT ![j] = Idle(FALSE)]
                /\ UNCHANGED avail
             \/ /\ clients[s] > 0
                /\ call' = [call EXCEPT ![j].at = "registering", ![j].slot = s,
                                        ![j].gen = clients[s]]
                /\ avail' = [avail EXCEPT ![s] = @ - 1]
    /\ UNCHANGED <<workerVars, clients, called, closer, ctxDone>>

-----------------------------------------------------------------------------
(* ProcessClient.Run *)

Register(j) ==
    /\ At(j, "registering")
    /\ LET w == WorkerOf(j)
       IN  IF proc[w].shut # "open" \/ j \in DOMAIN pending[w]
              THEN /\ call' = [call EXCEPT ![j].at = "judging", ![j].result = "failed"]
                   /\ UNCHANGED pending
              ELSE /\ Goes(j, "sending")
                   /\ pending' = [pending EXCEPT ![w] =
                         [k \in DOMAIN @ \cup {j} |-> IF k = j THEN <<>> ELSE @[k]]]
    /\ UNCHANGED <<proc, input, output, trouble, poolVars, called, closer, ctxDone>>

(* The call returns: its registration ends.                                *)
Ends(j, result, m) ==
    /\ call' = [call EXCEPT ![j].at = "judging", ![j].result = result, ![j].blame = m.of,
                            ![j].retry = m.type = "error" /\ ~call[j].connected]
    /\ pending' = [pending EXCEPT ![WorkerOf(j)] = [k \in DOMAIN @ \ {j} |-> @[k]]]

SendStart(j) ==
    /\ At(j, "sending")
    /\ Written(WorkerOf(j), Msg("start", j))
    /\ IF Writable(WorkerOf(j)) THEN Goes(j, "receiving") /\ UNCHANGED pending
                                ELSE Ends(j, "failed", Msg("fatal", None))
    /\ UNCHANGED <<proc, output, trouble, poolVars, called, closer, ctxDone>>

Waiting(j) == pending[WorkerOf(j)][j]

Taken(j) == pending' = [pending EXCEPT ![WorkerOf(j)][j] = Tail(@)]

Receive(j) ==
    /\ At(j, "receiving") /\ Waiting(j) # <<>>
    /\ LET m == Head(Waiting(j))
       IN  \/ m.type = "started" /\ Taken(j) /\ call' = [call EXCEPT ![j].connected = TRUE]
           \/ m.type \in {"error", "fatal"} /\ Ends(j, "failed", m)
           \/ m.type = "stopped" /\ Ends(j, "ok", m)
    /\ UNCHANGED <<proc, input, output, trouble, poolVars, called, closer, ctxDone>>

SeeContext(j) ==
    /\ At(j, "receiving") /\ ctxDone
    /\ Written(WorkerOf(j), Msg("stop", j))
    /\ Goes(j, "draining")
    /\ UNCHANGED <<proc, output, pending, trouble, poolVars, called, closer, ctxDone>>

Drain(j) ==
    /\ At(j, "draining") /\ Waiting(j) # <<>>
    /\ LET m == Head(Waiting(j))
       IN  \/ m.type = "stopped" /\ Ends(j, "cancelled", m)
           \/ m.type = "fatal" /\ Ends(j, "failed", m)
           \/ m.type \in {"started", "error"} /\ Taken(j) /\ UNCHANGED call
    /\ UNCHANGED <<proc, input, output, trouble, poolVars, called, closer, ctxDone>>

(* Mutation: the answer is waited for without a limit.                     *)
StopAwaited(j) == FALSE

(* Five seconds have passed.                                               *)
StopTimeout(j) ==
    /\ At(j, "draining")
    /\ Ends(j, "failed", Msg("stop", None))
    /\ UNCHANGED <<proc, input, output, trouble, poolVars, called, closer, ctxDone>>

-----------------------------------------------------------------------------
(* Pool.Run after the worker *)

Release(j) == avail' = [avail EXCEPT ![call[j].slot] = @ + 1]

(* The result is returned as it is; otherwise the worker is replaced.      *)
Final(j) == call[j].result = "ok" \/ ctxDone \/ PerWorker > 1 \/ call[j].again

Leave(j) ==
    /\ At(j, "judging") /\ Final(j)
    /\ call' = [call EXCEPT ![j] = Idle(call[j].retry /\ ~ctxDone)]
    /\ Release(j)
    /\ UNCHANGED <<workerVars, clients, called, closer, ctxDone>>

(* Close of a worker returns at once if somebody closed it before.         *)
Replace(j) ==
    /\ At(j, "judging") /\ ~Final(j)
    /\ IF proc[WorkerOf(j)].shut = "open"
          THEN /\ proc' = [proc EXCEPT ![WorkerOf(j)].shut = "marked"]
               /\ Goes(j, "closing")
          ELSE Goes(j, "creating") /\ UNCHANGED proc
    /\ UNCHANGED <<input, output, pending, trouble, poolVars, called, closer, ctxDone>>

(* Mutation: the process is not waited for.                                *)
OldSignalled(j) ==
    /\ At(j, "closing") /\ proc[WorkerOf(j)].shut = "eof"
    /\ Goes(j, "creating")
    /\ UNCHANGED <<workerVars, poolVars, called, closer, ctxDone>>

OldEnded(j) ==
    /\ At(j, "closing") /\ WaitReturns(WorkerOf(j))
    /\ Goes(j, "creating")
    /\ UNCHANGED <<workerVars, poolVars, called, closer, ctxDone>>

CreateFails(j) ==
    /\ At(j, "creating")
    /\ clients' = [clients EXCEPT ![call[j].slot] = 0]
    /\ call' = [call EXCEPT ![j] = Idle(FALSE)]
    /\ Release(j)
    /\ UNCHANGED <<workerVars, called, closer, ctxDone>>

Create(j) ==
    /\ At(j, "creating") /\ call[j].gen < Generations
    /\ LET s == call[j].slot g == call[j].gen + 1
       IN  /\ clients' = [clients EXCEPT ![s] = g]
           /\ proc' = [proc EXCEPT ![<<s, g>>] = NewProcess]
           /\ call' = [call EXCEPT ![j] =
                 [NewCall EXCEPT !.at = "registering", !.slot = s, !.gen = g, !.again = TRUE,
                                 !.connected = call[j].connected]]
    /\ UNCHANGED <<input, output, pending, trouble, avail, called, closer, ctxDone>>

Run(j) ==
    \/ GiveUp(j) \/ TakeSlot(j) \/ Register(j) \/ SendStart(j) \/ Receive(j)
    \/ SeeContext(j) \/ Drain(j) \/ StopTimeout(j)
    \/ Leave(j) \/ Replace(j) \/ OldEnded(j) \/ CreateFails(j) \/ Create(j)

-----------------------------------------------------------------------------
(* Pool.Close *)

ContextEnds ==
    /\ ~ctxDone /\ ctxDone' = TRUE
    /\ UNCHANGED <<workerVars, poolVars, callVars, closer>>

(* Mutation: the first slot is skipped.                                    *)
BeginCloseLate ==
    /\ closer.at = "none" /\ ctxDone
    /\ closer' = [closer EXCEPT !.at = "walking", !.slot = 2, !.inherited = clients]
    /\ UNCHANGED <<workerVars, poolVars, callVars, ctxDone>>

(* RunConfigJobs cancels its context before it closes the pool; what it    *)
(* "inherited" are the workers of that moment, which no code reads.        *)
BeginClose ==
    /\ closer.at = "none" /\ ctxDone
    /\ closer' = [closer EXCEPT !.at = "walking", !.inherited = clients]
    /\ UNCHANGED <<workerVars, poolVars, callVars, ctxDone>>

Onwards == closer' = [closer EXCEPT !.at = "walking", !.slot = @ + 1, !.gen = 0]

(* Mutation: a worker that calls are still using is left to them.          *)
CloseNextIdle ==
    /\ closer.at = "walking" /\ closer.slot <= Size
    /\ LET w == <<closer.slot, clients[closer.slot]>>
       IN  IF w[2] > 0 /\ proc[w].shut = "open" /\ DOMAIN pending[w] = {}
              THEN /\ proc' = [proc EXCEPT ![w].shut = "marked"]
                   /\ closer' = [closer EXCEPT !.at = "waiting", !.gen = w[2]]
              ELSE Onwards /\ UNCHANGED proc
    /\ UNCHANGED <<input, output, pending, trouble, poolVars, callVars, ctxDone>>

(* The next slot: no worker, one that somebody closed, or one to close.    *)
CloseNext ==
    /\ closer.at = "walking" /\ closer.slot <= Size
    /\ LET w == <<closer.slot, clients[closer.slot]>>
       IN  IF w[2] > 0 /\ proc[w].shut = "open"
              THEN /\ proc' = [proc EXCEPT ![w].shut = "marked"]
                   /\ closer' = [closer EXCEPT !.at = "waiting", !.gen = w[2]]
              ELSE Onwards /\ UNCHANGED proc
    /\ UNCHANGED <<input, output, pending, trouble, poolVars, callVars, ctxDone>>

CloseWaited ==
    /\ closer.at = "waiting" /\ WaitReturns(<<closer.slot, closer.gen>>)
    /\ Onwards
    /\ UNCHANGED <<workerVars, poolVars, callVars, ctxDone>>

CloseReturns ==
    /\ closer.at = "walking" /\ closer.slot > Size
    /\ closer' = [closer EXCEPT !.at = "closed", !.slot = Size]
    /\ UNCHANGED <<workerVars, poolVars, callVars, ctxDone>>

Close == BeginClose \/ CloseNext \/ CloseWaited \/ CloseReturns

OnlyWorkers == UNCHANGED <<poolVars, callVars, closer, ctxDone>>

Next ==
    \/ \E j \in Jobs : Enter(j) \/ Run(j)
    \/ WorkerStep /\ OnlyWorkers
    \/ ContextEnds \/ Close

Spec == Init /\ [][Next]_vars

(* Goroutines that can run do, the run ends, and a worker goes on with     *)
(* what it was asked for until it exits. Nothing is fair about a fault.    *)
Fairness ==
    /\ WF_vars(ContextEnds) /\ WF_vars(Close)
    /\ \A j \in Jobs : WF_vars(Run(j))
    /\ \A w \in Workers :
          /\ WF_vars(Reader(w) /\ OnlyWorkers)
          /\ WF_vars(Closing(w) /\ OnlyWorkers)
          /\ WF_vars(Node(w) /\ OnlyWorkers)

FairSpec == Spec /\ Fairness

-----------------------------------------------------------------------------
(* Properties *)

Holds(j, s) ==
    call[j].slot = s /\ call[j].at \notin {"idle", "queued"}

(* Every call that has left gave its slot back, also when the slot has no  *)
(* worker or got none in the replacement: the capacity of the pool is      *)
(* that of NewPool at all times.                                           *)
SlotsConserved ==
    \A s \in Slots : avail[s] + Cardinality({j \in Jobs : Holds(j, s)}) = PerWorker

(* A call that returns a cancellation after talking to a worker leaves no  *)
(* session registered there and no start in progress or in the pipe: the   *)
(* stop was taken last. A context that a start or a stop left open when it *)
(* threw is nobody's any more, and stays until the browser is closed.      *)
CancelledIsStopped ==
    \A j \in Jobs :
        call[j].result = "cancelled" =>
            LET w == WorkerOf(j)
            IN  /\ j \notin proc[w].sessions /\ proc[w].busy # j
                /\ \A i \in DOMAIN input[w] : input[w][i] # Msg("start", j)

(* While the pool is open, a slot has at most one process: a worker is     *)
(* replaced after it ended.                                                *)
OneProcessPerSlot ==
    closer.at = "none" =>
        \A s \in Slots : Cardinality({g \in 1..Generations : Alive(<<s, g>>)}) <= 1

(* A pool that was closed has no process left (workers of many sessions).  *)
ClosedPoolIsEmpty ==
    closer.at = "closed" => \A w \in Workers : ~Alive(w)

(* When the close returns, a worker that was in its slot before it began   *)
(* has been sent its shutdown and its input is closed, whoever replaces    *)
(* what at that moment; unless a call of its own got there first, which is *)
(* then still closing it.                                                  *)
CloseReachesWorkers ==
    closer.at = "closed" =>
        \A s \in Slots :
            LET w == <<s, closer.inherited[s]>>
            IN  closer.inherited[s] > 0 =>
                    \/ proc[w].shut = "eof"
                    \/ \E j \in Jobs : At(j, "closing") /\ WorkerOf(j) = w

(* A call returns once the run has ended, also when the answer to its stop *)
(* is lost or never comes.                                                 *)
CallsReturn == \A j \in Jobs : ctxDone /\ ~At(j, "idle") ~> At(j, "idle")

(* The pool is closed in the end, while calls still run and replace        *)
(* workers.                                                                *)
CloseEnds == ctxDone ~> closer.at = "closed"

(* A session fails because of itself or of its worker, never because of    *)
(* another session: the contexts in a browser are isolated.                *)
SessionsAreIsolated == \A j \in Jobs : call[j].blame \in {j, None}
=============================================================================
