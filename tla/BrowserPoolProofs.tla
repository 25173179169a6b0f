-------------------------- MODULE BrowserPoolProofs --------------------------
(***************************************************************************)
(* The browser pool, for every number of jobs, slots, sessions a worker    *)
(* takes, replacements and faults.  The invariant is built in layers: the  *)
(* types with the slots, the workers of the slots, the walk of Close, and  *)
(* the stop messages; each layer uses those before it.                     *)
(***************************************************************************)
EXTENDS BrowserPool, FiniteSetTheorems, TLAPS

(* A call that took a slot and has not left.                               *)
Engaged(j) == call[j].at \notin {"idle", "queued"}

(* A call that is registered with its worker.                              *)
Registered(j) == call[j].at \in {"sending", "receiving", "draining"}

Holders(s) == {j \in Jobs : Holds(j, s)}

(* The mail of a worker's calls is a function of functions.                *)
PendingIsMail ==
    /\ pending = [w \in Workers |-> pending[w]]
    /\ \A w \in Workers : pending[w] = [j \in DOMAIN pending[w] |-> pending[w][j]]

(* A call works on the worker that its slot has at that moment, and there  *)
(* it has a place for its answers.                                         *)
CallsKnowTheirWorker ==
    \A j \in Jobs : Engaged(j) =>
        /\ call[j].slot \in Slots
        /\ call[j].gen \in 1..Generations
        /\ call[j].gen = clients[call[j].slot]
        /\ Registered(j) => j \in DOMAIN pending[WorkerOf(j)]

(* Only a call that has the worker for itself replaces it, and it has      *)
(* closed it by then.                                                      *)
ReplacingIsExclusive ==
    \A j \in Jobs : At(j, "closing") \/ At(j, "creating") =>
        PerWorker = 1 /\ proc[WorkerOf(j)].shut # "open"

(* A job with a call has called.                                           *)
CallersCalled == \A j \in Jobs : At(j, "idle") \/ j \in called

(* The closer begins at the first slot, and waits at a slot.               *)
CloserIsAtSlot ==
    /\ closer.at = "none" => closer.slot = 1
    /\ closer.at \in {"waiting", "closed"} => closer.slot \in Slots

(* The first layer.                                                        *)
Typed ==
    /\ TypeOK
    /\ PendingIsMail
    /\ SlotsConserved
    /\ CallsKnowTheirWorker
    /\ ReplacingIsExclusive
    /\ CallersCalled
    /\ CloserIsAtSlot

(* Only the newest worker of a slot may be alive.  While the pool is open, *)
(* nobody closes it but the call that replaces it, and that call waits     *)
(* until it is dead; when workers are shared, nobody replaces one.         *)
NewestIsAlive ==
    (closer.at = "none" \/ PerWorker > 1) =>
        \A s \in Slots : \A g \in 1..Generations : Alive(<<s, g>>) => g = clients[s]

ClosedByItsCall ==
    closer.at = "none" =>
        /\ \A s \in Slots : clients[s] > 0 /\ proc[<<s, clients[s]>>].shut # "open" =>
              \E j \in Holders(s) : At(j, "closing") \/ At(j, "creating")
        /\ \A j \in Jobs : At(j, "creating") => ~Alive(WorkerOf(j))

WorkersOfSlots == NewestIsAlive /\ ClosedByItsCall

(* The slots that Close has dealt with.                                    *)
Walked(s) ==
    \/ closer.at = "closed"
    \/ closer.at \in {"walking", "waiting"} /\ s < closer.slot

WaitedAt(s) == closer.at = "waiting" /\ s = closer.slot

(* A worker that was inherited by the closer is that of its slot still, or *)
(* somebody closed it; a newer one has a higher generation.                *)
InheritedIsCurrentOrClosed ==
    closer.at # "none" =>
        \A s \in Slots :
            /\ clients[s] = 0 \/ closer.inherited[s] <= clients[s]
            /\ \/ closer.inherited[s] \in {0, clients[s]}
               \/ proc[<<s, closer.inherited[s]>>].shut # "open"

WalkedIsTold ==
    \A s \in Slots : (Walked(s) \/ WaitedAt(s)) /\ closer.inherited[s] > 0 =>
        proc[<<s, closer.inherited[s]>>].shut # "open"

(* Without replacements the closer is the only one to close, and it leaves *)
(* a slot when its worker is dead.                                         *)
SharedWorkersDie ==
    PerWorker > 1 =>
        \A s \in Slots : clients[s] > 0 =>
            /\ proc[<<s, clients[s]>>].shut # "open" => Walked(s) \/ WaitedAt(s)
            /\ Walked(s) => ~Alive(<<s, clients[s]>>)
            /\ WaitedAt(s) => closer.gen = clients[s]

ClosingInv == InheritedIsCurrentOrClosed /\ WalkedIsTold /\ SharedWorkersDie

Names(m, type, j) == m.type = type /\ m.id = j

Has(s, type, j) == \E i \in DOMAIN s : Names(s[i], type, j)

(* The messages of a type in a queue are for one of the jobs J.            *)
Named(s, type, J) == \A i \in DOMAIN s : s[i].type = type => s[i].id \in J

(* No start of a job comes behind a stop of it.                            *)
InOrder(s, j) ==
    \A i, k \in DOMAIN s : i < k /\ Names(s[i], "stop", j) => ~Names(s[k], "start", j)

(* The messages of the protocol carry the job they are for.                *)
NamedAt(w) ==
    /\ Named(input[w], "stop", Jobs)
    /\ Named(output[w], "stopped", Jobs)
    /\ \A j \in DOMAIN pending[w] : Named(pending[w][j], "stopped", {j})

(* No session of job j is registered in worker w, and none is to come.     *)
Quiet(w, j) ==
    /\ j \notin proc[w].sessions /\ proc[w].busy # j
    /\ ~Has(input[w], "start", j)

StopIsOnItsWay(w, j) == Has(input[w], "stop", j)

StopIsAnswered(w, j) ==
    \/ Has(output[w], "stopped", j)
    \/ j \in DOMAIN pending[w] /\ Has(pending[w][j], "stopped", j)

(* A job whose call sent a stop never starts a session again.              *)
Past(j) ==
    /\ ctxDone
    /\ \/ call[j].at \in {"draining", "judging"}
       \/ call[j].at = "idle" /\ ~call[j].retry /\ j \in called

StopIsLast(w, j) ==
    /\ StopIsOnItsWay(w, j) \/ StopIsAnswered(w, j) => Past(j)
    /\ StopIsAnswered(w, j) => Quiet(w, j)
    /\ InOrder(input[w], j)

CancelledIsQuiet(j) ==
    call[j].result = "cancelled" =>
        ctxDone /\ At(j, "judging") /\ Quiet(WorkerOf(j), j)

StopInv ==
    \A j \in Jobs :
        /\ CancelledIsQuiet(j)
        /\ \A w \in Workers : NamedAt(w) /\ StopIsLast(w, j)
-----------------------------------------------------------------------------
(* The records *)

LEMMA CallFields ==
  ASSUME NEW c \in Call
  PROVE  /\ c.at \in Places /\ c.slot \in 0..Size /\ c.gen \in 0..Generations
         /\ c.again \in BOOLEAN /\ c.connected \in BOOLEAN /\ c.result \in Results
         /\ c.retry \in BOOLEAN /\ c.blame \in Jobs \cup {None}
  BY DEF Call

(* The record of a call is determined by its fields; the fields are set    *)
(* one at a time.                                                          *)
CallOf(at, slot, gen, again, connected, res, retry, blame) ==
    [at |-> at, slot |-> slot, gen |-> gen, again |-> again, connected |-> connected,
     result |-> res, retry |-> retry, blame |-> blame]

LEMMA CallOfFields ==
  ASSUME NEW at, NEW slot, NEW gen, NEW again, NEW connected, NEW res, NEW retry, NEW blame
  PROVE  /\ CallOf(at, slot, gen, again, connected, res, retry, blame).at = at
         /\ CallOf(at, slot, gen, again, connected, res, retry, blame).slot = slot
         /\ CallOf(at, slot, gen, again, connected, res, retry, blame).gen = gen
         /\ CallOf(at, slot, gen, again, connected, res, retry, blame).again = again
         /\ CallOf(at, slot, gen, again, connected, res, retry, blame).connected = connected
         /\ CallOf(at, slot, gen, again, connected, res, retry, blame).result = res
         /\ CallOf(at, slot, gen, again, connected, res, retry, blame).retry = retry
         /\ CallOf(at, slot, gen, again, connected, res, retry, blame).blame = blame
  BY DEF CallOf

LEMMA CallType ==
  ASSUME NEW at \in Places, NEW slot \in 0..Size, NEW gen \in 0..Generations,
         NEW again \in BOOLEAN, NEW connected \in BOOLEAN, NEW res \in Results,
         NEW retry \in BOOLEAN, NEW blame \in Jobs \cup {None}
  PROVE  CallOf(at, slot, gen, again, connected, res, retry, blame) \in Call
  BY DEF Call, CallOf

LEMMA CallIsOf ==
  ASSUME NEW c \in Call
  PROVE  c = CallOf(c.at, c.slot, c.gen, c.again, c.connected, c.result, c.retry, c.blame)
  BY DEF Call, CallOf

SetAt(c, x) == [c EXCEPT !.at = x]
SetSlot(c, x) == [c EXCEPT !.slot = x]
SetGen(c, x) == [c EXCEPT !.gen = x]
SetAgain(c, x) == [c EXCEPT !.again = x]
SetConnected(c, x) == [c EXCEPT !.connected = x]
SetResult(c, x) == [c EXCEPT !.result = x]
SetRetry(c, x) == [c EXCEPT !.retry = x]
SetBlame(c, x) == [c EXCEPT !.blame = x]

LEMMA SetField ==
  ASSUME NEW a, NEW s, NEW g, NEW n, NEW k, NEW r, NEW t, NEW b, NEW x
  PROVE  /\ SetAt(CallOf(a, s, g, n, k, r, t, b), x) = CallOf(x, s, g, n, k, r, t, b)
         /\ SetSlot(CallOf(a, s, g, n, k, r, t, b), x) = CallOf(a, x, g, n, k, r, t, b)
         /\ SetGen(CallOf(a, s, g, n, k, r, t, b), x) = CallOf(a, s, x, n, k, r, t, b)
         /\ SetAgain(CallOf(a, s, g, n, k, r, t, b), x) = CallOf(a, s, g, x, k, r, t, b)
         /\ SetConnected(CallOf(a, s, g, n, k, r, t, b), x) = CallOf(a, s, g, n, x, r, t, b)
         /\ SetResult(CallOf(a, s, g, n, k, r, t, b), x) = CallOf(a, s, g, n, k, x, t, b)
         /\ SetRetry(CallOf(a, s, g, n, k, r, t, b), x) = CallOf(a, s, g, n, k, r, x, b)
         /\ SetBlame(CallOf(a, s, g, n, k, r, t, b), x) = CallOf(a, s, g, n, k, r, t, x)
<1>1. SetAt(CallOf(a, s, g, n, k, r, t, b), x) = CallOf(x, s, g, n, k, r, t, b)
  BY DEF CallOf, SetAt
<1>2. SetSlot(CallOf(a, s, g, n, k, r, t, b), x) = CallOf(a, x, g, n, k, r, t, b)
  BY DEF CallOf, SetSlot
<1>3. SetGen(CallOf(a, s, g, n, k, r, t, b), x) = CallOf(a, s, x, n, k, r, t, b)
  BY DEF CallOf, SetGen
<1>4. SetAgain(CallOf(a, s, g, n, k, r, t, b), x) = CallOf(a, s, g, x, k, r, t, b)
  BY DEF CallOf, SetAgain
<1>5. SetConnected(CallOf(a, s, g, n, k, r, t, b), x) = CallOf(a, s, g, n, x, r, t, b)
  BY DEF CallOf, SetConnected
<1>6. SetResult(CallOf(a, s, g, n, k, r, t, b), x) = CallOf(a, s, g, n, k, x, t, b)
  BY DEF CallOf, SetResult
<1>7. SetRetry(CallOf(a, s, g, n, k, r, t, b), x) = CallOf(a, s, g, n, k, r, x, b)
  BY DEF CallOf, SetRetry
<1>8. SetBlame(CallOf(a, s, g, n, k, r, t, b), x) = CallOf(a, s, g, n, k, r, t, x)
  BY DEF CallOf, SetBlame
<1> QED
  BY <1>1, <1>2, <1>3, <1>4, <1>5, <1>6, <1>7, <1>8

(* The provers take FALSE for a formula and not for a value: it is given a *)
(* name where it is the value of a field.                                  *)
LEMMA NewCallIs ==
  ASSUME NEW no, no = FALSE
  PROVE  NewCall = CallOf("queued", 0, 0, no, no, "none", no, None)
  BY DEF NewCall, CallOf

LEMMA NewCallFacts ==
  /\ NewCall \in Call
  /\ NewCall.at = "queued" /\ NewCall.slot = 0 /\ NewCall.result = "none" /\ NewCall.retry = FALSE
<1>1. PICK no : no = FALSE
  OBVIOUS
<1>2. "queued" \in Places /\ "none" \in Results /\ no \in BOOLEAN
  BY <1>1 DEF Places, Results
<1>0. 0 \in 0..Size /\ 0 \in 0..Generations
  BY SizeAssumption
<1>3. NewCall = CallOf("queued", 0, 0, no, no, "none", no, None)
  BY <1>1, NewCallIs
<1>4. CallOf("queued", 0, 0, no, no, "none", no, None) \in Call
  BY <1>0, <1>2, CallType
<1>5. NewCall.at = "queued" /\ NewCall.slot = 0 /\ NewCall.result = "none" /\ NewCall.retry = no
  BY <1>3, CallOfFields
<1> QED
  BY <1>1, <1>3, <1>4, <1>5

LEMMA IdleFacts ==
  ASSUME NEW r \in BOOLEAN
  PROVE  /\ Idle(r) \in Call
         /\ Idle(r).at = "idle" /\ Idle(r).retry = r /\ Idle(r).result = "none"
<1>1. PICK no : no = FALSE
  OBVIOUS
<1>2. "idle" \in Places /\ "none" \in Results /\ no \in BOOLEAN
  BY <1>1 DEF Places, Results
<1>0. 0 \in 0..Size /\ 0 \in 0..Generations
  BY SizeAssumption
<1>3. Idle(r) = SetRetry(SetAt(NewCall, "idle"), r)
  BY DEF Idle, SetAt, SetRetry
<1>4. Idle(r) = CallOf("idle", 0, 0, no, no, "none", r, None)
  <2>1. NewCall = CallOf("queued", 0, 0, no, no, "none", no, None)
    BY <1>1, NewCallIs
  <2> QED
    BY <1>3, <2>1, SetField
<1>5. CallOf("idle", 0, 0, no, no, "none", r, None) \in Call
  BY <1>0, <1>2, CallType
<1> QED
  BY <1>4, <1>5, CallOfFields

(* The six ways in which a call's record changes.                         *)
MovedCall(c, at) == [c EXCEPT !.at = at]
ConnectedCall(c) == [c EXCEPT !.connected = TRUE]
RefusedCall(c) == [c EXCEPT !.at = "judging", !.result = "failed"]
EndedCall(c, res, m) ==
    [c EXCEPT !.at = "judging", !.result = res, !.blame = m.of,
              !.retry = m.type = "error" /\ ~c.connected]
SeatedCall(c, s, g) == [c EXCEPT !.at = "registering", !.slot = s, !.gen = g]
SecondCall(c, s, g) ==
    [NewCall EXCEPT !.at = "registering", !.slot = s, !.gen = g, !.again = TRUE,
                    !.connected = c.connected]

LEMMA MovedCallFacts ==
  ASSUME NEW c \in Call, NEW at \in Places
  PROVE  /\ MovedCall(c, at) \in Call
         /\ MovedCall(c, at).at = at
         /\ MovedCall(c, at).slot = c.slot /\ MovedCall(c, at).gen = c.gen
         /\ MovedCall(c, at).result = c.result /\ MovedCall(c, at).retry = c.retry
<1>1. at \in Places
  OBVIOUS
<1>2. MovedCall(c, at) = SetAt(c, at)
  BY DEF MovedCall, SetAt
<1>3. MovedCall(c, at) = CallOf(at, c.slot, c.gen, c.again, c.connected, c.result, c.retry, c.blame)
  BY <1>2, CallIsOf, SetField
<1>4. CallOf(at, c.slot, c.gen, c.again, c.connected, c.result, c.retry, c.blame) \in Call
  BY <1>1, CallFields, CallType
<1>5. MovedCall(c, at).at = at /\ MovedCall(c, at).slot = c.slot /\ MovedCall(c, at).gen = c.gen /\ MovedCall(c, at).result = c.result /\ MovedCall(c, at).retry = c.retry
  BY <1>3, CallOfFields
<1> QED
  BY <1>3, <1>4, <1>5

LEMMA ConnectedCallFacts ==
  ASSUME NEW c \in Call
  PROVE  /\ ConnectedCall(c) \in Call
         /\ ConnectedCall(c).at = c.at
         /\ ConnectedCall(c).slot = c.slot /\ ConnectedCall(c).gen = c.gen
         /\ ConnectedCall(c).result = c.result /\ ConnectedCall(c).retry = c.retry
<1>1. PICK yes : yes = TRUE
  OBVIOUS
<1>2. yes \in BOOLEAN
  BY <1>1
<1>3. ConnectedCall(c) = SetConnected(c, yes)
  BY <1>1 DEF ConnectedCall, SetConnected
<1>4. ConnectedCall(c) = CallOf(c.at, c.slot, c.gen, c.again, yes, c.result, c.retry, c.blame)
  BY <1>3, CallIsOf, SetField
<1>5. CallOf(c.at, c.slot, c.gen, c.again, yes, c.result, c.retry, c.blame) \in Call
  BY <1>2, CallFields, CallType
<1>6. ConnectedCall(c).at = c.at /\ ConnectedCall(c).slot = c.slot /\ ConnectedCall(c).gen = c.gen /\ ConnectedCall(c).result = c.result /\ ConnectedCall(c).retry = c.retry
  BY <1>4, CallOfFields
<1> QED
  BY <1>4, <1>5, <1>6

LEMMA RefusedCallFacts ==
  ASSUME NEW c \in Call
  PROVE  /\ RefusedCall(c) \in Call
         /\ RefusedCall(c).at = "judging" /\ RefusedCall(c).result = "failed"
         /\ RefusedCall(c).slot = c.slot /\ RefusedCall(c).gen = c.gen /\ RefusedCall(c).retry = c.retry
<1>1. "judging" \in Places /\ "failed" \in Results
  BY DEF Places, Results
<1>2. RefusedCall(c) = SetResult(SetAt(c, "judging"), "failed")
  BY DEF RefusedCall, SetAt, SetResult
<1>3. RefusedCall(c) = CallOf("judging", c.slot, c.gen, c.again, c.connected, "failed", c.retry, c.blame)
  BY <1>2, CallIsOf, SetField
<1>4. CallOf("judging", c.slot, c.gen, c.again, c.connected, "failed", c.retry, c.blame) \in Call
  BY <1>1, CallFields, CallType
<1>5. RefusedCall(c).at = "judging" /\ RefusedCall(c).result = "failed" /\ RefusedCall(c).slot = c.slot /\ RefusedCall(c).gen = c.gen /\ RefusedCall(c).retry = c.retry
  BY <1>3, CallOfFields
<1> QED
  BY <1>3, <1>4, <1>5

LEMMA EndedCallFacts ==
  ASSUME NEW c \in Call, NEW res \in Results, NEW m \in Message
  PROVE  /\ EndedCall(c, res, m) \in Call
         /\ EndedCall(c, res, m).at = "judging" /\ EndedCall(c, res, m).result = res
         /\ EndedCall(c, res, m).slot = c.slot /\ EndedCall(c, res, m).gen = c.gen
<1>0. PICK again : again = (m.type = "error" /\ ~c.connected)
  OBVIOUS
<1>1. "judging" \in Places /\ m.of \in Jobs \cup {None} /\ again \in BOOLEAN
  BY <1>0 DEF Places, Message
<1>2. EndedCall(c, res, m) = SetRetry(SetBlame(SetResult(SetAt(c, "judging"), res), m.of), again)
  BY <1>0 DEF EndedCall, SetAt, SetResult, SetBlame, SetRetry
<1>3. EndedCall(c, res, m) = CallOf("judging", c.slot, c.gen, c.again, c.connected, res, again, m.of)
  BY <1>2, CallIsOf, SetField
<1>4. CallOf("judging", c.slot, c.gen, c.again, c.connected, res, again, m.of) \in Call
  BY <1>1, CallFields, CallType
<1>5. EndedCall(c, res, m).at = "judging" /\ EndedCall(c, res, m).result = res /\ EndedCall(c, res, m).slot = c.slot /\ EndedCall(c, res, m).gen = c.gen
  BY <1>3, CallOfFields
<1> QED
  BY <1>3, <1>4, <1>5

LEMMA SeatedCallFacts ==
  ASSUME NEW c \in Call, NEW s \in Slots, NEW g \in 1..Generations
  PROVE  /\ SeatedCall(c, s, g) \in Call
         /\ SeatedCall(c, s, g).at = "registering"
         /\ SeatedCall(c, s, g).slot = s /\ SeatedCall(c, s, g).gen = g
         /\ SeatedCall(c, s, g).result = c.result /\ SeatedCall(c, s, g).retry = c.retry
<1>1. "registering" \in Places /\ s \in 0..Size /\ g \in 0..Generations
  BY SizeAssumption DEF Places, Slots
<1>2. SeatedCall(c, s, g) = SetGen(SetSlot(SetAt(c, "registering"), s), g)
  BY DEF SeatedCall, SetAt, SetSlot, SetGen
<1>3. SeatedCall(c, s, g) = CallOf("registering", s, g, c.again, c.connected, c.result, c.retry, c.blame)
  BY <1>2, CallIsOf, SetField
<1>4. CallOf("registering", s, g, c.again, c.connected, c.result, c.retry, c.blame) \in Call
  BY <1>1, CallFields, CallType
<1>5. SeatedCall(c, s, g).at = "registering" /\ SeatedCall(c, s, g).slot = s /\ SeatedCall(c, s, g).gen = g /\ SeatedCall(c, s, g).result = c.result /\ SeatedCall(c, s, g).retry = c.retry
  BY <1>3, CallOfFields
<1> QED
  BY <1>3, <1>4, <1>5

LEMMA SecondCallFacts ==
  ASSUME NEW c \in Call, NEW s \in Slots, NEW g \in 1..Generations
  PROVE  /\ SecondCall(c, s, g) \in Call
         /\ SecondCall(c, s, g).at = "registering"
         /\ SecondCall(c, s, g).slot = s /\ SecondCall(c, s, g).gen = g
         /\ SecondCall(c, s, g).result = "none"
<1>1. PICK yes, no : yes = TRUE /\ no = FALSE
  OBVIOUS
<1>2. /\ "registering" \in Places /\ "none" \in Results /\ yes \in BOOLEAN /\ no \in BOOLEAN
  BY <1>1 DEF Places, Results
<1>0. s \in 0..Size /\ g \in 0..Generations
  BY SizeAssumption DEF Slots
<1>3. SecondCall(c, s, g) = SetConnected(SetAgain(SetGen(SetSlot(SetAt(NewCall, "registering"), s), g), yes), c.connected)
  BY <1>1 DEF SecondCall, SetAt, SetSlot, SetGen, SetAgain, SetConnected
<1>4. SecondCall(c, s, g) = CallOf("registering", s, g, yes, c.connected, "none", no, None)
  <2>1. NewCall = CallOf("queued", 0, 0, no, no, "none", no, None)
    BY <1>1, NewCallIs
  <2> QED
    BY <1>3, <2>1, SetField
<1>5. CallOf("registering", s, g, yes, c.connected, "none", no, None) \in Call
  BY <1>0, <1>2, CallFields, CallType
<1>6. SecondCall(c, s, g).at = "registering" /\ SecondCall(c, s, g).slot = s /\ SecondCall(c, s, g).gen = g /\ SecondCall(c, s, g).result = "none"
  BY <1>4, CallOfFields
<1> QED
  BY <1>1, <1>4, <1>5, <1>6

-----------------------------------------------------------------------------
(* The processes: their records are treated as those of the calls          *)

ProcessOf(state, shut, reader, busy, sessions, left, held, stuck) ==
    [state |-> state, shut |-> shut, reader |-> reader, busy |-> busy,
     sessions |-> sessions, left |-> left, held |-> held, stuck |-> stuck]

SetShut(p, x) == [p EXCEPT !.shut = x]
SetReader(p, x) == [p EXCEPT !.reader = x]
SetBusy(p, x) == [p EXCEPT !.busy = x]
SetSessions(p, x) == [p EXCEPT !.sessions = x]
SetLeft(p, x) == [p EXCEPT !.left = x]
SetHeld(p, x) == [p EXCEPT !.held = x]
SetStuck(p, x) == [p EXCEPT !.stuck = x]
SetState(p, x) == [p EXCEPT !.state = x]

LEMMA ProcessOfFields ==
  ASSUME NEW s, NEW t, NEW r, NEW b, NEW e, NEW l, NEW h, NEW k
  PROVE  /\ ProcessOf(s, t, r, b, e, l, h, k).state = s
         /\ ProcessOf(s, t, r, b, e, l, h, k).shut = t
         /\ ProcessOf(s, t, r, b, e, l, h, k).reader = r
         /\ ProcessOf(s, t, r, b, e, l, h, k).busy = b
         /\ ProcessOf(s, t, r, b, e, l, h, k).sessions = e
         /\ ProcessOf(s, t, r, b, e, l, h, k).left = l
         /\ ProcessOf(s, t, r, b, e, l, h, k).held = h
         /\ ProcessOf(s, t, r, b, e, l, h, k).stuck = k
  BY DEF ProcessOf

LEMMA ProcessType ==
  ASSUME NEW s \in States, NEW t \in Shuts, NEW r \in BOOLEAN, NEW b \in Jobs \cup {None},
         NEW e \in SUBSET Jobs, NEW l \in SUBSET Jobs, NEW h \in SUBSET Jobs, NEW k \in BOOLEAN
  PROVE  ProcessOf(s, t, r, b, e, l, h, k) \in Process
  BY DEF Process, ProcessOf

LEMMA ProcessIsOf ==
  ASSUME NEW p \in Process
  PROVE  p = ProcessOf(p.state, p.shut, p.reader, p.busy, p.sessions, p.left, p.held, p.stuck)
  BY DEF Process, ProcessOf

LEMMA ProcessFields ==
  ASSUME NEW p \in Process
  PROVE  /\ p.state \in States /\ p.shut \in Shuts /\ p.reader \in BOOLEAN
         /\ p.busy \in Jobs \cup {None} /\ p.sessions \in SUBSET Jobs
         /\ p.left \in SUBSET Jobs /\ p.held \in SUBSET Jobs /\ p.stuck \in BOOLEAN
  BY DEF Process

LEMMA SetProcess ==
  ASSUME NEW s, NEW t, NEW r, NEW b, NEW e, NEW l, NEW h, NEW k, NEW x
  PROVE  /\ SetState(ProcessOf(s, t, r, b, e, l, h, k), x) = ProcessOf(x, t, r, b, e, l, h, k)
         /\ SetShut(ProcessOf(s, t, r, b, e, l, h, k), x) = ProcessOf(s, x, r, b, e, l, h, k)
         /\ SetReader(ProcessOf(s, t, r, b, e, l, h, k), x) = ProcessOf(s, t, x, b, e, l, h, k)
         /\ SetBusy(ProcessOf(s, t, r, b, e, l, h, k), x) = ProcessOf(s, t, r, x, e, l, h, k)
         /\ SetSessions(ProcessOf(s, t, r, b, e, l, h, k), x) = ProcessOf(s, t, r, b, x, l, h, k)
         /\ SetLeft(ProcessOf(s, t, r, b, e, l, h, k), x) = ProcessOf(s, t, r, b, e, x, h, k)
         /\ SetHeld(ProcessOf(s, t, r, b, e, l, h, k), x) = ProcessOf(s, t, r, b, e, l, x, k)
         /\ SetStuck(ProcessOf(s, t, r, b, e, l, h, k), x) = ProcessOf(s, t, r, b, e, l, h, x)
<1>1. SetState(ProcessOf(s, t, r, b, e, l, h, k), x) = ProcessOf(x, t, r, b, e, l, h, k)
  BY DEF SetState, ProcessOf
<1>2. SetShut(ProcessOf(s, t, r, b, e, l, h, k), x) = ProcessOf(s, x, r, b, e, l, h, k)
  BY DEF SetShut, ProcessOf
<1>3. SetReader(ProcessOf(s, t, r, b, e, l, h, k), x) = ProcessOf(s, t, x, b, e, l, h, k)
  BY DEF SetReader, ProcessOf
<1>4. SetBusy(ProcessOf(s, t, r, b, e, l, h, k), x) = ProcessOf(s, t, r, x, e, l, h, k)
  BY DEF SetBusy, ProcessOf
<1>5. SetSessions(ProcessOf(s, t, r, b, e, l, h, k), x) = ProcessOf(s, t, r, b, x, l, h, k)
  BY DEF SetSessions, ProcessOf
<1>6. SetLeft(ProcessOf(s, t, r, b, e, l, h, k), x) = ProcessOf(s, t, r, b, e, x, h, k)
  BY DEF SetLeft, ProcessOf
<1>7. SetHeld(ProcessOf(s, t, r, b, e, l, h, k), x) = ProcessOf(s, t, r, b, e, l, x, k)
  BY DEF SetHeld, ProcessOf
<1>8. SetStuck(ProcessOf(s, t, r, b, e, l, h, k), x) = ProcessOf(s, t, r, b, e, l, h, x)
  BY DEF SetStuck, ProcessOf
<1> QED
  BY <1>1, <1>2, <1>3, <1>4, <1>5, <1>6, <1>7, <1>8

(* What a process is after a step of its own or of its client.             *)
Begun(p, j) == SetBusy(p, j)
Aborted(p, L) == SetLeft(SetBusy(p, None), L)
Opened(p, j) == SetHeld(SetSessions(SetBusy(p, None), p.sessions \cup {j}), p.held \cup {j})
Kept(p, S) == SetSessions(p, S)
Cut(p, S, L) == SetLeft(SetSessions(p, S), L)
Torn(p, S, L, k) == SetStuck(SetLeft(SetSessions(p, S), L), k)
Deaf(p, no) == SetHeld(SetReader(p, no), {})
Shutting(p, shut) == SetShut(p, shut)
Over(p, no) ==
    SetStuck(SetLeft(SetSessions(SetBusy(SetState(p, "dead"), None), {}), {}), no)

LEMMA BegunFacts ==
  ASSUME NEW p \in Process, NEW j \in Jobs \cup {None}
  PROVE  /\ Begun(p, j) \in Process
         /\ Begun(p, j).state = p.state /\ Begun(p, j).shut = p.shut
         /\ Begun(p, j).busy = j /\ Begun(p, j).sessions = p.sessions
<1>1. Begun(p, j) = ProcessOf(p.state, p.shut, p.reader, j, p.sessions, p.left, p.held, p.stuck)
  BY ProcessIsOf, SetProcess DEF Begun
<1>2. ProcessOf(p.state, p.shut, p.reader, j, p.sessions, p.left, p.held, p.stuck) \in Process
  BY ProcessFields, ProcessType
<1> QED
  BY <1>1, <1>2, ProcessOfFields

LEMMA AbortedFacts ==
  ASSUME NEW p \in Process, NEW L \in SUBSET Jobs
  PROVE  /\ Aborted(p, L) \in Process
         /\ Aborted(p, L).state = p.state /\ Aborted(p, L).shut = p.shut
         /\ Aborted(p, L).busy = None /\ Aborted(p, L).sessions = p.sessions
<1>1. Aborted(p, L) = ProcessOf(p.state, p.shut, p.reader, None, p.sessions, L, p.held, p.stuck)
  BY ProcessIsOf, SetProcess DEF Aborted
<1>2. ProcessOf(p.state, p.shut, p.reader, None, p.sessions, L, p.held, p.stuck) \in Process
  BY ProcessFields, ProcessType
<1> QED
  BY <1>1, <1>2, ProcessOfFields

LEMMA OpenedFacts ==
  ASSUME NEW p \in Process, NEW j \in Jobs
  PROVE  /\ Opened(p, j) \in Process
         /\ Opened(p, j).state = p.state /\ Opened(p, j).shut = p.shut
         /\ Opened(p, j).busy = None /\ Opened(p, j).sessions = p.sessions \cup {j}
<1> DEFINE e == p.sessions \cup {j}
           h == p.held \cup {j}
<1>1. e \in SUBSET Jobs /\ h \in SUBSET Jobs
  BY ProcessFields
<1>2. Opened(p, j) = SetHeld(SetSessions(SetBusy(p, None), e), h)
  BY DEF Opened
<1> HIDE DEF e, h
<1>3. Opened(p, j) = ProcessOf(p.state, p.shut, p.reader, None, e, p.left, h, p.stuck)
  BY <1>2, ProcessIsOf, SetProcess
<1>4. ProcessOf(p.state, p.shut, p.reader, None, e, p.left, h, p.stuck) \in Process
  BY <1>1, ProcessFields, ProcessType
<1>5. /\ Opened(p, j).state = p.state /\ Opened(p, j).shut = p.shut
      /\ Opened(p, j).busy = None /\ Opened(p, j).sessions = e
  BY <1>3, ProcessOfFields
<1> QED
  BY <1>3, <1>4, <1>5 DEF e

LEMMA KeptFacts ==
  ASSUME NEW p \in Process, NEW S \in SUBSET Jobs
  PROVE  /\ Kept(p, S) \in Process
         /\ Kept(p, S).state = p.state /\ Kept(p, S).shut = p.shut
         /\ Kept(p, S).busy = p.busy /\ Kept(p, S).sessions = S
<1>1. Kept(p, S) = ProcessOf(p.state, p.shut, p.reader, p.busy, S, p.left, p.held, p.stuck)
  BY ProcessIsOf, SetProcess DEF Kept
<1>2. ProcessOf(p.state, p.shut, p.reader, p.busy, S, p.left, p.held, p.stuck) \in Process
  BY ProcessFields, ProcessType
<1> QED
  BY <1>1, <1>2, ProcessOfFields

LEMMA CutFacts ==
  ASSUME NEW p \in Process, NEW S \in SUBSET Jobs, NEW L \in SUBSET Jobs
  PROVE  /\ Cut(p, S, L) \in Process
         /\ Cut(p, S, L).state = p.state /\ Cut(p, S, L).shut = p.shut
         /\ Cut(p, S, L).busy = p.busy /\ Cut(p, S, L).sessions = S
<1>1. Cut(p, S, L) = ProcessOf(p.state, p.shut, p.reader, p.busy, S, L, p.held, p.stuck)
  BY ProcessIsOf, SetProcess DEF Cut
<1>2. ProcessOf(p.state, p.shut, p.reader, p.busy, S, L, p.held, p.stuck) \in Process
  BY ProcessFields, ProcessType
<1> QED
  BY <1>1, <1>2, ProcessOfFields

LEMMA TornFacts ==
  ASSUME NEW p \in Process, NEW S \in SUBSET Jobs, NEW L \in SUBSET Jobs, NEW k \in BOOLEAN
  PROVE  /\ Torn(p, S, L, k) \in Process
         /\ Torn(p, S, L, k).state = p.state /\ Torn(p, S, L, k).shut = p.shut
         /\ Torn(p, S, L, k).busy = p.busy /\ Torn(p, S, L, k).sessions = S
<1>1. Torn(p, S, L, k) = ProcessOf(p.state, p.shut, p.reader, p.busy, S, L, p.held, k)
  BY ProcessIsOf, SetProcess DEF Torn
<1>2. ProcessOf(p.state, p.shut, p.reader, p.busy, S, L, p.held, k) \in Process
  BY ProcessFields, ProcessType
<1> QED
  BY <1>1, <1>2, ProcessOfFields

LEMMA DeafFacts ==
  ASSUME NEW p \in Process, NEW no \in BOOLEAN
  PROVE  /\ Deaf(p, no) \in Process
         /\ Deaf(p, no).state = p.state /\ Deaf(p, no).shut = p.shut
         /\ Deaf(p, no).busy = p.busy /\ Deaf(p, no).sessions = p.sessions
<1>1. Deaf(p, no) = ProcessOf(p.state, p.shut, no, p.busy, p.sessions, p.left, {}, p.stuck)
  BY ProcessIsOf, SetProcess DEF Deaf
<1>2. ProcessOf(p.state, p.shut, no, p.busy, p.sessions, p.left, {}, p.stuck) \in Process
  BY ProcessFields, ProcessType
<1> QED
  BY <1>1, <1>2, ProcessOfFields

LEMMA ShuttingFacts ==
  ASSUME NEW p \in Process, NEW shut \in Shuts
  PROVE  /\ Shutting(p, shut) \in Process
         /\ Shutting(p, shut).state = p.state /\ Shutting(p, shut).shut = shut
         /\ Shutting(p, shut).busy = p.busy /\ Shutting(p, shut).sessions = p.sessions
<1>1. Shutting(p, shut) = ProcessOf(p.state, shut, p.reader, p.busy, p.sessions, p.left, p.held, p.stuck)
  BY ProcessIsOf, SetProcess DEF Shutting
<1>2. ProcessOf(p.state, shut, p.reader, p.busy, p.sessions, p.left, p.held, p.stuck) \in Process
  BY ProcessFields, ProcessType
<1> QED
  BY <1>1, <1>2, ProcessOfFields

LEMMA OverFacts ==
  ASSUME NEW p \in Process, NEW no \in BOOLEAN
  PROVE  /\ Over(p, no) \in Process
         /\ Over(p, no).state = "dead" /\ Over(p, no).shut = p.shut
         /\ Over(p, no).busy = None /\ Over(p, no).sessions = {}
<1>1. Over(p, no) = ProcessOf("dead", p.shut, p.reader, None, {}, {}, p.held, no)
  BY ProcessIsOf, SetProcess DEF Over
<1>0. "dead" \in States
  BY DEF States
<1>2. ProcessOf("dead", p.shut, p.reader, None, {}, {}, p.held, no) \in Process
  BY <1>0, ProcessFields, ProcessType
<1> QED
  BY <1>1, <1>2, ProcessOfFields

LEMMA NewProcessFacts ==
  /\ NewProcess \in Process /\ NoProcess \in Process
  /\ NewProcess.state = "alive" /\ NewProcess.shut = "open"
  /\ NewProcess.busy = None /\ NewProcess.sessions = {}
  /\ NoProcess.state = "absent" /\ NoProcess.shut = "open"
  /\ NoProcess.busy = None /\ NoProcess.sessions = {}
<1>1. PICK yes, no : yes = TRUE /\ no = FALSE
  OBVIOUS
<1>2. /\ "alive" \in States /\ "absent" \in States /\ "open" \in Shuts
      /\ yes \in BOOLEAN /\ no \in BOOLEAN
  BY <1>1 DEF States, Shuts
<1>3. NoProcess = ProcessOf("absent", "open", no, None, {}, {}, {}, no)
  BY <1>1 DEF NoProcess, ProcessOf
<1>4. NewProcess = SetReader(SetState(NoProcess, "alive"), yes)
  BY <1>1 DEF NewProcess, SetReader, SetState
<1>5. NewProcess = ProcessOf("alive", "open", yes, None, {}, {}, {}, no)
  BY <1>3, <1>4, SetProcess
<1>6. /\ ProcessOf("absent", "open", no, None, {}, {}, {}, no) \in Process
      /\ ProcessOf("alive", "open", yes, None, {}, {}, {}, no) \in Process
  BY <1>2, ProcessType
<1> QED
  BY <1>3, <1>5, <1>6, ProcessOfFields

-----------------------------------------------------------------------------
(* The pipes and the mail                                                  *)

Mail == WorkerTypeOK /\ PendingIsMail

LEMMA MsgFacts ==
  ASSUME NEW type \in MessageTypes, NEW j \in Jobs \cup {None}
  PROVE  /\ Msg(type, j) \in Message
         /\ Msg(type, j).type = type /\ Msg(type, j).id = j
  BY DEF Msg, Message

LEMMA ThrownFacts ==
  ASSUME NEW j \in Jobs \cup {None}
  PROVE  Thrown(j) \in Message /\ Thrown(j).type = "error"
<1>1. "error" \in MessageTypes
  BY DEF MessageTypes
<1> QED
  BY <1>1 DEF Thrown, Message

LEMMA MessageFields ==
  ASSUME NEW m \in Message
  PROVE  m.type \in MessageTypes /\ m.id \in Jobs \cup {None} /\ m.of \in Jobs \cup {None}
  BY DEF Message

(* The rest of a queue of messages, and a queue with one more.             *)
LEMMA QueueFacts ==
  ASSUME NEW s \in Seq(Message)
  PROVE  /\ s # <<>> => /\ Head(s) \in Message /\ Tail(s) \in Seq(Message)
                        /\ 1 \in DOMAIN s /\ Head(s) = s[1]
                        /\ \A i \in DOMAIN Tail(s) : i + 1 \in DOMAIN s /\ Tail(s)[i] = s[i + 1]
         /\ \A i \in DOMAIN s : i \in Nat /\ s[i] \in Message
         /\ \A m \in Message :
               /\ Append(s, m) \in Seq(Message)
               /\ \A i \in DOMAIN Append(s, m) :
                     \/ i \in DOMAIN s /\ Append(s, m)[i] = s[i]
                     \/ i \notin DOMAIN s /\ Append(s, m)[i] = m
               /\ \A i \in DOMAIN Append(s, m), k \in DOMAIN s :
                     i \notin DOMAIN s => k < i
<1>1. ASSUME s # <<>>
      PROVE  /\ Head(s) \in Message /\ Tail(s) \in Seq(Message)
             /\ 1 \in DOMAIN s /\ Head(s) = s[1]
             /\ \A i \in DOMAIN Tail(s) : i + 1 \in DOMAIN s /\ Tail(s)[i] = s[i + 1]
  BY <1>1
<1>2. \A i \in DOMAIN s : i \in Nat /\ s[i] \in Message
  OBVIOUS
<1>3. ASSUME NEW m \in Message
      PROVE  /\ Append(s, m) \in Seq(Message)
             /\ \A i \in DOMAIN Append(s, m) :
                   \/ i \in DOMAIN s /\ Append(s, m)[i] = s[i]
                   \/ i \notin DOMAIN s /\ Append(s, m)[i] = m
             /\ \A i \in DOMAIN Append(s, m), k \in DOMAIN s :
                   i \notin DOMAIN s => k < i
  <2>1. Append(s, m) \in Seq(Message) /\ Len(Append(s, m)) = Len(s) + 1
    OBVIOUS
  <2>2. ASSUME NEW i \in DOMAIN Append(s, m)
        PROVE  \/ i \in DOMAIN s /\ Append(s, m)[i] = s[i]
               \/ i \notin DOMAIN s /\ Append(s, m)[i] = m
    OBVIOUS
  <2>3. ASSUME NEW i \in DOMAIN Append(s, m), NEW k \in DOMAIN s, i \notin DOMAIN s
        PROVE  k < i
    BY <2>1, <2>3
  <2> QED
    BY <2>1, <2>2, <2>3
<1> QED
  BY <1>1, <1>2, <1>3

(* One entry of a function of the workers is replaced.                     *)
LEMMA Replaced ==
  ASSUME NEW T, NEW f \in [Workers -> T], NEW w \in Workers, NEW x \in T
  PROVE  /\ [f EXCEPT ![w] = x] \in [Workers -> T]
         /\ [f EXCEPT ![w] = x][w] = x
         /\ \A v \in Workers : v # w => [f EXCEPT ![w] = x][v] = f[v]
  OBVIOUS

(* What holds of one process after a step of a worker, and of the mail.    *)
OthersRest(w) ==
    \A v \in Workers : v # w =>
        /\ proc'[v] = proc[v] /\ input'[v] = input[v]
        /\ output'[v] = output[v] /\ pending'[v] = pending[v]

SameState(w) == proc'[w].state = proc[w].state
SameShut(w) == proc'[w].shut = "open" <=> proc[w].shut = "open"
EofStays(w) == proc[w].shut = "eof" => proc'[w].shut = "eof"

WorkerEffect(w) ==
    /\ Mail' /\ OthersRest(w)
    /\ DOMAIN pending'[w] = DOMAIN pending[w]
    /\ Alive(w)' => Alive(w)
    /\ SameShut(w) /\ EofStays(w)

(* The mail of the calls of a worker, after a message was handed to some.  *)
LEMMA OfferFacts ==
  ASSUME PendingIsMail, NEW w \in Workers, NEW m \in Message, NEW R, Offer(w, m, R),
         \A v \in Workers : /\ DOMAIN pending[v] \subseteq Jobs
                            /\ \A j \in DOMAIN pending[v] : pending[v][j] \in Seq(Message)
  PROVE  /\ PendingIsMail'
         /\ DOMAIN pending'[w] = DOMAIN pending[w]
         /\ \A v \in Workers : v # w => pending'[v] = pending[v]
         /\ \A j \in DOMAIN pending[w] :
               \/ pending'[w][j] = pending[w][j]
               \/ j \in R /\ pending'[w][j] = Append(pending[w][j], m)
         /\ \A v \in Workers : /\ DOMAIN pending'[v] \subseteq Jobs
                               /\ \A j \in DOMAIN pending'[v] : pending'[v][j] \in Seq(Message)
<1>1. PICK lost \in SUBSET (R \cap proc[w].held) :
        pending' = [pending EXCEPT ![w] =
              [j \in DOMAIN @ |-> IF j \in R \ lost THEN Append(@[j], m) ELSE @[j]]]
  BY DEF Offer
<1> DEFINE new == [j \in DOMAIN pending[w] |->
                      IF j \in R \ lost THEN Append(pending[w][j], m) ELSE pending[w][j]]
<1>2. pending' = [pending EXCEPT ![w] = new]
  BY <1>1
<1>3. DOMAIN new = DOMAIN pending[w]
  OBVIOUS
<1>4. \A j \in DOMAIN pending[w] :
        \/ new[j] = pending[w][j]
        \/ j \in R /\ new[j] = Append(pending[w][j], m)
  <2> TAKE j \in DOMAIN pending[w]
  <2>1. new[j] = IF j \in R \ lost THEN Append(pending[w][j], m) ELSE pending[w][j]
    OBVIOUS
  <2> QED
    BY <2>1
<1>5. new = [j \in DOMAIN new |-> new[j]]
  BY <1>3
<1>6. \A j \in DOMAIN new : new[j] \in Seq(Message)
  BY <1>3, <1>4, QueueFacts
<1> HIDE DEF new
<1>7. pending' = [v \in Workers |-> IF v = w THEN new ELSE pending[v]]
  BY <1>2 DEF PendingIsMail
<1>8. pending'[w] = new /\ \A v \in Workers : v # w => pending'[v] = pending[v]
  BY <1>7
<1>9. PendingIsMail'
  BY <1>5, <1>7, <1>8 DEF PendingIsMail
<1> QED
  BY <1>3, <1>4, <1>6, <1>8, <1>9

-----------------------------------------------------------------------------
(* The steps of a worker, one by one                                       *)

LEMMA StartTakenFacts ==
  ASSUME Mail, NEW w \in Workers, StartTaken(w)
  PROVE  /\ WorkerEffect(w) /\ pending' = pending
         /\ input[w] # <<>> /\ Head(input[w]).type = "start" /\ input'[w] = Tail(input[w])
         /\ \/ /\ proc'[w] = proc[w]
               /\ \E m \in Message : m.type = "error" /\ output'[w] = Append(output[w], m)
            \/ /\ proc'[w].busy = Head(input[w]).id /\ proc'[w].sessions = proc[w].sessions
               /\ output' = output
<1> DEFINE j == Head(input[w]).id
<1>1. /\ input[w] \in Seq(Message) /\ input[w] # <<>> /\ proc[w] \in Process
      /\ output[w] \in Seq(Message)
  BY DEF Mail, WorkerTypeOK, StartTaken, Reads
<1>0. j \in Jobs \cup {None}
  BY <1>1, QueueFacts, MessageFields
<1>2. Tail(input[w]) \in Seq(Message) /\ input' = [input EXCEPT ![w] = Tail(input[w])]
  BY <1>1, QueueFacts DEF StartTaken, Reads
<1>3. /\ input' \in [Workers -> Seq(Message)] /\ input'[w] = Tail(input[w])
      /\ \A v \in Workers : v # w => input'[v] = input[v]
  BY <1>2, Replaced DEF Mail, WorkerTypeOK
<1>4. CASE j \in proc[w].sessions
  <2>1. proc' = proc /\ output' = [output EXCEPT ![w] = Append(output[w], Thrown(j))]
    BY <1>4 DEF StartTaken, Emit
  <2>2. Thrown(j) \in Message /\ Thrown(j).type = "error"
    BY <1>0, ThrownFacts
  <2>3. Append(output[w], Thrown(j)) \in Seq(Message)
    BY <1>1, <2>2, QueueFacts
  <2>4. /\ output' \in [Workers -> Seq(Message)] /\ output'[w] = Append(output[w], Thrown(j))
        /\ \A v \in Workers : v # w => output'[v] = output[v]
    BY <2>1, <2>3, Replaced DEF Mail, WorkerTypeOK
  <2> QED
    BY <1>1, <1>3, <2>1, <2>2, <2>4
    DEF Mail, WorkerTypeOK, PendingIsMail, WorkerEffect, OthersRest, SameShut, EofStays, Alive,
        StartTaken, Reads
<1>5. CASE j \notin proc[w].sessions
  <2>1. proc' = [proc EXCEPT ![w] = Begun(proc[w], j)] /\ output' = output
    BY <1>5 DEF StartTaken, Begun, SetBusy
  <2>2. /\ proc' \in [Workers -> Process] /\ proc'[w] = Begun(proc[w], j)
        /\ \A v \in Workers : v # w => proc'[v] = proc[v]
    BY <1>0, <1>1, <2>1, BegunFacts, Replaced DEF Mail, WorkerTypeOK
  <2>3. /\ proc'[w].state = proc[w].state /\ proc'[w].shut = proc[w].shut
        /\ proc'[w].busy = j /\ proc'[w].sessions = proc[w].sessions
    BY <1>0, <1>1, <2>2, BegunFacts
  <2> QED
    BY <1>1, <1>3, <2>1, <2>2, <2>3
    DEF Mail, WorkerTypeOK, PendingIsMail, WorkerEffect, OthersRest, SameShut, EofStays, Alive,
        StartTaken, Reads
<1> QED
  BY <1>4, <1>5

LEMMA StartEndsFacts ==
  ASSUME Mail, NEW w \in Workers, StartEnds(w)
  PROVE  /\ WorkerEffect(w) /\ pending' = pending /\ input' = input
         /\ proc'[w].busy = None /\ proc[w].busy \in Jobs
         /\ proc'[w].sessions \subseteq proc[w].sessions \cup {proc[w].busy}
         /\ \E m \in Message : m.type \in {"started", "error"} /\ output'[w] = Append(output[w], m)
<1> DEFINE j == proc[w].busy
<1>1. proc[w] \in Process /\ output[w] \in Seq(Message)
  BY DEF Mail, WorkerTypeOK
<1>2. j \in Jobs
  BY <1>1, ProcessFields DEF StartEnds
<1>3. \/ /\ proc' = [proc EXCEPT ![w] = Opened(proc[w], j)]
         /\ output' = [output EXCEPT ![w] = Append(output[w], Msg("started", j))]
      \/ /\ \E L \in SUBSET Jobs : proc' = [proc EXCEPT ![w] = Aborted(proc[w], L)]
         /\ output' = [output EXCEPT ![w] = Append(output[w], Thrown(j))]
  <2>1. CASE /\ proc' = [proc EXCEPT ![w].busy = None, ![w].sessions = @ \cup {j},
                                     ![w].held = @ \cup {j}]
             /\ Emit(w, Msg("started", j))
    BY <2>1 DEF Emit, Opened, SetBusy, SetHeld, SetSessions
  <2>2. CASE /\ \E leaves \in SUBSET {j} :
                   proc' = [proc EXCEPT ![w].busy = None, ![w].left = @ \cup leaves]
             /\ Emit(w, Thrown(j))
    <3>1. PICK leaves \in SUBSET {j} :
              proc' = [proc EXCEPT ![w].busy = None, ![w].left = @ \cup leaves]
      BY <2>2
    <3> DEFINE L == proc[w].left \cup leaves
    <3>2. L \in SUBSET Jobs
      BY <1>1, <1>2, ProcessFields
    <3>3. proc' = [proc EXCEPT ![w] = Aborted(proc[w], L)]
      BY <3>1 DEF Aborted, SetBusy, SetLeft
    <3> HIDE DEF L
    <3> QED
      BY <2>2, <3>2, <3>3 DEF Emit
  <2> QED
    BY <2>1, <2>2 DEF StartEnds
<1>4. \E m \in Message : /\ m.type \in {"started", "error"}
                         /\ output' = [output EXCEPT ![w] = Append(output[w], m)]
  <2>1. "started" \in MessageTypes
    BY DEF MessageTypes
  <2> QED
    BY <1>2, <1>3, <2>1, MsgFacts, ThrownFacts
<1>5. PICK m \in Message : /\ m.type \in {"started", "error"}
                           /\ output' = [output EXCEPT ![w] = Append(output[w], m)]
  BY <1>4
<1>6. /\ output' \in [Workers -> Seq(Message)] /\ output'[w] = Append(output[w], m)
      /\ \A v \in Workers : v # w => output'[v] = output[v]
  BY <1>1, <1>5, QueueFacts, Replaced DEF Mail, WorkerTypeOK
<1>7. \E p \in Process :
        /\ proc' = [proc EXCEPT ![w] = p]
        /\ p.state = proc[w].state /\ p.shut = proc[w].shut /\ p.busy = None
        /\ p.sessions \subseteq proc[w].sessions \cup {j}
  <2>1. /\ Opened(proc[w], j) \in Process
        /\ Opened(proc[w], j).state = proc[w].state /\ Opened(proc[w], j).shut = proc[w].shut
        /\ Opened(proc[w], j).busy = None
        /\ Opened(proc[w], j).sessions = proc[w].sessions \cup {j}
    BY <1>1, <1>2, OpenedFacts
  <2>2. ASSUME NEW L \in SUBSET Jobs
        PROVE  /\ Aborted(proc[w], L) \in Process
               /\ Aborted(proc[w], L).state = proc[w].state
               /\ Aborted(proc[w], L).shut = proc[w].shut
               /\ Aborted(proc[w], L).busy = None
               /\ Aborted(proc[w], L).sessions = proc[w].sessions
    BY <1>1, AbortedFacts
  <2> QED
    BY <1>3, <2>1, <2>2
<1>8. PICK p \in Process :
        /\ proc' = [proc EXCEPT ![w] = p]
        /\ p.state = proc[w].state /\ p.shut = proc[w].shut /\ p.busy = None
        /\ p.sessions \subseteq proc[w].sessions \cup {j}
  BY <1>7
<1>9. /\ proc' \in [Workers -> Process] /\ proc'[w] = p
      /\ \A v \in Workers : v # w => proc'[v] = proc[v]
  BY <1>8, Replaced DEF Mail, WorkerTypeOK
<1>10. UNCHANGED <<input, pending, trouble>>
  BY DEF StartEnds
<1>11. WorkerEffect(w)
  BY <1>6, <1>8, <1>9, <1>10
  DEF Mail, WorkerTypeOK, PendingIsMail, WorkerEffect, OthersRest, SameShut, EofStays, Alive
<1> QED
  BY <1>2, <1>5, <1>6, <1>8, <1>9, <1>10, <1>11

LEMMA StopTakenFacts ==
  ASSUME Mail, NEW w \in Workers, StopTaken(w)
  PROVE  /\ WorkerEffect(w) /\ pending' = pending
         /\ input[w] # <<>> /\ Head(input[w]).type = "stop" /\ input'[w] = Tail(input[w])
         /\ proc[w].busy = None /\ proc'[w].busy = None
         /\ proc'[w].sessions = proc[w].sessions \ {Head(input[w]).id}
         /\ \E m \in Message : /\ output'[w] = Append(output[w], m)
                               /\ m.type = "stopped" => m.id = Head(input[w]).id
<1> DEFINE j == Head(input[w]).id
           S == proc[w].sessions \ {j}
<1>1. /\ proc[w] \in Process /\ output[w] \in Seq(Message) /\ input[w] \in Seq(Message)
      /\ input[w] # <<>>
  BY DEF Mail, WorkerTypeOK, StopTaken, Reads
<1>0. j \in Jobs \cup {None}
  BY <1>1, QueueFacts, MessageFields
<1>2. Tail(input[w]) \in Seq(Message) /\ input' = [input EXCEPT ![w] = Tail(input[w])]
  BY <1>1, QueueFacts DEF StopTaken, Reads
<1>3. /\ input' \in [Workers -> Seq(Message)] /\ input'[w] = Tail(input[w])
      /\ \A v \in Workers : v # w => input'[v] = input[v]
  BY <1>2, Replaced DEF Mail, WorkerTypeOK
<1>4. PICK m \in Message : /\ output' = [output EXCEPT ![w] = Append(output[w], m)]
                           /\ m.type = "stopped" => m.id = j
  <2>1. "stopped" \in MessageTypes
    BY DEF MessageTypes
  <2>2. /\ Msg("stopped", j) \in Message /\ Msg("stopped", j).id = j
        /\ Thrown(j) \in Message /\ Thrown(j).type = "error"
    BY <1>0, <2>1, MsgFacts, ThrownFacts
  <2>3. \/ output' = [output EXCEPT ![w] = Append(output[w], Msg("stopped", j))]
        \/ output' = [output EXCEPT ![w] = Append(output[w], Thrown(j))]
    BY DEF StopTaken, Emit
  <2> QED
    BY <2>2, <2>3
<1>5. /\ output' \in [Workers -> Seq(Message)] /\ output'[w] = Append(output[w], m)
      /\ \A v \in Workers : v # w => output'[v] = output[v]
  BY <1>1, <1>4, QueueFacts, Replaced DEF Mail, WorkerTypeOK
<1>6. S \in SUBSET Jobs
  BY <1>1, ProcessFields
<1>7. \E p \in Process :
        /\ proc' = [proc EXCEPT ![w] = p]
        /\ p.state = proc[w].state /\ p.shut = proc[w].shut /\ p.busy = proc[w].busy
        /\ p.sessions = S
  <2>1. CASE proc' = [proc EXCEPT ![w].sessions = @ \ {j}]
    <3>1. proc' = [proc EXCEPT ![w] = Kept(proc[w], S)]
      BY <2>1 DEF Kept, SetSessions
    <3> HIDE DEF S
    <3> QED
      BY <1>1, <1>6, <3>1, KeptFacts
  <2>2. CASE /\ j \in proc[w].sessions
             /\ \E leaves \in SUBSET {j} :
                   proc' = [proc EXCEPT ![w].sessions = @ \ {j}, ![w].left = @ \cup leaves]
    <3>1. PICK leaves \in SUBSET {j} :
              proc' = [proc EXCEPT ![w].sessions = @ \ {j}, ![w].left = @ \cup leaves]
      BY <2>2
    <3> DEFINE L == proc[w].left \cup leaves
    <3>2. L \in SUBSET Jobs
      BY <1>1, <2>2, ProcessFields
    <3>3. proc' = [proc EXCEPT ![w] = Cut(proc[w], S, L)]
      BY <3>1 DEF Cut, SetSessions, SetLeft
    <3> HIDE DEF S, L
    <3> QED
      BY <1>1, <1>6, <3>2, <3>3, CutFacts
  <2> QED
    BY <2>1, <2>2 DEF StopTaken
<1> HIDE DEF S
<1>8. PICK p \in Process :
        /\ proc' = [proc EXCEPT ![w] = p]
        /\ p.state = proc[w].state /\ p.shut = proc[w].shut /\ p.busy = proc[w].busy
        /\ p.sessions = S
  BY <1>7
<1>11. /\ proc' \in [Workers -> Process] /\ proc'[w] = p
       /\ \A v \in Workers : v # w => proc'[v] = proc[v]
  BY <1>8, Replaced DEF Mail, WorkerTypeOK
<1>9. /\ UNCHANGED <<pending, trouble>> /\ proc[w].busy = None
      /\ Head(input[w]).type = "stop"
  BY DEF StopTaken, Reads
<1>10. WorkerEffect(w)
  BY <1>3, <1>5, <1>8, <1>9, <1>11
  DEF Mail, WorkerTypeOK, PendingIsMail, WorkerEffect, OthersRest, SameShut, EofStays, Alive
<1> QED
  BY <1>1, <1>3, <1>4, <1>5, <1>8, <1>9, <1>10, <1>11 DEF S

LEMMA ShutdownTakenFacts ==
  ASSUME Mail, NEW w \in Workers, ShutdownTaken(w)
  PROVE  /\ WorkerEffect(w) /\ pending' = pending /\ output' = output
         /\ input[w] # <<>> /\ input'[w] = Tail(input[w])
         /\ proc'[w].busy = proc[w].busy /\ proc'[w].sessions = {}
<1>1. /\ proc[w] \in Process /\ input[w] \in Seq(Message) /\ input[w] # <<>>
  BY DEF Mail, WorkerTypeOK, ShutdownTaken, Reads
<1>2. Tail(input[w]) \in Seq(Message) /\ input' = [input EXCEPT ![w] = Tail(input[w])]
  BY <1>1, QueueFacts DEF ShutdownTaken, Reads
<1>3. /\ input' \in [Workers -> Seq(Message)] /\ input'[w] = Tail(input[w])
      /\ \A v \in Workers : v # w => input'[v] = input[v]
  BY <1>2, Replaced DEF Mail, WorkerTypeOK
<1>4. proc' = [proc EXCEPT ![w] = Cut(proc[w], {}, {})]
  BY DEF ShutdownTaken, Cut, SetSessions, SetLeft
<1>5. /\ proc' \in [Workers -> Process] /\ proc'[w] = Cut(proc[w], {}, {})
      /\ \A v \in Workers : v # w => proc'[v] = proc[v]
  BY <1>1, <1>4, CutFacts, Replaced DEF Mail, WorkerTypeOK
<1>6. /\ proc'[w].state = proc[w].state /\ proc'[w].shut = proc[w].shut
      /\ proc'[w].busy = proc[w].busy /\ proc'[w].sessions = {}
  BY <1>1, <1>5, CutFacts
<1>7. UNCHANGED <<output, pending, trouble>>
  BY DEF ShutdownTaken
<1>8. WorkerEffect(w)
  BY <1>3, <1>5, <1>6, <1>7
  DEF Mail, WorkerTypeOK, PendingIsMail, WorkerEffect, OthersRest, SameShut, EofStays, Alive
<1> QED
  BY <1>1, <1>3, <1>6, <1>7, <1>8

(* What a shutdown that throws leaves of a process.                        *)
LEMMA PartlyClosedFacts ==
  ASSUME Mail, NEW w \in Workers, NEW stuck \in BOOLEAN, PartlyClosed(w, stuck)
  PROVE  /\ proc' \in [Workers -> Process]
         /\ proc'[w].state = proc[w].state /\ proc'[w].shut = proc[w].shut
         /\ proc'[w].busy = proc[w].busy /\ proc'[w].sessions \subseteq proc[w].sessions
         /\ \A v \in Workers : v # w => proc'[v] = proc[v]
<1>1. PICK gone \in SUBSET proc[w].sessions :
        \E leaves \in {{}} \cup {{j} : j \in gone} :
            proc' = [proc EXCEPT ![w].sessions = @ \ gone, ![w].left = @ \cup leaves,
                                 ![w].stuck = stuck]
  BY DEF PartlyClosed
<1>2. PICK leaves \in {{}} \cup {{j} : j \in gone} :
        proc' = [proc EXCEPT ![w].sessions = @ \ gone, ![w].left = @ \cup leaves,
                             ![w].stuck = stuck]
  BY <1>1
<1>3. proc[w] \in Process
  BY DEF Mail, WorkerTypeOK
<1> DEFINE S == proc[w].sessions \ gone
           L == proc[w].left \cup leaves
<1>4. leaves \subseteq gone
  BY <1>2
<1>5. S \in SUBSET Jobs /\ L \in SUBSET Jobs /\ S \subseteq proc[w].sessions
  BY <1>3, <1>4, ProcessFields
<1>6. proc' = [proc EXCEPT ![w] = Torn(proc[w], S, L, stuck)]
  BY <1>2 DEF Torn, SetSessions, SetLeft, SetStuck
<1> HIDE DEF S, L
<1>7. /\ proc' \in [Workers -> Process] /\ proc'[w] = Torn(proc[w], S, L, stuck)
      /\ \A v \in Workers : v # w => proc'[v] = proc[v]
  BY <1>3, <1>5, <1>6, TornFacts, Replaced DEF Mail, WorkerTypeOK
<1> QED
  BY <1>3, <1>5, <1>7, TornFacts

LEMMA ShutdownFailsFacts ==
  ASSUME Mail, NEW w \in Workers, ShutdownFails(w)
  PROVE  /\ WorkerEffect(w) /\ pending' = pending
         /\ input[w] # <<>> /\ input'[w] = Tail(input[w])
         /\ proc'[w].busy = proc[w].busy /\ proc'[w].sessions \subseteq proc[w].sessions
         /\ \E m \in Message : m.type = "error" /\ output'[w] = Append(output[w], m)
<1>1. /\ input[w] \in Seq(Message) /\ input[w] # <<>> /\ output[w] \in Seq(Message)
  BY DEF Mail, WorkerTypeOK, ShutdownFails, Reads
<1>2. Tail(input[w]) \in Seq(Message) /\ input' = [input EXCEPT ![w] = Tail(input[w])]
  BY <1>1, QueueFacts DEF ShutdownFails, Reads
<1>3. /\ input' \in [Workers -> Seq(Message)] /\ input'[w] = Tail(input[w])
      /\ \A v \in Workers : v # w => input'[v] = input[v]
  BY <1>2, Replaced DEF Mail, WorkerTypeOK
<1>4. PICK no \in BOOLEAN : no = FALSE
  BY Zenon
<1>5. PartlyClosed(w, no)
  BY <1>4 DEF ShutdownFails
<1>6. /\ proc' \in [Workers -> Process]
      /\ proc'[w].state = proc[w].state /\ proc'[w].shut = proc[w].shut
      /\ proc'[w].busy = proc[w].busy /\ proc'[w].sessions \subseteq proc[w].sessions
      /\ \A v \in Workers : v # w => proc'[v] = proc[v]
  BY <1>5, PartlyClosedFacts
<1>7. Thrown(None) \in Message /\ Thrown(None).type = "error"
  BY ThrownFacts
<1>8. /\ output' \in [Workers -> Seq(Message)] /\ output'[w] = Append(output[w], Thrown(None))
      /\ \A v \in Workers : v # w => output'[v] = output[v]
  BY <1>1, <1>7, QueueFacts, Replaced DEF Mail, WorkerTypeOK, ShutdownFails, Emit
<1>9. trouble' \in 0..MaxTrouble
  BY SizeAssumption DEF Mail, WorkerTypeOK, ShutdownFails, Trouble
<1>10. pending' = pending
  BY DEF ShutdownFails
<1>11. WorkerEffect(w)
  BY <1>3, <1>6, <1>8, <1>9, <1>10
  DEF Mail, WorkerTypeOK, PendingIsMail, WorkerEffect, OthersRest, SameShut, EofStays, Alive
<1> QED
  BY <1>1, <1>3, <1>6, <1>7, <1>8, <1>10, <1>11

(* The end of the process, as a record.                                    *)
LEMMA EndedFacts ==
  ASSUME Mail, NEW w \in Workers, proc' = [proc EXCEPT ![w] = Ended(w)]
  PROVE  /\ proc' \in [Workers -> Process]
         /\ proc'[w].state = "dead" /\ proc'[w].shut = proc[w].shut
         /\ proc'[w].busy = None /\ proc'[w].sessions = {}
         /\ \A v \in Workers : v # w => proc'[v] = proc[v]
<1>1. proc[w] \in Process
  BY DEF Mail, WorkerTypeOK
<1>2. PICK no \in BOOLEAN : no = FALSE
  BY Zenon
<1>3. Ended(w) = Over(proc[w], no)
  BY <1>2 DEF Ended, Over, SetState, SetBusy, SetSessions, SetLeft, SetStuck
<1>4. /\ proc' \in [Workers -> Process] /\ proc'[w] = Over(proc[w], no)
      /\ \A v \in Workers : v # w => proc'[v] = proc[v]
  BY <1>1, <1>2, <1>3, OverFacts, Replaced DEF Mail, WorkerTypeOK
<1> QED
  BY <1>1, <1>2, <1>4, OverFacts

LEMMA EndFailsFacts ==
  ASSUME Mail, NEW w \in Workers, EndFails(w)
  PROVE  /\ WorkerEffect(w) /\ pending' = pending /\ input' = input
         /\ proc'[w].busy = None /\ proc'[w].sessions \subseteq proc[w].sessions
         /\ \E m \in Message : m.type = "fatal" /\ output'[w] = Append(output[w], m)
<1>1. output[w] \in Seq(Message) /\ proc[w].busy = None
  BY DEF Mail, WorkerTypeOK, EndFails, InputEnded
<1>2. PICK yes \in BOOLEAN : yes = TRUE
  BY Zenon
<1>3. /\ proc' \in [Workers -> Process]
      /\ proc'[w].state \in {proc[w].state, "dead"} /\ proc'[w].shut = proc[w].shut
      /\ proc'[w].busy = None /\ proc'[w].sessions \subseteq proc[w].sessions
      /\ \A v \in Workers : v # w => proc'[v] = proc[v]
  <2>1. CASE PartlyClosed(w, yes)
    BY <1>1, <2>1, PartlyClosedFacts
  <2>2. CASE proc' = [proc EXCEPT ![w] = Ended(w)]
    BY <2>2, EndedFacts
  <2> QED
    BY <1>2, <2>1, <2>2 DEF EndFails
<1>4. Msg("fatal", None) \in Message /\ Msg("fatal", None).type = "fatal"
  BY MsgFacts DEF MessageTypes
<1>5. /\ output' \in [Workers -> Seq(Message)] /\ output'[w] = Append(output[w], Msg("fatal", None))
      /\ \A v \in Workers : v # w => output'[v] = output[v]
  BY <1>1, <1>4, QueueFacts, Replaced DEF Mail, WorkerTypeOK, EndFails, Emit
<1>6. trouble' \in 0..MaxTrouble
  BY SizeAssumption DEF Mail, WorkerTypeOK, EndFails, Trouble
<1>7. UNCHANGED <<input, pending>>
  BY DEF EndFails
<1>8. WorkerEffect(w)
  BY <1>3, <1>5, <1>6, <1>7
  DEF Mail, WorkerTypeOK, PendingIsMail, WorkerEffect, OthersRest, SameShut, EofStays, Alive
<1> QED
  BY <1>3, <1>4, <1>5, <1>7, <1>8

(* The process ends by itself or is killed.                                *)
LEMMA EndFacts ==
  ASSUME Mail, NEW w \in Workers, Exit(w) \/ Crash(w)
  PROVE  /\ WorkerEffect(w) /\ pending' = pending /\ output' = output
         /\ input'[w] = input[w] \/ input'[w] = <<>>
         /\ proc'[w].busy = None /\ proc'[w].sessions = {}
<1>3. proc' = [proc EXCEPT ![w] = Ended(w)] /\ UNCHANGED <<output, pending>>
  BY DEF Exit, Crash
<1>4. /\ proc' \in [Workers -> Process]
      /\ proc'[w].state = "dead" /\ proc'[w].shut = proc[w].shut
      /\ proc'[w].busy = None /\ proc'[w].sessions = {}
      /\ \A v \in Workers : v # w => proc'[v] = proc[v]
  BY <1>3, EndedFacts
<1>6. trouble' \in 0..MaxTrouble
  BY SizeAssumption DEF Mail, WorkerTypeOK, Exit, Crash, Trouble
<1>7. /\ input' \in [Workers -> Seq(Message)] /\ (input'[w] = input[w] \/ input'[w] = <<>>)
      /\ \A v \in Workers : v # w => input'[v] = input[v]
  <2>1. CASE input' = input
    BY <2>1 DEF Mail, WorkerTypeOK
  <2>2. CASE input' = [input EXCEPT ![w] = <<>>]
    BY <2>2, Replaced DEF Mail, WorkerTypeOK
  <2> QED
    BY <2>1, <2>2 DEF Exit, Crash
<1>8. WorkerEffect(w)
  BY <1>3, <1>4, <1>6, <1>7
  DEF Mail, WorkerTypeOK, PendingIsMail, WorkerEffect, OthersRest, SameShut, EofStays, Alive
<1> QED
  BY <1>3, <1>4, <1>7, <1>8

LEMMA ActivityFailsFacts ==
  ASSUME Mail, NEW w \in Workers, ActivityFails(w)
  PROVE  /\ WorkerEffect(w) /\ pending' = pending /\ input' = input /\ proc' = proc
         /\ \E m \in Message : m.type = "error" /\ output'[w] = Append(output[w], m)
<1>1. proc[w] \in Process /\ output[w] \in Seq(Message)
  BY DEF Mail, WorkerTypeOK
<1>2. PICK j \in proc[w].held : output' = [output EXCEPT ![w] = Append(output[w], Msg("error", j))]
  BY DEF ActivityFails, Emit
<1>3. Msg("error", j) \in Message /\ Msg("error", j).type = "error"
  BY <1>1, ProcessFields, MsgFacts DEF MessageTypes
<1>4. /\ output' \in [Workers -> Seq(Message)] /\ output'[w] = Append(output[w], Msg("error", j))
      /\ \A v \in Workers : v # w => output'[v] = output[v]
  BY <1>1, <1>2, <1>3, QueueFacts, Replaced DEF Mail, WorkerTypeOK
<1>5. trouble' \in 0..MaxTrouble
  BY SizeAssumption DEF Mail, WorkerTypeOK, ActivityFails, Trouble
<1>6. UNCHANGED <<proc, input, pending>>
  BY DEF ActivityFails
<1>7. WorkerEffect(w)
  BY <1>4, <1>5, <1>6
  DEF Mail, WorkerTypeOK, PendingIsMail, WorkerEffect, OthersRest, SameShut, EofStays, Alive
<1> QED
  BY <1>3, <1>4, <1>6, <1>7

LEMMA DeliverFacts ==
  ASSUME Mail, NEW w \in Workers, Deliver(w)
  PROVE  /\ WorkerEffect(w) /\ input' = input /\ proc' = proc
         /\ output[w] # <<>> /\ output'[w] = Tail(output[w])
         /\ \A j \in DOMAIN pending[w] :
               \/ pending'[w][j] = pending[w][j]
               \/ /\ Head(output[w]).id \in {j, None}
                  /\ pending'[w][j] = Append(pending[w][j], Head(output[w]))
<1>1. output[w] \in Seq(Message) /\ output[w] # <<>>
  BY DEF Mail, WorkerTypeOK, Deliver
<1>2. Tail(output[w]) \in Seq(Message) /\ Head(output[w]) \in Message
  BY <1>1, QueueFacts
<1>3. /\ output' \in [Workers -> Seq(Message)] /\ output'[w] = Tail(output[w])
      /\ \A v \in Workers : v # w => output'[v] = output[v]
  BY <1>2, Replaced DEF Mail, WorkerTypeOK, Deliver
<1>4. UNCHANGED <<proc, input, trouble>>
  BY DEF Deliver
<1> DEFINE R == Recipients(w, Head(output[w]))
<1>5. Offer(w, Head(output[w]), R)
  BY DEF Deliver
<1>6. /\ PendingIsMail'
      /\ DOMAIN pending'[w] = DOMAIN pending[w]
      /\ \A v \in Workers : v # w => pending'[v] = pending[v]
      /\ \A j \in DOMAIN pending[w] :
            \/ pending'[w][j] = pending[w][j]
            \/ j \in R /\ pending'[w][j] = Append(pending[w][j], Head(output[w]))
      /\ \A v \in Workers : /\ DOMAIN pending'[v] \subseteq Jobs
                            /\ \A j \in DOMAIN pending'[v] : pending'[v][j] \in Seq(Message)
  <2> HIDE DEF R
  <2> QED
    BY <1>2, <1>5, OfferFacts DEF Mail, WorkerTypeOK
<1>7. \A j \in DOMAIN pending[w] : j \in R => Head(output[w]).id \in {j, None}
  BY DEF Recipients
<1> HIDE DEF R
<1>8. WorkerEffect(w)
  BY <1>3, <1>4, <1>6
  DEF Mail, WorkerTypeOK, WorkerEffect, OthersRest, SameShut, EofStays, Alive
<1> QED
  BY <1>1, <1>3, <1>4, <1>6, <1>7, <1>8

LEMMA ReaderLeavesFacts ==
  ASSUME Mail, NEW w \in Workers, ReaderEnds(w) \/ ReaderFails(w)
  PROVE  /\ WorkerEffect(w) /\ input' = input /\ output'[w] = <<>>
         /\ proc'[w].busy = proc[w].busy /\ proc'[w].sessions = proc[w].sessions
         /\ \E m \in Message : m.type = "fatal" /\ \A j \in DOMAIN pending[w] :
               \/ pending'[w][j] = pending[w][j]
               \/ pending'[w][j] = Append(pending[w][j], m)
<1>1. proc[w] \in Process
  BY DEF Mail, WorkerTypeOK
<1>2. PICK no \in BOOLEAN : no = FALSE
  BY Zenon
<1>3. proc' = [proc EXCEPT ![w] = Deaf(proc[w], no)]
  BY <1>2 DEF ReaderEnds, ReaderFails, ReaderLeaves, Deaf, SetReader, SetHeld
<1>4. /\ proc' \in [Workers -> Process] /\ proc'[w] = Deaf(proc[w], no)
      /\ \A v \in Workers : v # w => proc'[v] = proc[v]
  BY <1>1, <1>2, <1>3, DeafFacts, Replaced DEF Mail, WorkerTypeOK
<1>5. /\ proc'[w].state = proc[w].state /\ proc'[w].shut = proc[w].shut
      /\ proc'[w].busy = proc[w].busy /\ proc'[w].sessions = proc[w].sessions
  BY <1>1, <1>2, <1>4, DeafFacts
<1>6. output' = [output EXCEPT ![w] = <<>>] /\ input' = input
  BY DEF ReaderEnds, ReaderFails, ReaderLeaves
<1>7. /\ output' \in [Workers -> Seq(Message)] /\ output'[w] = <<>>
      /\ \A v \in Workers : v # w => output'[v] = output[v]
  BY <1>6, Replaced DEF Mail, WorkerTypeOK
<1> DEFINE m == Msg("fatal", None)
           R == DOMAIN pending[w]
<1>8. Offer(w, m, R)
  BY DEF ReaderEnds, ReaderFails, ReaderLeaves
<1>9. m \in Message /\ m.type = "fatal"
  BY MsgFacts DEF MessageTypes
<1> HIDE DEF m, R
<1>10. /\ PendingIsMail'
       /\ DOMAIN pending'[w] = DOMAIN pending[w]
       /\ \A v \in Workers : v # w => pending'[v] = pending[v]
       /\ \A j \in DOMAIN pending[w] :
             \/ pending'[w][j] = pending[w][j]
             \/ j \in R /\ pending'[w][j] = Append(pending[w][j], m)
       /\ \A v \in Workers : /\ DOMAIN pending'[v] \subseteq Jobs
                             /\ \A j \in DOMAIN pending'[v] : pending'[v][j] \in Seq(Message)
  BY <1>8, <1>9, OfferFacts DEF Mail, WorkerTypeOK
<1>11. trouble' \in 0..MaxTrouble
  BY SizeAssumption DEF Mail, WorkerTypeOK, ReaderEnds, ReaderFails, Trouble
<1>12. WorkerEffect(w)
  BY <1>4, <1>5, <1>6, <1>7, <1>10, <1>11
  DEF Mail, WorkerTypeOK, WorkerEffect, OthersRest, SameShut, EofStays, Alive
<1> QED
  BY <1>5, <1>6, <1>7, <1>9, <1>10, <1>12

LEMMA WrittenFacts ==
  ASSUME Mail, NEW w \in Workers, NEW m \in Message, Written(w, m)
  PROVE  /\ input' \in [Workers -> Seq(Message)]
         /\ input'[w] = IF Writable(w) THEN Append(input[w], m) ELSE input[w]
         /\ \A v \in Workers : v # w => input'[v] = input[v]
<1>1. input[w] \in Seq(Message)
  BY DEF Mail, WorkerTypeOK
<1>2. Append(input[w], m) \in Seq(Message)
  BY <1>1, QueueFacts
<1> DEFINE new == IF Writable(w) THEN Append(input[w], m) ELSE input[w]
<1>3. new \in Seq(Message) /\ input' = [input EXCEPT ![w] = new]
  BY <1>1, <1>2 DEF Written
<1> HIDE DEF new
<1>4. /\ input' \in [Workers -> Seq(Message)] /\ input'[w] = new
      /\ \A v \in Workers : v # w => input'[v] = input[v]
  BY <1>3, Replaced DEF Mail, WorkerTypeOK
<1> QED
  BY <1>4 DEF new

(* The two steps of the closing of a worker.                               *)
LEMMA ClosingFacts ==
  ASSUME Mail, NEW w \in Workers, Closing(w)
  PROVE  /\ WorkerEffect(w) /\ pending' = pending /\ output' = output
         /\ proc'[w].busy = proc[w].busy /\ proc'[w].sessions = proc[w].sessions
         /\ \/ input'[w] = input[w]
            \/ \E m \in Message : m.type = "shutdown" /\ input'[w] = Append(input[w], m)
<1>1. proc[w] \in Process
  BY DEF Mail, WorkerTypeOK
<1>2. PICK shut \in Shuts : shut # "open" /\ proc' = [proc EXCEPT ![w] = Shutting(proc[w], shut)]
  BY DEF Closing, SendShutdown, CloseInput, Shutting, SetShut, Shuts
<1>3. /\ proc' \in [Workers -> Process] /\ proc'[w] = Shutting(proc[w], shut)
      /\ \A v \in Workers : v # w => proc'[v] = proc[v]
  BY <1>1, <1>2, ShuttingFacts, Replaced DEF Mail, WorkerTypeOK
<1>4. /\ proc'[w].state = proc[w].state /\ proc'[w].shut # "open"
      /\ proc[w].shut \notin {"open", "eof"}
      /\ proc'[w].busy = proc[w].busy /\ proc'[w].sessions = proc[w].sessions
  BY <1>1, <1>2, <1>3, ShuttingFacts DEF Closing, SendShutdown, CloseInput
<1>5. /\ input' \in [Workers -> Seq(Message)]
      /\ \/ input'[w] = input[w]
         \/ \E m \in Message : m.type = "shutdown" /\ input'[w] = Append(input[w], m)
      /\ \A v \in Workers : v # w => input'[v] = input[v]
  <2>1. Msg("shutdown", None) \in Message /\ Msg("shutdown", None).type = "shutdown"
    BY MsgFacts DEF MessageTypes
  <2>2. CASE Written(w, Msg("shutdown", None))
    BY <2>1, <2>2, WrittenFacts
  <2>3. CASE input' = input
    BY <2>3 DEF Mail, WorkerTypeOK
  <2> QED
    BY <2>2, <2>3 DEF Closing, SendShutdown, CloseInput
<1>6. UNCHANGED <<output, pending, trouble>>
  BY DEF Closing, SendShutdown, CloseInput
<1>7. WorkerEffect(w)
  BY <1>3, <1>4, <1>5, <1>6
  DEF Mail, WorkerTypeOK, PendingIsMail, WorkerEffect, OthersRest, SameShut, EofStays, Alive
<1> QED
  BY <1>4, <1>5, <1>6, <1>7

-----------------------------------------------------------------------------
(* The calls and the slots                                                 *)

PendingTyped ==
    /\ PendingIsMail
    /\ \A w \in Workers :
          /\ DOMAIN pending[w] \subseteq Jobs
          /\ \A j \in DOMAIN pending[w] : pending[w][j] \in Seq(Message)

CallsTyped == call \in [Jobs -> Call]

(* The calls of the other jobs rest.                                       *)
OtherCallsRest(j) == \A k \in Jobs : k # j => call'[k] = call[k]

LEMMA CallReplaced ==
  ASSUME CallsTyped, NEW j \in Jobs, NEW c \in Call, call' = [call EXCEPT ![j] = c]
  PROVE  CallsTyped' /\ call'[j] = c /\ OtherCallsRest(j)
  BY DEF CallsTyped, OtherCallsRest

LEMMA GoesFacts ==
  ASSUME CallsTyped, NEW j \in Jobs, NEW where \in Places, Goes(j, where)
  PROVE  /\ CallsTyped' /\ OtherCallsRest(j)
         /\ call'[j].at = where
         /\ call'[j].slot = call[j].slot /\ call'[j].gen = call[j].gen
         /\ call'[j].result = call[j].result /\ call'[j].retry = call[j].retry
<1>1. call[j] \in Call
  BY DEF CallsTyped
<1>2. call' = [call EXCEPT ![j] = MovedCall(call[j], where)]
  BY DEF Goes, MovedCall
<1>3. MovedCall(call[j], where) \in Call
  BY <1>1, MovedCallFacts
<1>4. CallsTyped' /\ call'[j] = MovedCall(call[j], where) /\ OtherCallsRest(j)
  BY <1>2, <1>3, CallReplaced
<1> QED
  BY <1>1, <1>4, MovedCallFacts

LEMMA PlaceNames ==
  /\ "idle" \in Places /\ "queued" \in Places /\ "registering" \in Places
  /\ "sending" \in Places /\ "receiving" \in Places /\ "draining" \in Places
  /\ "judging" \in Places /\ "closing" \in Places /\ "creating" \in Places
  BY DEF Places

LEMMA ResultNames ==
  "none" \in Results /\ "ok" \in Results /\ "cancelled" \in Results /\ "failed" \in Results
  BY DEF Results

(* A registration ends, and only that one.                                 *)
LEMMA EndsFacts ==
  ASSUME PendingTyped, CallsTyped, NEW j \in Jobs, WorkerOf(j) \in Workers,
         NEW res \in Results, NEW m \in Message, Ends(j, res, m)
  PROVE  /\ CallsTyped' /\ OtherCallsRest(j)
         /\ call'[j].at = "judging" /\ call'[j].result = res
         /\ call'[j].slot = call[j].slot /\ call'[j].gen = call[j].gen
         /\ PendingTyped'
         /\ \A w \in Workers :
               /\ DOMAIN pending[w] \subseteq DOMAIN pending'[w] \cup {j}
               /\ DOMAIN pending'[w] \subseteq DOMAIN pending[w]
               /\ \A k \in DOMAIN pending'[w] : pending'[w][k] = pending[w][k]
<1>1. call[j] \in Call
  BY DEF CallsTyped
<1>2. call' = [call EXCEPT ![j] = EndedCall(call[j], res, m)]
  BY DEF Ends, EndedCall
<1>3. EndedCall(call[j], res, m) \in Call
  BY <1>1, EndedCallFacts
<1>4. CallsTyped' /\ call'[j] = EndedCall(call[j], res, m) /\ OtherCallsRest(j)
  BY <1>2, <1>3, CallReplaced
<1>5. /\ call'[j].at = "judging" /\ call'[j].result = res
      /\ call'[j].slot = call[j].slot /\ call'[j].gen = call[j].gen
  BY <1>1, <1>4, EndedCallFacts
<1> DEFINE v == WorkerOf(j)
           new == [k \in DOMAIN pending[v] \ {j} |-> pending[v][k]]
<1>6. pending' = [pending EXCEPT ![v] = new]
  BY DEF Ends
<1>7. /\ DOMAIN new = DOMAIN pending[v] \ {j}
      /\ \A k \in DOMAIN new : new[k] = pending[v][k]
      /\ new = [k \in DOMAIN new |-> new[k]]
  OBVIOUS
<1> HIDE DEF new, v
<1>8. v \in Workers
  BY DEF v
<1>9. pending' = [w \in Workers |-> IF w = v THEN new ELSE pending[w]]
  BY <1>6 DEF PendingTyped, PendingIsMail
<1>10. pending'[v] = new /\ \A w \in Workers : w # v => pending'[w] = pending[w]
  BY <1>8, <1>9
<1>11. PendingTyped'
  <2>1. \A w \in Workers : pending'[w] = new \/ pending'[w] = pending[w]
    BY <1>10
  <2>2. DOMAIN new \subseteq Jobs /\ \A k \in DOMAIN new : new[k] \in Seq(Message)
    BY <1>7, <1>8 DEF PendingTyped
  <2>3. pending' = [w \in Workers |-> pending'[w]]
    BY <1>9
  <2>4. \A w \in Workers : pending'[w] = [k \in DOMAIN pending'[w] |-> pending'[w][k]]
    BY <1>7, <2>1 DEF PendingTyped, PendingIsMail
  <2>5. \A w \in Workers : /\ DOMAIN pending'[w] \subseteq Jobs
                           /\ \A k \in DOMAIN pending'[w] : pending'[w][k] \in Seq(Message)
    BY <2>1, <2>2 DEF PendingTyped
  <2> QED
    BY <2>3, <2>4, <2>5 DEF PendingTyped, PendingIsMail
<1> QED
  BY <1>4, <1>5, <1>7, <1>10, <1>11

(* A message is taken by the call that waits for it.                       *)
LEMMA TakenFacts ==
  ASSUME PendingTyped, NEW j \in Jobs, WorkerOf(j) \in Workers,
         j \in DOMAIN pending[WorkerOf(j)], Waiting(j) # <<>>, Taken(j)
  PROVE  /\ PendingTyped'
         /\ pending'[WorkerOf(j)][j] = Tail(pending[WorkerOf(j)][j])
         /\ \A w \in Workers :
               /\ DOMAIN pending'[w] = DOMAIN pending[w]
               /\ \A k \in DOMAIN pending[w] :
                     (w = WorkerOf(j) /\ k = j) \/ pending'[w][k] = pending[w][k]
<1> DEFINE v == WorkerOf(j)
           rest == Tail(pending[v][j])
           new == [k \in DOMAIN pending[v] |-> IF k = j THEN rest ELSE pending[v][k]]
<1>1. rest \in Seq(Message)
  BY QueueFacts DEF PendingTyped, Waiting
<1>2. pending' = [pending EXCEPT ![v] = new]
  <2>1. pending[v] = [k \in DOMAIN pending[v] |-> pending[v][k]]
    BY DEF PendingTyped, PendingIsMail
  <2>2. [pending[v] EXCEPT ![j] = rest] = new
    BY <2>1
  <2>3. pending' = [pending EXCEPT ![v] = [pending[v] EXCEPT ![j] = rest]]
    BY DEF Taken
  <2> QED
    BY <2>2, <2>3
<1>3. /\ DOMAIN new = DOMAIN pending[v]
      /\ \A k \in DOMAIN new : new[k] = IF k = j THEN rest ELSE pending[v][k]
      /\ new = [k \in DOMAIN new |-> new[k]]
  OBVIOUS
<1> HIDE DEF new, rest, v
<1>4. v \in Workers /\ j \in DOMAIN pending[v]
  BY DEF v
<1>5. pending' = [w \in Workers |-> IF w = v THEN new ELSE pending[w]]
  BY <1>2 DEF PendingTyped, PendingIsMail
<1>6. pending'[v] = new /\ \A w \in Workers : w # v => pending'[w] = pending[w]
  BY <1>4, <1>5
<1>7. PendingTyped'
  <2>1. \A w \in Workers : pending'[w] = new \/ pending'[w] = pending[w]
    BY <1>6
  <2>2. DOMAIN new \subseteq Jobs /\ \A k \in DOMAIN new : new[k] \in Seq(Message)
    BY <1>1, <1>3, <1>4 DEF PendingTyped
  <2>3. pending' = [w \in Workers |-> pending'[w]]
    BY <1>5
  <2>4. \A w \in Workers : pending'[w] = [k \in DOMAIN pending'[w] |-> pending'[w][k]]
    BY <1>3, <2>1 DEF PendingTyped, PendingIsMail
  <2>5. \A w \in Workers : /\ DOMAIN pending'[w] \subseteq Jobs
                           /\ \A k \in DOMAIN pending'[w] : pending'[w][k] \in Seq(Message)
    BY <2>1, <2>2 DEF PendingTyped
  <2> QED
    BY <2>3, <2>4, <2>5 DEF PendingTyped, PendingIsMail
<1>8. new[j] = rest /\ \A k \in DOMAIN pending[v] : k = j \/ new[k] = pending[v][k]
  BY <1>3, <1>4
<1> QED
  BY <1>3, <1>6, <1>7, <1>8 DEF v, rest

-----------------------------------------------------------------------------
(* The slots: a call holds one at most, and it is counted                  *)

LEMMA HoldersAreFinite ==
  ASSUME NEW s
  PROVE  IsFiniteSet(Holders(s)) /\ Cardinality(Holders(s)) \in Nat
  BY JobsAssumption, FS_Subset, FS_CardinalityType DEF Holders

LEMMA SlotsKept ==
  ASSUME SlotsConserved, avail' = avail,
         \A k \in Jobs, s \in Slots : Holds(k, s)' <=> Holds(k, s)
  PROVE  SlotsConserved'
<1> SUFFICES ASSUME NEW s \in Slots
             PROVE  avail'[s] + Cardinality({k \in Jobs : Holds(k, s)'}) = PerWorker
  BY DEF SlotsConserved
<1>1. {k \in Jobs : Holds(k, s)'} = {k \in Jobs : Holds(k, s)}
  OBVIOUS
<1> QED
  BY <1>1 DEF SlotsConserved

LEMMA SlotTaken ==
  ASSUME SlotsConserved, avail \in [Slots -> 0..PerWorker], NEW j \in Jobs, NEW t \in Slots,
         avail' = [avail EXCEPT ![t] = @ - 1],
         \A s \in Slots : ~Holds(j, s),
         \A k \in Jobs, s \in Slots : Holds(k, s)' <=> Holds(k, s) \/ (k = j /\ s = t)
  PROVE  SlotsConserved'
<1> SUFFICES ASSUME NEW s \in Slots
             PROVE  avail'[s] + Cardinality({k \in Jobs : Holds(k, s)'}) = PerWorker
  BY DEF SlotsConserved
<1>1. avail[s] + Cardinality(Holders(s)) = PerWorker
  BY DEF SlotsConserved, Holders
<1>2. CASE s = t
  <2>1. {k \in Jobs : Holds(k, s)'} = Holders(s) \cup {j}
    BY <1>2 DEF Holders
  <2>2. j \notin Holders(s)
    BY DEF Holders
  <2>3. Cardinality(Holders(s) \cup {j}) = Cardinality(Holders(s)) + 1
    BY <2>2, HoldersAreFinite, FS_AddElement
  <2>4. avail'[s] = avail[s] - 1 /\ avail[s] \in Nat
    BY <1>2, PerWorkerAssumption
  <2> QED
    BY <1>1, <2>1, <2>3, <2>4, HoldersAreFinite
<1>3. CASE s # t
  <2>1. {k \in Jobs : Holds(k, s)'} = Holders(s)
    BY <1>3 DEF Holders
  <2> QED
    BY <1>1, <1>3, <2>1
<1> QED
  BY <1>2, <1>3

LEMMA SlotGiven ==
  ASSUME SlotsConserved, avail \in [Slots -> 0..PerWorker], NEW j \in Jobs, NEW t \in Slots,
         avail' = [avail EXCEPT ![t] = @ + 1],
         Holds(j, t),
         \A s \in Slots : ~Holds(j, s)',
         \A k \in Jobs, s \in Slots : k # j => (Holds(k, s)' <=> Holds(k, s))
  PROVE  SlotsConserved'
<1> SUFFICES ASSUME NEW s \in Slots
             PROVE  avail'[s] + Cardinality({k \in Jobs : Holds(k, s)'}) = PerWorker
  BY DEF SlotsConserved
<1>1. avail[s] + Cardinality(Holders(s)) = PerWorker
  BY DEF SlotsConserved, Holders
<1>2. CASE s = t
  <2>1. {k \in Jobs : Holds(k, s)'} = Holders(s) \ {j}
    BY <1>2 DEF Holders
  <2>2. j \in Holders(s)
    BY <1>2 DEF Holders
  <2>3. Cardinality(Holders(s) \ {j}) = Cardinality(Holders(s)) - 1
    BY <2>2, HoldersAreFinite, FS_RemoveElement
  <2>4. avail'[s] = avail[s] + 1 /\ avail[s] \in Nat
    BY <1>2, PerWorkerAssumption
  <2> QED
    BY <1>1, <2>1, <2>3, <2>4, HoldersAreFinite
<1>3. CASE s # t
  <2>1. ~Holds(j, s)
    BY <1>3 DEF Holds
  <2>2. {k \in Jobs : Holds(k, s)'} = Holders(s)
    BY <2>1 DEF Holders
  <2> QED
    BY <1>1, <1>3, <2>2
<1> QED
  BY <1>2, <1>3

(* What is counted is bounded.                                             *)
LEMMA AvailIsBounded ==
  ASSUME SlotsConserved, avail \in [Slots -> Nat]
  PROVE  avail \in [Slots -> 0..PerWorker]
<1> SUFFICES ASSUME NEW s \in Slots
             PROVE  avail[s] \in 0..PerWorker
  OBVIOUS
<1>1. avail[s] + Cardinality(Holders(s)) = PerWorker
  BY DEF SlotsConserved, Holders
<1> QED
  BY <1>1, HoldersAreFinite, PerWorkerAssumption

(* With one session a worker, two calls do not hold the same slot.         *)
LEMMA HolderIsAlone ==
  ASSUME SlotsConserved, avail \in [Slots -> 0..PerWorker], PerWorker = 1,
         NEW s \in Slots, NEW j \in Jobs, NEW k \in Jobs, Holds(j, s), Holds(k, s)
  PROVE  j = k
<1> SUFFICES ASSUME j # k
             PROVE  FALSE
  OBVIOUS
<1>1. avail[s] + Cardinality(Holders(s)) = 1
  BY DEF SlotsConserved, Holders
<1>2. Cardinality(Holders(s)) <= 1
  BY <1>1, HoldersAreFinite
<1>3. {j} \cup {k} \subseteq Holders(s)
  BY DEF Holders
<1>4. Cardinality({j} \cup {k}) <= Cardinality(Holders(s))
  BY <1>3, HoldersAreFinite, FS_Subset
<1>5. Cardinality({j}) = 1 /\ IsFiniteSet({j})
  BY FS_Singleton
<1>6. k \notin {j}
  OBVIOUS
<1>7. Cardinality({j} \cup {k}) = Cardinality({j}) + 1
  BY <1>5, <1>6, FS_AddElement
<1> QED
  BY <1>2, <1>4, <1>5, <1>7, HoldersAreFinite

-----------------------------------------------------------------------------
(* The first layer, call by call                                           *)

LEMMA TypedGives ==
  ASSUME Typed
  PROVE  /\ Mail /\ PendingTyped /\ CallsTyped
         /\ \A j \in Jobs : Engaged(j) => WorkerOf(j) \in Workers
         /\ \A j \in Jobs : call[j] \in Call
  BY DEF Typed, TypeOK, Mail, WorkerTypeOK, PendingTyped, CallsTyped, CallsKnowTheirWorker,
         WorkerOf, Workers

(* Nothing that waits for a call is new.                                   *)
PendingShrinks ==
    \A w \in Workers : \A k \in DOMAIN pending'[w] :
        \/ pending'[w][k] = <<>>
        \/ /\ k \in DOMAIN pending[w]
           /\ \/ pending'[w][k] = pending[w][k]
              \/ pending[w][k] # <<>> /\ pending'[w][k] = Tail(pending[w][k])

(* A call goes on with the worker that it has.                             *)
StaysEngaged(j) ==
    /\ CallsTyped' /\ OtherCallsRest(j)
    /\ Engaged(j) /\ Engaged(j)'
    /\ call'[j].slot = call[j].slot /\ call'[j].gen = call[j].gen
    /\ UNCHANGED <<avail, clients, called, closer, ctxDone>>

LEMMA EngagedStep ==
  ASSUME Typed, NEW j \in Jobs, StaysEngaged(j), Mail',
         \A w \in Workers : proc[w].shut # "open" => proc'[w].shut # "open",
         \A w \in Workers : \A k \in Jobs :
            k # j /\ k \in DOMAIN pending[w] => k \in DOMAIN pending'[w],
         Registered(j)' => j \in DOMAIN pending'[WorkerOf(j)],
         call'[j].at \in {"closing", "creating"} =>
            PerWorker = 1 /\ proc'[WorkerOf(j)].shut # "open"
  PROVE  Typed'
<1>1. TypeOK' /\ PendingIsMail'
  BY DEF Typed, TypeOK, Mail, StaysEngaged, CallsTyped
<1>2. SlotsConserved'
  <2>1. ASSUME NEW k \in Jobs, NEW s \in Slots
        PROVE  Holds(k, s)' <=> Holds(k, s)
    BY DEF Holds, StaysEngaged, OtherCallsRest, Engaged
  <2> QED
    BY <2>1, SlotsKept DEF Typed, StaysEngaged
<1>3. CallsKnowTheirWorker'
  <2> SUFFICES ASSUME NEW k \in Jobs, Engaged(k)'
               PROVE  /\ call'[k].slot \in Slots
                      /\ call'[k].gen \in 1..Generations
                      /\ call'[k].gen = clients'[call'[k].slot]
                      /\ Registered(k)' => k \in DOMAIN pending'[<<call'[k].slot, call'[k].gen>>]
    BY DEF CallsKnowTheirWorker, WorkerOf
  <2>1. CASE k = j
    BY <2>1 DEF Typed, CallsKnowTheirWorker, StaysEngaged, WorkerOf
  <2>2. CASE k # j
    <3>1. call'[k] = call[k] /\ clients' = clients
      BY <2>2 DEF StaysEngaged, OtherCallsRest
    <3>2. Engaged(k) /\ (Registered(k)' <=> Registered(k))
      BY <3>1 DEF Engaged, Registered
    <3>3. <<call[k].slot, call[k].gen>> \in Workers
      BY <3>2, TypedGives DEF WorkerOf
    <3> QED
      BY <2>2, <3>1, <3>2, <3>3 DEF Typed, CallsKnowTheirWorker, WorkerOf
  <2> QED
    BY <2>1, <2>2
<1>4. ReplacingIsExclusive'
  <2> SUFFICES ASSUME NEW k \in Jobs, call'[k].at \in {"closing", "creating"}
               PROVE  PerWorker = 1 /\ proc'[<<call'[k].slot, call'[k].gen>>].shut # "open"
    BY DEF ReplacingIsExclusive, At, WorkerOf
  <2>1. CASE k = j
    BY <2>1 DEF StaysEngaged, WorkerOf
  <2>2. CASE k # j
    <3>1. call'[k] = call[k]
      BY <2>2 DEF StaysEngaged, OtherCallsRest
    <3>2. <<call[k].slot, call[k].gen>> \in Workers
      BY <3>1, TypedGives DEF WorkerOf, Engaged
    <3> QED
      BY <3>1, <3>2 DEF Typed, ReplacingIsExclusive, At, WorkerOf
  <2> QED
    BY <2>1, <2>2
<1>5. CallersCalled'
  BY DEF Typed, CallersCalled, StaysEngaged, OtherCallsRest, At, Engaged
<1>6. CloserIsAtSlot'
  BY DEF Typed, CloserIsAtSlot, StaysEngaged
<1> QED
  BY <1>1, <1>2, <1>3, <1>4, <1>5, <1>6 DEF Typed

LEMMA RegisterFacts ==
  ASSUME Typed, NEW j \in Jobs, Register(j)
  PROVE  /\ Typed' /\ StaysEngaged(j) /\ PendingShrinks
         /\ UNCHANGED <<proc, input, output>>
         /\ call[j].at = "registering" /\ call'[j].at \in {"judging", "sending"}
         /\ call'[j].result \in {call[j].result, "failed"}
<1> DEFINE w == WorkerOf(j)
<1>1. call[j] \in Call /\ call[j].at = "registering" /\ Engaged(j) /\ w \in Workers
  BY TypedGives DEF Register, At, Engaged
<1>2. UNCHANGED <<proc, input, output, trouble, avail, clients, called, closer, ctxDone>>
  BY DEF Register, poolVars
<1>3. CASE proc[w].shut # "open" \/ j \in DOMAIN pending[w]
  <2>1. /\ call' = [call EXCEPT ![j] = RefusedCall(call[j])] /\ pending' = pending
    BY <1>3 DEF Register, RefusedCall
  <2>2. CallsTyped' /\ call'[j] = RefusedCall(call[j]) /\ OtherCallsRest(j)
    BY <1>1, <2>1, RefusedCallFacts, TypedGives, CallReplaced
  <2>3. /\ call'[j].at = "judging" /\ call'[j].result = "failed"
        /\ call'[j].slot = call[j].slot /\ call'[j].gen = call[j].gen
    BY <1>1, <2>2, RefusedCallFacts
  <2>4. StaysEngaged(j)
    BY <1>1, <1>2, <2>2, <2>3 DEF StaysEngaged, Engaged
  <2>5. Mail' /\ PendingShrinks
    BY <1>2, <2>1, TypedGives DEF Mail, WorkerTypeOK, PendingIsMail, PendingShrinks
  <2>6. Typed'
    BY <1>2, <2>1, <2>3, <2>4, <2>5, EngagedStep DEF Registered
  <2> QED
    BY <1>1, <1>2, <2>3, <2>4, <2>5, <2>6
<1>4. CASE ~(proc[w].shut # "open" \/ j \in DOMAIN pending[w])
  <2> DEFINE new == [k \in DOMAIN pending[w] \cup {j} |-> IF k = j THEN <<>> ELSE pending[w][k]]
  <2>1. Goes(j, "sending") /\ pending' = [pending EXCEPT ![w] = new]
    BY <1>4 DEF Register
  <2>2. /\ CallsTyped' /\ OtherCallsRest(j) /\ call'[j].at = "sending"
        /\ call'[j].slot = call[j].slot /\ call'[j].gen = call[j].gen
        /\ call'[j].result = call[j].result
    BY <2>1, PlaceNames, GoesFacts, TypedGives
  <2>3. /\ DOMAIN new = DOMAIN pending[w] \cup {j}
        /\ \A k \in DOMAIN new : new[k] = IF k = j THEN <<>> ELSE pending[w][k]
        /\ new = [k \in DOMAIN new |-> new[k]]
    OBVIOUS
  <2>4. DOMAIN new \subseteq Jobs /\ \A k \in DOMAIN new : new[k] \in Seq(Message)
    BY <1>1, <2>3, TypedGives DEF PendingTyped
  <2> HIDE DEF new, w
  <2>5. pending' = [v \in Workers |-> IF v = w THEN new ELSE pending[v]]
    BY <2>1, TypedGives DEF PendingTyped, PendingIsMail
  <2>6. pending'[w] = new /\ \A v \in Workers : v # w => pending'[v] = pending[v]
    BY <1>1, <2>5
  <2>7. PendingIsMail'
    BY <1>1, <2>3, <2>5, <2>6, TypedGives DEF PendingTyped, PendingIsMail
  <2>8. Mail'
    BY <1>2, <2>4, <2>6, <2>7, TypedGives DEF Mail, WorkerTypeOK
  <2>9. StaysEngaged(j)
    BY <1>1, <1>2, <2>2 DEF StaysEngaged, Engaged
  <2>10. PendingShrinks
    BY <2>3, <2>6 DEF PendingShrinks
  <2>11. \A v \in Workers : \A k \in Jobs :
            k # j /\ k \in DOMAIN pending[v] => k \in DOMAIN pending'[v]
    BY <2>3, <2>6
  <2>12. j \in DOMAIN pending'[w]
    BY <2>3, <2>6
  <2>13. Typed'
    BY <1>2, <2>2, <2>8, <2>9, <2>11, <2>12, EngagedStep DEF w
  <2> QED
    BY <1>1, <1>2, <2>2, <2>9, <2>10, <2>13
<1> QED
  BY <1>3, <1>4

(* A call that ends: what both its ways to end have in common.             *)
LEMMA EndingStep ==
  ASSUME Typed, NEW j \in Jobs, Engaged(j), NEW res \in Results, NEW m \in Message,
         Ends(j, res, m), UNCHANGED <<proc, output, trouble, poolVars, called, closer, ctxDone>>,
         input' \in [Workers -> Seq(Message)]
  PROVE  /\ Typed' /\ StaysEngaged(j) /\ PendingShrinks
         /\ call'[j].at = "judging" /\ call'[j].result = res
<1>1. WorkerOf(j) \in Workers
  BY TypedGives
<1>2. /\ CallsTyped' /\ OtherCallsRest(j)
      /\ call'[j].at = "judging" /\ call'[j].result = res
      /\ call'[j].slot = call[j].slot /\ call'[j].gen = call[j].gen
      /\ PendingTyped'
      /\ \A w \in Workers :
            /\ DOMAIN pending[w] \subseteq DOMAIN pending'[w] \cup {j}
            /\ DOMAIN pending'[w] \subseteq DOMAIN pending[w]
            /\ \A k \in DOMAIN pending'[w] : pending'[w][k] = pending[w][k]
  BY <1>1, EndsFacts, TypedGives
<1>3. Mail'
  BY <1>2, TypedGives DEF Mail, WorkerTypeOK, PendingTyped
<1>4. StaysEngaged(j)
  BY <1>2 DEF StaysEngaged, Engaged, poolVars
<1>5. PendingShrinks
  BY <1>2 DEF PendingShrinks
<1>6. Typed'
  BY <1>2, <1>3, <1>4, EngagedStep DEF Registered
<1> QED
  BY <1>2, <1>4, <1>5, <1>6

(* A call that goes on, with or without one message less.                  *)
LEMMA TalkingStep ==
  ASSUME Typed, NEW j \in Jobs, Engaged(j), CallsTyped', OtherCallsRest(j),
         call'[j].at \in {"receiving", "draining"}, Registered(j),
         call'[j].slot = call[j].slot, call'[j].gen = call[j].gen,
         UNCHANGED <<proc, output, trouble, poolVars, called, closer, ctxDone>>,
         input' \in [Workers -> Seq(Message)],
         pending' = pending \/ (Waiting(j) # <<>> /\ Taken(j))
  PROVE  Typed' /\ StaysEngaged(j) /\ PendingShrinks
<1>1. WorkerOf(j) \in Workers /\ j \in DOMAIN pending[WorkerOf(j)]
  BY TypedGives DEF Typed, CallsKnowTheirWorker
<1>2. /\ PendingTyped' /\ PendingShrinks
      /\ \A w \in Workers : DOMAIN pending'[w] = DOMAIN pending[w]
  <2>1. CASE pending' = pending
    BY <2>1, TypedGives DEF PendingTyped, PendingIsMail, PendingShrinks
  <2>2. CASE Waiting(j) # <<>> /\ Taken(j)
    <3>1. /\ PendingTyped'
          /\ pending'[WorkerOf(j)][j] = Tail(pending[WorkerOf(j)][j])
          /\ \A w \in Workers :
                /\ DOMAIN pending'[w] = DOMAIN pending[w]
                /\ \A k \in DOMAIN pending[w] :
                      (w = WorkerOf(j) /\ k = j) \/ pending'[w][k] = pending[w][k]
      BY <1>1, <2>2, TakenFacts, TypedGives
    <3> QED
      BY <2>2, <3>1 DEF PendingShrinks, Waiting
  <2> QED
    BY <2>1, <2>2
<1>3. Mail'
  BY <1>2, TypedGives DEF Mail, WorkerTypeOK, PendingTyped
<1>4. StaysEngaged(j)
  BY DEF StaysEngaged, Engaged, poolVars
<1>5. Typed'
  BY <1>1, <1>2, <1>3, <1>4, EngagedStep
<1> QED
  BY <1>2, <1>4, <1>5

LEMMA SendStartFacts ==
  ASSUME Typed, NEW j \in Jobs, SendStart(j)
  PROVE  /\ Typed' /\ StaysEngaged(j) /\ PendingShrinks
         /\ UNCHANGED <<proc, output>>
         /\ call[j].at = "sending" /\ call'[j].at \in {"judging", "receiving"}
         /\ call'[j].result \in {call[j].result, "failed"}
         /\ \A v \in Workers : v # WorkerOf(j) => input'[v] = input[v]
         /\ \/ input'[WorkerOf(j)] = input[WorkerOf(j)]
            \/ \E m \in Message : /\ m.type = "start" /\ m.id = j /\ call'[j].at = "receiving"
                                  /\ input'[WorkerOf(j)] = Append(input[WorkerOf(j)], m)
<1> DEFINE w == WorkerOf(j)
           m == Msg("start", j)
<1>1. call[j].at = "sending" /\ Engaged(j) /\ w \in Workers
  BY TypedGives DEF SendStart, At, Engaged
<1>2. m \in Message /\ m.type = "start" /\ m.id = j
  BY MsgFacts DEF MessageTypes
<1>3. Written(w, m) /\ UNCHANGED <<proc, output, trouble, poolVars, called, closer, ctxDone>>
  BY DEF SendStart
<1> HIDE DEF w, m
<1>4. /\ input' \in [Workers -> Seq(Message)]
      /\ input'[w] = IF Writable(w) THEN Append(input[w], m) ELSE input[w]
      /\ \A v \in Workers : v # w => input'[v] = input[v]
  BY <1>1, <1>2, <1>3, WrittenFacts, TypedGives
<1>5. CASE Writable(w)
  <2>1. Goes(j, "receiving") /\ pending' = pending
    BY <1>5 DEF SendStart, w
  <2>2. /\ CallsTyped' /\ OtherCallsRest(j) /\ call'[j].at = "receiving"
        /\ call'[j].slot = call[j].slot /\ call'[j].gen = call[j].gen
        /\ call'[j].result = call[j].result
    BY <2>1, PlaceNames, GoesFacts, TypedGives
  <2>3. Typed' /\ StaysEngaged(j) /\ PendingShrinks
    BY <1>1, <1>3, <1>4, <2>1, <2>2, TalkingStep DEF Registered
  <2> QED
    BY <1>1, <1>2, <1>3, <1>4, <1>5, <2>2, <2>3 DEF w
<1>6. CASE ~Writable(w)
  <2> DEFINE e == Msg("fatal", None)
  <2>1. Ends(j, "failed", e)
    BY <1>6 DEF SendStart, w
  <2>2. e \in Message
    BY MsgFacts DEF MessageTypes
  <2> HIDE DEF e
  <2>3. /\ Typed' /\ StaysEngaged(j) /\ PendingShrinks
        /\ call'[j].at = "judging" /\ call'[j].result = "failed"
    BY <1>1, <1>3, <1>4, <2>1, <2>2, ResultNames, EndingStep
  <2> QED
    BY <1>1, <1>3, <1>4, <1>6, <2>3 DEF w
<1> QED
  BY <1>5, <1>6

(* The first of the messages that wait for a call.                         *)
LEMMA WaitingFacts ==
  ASSUME Typed, NEW j \in Jobs, Registered(j), Waiting(j) # <<>>
  PROVE  /\ WorkerOf(j) \in Workers /\ j \in DOMAIN pending[WorkerOf(j)]
         /\ Waiting(j) \in Seq(Message) /\ Head(Waiting(j)) \in Message
<1>1. Engaged(j)
  BY DEF Registered, Engaged
<1> QED
  BY <1>1, TypedGives, QueueFacts DEF Typed, CallsKnowTheirWorker, PendingTyped, Waiting

LEMMA ReceiveFacts ==
  ASSUME Typed, NEW j \in Jobs, Receive(j)
  PROVE  /\ Typed' /\ StaysEngaged(j) /\ PendingShrinks
         /\ UNCHANGED <<proc, input, output>>
         /\ call[j].at = "receiving" /\ call'[j].at \in {"receiving", "judging"}
         /\ call'[j].result \in {call[j].result, "failed", "ok"}
<1>1. /\ call[j].at = "receiving" /\ Engaged(j) /\ Registered(j) /\ Waiting(j) # <<>>
      /\ UNCHANGED <<proc, input, output, trouble, poolVars, called, closer, ctxDone>>
  BY DEF Receive, At, Engaged, Registered
<1> DEFINE m == Head(Waiting(j))
<1>2. m \in Message /\ WorkerOf(j) \in Workers /\ input' \in [Workers -> Seq(Message)]
  BY <1>1, WaitingFacts, TypedGives DEF Mail, WorkerTypeOK
<1>3. \/ Taken(j) /\ call' = [call EXCEPT ![j].connected = TRUE]
      \/ Ends(j, "failed", m) \/ Ends(j, "ok", m)
  BY DEF Receive
<1> HIDE DEF m
<1>4. CASE Taken(j) /\ call' = [call EXCEPT ![j].connected = TRUE]
  <2>1. call' = [call EXCEPT ![j] = ConnectedCall(call[j])] /\ call[j] \in Call
    BY <1>4, TypedGives DEF ConnectedCall
  <2>2. CallsTyped' /\ OtherCallsRest(j) /\ call'[j] = ConnectedCall(call[j])
    BY <2>1, ConnectedCallFacts, CallReplaced, TypedGives
  <2>3. /\ call'[j].at = "receiving" /\ call'[j].result = call[j].result
        /\ call'[j].slot = call[j].slot /\ call'[j].gen = call[j].gen
    BY <1>1, <2>1, <2>2, ConnectedCallFacts
  <2>4. Typed' /\ StaysEngaged(j) /\ PendingShrinks
    BY <1>1, <1>2, <1>4, <2>2, <2>3, TalkingStep
  <2> QED
    BY <1>1, <2>3, <2>4
<1>5. CASE Ends(j, "failed", m)
  BY <1>1, <1>2, <1>5, ResultNames, EndingStep
<1>6. CASE Ends(j, "ok", m)
  BY <1>1, <1>2, <1>6, ResultNames, EndingStep
<1> QED
  BY <1>3, <1>4, <1>5, <1>6

LEMMA SeeContextFacts ==
  ASSUME Typed, NEW j \in Jobs, SeeContext(j)
  PROVE  /\ Typed' /\ StaysEngaged(j) /\ PendingShrinks /\ ctxDone
         /\ UNCHANGED <<proc, output, pending>>
         /\ call[j].at = "receiving" /\ call'[j].at = "draining"
         /\ call'[j].result = call[j].result
         /\ \A v \in Workers : v # WorkerOf(j) => input'[v] = input[v]
         /\ \/ input'[WorkerOf(j)] = input[WorkerOf(j)]
            \/ \E m \in Message : /\ m.type = "stop" /\ m.id = j
                                  /\ input'[WorkerOf(j)] = Append(input[WorkerOf(j)], m)
<1> DEFINE w == WorkerOf(j)
           m == Msg("stop", j)
<1>1. call[j].at = "receiving" /\ Engaged(j) /\ Registered(j) /\ w \in Workers
  BY TypedGives DEF SeeContext, At, Engaged, Registered
<1>2. m \in Message /\ m.type = "stop" /\ m.id = j
  BY MsgFacts DEF MessageTypes
<1>3. /\ Written(w, m) /\ Goes(j, "draining") /\ ctxDone
      /\ UNCHANGED <<proc, output, pending, trouble, poolVars, called, closer, ctxDone>>
  BY DEF SeeContext
<1> HIDE DEF w, m
<1>4. /\ input' \in [Workers -> Seq(Message)]
      /\ input'[w] = IF Writable(w) THEN Append(input[w], m) ELSE input[w]
      /\ \A v \in Workers : v # w => input'[v] = input[v]
  BY <1>1, <1>2, <1>3, WrittenFacts, TypedGives
<1>5. /\ CallsTyped' /\ OtherCallsRest(j) /\ call'[j].at = "draining"
      /\ call'[j].slot = call[j].slot /\ call'[j].gen = call[j].gen
      /\ call'[j].result = call[j].result
  BY <1>3, PlaceNames, GoesFacts, TypedGives
<1>6. Typed' /\ StaysEngaged(j) /\ PendingShrinks
  BY <1>1, <1>3, <1>4, <1>5, TalkingStep
<1> QED
  BY <1>1, <1>2, <1>3, <1>4, <1>5, <1>6 DEF w

LEMMA DrainFacts ==
  ASSUME Typed, NEW j \in Jobs, Drain(j)
  PROVE  /\ Typed' /\ StaysEngaged(j) /\ PendingShrinks
         /\ UNCHANGED <<proc, input, output>>
         /\ call[j].at = "draining" /\ call'[j].at \in {"draining", "judging"}
         /\ \/ call'[j].result \in {call[j].result, "failed"}
            \/ /\ call'[j].result = "cancelled" /\ call'[j].at = "judging"
               /\ WorkerOf(j) \in Workers /\ j \in DOMAIN pending[WorkerOf(j)]
               /\ \E i \in DOMAIN pending[WorkerOf(j)][j] :
                     pending[WorkerOf(j)][j][i].type = "stopped"
<1>1. /\ call[j].at = "draining" /\ Engaged(j) /\ Registered(j) /\ Waiting(j) # <<>>
      /\ UNCHANGED <<proc, input, output, trouble, poolVars, called, closer, ctxDone>>
  BY DEF Drain, At, Engaged, Registered
<1> DEFINE m == Head(Waiting(j))
<1>2. /\ m \in Message /\ WorkerOf(j) \in Workers /\ j \in DOMAIN pending[WorkerOf(j)]
      /\ Waiting(j) \in Seq(Message) /\ input' \in [Workers -> Seq(Message)]
  BY <1>1, WaitingFacts, TypedGives DEF Mail, WorkerTypeOK
<1>3. \/ m.type = "stopped" /\ Ends(j, "cancelled", m)
      \/ Ends(j, "failed", m) 
      \/ Taken(j) /\ call' = call
  BY DEF Drain
<1>4. 1 \in DOMAIN Waiting(j) /\ m = Waiting(j)[1]
  BY <1>1, <1>2, QueueFacts
<1> HIDE DEF m
<1>5. CASE m.type = "stopped" /\ Ends(j, "cancelled", m)
  <2>1. /\ Typed' /\ StaysEngaged(j) /\ PendingShrinks
        /\ call'[j].at = "judging" /\ call'[j].result = "cancelled"
    BY <1>1, <1>2, <1>5, ResultNames, EndingStep
  <2> QED
    BY <1>1, <1>2, <1>4, <1>5, <2>1 DEF Waiting
<1>6. CASE Ends(j, "failed", m)
  BY <1>1, <1>2, <1>6, ResultNames, EndingStep
<1>7. CASE Taken(j) /\ call' = call
  <2>1. CallsTyped' /\ OtherCallsRest(j)
    BY <1>7, TypedGives DEF CallsTyped, OtherCallsRest
  <2>2. Typed' /\ StaysEngaged(j) /\ PendingShrinks
    BY <1>1, <1>2, <1>7, <2>1, TalkingStep
  <2> QED
    BY <1>1, <1>7, <2>2
<1> QED
  BY <1>3, <1>5, <1>6, <1>7

LEMMA StopTimeoutFacts ==
  ASSUME Typed, NEW j \in Jobs, StopTimeout(j)
  PROVE  /\ Typed' /\ StaysEngaged(j) /\ PendingShrinks
         /\ UNCHANGED <<proc, input, output>>
         /\ call[j].at = "draining" /\ call'[j].at = "judging" /\ call'[j].result = "failed"
<1> DEFINE m == Msg("stop", None)
<1>1. /\ call[j].at = "draining" /\ Engaged(j) /\ Ends(j, "failed", m)
      /\ UNCHANGED <<proc, input, output, trouble, poolVars, called, closer, ctxDone>>
  BY DEF StopTimeout, At, Engaged
<1>2. m \in Message /\ input' \in [Workers -> Seq(Message)]
  BY <1>1, MsgFacts, TypedGives DEF MessageTypes, Mail, WorkerTypeOK
<1> HIDE DEF m
<1> QED
  BY <1>1, <1>2, ResultNames, EndingStep

LEMMA ReplaceFacts ==
  ASSUME Typed, NEW j \in Jobs, Replace(j)
  PROVE  /\ Typed' /\ StaysEngaged(j) /\ PendingShrinks
         /\ UNCHANGED <<input, output, pending>>
         /\ call[j].at = "judging" /\ ~ctxDone /\ PerWorker = 1
         /\ call'[j].result = call[j].result
         /\ WorkerOf(j) \in Workers
         /\ \A v \in Workers : v # WorkerOf(j) => proc'[v] = proc[v]
         /\ SameState(WorkerOf(j))
         /\ proc'[WorkerOf(j)].busy = proc[WorkerOf(j)].busy
         /\ proc'[WorkerOf(j)].sessions = proc[WorkerOf(j)].sessions
         /\ proc'[WorkerOf(j)].shut # "open"
         /\ \/ call'[j].at = "closing" /\ proc[WorkerOf(j)].shut = "open"
            \/ call'[j].at = "creating" /\ proc[WorkerOf(j)].shut # "open"
<1> DEFINE w == WorkerOf(j)
<1>1. /\ call[j].at = "judging" /\ Engaged(j) /\ w \in Workers
      /\ ~ctxDone /\ PerWorker = 1
      /\ UNCHANGED <<input, output, pending, trouble, poolVars, called, closer, ctxDone>>
  BY TypedGives, PerWorkerAssumption DEF Replace, At, Engaged, Final
<1>2. proc[w] \in Process
  BY <1>1, TypedGives DEF Mail, WorkerTypeOK
<1>3. /\ proc' \in [Workers -> Process]
      /\ \A v \in Workers : v # w => proc'[v] = proc[v]
      /\ proc'[w].state = proc[w].state /\ proc'[w].shut # "open"
      /\ proc'[w].busy = proc[w].busy /\ proc'[w].sessions = proc[w].sessions
      /\ \/ Goes(j, "closing") /\ proc[w].shut = "open"
         \/ Goes(j, "creating") /\ proc[w].shut # "open"
  <2>1. CASE proc[w].shut = "open"
    <3>1. proc' = [proc EXCEPT ![w] = Shutting(proc[w], "marked")] /\ Goes(j, "closing")
      BY <2>1 DEF Replace, Shutting, SetShut
    <3>2. "marked" \in Shuts
      BY DEF Shuts
    <3>3. /\ proc' \in [Workers -> Process] /\ proc'[w] = Shutting(proc[w], "marked")
          /\ \A v \in Workers : v # w => proc'[v] = proc[v]
      BY <1>1, <1>2, <3>1, <3>2, ShuttingFacts, Replaced, TypedGives DEF Mail, WorkerTypeOK
    <3> QED
      BY <1>2, <2>1, <3>1, <3>2, <3>3, ShuttingFacts
  <2>2. CASE proc[w].shut # "open"
    BY <2>2, TypedGives DEF Replace, Mail, WorkerTypeOK
  <2> QED
    BY <2>1, <2>2
<1>4. /\ CallsTyped' /\ OtherCallsRest(j)
      /\ call'[j].slot = call[j].slot /\ call'[j].gen = call[j].gen
      /\ call'[j].result = call[j].result
      /\ \/ call'[j].at = "closing" /\ proc[w].shut = "open"
         \/ call'[j].at = "creating" /\ proc[w].shut # "open"
  BY <1>3, PlaceNames, GoesFacts, TypedGives
<1>5. StaysEngaged(j)
  BY <1>1, <1>4 DEF StaysEngaged, Engaged, poolVars
<1>6. Mail' /\ PendingShrinks
  BY <1>1, <1>3, TypedGives DEF Mail, WorkerTypeOK, PendingIsMail, PendingShrinks
<1>7. \A v \in Workers : proc[v].shut # "open" => proc'[v].shut # "open"
  BY <1>3
<1>8. Typed'
  BY <1>1, <1>3, <1>4, <1>5, <1>6, <1>7, EngagedStep DEF Registered
<1> QED
  BY <1>1, <1>3, <1>4, <1>5, <1>6, <1>8 DEF SameState

LEMMA OldEndedFacts ==
  ASSUME Typed, NEW j \in Jobs, OldEnded(j)
  PROVE  /\ Typed' /\ StaysEngaged(j) /\ PendingShrinks
         /\ UNCHANGED <<proc, input, output, pending>>
         /\ call[j].at = "closing" /\ call'[j].at = "creating"
         /\ call'[j].result = call[j].result
         /\ WorkerOf(j) \in Workers /\ ~Alive(WorkerOf(j))
<1>1. /\ call[j].at = "closing" /\ Engaged(j) /\ WorkerOf(j) \in Workers
      /\ ~Alive(WorkerOf(j)) /\ Goes(j, "creating")
      /\ UNCHANGED <<workerVars, poolVars, called, closer, ctxDone>>
  BY TypedGives DEF OldEnded, At, Engaged, WaitReturns, Alive
<1>2. /\ CallsTyped' /\ OtherCallsRest(j) /\ call'[j].at = "creating"
      /\ call'[j].slot = call[j].slot /\ call'[j].gen = call[j].gen
      /\ call'[j].result = call[j].result
  BY <1>1, PlaceNames, GoesFacts, TypedGives
<1>3. StaysEngaged(j)
  BY <1>1, <1>2 DEF StaysEngaged, Engaged, poolVars
<1>4. Mail' /\ PendingShrinks
  BY <1>1, TypedGives DEF Mail, WorkerTypeOK, PendingIsMail, PendingShrinks, workerVars
<1>5. PerWorker = 1 /\ proc[WorkerOf(j)].shut # "open"
  BY <1>1 DEF Typed, ReplacingIsExclusive, At
<1>6. Typed'
  BY <1>1, <1>2, <1>3, <1>4, <1>5, EngagedStep DEF Registered, workerVars
<1> QED
  BY <1>1, <1>2, <1>3, <1>4, <1>6 DEF workerVars

(* A call returns and gives its slot back, with or without a worker in it. *)
LEMMA LeavingStep ==
  ASSUME Typed, NEW j \in Jobs, Engaged(j), CallsTyped', OtherCallsRest(j), Release(j),
         call'[j].at = "idle",
         UNCHANGED <<workerVars, called, closer, ctxDone>>,
         clients' \in [Slots -> 0..Generations],
         \A s \in Slots : s # call[j].slot \/ PerWorker > 1 => clients'[s] = clients[s]
  PROVE  Typed'
<1> DEFINE t == call[j].slot
<1>1. t \in Slots /\ Holds(j, t)
  BY DEF Typed, CallsKnowTheirWorker, Holds, Engaged
<1>2. avail' = [avail EXCEPT ![t] = @ + 1] /\ avail \in [Slots -> 0..PerWorker]
  BY DEF Release, Typed, TypeOK
<1> HIDE DEF t
<1>3. SlotsConserved'
  <2>1. \A s \in Slots : ~Holds(j, s)'
    BY DEF Holds
  <2>2. \A k \in Jobs, s \in Slots : k # j => (Holds(k, s)' <=> Holds(k, s))
    BY DEF Holds, OtherCallsRest
  <2> QED
    BY <1>1, <1>2, <2>1, <2>2, SlotGiven DEF Typed
<1>4. avail' \in [Slots -> 0..PerWorker]
  <2>1. avail' \in [Slots -> Nat]
    BY <1>1, <1>2, PerWorkerAssumption
  <2> SUFFICES ASSUME NEW s \in Slots
               PROVE  avail'[s] \in 0..PerWorker
    BY <2>1
  <2>2. avail'[s] + Cardinality({k \in Jobs : Holds(k, s)'}) = PerWorker
    BY <1>3 DEF SlotsConserved
  <2>3. Cardinality({k \in Jobs : Holds(k, s)'}) \in Nat
    BY JobsAssumption, FS_Subset, FS_CardinalityType
  <2> QED
    BY <2>1, <2>2, <2>3, PerWorkerAssumption
<1>5. TypeOK' /\ PendingIsMail'
  BY <1>4 DEF Typed, TypeOK, WorkerTypeOK, PendingIsMail, CallsTyped, workerVars
<1>6. ASSUME NEW k \in Jobs, Engaged(k)'
      PROVE  k # j /\ call'[k] = call[k] /\ Engaged(k) /\ clients'[call[k].slot] = clients[call[k].slot]
  <2>1. k # j /\ call'[k] = call[k] /\ Engaged(k)
    BY <1>6 DEF OtherCallsRest, Engaged
  <2>2. call[k].slot \in Slots /\ Holds(k, call[k].slot)
    BY <2>1 DEF Typed, CallsKnowTheirWorker, Holds, Engaged
  <2>3. CASE PerWorker = 1
    BY <1>1, <1>2, <2>1, <2>2, <2>3, HolderIsAlone DEF Typed, t
  <2>4. CASE PerWorker > 1
    BY <2>1, <2>2, <2>4
  <2> QED
    BY <2>1, <2>3, <2>4, PerWorkerAssumption
<1>7. CallsKnowTheirWorker'
  BY <1>6 DEF Typed, CallsKnowTheirWorker, Registered, WorkerOf, workerVars
<1>8. ReplacingIsExclusive'
  BY <1>6 DEF Typed, ReplacingIsExclusive, At, Engaged, WorkerOf, workerVars
<1>9. CallersCalled' /\ CloserIsAtSlot'
  BY DEF Typed, CallersCalled, CloserIsAtSlot, OtherCallsRest, At
<1> QED
  BY <1>3, <1>5, <1>7, <1>8, <1>9 DEF Typed

(* The call of a job becomes idle.                                         *)
LEMMA IdleStep ==
  ASSUME CallsTyped, NEW j \in Jobs, NEW r \in BOOLEAN, call' = [call EXCEPT ![j] = Idle(r)]
  PROVE  /\ CallsTyped' /\ OtherCallsRest(j)
         /\ call'[j].at = "idle" /\ call'[j].retry = r /\ call'[j].result = "none"
<1>1. CallsTyped' /\ OtherCallsRest(j) /\ call'[j] = Idle(r)
  BY IdleFacts, CallReplaced
<1> QED
  BY <1>1, IdleFacts

LEMMA LeaveFacts ==
  ASSUME Typed, NEW j \in Jobs, Leave(j)
  PROVE  /\ Typed' /\ OtherCallsRest(j)
         /\ UNCHANGED <<workerVars, clients, called, closer, ctxDone>>
         /\ call[j].at = "judging" /\ Engaged(j) /\ call'[j].at = "idle" /\ call'[j].result = "none"
         /\ ctxDone => ~call'[j].retry
<1>1. /\ call[j].at = "judging" /\ Engaged(j) /\ Release(j)
      /\ UNCHANGED <<workerVars, clients, called, closer, ctxDone>>
  BY DEF Leave, At, Engaged
<1>2. PICK r \in BOOLEAN : r = (call[j].retry /\ ~ctxDone) /\ call' = [call EXCEPT ![j] = Idle(r)]
  <2>1. (call[j].retry /\ ~ctxDone) \in BOOLEAN
    OBVIOUS
  <2> QED
    BY <2>1 DEF Leave
<1>3. /\ CallsTyped' /\ OtherCallsRest(j)
      /\ call'[j].at = "idle" /\ call'[j].retry = r /\ call'[j].result = "none"
  BY <1>2, IdleStep, TypedGives
<1>4. Typed'
  BY <1>1, <1>3, LeavingStep DEF Typed, TypeOK
<1> QED
  BY <1>1, <1>2, <1>3, <1>4

LEMMA CreateFailsFacts ==
  ASSUME Typed, NEW j \in Jobs, CreateFails(j)
  PROVE  /\ Typed' /\ OtherCallsRest(j)
         /\ UNCHANGED <<workerVars, called, closer, ctxDone>>
         /\ clients' = [clients EXCEPT ![call[j].slot] = 0] /\ PerWorker = 1
         /\ call[j].at = "creating" /\ Engaged(j) /\ call'[j].at = "idle" /\ call'[j].result = "none"
         /\ ~call'[j].retry
<1>1. /\ call[j].at = "creating" /\ Engaged(j) /\ Release(j) /\ PerWorker = 1
      /\ clients' = [clients EXCEPT ![call[j].slot] = 0]
      /\ UNCHANGED <<workerVars, called, closer, ctxDone>>
  BY DEF CreateFails, At, Engaged, Typed, ReplacingIsExclusive
<1>2. PICK no \in BOOLEAN : no = FALSE /\ call' = [call EXCEPT ![j] = Idle(no)]
  BY DEF CreateFails
<1>3. /\ CallsTyped' /\ OtherCallsRest(j)
      /\ call'[j].at = "idle" /\ call'[j].retry = no /\ call'[j].result = "none"
  BY <1>2, IdleStep, TypedGives
<1>4. /\ clients' \in [Slots -> 0..Generations]
      /\ \A s \in Slots : s # call[j].slot => clients'[s] = clients[s]
  <2>1. 0 \in 0..Generations
    BY SizeAssumption
  <2>2. clients \in [Slots -> 0..Generations]
    BY DEF Typed, TypeOK
  <2> QED
    BY <1>1, <2>1, <2>2
<1>5. Typed'
  BY <1>1, <1>3, <1>4, LeavingStep
<1> QED
  BY <1>1, <1>2, <1>3, <1>5

LEMMA CreateFacts ==
  ASSUME Typed, NEW j \in Jobs, Create(j)
  PROVE  /\ Typed' /\ OtherCallsRest(j)
         /\ UNCHANGED <<input, output, pending, called, closer, ctxDone>>
         /\ PerWorker = 1 /\ call[j].at = "creating" /\ Engaged(j)
         /\ call'[j].at = "registering" /\ call'[j].result = "none"
         /\ call[j].slot \in Slots /\ call[j].gen + 1 \in 1..Generations
         /\ call[j].gen = clients[call[j].slot]
         /\ clients' = [clients EXCEPT ![call[j].slot] = call[j].gen + 1]
         /\ proc' = [proc EXCEPT ![<<call[j].slot, call[j].gen + 1>>] = NewProcess]
<1> DEFINE s == call[j].slot
           g == call[j].gen + 1
           v == <<s, g>>
<1>1. /\ call[j].at = "creating" /\ Engaged(j) /\ PerWorker = 1
      /\ s \in Slots /\ call[j].gen \in 1..Generations /\ call[j].gen < Generations
      /\ call[j].gen = clients[s]
  BY DEF Create, At, Engaged, Typed, ReplacingIsExclusive, CallsKnowTheirWorker
<1>2. g \in 1..Generations /\ v \in Workers
  BY <1>1, SizeAssumption DEF Workers
<1>3. /\ clients' = [clients EXCEPT ![s] = g]
      /\ proc' = [proc EXCEPT ![v] = NewProcess]
      /\ call' = [call EXCEPT ![j] = SecondCall(call[j], s, g)]
      /\ UNCHANGED <<input, output, pending, trouble, avail, called, closer, ctxDone>>
  BY DEF Create, SecondCall
<1>4. call[j] \in Call
  BY TypedGives
<1> DEFINE c == call[j]
           d == SecondCall(c, s, g)
<1> HIDE DEF g, s, c
<1>0. c \in Call
  BY <1>4 DEF c
<1>16. /\ d \in Call /\ d.at = "registering" /\ d.slot = s /\ d.gen = g /\ d.result = "none"
  <2>1. s \in Slots /\ g \in 1..Generations
    BY <1>1, <1>2
  <2> QED
    BY <1>0, <2>1, SecondCallFacts
<1>17. call' = [call EXCEPT ![j] = d]
  BY <1>3 DEF c
<1> HIDE DEF d
<1>5. CallsTyped' /\ OtherCallsRest(j) /\ call'[j] = d
  BY <1>16, <1>17, CallReplaced, TypedGives
<1>6. /\ call'[j].at = "registering" /\ call'[j].slot = s /\ call'[j].gen = g
      /\ call'[j].result = "none"
  BY <1>5, <1>16
<1>7. /\ proc' \in [Workers -> Process] /\ proc'[v] = NewProcess
      /\ \A x \in Workers : x # v => proc'[x] = proc[x]
  BY <1>2, <1>3, NewProcessFacts, Replaced, TypedGives DEF Mail, WorkerTypeOK
<1>8. /\ clients' \in [Slots -> 0..Generations] /\ clients'[s] = g
      /\ \A x \in Slots : x # s => clients'[x] = clients[x]
  BY <1>1, <1>2, <1>3, SizeAssumption DEF Typed, TypeOK
<1> HIDE DEF v
<1>9. TypeOK' /\ PendingIsMail'
  BY <1>3, <1>5, <1>7, <1>8 DEF Typed, TypeOK, WorkerTypeOK, PendingIsMail, CallsTyped
<1>10. SlotsConserved'
  <2>1. ASSUME NEW k \in Jobs, NEW x \in Slots
        PROVE  Holds(k, x)' <=> Holds(k, x)
    BY <1>1, <1>5, <1>6 DEF Holds, OtherCallsRest, s
  <2> QED
    BY <1>3, <2>1, SlotsKept DEF Typed
<1>11. ASSUME NEW k \in Jobs, k # j, Engaged(k)'
       PROVE  /\ call'[k] = call[k] /\ Engaged(k) /\ WorkerOf(k) \in Workers
              /\ call[k].slot # s /\ WorkerOf(k) # v
  <2>1. call'[k] = call[k] /\ Engaged(k)
    BY <1>5, <1>11 DEF OtherCallsRest, Engaged
  <2>2. call[k].slot \in Slots /\ Holds(k, call[k].slot) /\ Holds(j, s)
    BY <1>1, <2>1 DEF Typed, CallsKnowTheirWorker, Holds, Engaged, s
  <2>3. call[k].slot # s
    BY <1>1, <1>11, <2>2, HolderIsAlone DEF Typed, TypeOK
  <2> QED
    BY <2>1, <2>3, TypedGives DEF v, WorkerOf
<1>12. CallsKnowTheirWorker'
  <2> SUFFICES ASSUME NEW k \in Jobs, Engaged(k)'
               PROVE  /\ call'[k].slot \in Slots
                      /\ call'[k].gen \in 1..Generations
                      /\ call'[k].gen = clients'[call'[k].slot]
                      /\ Registered(k)' => k \in DOMAIN pending'[<<call'[k].slot, call'[k].gen>>]
    BY DEF CallsKnowTheirWorker, WorkerOf
  <2>1. CASE k = j
    BY <1>1, <1>2, <1>6, <1>8, <2>1 DEF Registered
  <2>2. CASE k # j
    <3>1. /\ call'[k] = call[k] /\ Engaged(k) /\ call[k].slot # s
      BY <1>11, <2>2
    <3> QED
      BY <1>3, <1>8, <3>1 DEF Typed, CallsKnowTheirWorker, Registered, WorkerOf
  <2> QED
    BY <2>1, <2>2
<1>13. ReplacingIsExclusive'
  <2> SUFFICES ASSUME NEW k \in Jobs, call'[k].at \in {"closing", "creating"}
               PROVE  PerWorker = 1 /\ proc'[<<call'[k].slot, call'[k].gen>>].shut # "open"
    BY DEF ReplacingIsExclusive, At, WorkerOf
  <2>1. k # j /\ Engaged(k)'
    BY <1>6 DEF Engaged
  <2>2. call'[k] = call[k] /\ WorkerOf(k) \in Workers /\ WorkerOf(k) # v
    BY <1>11, <2>1
  <2> QED
    BY <1>7, <2>2 DEF Typed, ReplacingIsExclusive, At, WorkerOf
<1>14. CallersCalled' /\ CloserIsAtSlot'
  BY <1>1, <1>3, <1>5 DEF Typed, CallersCalled, CloserIsAtSlot, OtherCallsRest, At
<1>15. Typed'
  BY <1>9, <1>10, <1>12, <1>13, <1>14 DEF Typed
<1> QED
  BY <1>1, <1>2, <1>3, <1>5, <1>6, <1>15 DEF s, v, g

(* A job without a slot calls, or its call ends without having got one.    *)
LEMMA UnseatedStep ==
  ASSUME Typed, NEW j \in Jobs, ~Engaged(j), ~Engaged(j)', CallsTyped', OtherCallsRest(j),
         call'[j].at = "idle" \/ j \in called', called \subseteq called', called' \subseteq Jobs,
         UNCHANGED <<proc, input, output, pending, poolVars, closer, ctxDone>>,
         trouble' \in 0..MaxTrouble
  PROVE  Typed'
<1>1. TypeOK' /\ PendingIsMail'
  BY DEF Typed, TypeOK, WorkerTypeOK, PendingIsMail, CallsTyped, poolVars
<1>2. ASSUME NEW k \in Jobs, Engaged(k) \/ Engaged(k)'
      PROVE  call'[k] = call[k] /\ Engaged(k)
  BY <1>2 DEF OtherCallsRest, Engaged
<1>3. SlotsConserved'
  <2>1. ASSUME NEW k \in Jobs, NEW s \in Slots
        PROVE  Holds(k, s)' <=> Holds(k, s)
    BY <1>2 DEF Holds, Engaged
  <2> QED
    BY <2>1, SlotsKept DEF Typed, poolVars
<1>4. CallsKnowTheirWorker'
  BY <1>2 DEF Typed, CallsKnowTheirWorker, Registered, WorkerOf, poolVars
<1>5. ReplacingIsExclusive'
  BY <1>2 DEF Typed, ReplacingIsExclusive, At, Engaged, WorkerOf
<1>6. CallersCalled' /\ CloserIsAtSlot'
  BY DEF Typed, CallersCalled, CloserIsAtSlot, OtherCallsRest, At
<1> QED
  BY <1>1, <1>3, <1>4, <1>5, <1>6 DEF Typed

LEMMA EnterFacts ==
  ASSUME Typed, NEW j \in Jobs, Enter(j)
  PROVE  /\ Typed' /\ OtherCallsRest(j)
         /\ UNCHANGED <<proc, input, output, pending, avail, clients, closer, ctxDone>>
         /\ ~Engaged(j) /\ ~Engaged(j)' /\ call'[j].result = "none"
         /\ call[j].at = "idle" /\ (j \notin called \/ call[j].retry)
         /\ called' = called \cup {j}
<1>1. /\ call[j].at = "idle" /\ (j \notin called \/ call[j].retry)
      /\ called' = called \cup {j}
      /\ UNCHANGED <<proc, input, output, pending, poolVars, closer, ctxDone>>
      /\ trouble' \in 0..MaxTrouble
  BY SizeAssumption DEF Enter, At, Trouble, Typed, TypeOK, WorkerTypeOK
<1>2. CallsTyped' /\ OtherCallsRest(j) /\ call'[j].at \in {"idle", "queued"} /\ call'[j].result = "none"
  <2>1. PICK no \in BOOLEAN : no = FALSE
    OBVIOUS
  <2>2. \/ call' = [call EXCEPT ![j] = NewCall] \/ call' = [call EXCEPT ![j] = Idle(no)]
    BY <2>1 DEF Enter
  <2>3. CASE call' = [call EXCEPT ![j] = NewCall]
    <3>1. CallsTyped' /\ OtherCallsRest(j) /\ call'[j] = NewCall
      BY <2>3, NewCallFacts, CallReplaced, TypedGives
    <3> QED
      BY <3>1, NewCallFacts
  <2>4. CASE call' = [call EXCEPT ![j] = Idle(no)]
    BY <2>4, IdleStep, TypedGives
  <2> QED
    BY <2>2, <2>3, <2>4
<1>3. ~Engaged(j) /\ ~Engaged(j)'
  BY <1>1, <1>2 DEF Engaged
<1>4. Typed'
  BY <1>1, <1>2, <1>3, UnseatedStep DEF Typed, TypeOK
<1> QED
  BY <1>1, <1>2, <1>3, <1>4 DEF poolVars

LEMMA GiveUpFacts ==
  ASSUME Typed, NEW j \in Jobs, GiveUp(j)
  PROVE  /\ Typed' /\ OtherCallsRest(j)
         /\ UNCHANGED <<workerVars, poolVars, called, closer, ctxDone>>
         /\ ~Engaged(j) /\ ~Engaged(j)' /\ call'[j].result = "none" /\ call[j].at = "queued"
<1>1. /\ call[j].at = "queued"
      /\ UNCHANGED <<workerVars, poolVars, called, closer, ctxDone>>
  BY DEF GiveUp, At
<1>2. PICK no \in BOOLEAN : no = FALSE /\ call' = [call EXCEPT ![j] = Idle(no)]
  BY DEF GiveUp
<1>3. CallsTyped' /\ OtherCallsRest(j) /\ call'[j].at = "idle" /\ call'[j].result = "none"
  BY <1>2, IdleStep, TypedGives
<1>4. ~Engaged(j) /\ ~Engaged(j)'
  BY <1>1, <1>3 DEF Engaged
<1>5. Typed'
  BY <1>1, <1>3, <1>4, UnseatedStep DEF Typed, TypeOK, WorkerTypeOK, workerVars
<1> QED
  BY <1>1, <1>3, <1>4, <1>5

LEMMA TakeSlotFacts ==
  ASSUME Typed, NEW j \in Jobs, TakeSlot(j)
  PROVE  /\ Typed' /\ OtherCallsRest(j)
         /\ UNCHANGED <<workerVars, clients, called, closer, ctxDone>>
         /\ call[j].at = "queued" /\ call'[j].at \in {"idle", "registering"}
         /\ call'[j].result \in {call[j].result, "none"}
<1>1. /\ call[j].at = "queued" /\ ~Engaged(j)
      /\ UNCHANGED <<workerVars, clients, called, closer, ctxDone>>
  BY DEF TakeSlot, At, Engaged
<1>2. PICK s \in Slots :
        /\ avail[s] > 0
        /\ \/ /\ clients[s] = 0
              /\ call' = [call EXCEPT ![j] = Idle(FALSE)]
              /\ UNCHANGED avail
           \/ /\ clients[s] > 0
              /\ call' = [call EXCEPT ![j].at = "registering", ![j].slot = s,
                                      ![j].gen = clients[s]]
              /\ avail' = [avail EXCEPT ![s] = @ - 1]
  BY DEF TakeSlot
<1>3. CASE call' = [call EXCEPT ![j] = Idle(FALSE)] /\ UNCHANGED avail
  <2>1. PICK no \in BOOLEAN : no = FALSE /\ call' = [call EXCEPT ![j] = Idle(no)]
    BY <1>3
  <2>2. CallsTyped' /\ OtherCallsRest(j) /\ call'[j].at = "idle" /\ call'[j].result = "none"
    BY <2>1, IdleStep, TypedGives
  <2>3. ~Engaged(j)'
    BY <2>2 DEF Engaged
  <2>4. Typed'
    BY <1>1, <1>3, <2>2, <2>3, UnseatedStep DEF Typed, TypeOK, WorkerTypeOK, workerVars, poolVars
  <2> QED
    BY <1>1, <2>2, <2>4
<1>4. CASE /\ clients[s] > 0
           /\ call' = [call EXCEPT ![j].at = "registering", ![j].slot = s,
                                   ![j].gen = clients[s]]
           /\ avail' = [avail EXCEPT ![s] = @ - 1]
  <2> DEFINE g == clients[s]
             c == call[j]
             d == SeatedCall(c, s, g)
  <2>1. g \in 1..Generations /\ c \in Call
    BY <1>4, TypedGives, SizeAssumption DEF Typed, TypeOK
  <2>2. call' = [call EXCEPT ![j] = d]
    BY <1>4 DEF SeatedCall
  <2> HIDE DEF g, c
  <2>3. /\ d \in Call /\ d.at = "registering" /\ d.slot = s /\ d.gen = g
        /\ d.result = c.result
    BY <2>1, SeatedCallFacts
  <2> HIDE DEF d
  <2>4. CallsTyped' /\ OtherCallsRest(j) /\ call'[j] = d
    BY <2>2, <2>3, CallReplaced, TypedGives
  <2>5. avail' \in [Slots -> 0..PerWorker]
    BY <1>2, <1>4, PerWorkerAssumption DEF Typed, TypeOK
  <2>6. TypeOK' /\ PendingIsMail'
    BY <1>1, <2>4, <2>5 DEF Typed, TypeOK, WorkerTypeOK, PendingIsMail, CallsTyped, workerVars
  <2>13. /\ avail' = [avail EXCEPT ![s] = @ - 1] /\ avail \in [Slots -> 0..PerWorker]
         /\ SlotsConserved
    BY <1>4 DEF Typed, TypeOK
  <2>7. SlotsConserved'
    <3>1. \A t \in Slots : ~Holds(j, t)
      BY <1>1 DEF Holds
    <3>2. ASSUME NEW k \in Jobs, NEW t \in Slots
          PROVE  Holds(k, t)' <=> Holds(k, t) \/ (k = j /\ t = s)
      <4>1. CASE k = j
        BY <3>1, <2>3, <2>4, <4>1 DEF Holds
      <4>2. CASE k # j
        BY <2>4, <4>2 DEF Holds, OtherCallsRest
      <4> QED
        BY <4>1, <4>2
    <3> QED
      BY <2>13, <3>1, <3>2, SlotTaken
  <2>8. CallsKnowTheirWorker'
    <3> SUFFICES ASSUME NEW k \in Jobs, Engaged(k)'
                 PROVE  /\ call'[k].slot \in Slots
                        /\ call'[k].gen \in 1..Generations
                        /\ call'[k].gen = clients'[call'[k].slot]
                        /\ Registered(k)' => k \in DOMAIN pending'[<<call'[k].slot, call'[k].gen>>]
      BY DEF CallsKnowTheirWorker, WorkerOf
    <3>1. CASE k = j
      BY <1>1, <2>1, <2>3, <2>4, <3>1 DEF Registered, g
    <3>2. CASE k # j
      <4>1. call'[k] = call[k] /\ Engaged(k)
        BY <2>4, <3>2 DEF OtherCallsRest, Engaged
      <4> QED
        BY <1>1, <4>1 DEF Typed, CallsKnowTheirWorker, Registered, WorkerOf, workerVars
    <3> QED
      BY <3>1, <3>2
  <2>9. ReplacingIsExclusive'
    <3> SUFFICES ASSUME NEW k \in Jobs, call'[k].at \in {"closing", "creating"}
                 PROVE  PerWorker = 1 /\ proc'[<<call'[k].slot, call'[k].gen>>].shut # "open"
      BY DEF ReplacingIsExclusive, At, WorkerOf
    <3>1. call'[k] = call[k]
      BY <2>3, <2>4 DEF OtherCallsRest
    <3> QED
      BY <1>1, <3>1 DEF Typed, ReplacingIsExclusive, At, WorkerOf, workerVars
  <2>10. CallersCalled' /\ CloserIsAtSlot'
    <3>1. j \in called
      BY <1>1 DEF Typed, CallersCalled, At
    <3> QED
      BY <1>1, <2>4, <3>1 DEF Typed, CallersCalled, CloserIsAtSlot, OtherCallsRest, At
  <2>11. Typed'
    BY <2>6, <2>7, <2>8, <2>9, <2>10 DEF Typed
  <2>12. call'[j].result = call[j].result
    BY <2>3, <2>4 DEF c
  <2> QED
    BY <1>1, <2>3, <2>4, <2>11, <2>12
<1> QED
  BY <1>2, <1>3, <1>4

-----------------------------------------------------------------------------
(* The first layer, the workers and the closing of the pool                *)

LEMMA WorkerStepIsEffect ==
  ASSUME Mail, NEW w \in Workers, Node(w) \/ Reader(w) \/ Closing(w) \/ Faulty(w)
  PROVE  WorkerEffect(w)
<1>1. CASE StartTaken(w)
  BY <1>1, StartTakenFacts
<1>2. CASE StartEnds(w)
  BY <1>2, StartEndsFacts
<1>3. CASE StopTaken(w)
  BY <1>3, StopTakenFacts
<1>4. CASE ShutdownTaken(w)
  BY <1>4, ShutdownTakenFacts
<1>5. CASE Exit(w) \/ Crash(w)
  BY <1>5, EndFacts
<1>6. CASE Deliver(w)
  BY <1>6, DeliverFacts
<1>7. CASE ReaderEnds(w) \/ ReaderFails(w)
  BY <1>7, ReaderLeavesFacts
<1>8. CASE Closing(w)
  BY <1>8, ClosingFacts
<1>9. CASE ActivityFails(w)
  BY <1>9, ActivityFailsFacts
<1>10. CASE ShutdownFails(w) \/ EndFails(w)
  BY <1>10, ShutdownFailsFacts, EndFailsFacts
<1> QED
  BY <1>1, <1>2, <1>3, <1>4, <1>5, <1>6, <1>7, <1>8, <1>9, <1>10 DEF Node, Reader, Faulty

LEMMA WorkerKeepsTyped ==
  ASSUME Typed, NEW w \in Workers, WorkerEffect(w), OnlyWorkers
  PROVE  Typed'
<1>1. UNCHANGED <<avail, clients, call, called, closer, ctxDone>>
  BY DEF OnlyWorkers, poolVars, callVars
<1>2. TypeOK' /\ PendingIsMail'
  BY <1>1 DEF Typed, TypeOK, Mail, WorkerEffect
<1>3. \A v \in Workers : /\ DOMAIN pending'[v] = DOMAIN pending[v]
                         /\ proc[v].shut # "open" => proc'[v].shut # "open"
  BY DEF WorkerEffect, OthersRest, SameShut
<1>4. SlotsConserved'
  BY <1>1, SlotsKept DEF Typed, Holds
<1>5. CallsKnowTheirWorker'
  <2> SUFFICES ASSUME NEW k \in Jobs, Engaged(k)'
               PROVE  /\ call[k].slot \in Slots
                      /\ call[k].gen \in 1..Generations
                      /\ call[k].gen = clients[call[k].slot]
                      /\ Registered(k) => k \in DOMAIN pending'[<<call[k].slot, call[k].gen>>]
    BY <1>1 DEF CallsKnowTheirWorker, WorkerOf, Registered
  <2>1. Engaged(k) /\ <<call[k].slot, call[k].gen>> \in Workers
    BY <1>1, TypedGives DEF Engaged, WorkerOf
  <2> QED
    BY <1>3, <2>1 DEF Typed, CallsKnowTheirWorker, WorkerOf
<1>6. ReplacingIsExclusive'
  <2> SUFFICES ASSUME NEW k \in Jobs, call[k].at \in {"closing", "creating"}
               PROVE  PerWorker = 1 /\ proc'[<<call[k].slot, call[k].gen>>].shut # "open"
    BY <1>1 DEF ReplacingIsExclusive, At, WorkerOf
  <2>1. <<call[k].slot, call[k].gen>> \in Workers
    BY TypedGives DEF Engaged, WorkerOf
  <2> QED
    BY <1>3, <2>1 DEF Typed, ReplacingIsExclusive, At, WorkerOf
<1>7. CallersCalled' /\ CloserIsAtSlot'
  BY <1>1 DEF Typed, CallersCalled, CloserIsAtSlot, At
<1> QED
  BY <1>2, <1>4, <1>5, <1>6, <1>7 DEF Typed

(* A step that leaves the calls and the slots alone, and of the workers    *)
(* marks one at most: the closing of the pool, and the end of the context. *)
LEMMA ClosingKeepsTyped ==
  ASSUME Typed, UNCHANGED <<input, output, pending, trouble, avail, clients, call, called>>,
         proc' \in [Workers -> Process],
         \A v \in Workers : proc[v].shut # "open" => proc'[v].shut # "open",
         closer' \in [at: {"none", "walking", "waiting", "closed"}, slot: 1..Size + 1,
                      gen: 0..Generations, inherited: [Slots -> 0..Generations]],
         ctxDone' \in BOOLEAN, CloserIsAtSlot'
  PROVE  Typed'
<1>1. TypeOK' /\ PendingIsMail'
  BY DEF Typed, TypeOK, WorkerTypeOK, PendingIsMail
<1>2. SlotsConserved'
  BY SlotsKept DEF Typed, Holds
<1>3. CallsKnowTheirWorker' /\ CallersCalled'
  BY DEF Typed, CallsKnowTheirWorker, CallersCalled, Engaged, Registered, WorkerOf, At
<1>4. ReplacingIsExclusive'
  <2> SUFFICES ASSUME NEW k \in Jobs, call[k].at \in {"closing", "creating"}
               PROVE  PerWorker = 1 /\ proc'[<<call[k].slot, call[k].gen>>].shut # "open"
    BY DEF ReplacingIsExclusive, At, WorkerOf
  <2>1. <<call[k].slot, call[k].gen>> \in Workers
    BY TypedGives DEF Engaged, WorkerOf
  <2> QED
    BY <2>1 DEF Typed, ReplacingIsExclusive, At, WorkerOf
<1> QED
  BY <1>1, <1>2, <1>3, <1>4 DEF Typed

CloserPlaces == {"none", "walking", "waiting", "closed"}

Closers == [at: CloserPlaces, slot: 1..Size + 1, gen: 0..Generations,
            inherited: [Slots -> 0..Generations]]

CloserOf(at, slot, gen, inherited) ==
    [at |-> at, slot |-> slot, gen |-> gen, inherited |-> inherited]

LEMMA CloserFields ==
  ASSUME NEW c \in Closers
  PROVE  /\ c.at \in CloserPlaces /\ c.slot \in 1..Size + 1 /\ c.gen \in 0..Generations
         /\ c.inherited \in [Slots -> 0..Generations]
         /\ c = CloserOf(c.at, c.slot, c.gen, c.inherited)
  BY DEF Closers, CloserOf

SetInherited(c, x) == [c EXCEPT !.inherited = x]

LEMMA CloserOfFields ==
  ASSUME NEW a, NEW s, NEW g, NEW i
  PROVE  /\ CloserOf(a, s, g, i).at = a /\ CloserOf(a, s, g, i).slot = s
         /\ CloserOf(a, s, g, i).gen = g /\ CloserOf(a, s, g, i).inherited = i
  BY DEF CloserOf

LEMMA CloserOfFacts ==
  ASSUME NEW a, NEW s, NEW g, NEW i, NEW x
  PROVE  /\ SetAt(CloserOf(a, s, g, i), x) = CloserOf(x, s, g, i)
         /\ SetSlot(CloserOf(a, s, g, i), x) = CloserOf(a, x, g, i)
         /\ SetGen(CloserOf(a, s, g, i), x) = CloserOf(a, s, x, i)
         /\ SetInherited(CloserOf(a, s, g, i), x) = CloserOf(a, s, g, x)
<1>1. SetAt(CloserOf(a, s, g, i), x) = CloserOf(x, s, g, i)
  BY DEF CloserOf, SetAt
<1>2. SetSlot(CloserOf(a, s, g, i), x) = CloserOf(a, x, g, i)
  BY DEF CloserOf, SetSlot
<1>3. SetGen(CloserOf(a, s, g, i), x) = CloserOf(a, s, x, i)
  BY DEF CloserOf, SetGen
<1>4. SetInherited(CloserOf(a, s, g, i), x) = CloserOf(a, s, g, x)
  BY DEF CloserOf, SetInherited
<1> QED
  BY <1>1, <1>2, <1>3, <1>4

LEMMA CloserType ==
  ASSUME NEW a \in CloserPlaces, NEW s \in 1..Size + 1, NEW g \in 0..Generations,
         NEW i \in [Slots -> 0..Generations]
  PROVE  CloserOf(a, s, g, i) \in Closers
  BY DEF Closers, CloserOf

LEMMA ContextEndsFacts ==
  ASSUME Typed, ContextEnds
  PROVE  /\ Typed' /\ UNCHANGED <<workerVars, avail, clients, call, called, closer>>
         /\ ~ctxDone /\ ctxDone'
<1>1. /\ ~ctxDone /\ ctxDone' = TRUE
      /\ UNCHANGED <<proc, input, output, pending, trouble, avail, clients, call, called, closer>>
  BY DEF ContextEnds, workerVars, poolVars, callVars
<1>2. Typed'
  BY <1>1, ClosingKeepsTyped DEF Typed, TypeOK, WorkerTypeOK, CloserIsAtSlot
<1> QED
  BY <1>1, <1>2 DEF workerVars

LEMMA BeginCloseFacts ==
  ASSUME Typed, BeginClose
  PROVE  /\ Typed' /\ UNCHANGED <<workerVars, avail, clients, call, called, ctxDone>>
         /\ ctxDone /\ closer.at = "none"
         /\ closer'.at = "walking" /\ closer'.slot = 1 /\ closer'.inherited = clients
<1>1. /\ ctxDone /\ closer.at = "none"
      /\ UNCHANGED <<proc, input, output, pending, trouble, avail, clients, call, called, ctxDone>>
  BY DEF BeginClose, workerVars, poolVars, callVars
<1>2. /\ closer \in Closers /\ clients \in [Slots -> 0..Generations] /\ closer.slot = 1
  BY <1>1 DEF Typed, TypeOK, Closers, CloserPlaces, CloserIsAtSlot
<1>3. closer' = [closer EXCEPT !.at = "walking", !.inherited = clients]
  BY DEF BeginClose
<1>9. closer' = SetInherited(SetAt(closer, "walking"), clients)
  BY <1>3 DEF SetInherited, SetAt
<1>4. closer' = CloserOf("walking", closer.slot, closer.gen, clients)
  BY <1>2, <1>9, CloserFields, CloserOfFacts
<1>5. "walking" \in CloserPlaces
  BY DEF CloserPlaces
<1>6. closer' \in Closers
  BY <1>2, <1>4, <1>5, CloserFields, CloserType
<1>7. closer'.at = "walking" /\ closer'.slot = 1 /\ closer'.inherited = clients
  BY <1>2, <1>4, CloserOfFields
<1>8. Typed'
  BY <1>1, <1>6, <1>7, ClosingKeepsTyped
  DEF Typed, TypeOK, WorkerTypeOK, CloserIsAtSlot, Closers, CloserPlaces
<1> QED
  BY <1>1, <1>7, <1>8 DEF workerVars

(* The closer goes on to the next slot.                                    *)
LEMMA OnwardsFacts ==
  ASSUME Typed, closer.slot \in Slots, Onwards
  PROVE  /\ closer' \in Closers /\ CloserIsAtSlot'
         /\ closer'.at = "walking" /\ closer'.slot = closer.slot + 1
         /\ closer'.inherited = closer.inherited
<1>1. closer \in Closers
  BY DEF Typed, TypeOK, Closers, CloserPlaces
<1> DEFINE s == closer.slot + 1
<1>2. s \in 1..Size + 1 /\ 0 \in 0..Generations
  BY SizeAssumption DEF Slots
<1>3. closer' = [closer EXCEPT !.at = "walking", !.slot = s, !.gen = 0]
  BY DEF Onwards
<1> HIDE DEF s
<1>8. closer' = SetGen(SetSlot(SetAt(closer, "walking"), s), 0)
  BY <1>3 DEF SetGen, SetSlot, SetAt
<1>4. closer' = CloserOf("walking", s, 0, closer.inherited)
  BY <1>1, <1>8, CloserFields, CloserOfFacts
<1>5. "walking" \in CloserPlaces
  BY DEF CloserPlaces
<1>6. closer' \in Closers
  BY <1>1, <1>2, <1>4, <1>5, CloserFields, CloserType
<1>7. closer'.at = "walking" /\ closer'.slot = s /\ closer'.inherited = closer.inherited
  BY <1>4, CloserOfFields
<1> QED
  BY <1>6, <1>7 DEF CloserIsAtSlot, s

LEMMA CloseNextFacts ==
  ASSUME Typed, CloseNext
  PROVE  /\ Typed' /\ closer.at = "walking" /\ closer.slot \in Slots
         /\ UNCHANGED <<input, output, pending, avail, clients, call, called, ctxDone>>
         /\ closer'.inherited = closer.inherited
         /\ LET s == closer.slot
                w == <<s, clients[s]>>
            IN  \/ /\ closer'.at = "walking" /\ closer'.slot = s + 1
                   /\ proc' = proc
                   /\ ~(clients[s] > 0 /\ proc[w].shut = "open")
                \/ /\ closer'.at = "waiting" /\ closer'.slot = s /\ closer'.gen = clients[s]
                   /\ clients[s] > 0 /\ w \in Workers /\ proc[w].shut = "open"
                   /\ \A v \in Workers : v # w => proc'[v] = proc[v]
                   /\ SameState(w) /\ proc'[w].shut # "open"
                   /\ proc'[w].busy = proc[w].busy /\ proc'[w].sessions = proc[w].sessions
<1> DEFINE s == closer.slot
           g == clients[s]
           w == <<s, g>>
<1>1. /\ closer.at = "walking" /\ closer.slot <= Size
      /\ UNCHANGED <<input, output, pending, trouble, avail, clients, call, called, ctxDone>>
  BY DEF CloseNext, poolVars, callVars
<1>2. closer \in Closers /\ s \in Slots /\ g \in 0..Generations
  BY <1>1, SizeAssumption DEF Typed, TypeOK, Closers, CloserPlaces, Slots
<1>3. CASE ~(g > 0 /\ proc[w].shut = "open")
  <2>1. Onwards /\ proc' = proc
    BY <1>3 DEF CloseNext
  <2>2. /\ closer' \in Closers /\ CloserIsAtSlot'
        /\ closer'.at = "walking" /\ closer'.slot = closer.slot + 1
        /\ closer'.inherited = closer.inherited
    BY <1>2, <2>1, OnwardsFacts
  <2>3. Typed'
    BY <1>1, <2>1, <2>2, ClosingKeepsTyped DEF Typed, TypeOK, WorkerTypeOK, Closers, CloserPlaces
  <2> QED
    BY <1>1, <1>2, <1>3, <2>1, <2>2, <2>3
<1>4. CASE g > 0 /\ proc[w].shut = "open"
  <2>1. /\ proc' = [proc EXCEPT ![w] = Shutting(proc[w], "marked")]
        /\ closer' = [closer EXCEPT !.at = "waiting", !.gen = g]
    BY <1>4 DEF CloseNext, Shutting, SetShut
  <2>2. g \in 1..Generations
    BY <1>2, <1>4, SizeAssumption
  <2>3. w \in Workers
    BY <1>2, <2>2 DEF Workers
  <2> HIDE DEF w, g
  <2>4. proc[w] \in Process /\ proc \in [Workers -> Process]
    BY <2>3, TypedGives DEF Mail, WorkerTypeOK
  <2>5. "marked" \in Shuts /\ "waiting" \in CloserPlaces
    BY DEF Shuts, CloserPlaces
  <2>6. /\ proc' \in [Workers -> Process] /\ proc'[w] = Shutting(proc[w], "marked")
        /\ \A v \in Workers : v # w => proc'[v] = proc[v]
    BY <2>1, <2>3, <2>4, <2>5, ShuttingFacts, Replaced
  <2>7. /\ proc'[w].state = proc[w].state /\ proc'[w].shut # "open"
        /\ proc'[w].busy = proc[w].busy /\ proc'[w].sessions = proc[w].sessions
    BY <2>4, <2>5, <2>6, ShuttingFacts
  <2>14. closer' = SetGen(SetAt(closer, "waiting"), g)
    BY <2>1 DEF SetGen, SetAt
  <2>8. closer' = CloserOf("waiting", closer.slot, g, closer.inherited)
    BY <1>2, <2>14, CloserFields, CloserOfFacts
  <2>9. closer' \in Closers
    BY <1>2, <2>5, <2>8, CloserFields, CloserType
  <2>10. /\ closer'.at = "waiting" /\ closer'.slot = s /\ closer'.gen = g
         /\ closer'.inherited = closer.inherited
    BY <2>8, CloserOfFields
  <2>11. \A v \in Workers : proc[v].shut # "open" => proc'[v].shut # "open"
    BY <2>6, <2>7
  <2>12. CloserIsAtSlot'
    BY <1>2, <2>10 DEF CloserIsAtSlot
  <2>13. Typed'
    BY <1>1, <2>6, <2>9, <2>11, <2>12, ClosingKeepsTyped
    DEF Typed, TypeOK, WorkerTypeOK, Closers, CloserPlaces
  <2> QED
    BY <1>1, <1>2, <1>4, <2>3, <2>6, <2>7, <2>10, <2>13 DEF w, g, SameState
<1> QED
  BY <1>3, <1>4

LEMMA CloseWaitedFacts ==
  ASSUME Typed, CloseWaited
  PROVE  /\ Typed' /\ closer.at = "waiting" /\ closer.slot \in Slots
         /\ UNCHANGED <<workerVars, avail, clients, call, called, ctxDone>>
         /\ ~Alive(<<closer.slot, closer.gen>>)
         /\ closer'.at = "walking" /\ closer'.slot = closer.slot + 1
         /\ closer'.inherited = closer.inherited
<1>1. /\ closer.at = "waiting" /\ Onwards /\ ~Alive(<<closer.slot, closer.gen>>)
      /\ UNCHANGED <<proc, input, output, pending, trouble, avail, clients, call, called, ctxDone>>
  BY DEF CloseWaited, WaitReturns, Alive, workerVars, poolVars, callVars
<1>2. closer.slot \in Slots
  BY <1>1 DEF Typed, CloserIsAtSlot
<1>3. /\ closer' \in Closers /\ CloserIsAtSlot'
      /\ closer'.at = "walking" /\ closer'.slot = closer.slot + 1
      /\ closer'.inherited = closer.inherited
  BY <1>1, <1>2, OnwardsFacts
<1>4. Typed'
  BY <1>1, <1>3, ClosingKeepsTyped DEF Typed, TypeOK, WorkerTypeOK, Closers, CloserPlaces
<1> QED
  BY <1>1, <1>2, <1>3, <1>4 DEF workerVars

LEMMA CloseReturnsFacts ==
  ASSUME Typed, CloseReturns
  PROVE  /\ Typed' /\ closer.at = "walking" /\ closer.slot = Size + 1
         /\ UNCHANGED <<workerVars, avail, clients, call, called, ctxDone>>
         /\ closer'.at = "closed" /\ closer'.inherited = closer.inherited
<1>1. /\ closer.at = "walking" /\ closer.slot > Size
      /\ closer' = [closer EXCEPT !.at = "closed", !.slot = Size]
      /\ UNCHANGED <<proc, input, output, pending, trouble, avail, clients, call, called, ctxDone>>
  BY DEF CloseReturns, workerVars, poolVars, callVars
<1>2. closer \in Closers
  BY DEF Typed, TypeOK, Closers, CloserPlaces
<1>3. closer.slot = Size + 1 /\ Size \in Slots /\ Size \in 1..Size + 1
  BY <1>1, <1>2, CloserFields, SizeAssumption DEF Slots
<1>9. closer' = SetSlot(SetAt(closer, "closed"), Size)
  BY <1>1 DEF SetSlot, SetAt
<1>4. closer' = CloserOf("closed", Size, closer.gen, closer.inherited)
  BY <1>2, <1>9, CloserFields, CloserOfFacts
<1>5. "closed" \in CloserPlaces
  BY DEF CloserPlaces
<1>6. closer' \in Closers
  BY <1>2, <1>3, <1>4, <1>5, CloserFields, CloserType
<1>7. closer'.at = "closed" /\ closer'.slot = Size /\ closer'.inherited = closer.inherited
  BY <1>4, CloserOfFields
<1>8. Typed'
  BY <1>1, <1>3, <1>6, <1>7, ClosingKeepsTyped
  DEF Typed, TypeOK, WorkerTypeOK, CloserIsAtSlot, Closers, CloserPlaces
<1> QED
  BY <1>1, <1>3, <1>7, <1>8 DEF workerVars

-----------------------------------------------------------------------------
(* The first layer holds                                                   *)

LEMMA InitFacts ==
  ASSUME Init
  PROVE  /\ Typed
         /\ closer.at = "none" /\ ~ctxDone
         /\ \A j \in Jobs : call[j].at = "idle" /\ call[j].result = "none"
         /\ \A w \in Workers :
               /\ proc[w].shut = "open" /\ proc[w].busy = None /\ proc[w].sessions = {}
               /\ input[w] = <<>> /\ output[w] = <<>> /\ DOMAIN pending[w] = {}
         /\ \A s \in Slots : \A g \in 1..Generations : Alive(<<s, g>>) => g = clients[s]
<1>1. PICK started \in SUBSET Slots :
        /\ clients = [s \in Slots |-> IF s \in started THEN 1 ELSE 0]
        /\ WorkerInit(started \X {1})
        /\ avail = [s \in Slots |-> PerWorker]
        /\ call = [j \in Jobs |-> Idle(FALSE)]
        /\ called = {}
        /\ closer = [at |-> "none", slot |-> 1, gen |-> 0, inherited |-> [s \in Slots |-> 0]]
        /\ ctxDone = FALSE
  BY DEF Init
<1>2. /\ proc = [w \in Workers |-> IF w \in started \X {1} THEN NewProcess ELSE NoProcess]
      /\ input = [w \in Workers |-> <<>>] /\ output = [w \in Workers |-> <<>>]
      /\ pending = [w \in Workers |-> NoCalls] /\ trouble = 0
  BY <1>1 DEF WorkerInit
<1>3. /\ proc \in [Workers -> Process]
      /\ \A w \in Workers : /\ proc[w].shut = "open" /\ proc[w].busy = None
                            /\ proc[w].sessions = {}
                            /\ Alive(w) => w \in started \X {1}
  BY <1>2, NewProcessFacts DEF Alive
<1>4. /\ input \in [Workers -> Seq(Message)] /\ output \in [Workers -> Seq(Message)]
      /\ \A w \in Workers : input[w] = <<>> /\ output[w] = <<>>
  BY <1>2
<1>5. DOMAIN NoCalls = {} /\ NoCalls = [j \in DOMAIN NoCalls |-> NoCalls[j]]
  BY DEF NoCalls
<1>6. /\ PendingIsMail /\ \A w \in Workers : DOMAIN pending[w] = {}
  BY <1>2, <1>5 DEF PendingIsMail
<1>7. PICK no \in BOOLEAN : no = FALSE /\ call = [j \in Jobs |-> Idle(no)]
  BY <1>1
<1>8. /\ call \in [Jobs -> Call]
      /\ \A j \in Jobs : call[j].at = "idle" /\ call[j].result = "none"
  BY <1>7, IdleFacts
<1>9. /\ 1 \in 0..Generations /\ 0 \in 0..Generations /\ 1 \in 1..Generations
      /\ 1 \in 1..Size + 1 /\ PerWorker \in 0..PerWorker
  BY SizeAssumption, PerWorkerAssumption
<1>10. /\ clients \in [Slots -> 0..Generations] /\ avail \in [Slots -> 0..PerWorker]
       /\ \A s \in started : clients[s] = 1
  BY <1>1, <1>9
<1>11. /\ closer \in Closers /\ closer.at = "none" /\ CloserIsAtSlot
  <2> DEFINE zero == [s \in Slots |-> 0]
  <2>1. zero \in [Slots -> 0..Generations] /\ "none" \in CloserPlaces
    BY <1>9 DEF CloserPlaces
  <2>2. closer = CloserOf("none", 1, 0, zero)
    BY <1>1 DEF CloserOf
  <2> HIDE DEF zero
  <2>3. closer \in Closers
    BY <1>9, <2>1, <2>2, CloserType
  <2>4. closer.at = "none" /\ closer.slot = 1
    BY <2>2, CloserOfFields
  <2> QED
    BY <2>3, <2>4 DEF CloserIsAtSlot
<1>12. trouble \in 0..MaxTrouble /\ called \subseteq Jobs /\ ctxDone \in BOOLEAN /\ ~ctxDone
  <2>1. trouble \in 0..MaxTrouble
    BY <1>2, SizeAssumption
  <2> QED
    BY <1>1, <2>1
<1>13. TypeOK
  BY <1>3, <1>4, <1>6, <1>8, <1>10, <1>11, <1>12
  DEF TypeOK, WorkerTypeOK, Closers, CloserPlaces
<1>14. SlotsConserved
  <2> SUFFICES ASSUME NEW s \in Slots
               PROVE  avail[s] + Cardinality({j \in Jobs : Holds(j, s)}) = PerWorker
    BY DEF SlotsConserved
  <2>1. {j \in Jobs : Holds(j, s)} = {}
    BY <1>8 DEF Holds
  <2>2. avail[s] = PerWorker
    BY <1>1
  <2> QED
    BY <2>1, <2>2, FS_EmptySet, PerWorkerAssumption
<1>15. CallsKnowTheirWorker /\ ReplacingIsExclusive /\ CallersCalled
  BY <1>8 DEF CallsKnowTheirWorker, ReplacingIsExclusive, CallersCalled, Engaged, At
<1>16. Typed
  BY <1>6, <1>11, <1>13, <1>14, <1>15 DEF Typed
<1>17. ASSUME NEW s \in Slots, NEW g \in 1..Generations, Alive(<<s, g>>)
       PROVE  g = clients[s]
  <2>1. <<s, g>> \in Workers
    BY DEF Workers
  <2>2. <<s, g>> \in started \X {1}
    BY <1>3, <1>17, <2>1
  <2> QED
    BY <1>10, <2>2
<1> QED
  BY <1>3, <1>4, <1>6, <1>8, <1>11, <1>12, <1>16, <1>17

LEMMA TypedStutters ==
  ASSUME Typed, UNCHANGED vars
  PROVE  Typed'
<1>1. UNCHANGED <<proc, input, output, pending, trouble, avail, clients, call, called, closer, ctxDone>>
  BY DEF vars, workerVars, poolVars, callVars
<1> QED
  BY <1>1, ClosingKeepsTyped DEF Typed, TypeOK, WorkerTypeOK, CloserIsAtSlot

LEMMA TypedStep ==
  ASSUME Typed, [Next]_vars
  PROVE  Typed'
<1>1. ASSUME NEW j \in Jobs, Enter(j) \/ Run(j)
      PROVE  Typed'
  BY <1>1, EnterFacts, GiveUpFacts, TakeSlotFacts, RegisterFacts, SendStartFacts, ReceiveFacts,
     SeeContextFacts, DrainFacts, StopTimeoutFacts, LeaveFacts, ReplaceFacts, OldEndedFacts,
     CreateFailsFacts, CreateFacts DEF Run
<1>2. ASSUME WorkerStep, OnlyWorkers
      PROVE  Typed'
  BY <1>2, WorkerStepIsEffect, WorkerKeepsTyped, TypedGives DEF WorkerStep
<1>3. ASSUME ContextEnds \/ Close
      PROVE  Typed'
  BY <1>3, ContextEndsFacts, BeginCloseFacts, CloseNextFacts, CloseWaitedFacts, CloseReturnsFacts
  DEF Close
<1> QED
  BY <1>1, <1>2, <1>3, TypedStutters DEF Next

(* The first layer of the invariant holds in every state.                  *)
THEOREM PoolTyped == Spec => []Typed
<1>1. Init => Typed
  BY InitFacts
<1>2. Typed /\ [Next]_vars => Typed'
  BY TypedStep
<1> QED
  BY <1>1, <1>2, PTL DEF Spec

(* The variables of the pool and of its workers have their types.          *)
THEOREM PoolTypeCorrect == Spec => []TypeOK
<1>1. Typed => TypeOK
  BY DEF Typed
<1> QED
  BY <1>1, PoolTyped, PTL

(* Every path out of Pool.Run gives back the slot that was taken, and none *)
(* gives back one that was not, for every number of calls and slots.       *)
THEOREM SlotsAreConserved == Spec => []SlotsConserved
<1>1. Typed => SlotsConserved
  BY DEF Typed
<1> QED
  BY <1>1, PoolTyped, PTL

-----------------------------------------------------------------------------
(* The second layer: the workers of the slots                              *)

(* A step that starts no worker, and closes none while the pool is open.   *)
LEMMA WorkersStay ==
  ASSUME Typed, Typed', WorkersOfSlots,
         closer'.at = "none" => closer.at = "none",
         \A w \in Workers : Alive(w)' => Alive(w),
         closer'.at = "none" => \A w \in Workers : SameShut(w),
         clients' = clients,
         \A j \in Jobs : call[j].at \in {"closing", "creating"} => call'[j] = call[j],
         \A j \in Jobs : call'[j].at = "creating" => call'[j] = call[j]
  PROVE  WorkersOfSlots'
<1>1. NewestIsAlive'
  <2> SUFFICES ASSUME closer'.at = "none" \/ PerWorker > 1,
                      NEW s \in Slots, NEW g \in 1..Generations, Alive(<<s, g>>)'
               PROVE  g = clients[s]
    BY DEF NewestIsAlive
  <2>1. Alive(<<s, g>>)
    BY DEF Workers
  <2> QED
    BY <2>1 DEF WorkersOfSlots, NewestIsAlive
<1>2. ASSUME closer'.at = "none", NEW s \in Slots, clients[s] > 0,
             proc'[<<s, clients[s]>>].shut # "open"
      PROVE  \E j \in Jobs : Holds(j, s)' /\ call'[j].at \in {"closing", "creating"}
  <2>1. <<s, clients[s]>> \in Workers
    BY <1>2, SizeAssumption DEF Typed, TypeOK, Workers
  <2>2. PICK j \in Jobs : Holds(j, s) /\ call[j].at \in {"closing", "creating"}
    BY <1>2, <2>1 DEF WorkersOfSlots, ClosedByItsCall, SameShut, Holders, At
  <2> QED
    BY <2>2 DEF Holds
<1>3. ASSUME closer'.at = "none", NEW j \in Jobs, call'[j].at = "creating"
      PROVE  ~Alive(WorkerOf(j))'
  <2>1. call'[j] = call[j]
    BY <1>3
  <2>2. WorkerOf(j) \in Workers /\ ~Alive(WorkerOf(j))
    BY <1>3, <2>1, TypedGives DEF WorkersOfSlots, ClosedByItsCall, At, Engaged
  <2> QED
    BY <2>1, <2>2 DEF WorkerOf, Alive
<1> QED
  BY <1>1, <1>2, <1>3 DEF WorkersOfSlots, ClosedByItsCall, Holders, At

LEMMA ReplaceKeepsWorkers ==
  ASSUME Typed, WorkersOfSlots, NEW j \in Jobs, Replace(j)
  PROVE  WorkersOfSlots'
<1> DEFINE t == call[j].slot
           w == <<t, call[j].gen>>
<1>1. /\ Typed' /\ StaysEngaged(j) /\ call[j].at = "judging" /\ PerWorker = 1
      /\ w \in Workers /\ proc'[w].state = proc[w].state /\ proc'[w].shut # "open"
      /\ \A v \in Workers : v # w => proc'[v] = proc[v]
      /\ \/ call'[j].at = "closing" /\ proc[w].shut = "open"
         \/ call'[j].at = "creating" /\ proc[w].shut # "open"
  BY ReplaceFacts DEF WorkerOf, SameState
<1>2. /\ clients' = clients /\ closer' = closer /\ OtherCallsRest(j)
      /\ call'[j].slot = t /\ call'[j].gen = call[j].gen
      /\ t \in Slots /\ clients[t] = call[j].gen /\ Holds(j, t)
  BY <1>1 DEF StaysEngaged, Typed, CallsKnowTheirWorker, Holds, Engaged
<1> HIDE DEF t, w
<1>3. \A v \in Workers : Alive(v)' => Alive(v)
  BY <1>1 DEF Alive
<1>4. NewestIsAlive'
  BY <1>2, <1>3 DEF WorkersOfSlots, NewestIsAlive, Workers
<1>5. ASSUME closer.at = "none", NEW s \in Slots, clients[s] > 0,
             proc'[<<s, clients[s]>>].shut # "open"
      PROVE  \E k \in Jobs : Holds(k, s)' /\ call'[k].at \in {"closing", "creating"}
  <2>1. CASE s = t
    BY <1>1, <1>2, <2>1 DEF Holds
  <2>2. CASE s # t
    <3>1. <<s, clients[s]>> \in Workers /\ <<s, clients[s]>> # w
      BY <1>5, <2>2, SizeAssumption DEF Typed, TypeOK, Workers, w, t
    <3>2. PICK k \in Jobs : Holds(k, s) /\ call[k].at \in {"closing", "creating"}
      BY <1>1, <1>5, <3>1 DEF WorkersOfSlots, ClosedByItsCall, Holders, At
    <3>3. k # j
      BY <1>1, <3>2
    <3> QED
      BY <1>2, <3>2, <3>3 DEF Holds, OtherCallsRest
  <2> QED
    BY <2>1, <2>2
<1>6. ASSUME closer.at = "none", NEW k \in Jobs, call'[k].at = "creating"
      PROVE  ~Alive(WorkerOf(k))'
  <2>1. CASE k = j
    <3>1. proc[<<t, clients[t]>>].shut # "open" /\ clients[t] > 0
      BY <1>1, <1>2, <1>6, <2>1 DEF w, t, Typed, CallsKnowTheirWorker, Engaged
    <3>2. PICK i \in Jobs : Holds(i, t) /\ call[i].at \in {"closing", "creating"}
      BY <1>2, <1>6, <3>1 DEF WorkersOfSlots, ClosedByItsCall, Holders, At
    <3>3. i = j
      BY <1>1, <1>2, <3>2, HolderIsAlone DEF Typed, TypeOK
    <3> QED
      BY <1>1, <3>2, <3>3
  <2>2. CASE k # j
    <3>1. call'[k] = call[k] /\ WorkerOf(k) \in Workers /\ ~Alive(WorkerOf(k))
      BY <1>2, <1>6, <2>2, TypedGives
      DEF OtherCallsRest, WorkersOfSlots, ClosedByItsCall, At, Engaged
    <3> QED
      BY <1>3, <3>1 DEF WorkerOf, Alive
  <2> QED
    BY <2>1, <2>2
<1> QED
  BY <1>2, <1>4, <1>5, <1>6 DEF WorkersOfSlots, ClosedByItsCall, Holders, At

LEMMA OldEndedKeepsWorkers ==
  ASSUME Typed, WorkersOfSlots, NEW j \in Jobs, OldEnded(j)
  PROVE  WorkersOfSlots'
<1>1. /\ StaysEngaged(j) /\ proc' = proc /\ call[j].at = "closing"
      /\ call'[j].at = "creating" /\ ~Alive(WorkerOf(j))
  BY OldEndedFacts
<1>2. /\ clients' = clients /\ closer' = closer /\ OtherCallsRest(j)
      /\ call'[j].slot = call[j].slot /\ call'[j].gen = call[j].gen
  BY <1>1 DEF StaysEngaged
<1>3. NewestIsAlive'
  BY <1>1, <1>2 DEF WorkersOfSlots, NewestIsAlive, Alive
<1>4. ASSUME closer.at = "none", NEW s \in Slots, clients[s] > 0,
             proc[<<s, clients[s]>>].shut # "open"
      PROVE  \E k \in Jobs : Holds(k, s)' /\ call'[k].at \in {"closing", "creating"}
  <2>1. PICK k \in Jobs : Holds(k, s) /\ call[k].at \in {"closing", "creating"}
    BY <1>4 DEF WorkersOfSlots, ClosedByItsCall, Holders, At
  <2>2. Holds(k, s)' /\ call'[k].at \in {"closing", "creating"}
    BY <1>1, <1>2, <2>1 DEF Holds, OtherCallsRest
  <2> QED
    BY <2>2
<1>5. ASSUME closer.at = "none", NEW k \in Jobs, call'[k].at = "creating"
      PROVE  ~Alive(WorkerOf(k))'
  <2>1. CASE k = j
    BY <1>1, <1>2, <2>1 DEF WorkerOf, Alive
  <2>2. CASE k # j
    BY <1>1, <1>2, <1>5, <2>2
    DEF OtherCallsRest, WorkersOfSlots, ClosedByItsCall, At, WorkerOf, Alive
  <2> QED
    BY <2>1, <2>2
<1> QED
  BY <1>1, <1>2, <1>3, <1>4, <1>5 DEF WorkersOfSlots, ClosedByItsCall, Holders, At

LEMMA CreateFailsKeepsWorkers ==
  ASSUME Typed, WorkersOfSlots, NEW j \in Jobs, CreateFails(j)
  PROVE  WorkersOfSlots'
<1> DEFINE t == call[j].slot
<1>1. /\ OtherCallsRest(j) /\ proc' = proc /\ closer' = closer
      /\ clients' = [clients EXCEPT ![t] = 0] /\ PerWorker = 1
      /\ call[j].at = "creating" /\ call'[j].at = "idle"
      /\ t \in Slots /\ call[j].gen = clients[t]
  BY CreateFailsFacts DEF workerVars, Typed, CallsKnowTheirWorker
<1>2. /\ clients'[t] = 0 /\ \A s \in Slots : s # t => clients'[s] = clients[s]
  BY <1>1 DEF Typed, TypeOK
<1>3. NewestIsAlive'
  <2> SUFFICES ASSUME closer.at = "none", NEW s \in Slots, NEW g \in 1..Generations,
                      Alive(<<s, g>>)
               PROVE  g = clients'[s]
    BY <1>1 DEF NewestIsAlive, Alive
  <2>1. g = clients[s]
    BY DEF WorkersOfSlots, NewestIsAlive
  <2>2. s # t
    BY <1>1, <2>1 DEF WorkersOfSlots, ClosedByItsCall, At, WorkerOf
  <2> QED
    BY <1>2, <2>1, <2>2
<1> HIDE DEF t
<1>4. ASSUME closer.at = "none", NEW s \in Slots, clients'[s] > 0,
             proc[<<s, clients'[s]>>].shut # "open"
      PROVE  \E k \in Jobs : Holds(k, s)' /\ call'[k].at \in {"closing", "creating"}
  <2>1. s # t /\ clients'[s] = clients[s]
    BY <1>2, <1>4
  <2>2. PICK k \in Jobs : Holds(k, s) /\ call[k].at \in {"closing", "creating"}
    BY <1>4, <2>1 DEF WorkersOfSlots, ClosedByItsCall, Holders, At
  <2>3. k # j
    BY <2>1, <2>2 DEF Holds, t
  <2> QED
    BY <1>1, <2>2, <2>3 DEF Holds, OtherCallsRest
<1>5. ASSUME closer.at = "none", NEW k \in Jobs, call'[k].at = "creating"
      PROVE  ~Alive(WorkerOf(k))'
  <2>1. k # j /\ call'[k] = call[k]
    BY <1>1, <1>5 DEF OtherCallsRest
  <2> QED
    BY <1>1, <1>5, <2>1 DEF WorkersOfSlots, ClosedByItsCall, At, WorkerOf, Alive
<1> QED
  BY <1>1, <1>3, <1>4, <1>5 DEF WorkersOfSlots, ClosedByItsCall, Holders, At

LEMMA CreateKeepsWorkers ==
  ASSUME Typed, WorkersOfSlots, NEW j \in Jobs, Create(j)
  PROVE  WorkersOfSlots'
<1> DEFINE t == call[j].slot
           g == call[j].gen + 1
           v == <<t, g>>
<1>1. /\ Typed' /\ OtherCallsRest(j) /\ closer' = closer /\ PerWorker = 1
      /\ call[j].at = "creating" /\ call'[j].at = "registering"
      /\ t \in Slots /\ g \in 1..Generations /\ call[j].gen = clients[t]
      /\ clients' = [clients EXCEPT ![t] = g]
      /\ proc' = [proc EXCEPT ![v] = NewProcess]
  BY CreateFacts
<1>2. v \in Workers
  BY <1>1 DEF Workers
<1>3. /\ clients'[t] = g /\ \A s \in Slots : s # t => clients'[s] = clients[s]
      /\ proc'[v] = NewProcess /\ \A w \in Workers : w # v => proc'[w] = proc[w]
  BY <1>1, <1>2 DEF Typed, TypeOK, WorkerTypeOK
<1>4. NewestIsAlive'
  <2> SUFFICES ASSUME closer.at = "none", NEW s \in Slots, NEW x \in 1..Generations,
                      Alive(<<s, x>>)', <<s, x>> # v
               PROVE  x = clients'[s]
    BY <1>1, <1>3 DEF NewestIsAlive
  <2>1. <<s, x>> \in Workers /\ Alive(<<s, x>>)
    BY <1>3 DEF Workers, Alive
  <2>2. x = clients[s]
    BY <2>1 DEF WorkersOfSlots, NewestIsAlive
  <2>3. s # t
    BY <1>1, <2>1, <2>2 DEF WorkersOfSlots, ClosedByItsCall, At, WorkerOf
  <2> QED
    BY <1>3, <2>2, <2>3
<1> HIDE DEF v, g
<1>5. ASSUME closer.at = "none", NEW s \in Slots, clients'[s] > 0,
             proc'[<<s, clients'[s]>>].shut # "open"
      PROVE  \E k \in Jobs : Holds(k, s)' /\ call'[k].at \in {"closing", "creating"}
  <2>1. s # t
    BY <1>3, <1>5, NewProcessFacts DEF v
  <2>2. clients'[s] = clients[s] /\ <<s, clients[s]>> \in Workers /\ <<s, clients[s]>> # v
    BY <1>3, <1>5, <2>1, SizeAssumption DEF Typed, TypeOK, Workers, v
  <2>3. PICK k \in Jobs : Holds(k, s) /\ call[k].at \in {"closing", "creating"}
    BY <1>3, <1>5, <2>2 DEF WorkersOfSlots, ClosedByItsCall, Holders, At
  <2>4. k # j
    BY <2>1, <2>3 DEF Holds
  <2> QED
    BY <1>1, <2>3, <2>4 DEF Holds, OtherCallsRest
<1>6. ASSUME closer.at = "none", NEW k \in Jobs, call'[k].at = "creating"
      PROVE  ~Alive(WorkerOf(k))'
  <2>1. call'[k] = call[k] /\ Engaged(k)
    BY <1>1, <1>6 DEF OtherCallsRest, Engaged
  <2>2. WorkerOf(k) \in Workers /\ call[k].gen = clients[call[k].slot] /\ ~Alive(WorkerOf(k))
    BY <1>6, <2>1, TypedGives
    DEF Typed, CallsKnowTheirWorker, WorkersOfSlots, ClosedByItsCall, At
  <2>3. WorkerOf(k) # v
    BY <1>1, <2>2 DEF WorkerOf, v, g, Typed, CallsKnowTheirWorker, Engaged
  <2> QED
    BY <1>3, <2>1, <2>2, <2>3 DEF WorkerOf, Alive
<1> QED
  BY <1>1, <1>4, <1>5, <1>6 DEF WorkersOfSlots, ClosedByItsCall, Holders, At

(* Most steps of a call leave the workers alone.                           *)
CallIsCalm(j) ==
    /\ UNCHANGED <<proc, clients, closer, ctxDone>> /\ OtherCallsRest(j)
    /\ call[j].at \notin {"closing", "creating"} /\ call'[j].at \notin {"closing", "creating"}

Calm(j) ==
    \/ Enter(j) \/ GiveUp(j) \/ TakeSlot(j) \/ Register(j) \/ SendStart(j)
    \/ Receive(j) \/ SeeContext(j) \/ Drain(j) \/ StopTimeout(j) \/ Leave(j)

LEMMA CalmFacts ==
  ASSUME Typed, NEW j \in Jobs, Calm(j)
  PROVE  CallIsCalm(j)
<1>1. ASSUME Enter(j) \/ GiveUp(j)
      PROVE  CallIsCalm(j)
  BY <1>1, EnterFacts, GiveUpFacts DEF CallIsCalm, workerVars, poolVars, Engaged
<1>2. ASSUME TakeSlot(j) \/ Leave(j)
      PROVE  CallIsCalm(j)
  BY <1>2, TakeSlotFacts, LeaveFacts DEF CallIsCalm, workerVars, Engaged
<1>3. ASSUME Register(j) \/ SendStart(j) \/ Receive(j) \/ SeeContext(j) \/ Drain(j) \/ StopTimeout(j)
      PROVE  CallIsCalm(j)
  <2>1. /\ StaysEngaged(j) /\ proc' = proc
        /\ call[j].at \notin {"closing", "creating"} /\ call'[j].at \notin {"closing", "creating"}
    BY <1>3, RegisterFacts, SendStartFacts, ReceiveFacts, SeeContextFacts, DrainFacts,
       StopTimeoutFacts
  <2> QED
    BY <2>1 DEF CallIsCalm, StaysEngaged
<1> QED
  BY <1>1, <1>2, <1>3 DEF Calm

LEMMA RunCases ==
  ASSUME NEW j \in Jobs, Enter(j) \/ Run(j)
  PROVE  Calm(j) \/ Replace(j) \/ OldEnded(j) \/ CreateFails(j) \/ Create(j)
  BY DEF Run, Calm

LEMMA WorkersStep ==
  ASSUME Typed, Typed', WorkersOfSlots, [Next]_vars
  PROVE  WorkersOfSlots'
<1>1. ASSUME NEW j \in Jobs, Calm(j)
      PROVE  WorkersOfSlots'
  <2>1. CallIsCalm(j)
    BY <1>1, CalmFacts
  <2> QED
    BY <2>1, WorkersStay DEF CallIsCalm, OtherCallsRest, Alive, SameShut
<1>2. ASSUME NEW j \in Jobs, Enter(j) \/ Run(j)
      PROVE  WorkersOfSlots'
  BY <1>1, <1>2, RunCases, ReplaceKeepsWorkers, OldEndedKeepsWorkers, CreateFailsKeepsWorkers,
     CreateKeepsWorkers
<1>3. ASSUME NEW w \in Workers, Node(w) \/ Reader(w) \/ Closing(w) \/ Faulty(w), OnlyWorkers
      PROVE  WorkersOfSlots'
  <2>1. WorkerEffect(w)
    BY <1>3, WorkerStepIsEffect, TypedGives
  <2>2. \A v \in Workers : (Alive(v)' => Alive(v)) /\ SameShut(v)
    BY <2>1 DEF WorkerEffect, OthersRest, Alive, SameShut
  <2>3. UNCHANGED <<clients, call, closer>>
    BY <1>3 DEF OnlyWorkers, poolVars, callVars
  <2> QED
    BY <2>2, <2>3, WorkersStay
<1>4. ASSUME ContextEnds \/ BeginClose \/ CloseWaited \/ CloseReturns
      PROVE  WorkersOfSlots'
  <2>1. UNCHANGED <<proc, clients, call>> /\ (closer'.at = "none" => closer.at = "none")
    BY <1>4, ContextEndsFacts, BeginCloseFacts, CloseWaitedFacts, CloseReturnsFacts DEF workerVars
  <2> QED
    BY <2>1, WorkersStay DEF Alive, SameShut
<1>5. ASSUME CloseNext
      PROVE  WorkersOfSlots'
  <2>1. /\ UNCHANGED <<clients, call>> /\ closer'.at # "none"
        /\ \A v \in Workers : Alive(v)' => Alive(v)
    BY <1>5, CloseNextFacts DEF SameState, Alive
  <2> QED
    BY <2>1, WorkersStay
<1>6. ASSUME UNCHANGED vars
      PROVE  WorkersOfSlots'
  <2>1. UNCHANGED <<proc, clients, call, closer>>
    BY <1>6 DEF vars, workerVars, poolVars, callVars
  <2> QED
    BY <2>1, WorkersStay DEF Alive, SameShut
<1> QED
  BY <1>2, <1>3, <1>4, <1>5, <1>6 DEF Next, WorkerStep, Close

(* The second layer holds in every state.                                  *)
THEOREM WorkersAreOfSlots == Spec => []WorkersOfSlots
<1>1. Init => WorkersOfSlots
  <2> SUFFICES ASSUME Init
               PROVE  WorkersOfSlots
    OBVIOUS
  <2>1. \A s \in Slots : clients[s] > 0 => <<s, clients[s]>> \in Workers
    BY InitFacts, SizeAssumption DEF Typed, TypeOK, Workers
  <2> QED
    BY <2>1, InitFacts DEF WorkersOfSlots, NewestIsAlive, ClosedByItsCall, At
<1>2. Typed /\ Typed' /\ WorkersOfSlots /\ [Next]_vars => WorkersOfSlots'
  BY WorkersStep
<1> QED
  BY <1>1, <1>2, PoolTyped, PTL DEF Spec

(* While the pool is open no slot has two processes: the call that replaces *)
(* a worker waits for the end of the old one, and nobody else closes it.   *)
THEOREM WorkersAreReplaced == Spec => []OneProcessPerSlot
<1>1. WorkersOfSlots => OneProcessPerSlot
  <2> SUFFICES ASSUME WorkersOfSlots, closer.at = "none", NEW s \in Slots
               PROVE  Cardinality({g \in 1..Generations : Alive(<<s, g>>)}) <= 1
    BY DEF OneProcessPerSlot
  <2> DEFINE S == {g \in 1..Generations : Alive(<<s, g>>)}
  <2>1. S \subseteq {clients[s]}
    BY DEF WorkersOfSlots, NewestIsAlive
  <2>2. IsFiniteSet({clients[s]}) /\ Cardinality({clients[s]}) = 1
    BY FS_Singleton
  <2>3. Cardinality(S) <= Cardinality({clients[s]})
    BY <2>1, <2>2, FS_Subset
  <2> QED
    BY <2>2, <2>3
<1> QED
  BY <1>1, WorkersAreOfSlots, PTL

-----------------------------------------------------------------------------
(* The third layer: the walk of Close                                      *)

(* A step that closes nothing by itself, or closes for a call that has the *)
(* worker to itself.                                                       *)
LEMMA WalkStays ==
  ASSUME Typed, ClosingInv, clients' = clients, closer' = closer,
         \A w \in Workers : Alive(w)' => Alive(w),
         \A w \in Workers : proc[w].shut # "open" => proc'[w].shut # "open",
         PerWorker > 1 => \A w \in Workers : SameShut(w)
  PROVE  ClosingInv'
<1>1. closer.inherited \in [Slots -> 0..Generations] /\ clients \in [Slots -> 0..Generations]
  BY DEF Typed, TypeOK
<1>2. \A s \in Slots : /\ closer.inherited[s] = 0 \/ <<s, closer.inherited[s]>> \in Workers
                       /\ clients[s] > 0 => <<s, clients[s]>> \in Workers
                       /\ closer.inherited[s] > 0 => <<s, closer.inherited[s]>> \in Workers
  BY <1>1, SizeAssumption DEF Workers
<1>3. InheritedIsCurrentOrClosed'
  BY <1>2 DEF ClosingInv, InheritedIsCurrentOrClosed
<1>4. WalkedIsTold'
  BY <1>2 DEF ClosingInv, WalkedIsTold, Walked, WaitedAt
<1>5. SharedWorkersDie'
  BY <1>2 DEF ClosingInv, SharedWorkersDie, Walked, WaitedAt, SameShut, Alive
<1> QED
  BY <1>3, <1>4, <1>5 DEF ClosingInv

LEMMA CreateFailsKeepsWalk ==
  ASSUME Typed, ClosingInv, NEW j \in Jobs, CreateFails(j)
  PROVE  ClosingInv'
<1> DEFINE t == call[j].slot
<1>1. /\ proc' = proc /\ closer' = closer /\ clients' = [clients EXCEPT ![t] = 0]
      /\ PerWorker = 1 /\ call[j].at = "creating" /\ t \in Slots
      /\ proc[<<t, clients[t]>>].shut # "open"
  BY CreateFailsFacts
  DEF workerVars, Typed, CallsKnowTheirWorker, ReplacingIsExclusive, At, WorkerOf
<1>2. clients'[t] = 0 /\ \A s \in Slots : s # t => clients'[s] = clients[s]
  BY <1>1 DEF Typed, TypeOK
<1> HIDE DEF t
<1>3. InheritedIsCurrentOrClosed'
  BY <1>1, <1>2 DEF ClosingInv, InheritedIsCurrentOrClosed
<1>4. WalkedIsTold'
  BY <1>1 DEF ClosingInv, WalkedIsTold, Walked, WaitedAt
<1>5. SharedWorkersDie'
  BY <1>1 DEF SharedWorkersDie
<1> QED
  BY <1>3, <1>4, <1>5 DEF ClosingInv

LEMMA CreateKeepsWalk ==
  ASSUME Typed, ClosingInv, NEW j \in Jobs, Create(j)
  PROVE  ClosingInv'
<1> DEFINE t == call[j].slot
           g == clients[t] + 1
           v == <<t, g>>
<1>1. /\ closer' = closer /\ PerWorker = 1 /\ call[j].at = "creating"
      /\ t \in Slots /\ g \in 1..Generations /\ clients[t] \in 1..Generations
      /\ clients' = [clients EXCEPT ![t] = g] /\ proc' = [proc EXCEPT ![v] = NewProcess]
      /\ proc[<<t, clients[t]>>].shut # "open"
  BY CreateFacts DEF Typed, CallsKnowTheirWorker, ReplacingIsExclusive, At, WorkerOf
<1>2. /\ clients'[t] = g /\ \A s \in Slots : s # t => clients'[s] = clients[s]
      /\ \A w \in Workers : w # v => proc'[w] = proc[w]
  BY <1>1 DEF Typed, TypeOK, WorkerTypeOK, Workers
<1>3. closer.inherited \in [Slots -> 0..Generations]
  BY DEF Typed, TypeOK
<1>4. ASSUME closer.at # "none"
      PROVE  /\ \A s \in Slots : closer.inherited[s] > 0 =>
                   <<s, closer.inherited[s]>> # v /\ <<s, closer.inherited[s]>> \in Workers
             /\ closer.inherited[t] <= clients[t]
  <2>4. t \in Slots /\ clients[t] # 0
    BY <1>1, SizeAssumption
  <2> HIDE DEF t
  <2>1. closer.inherited[t] <= clients[t]
    BY <1>4, <2>4 DEF ClosingInv, InheritedIsCurrentOrClosed
  <2>2. closer.inherited[t] # g
    BY <1>1, <1>3, <2>1
  <2>3. \A s \in Slots : closer.inherited[s] > 0 => <<s, closer.inherited[s]>> \in Workers
    BY <1>3, SizeAssumption DEF Workers
  <2> QED
    BY <2>1, <2>2, <2>3
<1>5. InheritedIsCurrentOrClosed'
  <2> SUFFICES ASSUME closer.at # "none", NEW s \in Slots
               PROVE  /\ clients'[s] = 0 \/ closer.inherited[s] <= clients'[s]
                      /\ \/ closer.inherited[s] \in {0, clients'[s]}
                         \/ proc'[<<s, closer.inherited[s]>>].shut # "open"
    BY <1>1 DEF InheritedIsCurrentOrClosed
  <2>1. CASE s = t
    <3>1. closer.inherited[s] <= clients'[s]
      BY <1>1, <1>2, <1>3, <1>4, <2>1, SizeAssumption
    <3>2. \/ closer.inherited[s] = 0
          \/ proc[<<s, closer.inherited[s]>>].shut # "open"
      BY <1>1, <2>1 DEF ClosingInv, InheritedIsCurrentOrClosed
    <3> QED
      BY <1>2, <1>3, <1>4, <3>1, <3>2
  <2>2. CASE s # t
    BY <1>2, <1>3, <1>4, <2>2 DEF ClosingInv, InheritedIsCurrentOrClosed
  <2> QED
    BY <2>1, <2>2
<1>6. WalkedIsTold'
  BY <1>1, <1>2, <1>4 DEF ClosingInv, WalkedIsTold, Walked, WaitedAt
<1>7. SharedWorkersDie'
  BY <1>1 DEF SharedWorkersDie
<1> QED
  BY <1>5, <1>6, <1>7 DEF ClosingInv

LEMMA BeginCloseStartsWalk ==
  ASSUME Typed, ClosingInv, BeginClose
  PROVE  ClosingInv'
<1>1. /\ closer.at = "none" /\ closer'.at = "walking" /\ closer'.slot = 1
      /\ closer'.inherited = clients /\ proc' = proc /\ clients' = clients
  BY BeginCloseFacts DEF workerVars
<1>2. \A s \in Slots : clients[s] \in Nat /\ ~(s < 1)
  BY SizeAssumption DEF Typed, TypeOK, Slots
<1>3. InheritedIsCurrentOrClosed'
  BY <1>1, <1>2 DEF InheritedIsCurrentOrClosed
<1>4. \A s \in Slots : ~Walked(s)' /\ ~WaitedAt(s)' /\ ~Walked(s) /\ ~WaitedAt(s)
  BY <1>1, <1>2 DEF Walked, WaitedAt
<1>5. WalkedIsTold'
  BY <1>4 DEF WalkedIsTold
<1>6. SharedWorkersDie'
  BY <1>1, <1>4 DEF ClosingInv, SharedWorkersDie
<1> QED
  BY <1>3, <1>5, <1>6 DEF ClosingInv

(* What Walked and WaitedAt are, before and after a step of the closer.    *)
LEMMA WalkingSlots ==
  ASSUME closer.at = "walking", NEW s \in Slots
  PROVE  (Walked(s) <=> s < closer.slot) /\ ~WaitedAt(s)
  BY DEF Walked, WaitedAt

LEMMA CloseNextKeepsWalk ==
  ASSUME Typed, ClosingInv, CloseNext
  PROVE  ClosingInv'
<1> DEFINE t == closer.slot
           w == <<t, clients[t]>>
<1>1. /\ closer.at = "walking" /\ t \in Slots /\ clients' = clients
      /\ closer'.inherited = closer.inherited
      /\ \/ /\ closer'.at = "walking" /\ closer'.slot = t + 1 /\ proc' = proc
            /\ ~(clients[t] > 0 /\ proc[w].shut = "open")
         \/ /\ closer'.at = "waiting" /\ closer'.slot = t /\ closer'.gen = clients[t]
            /\ clients[t] > 0 /\ w \in Workers /\ proc[w].shut = "open"
            /\ \A v \in Workers : v # w => proc'[v] = proc[v]
            /\ proc'[w].state = proc[w].state /\ proc'[w].shut # "open"
  BY CloseNextFacts DEF SameState
<1>2. /\ closer.inherited \in [Slots -> 0..Generations] /\ clients \in [Slots -> 0..Generations]
      /\ t \in Nat /\ \A s \in Slots : s \in Nat
  BY <1>1 DEF Typed, TypeOK, Slots
<1>3. \A s \in Slots : /\ clients[s] > 0 => <<s, clients[s]>> \in Workers
                       /\ closer.inherited[s] > 0 => <<s, closer.inherited[s]>> \in Workers
  BY <1>2, SizeAssumption DEF Workers
<1>4. \A s \in Slots : (Walked(s) <=> s < t) /\ ~WaitedAt(s)
  BY <1>1, WalkingSlots
<1>5. \A s \in Slots : closer.inherited[s] > 0 =>
        /\ <<s, closer.inherited[s]>> \in Workers
        /\ \/ closer.inherited[s] = clients[s]
           \/ proc[<<s, closer.inherited[s]>>].shut # "open"
        /\ s < t => proc[<<s, closer.inherited[s]>>].shut # "open"
  <2> SUFFICES ASSUME NEW s \in Slots, closer.inherited[s] > 0
               PROVE  /\ \/ closer.inherited[s] = clients[s]
                         \/ proc[<<s, closer.inherited[s]>>].shut # "open"
                      /\ s < t => proc[<<s, closer.inherited[s]>>].shut # "open"
    BY <1>3
  <2>1. \/ closer.inherited[s] \in {0, clients[s]}
        \/ proc[<<s, closer.inherited[s]>>].shut # "open"
    BY <1>1 DEF ClosingInv, InheritedIsCurrentOrClosed
  <2>2. closer.inherited[s] # 0
    OBVIOUS
  <2>3. s < t => proc[<<s, closer.inherited[s]>>].shut # "open"
    BY <1>4 DEF ClosingInv, WalkedIsTold
  <2> QED
    BY <2>1, <2>2, <2>3
<1>9. \A s \in Slots : /\ closer.inherited[s] = 0 \/ closer.inherited[s] > 0
                       /\ clients[s] = 0 \/ closer.inherited[s] <= clients[s]
  <2>1. \A s \in Slots : closer.inherited[s] = 0 \/ closer.inherited[s] > 0
    BY <1>2, SizeAssumption
  <2> QED
    BY <1>1, <2>1 DEF ClosingInv, InheritedIsCurrentOrClosed
<1>6. PerWorker > 1 => \A s \in Slots : clients[s] > 0 =>
        /\ proc[<<s, clients[s]>>].shut # "open" => s < t
        /\ s < t => ~Alive(<<s, clients[s]>>)
  BY <1>4 DEF ClosingInv, SharedWorkersDie
<1>7. CASE /\ closer'.at = "walking" /\ closer'.slot = t + 1 /\ proc' = proc
           /\ ~(clients[t] > 0 /\ proc[w].shut = "open")
  <2>1. \A s \in Slots : (Walked(s)' <=> s < t \/ s = t) /\ ~WaitedAt(s)'
    BY <1>2, <1>7 DEF Walked, WaitedAt
  <2>2. InheritedIsCurrentOrClosed'
    BY <1>1, <1>5, <1>7, <1>9 DEF InheritedIsCurrentOrClosed
  <2>3. WalkedIsTold'
    BY <1>1, <1>2, <1>5, <1>7, <2>1 DEF WalkedIsTold
  <2>4. SharedWorkersDie'
    <3> SUFFICES ASSUME PerWorker > 1, NEW s \in Slots, clients[s] > 0
                 PROVE  /\ proc[<<s, clients[s]>>].shut # "open" => Walked(s)'
                        /\ Walked(s)' => ~Alive(<<s, clients[s]>>)
      BY <1>1, <1>7, <2>1 DEF SharedWorkersDie, Alive
    <3>1. s # t
      BY <1>2, <1>6, <1>7
    <3> QED
      BY <1>6, <2>1, <3>1
  <2> QED
    BY <2>2, <2>3, <2>4 DEF ClosingInv
<1>8. CASE /\ closer'.at = "waiting" /\ closer'.slot = t /\ closer'.gen = clients[t]
           /\ clients[t] > 0 /\ w \in Workers /\ proc[w].shut = "open"
           /\ \A v \in Workers : v # w => proc'[v] = proc[v]
           /\ proc'[w].state = proc[w].state /\ proc'[w].shut # "open"
  <2>1. \A s \in Slots : (Walked(s)' <=> s < t) /\ (WaitedAt(s)' <=> s = t)
    BY <1>8 DEF Walked, WaitedAt
  <2>2. \A v \in Workers : proc[v].shut # "open" => proc'[v].shut # "open"
    BY <1>8
  <2>3. InheritedIsCurrentOrClosed'
    <3> SUFFICES ASSUME NEW s \in Slots
                 PROVE  \/ closer.inherited[s] \in {0, clients[s]}
                        \/ proc'[<<s, closer.inherited[s]>>].shut # "open"
      BY <1>1, <1>9 DEF InheritedIsCurrentOrClosed
    <3> HIDE DEF t, w
    <3>1. CASE closer.inherited[s] = 0
      BY <3>1
    <3>2. CASE closer.inherited[s] > 0
      BY <1>5, <2>2, <3>2
    <3> QED
      BY <1>9, <3>1, <3>2
  <2>4. WalkedIsTold'
    <3> SUFFICES ASSUME NEW s \in Slots, s < t \/ s = t, closer.inherited[s] > 0
                 PROVE  proc'[<<s, closer.inherited[s]>>].shut # "open"
      BY <1>1, <2>1 DEF WalkedIsTold
    <3>3. <<s, closer.inherited[s]>> \in Workers
      BY <1>5
    <3>1. CASE s < t
      <4> HIDE DEF t, w
      <4> QED
        BY <1>5, <2>2, <3>1, <3>3
    <3>2. CASE s = t
      <4>1. CASE closer.inherited[s] = clients[s]
        BY <1>8, <3>2, <4>1
      <4>2. CASE closer.inherited[s] # clients[s]
        <5>1. proc[<<s, closer.inherited[s]>>].shut # "open"
          BY <1>5, <4>2
        <5> QED
          BY <2>2, <3>3, <5>1
      <4> QED
        BY <4>1, <4>2
    <3> QED
      BY <3>1, <3>2
  <2>5. SharedWorkersDie'
    <3> SUFFICES ASSUME PerWorker > 1, NEW s \in Slots, clients[s] > 0
                 PROVE  /\ proc'[<<s, clients[s]>>].shut # "open" => s < t \/ s = t
                        /\ s < t => ~Alive(<<s, clients[s]>>)'
                        /\ s = t => closer'.gen = clients[s]
      BY <1>1, <2>1 DEF SharedWorkersDie
    <3>1. CASE s = t
      BY <1>2, <1>8, <3>1
    <3>2. CASE s # t
      <4>1. <<s, clients[s]>> \in Workers /\ <<s, clients[s]>> # w
        BY <1>3, <3>2
      <4>2. proc'[<<s, clients[s]>>] = proc[<<s, clients[s]>>]
        BY <1>8, <4>1
      <4>3. /\ proc[<<s, clients[s]>>].shut # "open" => s < t
            /\ s < t => ~Alive(<<s, clients[s]>>)
        BY <1>6
      <4>4. Alive(<<s, clients[s]>>)' <=> Alive(<<s, clients[s]>>)
        BY <1>1, <4>2 DEF Alive
      <4> HIDE DEF t, w
      <4> QED
        BY <3>2, <4>2, <4>3, <4>4
    <3> QED
      BY <3>1, <3>2
  <2> QED
    BY <2>3, <2>4, <2>5 DEF ClosingInv
<1> QED
  BY <1>1, <1>7, <1>8

LEMMA CloseWaitedKeepsWalk ==
  ASSUME Typed, ClosingInv, CloseWaited
  PROVE  ClosingInv'
<1> DEFINE t == closer.slot
<1>1. /\ closer.at = "waiting" /\ t \in Slots /\ clients' = clients /\ proc' = proc
      /\ ~Alive(<<t, closer.gen>>)
      /\ closer'.at = "walking" /\ closer'.slot = t + 1
      /\ closer'.inherited = closer.inherited
  BY CloseWaitedFacts DEF workerVars
<1>2. t \in Nat /\ \A s \in Slots : s \in Nat
  BY <1>1 DEF Slots
<1>3. \A s \in Slots : (Walked(s)' <=> Walked(s) \/ WaitedAt(s)) /\ ~WaitedAt(s)'
  BY <1>1, <1>2 DEF Walked, WaitedAt
<1>4. InheritedIsCurrentOrClosed'
  BY <1>1 DEF ClosingInv, InheritedIsCurrentOrClosed
<1>5. WalkedIsTold'
  BY <1>1, <1>3 DEF ClosingInv, WalkedIsTold
<1>6. SharedWorkersDie'
  <2> SUFFICES ASSUME PerWorker > 1, NEW s \in Slots, clients[s] > 0
               PROVE  /\ proc[<<s, clients[s]>>].shut # "open" => Walked(s)'
                      /\ Walked(s)' => ~Alive(<<s, clients[s]>>)
    BY <1>1, <1>3 DEF SharedWorkersDie, Alive
  <2>1. WaitedAt(s) => s = t /\ closer.gen = clients[s]
    BY DEF ClosingInv, SharedWorkersDie, WaitedAt
  <2> QED
    BY <1>1, <1>3, <2>1 DEF ClosingInv, SharedWorkersDie
<1> QED
  BY <1>4, <1>5, <1>6 DEF ClosingInv

LEMMA CloseReturnsKeepsWalk ==
  ASSUME Typed, ClosingInv, CloseReturns
  PROVE  ClosingInv'
<1>1. /\ closer.at = "walking" /\ closer.slot = Size + 1 /\ clients' = clients /\ proc' = proc
      /\ closer'.at = "closed" /\ closer'.inherited = closer.inherited
  BY CloseReturnsFacts DEF workerVars
<1>2. \A s \in Slots : s < closer.slot
  BY <1>1, SizeAssumption DEF Slots
<1>3. \A s \in Slots : Walked(s)' /\ Walked(s) /\ ~WaitedAt(s)' /\ ~WaitedAt(s)
  BY <1>1, <1>2 DEF Walked, WaitedAt
<1>4. InheritedIsCurrentOrClosed'
  BY <1>1 DEF ClosingInv, InheritedIsCurrentOrClosed
<1>5. WalkedIsTold'
  BY <1>1, <1>3 DEF ClosingInv, WalkedIsTold
<1>6. SharedWorkersDie'
  BY <1>1, <1>3 DEF ClosingInv, SharedWorkersDie, Alive
<1> QED
  BY <1>4, <1>5, <1>6 DEF ClosingInv

LEMMA WalkStep ==
  ASSUME Typed, ClosingInv, [Next]_vars
  PROVE  ClosingInv'
<1>1. ASSUME NEW j \in Jobs, Calm(j)
      PROVE  ClosingInv'
  <2>1. CallIsCalm(j)
    BY <1>1, CalmFacts
  <2> QED
    BY <2>1, WalkStays DEF CallIsCalm, Alive, SameShut
<1>2. ASSUME NEW j \in Jobs, Replace(j)
      PROVE  ClosingInv'
  <2>1. /\ clients' = clients /\ closer' = closer /\ PerWorker = 1
        /\ WorkerOf(j) \in Workers
        /\ \A v \in Workers : v # WorkerOf(j) => proc'[v] = proc[v]
        /\ proc'[WorkerOf(j)].state = proc[WorkerOf(j)].state
        /\ proc'[WorkerOf(j)].shut # "open"
    BY <1>2, ReplaceFacts DEF StaysEngaged, SameState
  <2>2. \A v \in Workers : (Alive(v)' => Alive(v)) /\ (proc[v].shut # "open" => proc'[v].shut # "open")
    <3> SUFFICES ASSUME NEW v \in Workers
                 PROVE  (proc'[v].state = "alive" => proc[v].state = "alive")
                        /\ (proc[v].shut # "open" => proc'[v].shut # "open")
      BY DEF Alive
    <3> QED
      BY <2>1
  <2> QED
    BY <2>1, <2>2, WalkStays
<1>3. ASSUME NEW j \in Jobs, OldEnded(j)
      PROVE  ClosingInv'
  <2>1. UNCHANGED <<proc, clients, closer>>
    BY <1>3, OldEndedFacts DEF StaysEngaged
  <2> QED
    BY <2>1, WalkStays DEF Alive, SameShut
<1>4. ASSUME NEW j \in Jobs, Enter(j) \/ Run(j)
      PROVE  ClosingInv'
  BY <1>1, <1>2, <1>3, <1>4, RunCases, CreateFailsKeepsWalk, CreateKeepsWalk
<1>5. ASSUME NEW w \in Workers, Node(w) \/ Reader(w) \/ Closing(w) \/ Faulty(w), OnlyWorkers
      PROVE  ClosingInv'
  <2>1. WorkerEffect(w)
    BY <1>5, WorkerStepIsEffect, TypedGives
  <2>2. \A v \in Workers : (Alive(v)' => Alive(v)) /\ SameShut(v)
    BY <2>1 DEF WorkerEffect, OthersRest, Alive, SameShut
  <2>3. UNCHANGED <<clients, closer>>
    BY <1>5 DEF OnlyWorkers, poolVars
  <2> QED
    BY <2>2, <2>3, WalkStays DEF SameShut
<1>6. ASSUME ContextEnds \/ UNCHANGED vars
      PROVE  ClosingInv'
  <2>1. UNCHANGED <<proc, clients, closer>>
    BY <1>6, ContextEndsFacts DEF workerVars, vars, poolVars
  <2> QED
    BY <2>1, WalkStays DEF Alive, SameShut
<1>7. ASSUME Close
      PROVE  ClosingInv'
  BY <1>7, BeginCloseStartsWalk, CloseNextKeepsWalk, CloseWaitedKeepsWalk, CloseReturnsKeepsWalk
  DEF Close
<1> QED
  BY <1>4, <1>5, <1>6, <1>7 DEF Next, WorkerStep

(* The third layer holds in every state.                                   *)
THEOREM WalkOfClose == Spec => []ClosingInv
<1>1. Init => ClosingInv
  <2> SUFFICES ASSUME Init
               PROVE  ClosingInv
    OBVIOUS
  <2>1. \A s \in Slots : ~Walked(s) /\ ~WaitedAt(s) /\ (clients[s] > 0 => <<s, clients[s]>> \in Workers)
    BY InitFacts, SizeAssumption DEF Walked, WaitedAt, Typed, TypeOK, Workers
  <2> QED
    BY <2>1, InitFacts
    DEF ClosingInv, InheritedIsCurrentOrClosed, WalkedIsTold, SharedWorkersDie
<1>2. Typed /\ ClosingInv /\ [Next]_vars => ClosingInv'
  BY WalkStep
<1> QED
  BY <1>1, <1>2, PoolTyped, PTL DEF Spec

(* Somebody is in the Close of a worker: the call that replaces it, or the *)
(* Close of the pool.                                                      *)
CallCloses(w) == \E j \in Jobs : At(j, "closing") /\ WorkerOf(j) = w
PoolCloses(w) == closer.at = "waiting" /\ w = <<closer.slot, closer.gen>>

(* Who closes a worker stays until its input is closed.                    *)
ClosedToTheEnd ==
    \A w \in Workers : proc[w].shut \in {"open", "eof"} \/ CallCloses(w) \/ PoolCloses(w)

(* A step after which nobody has left the Close of a worker, and which     *)
(* marks none.                                                             *)
LEMMA ClosersStay ==
  ASSUME Typed, ClosedToTheEnd,
         \A w \in Workers : SameShut(w) /\ EofStays(w),
         \A w \in Workers : proc'[w] \in Process,
         \A w \in Workers : CallCloses(w) => CallCloses(w)',
         \A w \in Workers : PoolCloses(w) => PoolCloses(w)'
  PROVE  ClosedToTheEnd'
<1> SUFFICES ASSUME NEW w \in Workers,
                    proc'[w].shut \notin {"open", "eof"}
             PROVE  CallCloses(w)' \/ PoolCloses(w)'
  BY DEF ClosedToTheEnd
<1>1. proc[w].shut \notin {"open", "eof"}
  BY DEF SameShut, EofStays
<1> QED
  BY <1>1 DEF ClosedToTheEnd

(* A step of the calls that changes no process.                            *)
LEMMA CallsStayClosing ==
  ASSUME NEW j \in Jobs, OtherCallsRest(j), ~At(j, "closing"), NEW w \in Workers, CallCloses(w)
  PROVE  CallCloses(w)'
<1>1. PICK k \in Jobs : At(k, "closing") /\ WorkerOf(k) = w
  BY DEF CallCloses
<1>2. call'[k] = call[k]
  BY <1>1 DEF OtherCallsRest
<1> QED
  BY <1>1, <1>2 DEF CallCloses, At, WorkerOf

LEMMA CloseStep ==
  ASSUME Typed, Typed', ClosedToTheEnd, [Next]_vars
  PROVE  ClosedToTheEnd'
<1>0. \A w \in Workers : proc'[w] \in Process
  BY DEF Typed, TypeOK, WorkerTypeOK
<1>1. ASSUME NEW j \in Jobs, Calm(j)
      PROVE  ClosedToTheEnd'
  <2>1. /\ UNCHANGED <<proc, closer>> /\ OtherCallsRest(j) /\ ~At(j, "closing")
    BY <1>1, CalmFacts DEF CallIsCalm, At
  <2> QED
    BY <1>0, <2>1, CallsStayClosing, ClosersStay DEF SameShut, EofStays, PoolCloses
<1>2. ASSUME NEW j \in Jobs, Replace(j)
      PROVE  ClosedToTheEnd'
  <2>1. /\ closer' = closer /\ OtherCallsRest(j) /\ ~At(j, "closing")
        /\ WorkerOf(j) \in Workers /\ call'[j].slot = call[j].slot /\ call'[j].gen = call[j].gen
        /\ \A v \in Workers : v # WorkerOf(j) => proc'[v] = proc[v]
        /\ proc[WorkerOf(j)].shut # "open" => proc' = proc
        /\ proc[WorkerOf(j)].shut = "open" => call'[j].at = "closing"
    BY <1>2, ReplaceFacts DEF StaysEngaged, At, Replace
  <2> SUFFICES ASSUME NEW w \in Workers
               PROVE  proc'[w].shut \in {"open", "eof"} \/ CallCloses(w)' \/ PoolCloses(w)'
    BY DEF ClosedToTheEnd
  <2>2. CASE proc'[w] = proc[w]
    BY <2>1, <2>2, CallsStayClosing DEF ClosedToTheEnd, PoolCloses
  <2>3. CASE w = WorkerOf(j) /\ proc[w].shut = "open"
    <3>1. call'[j].at = "closing" /\ <<call'[j].slot, call'[j].gen>> = w
      BY <2>1, <2>3 DEF WorkerOf
    <3> QED
      BY <3>1 DEF CallCloses, At, WorkerOf
  <2> QED
    BY <2>1, <2>2, <2>3
<1>3. ASSUME NEW j \in Jobs, OldEnded(j)
      PROVE  ClosedToTheEnd'
  <2>1. /\ UNCHANGED <<proc, closer>> /\ OtherCallsRest(j) /\ proc[WorkerOf(j)].shut = "eof"
    BY <1>3, OldEndedFacts DEF StaysEngaged, OldEnded, WaitReturns
  <2> SUFFICES ASSUME NEW w \in Workers, proc[w].shut # "eof", CallCloses(w)
               PROVE  CallCloses(w)'
    BY <2>1 DEF ClosedToTheEnd, PoolCloses
  <2>2. PICK k \in Jobs : At(k, "closing") /\ WorkerOf(k) = w
    BY DEF CallCloses
  <2>3. call'[k] = call[k]
    BY <2>1, <2>2 DEF OtherCallsRest
  <2> QED
    BY <2>2, <2>3 DEF CallCloses, At, WorkerOf
<1>4. ASSUME NEW j \in Jobs, CreateFails(j)
      PROVE  ClosedToTheEnd'
  <2>1. /\ UNCHANGED <<proc, closer>> /\ OtherCallsRest(j) /\ ~At(j, "closing")
    BY <1>4, CreateFailsFacts DEF workerVars, At, CreateFails
  <2> QED
    BY <1>0, <2>1, CallsStayClosing, ClosersStay DEF SameShut, EofStays, PoolCloses
<1>5. ASSUME NEW j \in Jobs, Create(j)
      PROVE  ClosedToTheEnd'
  <2>0. /\ closer' = closer /\ OtherCallsRest(j) /\ call[j].at = "creating"
        /\ proc' = [proc EXCEPT ![<<call[j].slot, call[j].gen + 1>>] = NewProcess]
    BY <1>5, CreateFacts
  <2>1. /\ closer' = closer /\ OtherCallsRest(j) /\ ~At(j, "closing")
        /\ \A v \in Workers : proc'[v] = proc[v] \/ proc'[v].shut = "open"
    <3> DEFINE u == <<call[j].slot, call[j].gen + 1>>
    <3>1. proc \in [Workers -> Process] /\ proc' = [proc EXCEPT ![u] = NewProcess]
      BY <2>0 DEF Typed, TypeOK, WorkerTypeOK
    <3> HIDE DEF u
    <3>2. ASSUME NEW v \in Workers
          PROVE  proc'[v] = proc[v] \/ proc'[v] = NewProcess
      BY <3>1
    <3> QED
      BY <2>0, <3>2, NewProcessFacts DEF At
  <2> SUFFICES ASSUME NEW w \in Workers, proc'[w] = proc[w]
               PROVE  proc'[w].shut \in {"open", "eof"} \/ CallCloses(w)' \/ PoolCloses(w)'
    BY <2>1 DEF ClosedToTheEnd
  <2> QED
    BY <2>1, CallsStayClosing DEF ClosedToTheEnd, PoolCloses
<1>6. ASSUME NEW j \in Jobs, Enter(j) \/ Run(j)
      PROVE  ClosedToTheEnd'
  BY <1>1, <1>2, <1>3, <1>4, <1>5, <1>6, RunCases
<1>7. ASSUME NEW w \in Workers, Node(w) \/ Reader(w) \/ Closing(w) \/ Faulty(w), OnlyWorkers
      PROVE  ClosedToTheEnd'
  <2>1. WorkerEffect(w)
    BY <1>7, WorkerStepIsEffect, TypedGives
  <2>2. \A v \in Workers : SameShut(v) /\ EofStays(v)
    BY <2>1 DEF WorkerEffect, OthersRest, SameShut, EofStays
  <2>3. UNCHANGED <<call, closer>>
    BY <1>7 DEF OnlyWorkers, callVars
  <2> QED
    BY <1>0, <2>2, <2>3, ClosersStay DEF CallCloses, PoolCloses, At, WorkerOf
<1>8. ASSUME ContextEnds \/ BeginClose \/ CloseReturns \/ UNCHANGED vars
      PROVE  ClosedToTheEnd'
  <2>1. UNCHANGED <<proc, call>> /\ (closer' = closer \/ closer.at # "waiting")
    BY <1>8, ContextEndsFacts, BeginCloseFacts, CloseReturnsFacts
    DEF workerVars, callVars, vars, BeginClose, CloseReturns
  <2> QED
    BY <1>0, <2>1, ClosersStay DEF SameShut, EofStays, CallCloses, PoolCloses, At, WorkerOf
<1>9. ASSUME CloseWaited
      PROVE  ClosedToTheEnd'
  <2>1. /\ UNCHANGED <<proc, call>> /\ proc[<<closer.slot, closer.gen>>].shut = "eof"
    BY <1>9, CloseWaitedFacts DEF workerVars, callVars, CloseWaited, WaitReturns
  <2> QED
    BY <2>1 DEF ClosedToTheEnd, CallCloses, PoolCloses, At, WorkerOf
<1>10. ASSUME CloseNext
       PROVE  ClosedToTheEnd'
  <2> DEFINE v == <<closer.slot, clients[closer.slot]>>
  <2>1. /\ call' = call /\ closer.at = "walking"
        /\ \/ /\ proc' = [proc EXCEPT ![v].shut = "marked"]
              /\ closer' = [closer EXCEPT !.at = "waiting", !.gen = clients[closer.slot]]
           \/ proc' = proc
    BY <1>10 DEF CloseNext, callVars
  <2>2. closer \in Closers
    BY DEF Typed, TypeOK, Closers, CloserPlaces
  <2> SUFFICES ASSUME NEW w \in Workers
               PROVE  proc'[w].shut \in {"open", "eof"} \/ CallCloses(w)' \/ PoolCloses(w)'
    BY DEF ClosedToTheEnd
  <2>3. CallCloses(w) => CallCloses(w)'
    BY <2>1 DEF CallCloses, At, WorkerOf
  <2>4. CASE proc'[w] = proc[w]
    BY <2>1, <2>3, <2>4 DEF ClosedToTheEnd, PoolCloses
  <2>5. CASE proc'[w] # proc[w]
    <3>1. /\ proc' = [proc EXCEPT ![v].shut = "marked"] /\ w = v
          /\ closer' = [closer EXCEPT !.at = "waiting", !.gen = clients[closer.slot]]
      BY <2>1, <2>5 DEF Typed, TypeOK, WorkerTypeOK
    <3>2. /\ closer'.at = "waiting" /\ closer'.slot = closer.slot
          /\ closer'.gen = clients[closer.slot]
      BY <2>2, <3>1 DEF Closers
    <3> QED
      BY <3>1, <3>2 DEF PoolCloses
  <2> QED
    BY <2>4, <2>5
<1> QED
  BY <1>6, <1>7, <1>8, <1>9, <1>10 DEF Next, WorkerStep, Close

LEMMA ClosersFinish == Spec => []ClosedToTheEnd
<1>1. Init => ClosedToTheEnd
  <2>1. Init => \A w \in Workers : proc[w] = NewProcess \/ proc[w] = NoProcess
    BY DEF Init, WorkerInit
  <2> QED
    BY <2>1, NewProcessFacts DEF ClosedToTheEnd
<1>2. Typed /\ Typed' /\ ClosedToTheEnd /\ [Next]_vars => ClosedToTheEnd'
  BY CloseStep
<1> QED
  BY <1>1, <1>2, PoolTyped, PTL DEF Spec

(* When Close returns, every worker that was in its slot when it began has *)
(* been sent its shutdown, or its input was closed before that, unless a   *)
(* call that replaces it is still in the Close of that worker.             *)
THEOREM CloseTellsEveryWorker == Spec => []CloseReachesWorkers
<1>1. ClosingInv /\ ClosedToTheEnd /\ Typed => CloseReachesWorkers
  <2> SUFFICES ASSUME ClosingInv, ClosedToTheEnd, Typed, closer.at = "closed",
                      NEW s \in Slots, closer.inherited[s] > 0
               PROVE  LET w == <<s, closer.inherited[s]>>
                      IN  \/ proc[w].shut = "eof"
                          \/ \E j \in Jobs : At(j, "closing") /\ WorkerOf(j) = w
    BY DEF CloseReachesWorkers
  <2> DEFINE w == <<s, closer.inherited[s]>>
  <2>1. proc[w].shut # "open"
    BY DEF ClosingInv, WalkedIsTold, Walked
  <2>2. w \in Workers
    BY DEF Typed, TypeOK, Workers
  <2>3. ~PoolCloses(w)
    BY DEF PoolCloses
  <2> HIDE DEF w
  <2>4. proc[w].shut = "eof" \/ CallCloses(w)
    BY <2>1, <2>2, <2>3 DEF ClosedToTheEnd
  <2> QED
    BY <2>4 DEF CallCloses, w
<1> QED
  BY <1>1, WalkOfClose, PoolTyped, ClosersFinish, PTL

(* When workers are shared by several sessions, none is replaced, and no   *)
(* process is left when Close returns; with one session a worker that does *)
(* not hold: a call may start a new worker behind the walk of Close.       *)
THEOREM SharedPoolIsEmptied ==
  ASSUME PerWorker > 1
  PROVE  Spec => []ClosedPoolIsEmpty
<1>1. Typed /\ WorkersOfSlots /\ ClosingInv => ClosedPoolIsEmpty
  <2> SUFFICES ASSUME Typed, WorkersOfSlots, ClosingInv, closer.at = "closed",
                      NEW s \in Slots, NEW g \in 1..Generations, Alive(<<s, g>>)
               PROVE  FALSE
    BY DEF ClosedPoolIsEmpty, Workers
  <2>1. g = clients[s] /\ clients[s] > 0
    BY SizeAssumption DEF WorkersOfSlots, NewestIsAlive
  <2>2. Walked(s)
    BY DEF Walked
  <2> QED
    BY <2>1, <2>2 DEF ClosingInv, SharedWorkersDie
<1> QED
  BY <1>1, PoolTyped, WorkersAreOfSlots, WalkOfClose, PTL

-----------------------------------------------------------------------------
(* The fourth layer: the stop messages *)

LEMMA NothingQueued ==
  ASSUME NEW type, NEW j, NEW J
  PROVE  ~Has(<<>>, type, j) /\ Named(<<>>, type, J) /\ InOrder(<<>>, j)
  BY DEF Has, Named, InOrder

(* A message leaves a queue at its front.                                  *)
LEMMA HeadRead ==
  ASSUME NEW s \in Seq(Message), s # <<>>, NEW type, NEW j, NEW J
  PROVE  /\ Has(Tail(s), type, j) => Has(s, type, j)
         /\ Names(Head(s), type, j) => Has(s, type, j)
         /\ Named(s, type, J) => Named(Tail(s), type, J)
         /\ Named(s, type, J) /\ Head(s).type = type => Head(s).id \in J
<1>1. /\ 1 \in DOMAIN s /\ Head(s) = s[1]
      /\ \A i \in DOMAIN Tail(s) : i + 1 \in DOMAIN s /\ Tail(s)[i] = s[i + 1]
  BY QueueFacts
<1>2. ASSUME Has(Tail(s), type, j)
      PROVE  Has(s, type, j)
  <2>1. PICK i \in DOMAIN Tail(s) : Names(Tail(s)[i], type, j)
    BY <1>2 DEF Has
  <2>2. i + 1 \in DOMAIN s /\ Names(s[i + 1], type, j)
    BY <1>1, <2>1
  <2> QED
    BY <2>2 DEF Has
<1>3. Names(Head(s), type, j) => Has(s, type, j)
  BY <1>1 DEF Has
<1>4. Named(s, type, J) => Named(Tail(s), type, J)
  BY <1>1 DEF Named
<1>5. Named(s, type, J) /\ Head(s).type = type => Head(s).id \in J
  BY <1>1 DEF Named
<1> QED
  BY <1>2, <1>3, <1>4, <1>5

(* A message joins a queue at its end.                                     *)
LEMMA MessageQueued ==
  ASSUME NEW s \in Seq(Message), NEW m \in Message, NEW type, NEW j, NEW J
  PROVE  /\ Has(Append(s, m), type, j) => Has(s, type, j) \/ Names(m, type, j)
         /\ Named(s, type, J) /\ (m.type = type => m.id \in J) => Named(Append(s, m), type, J)
<1>1. \A i \in DOMAIN Append(s, m) :
         \/ i \in DOMAIN s /\ Append(s, m)[i] = s[i]
         \/ i \notin DOMAIN s /\ Append(s, m)[i] = m
  BY QueueFacts
<1>2. Has(Append(s, m), type, j) => Has(s, type, j) \/ Names(m, type, j)
  BY <1>1 DEF Has
<1>3. Named(s, type, J) /\ (m.type = type => m.id \in J) => Named(Append(s, m), type, J)
  BY <1>1 DEF Named
<1> QED
  BY <1>2, <1>3

LEMMA OrderOfRest ==
  ASSUME NEW s \in Seq(Message), s # <<>>, NEW j, InOrder(s, j)
  PROVE  /\ InOrder(Tail(s), j)
         /\ Names(Head(s), "stop", j) => ~Has(Tail(s), "start", j)
<1>1. /\ 1 \in DOMAIN s /\ Head(s) = s[1]
      /\ \A i \in DOMAIN Tail(s) : i + 1 \in DOMAIN s /\ Tail(s)[i] = s[i + 1]
      /\ \A i \in DOMAIN s : i \in Nat
  BY QueueFacts
<1>2. Tail(s) \in Seq(Message)
  OBVIOUS
<1>3. \A i \in DOMAIN Tail(s) : i \in Nat /\ i > 0
  BY <1>2
<1>4. InOrder(Tail(s), j)
  <2> SUFFICES ASSUME NEW i \in DOMAIN Tail(s), NEW k \in DOMAIN Tail(s), i < k,
                      Names(Tail(s)[i], "stop", j), Names(Tail(s)[k], "start", j)
               PROVE  FALSE
    BY DEF InOrder
  <2>1. i + 1 < k + 1
    BY <1>3
  <2>2. /\ i + 1 \in DOMAIN s /\ k + 1 \in DOMAIN s
        /\ Names(s[i + 1], "stop", j) /\ Names(s[k + 1], "start", j)
    BY <1>1
  <2> QED
    BY <2>1, <2>2 DEF InOrder
<1>5. ASSUME Names(Head(s), "stop", j), Has(Tail(s), "start", j)
      PROVE  FALSE
  <2>1. PICK k \in DOMAIN Tail(s) : Names(Tail(s)[k], "start", j)
    BY <1>5 DEF Has
  <2>2. 1 < k + 1
    BY <1>3
  <2>3. k + 1 \in DOMAIN s /\ Names(s[k + 1], "start", j) /\ Names(s[1], "stop", j)
    BY <1>1, <1>5, <2>1
  <2> QED
    BY <1>1, <2>2, <2>3 DEF InOrder
<1> QED
  BY <1>4, <1>5

LEMMA OrderOfMore ==
  ASSUME NEW s \in Seq(Message), NEW m \in Message, NEW j, InOrder(s, j),
         ~Names(m, "start", j) \/ ~Has(s, "stop", j)
  PROVE  InOrder(Append(s, m), j)
<1>1. /\ \A i \in DOMAIN Append(s, m) :
            \/ i \in DOMAIN s /\ Append(s, m)[i] = s[i]
            \/ i \notin DOMAIN s /\ Append(s, m)[i] = m
      /\ \A i \in DOMAIN Append(s, m), k \in DOMAIN s : i \notin DOMAIN s => k < i
      /\ Append(s, m) \in Seq(Message)
  BY QueueFacts
<1>2. \A i \in DOMAIN Append(s, m) : i \in Nat
  BY <1>1
<1> SUFFICES ASSUME NEW i \in DOMAIN Append(s, m), NEW k \in DOMAIN Append(s, m), i < k,
                    Names(Append(s, m)[i], "stop", j), Names(Append(s, m)[k], "start", j)
             PROVE  FALSE
  BY DEF InOrder
<1>3. CASE k \in DOMAIN s
  <2>1. i \in DOMAIN s
    BY <1>1, <1>2, <1>3
  <2> QED
    BY <1>1, <1>3, <2>1 DEF InOrder
<1>4. CASE k \notin DOMAIN s
  <2>1. Names(m, "start", j)
    BY <1>1, <1>4
  <2>2. CASE i \in DOMAIN s
    BY <1>1, <2>1, <2>2 DEF Has
  <2>3. CASE i \notin DOMAIN s
    BY <1>1, <2>1, <2>3 DEF Names
  <2> QED
    BY <2>2, <2>3
<1> QED
  BY <1>3, <1>4

(* What a step does to the stops of job j in worker w, unless it sends one *)
(* or a start.                                                             *)
MailStep(w, j) ==
    /\ StopIsOnItsWay(w, j)' => StopIsOnItsWay(w, j)
    /\ StopIsAnswered(w, j)' =>
          StopIsAnswered(w, j) \/ (StopIsOnItsWay(w, j) /\ Quiet(w, j)')
    /\ Quiet(w, j) => Quiet(w, j)'
    /\ InOrder(input'[w], j)

LEMMA MailRests ==
  ASSUME NEW w \in Workers, NEW j \in Jobs, StopInv,
         proc'[w] = proc[w], input'[w] = input[w], output'[w] = output[w], pending'[w] = pending[w]
  PROVE  MailStep(w, j) /\ NamedAt(w)'
  BY DEF StopInv, StopIsLast, MailStep, NamedAt, Quiet, StopIsOnItsWay, StopIsAnswered

LEMMA QueuesTyped ==
  ASSUME Mail, NEW w \in Workers
  PROVE  /\ input[w] \in Seq(Message) /\ output[w] \in Seq(Message)
         /\ \A j \in DOMAIN pending[w] : pending[w][j] \in Seq(Message)
         /\ DOMAIN pending[w] \subseteq Jobs
  BY DEF Mail, WorkerTypeOK

LEMMA StopFacts ==
  ASSUME StopInv, NEW w \in Workers, NEW j \in Jobs
  PROVE  /\ NamedAt(w) /\ StopIsLast(w, j) /\ InOrder(input[w], j)
         /\ Named(input[w], "stop", Jobs) /\ Named(output[w], "stopped", Jobs)
         /\ \A k \in DOMAIN pending[w] : Named(pending[w][k], "stopped", {k})
  BY DEF StopInv, StopIsLast, NamedAt

(* The process reads the first message of its input.                       *)
LEMMA InputRead ==
  ASSUME Mail, StopInv, NEW w \in Workers, NEW j \in Jobs,
         input[w] # <<>>, input'[w] = Tail(input[w])
  PROVE  /\ Has(input'[w], "stop", j) => Has(input[w], "stop", j)
         /\ Has(input'[w], "start", j) => Has(input[w], "start", j)
         /\ Names(Head(input[w]), "start", j) => Has(input[w], "start", j)
         /\ Names(Head(input[w]), "stop", j) => Has(input[w], "stop", j)
         /\ Names(Head(input[w]), "stop", j) => ~Has(input'[w], "start", j)
         /\ Named(input'[w], "stop", Jobs) /\ InOrder(input'[w], j)
         /\ Head(input[w]).type = "stop" => Head(input[w]).id \in Jobs
<1>1. input[w] \in Seq(Message) /\ Named(input[w], "stop", Jobs) /\ InOrder(input[w], j)
  BY QueuesTyped, StopFacts
<1>2. /\ Has(input'[w], "stop", j) => Has(input[w], "stop", j)
      /\ Names(Head(input[w]), "stop", j) => Has(input[w], "stop", j)
      /\ Named(input'[w], "stop", Jobs)
      /\ Head(input[w]).type = "stop" => Head(input[w]).id \in Jobs
  BY <1>1, HeadRead
<1>3. /\ Has(input'[w], "start", j) => Has(input[w], "start", j)
      /\ Names(Head(input[w]), "start", j) => Has(input[w], "start", j)
  BY <1>1, HeadRead
<1>4. /\ InOrder(input'[w], j)
      /\ Names(Head(input[w]), "stop", j) => ~Has(input'[w], "start", j)
  BY <1>1, OrderOfRest
<1> QED
  BY <1>1, <1>2, <1>3, <1>4

(* A message for the process joins its input, or the pipe is closed.       *)
LEMMA InputGrows ==
  ASSUME Mail, StopInv, NEW w \in Workers, NEW j \in Jobs, NEW m \in Message,
         input'[w] = Append(input[w], m), ~Names(m, "start", j),
         m.type = "stop" => m.id \in Jobs
  PROVE  /\ Has(input'[w], "stop", j) => Has(input[w], "stop", j) \/ Names(m, "stop", j)
         /\ Has(input'[w], "start", j) => Has(input[w], "start", j)
         /\ Named(input'[w], "stop", Jobs) /\ InOrder(input'[w], j)
<1>1. input[w] \in Seq(Message) /\ Named(input[w], "stop", Jobs) /\ InOrder(input[w], j)
  BY QueuesTyped, StopFacts
<1>2. /\ Has(input'[w], "stop", j) => Has(input[w], "stop", j) \/ Names(m, "stop", j)
      /\ Named(input'[w], "stop", Jobs)
  BY <1>1, MessageQueued
<1>3. Has(input'[w], "start", j) => Has(input[w], "start", j)
  BY <1>1, MessageQueued
<1>4. InOrder(input'[w], j)
  BY <1>1, OrderOfMore
<1> QED
  BY <1>2, <1>3, <1>4

(* A start that is read is in progress, or answered with an error.         *)
LEMMA StartTakenKeepsMail ==
  ASSUME Mail, StopInv, NEW w \in Workers, NEW j \in Jobs, StartTaken(w)
  PROVE  MailStep(w, j) /\ NamedAt(w)'
<1>1. /\ pending' = pending
      /\ input[w] # <<>> /\ Head(input[w]).type = "start" /\ input'[w] = Tail(input[w])
      /\ \/ /\ proc'[w] = proc[w]
            /\ \E m \in Message : m.type = "error" /\ output'[w] = Append(output[w], m)
         \/ /\ proc'[w].busy = Head(input[w]).id /\ proc'[w].sessions = proc[w].sessions
            /\ output' = output
  BY StartTakenFacts
<1>2. /\ Has(output'[w], "stopped", j) => Has(output[w], "stopped", j)
      /\ Named(output'[w], "stopped", Jobs)
  <2>1. CASE \E m \in Message : m.type = "error" /\ output'[w] = Append(output[w], m)
    <3>1. PICK m \in Message : m.type = "error" /\ output'[w] = Append(output[w], m)
      BY <2>1
    <3>2. ~Names(m, "stopped", j) /\ m.type # "stopped"
      BY <3>1 DEF Names
    <3> QED
      BY <3>1, <3>2, MessageQueued, QueuesTyped, StopFacts
  <2>2. CASE output' = output
    BY <2>2, StopFacts
  <2> QED
    BY <1>1, <2>1, <2>2
<1>3. /\ Has(input'[w], "stop", j) => Has(input[w], "stop", j)
      /\ Has(input'[w], "start", j) => Has(input[w], "start", j)
      /\ Names(Head(input[w]), "start", j) => Has(input[w], "start", j)
      /\ Named(input'[w], "stop", Jobs) /\ InOrder(input'[w], j)
  BY <1>1, InputRead
<1>4. Quiet(w, j) => Quiet(w, j)'
  BY <1>1, <1>3 DEF Quiet, Names
<1>5. StopIsAnswered(w, j)' => StopIsAnswered(w, j)
  BY <1>1, <1>2 DEF StopIsAnswered
<1>6. NamedAt(w)'
  BY <1>1, <1>2, <1>3, StopFacts DEF NamedAt
<1> QED
  BY <1>3, <1>4, <1>5, <1>6 DEF MailStep, StopIsOnItsWay

(* A step that leaves the input, and adds no answer to a stop.             *)
LEMMA SpeakingKeepsMail ==
  ASSUME Mail, StopInv, NEW w \in Workers, NEW j \in Jobs,
         pending' = pending, input' = input, NEW m \in Message, m.type # "stopped",
         output'[w] = Append(output[w], m),
         Quiet(w, j) => j \notin proc'[w].sessions /\ proc'[w].busy # j
  PROVE  MailStep(w, j) /\ NamedAt(w)'
<1>1. ~Names(m, "stopped", j)
  BY DEF Names
<1>2. /\ Has(output'[w], "stopped", j) => Has(output[w], "stopped", j)
      /\ Named(output'[w], "stopped", Jobs)
  BY <1>1, MessageQueued, QueuesTyped, StopFacts
<1>3. StopIsAnswered(w, j)' => StopIsAnswered(w, j)
  BY <1>2 DEF StopIsAnswered
<1>4. NamedAt(w)'
  BY <1>2, StopFacts DEF NamedAt
<1>5. Quiet(w, j) => Quiet(w, j)'
  BY DEF Quiet
<1> QED
  BY <1>3, <1>4, <1>5, StopFacts DEF MailStep, StopIsOnItsWay

LEMMA StartEndsKeepsMail ==
  ASSUME Mail, StopInv, NEW w \in Workers, NEW j \in Jobs, StartEnds(w)
  PROVE  MailStep(w, j) /\ NamedAt(w)'
<1>1. /\ pending' = pending /\ input' = input
      /\ proc'[w].busy = None
      /\ proc'[w].sessions \subseteq proc[w].sessions \cup {proc[w].busy}
      /\ \E m \in Message : m.type \in {"started", "error"} /\ output'[w] = Append(output[w], m)
  BY StartEndsFacts
<1>2. PICK m \in Message : m.type \in {"started", "error"} /\ output'[w] = Append(output[w], m)
  BY <1>1
<1>3. Quiet(w, j) => j \notin proc'[w].sessions /\ proc'[w].busy # j
  BY <1>1, NoneAssumption DEF Quiet
<1>4. m.type # "stopped"
  BY <1>2
<1> QED
  BY <1>1, <1>2, <1>3, <1>4, SpeakingKeepsMail

LEMMA ActivityFailsKeepsMail ==
  ASSUME Mail, StopInv, NEW w \in Workers, NEW j \in Jobs, ActivityFails(w)
  PROVE  MailStep(w, j) /\ NamedAt(w)'
<1>1. /\ pending' = pending /\ input' = input /\ proc' = proc
      /\ \E m \in Message : m.type = "error" /\ output'[w] = Append(output[w], m)
  BY ActivityFailsFacts
<1>2. PICK m \in Message : m.type = "error" /\ output'[w] = Append(output[w], m)
  BY <1>1
<1>3. Quiet(w, j) => j \notin proc'[w].sessions /\ proc'[w].busy # j
  BY <1>1 DEF Quiet
<1>4. m.type # "stopped"
  BY <1>2
<1> QED
  BY <1>1, <1>2, <1>3, <1>4, SpeakingKeepsMail

LEMMA EndFailsKeepsMail ==
  ASSUME Mail, StopInv, NEW w \in Workers, NEW j \in Jobs, EndFails(w)
  PROVE  MailStep(w, j) /\ NamedAt(w)'
<1>1. /\ pending' = pending /\ input' = input
      /\ proc'[w].busy = None /\ proc'[w].sessions \subseteq proc[w].sessions
      /\ \E m \in Message : m.type = "fatal" /\ output'[w] = Append(output[w], m)
  BY EndFailsFacts
<1>2. PICK m \in Message : m.type = "fatal" /\ output'[w] = Append(output[w], m)
  BY <1>1
<1>3. Quiet(w, j) => j \notin proc'[w].sessions /\ proc'[w].busy # j
  BY <1>1, NoneAssumption DEF Quiet
<1>4. m.type # "stopped"
  BY <1>2
<1> QED
  BY <1>1, <1>2, <1>3, <1>4, SpeakingKeepsMail

(* A shutdown that throws is answered with an error.                       *)
LEMMA ShutdownFailsKeepsMail ==
  ASSUME Mail, StopInv, NEW w \in Workers, NEW j \in Jobs, ShutdownFails(w)
  PROVE  MailStep(w, j) /\ NamedAt(w)'
<1>1. /\ pending' = pending /\ input[w] # <<>> /\ input'[w] = Tail(input[w])
      /\ proc'[w].busy = proc[w].busy /\ proc'[w].sessions \subseteq proc[w].sessions
      /\ \E m \in Message : m.type = "error" /\ output'[w] = Append(output[w], m)
  BY ShutdownFailsFacts
<1>2. PICK m \in Message : m.type = "error" /\ output'[w] = Append(output[w], m)
  BY <1>1
<1>3. ~Names(m, "stopped", j) /\ m.type # "stopped"
  BY <1>2 DEF Names
<1>4. /\ Has(output'[w], "stopped", j) => Has(output[w], "stopped", j)
      /\ Named(output'[w], "stopped", Jobs)
  BY <1>2, <1>3, MessageQueued, QueuesTyped, StopFacts
<1>5. /\ Has(input'[w], "stop", j) => Has(input[w], "stop", j)
      /\ Has(input'[w], "start", j) => Has(input[w], "start", j)
      /\ Named(input'[w], "stop", Jobs) /\ InOrder(input'[w], j)
  BY <1>1, InputRead
<1>6. Quiet(w, j) => Quiet(w, j)'
  BY <1>1, <1>5 DEF Quiet
<1>7. StopIsAnswered(w, j)' => StopIsAnswered(w, j)
  BY <1>1, <1>4 DEF StopIsAnswered
<1>8. NamedAt(w)'
  BY <1>1, <1>4, <1>5, StopFacts DEF NamedAt
<1> QED
  BY <1>5, <1>6, <1>7, <1>8 DEF MailStep, StopIsOnItsWay

(* A stop that is read is answered when no session is registered: the      *)
(* process reads in order, and no start comes behind a stop.               *)
LEMMA StopTakenKeepsMail ==
  ASSUME Mail, StopInv, NEW w \in Workers, NEW j \in Jobs, StopTaken(w)
  PROVE  MailStep(w, j) /\ NamedAt(w)'
<1>1. /\ pending' = pending
      /\ input[w] # <<>> /\ Head(input[w]).type = "stop" /\ input'[w] = Tail(input[w])
      /\ proc'[w].busy = None
      /\ proc'[w].sessions = proc[w].sessions \ {Head(input[w]).id}
      /\ \E m \in Message : /\ output'[w] = Append(output[w], m)
                            /\ m.type = "stopped" => m.id = Head(input[w]).id
  BY StopTakenFacts
<1>2. PICK m \in Message : /\ output'[w] = Append(output[w], m)
                           /\ m.type = "stopped" => m.id = Head(input[w]).id
  BY <1>1
<1>3. /\ Has(input'[w], "stop", j) => Has(input[w], "stop", j)
      /\ Has(input'[w], "start", j) => Has(input[w], "start", j)
      /\ Names(Head(input[w]), "stop", j) => Has(input[w], "stop", j)
      /\ Names(Head(input[w]), "stop", j) => ~Has(input'[w], "start", j)
      /\ Named(input'[w], "stop", Jobs) /\ InOrder(input'[w], j)
      /\ Head(input[w]).id \in Jobs
  BY <1>1, InputRead
<1>4. /\ Has(output'[w], "stopped", j) => Has(output[w], "stopped", j) \/ Names(m, "stopped", j)
      /\ Named(output'[w], "stopped", Jobs)
  BY <1>2, <1>3, MessageQueued, QueuesTyped, StopFacts
<1>5. Quiet(w, j) => Quiet(w, j)'
  BY <1>1, <1>3, NoneAssumption DEF Quiet
<1>6. Names(m, "stopped", j) => StopIsOnItsWay(w, j) /\ Quiet(w, j)'
  <2> SUFFICES ASSUME Names(m, "stopped", j)
               PROVE  StopIsOnItsWay(w, j) /\ Quiet(w, j)'
    OBVIOUS
  <2>1. Head(input[w]).id = j /\ Names(Head(input[w]), "stop", j)
    BY <1>1, <1>2 DEF Names
  <2> QED
    BY <1>1, <1>3, <2>1, NoneAssumption DEF StopIsOnItsWay, Quiet
<1>7. NamedAt(w)'
  BY <1>1, <1>3, <1>4, StopFacts DEF NamedAt
<1>8. StopIsAnswered(w, j)' => StopIsAnswered(w, j) \/ Names(m, "stopped", j)
  BY <1>1, <1>4 DEF StopIsAnswered
<1> QED
  BY <1>3, <1>5, <1>6, <1>7, <1>8 DEF MailStep, StopIsOnItsWay

(* A step that takes something of the input or all of it, and says nothing *)
(* to the calls but that the worker ends.                                  *)
LEMMA ClearingKeepsMail ==
  ASSUME Mail, StopInv, NEW w \in Workers, NEW j \in Jobs,
         pending' = pending, output' = output,
         \/ input'[w] = input[w] \/ input'[w] = <<>>
         \/ input[w] # <<>> /\ input'[w] = Tail(input[w])
         \/ \E m \in Message : m.type = "shutdown" /\ input'[w] = Append(input[w], m),
         proc'[w].busy \in {proc[w].busy, None}, proc'[w].sessions \subseteq proc[w].sessions
  PROVE  MailStep(w, j) /\ NamedAt(w)'
<1>1. /\ Has(input'[w], "stop", j) => Has(input[w], "stop", j)
      /\ Has(input'[w], "start", j) => Has(input[w], "start", j)
      /\ Named(input'[w], "stop", Jobs) /\ InOrder(input'[w], j)
  <2>1. CASE input'[w] = input[w]
    BY <2>1, StopFacts
  <2>2. CASE input'[w] = <<>>
    BY <2>2, NothingQueued
  <2>3. CASE input[w] # <<>> /\ input'[w] = Tail(input[w])
    BY <2>3, InputRead
  <2>4. CASE \E m \in Message : m.type = "shutdown" /\ input'[w] = Append(input[w], m)
    <3>1. PICK m \in Message : m.type = "shutdown" /\ input'[w] = Append(input[w], m)
      BY <2>4
    <3>2. ~Names(m, "stop", j) /\ ~Names(m, "start", j) /\ m.type # "stop"
      BY <3>1 DEF Names
    <3> QED
      BY <3>1, <3>2, InputGrows
  <2> QED
    BY <2>1, <2>2, <2>3, <2>4
<1>2. Quiet(w, j) => Quiet(w, j)'
  BY <1>1, NoneAssumption DEF Quiet
<1>3. StopIsAnswered(w, j)' => StopIsAnswered(w, j)
  BY DEF StopIsAnswered
<1>4. NamedAt(w)'
  BY <1>1, StopFacts DEF NamedAt
<1> QED
  BY <1>1, <1>2, <1>3, <1>4 DEF MailStep, StopIsOnItsWay

(* Who gets a message: a stopped only the call of its job.                 *)
LEMMA DeliverKeepsMail ==
  ASSUME Mail, StopInv, NEW w \in Workers, NEW j \in Jobs, Deliver(w)
  PROVE  MailStep(w, j) /\ NamedAt(w)'
<1>1. /\ WorkerEffect(w) /\ input' = input /\ proc' = proc
      /\ output[w] # <<>> /\ output'[w] = Tail(output[w])
      /\ \A k \in DOMAIN pending[w] :
            \/ pending'[w][k] = pending[w][k]
            \/ /\ Head(output[w]).id \in {k, None}
               /\ pending'[w][k] = Append(pending[w][k], Head(output[w]))
  BY DeliverFacts
<1>2. DOMAIN pending'[w] = DOMAIN pending[w]
  BY <1>1 DEF WorkerEffect
<1>3. /\ output[w] \in Seq(Message) /\ Named(output[w], "stopped", Jobs)
      /\ DOMAIN pending[w] \subseteq Jobs
      /\ \A k \in DOMAIN pending[w] :
            pending[w][k] \in Seq(Message) /\ Named(pending[w][k], "stopped", {k})
  BY QueuesTyped, StopFacts
<1>4. Head(output[w]) \in Message
  BY <1>1, <1>3, QueueFacts
<1>5. /\ Has(output'[w], "stopped", j) => Has(output[w], "stopped", j)
      /\ Names(Head(output[w]), "stopped", j) => Has(output[w], "stopped", j)
      /\ Named(output'[w], "stopped", Jobs)
      /\ Head(output[w]).type = "stopped" => Head(output[w]).id \in Jobs
  BY <1>1, <1>3, HeadRead
<1>6. StopIsAnswered(w, j)' => StopIsAnswered(w, j)
  <2> SUFFICES ASSUME j \in DOMAIN pending[w], Has(pending'[w][j], "stopped", j)
               PROVE  StopIsAnswered(w, j)
    BY <1>2, <1>5 DEF StopIsAnswered
  <2>1. CASE pending'[w][j] = pending[w][j]
    BY <2>1 DEF StopIsAnswered
  <2>2. CASE pending'[w][j] = Append(pending[w][j], Head(output[w]))
    <3>1. Has(pending[w][j], "stopped", j) \/ Names(Head(output[w]), "stopped", j)
      BY <1>3, <1>4, <2>2, MessageQueued
    <3> QED
      BY <1>5, <3>1 DEF StopIsAnswered
  <2> QED
    BY <1>1, <2>1, <2>2
<1>7. ASSUME NEW k \in DOMAIN pending[w]
      PROVE  Named(pending'[w][k], "stopped", {k})
  <2>1. CASE pending'[w][k] = pending[w][k]
    BY <1>3, <2>1
  <2>2. CASE /\ Head(output[w]).id \in {k, None}
             /\ pending'[w][k] = Append(pending[w][k], Head(output[w]))
    <3>1. Head(output[w]).type = "stopped" => Head(output[w]).id \in {k}
      BY <1>5, <2>2, NoneAssumption
    <3>2. pending[w][k] \in Seq(Message) /\ Named(pending[w][k], "stopped", {k})
      BY <1>3
    <3>3. Named(Append(pending[w][k], Head(output[w])), "stopped", {k})
      BY <1>4, <3>1, <3>2, MessageQueued
    <3> QED
      BY <2>2, <3>3
  <2> QED
    BY <1>1, <2>1, <2>2
<1>8. NamedAt(w)'
  <2>1. input'[w] = input[w]
    BY <1>1
  <2>2. \A k \in DOMAIN pending'[w] : Named(pending'[w][k], "stopped", {k})
    BY <1>2, <1>7
  <2> QED
    BY <1>5, <2>1, <2>2, StopFacts DEF NamedAt
<1>9. (Quiet(w, j) => Quiet(w, j)') /\ InOrder(input'[w], j)
  BY <1>1, StopFacts DEF Quiet
<1> QED
  BY <1>1, <1>6, <1>8, <1>9 DEF MailStep, StopIsOnItsWay

LEMMA ReaderLeavesKeepsMail ==
  ASSUME Mail, StopInv, NEW w \in Workers, NEW j \in Jobs, ReaderEnds(w) \/ ReaderFails(w)
  PROVE  MailStep(w, j) /\ NamedAt(w)'
<1>1. /\ WorkerEffect(w) /\ input' = input /\ output'[w] = <<>>
      /\ proc'[w].busy = proc[w].busy /\ proc'[w].sessions = proc[w].sessions
      /\ \E m \in Message : m.type = "fatal" /\ \A k \in DOMAIN pending[w] :
            \/ pending'[w][k] = pending[w][k]
            \/ pending'[w][k] = Append(pending[w][k], m)
  BY ReaderLeavesFacts
<1>2. PICK m \in Message : m.type = "fatal" /\ \A k \in DOMAIN pending[w] :
            \/ pending'[w][k] = pending[w][k]
            \/ pending'[w][k] = Append(pending[w][k], m)
  BY <1>1
<1>3. DOMAIN pending'[w] = DOMAIN pending[w]
  BY <1>1 DEF WorkerEffect
<1>4. \A k \in DOMAIN pending[w] :
         pending[w][k] \in Seq(Message) /\ Named(pending[w][k], "stopped", {k})
  BY QueuesTyped, StopFacts
<1>5. ~Names(m, "stopped", j) /\ m.type # "stopped"
  BY <1>2 DEF Names
<1>6. ~Has(output'[w], "stopped", j) /\ Named(output'[w], "stopped", Jobs)
  BY <1>1, NothingQueued
<1>7. StopIsAnswered(w, j)' => StopIsAnswered(w, j)
  <2> SUFFICES ASSUME j \in DOMAIN pending[w], Has(pending'[w][j], "stopped", j)
               PROVE  Has(pending[w][j], "stopped", j)
    BY <1>3, <1>6 DEF StopIsAnswered
  <2>1. CASE pending'[w][j] = Append(pending[w][j], m)
    BY <1>4, <1>5, <2>1, MessageQueued
  <2> QED
    BY <1>2, <2>1
<1>8. ASSUME NEW k \in DOMAIN pending[w]
      PROVE  Named(pending'[w][k], "stopped", {k})
  <2>1. CASE pending'[w][k] = Append(pending[w][k], m)
    BY <1>4, <1>5, <2>1, MessageQueued
  <2> QED
    BY <1>2, <1>4, <2>1
<1>9. NamedAt(w)'
  <2>1. input'[w] = input[w]
    BY <1>1
  <2>2. \A k \in DOMAIN pending'[w] : Named(pending'[w][k], "stopped", {k})
    BY <1>3, <1>8
  <2> QED
    BY <1>6, <2>1, <2>2, StopFacts DEF NamedAt
<1>10. (Quiet(w, j) => Quiet(w, j)') /\ InOrder(input'[w], j)
  BY <1>1, StopFacts DEF Quiet
<1> QED
  BY <1>1, <1>7, <1>9, <1>10 DEF MailStep, StopIsOnItsWay

(* No step of a worker starts or stops a job on its own account.           *)
LEMMA WorkerKeepsMail ==
  ASSUME Mail, StopInv, NEW w \in Workers, Node(w) \/ Reader(w) \/ Closing(w) \/ Faulty(w)
  PROVE  \A v \in Workers : \A j \in Jobs : MailStep(v, j) /\ NamedAt(v)'
<1> SUFFICES ASSUME NEW v \in Workers, NEW j \in Jobs
             PROVE  MailStep(v, j) /\ NamedAt(v)'
  OBVIOUS
<1>1. CASE v # w
  <2>1. OthersRest(w)
    BY WorkerStepIsEffect DEF WorkerEffect
  <2>2. /\ proc'[v] = proc[v] /\ input'[v] = input[v]
        /\ output'[v] = output[v] /\ pending'[v] = pending[v]
    BY <1>1, <2>1 DEF OthersRest
  <2> QED
    BY <2>2, MailRests
<1>2. MailStep(w, j) /\ NamedAt(w)'
  <2>1. CASE ShutdownTaken(w)
    <3>1. /\ pending' = pending /\ output' = output
          /\ input[w] # <<>> /\ input'[w] = Tail(input[w])
          /\ proc'[w].busy \in {proc[w].busy, None} /\ proc'[w].sessions \subseteq proc[w].sessions
      BY <2>1, ShutdownTakenFacts
    <3> QED
      BY <3>1, ClearingKeepsMail
  <2>2. CASE Exit(w) \/ Crash(w)
    <3>1. /\ pending' = pending /\ output' = output
          /\ input'[w] = input[w] \/ input'[w] = <<>>
          /\ proc'[w].busy \in {proc[w].busy, None} /\ proc'[w].sessions \subseteq proc[w].sessions
      BY <2>2, EndFacts
    <3> QED
      BY <3>1, ClearingKeepsMail
  <2>3. CASE Closing(w)
    <3>1. /\ pending' = pending /\ output' = output
          /\ \/ input'[w] = input[w]
             \/ \E m \in Message : m.type = "shutdown" /\ input'[w] = Append(input[w], m)
          /\ proc'[w].busy \in {proc[w].busy, None} /\ proc'[w].sessions \subseteq proc[w].sessions
      BY <2>3, ClosingFacts
    <3> QED
      BY <3>1, ClearingKeepsMail
  <2>4. CASE StartTaken(w) \/ StartEnds(w) \/ StopTaken(w)
    BY <2>4, StartTakenKeepsMail, StartEndsKeepsMail, StopTakenKeepsMail
  <2>5. CASE Deliver(w) \/ ActivityFails(w) \/ ReaderEnds(w) \/ ReaderFails(w)
    BY <2>5, DeliverKeepsMail, ActivityFailsKeepsMail, ReaderLeavesKeepsMail
  <2>6. CASE ShutdownFails(w) \/ EndFails(w)
    BY <2>6, ShutdownFailsKeepsMail, EndFailsKeepsMail
  <2> QED
    BY <2>1, <2>2, <2>3, <2>4, <2>5, <2>6 DEF Node, Reader, Faulty
<1> QED
  BY <1>1, <1>2

(* What waits for a call comes from the reader only.                       *)
LEMMA ShrinkingKeepsAnswers ==
  ASSUME Typed, StopInv, PendingShrinks, output' = output, NEW w \in Workers, NEW j \in Jobs
  PROVE  /\ StopIsAnswered(w, j)' => StopIsAnswered(w, j)
         /\ Named(input'[w], "stop", Jobs) => NamedAt(w)'
<1>1. \A k \in DOMAIN pending[w] :
         pending[w][k] \in Seq(Message) /\ Named(pending[w][k], "stopped", {k})
  BY TypedGives, QueuesTyped, StopFacts
<1>2. ASSUME NEW k \in DOMAIN pending'[w]
      PROVE  /\ Named(pending'[w][k], "stopped", {k})
             /\ Has(pending'[w][k], "stopped", j) =>
                   k \in DOMAIN pending[w] /\ Has(pending[w][k], "stopped", j)
  <2>1. CASE pending'[w][k] = <<>>
    BY <2>1, NothingQueued
  <2>2. CASE k \in DOMAIN pending[w] /\ pending'[w][k] = pending[w][k]
    BY <1>1, <2>2
  <2>3. CASE k \in DOMAIN pending[w] /\ pending[w][k] # <<>> /\ pending'[w][k] = Tail(pending[w][k])
    <3>1. pending[w][k] \in Seq(Message) /\ Named(pending[w][k], "stopped", {k})
      BY <1>1, <2>3
    <3>2. /\ Named(Tail(pending[w][k]), "stopped", {k})
          /\ Has(Tail(pending[w][k]), "stopped", j) => Has(pending[w][k], "stopped", j)
      BY <2>3, <3>1, HeadRead
    <3> QED
      BY <2>3, <3>2
  <2> QED
    BY <2>1, <2>2, <2>3 DEF PendingShrinks
<1>3. StopIsAnswered(w, j)' => StopIsAnswered(w, j)
  BY <1>2 DEF StopIsAnswered
<1>4. Named(input'[w], "stop", Jobs) => NamedAt(w)'
  BY <1>2, StopFacts DEF NamedAt
<1> QED
  BY <1>3, <1>4

(* What a call does to the mail when it sends nothing.                     *)
LEMMA SilentKeepsMail ==
  ASSUME Typed, StopInv, PendingShrinks, output' = output, NEW w \in Workers, NEW j \in Jobs,
         input'[w] = input[w], proc'[w].busy \in {proc[w].busy, None},
         proc'[w].sessions \subseteq proc[w].sessions
  PROVE  MailStep(w, j) /\ NamedAt(w)'
<1>1. (StopIsAnswered(w, j)' => StopIsAnswered(w, j)) /\ NamedAt(w)'
  BY ShrinkingKeepsAnswers, StopFacts
<1>2. Quiet(w, j) => Quiet(w, j)'
  BY NoneAssumption DEF Quiet
<1> QED
  BY <1>1, <1>2, StopFacts DEF MailStep, StopIsOnItsWay

(* Once the context has ended, a job whose call sent a stop is past: what  *)
(* it may still do is take the answer and leave.                           *)
LEMMA PastRests ==
  ASSUME Typed, NEW k \in Jobs, call'[k] = call[k], ctxDone => ctxDone', called \subseteq called',
         Past(k)
  PROVE  Past(k)'
  BY DEF Past

(* The jobs that no step has past are in one of these places, or may call  *)
(* again, or their context goes on.                                        *)
LEMMA PastCall ==
  ASSUME Typed, NEW j \in Jobs, Enter(j) \/ Run(j)
  PROVE  /\ OtherCallsRest(j) /\ ctxDone' = ctxDone /\ called \subseteq called'
         /\ Past(j) => Past(j)'
<1>1. ASSUME Enter(j)
      PROVE  OtherCallsRest(j) /\ ctxDone' = ctxDone /\ called \subseteq called' /\ ~Past(j)
  BY <1>1, EnterFacts DEF Past
<1>2. ASSUME GiveUp(j) \/ TakeSlot(j) \/ CreateFails(j) \/ Create(j)
      PROVE  OtherCallsRest(j) /\ ctxDone' = ctxDone /\ called \subseteq called' /\ ~Past(j)
  BY <1>2, GiveUpFacts, TakeSlotFacts, CreateFailsFacts, CreateFacts DEF Past
<1>3. ASSUME Register(j) \/ SendStart(j) \/ Receive(j) \/ SeeContext(j) \/ Replace(j) \/ OldEnded(j)
      PROVE  OtherCallsRest(j) /\ ctxDone' = ctxDone /\ called \subseteq called' /\ ~Past(j)
  <2>1. StaysEngaged(j)
    BY <1>3, RegisterFacts, SendStartFacts, ReceiveFacts, SeeContextFacts, ReplaceFacts, OldEndedFacts
  <2>2. call[j].at \in {"registering", "sending", "receiving", "closing"} \/ ~ctxDone
    BY <1>3, RegisterFacts, SendStartFacts, ReceiveFacts, SeeContextFacts, ReplaceFacts, OldEndedFacts
  <2> QED
    BY <2>1, <2>2 DEF StaysEngaged, Past
<1>4. ASSUME Drain(j) \/ StopTimeout(j)
      PROVE  /\ OtherCallsRest(j) /\ ctxDone' = ctxDone /\ called \subseteq called'
             /\ Past(j) => Past(j)'
  <2>1. StaysEngaged(j) /\ call'[j].at \in {"draining", "judging"}
    BY <1>4, DrainFacts, StopTimeoutFacts
  <2> QED
    BY <2>1 DEF StaysEngaged, Past
<1>5. ASSUME Leave(j)
      PROVE  /\ OtherCallsRest(j) /\ ctxDone' = ctxDone /\ called \subseteq called'
             /\ Past(j) => Past(j)'
  <2>1. /\ OtherCallsRest(j) /\ ctxDone' = ctxDone /\ called' = called
        /\ call[j].at = "judging" /\ call'[j].at = "idle" /\ (ctxDone => ~call'[j].retry)
    BY <1>5, LeaveFacts
  <2>2. j \in called
    BY <2>1 DEF Typed, CallersCalled, At
  <2> QED
    BY <2>1, <2>2 DEF Past
<1> QED
  BY <1>1, <1>2, <1>3, <1>4, <1>5 DEF Run

LEMMA PastStays ==
  ASSUME Typed, [Next]_vars
  PROVE  \A k \in Jobs : Past(k) => Past(k)'
<1> SUFFICES ASSUME NEW k \in Jobs, Past(k)
             PROVE  Past(k)'
  OBVIOUS
<1>1. ASSUME NEW j \in Jobs, Enter(j) \/ Run(j)
      PROVE  Past(k)'
  <2>1. CASE j = k
    BY <1>1, <2>1, PastCall
  <2>2. CASE j # k
    <3>1. call'[k] = call[k] /\ ctxDone' = ctxDone /\ called \subseteq called'
      BY <1>1, <2>2, PastCall DEF OtherCallsRest
    <3> QED
      BY <3>1, PastRests
  <2> QED
    BY <2>1, <2>2
<1>2. ASSUME UNCHANGED <<call, called>>, ctxDone => ctxDone'
      PROVE  Past(k)'
  BY <1>2, PastRests
<1>3. ASSUME OnlyWorkers \/ UNCHANGED vars
      PROVE  UNCHANGED <<call, called>> /\ (ctxDone => ctxDone')
  BY <1>3 DEF OnlyWorkers, vars, callVars
<1>4. ASSUME ContextEnds \/ Close
      PROVE  UNCHANGED <<call, called>> /\ (ctxDone => ctxDone')
  BY <1>4, ContextEndsFacts, BeginCloseFacts, CloseNextFacts, CloseWaitedFacts, CloseReturnsFacts
  DEF Close
<1> QED
  BY <1>1, <1>2, <1>3, <1>4 DEF Next

(* The place of a stop after a step that may send one for a past job.      *)
LEMMA StopStaysLast ==
  ASSUME NEW w \in Workers, NEW j \in Jobs, StopIsLast(w, j), Past(j) => Past(j)', MailStep(w, j)
  PROVE  StopIsLast(w, j)'
<1>1. StopIsOnItsWay(w, j)' \/ StopIsAnswered(w, j)' => Past(j)'
  BY DEF StopIsLast, MailStep
<1>2. StopIsAnswered(w, j)' => Quiet(w, j)'
  BY DEF StopIsLast, MailStep
<1> QED
  BY <1>1, <1>2 DEF StopIsLast, MailStep

(* A call that returned a cancellation and has not left.                   *)
LEMMA CancelledRests ==
  ASSUME Typed, StopInv, NEW k \in Jobs, call'[k] = call[k], ctxDone => ctxDone',
         \A w \in Workers : Quiet(w, k) => Quiet(w, k)'
  PROVE  CancelledIsQuiet(k)'
<1> SUFFICES ASSUME call[k].result = "cancelled"
             PROVE  ctxDone' /\ At(k, "judging")' /\ Quiet(WorkerOf(k), k)'
  BY DEF CancelledIsQuiet
<1>1. ctxDone /\ call[k].at = "judging" /\ Quiet(WorkerOf(k), k)
  BY DEF StopInv, CancelledIsQuiet, At
<1>2. WorkerOf(k) \in Workers
  BY <1>1, TypedGives DEF Engaged
<1>3. WorkerOf(k)' = WorkerOf(k)
  BY DEF WorkerOf
<1>4. \A w \in Workers : w = WorkerOf(k)' /\ Quiet(w, k)' => Quiet(WorkerOf(k), k)'
  BY DEF Quiet
<1> QED
  BY <1>1, <1>2, <1>3, <1>4 DEF At

LEMMA CancelledEnds ==
  ASSUME StopInv, NEW j \in Jobs,
         \/ call'[j].result \in {"none", "ok", "failed"}
         \/ call'[j].result = call[j].result /\ (call[j].at # "judging" \/ ~ctxDone)
  PROVE  CancelledIsQuiet(j)'
  BY DEF StopInv, CancelledIsQuiet, At

(* A step of a call, from what it does to the mail and to its own result.  *)
LEMMA CallKeepsStops ==
  ASSUME Typed, StopInv, NEW j \in Jobs, Enter(j) \/ Run(j), CancelledIsQuiet(j)',
         \A w \in Workers : \A k \in Jobs :
            NamedAt(w)' /\ (MailStep(w, k) \/ (k = j /\ StopIsLast(w, k)'))
  PROVE  StopInv'
<1>1. \A k \in Jobs : Past(k) => Past(k)'
  BY PastStays DEF Next
<1>2. ASSUME NEW w \in Workers, NEW k \in Jobs
      PROVE  StopIsLast(w, k)'
  BY <1>1, <1>2, StopFacts, StopStaysLast
<1>3. ASSUME NEW k \in Jobs, k # j
      PROVE  CancelledIsQuiet(k)'
  <2>1. call'[k] = call[k] /\ ctxDone' = ctxDone
    BY <1>3, PastCall DEF OtherCallsRest
  <2>2. \A w \in Workers : Quiet(w, k) => Quiet(w, k)'
    BY <1>3 DEF MailStep
  <2> QED
    BY <2>1, <2>2, CancelledRests
<1> QED
  BY <1>2, <1>3 DEF StopInv

LEMMA SilentCallKeepsStops ==
  ASSUME Typed, StopInv, NEW j \in Jobs, Enter(j) \/ Run(j), CancelledIsQuiet(j)',
         PendingShrinks, input' = input, output' = output,
         \A w \in Workers : /\ proc'[w].busy \in {proc[w].busy, None}
                            /\ proc'[w].sessions \subseteq proc[w].sessions
  PROVE  StopInv'
<1>1. \A w \in Workers : \A k \in Jobs : MailStep(w, k) /\ NamedAt(w)'
  BY SilentKeepsMail
<1> QED
  BY <1>1, CallKeepsStops

LEMMA PendingStays ==
  ASSUME Typed, pending' = pending
  PROVE  PendingShrinks
  BY DEF PendingShrinks

(* The calls that neither send nor return a cancellation.                  *)
LEMMA QuietCallsKeepStops ==
  ASSUME Typed, StopInv, NEW j \in Jobs,
         \/ Enter(j) \/ GiveUp(j) \/ TakeSlot(j) \/ Register(j) \/ Receive(j)
         \/ StopTimeout(j) \/ Leave(j) \/ OldEnded(j) \/ CreateFails(j)
  PROVE  StopInv'
<1>1. CASE Enter(j) \/ GiveUp(j) \/ TakeSlot(j) \/ Leave(j) \/ CreateFails(j)
  <2>1. /\ proc' = proc /\ input' = input /\ output' = output /\ pending' = pending
        /\ \/ call'[j].result \in {"none", "ok", "failed"}
           \/ call'[j].result = call[j].result /\ call[j].at # "judging"
    BY <1>1, EnterFacts, GiveUpFacts, TakeSlotFacts, LeaveFacts, CreateFailsFacts DEF workerVars
  <2> QED
    BY <1>1, <2>1, CancelledEnds, PendingStays, SilentCallKeepsStops DEF Run
<1>2. CASE Register(j) \/ Receive(j) \/ StopTimeout(j) \/ OldEnded(j)
  <2>1. /\ proc' = proc /\ input' = input /\ output' = output /\ PendingShrinks
        /\ \/ call'[j].result \in {"none", "ok", "failed"}
           \/ call'[j].result = call[j].result /\ call[j].at # "judging"
    BY <1>2, RegisterFacts, ReceiveFacts, StopTimeoutFacts, OldEndedFacts
  <2> QED
    BY <1>2, <2>1, CancelledEnds, SilentCallKeepsStops DEF Run
<1> QED
  BY <1>1, <1>2

LEMMA DrainKeepsStops ==
  ASSUME Typed, StopInv, NEW j \in Jobs, Drain(j)
  PROVE  StopInv'
<1> DEFINE w == WorkerOf(j)
<1>1. /\ StaysEngaged(j) /\ PendingShrinks /\ proc' = proc /\ input' = input /\ output' = output
      /\ call[j].at = "draining"
      /\ \/ call'[j].result \in {call[j].result, "failed"}
         \/ /\ call'[j].result = "cancelled" /\ call'[j].at = "judging"
            /\ w \in Workers /\ j \in DOMAIN pending[w]
            /\ \E i \in DOMAIN pending[w][j] : pending[w][j][i].type = "stopped"
  BY DrainFacts
<1>2. CASE call'[j].result \in {call[j].result, "failed"}
  BY <1>1, <1>2, CancelledEnds, SilentCallKeepsStops DEF Run
<1>3. CASE /\ call'[j].result = "cancelled" /\ call'[j].at = "judging"
           /\ w \in Workers /\ j \in DOMAIN pending[w]
           /\ \E i \in DOMAIN pending[w][j] : pending[w][j][i].type = "stopped"
  <2>1. Has(pending[w][j], "stopped", j)
    <3>1. Named(pending[w][j], "stopped", {j})
      BY <1>3, StopFacts
    <3> QED
      BY <1>3, <3>1 DEF Named, Has, Names
  <2>2. Past(j) /\ Quiet(w, j)
    BY <1>3, <2>1, StopFacts DEF StopIsAnswered, StopIsLast
  <2>3. ctxDone' /\ WorkerOf(j)' = w
    BY <1>1, <2>2 DEF StaysEngaged, Past, WorkerOf
  <2>4. CancelledIsQuiet(j)'
    <3>1. Quiet(WorkerOf(j), j)'
      BY <1>1, <2>2, <2>3 DEF Quiet
    <3> QED
      BY <1>3, <2>3, <3>1 DEF CancelledIsQuiet, At
  <2> QED
    BY <1>1, <2>4, SilentCallKeepsStops DEF Run
<1> QED
  BY <1>1, <1>2, <1>3

LEMMA ReplaceKeepsStops ==
  ASSUME Typed, StopInv, NEW j \in Jobs, Replace(j)
  PROVE  StopInv'
<1>1. /\ PendingShrinks /\ input' = input /\ output' = output
      /\ call'[j].result = call[j].result /\ ~ctxDone
      /\ \A v \in Workers : v # WorkerOf(j) => proc'[v] = proc[v]
      /\ proc'[WorkerOf(j)].busy = proc[WorkerOf(j)].busy
      /\ proc'[WorkerOf(j)].sessions = proc[WorkerOf(j)].sessions
  BY ReplaceFacts
<1>2. \A w \in Workers : /\ proc'[w].busy \in {proc[w].busy, None}
                         /\ proc'[w].sessions \subseteq proc[w].sessions
  BY <1>1
<1> QED
  BY <1>1, <1>2, CancelledEnds, SilentCallKeepsStops DEF Run

LEMMA CreateKeepsStops ==
  ASSUME Typed, StopInv, NEW j \in Jobs, Create(j)
  PROVE  StopInv'
<1> DEFINE v == <<call[j].slot, call[j].gen + 1>>
<1>1. /\ input' = input /\ output' = output /\ pending' = pending
      /\ call'[j].result = "none"
      /\ v \in Workers /\ proc' = [proc EXCEPT ![v] = NewProcess]
  BY CreateFacts DEF Workers
<1>2. proc \in [Workers -> Process]
  BY DEF Typed, TypeOK, WorkerTypeOK
<1>3. /\ NewProcess.busy = None /\ NewProcess.sessions = {}
  BY NewProcessFacts
<1>4. \A w \in Workers : /\ proc'[w].busy \in {proc[w].busy, None}
                         /\ proc'[w].sessions \subseteq proc[w].sessions
  <2> SUFFICES ASSUME NEW w \in Workers
               PROVE  /\ proc'[w].busy \in {proc[w].busy, None}
                      /\ proc'[w].sessions \subseteq proc[w].sessions
    OBVIOUS
  <2> HIDE DEF v
  <2>1. CASE w = v
    <3>1. proc'[w] = NewProcess
      BY <1>1, <1>2, <2>1
    <3> QED
      BY <1>3, <3>1
  <2>2. CASE w # v
    BY <1>1, <1>2, <2>2
  <2> QED
    BY <2>1, <2>2
<1> QED
  BY <1>1, <1>4, CancelledEnds, PendingStays, SilentCallKeepsStops DEF Run

(* A start is sent by a call that sent no stop.                            *)
LEMMA SendStartMail ==
  ASSUME Typed, StopInv, NEW j \in Jobs, SendStart(j), NEW w \in Workers, NEW k \in Jobs
  PROVE  NamedAt(w)' /\ (MailStep(w, k) \/ (k = j /\ StopIsLast(w, k)'))
<1>1. /\ PendingShrinks /\ proc' = proc /\ output' = output /\ call[j].at = "sending"
      /\ \A v \in Workers : v # WorkerOf(j) => input'[v] = input[v]
      /\ \/ input'[WorkerOf(j)] = input[WorkerOf(j)]
         \/ \E m \in Message : /\ m.type = "start" /\ m.id = j
                               /\ input'[WorkerOf(j)] = Append(input[WorkerOf(j)], m)
  BY SendStartFacts
<1>2. CASE input'[w] = input[w]
  BY <1>1, <1>2, SilentKeepsMail
<1>3. ASSUME NEW m \in Message, m.type = "start", m.id = j, input'[w] = Append(input[w], m)
      PROVE  NamedAt(w)' /\ (MailStep(w, k) \/ (k = j /\ StopIsLast(w, k)'))
  <2>1. input[w] \in Seq(Message) /\ InOrder(input[w], k) /\ Named(input[w], "stop", Jobs)
    BY TypedGives, QueuesTyped, StopFacts
  <2>2. m.type # "stop" /\ ~Names(m, "stop", k)
    BY <1>3 DEF Names
  <2>3. Named(input'[w], "stop", Jobs)
    BY <1>3, <2>1, <2>2, MessageQueued
  <2>4. NamedAt(w)' /\ (StopIsAnswered(w, k)' => StopIsAnswered(w, k))
    BY <1>1, <2>3, ShrinkingKeepsAnswers
  <2>5. Has(input'[w], "stop", k) => Has(input[w], "stop", k)
    BY <1>3, <2>1, <2>2, MessageQueued
  <2>6. CASE k # j
    <3>1. ~Names(m, "start", k)
      BY <1>3, <2>6 DEF Names
    <3>2. Has(input'[w], "start", k) => Has(input[w], "start", k)
      BY <1>3, <2>1, <3>1, MessageQueued
    <3>3. InOrder(input'[w], k)
      BY <1>3, <2>1, <3>1, OrderOfMore
    <3>4. Quiet(w, k) => Quiet(w, k)'
      BY <1>1, <3>2 DEF Quiet
    <3> QED
      BY <2>4, <2>5, <3>3, <3>4 DEF MailStep, StopIsOnItsWay
  <2>7. CASE k = j
    <3>1. ~StopIsAnswered(w, k) /\ ~Has(input[w], "stop", k)
      BY <1>1, <2>7, StopFacts DEF StopIsLast, StopIsOnItsWay, Past
    <3>2. InOrder(input'[w], k)
      BY <1>3, <2>1, <3>1, OrderOfMore
    <3> QED
      BY <2>4, <2>5, <2>7, <3>1, <3>2 DEF StopIsLast, StopIsOnItsWay
  <2> QED
    BY <2>4, <2>6, <2>7
<1> QED
  BY <1>1, <1>2, <1>3

LEMMA SendStartKeepsStops ==
  ASSUME Typed, StopInv, NEW j \in Jobs, SendStart(j)
  PROVE  StopInv'
<1>1. CancelledIsQuiet(j)'
  BY SendStartFacts, CancelledEnds
<1> QED
  BY <1>1, SendStartMail, CallKeepsStops DEF Run

(* A stop is sent when the context has ended, and then the job is past.    *)
LEMMA SeeContextMail ==
  ASSUME Typed, StopInv, NEW j \in Jobs, SeeContext(j), NEW w \in Workers, NEW k \in Jobs
  PROVE  NamedAt(w)' /\ (MailStep(w, k) \/ (k = j /\ StopIsLast(w, k)'))
<1>1. /\ StaysEngaged(j) /\ PendingShrinks /\ ctxDone /\ proc' = proc /\ output' = output
      /\ call'[j].at = "draining"
      /\ \A v \in Workers : v # WorkerOf(j) => input'[v] = input[v]
      /\ \/ input'[WorkerOf(j)] = input[WorkerOf(j)]
         \/ \E m \in Message : /\ m.type = "stop" /\ m.id = j
                               /\ input'[WorkerOf(j)] = Append(input[WorkerOf(j)], m)
  BY SeeContextFacts
<1>2. CASE input'[w] = input[w]
  BY <1>1, <1>2, SilentKeepsMail
<1>3. ASSUME NEW m \in Message, m.type = "stop", m.id = j, input'[w] = Append(input[w], m)
      PROVE  NamedAt(w)' /\ (MailStep(w, k) \/ (k = j /\ StopIsLast(w, k)'))
  <2>1. ~Names(m, "start", k) /\ Mail
    BY <1>3, TypedGives DEF Names
  <2>2. /\ Has(input'[w], "stop", k) => Has(input[w], "stop", k) \/ Names(m, "stop", k)
        /\ Has(input'[w], "start", k) => Has(input[w], "start", k)
        /\ Named(input'[w], "stop", Jobs) /\ InOrder(input'[w], k)
    BY <1>3, <2>1, InputGrows
  <2>3. NamedAt(w)' /\ (StopIsAnswered(w, k)' => StopIsAnswered(w, k))
    BY <1>1, <2>2, ShrinkingKeepsAnswers
  <2>4. Quiet(w, k) => Quiet(w, k)'
    BY <1>1, <2>2 DEF Quiet
  <2>5. CASE k # j
    <3>1. ~Names(m, "stop", k)
      BY <1>3, <2>5 DEF Names
    <3> QED
      BY <2>2, <2>3, <2>4, <3>1 DEF MailStep, StopIsOnItsWay
  <2>6. CASE k = j
    <3>1. StopIsAnswered(w, k) => Quiet(w, k)
      BY StopFacts DEF StopIsLast
    <3>2. Past(k)'
      BY <1>1, <2>6 DEF StaysEngaged, Past
    <3> QED
      BY <2>2, <2>3, <2>4, <2>6, <3>1, <3>2 DEF StopIsLast
  <2> QED
    BY <2>3, <2>5, <2>6
<1> QED
  BY <1>1, <1>2, <1>3

LEMMA SeeContextKeepsStops ==
  ASSUME Typed, StopInv, NEW j \in Jobs, SeeContext(j)
  PROVE  StopInv'
<1>1. CancelledIsQuiet(j)'
  BY SeeContextFacts, CancelledEnds
<1> QED
  BY <1>1, SeeContextMail, CallKeepsStops DEF Run

(* A step of no call.                                                      *)
LEMMA OtherStepsKeepStops ==
  ASSUME Typed, StopInv, [Next]_vars, call' = call, ctxDone => ctxDone',
         \A w \in Workers : \A k \in Jobs : MailStep(w, k) /\ NamedAt(w)'
  PROVE  StopInv'
<1>1. \A k \in Jobs : Past(k) => Past(k)'
  BY PastStays
<1>2. ASSUME NEW w \in Workers, NEW k \in Jobs
      PROVE  StopIsLast(w, k)'
  BY <1>1, StopFacts, StopStaysLast
<1>3. ASSUME NEW k \in Jobs
      PROVE  CancelledIsQuiet(k)'
  <2>1. \A w \in Workers : Quiet(w, k) => Quiet(w, k)'
    BY DEF MailStep
  <2> QED
    BY <2>1, CancelledRests
<1> QED
  BY <1>2, <1>3 DEF StopInv

LEMMA StopStep ==
  ASSUME Typed, StopInv, [Next]_vars
  PROVE  StopInv'
<1>1. ASSUME NEW j \in Jobs, Enter(j) \/ Run(j)
      PROVE  StopInv'
  BY <1>1, QuietCallsKeepStops, DrainKeepsStops, ReplaceKeepsStops, CreateKeepsStops,
     SendStartKeepsStops, SeeContextKeepsStops DEF Run
<1>2. ASSUME NEW w \in Workers, Node(w) \/ Reader(w) \/ Closing(w) \/ Faulty(w), OnlyWorkers
      PROVE  StopInv'
  <2>1. \A v \in Workers : \A k \in Jobs : MailStep(v, k) /\ NamedAt(v)'
    BY <1>2, TypedGives, WorkerKeepsMail
  <2>2. call' = call /\ ctxDone' = ctxDone
    BY <1>2 DEF OnlyWorkers, callVars
  <2> QED
    BY <2>1, <2>2, OtherStepsKeepStops
<1>3. ASSUME ContextEnds \/ Close \/ UNCHANGED vars
      PROVE  StopInv'
  <2>1. /\ UNCHANGED <<input, output, pending, call>> /\ (ctxDone => ctxDone')
        /\ \A w \in Workers : /\ proc'[w].busy \in {proc[w].busy, None}
                              /\ proc'[w].sessions \subseteq proc[w].sessions
    <3>1. CASE CloseNext
      BY <3>1, CloseNextFacts
    <3>2. CASE ContextEnds \/ BeginClose \/ CloseWaited \/ CloseReturns
      BY <3>2, ContextEndsFacts, BeginCloseFacts, CloseWaitedFacts, CloseReturnsFacts DEF workerVars
    <3>3. CASE UNCHANGED vars
      BY <3>3 DEF vars, workerVars, callVars
    <3> QED
      BY <1>3, <3>1, <3>2, <3>3 DEF Close
  <2>2. \A v \in Workers : \A k \in Jobs : MailStep(v, k) /\ NamedAt(v)'
    BY <2>1, PendingStays, SilentKeepsMail
  <2> QED
    BY <2>1, <2>2, OtherStepsKeepStops
<1> QED
  BY <1>1, <1>2, <1>3 DEF Next, WorkerStep

(* The fourth layer holds in every state.                                  *)
THEOREM StopsOfCalls == Spec => []StopInv
<1>1. Init => StopInv
  <2> SUFFICES ASSUME Init, NEW j \in Jobs, NEW w \in Workers
               PROVE  CancelledIsQuiet(j) /\ NamedAt(w) /\ StopIsLast(w, j)
    BY InitFacts DEF StopInv, CancelledIsQuiet
  <2>1. /\ call[j].result = "none"
        /\ input[w] = <<>> /\ output[w] = <<>> /\ DOMAIN pending[w] = {}
    BY InitFacts
  <2>2. NamedAt(w)
    BY <2>1, NothingQueued DEF NamedAt
  <2>3. ~StopIsOnItsWay(w, j) /\ ~StopIsAnswered(w, j) /\ InOrder(input[w], j)
    BY <2>1, NothingQueued DEF StopIsOnItsWay, StopIsAnswered
  <2> QED
    BY <2>1, <2>2, <2>3 DEF CancelledIsQuiet, StopIsLast
<1>2. Typed /\ StopInv /\ [Next]_vars => StopInv'
  BY StopStep
<1> QED
  BY <1>1, <1>2, PoolTyped, PTL DEF Spec

(* A call that returns a cancellation left nothing of its session in the   *)
(* worker: the session and the start are gone, whatever the other calls,   *)
(* the reader and the closer did meanwhile.                                *)
THEOREM CancelledCallsLeaveNothing == Spec => []CancelledIsStopped
<1>1. Typed /\ StopInv => CancelledIsStopped
  <2> SUFFICES ASSUME Typed, StopInv, NEW j \in Jobs, call[j].result = "cancelled"
               PROVE  /\ j \notin proc[WorkerOf(j)].sessions /\ proc[WorkerOf(j)].busy # j
                      /\ \A i \in DOMAIN input[WorkerOf(j)] :
                            input[WorkerOf(j)][i] # Msg("start", j)
    BY DEF CancelledIsStopped
  <2>1. Quiet(WorkerOf(j), j)
    BY DEF StopInv, CancelledIsQuiet
  <2>2. Names(Msg("start", j), "start", j)
    BY MsgFacts DEF Names, MessageTypes
  <2> QED
    BY <2>1, <2>2 DEF Quiet, Has
<1> QED
  BY <1>1, PoolTyped, StopsOfCalls, PTL
=============================================================================
