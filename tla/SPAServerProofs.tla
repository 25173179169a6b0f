--------------------------- MODULE SPAServerProofs ---------------------------
(***************************************************************************)
(* What holds of SPA-test-server for any requests, limits, configurations  *)
(* and length of the log's queue: every place that is taken belongs to a   *)
(* request that was admitted and is not answered, and no line of the log   *)
(* is lost without a trace.                                                *)
(***************************************************************************)
EXTENDS SPAServer, FiniteSetTheorems, TLAPS

States == {"none", "reading", "upstream", "answering", "done"}
Statuses == {0, 200, 400, 429, 502}
Ends == {"open", "lost", "late", "sent"}
Flag == BOOLEAN

RequestType ==
    [at: States, stage: Nat, gone: Flag, status: Statuses, whole: Flag, end: Ends]

ServerType ==
    [at: {"starting", "serving", "shutting", "stopped", "failed", "closing", "waiting", "exited"},
     open: BOOLEAN, code: {0, 1}]

LinesType == [lines: Nat, dropped: Nat]

SinkType ==
    [closed: BOOLEAN, done: BOOLEAN, offered: Nat, refused: Nat,
     queue: Nat, dropped: Nat, buffered: LinesType, file: LinesType,
     broken: BOOLEAN, lost: Nat]

ServerTypeOK ==
    /\ serverConfig \in ServerConfigs
    /\ server \in ServerType
    /\ request \in [Requests -> RequestType]
    /\ places \in [Paths -> Nat]
    /\ sink \in SinkType

(* The requests that hold a place of a path.                               *)
Holders(p) ==
    {r \in Requests : serverConfig.path[r] = p /\
        (request[r].at = "upstream" \/ (request[r].at = "answering" /\ Admitted(r)))}

(* A request that is handled came on a path of the server.                 *)
HandledHasPath ==
    \A r \in Requests : request[r].at # "none" => serverConfig.path[r] \in Paths

(* The log is closed by main and then takes no line; its goroutine ends    *)
(* with nothing left.                                                      *)
SinkInv ==
    /\ LinesAddUp
    /\ sink.closed <=> server.at \in {"waiting", "exited"}
    /\ sink.refused > 0 => sink.closed
    /\ sink.lost > 0 => sink.broken
    /\ sink.done => /\ sink.closed
                    /\ sink.queue = 0 /\ sink.dropped = 0 /\ sink.buffered = NoLines
    /\ server.at = "exited" => sink.done

(* A server that stops in order has no request, and takes none.            *)
InOrder ==
    server.at = "stopped" \/ (server.at \in {"closing", "waiting", "exited"} /\ server.code = 0)

StopInv == InOrder => ~server.open /\ Unfinished = {} /\ sink.refused = 0

ServerInv ==
    /\ ServerTypeOK
    /\ HandledHasPath
    /\ PlacesMatchRequests
    /\ SinkInv
    /\ StopInv

-----------------------------------------------------------------------------
(* The logger                                                              *)

AddUp(s) ==
    s.offered = s.refused + s.queue + s.dropped + s.buffered.lines + s.buffered.dropped
                  + s.file.lines + s.file.dropped + s.lost

(* What a handler's lines do to the log.                                   *)
Keeps(s, t) ==
    /\ t \in SinkType
    /\ AddUp(s) => AddUp(t)
    /\ t.closed = s.closed /\ t.done = s.done /\ t.lost = s.lost /\ t.broken = s.broken
    /\ ~s.closed => t.refused = s.refused
    /\ s.closed => t.queue = s.queue /\ t.dropped = s.dropped /\ t.buffered = s.buffered

(* A line is counted as refused, queued or dropped.                        *)
LEMMA LineIsCounted ==
    ASSUME NEW s \in SinkType
    PROVE  /\ [s EXCEPT !.offered = @ + 1, !.refused = @ + 1] \in SinkType
           /\ [s EXCEPT !.offered = @ + 1, !.queue = @ + 1] \in SinkType
           /\ [s EXCEPT !.offered = @ + 1, !.dropped = @ + 1] \in SinkType
<1>1. s.offered + 1 \in Nat /\ s.refused + 1 \in Nat /\ s.queue + 1 \in Nat /\ s.dropped + 1 \in Nat
  BY DEF SinkType
<1>2. [s EXCEPT !.offered = @ + 1, !.refused = @ + 1] \in SinkType BY <1>1 DEF SinkType
<1>3. [s EXCEPT !.offered = @ + 1, !.queue = @ + 1] \in SinkType BY <1>1 DEF SinkType
<1>4. [s EXCEPT !.offered = @ + 1, !.dropped = @ + 1] \in SinkType BY <1>1 DEF SinkType
<1> QED BY <1>2, <1>3, <1>4

(* Write of a line keeps the accounts of the log.                          *)
LEMMA WrittenKeeps ==
    ASSUME NEW s \in SinkType
    PROVE  Keeps(s, Written(s))
<1> DEFINE refused == [s EXCEPT !.offered = @ + 1, !.refused = @ + 1]
           queued  == [s EXCEPT !.offered = @ + 1, !.queue = @ + 1]
           dropped == [s EXCEPT !.offered = @ + 1, !.dropped = @ + 1]
<1>1. refused \in SinkType /\ queued \in SinkType /\ dropped \in SinkType
  BY LineIsCounted
<1>2. CASE s.closed
  <2>1. Written(s) = refused BY <1>2 DEF Written
  <2>2. AddUp(s) => AddUp(refused) BY <1>1 DEF AddUp, SinkType, LinesType
  <2>3. /\ refused.closed = s.closed /\ refused.done = s.done /\ refused.queue = s.queue
        /\ refused.lost = s.lost /\ refused.broken = s.broken
        /\ refused.dropped = s.dropped /\ refused.buffered = s.buffered
    BY DEF SinkType
  <2> HIDE DEF refused
  <2> QED BY <1>1, <1>2, <2>1, <2>2, <2>3 DEF Keeps
<1>3. CASE ~s.closed /\ s.queue < QueueSize
  <2>1. Written(s) = queued BY <1>3 DEF Written
  <2>2. AddUp(s) => AddUp(queued) BY <1>1 DEF AddUp, SinkType, LinesType
  <2>3. /\ queued.closed = s.closed /\ queued.done = s.done /\ queued.refused = s.refused
        /\ queued.lost = s.lost /\ queued.broken = s.broken
    BY DEF SinkType
  <2> HIDE DEF queued
  <2> QED BY <1>1, <1>3, <2>1, <2>2, <2>3 DEF Keeps
<1>4. CASE ~s.closed /\ ~(s.queue < QueueSize)
  <2>1. Written(s) = dropped BY <1>4 DEF Written
  <2>2. AddUp(s) => AddUp(dropped) BY <1>1 DEF AddUp, SinkType, LinesType
  <2>3. /\ dropped.closed = s.closed /\ dropped.done = s.done /\ dropped.refused = s.refused
        /\ dropped.lost = s.lost /\ dropped.broken = s.broken
    BY DEF SinkType
  <2> HIDE DEF dropped
  <2> QED BY <1>1, <1>4, <2>1, <2>2, <2>3 DEF Keeps
<1> QED BY <1>2, <1>3, <1>4

(* So does a line of any level, whether or not it is enabled.              *)
LEMMA HandleKeeps ==
    ASSUME NEW s \in SinkType, NEW level, NEW enabled
    PROVE  Keeps(s, Handle(s, level, enabled))
<1>1. Keeps(s, s) BY DEF Keeps
<1>2. Handle(s, level, enabled) \in {s, Written(s)} BY DEF Handle
<1> QED BY <1>1, <1>2, WrittenKeeps

(* And so do two lines.                                                    *)
LEMMA KeepsTransitive ==
    ASSUME NEW s, NEW t, NEW u, Keeps(s, t), Keeps(t, u)
    PROVE  Keeps(s, u)
BY DEF Keeps

-----------------------------------------------------------------------------
(* The handlers                                                            *)

LEMMA NoRequestTyped == NoRequest \in RequestType /\ NoRequest.at = "none"
<1>1. NewRequest \in RequestType
  BY DEF NewRequest, RequestType, States, Statuses, Ends, Flag
<1>2. "none" \in States
  BY DEF States
<1> QED
  BY <1>1, <1>2 DEF NoRequest, RequestType

Holds(q) == q.at = "upstream" \/ (q.at = "answering" /\ q.status \in {200, 502})

(* What a step of a handler or its client does: the request becomes q, and *)
(* a place is taken or given back as q holds one and the request did not.  *)
RequestStep(r, q) ==
    /\ q \in RequestType /\ q.at # "none" /\ serverConfig.path[r] \in Paths
    /\ request' = [request EXCEPT ![r] = q]
    /\ UNCHANGED <<serverConfig, server>>
    /\ server.open \/ r \in Unfinished
    /\ Keeps(sink, sink')
    /\ \/ (Holds(request[r]) <=> Holds(q)) /\ UNCHANGED places
       \/ /\ ~Holds(request[r]) /\ Holds(q)
          /\ places[serverConfig.path[r]] < Limit[serverConfig.path[r]]
          /\ places' = [places EXCEPT ![serverConfig.path[r]] = @ + 1]
       \/ /\ Holds(request[r]) /\ ~Holds(q)
          /\ places' = [places EXCEPT ![serverConfig.path[r]] = @ - 1]

(* What handlers do to a request leaves it a request.                      *)
LEMMA RequestMoves ==
    ASSUME NEW q \in RequestType
    PROVE  /\ [q EXCEPT !.gone = TRUE] \in RequestType
           /\ [q EXCEPT !.stage = @ + 1] \in RequestType
           /\ [q EXCEPT !.at = "upstream"] \in RequestType
<1>1. q.stage + 1 \in Nat BY DEF RequestType
<1>2. TRUE \in Flag BY DEF Flag
<1>3. "upstream" \in States BY DEF States
<1>4. [q EXCEPT !.gone = TRUE] \in RequestType BY <1>2 DEF RequestType
<1>5. [q EXCEPT !.stage = @ + 1] \in RequestType BY <1>1 DEF RequestType
<1>6. [q EXCEPT !.at = "upstream"] \in RequestType BY <1>3 DEF RequestType
<1> QED BY <1>4, <1>5, <1>6

Answered(q, status) == [q EXCEPT !.at = "answering", !.status = status]

(* An answer of the handler leaves it a request.                           *)
LEMMA RequestAnswered ==
    ASSUME NEW q \in RequestType, NEW status \in Statuses
    PROVE  Answered(q, status) \in RequestType
<1>1. "answering" \in States BY DEF States
<1> QED BY <1>1 DEF RequestType, Answered

Ended(q, outcome) ==
    [q EXCEPT !.at = "answering", !.status = outcome.status, !.whole = outcome.whole]

(* The end of the conversation leaves it a request.                        *)
LEMMA RequestOver ==
    ASSUME NEW q \in RequestType, NEW outcome, outcome.status \in Statuses, outcome.whole \in Flag
    PROVE  Ended(q, outcome) \in RequestType
<1>1. "answering" \in States BY DEF States
<1> QED BY <1>1 DEF RequestType, Ended

(* No line keeps the accounts too.                                         *)
LEMMA SameLog ==
    ASSUME ServerTypeOK, UNCHANGED sink
    PROVE  Keeps(sink, sink')
BY DEF Keeps, ServerTypeOK

(* A line of the logger keeps them.                                        *)
LEMMA LogKeeps ==
    ASSUME ServerTypeOK, NEW level, Log(level)
    PROVE  Keeps(sink, sink')
BY HandleKeeps DEF Log, ServerTypeOK

(* The end of the conversation keeps the place, which is given back later. *)
LEMMA OverSteps ==
    ASSUME ServerTypeOK, HandledHasPath, NEW r \in Requests, request[r].at = "upstream",
           NEW outcome \in [status: {200, 502}, whole: BOOLEAN], UpstreamOver(r, outcome)
    PROVE  \E q : RequestStep(r, q)
<1> DEFINE q == Ended(request[r], outcome)
           upstream == IF LastStage(r) /\ StageOf(r).debug THEN Handle(sink, "debug", serverConfig.level) ELSE sink
           level == IF outcome.status = 200 THEN "info" ELSE "error"
<1>1. request[r] \in RequestType /\ sink \in SinkType BY DEF ServerTypeOK
<1>2. q \in RequestType /\ q.at = "answering" /\ q.status \in {200, 502}
  <2>1. q \in RequestType
    <3>1. outcome.status \in Statuses /\ outcome.whole \in Flag BY DEF Statuses, Flag
    <3> QED BY <1>1, <3>1, RequestOver
  <2>2. q.at = "answering" /\ q.status = outcome.status BY <1>1 DEF RequestType, Ended
  <2> QED BY <2>1, <2>2
<1>3. request' = [request EXCEPT ![r] = q] /\ UNCHANGED <<serverConfig, server, places>>
  BY DEF UpstreamOver, Ended
<1>4. Keeps(sink, sink')
  <2>1. Keeps(sink, upstream)
    <3>1. Keeps(sink, sink) BY <1>1 DEF Keeps
    <3> QED BY <1>1, <3>1, HandleKeeps
  <2>2. upstream \in SinkType BY <2>1 DEF Keeps
  <2>3. sink' = Handle(upstream, level, serverConfig.level) BY DEF UpstreamOver
  <2>4. Keeps(upstream, sink') BY <2>2, <2>3, HandleKeeps
  <2> QED BY <2>1, <2>4, KeepsTransitive
<1>5. r \in Unfinished BY DEF Unfinished, RequestsAt
<1>6. Holds(request[r]) /\ Holds(q) BY <1>2 DEF Holds
<1>7. serverConfig.path[r] \in Paths BY DEF HandledHasPath
<1> HIDE DEF q
<1> QED BY <1>2, <1>3, <1>4, <1>5, <1>6, <1>7 DEF RequestStep

(* Every step of a handler or its client is a RequestStep.                 *)
LEMMA HandlersStep ==
    ASSUME ServerTypeOK, HandledHasPath, NEW r \in Requests,
           Handler(r) \/ Peer(r)
    PROVE  \E q : RequestStep(r, q)
<1>0. request[r] \in RequestType /\ request \in [Requests -> RequestType] BY DEF ServerTypeOK
<1>1. CASE Arrive(r)
  <2>1. NewRequest \in RequestType /\ ~Holds(NewRequest) /\ NewRequest.at # "none"
    BY DEF NewRequest, RequestType, Holds, States, Statuses, Ends, Flag
  <2>2. serverConfig.path[r] \in Paths BY <1>1, ServerAssumption DEF Arrive, ServerTypeOK
  <2>3. ~Holds(request[r]) BY <1>1 DEF Arrive, Holds
  <2>4. Keeps(sink, sink') BY <1>1, SameLog DEF Arrive
  <2> QED BY <1>1, <2>1, <2>2, <2>3, <2>4 DEF Arrive, RequestStep
<1>2. CASE ClientLeaves(r)
  <2> DEFINE q == [request[r] EXCEPT !.gone = TRUE]
  <2>1. q \in RequestType BY <1>0, RequestMoves
  <2>4. q.at = "upstream" BY <1>0, <1>2 DEF RequestType, ClientLeaves
  <2>5. Holds(q) /\ Holds(request[r]) BY <2>4, <1>2 DEF ClientLeaves, Holds
  <2>2. request' = [request EXCEPT ![r] = q] BY <1>2 DEF ClientLeaves
  <2>3. Keeps(sink, sink') BY <1>2, SameLog DEF ClientLeaves
  <2> HIDE DEF q
  <2> QED BY <1>2, <2>1, <2>2, <2>3, <2>4, <2>5 DEF ClientLeaves, RequestStep, HandledHasPath, Unfinished, RequestsAt
<1>3. CASE StagePasses(r)
  <2> DEFINE q == [request[r] EXCEPT !.stage = @ + 1]
  <2>1. q \in RequestType BY <1>0, RequestMoves
  <2>4. q.at = "upstream" BY <1>0, <1>3 DEF RequestType, StagePasses
  <2>5. Holds(q) /\ Holds(request[r]) BY <2>4, <1>3 DEF StagePasses, Holds
  <2>2. request' = [request EXCEPT ![r] = q] BY <1>3 DEF StagePasses
  <2>3. Keeps(sink, sink') BY <1>3, SameLog, LogKeeps DEF StagePasses
  <2> HIDE DEF q
  <2> QED BY <1>3, <2>1, <2>2, <2>3, <2>4, <2>5 DEF StagePasses, RequestStep, HandledHasPath, Unfinished, RequestsAt
<1>4. ASSUME request[r].at = "reading", NEW status \in {400, 429}, Answer(r, status),
             UNCHANGED <<serverConfig, server, places>>, Keeps(sink, sink')
      PROVE  \E q : RequestStep(r, q)
  <2> DEFINE q == Answered(request[r], status)
  <2>1. q \in RequestType
    <3>1. status \in Statuses BY DEF Statuses
    <3> QED BY <1>0, <3>1, RequestAnswered
  <2>2. q.at = "answering" /\ q.status = status BY <1>0 DEF RequestType, Answered
  <2>3. ~Holds(q) /\ ~Holds(request[r]) BY <1>4, <2>2 DEF Holds
  <2>4. request' = [request EXCEPT ![r] = q] BY <1>4 DEF Answer, Answered
  <2> HIDE DEF q
  <2> QED BY <1>4, <2>1, <2>2, <2>3, <2>4 DEF RequestStep, HandledHasPath, Unfinished, RequestsAt
<1>5. CASE Reject(r)
  <2>1. PICK f \in Faults : /\ Answer(r, f.status)
                            /\ IF f.logged THEN Log("error") ELSE UNCHANGED sink
    BY <1>5 DEF Reject
  <2>2. f.status = 400 BY DEF Faults
  <2>3. Keeps(sink, sink') BY <2>1, SameLog, LogKeeps
  <2> QED BY <1>4, <1>5, <2>1, <2>2, <2>3 DEF Reject
<1>6. CASE TooMany(r)
  BY <1>4, <1>6, LogKeeps DEF TooMany
<1>7. CASE Admit(r)
  <2> DEFINE q == [request[r] EXCEPT !.at = "upstream"]
  <2>1. q \in RequestType BY <1>0, RequestMoves
  <2>4. q.at = "upstream" BY <1>0, <1>7 DEF RequestType, Admit
  <2>5. Holds(q) /\ ~Holds(request[r]) BY <2>4, <1>7 DEF Admit, Holds
  <2>2. request' = [request EXCEPT ![r] = q] BY <1>7 DEF Admit
  <2>3. Keeps(sink, sink') BY <1>7, LogKeeps DEF Admit
  <2> HIDE DEF q
  <2> QED BY <1>7, <2>1, <2>2, <2>3, <2>4, <2>5
          DEF Admit, tryAcquire, RequestStep, HandledHasPath, Unfinished, RequestsAt
<1>8. CASE Completes(r)
  <2>1. PICK outcome \in Outcomes(serverConfig.path[r]) : UpstreamOver(r, outcome)
    BY <1>8 DEF Completes
  <2>2. outcome \in [status: {200, 502}, whole: BOOLEAN]
    <3>1. encodeTokenID \subseteq [status: {200, 502}, whole: BOOLEAN] BY DEF encodeTokenID
    <3>2. ASSUME outcome \in readBusinessHTTPResponse(serverConfig)
          PROVE  outcome \in [status: {200, 502}, whole: BOOLEAN]
      <4>1. CASE outcome \in encodeTokenID BY <3>1, <4>1
      <4>2. CASE outcome \notin encodeTokenID
        <5>1. PICK s \in {200, 502} : outcome = [status |-> s, whole |-> FALSE]
          BY <3>2, <4>2 DEF readBusinessHTTPResponse
        <5> QED BY <5>1
      <4> QED BY <4>1, <4>2
    <3> QED BY <3>1, <3>2 DEF Outcomes
  <2> QED BY <1>8, <2>1, <2>2, OverSteps DEF Completes
<1>9. CASE Breaks(r) \/ StageTimesOut(r)
  <2>1. BadGateway \in [status: {200, 502}, whole: BOOLEAN] BY DEF BadGateway
  <2> QED BY <1>9, <2>1, OverSteps DEF Breaks, StageTimesOut
<1>10. CASE HandlerReturns(r)
  <2>1. PICK elapsed : request' = [request EXCEPT ![r] =
                          [NoRequest EXCEPT !.at = "done", !.end = End(r, elapsed)]]
    BY <1>10, Zenon DEF HandlerReturns
  <2> DEFINE q == [NoRequest EXCEPT !.at = "done", !.end = End(r, elapsed)]
  <2>2. End(r, elapsed) \in {"lost", "late", "sent"} BY DEF End
  <2>6. request' = [request EXCEPT ![r] = q] BY <2>1
  <2>7. NoRequest \in RequestType
    BY NoRequestTyped
  <2>8. q \in RequestType /\ q.at = "done"
    <3>1. PICK e : e = End(r, elapsed)
      OBVIOUS
    <3>2. PICK p : p = [NoRequest EXCEPT !.at = "done"]
      OBVIOUS
    <3>3. q = [p EXCEPT !.end = e]
      BY <3>1, <3>2
    <3>4. "done" \in States /\ e \in Ends
      BY <2>2, <3>1 DEF States, Ends
    <3>5. p \in RequestType /\ p.at = "done"
      BY <2>7, <3>2, <3>4 DEF RequestType
    <3> QED
      BY <3>3, <3>4, <3>5 DEF RequestType
  <2> HIDE DEF q
  <2>3. q \in RequestType /\ q.at = "done" /\ ~Holds(q)
    BY <2>8 DEF Holds
  <2>4. Holds(request[r]) <=> Admitted(r) BY <1>10 DEF HandlerReturns, Holds, Admitted
  <2>5. Keeps(sink, sink') BY <1>10, SameLog DEF HandlerReturns
  <2> QED BY <1>10, <2>3, <2>4, <2>5, <2>6
          DEF HandlerReturns, release, RequestStep, HandledHasPath, Unfinished, RequestsAt
<1> QED BY <1>1, <1>2, <1>3, <1>5, <1>6, <1>7, <1>8, <1>9, <1>10 DEF Handler, Peer

(* The places                                                              *)

Holding(p) == {x \in Requests : serverConfig.path[x] = p /\ Holds(request[x])}

(* The invariant in terms of Holding.                                      *)
LEMMA PlacesAreHeld ==
    ASSUME PlacesMatchRequests, NEW p \in Paths
    PROVE  places[p] <= Limit[p] /\ places[p] = Cardinality(Holding(p))
<1>1. Holding(p) = {r \in Requests : serverConfig.path[r] = p /\
              (request[r].at = "upstream" \/ (request[r].at = "answering" /\ Admitted(r)))}
  BY DEF Holding, Holds, Admitted
<1> QED BY <1>1 DEF PlacesMatchRequests

(* The same for the next state.                                            *)
LEMMA HeldPlacesMatch ==
    ASSUME \A p \in Paths : places'[p] <= Limit[p] /\ places'[p] = Cardinality(Holding(p)')
    PROVE  PlacesMatchRequests'
<1>1. ASSUME NEW p
      PROVE  Holding(p)' = {r \in Requests : serverConfig.path[r] = p /\
              (request[r].at = "upstream" \/ (request[r].at = "answering" /\ Admitted(r)))}'
  BY DEF Holding, Holds, Admitted
<1> QED BY <1>1 DEF PlacesMatchRequests

(* A step on the path p leaves the places of the others as they are.       *)
LEMMA PlacesStep ==
    ASSUME ServerTypeOK, PlacesMatchRequests,
           NEW r \in Requests, NEW q, RequestStep(r, q)
    PROVE  PlacesMatchRequests' /\ places' \in [Paths -> Nat]
<1> DEFINE here == serverConfig.path[r]
<1>1. /\ here \in Paths /\ serverConfig' = serverConfig
      /\ \A x \in Requests : request'[x] = IF x = r THEN q ELSE request[x]
  BY DEF RequestStep, ServerTypeOK
<1>2. ASSUME NEW p \in Paths
      PROVE  IsFiniteSet(Holding(p)) /\ Limit[p] \in Nat /\ places[p] \in Nat
  <2>1. Holding(p) \in SUBSET Requests BY DEF Holding
  <2> QED BY <2>1, FS_Subset, ServerAssumption DEF ServerTypeOK
<1>3. \A p \in Paths : p # here => Holding(p)' = Holding(p)
  BY <1>1 DEF Holding
<1>4. \/ (Holds(request[r]) <=> Holds(q)) /\ places' = places
      \/ /\ ~Holds(request[r]) /\ Holds(q) /\ places[here] < Limit[here]
         /\ places' = [places EXCEPT ![here] = @ + 1]
      \/ /\ Holds(request[r]) /\ ~Holds(q)
         /\ places' = [places EXCEPT ![here] = @ - 1]
  BY DEF RequestStep
<1>5. ASSUME NEW p, p = here
      PROVE  /\ (Holds(request[r]) <=> Holds(q)) => Holding(p)' = Holding(p)
             /\ ~Holds(request[r]) /\ Holds(q) =>
                   r \notin Holding(p) /\ Holding(p)' = Holding(p) \cup {r}
             /\ Holds(request[r]) /\ ~Holds(q) =>
                   r \in Holding(p) /\ Holding(p)' = Holding(p) \ {r}
  BY <1>1, <1>5 DEF Holding
<1> HIDE DEF here
<1>6. ASSUME NEW p \in Paths
      PROVE  /\ places'[p] \in Nat
             /\ places'[p] <= Limit[p] /\ places'[p] = Cardinality(Holding(p)')
  <2>1. places[p] <= Limit[p] /\ places[p] = Cardinality(Holding(p))
    BY PlacesAreHeld
  <2>2. places \in [Paths -> Nat] BY DEF ServerTypeOK
  <2>3. CASE p # here
    BY <1>2, <1>3, <1>4, <2>1, <2>2, <2>3
  <2>4. CASE p = here /\ (Holds(request[r]) <=> Holds(q))
    BY <1>2, <1>4, <1>5, <2>1, <2>4
  <2>5. CASE p = here /\ ~Holds(request[r]) /\ Holds(q)
    <3>1. Cardinality(Holding(p)') = Cardinality(Holding(p)) + 1
      BY <1>2, <1>5, <2>5, FS_AddElement
    <3> QED BY <1>2, <1>4, <2>1, <2>2, <2>5, <3>1
  <2>6. CASE p = here /\ Holds(request[r]) /\ ~Holds(q)
    <3>1. /\ Cardinality(Holding(p)') = Cardinality(Holding(p)) - 1
          /\ Cardinality(Holding(p)') \in Nat
      BY <1>2, <1>5, <2>6, FS_RemoveElement, FS_CardinalityType
    <3> QED BY <1>2, <1>4, <2>1, <2>2, <2>6, <3>1
  <2> QED BY <2>3, <2>4, <2>5, <2>6
<1>7. DOMAIN places' = Paths /\ places' = [p \in Paths |-> places'[p]]
  BY <1>4 DEF ServerTypeOK
<1> QED BY <1>6, <1>7, HeldPlacesMatch

-----------------------------------------------------------------------------
(* The steps                                                               *)

(* The invariant of the log in terms of AddUp.                             *)
LEMMA SinkAddsUp == LinesAddUp <=> AddUp(sink)
BY DEF LinesAddUp, AddUp

(* A step of a request keeps the invariant.                                *)
LEMMA RequestStepKeeps ==
    ASSUME ServerInv, NEW r \in Requests, NEW q, RequestStep(r, q)
    PROVE  ServerInv'
<1>1. PlacesMatchRequests' /\ places' \in [Paths -> Nat]
  BY PlacesStep DEF ServerInv
<1>2. ServerTypeOK'
  BY <1>1 DEF ServerInv, ServerTypeOK, RequestStep, Keeps
<1>3. HandledHasPath'
  BY DEF ServerInv, ServerTypeOK, HandledHasPath, RequestStep
<1>4. SinkInv'
  <2>1. Keeps(sink, sink') /\ server' = server /\ sink' \in SinkType
    BY DEF RequestStep, Keeps
  <2>2. LinesAddUp' BY <2>1, SinkAddsUp DEF Keeps, ServerInv, SinkInv, LinesAddUp, AddUp
  <2> QED BY <2>1, <2>2 DEF Keeps, ServerInv, SinkInv
<1>5. StopInv'
  BY DEF ServerInv, StopInv, InOrder, RequestStep
<1> QED BY <1>1, <1>2, <1>3, <1>4, <1>5 DEF ServerInv

(* A step of main or of the goroutine of the log touches no request.       *)
LEMMA OtherStepKeeps ==
    ASSUME ServerInv, UNCHANGED <<serverConfig, request, places>>,
           server' \in ServerType, sink' \in SinkType, SinkInv', StopInv'
    PROVE  ServerInv'
<1>1. ServerTypeOK' BY DEF ServerInv, ServerTypeOK
<1>2. HandledHasPath' BY DEF ServerInv, HandledHasPath
<1>3. PlacesMatchRequests' BY DEF ServerInv, PlacesMatchRequests, Admitted
<1> QED BY <1>1, <1>2, <1>3 DEF ServerInv

(* What the goroutine of the log does leaves it a log.                     *)
LEMMA LogRuns ==
    ASSUME NEW s \in SinkType
    PROVE  /\ s.queue > 0 => [s EXCEPT !.queue = @ - 1, !.buffered.lines = @ + 1] \in SinkType
           /\ writeDroppedSummary(s) \in SinkType
           /\ \A t \in Flush(s) : t \in SinkType
           /\ [s EXCEPT !.done = TRUE] \in SinkType
           /\ Closed(s) \in SinkType
<1>1. /\ s.buffered \in LinesType /\ s.file \in LinesType /\ s.dropped \in Nat
      /\ s.queue \in Nat
      /\ s.queue > 0 => s.queue - 1 \in Nat
  BY DEF SinkType
<1>2. /\ [s.buffered EXCEPT !.lines = @ + 1] \in LinesType
      /\ [s.buffered EXCEPT !.dropped = @ + s.dropped] \in LinesType
      /\ [lines |-> s.file.lines + s.buffered.lines,
          dropped |-> s.file.dropped + s.buffered.dropped] \in LinesType
      /\ NoLines \in LinesType
  BY <1>1 DEF LinesType, NoLines
<1>3. s.queue > 0 => [s EXCEPT !.queue = @ - 1, !.buffered.lines = @ + 1] \in SinkType
  BY <1>1, <1>2 DEF SinkType
<1>4. writeDroppedSummary(s) \in SinkType
  BY <1>1, <1>2 DEF SinkType, writeDroppedSummary
<1>5. \A t \in Flush(s) : t \in SinkType
  <2>1. Stored(s) \in SinkType
    BY <1>1, <1>2 DEF SinkType, Stored
  <2>2. PICK n \in Nat : n = s.lost + s.buffered.lines + s.buffered.dropped
    BY <1>1 DEF SinkType, LinesType
  <2>3. Lost(s) = [s EXCEPT !.broken = TRUE, !.lost = n, !.buffered = NoLines]
    BY <2>2 DEF Lost
  <2>4. Lost(s) \in SinkType
    BY <1>2, <2>2, <2>3 DEF SinkType
  <2> QED
    BY <2>1, <2>4 DEF Flush
<1>6. [s EXCEPT !.done = TRUE] \in SinkType /\ Closed(s) \in SinkType
  BY DEF SinkType, Closed
<1> QED BY <1>3, <1>4, <1>5, <1>6

Flushed(s) == Flush(writeDroppedSummary(s))

(* What became of a log whose buffer was written or lost.                  *)
Emptied(s, t) ==
    /\ AddUp(s) => AddUp(t)
    /\ t.closed = s.closed /\ t.done = s.done /\ t.refused = s.refused
    /\ t.queue = s.queue /\ t.dropped = s.dropped /\ t.buffered = NoLines
    /\ (s.lost > 0 => s.broken) => (t.lost > 0 => t.broken)

(* A flush empties the buffer.                                             *)
LEMMA FlushEmpties ==
    ASSUME NEW s \in SinkType, NEW t \in Flush(s)
    PROVE  Emptied(s, t)
<1>1. s.buffered.lines \in Nat /\ s.buffered.dropped \in Nat /\ s.lost \in Nat
  BY DEF SinkType, LinesType
<1>2. CASE s.buffered = NoLines /\ t = s
  BY <1>2 DEF Emptied
<1>3. CASE t = Stored(s)
  <2>1. /\ t.closed = s.closed /\ t.done = s.done /\ t.refused = s.refused
        /\ t.queue = s.queue /\ t.dropped = s.dropped /\ t.buffered = NoLines
        /\ t.lost = s.lost /\ t.broken = s.broken /\ t.offered = s.offered
        /\ t.file.lines = s.file.lines + s.buffered.lines
        /\ t.file.dropped = s.file.dropped + s.buffered.dropped
    BY <1>3 DEF Stored, SinkType
  <2>2. AddUp(s) => AddUp(t)
    BY <1>1, <2>1 DEF AddUp, NoLines, SinkType, LinesType
  <2> QED
    BY <2>1, <2>2 DEF Emptied
<1>4. CASE t = Lost(s)
  <2>1. /\ t.closed = s.closed /\ t.done = s.done /\ t.refused = s.refused
        /\ t.queue = s.queue /\ t.dropped = s.dropped /\ t.buffered = NoLines
        /\ t.lost = s.lost + s.buffered.lines + s.buffered.dropped /\ t.broken
        /\ t.offered = s.offered /\ t.file = s.file
    BY <1>4 DEF Lost, SinkType
  <2>2. AddUp(s) => AddUp(t)
    BY <1>1, <2>1 DEF AddUp, NoLines, SinkType, LinesType
  <2> QED
    BY <2>1, <2>2 DEF Emptied
<1> QED
  BY <1>2, <1>3, <1>4 DEF Flush

(* The summary moves the dropped lines to the buffer.                      *)
LEMMA SummaryMoves ==
    ASSUME NEW s \in SinkType, NEW t, t = writeDroppedSummary(s)
    PROVE  /\ t \in SinkType /\ t.dropped = 0
           /\ AddUp(s) => AddUp(t)
           /\ t.closed = s.closed /\ t.done = s.done /\ t.refused = s.refused
           /\ t.queue = s.queue /\ t.lost = s.lost /\ t.broken = s.broken
<1>1. t \in SinkType BY LogRuns, Zenon
<1> QED BY <1>1 DEF AddUp, writeDroppedSummary, SinkType, LinesType

(* A flush with its summary empties the buffer and loses no line without   *)
(* a trace.                                                                *)
LEMMA FlushKeeps ==
    ASSUME NEW s \in SinkType, NEW t \in Flushed(s)
    PROVE  /\ t \in SinkType
           /\ AddUp(s) => AddUp(t)
           /\ t.closed = s.closed /\ t.done = s.done /\ t.refused = s.refused
           /\ t.queue = s.queue /\ t.dropped = 0 /\ t.buffered = NoLines
           /\ (s.lost > 0 => s.broken) => (t.lost > 0 => t.broken)
<1>1. PICK u : u = writeDroppedSummary(s)
  OBVIOUS
<1>2. /\ u \in SinkType /\ u.dropped = 0
      /\ AddUp(s) => AddUp(u)
      /\ u.closed = s.closed /\ u.done = s.done /\ u.refused = s.refused
      /\ u.queue = s.queue /\ u.lost = s.lost /\ u.broken = s.broken
  BY <1>1, SummaryMoves
<1>3. t \in Flush(u)
  BY <1>1 DEF Flushed
<1>4. t \in SinkType
  BY <1>2, <1>3, LogRuns, Zenon
<1>5. Emptied(u, t)
  BY <1>2, <1>3, FlushEmpties
<1> QED
  BY <1>2, <1>4, <1>5 DEF Emptied

(* A step of the goroutine of the log keeps the invariant.                 *)
LEMMA LogStepKeeps ==
    ASSUME ServerInv, run, UNCHANGED <<serverConfig, server, request, places>>
    PROVE  ServerInv'
<1>1. sink \in SinkType /\ SinkInv /\ StopInv /\ server \in ServerType
  BY DEF ServerInv, ServerTypeOK
<1>2. CASE TakeLine
  <2>1. sink' \in SinkType BY <1>1, <1>2, LogRuns, Zenon DEF TakeLine
  <2>2. /\ sink'.closed = sink.closed /\ ~sink'.done /\ sink'.refused = sink.refused
        /\ sink'.lost = sink.lost /\ sink'.broken = sink.broken
        /\ LinesAddUp'
    BY <1>1, <1>2, <2>1 DEF TakeLine, SinkInv, LinesAddUp, SinkType, LinesType
  <2>3. SinkInv' BY <1>1, <1>2, <2>2 DEF SinkInv, TakeLine
  <2>4. StopInv' BY <1>1, <2>2 DEF StopInv, InOrder, Unfinished, RequestsAt
  <2> QED BY <1>1, <2>1, <2>3, <2>4, OtherStepKeeps
<1>3. CASE FlushTick
  <2>1. /\ sink' \in SinkType /\ AddUp(sink') /\ sink'.closed = sink.closed
        /\ sink'.done = sink.done /\ sink'.refused = sink.refused
        /\ sink'.lost > 0 => sink'.broken
    BY <1>1, <1>3, FlushKeeps, SinkAddsUp DEF FlushTick, SinkInv, Flushed
  <2>2. SinkInv' BY <1>1, <1>3, <2>1 DEF SinkInv, FlushTick, LinesAddUp, AddUp
  <2>3. StopInv' BY <1>1, <2>1 DEF StopInv, InOrder, Unfinished, RequestsAt
  <2> QED BY <1>1, <2>1, <2>2, <2>3, OtherStepKeeps
<1>4. CASE EndsDrained
  <2>2. PICK t \in Flushed(sink) : sink' = [t EXCEPT !.done = TRUE]
    BY <1>4 DEF EndsDrained, Flushed
  <2>1. /\ t \in SinkType /\ AddUp(t) /\ t.closed = sink.closed /\ t.refused = sink.refused
        /\ t.queue = sink.queue /\ t.dropped = 0 /\ t.buffered = NoLines
        /\ t.lost > 0 => t.broken
    BY <1>1, FlushKeeps, SinkAddsUp DEF SinkInv
  <2>3. sink' \in SinkType BY <2>1, <2>2, LogRuns, Zenon
  <2>4. /\ LinesAddUp' /\ sink'.closed /\ sink'.refused = sink.refused /\ sink'.done
        /\ sink'.queue = 0 /\ sink'.dropped = 0 /\ sink'.buffered = NoLines
        /\ sink'.lost > 0 => sink'.broken
    BY <1>4, <2>1, <2>2 DEF EndsDrained, LinesAddUp, AddUp, SinkType
  <2>5. SinkInv' BY <1>1, <1>4, <2>4 DEF SinkInv, EndsDrained
  <2>6. StopInv' BY <1>1, <2>4 DEF StopInv, InOrder, Unfinished, RequestsAt
  <2> QED BY <1>1, <2>3, <2>5, <2>6, OtherStepKeeps
<1> QED BY <1>2, <1>3, <1>4 DEF run

(* Before the log is closed, main only moves and writes lines.             *)
LEMMA MoveKeeps ==
    ASSUME ServerInv, UNCHANGED <<serverConfig, request, places>>, server' \in ServerType,
           Keeps(sink, sink'), sink.closed => sink' = sink,
           server'.at \in {"waiting", "exited"} <=> server.at \in {"waiting", "exited"},
           server'.at = "exited" => sink.done,
           InOrder' => ~server'.open /\ (InOrder \/ (~sink.closed /\ Unfinished = {}))
    PROVE  ServerInv'
<1>1. sink \in SinkType /\ sink' \in SinkType /\ SinkInv /\ StopInv
  BY DEF ServerInv, ServerTypeOK, Keeps
<1>2. ~sink.closed => sink'.refused = 0
  BY <1>1 DEF Keeps, SinkInv, SinkType
<1>3. LinesAddUp' BY <1>1, SinkAddsUp DEF Keeps, SinkInv, LinesAddUp, AddUp
<1>4. SinkInv' BY <1>1, <1>2, <1>3 DEF Keeps, SinkInv
<1>5. StopInv' BY <1>1, <1>2 DEF StopInv, InOrder, Unfinished, RequestsAt, SinkInv
<1> QED BY <1>1, <1>4, <1>5, OtherStepKeeps

(* A step of main keeps the invariant.                                     *)
LEMMA MainStepKeeps ==
    ASSUME ServerInv, ServerMain \/ Faulty
    PROVE  ServerInv'
<1>1. /\ ServerTypeOK /\ server \in ServerType /\ sink \in SinkType
      /\ SinkInv /\ StopInv
  BY DEF ServerInv, ServerTypeOK
<1>2. Keeps(sink, sink) BY <1>1 DEF Keeps
<1>3. CASE StartServer
  <2>1. /\ UNCHANGED <<serverConfig, request, places>> /\ server.at = "starting" /\ server' = Serving
        /\ Keeps(sink, sink')
    BY <1>1, <1>3, LogKeeps DEF StartServer, ServerGoes
  <2>2. server' \in ServerType /\ server'.at = "serving"
    BY <2>1 DEF Serving, ServerType
  <2> QED BY <1>1, <2>1, <2>2, MoveKeeps DEF SinkInv, InOrder
<1>4. CASE StartFails
  <2>1. UNCHANGED <<serverConfig, request, places>> /\ server.at = "starting"
    BY <1>4 DEF StartFails, ServerGoes
  <2>2. server' \in ServerType /\ server'.at = "closing" /\ server'.code = 1
    BY <1>1, <1>4 DEF StartFails, ServerGoes, ServerType
  <2>3. Keeps(sink, sink')
    <3>3. CASE sink' = sink BY <1>1, <3>3, SameLog
    <3>1. CASE sink' = Handle(sink, "error", serverConfig.level) BY <1>1, <3>1, HandleKeeps
    <3>2. CASE sink' = Handle(Handle(sink, "info", serverConfig.level), "error", serverConfig.level)
      <4> DEFINE t == Handle(sink, "info", serverConfig.level)
      <4>1. Keeps(sink, t) BY <1>1, HandleKeeps
      <4>2. t \in SinkType BY <4>1 DEF Keeps
      <4>3. Keeps(t, sink') BY <3>2, <4>2, HandleKeeps
      <4> QED BY <4>1, <4>3, KeepsTransitive
    <3> QED BY <1>4, <3>1, <3>2, <3>3 DEF StartFails
  <2> QED BY <1>1, <2>1, <2>2, <2>3, MoveKeeps DEF SinkInv, InOrder
<1>5. CASE ServeFails \/ Signal \/ ShutdownTimesOut
  <2>1. /\ UNCHANGED <<serverConfig, request, places, sink>> /\ server.at \in {"serving", "shutting"}
        /\ server' \in ServerType /\ server'.at \in {"failed", "shutting"}
    BY <1>1, <1>5 DEF ServeFails, Signal, ShutdownTimesOut, ServerGoes, ServerType
  <2> QED BY <1>1, <1>2, <2>1, MoveKeeps DEF SinkInv, InOrder
<1>6. CASE Shutdown
  <2>1. /\ UNCHANGED <<serverConfig, request, places, sink>> /\ server.at = "shutting"
        /\ server' \in ServerType /\ server'.at \in {"stopped", "failed"} /\ ~server'.open /\ Unfinished = {}
    BY <1>1, <1>6 DEF Shutdown, ServerGoes, ServerType
  <2> QED BY <1>1, <1>2, <2>1, MoveKeeps DEF SinkInv, InOrder
<1>7. CASE Stopped
  <2>1. /\ UNCHANGED <<serverConfig, request, places>> /\ server.at = "stopped"
        /\ server' \in ServerType /\ server'.at = "closing" /\ server'.open = server.open
    BY <1>1, <1>7 DEF Stopped, ServerGoes, ServerType
  <2>2. Keeps(sink, sink') BY <1>1, <1>7, LogKeeps DEF Stopped
  <2>3. InOrder /\ ~server.open BY <1>1, <2>1 DEF InOrder, StopInv
  <2> QED BY <1>1, <2>1, <2>2, <2>3, MoveKeeps DEF SinkInv
<1>8. CASE Failed
  <2>1. /\ UNCHANGED <<serverConfig, request, places>> /\ server.at = "failed"
        /\ server' \in ServerType /\ server'.at = "closing" /\ server'.code = 1
    BY <1>1, <1>8 DEF Failed, ServerGoes, ServerType
  <2>2. Keeps(sink, sink') BY <1>1, <1>8, LogKeeps DEF Failed
  <2> QED BY <1>1, <2>1, <2>2, MoveKeeps DEF SinkInv, InOrder
<1>9. CASE ExitServer
  <2>1. /\ UNCHANGED <<serverConfig, request, places, sink>> /\ server.at = "waiting" /\ sink.done
        /\ server' \in ServerType /\ server'.at = "exited" /\ ~server'.open
        /\ server'.code = server.code
    BY <1>1, <1>9 DEF ExitServer, ServerGoes, ServerType
  <2> QED BY <1>1, <1>2, <2>1, MoveKeeps DEF InOrder
<1>10. CASE CloseLog
  <2>1. /\ UNCHANGED <<serverConfig, request, places>> /\ server.at = "closing" /\ sink' = Closed(sink)
        /\ server' \in ServerType /\ server'.at = "waiting"
        /\ server'.code = server.code /\ server'.open = server.open
    BY <1>1, <1>10 DEF CloseLog, ServerGoes, ServerType
  <2>2. sink' \in SinkType BY <1>1, <2>1, LogRuns, Zenon
  <2>3. /\ sink'.closed /\ sink'.done = sink.done /\ sink'.refused = sink.refused
        /\ sink'.lost = sink.lost /\ sink'.broken = sink.broken
        /\ LinesAddUp'
    BY <1>1, <2>1 DEF Closed, SinkInv, LinesAddUp, SinkType
  <2>4. SinkInv' BY <1>1, <2>1, <2>3 DEF SinkInv
  <2>5. StopInv' BY <1>1, <2>1, <2>3 DEF StopInv, InOrder, Unfinished, RequestsAt
  <2> QED BY <1>1, <2>1, <2>2, <2>4, <2>5, OtherStepKeeps
<1> QED BY <1>3, <1>4, <1>5, <1>6, <1>7, <1>8, <1>9, <1>10 DEF ServerMain, Faulty

-----------------------------------------------------------------------------
(* The invariant holds when the process starts.                            *)
LEMMA ServerInitInv ==
    ASSUME ServerInit
    PROVE  ServerInv
<1>1. /\ request = [r \in Requests |-> NoRequest] /\ places = [p \in Paths |-> 0]
      /\ serverConfig \in ServerConfigs /\ sink = newAsyncLogSink
      /\ server = [at |-> "starting", open |-> FALSE, code |-> 0]
  BY DEF ServerInit
<1>2. NoRequest \in RequestType /\ NoRequest.at = "none"
  BY NoRequestTyped
<1>3. ServerTypeOK
  BY <1>1, <1>2 DEF ServerTypeOK, ServerType, SinkType, LinesType, newAsyncLogSink, NoLines
<1>4. HandledHasPath BY <1>1, <1>2 DEF HandledHasPath
<1>5. PlacesMatchRequests
  <2> SUFFICES ASSUME NEW p \in Paths
               PROVE  /\ places[p] <= Limit[p]
                      /\ places[p] = Cardinality({r \in Requests : serverConfig.path[r] = p /\
                            (request[r].at = "upstream" \/ (request[r].at = "answering" /\ Admitted(r)))})
    BY DEF PlacesMatchRequests
  <2>1. {r \in Requests : serverConfig.path[r] = p /\
            (request[r].at = "upstream" \/ (request[r].at = "answering" /\ Admitted(r)))} = {}
    BY <1>1, <1>2
  <2>2. Cardinality({}) = 0 /\ places[p] = 0 BY <1>1, FS_EmptySet
  <2>3. 0 <= Limit[p] BY ServerAssumption
  <2> QED BY <2>1, <2>2, <2>3
<1>6. SinkInv
  BY <1>1 DEF SinkInv, LinesAddUp, newAsyncLogSink, NoLines
<1>7. StopInv BY <1>1 DEF StopInv, InOrder
<1> QED BY <1>3, <1>4, <1>5, <1>6, <1>7 DEF ServerInv

(* Every state of the server keeps all of this together: the types, the    *)
(* places, and the accounts of the log through starting, serving,          *)
(* stopping and exit (Client handlers, serveHTTP, main, asyncLogSink).     *)
THEOREM ServerInductive == ServerSpec => []ServerInv
<1>1. ServerInit => ServerInv BY ServerInitInv
<1>2. ServerInv /\ [ServerNext]_serverVars => ServerInv'
  <2> SUFFICES ASSUME ServerInv, [ServerNext]_serverVars PROVE ServerInv'
    OBVIOUS
  <2>1. CASE ServerMain \/ Faulty BY <2>1, MainStepKeeps
  <2>2. ASSUME NEW r \in Requests, Handler(r) \/ Peer(r) PROVE ServerInv'
    <3>1. PICK q : RequestStep(r, q) BY <2>2, HandlersStep DEF ServerInv
    <3> QED BY <3>1, RequestStepKeeps
  <2>3. CASE run /\ UNCHANGED <<serverConfig, server, request, places>>
    BY <2>3, LogStepKeeps
  <2>4. CASE UNCHANGED serverVars
    <3>1. UNCHANGED <<serverConfig, server, request, places, sink>> BY <2>4 DEF serverVars
    <3>2. /\ server \in ServerType /\ sink \in SinkType /\ SinkInv /\ StopInv
      BY DEF ServerInv, ServerTypeOK
    <3>3. SinkInv' BY <3>1, <3>2 DEF SinkInv, LinesAddUp
    <3>4. StopInv' BY <3>1, <3>2 DEF StopInv, InOrder, Unfinished, RequestsAt
    <3> QED BY <3>1, <3>2, <3>3, <3>4, OtherStepKeeps
  <2> QED BY <2>1, <2>2, <2>3, <2>4 DEF ServerNext
<1> QED BY <1>1, <1>2, PTL DEF ServerSpec

(* The places taken are those of the requests that were admitted and are   *)
(* not answered, and never more than the limit (tryAcquire, release).      *)
THEOREM PlacesAreConserved == ServerSpec => []PlacesMatchRequests
<1>1. ServerInv => PlacesMatchRequests BY DEF ServerInv
<1> QED BY <1>1, ServerInductive, PTL

(* No line of the log is lost without a trace, and a server that exits     *)
(* with code 0 has answered every request and written or counted every     *)
(* line, unless the file failed (serveHTTP, main, asyncLogSink).           *)
THEOREM LogIsComplete == ServerSpec => []LogIsAccountedFor
<1>1. ServerInv => LogIsAccountedFor
  <2> SUFFICES ASSUME ServerInv PROVE LogIsAccountedFor
    OBVIOUS
  <2>1. SinkInv /\ StopInv /\ sink \in SinkType BY DEF ServerInv, ServerTypeOK
  <2>2. ASSUME server.at = "exited", server.code = 0
        PROVE  /\ Unfinished = {} /\ sink.refused = 0
               /\ sink.offered = sink.file.lines + sink.file.dropped + sink.lost
    <3>1. Unfinished = {} /\ sink.refused = 0 BY <2>1, <2>2 DEF StopInv, InOrder
    <3>2. sink.queue = 0 /\ sink.dropped = 0 /\ sink.buffered.lines = 0 /\ sink.buffered.dropped = 0
      BY <2>1, <2>2 DEF SinkInv, NoLines
    <3>3. sink.file.lines \in Nat /\ sink.file.dropped \in Nat /\ sink.lost \in Nat
      BY <2>1 DEF SinkType, LinesType
    <3> QED BY <2>1, <3>1, <3>2, <3>3 DEF SinkInv, LinesAddUp
  <2> QED BY <2>1, <2>2 DEF LogIsAccountedFor, SinkInv
<1> QED BY <1>1, ServerInductive, PTL
-----------------------------------------------------------------------------
(* Deadlines                                                               *)

(* A stage has the deadline it was made with.                              *)
LEMMA StageTimeout ==
    ASSUME NEW n, NEW t, NEW d
    PROVE  ServerStage(n, t, d).timeout = t
BY DEF ServerStage

(* Four stages in a row.                                                   *)
LEMMA FourStages ==
    ASSUME NEW a, NEW b, NEW c, NEW d, NEW s, s = <<a, b, c, d>>
    PROVE  Len(s) = 4 /\ s[1] = a /\ s[2] = b /\ s[3] = c /\ s[4] = d
OBVIOUS

(* Three stages and then two.                                              *)
LEMMA FiveStages ==
    ASSUME NEW a, NEW b, NEW c, NEW d, NEW e, NEW s, s = <<a, b, c>> \o <<d, e>>
    PROVE  Len(s) = 5 /\ s[1] = a /\ s[2] = b /\ s[3] = c /\ s[4] = d /\ s[5] = e
OBVIOUS

(* The deadlines of an authentication (sendSPARequest).                    *)
LEMMA AuthStages ==
    LET s == Stages("auth")
    IN  /\ Len(s) = 4
        /\ s[1].timeout = 3 /\ s[2].timeout = 2 /\ s[3].timeout = 2 /\ s[4].timeout = 2
<1> DEFINE a == ServerStage("dial", QUICDialTimeout, FALSE)
           b == ServerStage("open stream", QUICStreamTimeout, FALSE)
           c == ServerStage("send", QUICStreamTimeout, FALSE)
           d == ServerStage("receive", QUICStreamTimeout, FALSE)
<1>1. a.timeout = QUICDialTimeout BY StageTimeout
<1>2. b.timeout = QUICStreamTimeout BY StageTimeout, Zenon
<1>3. c.timeout = QUICStreamTimeout BY StageTimeout
<1>4. d.timeout = QUICStreamTimeout BY StageTimeout
<1>5. Stages("auth") = <<a, b, c, d>> BY Zenon DEF Stages, sendSPARequest
<1> HIDE DEF a, b, c, d
<1> QED BY <1>1, <1>2, <1>3, <1>4, <1>5, FourStages DEF QUICDialTimeout, QUICStreamTimeout

(* The deadlines of a request through the gateway (runTCPClient,           *)
(* sendTCPHello).                                                          *)
LEMMA ProxyStages ==
    ASSUME NEW p, p # "auth"
    PROVE  LET s == Stages(p)
           IN  /\ Len(s) = 5
               /\ s[1].timeout = 2 /\ s[2].timeout = 3 /\ s[3].timeout = 3
               /\ s[4].timeout = 3 /\ s[5].timeout = 3
<1> DEFINE a == ServerStage("tcp_connect", TCPConnectTimeout, TRUE)
           b == ServerStage("tls_handshake", TCPOperationTimeout, TRUE)
           c == ServerStage("gateway_header_read", TCPOperationTimeout, TRUE)
           d == ServerStage("business_request_write", TCPOperationTimeout, FALSE)
           e == ServerStage("business_response_read", TCPOperationTimeout, TRUE)
<1>1. a.timeout = TCPConnectTimeout BY StageTimeout
<1>2. b.timeout = TCPOperationTimeout BY StageTimeout
<1>3. c.timeout = TCPOperationTimeout BY StageTimeout
<1>4. d.timeout = TCPOperationTimeout BY StageTimeout
<1>5. e.timeout = TCPOperationTimeout BY StageTimeout
<1>6. Stages(p) = <<a, b, c>> \o <<d, e>> BY Zenon DEF Stages, runTCPClient, sendTCPHello
<1> HIDE DEF a, b, c, d, e
<1> QED BY <1>1, <1>2, <1>3, <1>4, <1>5, <1>6, FiveStages DEF TCPConnectTimeout, TCPOperationTimeout

(* The equation of the sum of deadlines.                                   *)
Sums(f, base, s) ==
    [n \in 0..Len(s) |-> IF n = 0 THEN base ELSE f[n - 1] + s[n].timeout]

(* What a function that satisfies it adds at each stage.                   *)
LEMMA SumsBegin ==
    ASSUME NEW f, NEW base, NEW s, Len(s) \in Nat, f = Sums(f, base, s)
    PROVE  f[0] = base
<1>1. 0 \in 0..Len(s) OBVIOUS
<1>2. Sums(f, base, s)[0] = base BY <1>1 DEF Sums
<1> QED BY <1>2

LEMMA SumsAdd ==
    ASSUME NEW f, NEW base, NEW s, Len(s) \in Nat, f = Sums(f, base, s),
           NEW n \in 1..Len(s), NEW m, m = n - 1, NEW t, s[n].timeout = t
    PROVE  f[n] = f[m] + t
<1>1. n \in 0..Len(s) /\ n # 0 OBVIOUS
<1>2. Sums(f, base, s)[n] = f[n - 1] + s[n].timeout
  BY <1>1 DEF Sums
<1> QED BY <1>2

(* There is such a function for the four stages of one path,               *)
LEMMA FourSumsExist ==
    ASSUME NEW base \in Nat, NEW s, Len(s) = 4,
           s[1].timeout = 3, s[2].timeout = 2, s[3].timeout = 2, s[4].timeout = 2
    PROVE  \E f : f = Sums(f, base, s)
<1> DEFINE g == [m \in 0..4 |-> IF m = 0 THEN base ELSE IF m = 1 THEN base + 3
                                ELSE IF m = 2 THEN base + 5 ELSE IF m = 3 THEN base + 7 ELSE base + 9]
<1>1. /\ g[0] = base
      /\ g[1] = base + 3 /\ g[2] = base + 5 /\ g[3] = base + 7 /\ g[4] = base + 9
  OBVIOUS
<1>2. ASSUME NEW m \in 0..4
      PROVE  g[m] = IF m = 0 THEN base ELSE g[m - 1] + s[m].timeout
  <2>1. m \in {0, 1, 2, 3, 4} OBVIOUS
  <2> HIDE DEF g
  <2> QED BY <1>1, <2>1
<1>3. g = [m \in 0..4 |-> g[m]] OBVIOUS
<1> HIDE DEF g
<1>4. g = Sums(g, base, s) BY <1>2, <1>3 DEF Sums
<1> QED BY <1>4

(* and for the five of the other.                                          *)
LEMMA FiveSumsExist ==
    ASSUME NEW base \in Nat, NEW s, Len(s) = 5,
           s[1].timeout = 2, s[2].timeout = 3, s[3].timeout = 3, s[4].timeout = 3,
           s[5].timeout = 3
    PROVE  \E f : f = Sums(f, base, s)
<1> DEFINE g == [m \in 0..5 |-> IF m = 0 THEN base ELSE IF m = 1 THEN base + 2
                                ELSE IF m = 2 THEN base + 5 ELSE IF m = 3 THEN base + 8
                                ELSE IF m = 4 THEN base + 11 ELSE base + 14]
<1>1. /\ g[0] = base
      /\ g[1] = base + 2 /\ g[2] = base + 5 /\ g[3] = base + 8 /\ g[4] = base + 11 /\ g[5] = base + 14
  OBVIOUS
<1>2. ASSUME NEW m \in 0..5
      PROVE  g[m] = IF m = 0 THEN base ELSE g[m - 1] + s[m].timeout
  <2>1. m \in {0, 1, 2, 3, 4, 5} OBVIOUS
  <2> HIDE DEF g
  <2> QED BY <1>1, <2>1
<1>3. g = [m \in 0..5 |-> g[m]] OBVIOUS
<1> HIDE DEF g
<1>4. g = Sums(g, base, s) BY <1>2, <1>3 DEF Sums
<1> QED BY <1>4

(* The sum at the stages of either path.                                   *)
LEMMA FourSums ==
    ASSUME NEW base \in Nat, NEW s, Len(s) = 4,
           s[1].timeout = 3, s[2].timeout = 2, s[3].timeout = 2, s[4].timeout = 2,
           NEW f, f = Sums(f, base, s), NEW n \in 1..4
    PROVE  f[n] \in Nat /\ f[n] <= base + 9
<1>1. f[0] = base BY SumsBegin
<1>2. f[1] = base + 3
  <2>1. 1 \in 1..Len(s) /\ 0 = 1 - 1 OBVIOUS
  <2>2. f[1] = f[0] + 3 BY <2>1, SumsAdd
  <2> QED BY <1>1, <2>2
<1>3. f[2] = base + 5
  <2>1. 2 \in 1..Len(s) /\ 1 = 2 - 1 OBVIOUS
  <2>2. f[2] = f[1] + 2 BY <2>1, SumsAdd
  <2> QED BY <1>2, <2>2
<1>4. f[3] = base + 7
  <2>1. 3 \in 1..Len(s) /\ 2 = 3 - 1 OBVIOUS
  <2>2. f[3] = f[2] + 2 BY <2>1, SumsAdd
  <2> QED BY <1>3, <2>2
<1>5. f[4] = base + 9
  <2>1. 4 \in 1..Len(s) /\ 3 = 4 - 1 OBVIOUS
  <2>2. f[4] = f[3] + 2 BY <2>1, SumsAdd
  <2> QED BY <1>4, <2>2
<1>6. n \in {1, 2, 3, 4} OBVIOUS
<1> QED BY <1>2, <1>3, <1>4, <1>5, <1>6

LEMMA FiveSums ==
    ASSUME NEW base \in Nat, NEW s, Len(s) = 5,
           s[1].timeout = 2, s[2].timeout = 3, s[3].timeout = 3, s[4].timeout = 3,
           s[5].timeout = 3,
           NEW f, f = Sums(f, base, s), NEW n \in 1..5
    PROVE  f[n] \in Nat /\ f[n] <= base + 14
<1>1. f[0] = base BY SumsBegin
<1>2. f[1] = base + 2
  <2>1. 1 \in 1..Len(s) /\ 0 = 1 - 1 OBVIOUS
  <2>2. f[1] = f[0] + 2 BY <2>1, SumsAdd
  <2> QED BY <1>1, <2>2
<1>3. f[2] = base + 5
  <2>1. 2 \in 1..Len(s) /\ 1 = 2 - 1 OBVIOUS
  <2>2. f[2] = f[1] + 3 BY <2>1, SumsAdd
  <2> QED BY <1>2, <2>2
<1>4. f[3] = base + 8
  <2>1. 3 \in 1..Len(s) /\ 2 = 3 - 1 OBVIOUS
  <2>2. f[3] = f[2] + 3 BY <2>1, SumsAdd
  <2> QED BY <1>3, <2>2
<1>5. f[4] = base + 11
  <2>1. 4 \in 1..Len(s) /\ 3 = 4 - 1 OBVIOUS
  <2>2. f[4] = f[3] + 3 BY <2>1, SumsAdd
  <2> QED BY <1>4, <2>2
<1>6. f[5] = base + 14
  <2>1. 5 \in 1..Len(s) /\ 4 = 5 - 1 OBVIOUS
  <2>2. f[5] = f[4] + 3 BY <2>1, SumsAdd
  <2> QED BY <1>5, <2>2
<1>7. n \in {1, 2, 3, 4, 5} OBVIOUS
<1> QED BY <1>2, <1>3, <1>4, <1>5, <1>6, <1>7

(* Without a slow body no request takes longer than there is to write.     *)
LEMMA LongestFits ==
    ASSUME NEW r, ~serverConfig.slow, request[r].stage \in 1..Len(Stages(serverConfig.path[r]))
    PROVE  Longest(r) <= HTTPWriteTimeout
<1> DEFINE s == Stages(serverConfig.path[r])
           base == IF serverConfig.slow THEN HTTPReadTimeout ELSE 0
           until == CHOOSE f : f = Sums(f, base, s)
           stage == request[r].stage
<1>1. base = 0 /\ base \in Nat OBVIOUS
<1>2. Longest(r) = until[stage] BY Zenon DEF Longest, Sums
<1>3. stage \in 1..Len(s) OBVIOUS
<1>4. ASSUME \E f : f = Sums(f, base, s)
      PROVE  until = Sums(until, base, s)
  <2> HIDE DEF s, base
  <2> QED BY <1>4
<1>5. CASE serverConfig.path[r] = "auth"
  <2>1. /\ Len(s) = 4
        /\ s[1].timeout = 3 /\ s[2].timeout = 2 /\ s[3].timeout = 2 /\ s[4].timeout = 2
    BY <1>5, AuthStages
  <2> HIDE DEF s, base, until, stage
  <2>2. until = Sums(until, base, s) BY <1>1, <1>4, <2>1, FourSumsExist
  <2>3. until[stage] \in Nat /\ until[stage] <= base + 9
    BY <1>1, <1>3, <2>1, <2>2, FourSums
  <2> QED BY <1>1, <1>2, <2>3 DEF HTTPWriteTimeout
<1>6. CASE serverConfig.path[r] # "auth"
  <2>1. /\ Len(s) = 5
        /\ s[1].timeout = 2 /\ s[2].timeout = 3 /\ s[3].timeout = 3
        /\ s[4].timeout = 3 /\ s[5].timeout = 3
    BY <1>6, ProxyStages
  <2> HIDE DEF s, base, until, stage
  <2>2. until = Sums(until, base, s) BY <1>1, <1>4, <2>1, FiveSumsExist
  <2>3. until[stage] \in Nat /\ until[stage] <= base + 14
    BY <1>1, <1>3, <2>1, <2>2, FiveSums
  <2> QED BY <1>1, <1>2, <2>3 DEF HTTPWriteTimeout
<1> QED BY <1>5, <1>6

(* A request is at a stage of its conversation, and late only if its body  *)
(* was slow.                                                               *)
OnTime(q, stages) == q.stage \in 1..Len(stages) /\ (q.end = "late" => serverConfig.slow)

DeadlinesHold == \A r \in Requests : OnTime(request[r], Stages(serverConfig.path[r]))

(* There is a first stage on every path.                                   *)
LEMMA FirstStage ==
    ASSUME NEW p
    PROVE  Len(Stages(p)) \in Nat /\ 1 \in 1..Len(Stages(p))
<1>1. CASE p = "auth" BY <1>1, AuthStages
<1>2. CASE p # "auth" BY <1>2, ProxyStages
<1> QED BY <1>1, <1>2

(* So a request that begins or is over is on time.                         *)
LEMMA NewIsOnTime ==
    ASSUME NEW p
    PROVE  OnTime(NewRequest, Stages(p)) /\ OnTime(NoRequest, Stages(p))
BY FirstStage DEF OnTime, NewRequest, NoRequest

Left(q) == [q EXCEPT !.gone = TRUE]

Let(q) == [q EXCEPT !.at = "upstream"]

(* Moves that leave the stage and the end alone.                           *)
LEMMA StaysOnTime ==
    ASSUME NEW q \in RequestType, NEW t, OnTime(q, t), NEW status, NEW outcome
    PROVE  /\ OnTime(Left(q), t)
           /\ OnTime(Let(q), t)
           /\ OnTime(Answered(q, status), t)
           /\ OnTime(Ended(q, outcome), t)
<1>1. /\ Left(q).stage = q.stage /\ Left(q).end = q.end
      /\ Let(q).stage = q.stage /\ Let(q).end = q.end
  BY DEF Left, Let, RequestType
<1>2. /\ Answered(q, status).stage = q.stage /\ Answered(q, status).end = q.end
      /\ Ended(q, outcome).stage = q.stage /\ Ended(q, outcome).end = q.end
  BY DEF Answered, Ended, RequestType
<1> QED BY <1>1, <1>2 DEF OnTime

(* The handlers and their clients keep every request on time.              *)
LEMMA DeadlinesStep ==
    ASSUME ServerTypeOK, HandledHasPath, DeadlinesHold, NEW r \in Requests, Handler(r) \/ Peer(r)
    PROVE  DeadlinesHold'
<1> DEFINE t == Stages(serverConfig.path[r])
<1>0. /\ request \in [Requests -> RequestType] /\ request[r] \in RequestType
      /\ OnTime(request[r], t)
  BY DEF ServerTypeOK, DeadlinesHold
<1>1. UNCHANGED serverConfig
  <2>1. PICK q : RequestStep(r, q) BY HandlersStep
  <2> QED BY <2>1 DEF RequestStep
<1>2. ASSUME NEW q, OnTime(q, t), request' = [request EXCEPT ![r] = q]
      PROVE  DeadlinesHold'
  <2> SUFFICES ASSUME NEW x \in Requests PROVE OnTime(request'[x], Stages(serverConfig.path[x]))
    BY <1>1 DEF DeadlinesHold, OnTime
  <2>1. CASE x = r BY <1>0, <1>2, <2>1
  <2>2. CASE x # r BY <1>0, <1>2, <2>2 DEF DeadlinesHold
  <2> QED BY <2>1, <2>2
<1>3. CASE Arrive(r)
  BY <1>2, <1>3, NewIsOnTime DEF Arrive
<1>4. CASE ClientLeaves(r)
  <2>1. request' = [request EXCEPT ![r] = Left(request[r])]
    BY <1>4 DEF ClientLeaves, Left
  <2> QED BY <1>0, <1>2, <2>1, StaysOnTime
<1>5. CASE Admit(r)
  <2>1. request' = [request EXCEPT ![r] = Let(request[r])]
    BY <1>5 DEF Admit, Let
  <2> QED BY <1>0, <1>2, <2>1, StaysOnTime
<1>6. ASSUME NEW status, Answer(r, status)
      PROVE  DeadlinesHold'
  <2>1. request' = [request EXCEPT ![r] = Answered(request[r], status)]
    BY <1>6 DEF Answer, Answered
  <2> QED BY <1>0, <1>2, <2>1, StaysOnTime
<1>7. CASE Reject(r) \/ TooMany(r)
  BY <1>6, <1>7 DEF Reject, TooMany
<1>8. ASSUME NEW outcome, UpstreamOver(r, outcome)
      PROVE  DeadlinesHold'
  <2>1. request' = [request EXCEPT ![r] = Ended(request[r], outcome)]
    BY <1>8 DEF UpstreamOver, Ended
  <2> QED BY <1>0, <1>2, <2>1, StaysOnTime
<1>9. CASE Completes(r) \/ Breaks(r) \/ StageTimesOut(r)
  BY <1>8, <1>9 DEF Completes, Breaks, StageTimesOut
<1>10. CASE StagePasses(r)
  <2> DEFINE q == [request[r] EXCEPT !.stage = @ + 1]
  <2>1. request' = [request EXCEPT ![r] = q] BY <1>10 DEF StagePasses
  <2>2. q.stage = request[r].stage + 1 /\ q.end = request[r].end
    BY <1>0 DEF RequestType
  <2>3. request[r].stage \in 1..Len(t) /\ request[r].stage # Len(t) /\ Len(t) \in Nat
    BY <1>0, <1>10, FirstStage DEF OnTime, StagePasses, LastStage
  <2>4. request[r].stage + 1 \in 1..Len(t) BY <2>3
  <2>5. OnTime(q, t) BY <1>0, <2>2, <2>4 DEF OnTime
  <2> HIDE DEF q
  <2> QED BY <1>2, <2>1, <2>5
<1>11. CASE HandlerReturns(r)
  <2>1. PICK elapsed \in {0, Longest(r)} :
            request' = [request EXCEPT ![r] = [NoRequest EXCEPT !.at = "done", !.end = End(r, elapsed)]]
    BY <1>11 DEF HandlerReturns
  <2> DEFINE q == [NoRequest EXCEPT !.at = "done", !.end = End(r, elapsed)]
  <2>2. request' = [request EXCEPT ![r] = q] BY <2>1
  <2>3. q.stage = NoRequest.stage /\ q.end = End(r, elapsed)
    BY NoRequestTyped DEF RequestType
  <2>4. End(r, elapsed) = "late" => serverConfig.slow
    <3> SUFFICES ASSUME ~serverConfig.slow PROVE End(r, elapsed) # "late"
      OBVIOUS
    <3>1. Longest(r) <= HTTPWriteTimeout BY <1>0, LongestFits DEF OnTime
    <3>2. ~(elapsed > HTTPWriteTimeout)
      <4>1. CASE elapsed = 0 BY <4>1 DEF HTTPWriteTimeout
      <4>2. CASE elapsed = Longest(r) BY <3>1, <4>2 DEF HTTPWriteTimeout
      <4> QED BY <2>1, <4>1, <4>2
    <3> QED BY <3>2 DEF End
  <2>5. OnTime(q, t) BY <2>3, <2>4, NewIsOnTime DEF OnTime
  <2> HIDE DEF q
  <2> QED BY <1>2, <2>2, <2>5
<1> QED BY <1>3, <1>4, <1>5, <1>7, <1>9, <1>10, <1>11 DEF Handler, Peer

(* With the deadlines of the default configuration, the stages of a        *)
(* conversation end before the time to write the answer does: an answer    *)
(* that comes too late had a slow body (newHTTPServer, runTCPClient,       *)
(* sendSPARequest).                                                        *)
THEOREM AnswersComeInTime == ServerSpec => []AnswersArrive
<1>1. ServerInit => DeadlinesHold
  BY NewIsOnTime DEF ServerInit, DeadlinesHold
<1>2. ServerInv /\ DeadlinesHold /\ [ServerNext]_serverVars => DeadlinesHold'
  <2> SUFFICES ASSUME ServerInv, DeadlinesHold, [ServerNext]_serverVars PROVE DeadlinesHold'
    OBVIOUS
  <2>1. ASSUME NEW r \in Requests, Handler(r) \/ Peer(r) PROVE DeadlinesHold'
    BY <2>1, DeadlinesStep DEF ServerInv
  <2>2. CASE UNCHANGED <<serverConfig, request>>
    BY <2>2 DEF DeadlinesHold, OnTime
  <2>3. CASE ServerMain \/ Faulty
    BY <2>2, <2>3 DEF ServerMain, Faulty, StartServer, Shutdown, ShutdownTimesOut, Stopped, Failed, CloseLog,
                      ExitServer, StartFails, ServeFails, Signal, ServerGoes
  <2> QED BY <2>1, <2>2, <2>3 DEF ServerNext, serverVars
<1>3. DeadlinesHold => AnswersArrive
  BY DEF DeadlinesHold, OnTime, AnswersArrive
<1> QED BY <1>1, <1>2, <1>3, ServerInductive, PTL DEF ServerSpec
=============================================================================
