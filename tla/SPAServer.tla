------------------------------ MODULE SPAServer ------------------------------
(***************************************************************************)
(* SPA-test-server: an HTTP service that turns POST /auth into a QUIC      *)
(* authentication and POST /proxy into a request through the TLS gateway.  *)
(* A request is checked, admitted if its path has a place left, taken      *)
(* through the stages of the conversation with the other side, logged and  *)
(* answered; the place is given back when the handler returns. The server  *)
(* stops at a signal, and waits a while for the requests that run. Time is *)
(* counted in seconds where deadlines meet; nothing else is timed.         *)
(***************************************************************************)
EXTENDS FiniteSets, SequencesExt, LogSink

CONSTANTS
    Requests,       \* the requests that clients make
    Limit,          \* Limit[path]: max_auth_concurrency, max_proxy_concurrency
    ServerConfigs   \* log_level, return_upstream_body, the paths of the requests, and
                    \* whether their bodies take the time there is to read them

Paths == {"auth", "proxy"}

ASSUME ServerAssumption ==
    /\ IsFiniteSet(Requests)
    /\ Limit \in [Paths -> Nat \ {0}]
    /\ ServerConfigs \subseteq
          [level: DOMAIN LevelOf, body: BOOLEAN, slow: BOOLEAN,
           path: [Requests -> Paths \cup {"none"}]]

VARIABLES
    serverConfig,   \* the configuration; it never changes
    server,         \* [at, open, code]: main; may connections be used; exit code
    request,        \* request[r]: its handler
    places          \* places[path]: the length of the semaphore's channel

serverVars == <<serverConfig, server, request, places, sink>>

-----------------------------------------------------------------------------
(* Timeouts of the default configuration, in seconds                       *)

QUICDialTimeout     == 3
QUICStreamTimeout   == 2
TCPConnectTimeout   == 2

(* Mutation: the timeout of the gateway operations is raised by a second.  *)
TCPOperationTimeoutLonger == 4

TCPOperationTimeout   == 3
HTTPReadHeaderTimeout == 2
HTTPReadTimeout       == 5
HTTPWriteTimeout      == 15
ShutdownTimeout       == 15

(* The stages of a conversation. Each has a deadline of its own; the       *)
(* handshake and the header to the gateway share one.                      *)
ServerStage(name, timeout, debug) == [name |-> name, timeout |-> timeout, debug |-> debug]

sendSPARequest ==
    <<ServerStage("dial", QUICDialTimeout, FALSE),
      ServerStage("open stream", QUICStreamTimeout, FALSE),
      ServerStage("send", QUICStreamTimeout, FALSE),
      ServerStage("receive", QUICStreamTimeout, FALSE)>>

runTCPClient ==
    <<ServerStage("tcp_connect", TCPConnectTimeout, TRUE),
      ServerStage("tls_handshake", TCPOperationTimeout, TRUE),
      ServerStage("gateway_header_read", TCPOperationTimeout, TRUE)>>

sendTCPHello ==
    <<ServerStage("business_request_write", TCPOperationTimeout, FALSE),
      ServerStage("business_response_read", TCPOperationTimeout, TRUE)>>

Stages(path) == IF path = "auth" THEN sendSPARequest ELSE runTCPClient \o sendTCPHello

(* How a last stage that was not cut off can go. A token can be made, or a *)
(* field of the answer is missing or has the wrong type (encodeTokenID).   *)
encodeTokenID == {[status |-> 200, whole |-> TRUE], [status |-> 502, whole |-> TRUE]}

(* The status line decides on success; the body is read only if it is      *)
(* wanted. A body that breaks off leaves the success as it is.             *)
readBusinessHTTPResponse(c) ==
    encodeTokenID \cup
    {[status |-> s, whole |-> FALSE] : s \in IF c.body \/ c.level = "debug" THEN {200, 502} ELSE {}}

Outcomes(path) == IF path = "auth" THEN encodeTokenID ELSE readBusinessHTTPResponse(serverConfig)

(* What is wrong with a request, and whether that is logged: the JSON      *)
(* (also one that does not arrive in time), an empty field or a forbidden  *)
(* password are; a field that is too long is not. The method (405) and the *)
(* size (413) are like the JSON.                                           *)
Faults == {[status |-> 400, logged |-> TRUE], [status |-> 400, logged |-> FALSE]}

-----------------------------------------------------------------------------
NewRequest ==
    [at |-> "reading", stage |-> 1, gone |-> FALSE,
     status |-> 0, whole |-> TRUE, end |-> "open"]

NoRequest == [NewRequest EXCEPT !.at = "none"]

RequestsAt(states) == {r \in Requests : request[r].at \in states}

Unfinished == RequestsAt({"reading", "upstream", "answering"})

ServerInit ==
    /\ serverConfig \in ServerConfigs
    /\ server = [at |-> "starting", open |-> FALSE, code |-> 0]
    /\ request = [r \in Requests |-> NoRequest]
    /\ places = [p \in Paths |-> 0]
    /\ sink = newAsyncLogSink

Log(level) == sink' = Handle(sink, level, serverConfig.level)

-----------------------------------------------------------------------------
(* Handlers. The process ends under them when main exits.                  *)

(* On a connection that is open: a listener takes no new ones when it is   *)
(* closed, but those it has taken may still bring their request.           *)
Arrive(r) ==
    /\ server.open /\ serverConfig.path[r] # "none" /\ request[r].at = "none"
    /\ request' = [request EXCEPT ![r] = NewRequest]
    /\ UNCHANGED <<serverConfig, server, places, sink>>

(* The client goes away; the server notices when it has read the body.     *)
ClientLeaves(r) ==
    /\ request[r].at = "upstream" /\ ~request[r].gone
    /\ request' = [request EXCEPT ![r].gone = TRUE]
    /\ UNCHANGED <<serverConfig, server, places, sink>>

Answer(r, status) ==
    request' = [request EXCEPT ![r] = [@ EXCEPT !.at = "answering", !.status = status]]

Reject(r) ==
    /\ request[r].at = "reading"
    /\ \E f \in Faults :
          /\ Answer(r, f.status)
          /\ IF f.logged THEN Log("error") ELSE UNCHANGED sink
    /\ UNCHANGED <<serverConfig, server, places>>

tryAcquire(path) ==
    /\ places[path] < Limit[path]
    /\ places' = [places EXCEPT ![path] = @ + 1]

Admit(r) ==
    /\ request[r].at = "reading"
    /\ tryAcquire(serverConfig.path[r])
    /\ request' = [request EXCEPT ![r].at = "upstream"]
    /\ Log("debug")
    /\ UNCHANGED <<serverConfig, server>>

TooMany(r) ==
    /\ request[r].at = "reading"
    /\ places[serverConfig.path[r]] = Limit[serverConfig.path[r]]
    /\ Answer(r, 429)
    /\ Log("error")
    /\ UNCHANGED <<serverConfig, server, places>>

StageOf(r) == Stages(serverConfig.path[r])[request[r].stage]

LastStage(r) == request[r].stage = Len(Stages(serverConfig.path[r]))

StagePasses(r) ==
    /\ request[r].at = "upstream" /\ ~LastStage(r)
    /\ request' = [request EXCEPT ![r].stage = @ + 1]
    /\ IF StageOf(r).debug THEN Log("debug") ELSE UNCHANGED sink
    /\ UNCHANGED <<serverConfig, server, places>>

(* The log of the handler goes with its answer; before it that of what the *)
(* other side answered.                                                    *)
UpstreamOver(r, outcome) ==
    /\ request' = [request EXCEPT ![r] = [@ EXCEPT !.at = "answering", !.status = outcome.status,
                                                      !.whole = outcome.whole]]
    /\ LET upstream == IF LastStage(r) /\ StageOf(r).debug
                          THEN Handle(sink, "debug", serverConfig.level) ELSE sink
           level == IF outcome.status = 200 THEN "info" ELSE "error"
       IN sink' = Handle(upstream, level, serverConfig.level)
    /\ UNCHANGED <<serverConfig, server, places>>

Completes(r) ==
    /\ request[r].at = "upstream" /\ LastStage(r)
    /\ \E outcome \in Outcomes(serverConfig.path[r]) : UpstreamOver(r, outcome)

BadGateway == [status |-> 502, whole |-> TRUE]

(* The other side refuses, or the context of the request is canceled and   *)
(* with it the connection closed.                                          *)
Breaks(r) ==
    /\ request[r].at = "upstream"
    /\ UpstreamOver(r, BadGateway)

(* Mutation: deadlines are set for the authentication only.                *)
StageTimesOutAuthOnly(r) ==
    /\ request[r].at = "upstream" /\ serverConfig.path[r] = "auth"
    /\ UpstreamOver(r, BadGateway)

StageTimesOut(r) ==
    /\ request[r].at = "upstream"
    /\ UpstreamOver(r, BadGateway)

(* A request that was admitted has been at its other side.                 *)
Admitted(r) == request[r].status \in {200, 502}

(* Mutation: a failed request keeps its place.                             *)
releaseOnSuccess(r) ==
    places' = IF request[r].status = 200
                 THEN [places EXCEPT ![serverConfig.path[r]] = @ - 1] ELSE places

release(r) ==
    places' = IF Admitted(r)
                 THEN [places EXCEPT ![serverConfig.path[r]] = @ - 1] ELSE places

(* The longest time the request can have taken up to the stage it is in:   *)
(* every stage ended just before its deadline.                             *)
Longest(r) ==
    LET stages == Stages(serverConfig.path[r])
        until[n \in 0..Len(stages)] ==
            IF n = 0 THEN (IF serverConfig.slow THEN HTTPReadTimeout ELSE 0)
                     ELSE until[n - 1] + stages[n].timeout
    IN until[request[r].stage]

(* The handler returns, then the answer leaves its buffer. It arrives if   *)
(* the client is there and the time to write, which began with the body,   *)
(* is not over.                                                            *)
End(r, elapsed) ==
    IF ~server.open \/ request[r].gone THEN "lost"
        ELSE IF elapsed > HTTPWriteTimeout THEN "late" ELSE "sent"

HandlerReturns(r) ==
    /\ request[r].at = "answering"
    /\ release(r)
    /\ \E elapsed \in {0, Longest(r)} :
          request' = [request EXCEPT ![r] = [NoRequest EXCEPT !.at = "done", !.end = End(r, elapsed)]]
    /\ UNCHANGED <<serverConfig, server, sink>>

Handler(r) == Reject(r) \/ Admit(r) \/ TooMany(r) \/ StageTimesOut(r) \/ HandlerReturns(r)

Peer(r) == Arrive(r) \/ ClientLeaves(r) \/ StagePasses(r) \/ Completes(r) \/ Breaks(r)

-----------------------------------------------------------------------------
(* main *)

ServerGoes(from, to) ==
    server.at = from /\ server' = to /\ UNCHANGED <<serverConfig, request, places>>

Serving == [at |-> "serving", open |-> TRUE, code |-> 0]

(* The first logger, the configuration, the log file or the address is     *)
(* unusable: there is no line of the first, and that of the last follows   *)
(* the line that announces the service.                                    *)
StartFails ==
    /\ ServerGoes("starting", [server EXCEPT !.at = "closing", !.code = 1])
    /\ LET announced == Handle(sink, "info", serverConfig.level)
       IN  sink' \in {sink, Handle(sink, "error", serverConfig.level),
                      Handle(announced, "error", serverConfig.level)}

StartServer == ServerGoes("starting", Serving) /\ Log("info")

ServeFails == ServerGoes("serving", [server EXCEPT !.at = "failed"]) /\ UNCHANGED sink

Signal == ServerGoes("serving", [server EXCEPT !.at = "shutting"]) /\ UNCHANGED sink

(* server.Shutdown returns when no connection has a request. The signal    *)
(* may have met an error of Serve, which is returned then.                 *)
Shutdown ==
    /\ Unfinished = {}
    /\ \E at \in {"stopped", "failed"} :
          ServerGoes("shutting", [server EXCEPT !.at = at, !.open = FALSE])
    /\ UNCHANGED sink

(* The longest a request can have run since the signal, before which its   *)
(* connection was taken: its header may have been awaited at first; the    *)
(* time of a slow body includes that of the header.                        *)
SinceSignal(r) ==
    (IF serverConfig.slow THEN 0 ELSE HTTPReadHeaderTimeout) + Longest(r)

(* Its context ends first: server.Close closes what is open.               *)
ShutdownTimesOut ==
    /\ \E r \in Unfinished : SinceSignal(r) > ShutdownTimeout
    /\ ServerGoes("shutting", [server EXCEPT !.at = "failed", !.open = FALSE])
    /\ UNCHANGED sink

Stopped == ServerGoes("stopped", [server EXCEPT !.at = "closing"]) /\ Log("info")

Failed == ServerGoes("failed", [server EXCEPT !.at = "closing", !.code = 1]) /\ Log("error")

(* Close of the log, once: the rest of the lines is waited for.            *)
CloseLog == ServerGoes("closing", [server EXCEPT !.at = "waiting"]) /\ sink' = Closed(sink)

ExitServer ==
    /\ sink.done
    /\ ServerGoes("waiting", [server EXCEPT !.at = "exited", !.open = FALSE])
    /\ UNCHANGED sink

ServerMain ==
    \/ StartServer \/ Shutdown \/ ShutdownTimesOut \/ Stopped \/ Failed
    \/ CloseLog \/ ExitServer

Faulty == StartFails \/ ServeFails \/ Signal

ServerNext ==
    /\ server.at # "exited"
    /\ \/ ServerMain \/ Faulty
       \/ \E r \in Requests : Handler(r) \/ Peer(r)
       \/ run /\ UNCHANGED <<serverConfig, server, request, places>>

ServerSpec == ServerInit /\ [][ServerNext]_serverVars

-----------------------------------------------------------------------------
(* main, the handlers and the goroutine of the log do what they can; what  *)
(* the clients, the other side and the user do is theirs, but every stage  *)
(* has a deadline.                                                         *)
WhileItRuns(A) == server.at # "exited" /\ A

ServerFairness ==
    /\ WF_serverVars(WhileItRuns(ServerMain))
    /\ \A r \in Requests : WF_serverVars(WhileItRuns(Handler(r)))
    /\ WF_serverVars(WhileItRuns((TakeLine \/ EndsDrained)
                                  /\ UNCHANGED <<serverConfig, server, request, places>>))

FairServerSpec == ServerSpec /\ ServerFairness

-----------------------------------------------------------------------------
(* Properties *)

(* The places taken are those of the requests that were admitted and are   *)
(* not answered, within the limit; so a client that has its answer finds   *)
(* the place free (tryAcquire, the deferred release).                      *)
PlacesMatchRequests ==
    \A p \in Paths :
        /\ places[p] <= Limit[p]
        /\ places[p] = Cardinality({r \in Requests : serverConfig.path[r] = p /\
              (request[r].at = "upstream" \/ (request[r].at = "answering" /\ Admitted(r)))})

(* Every line of the log is written, counted in a summary, refused or lost *)
(* with the file, in one way; and a server that exits with code 0 has      *)
(* answered every request it took, refused no line and has the rest in the *)
(* file, unless the file failed (serveHTTP, main, asyncLogSink).           *)
LogIsAccountedFor ==
    /\ LinesAddUp
    /\ server.at = "exited" /\ server.code = 0 =>
          /\ Unfinished = {} /\ sink.refused = 0
          /\ sink.offered = sink.file.lines + sink.file.dropped + sink.lost
          /\ sink.lost > 0 => sink.broken

(* With the default timeouts an answer comes too late only if the body of  *)
(* the request was slow too: the stages of either path end before the time *)
(* to write does (newHTTPServer, runTCPClient, sendSPARequest).            *)
AnswersArrive == \A r \in Requests : request[r].end = "late" => serverConfig.slow

(* The server comes to rest again and again: it serves and every request   *)
(* that was taken is answered, or it has exited. It exits over a request   *)
(* only with an error: its listener failed, or the fifteen seconds of its  *)
(* shutdown were over. (Every stage of sendSPARequest and runTCPClient has *)
(* a deadline, and so has Shutdown; Close waits for the log's goroutine.)  *)
ServerLives ==
    []<>(/\ server.at \in {"serving", "exited"}
         /\ Unfinished = {} \/ (server.at = "exited" /\ server.code = 1))

(* README: after a signal the server waits for the requests that it has    *)
(* and exits then. It leaves its shutdown with none unfinished (serveHTTP). *)
ShutdownWaitsForRequests ==
    [][server.at = "shutting" /\ server'.at # "shutting" => Unfinished = {}]_serverVars

(* README: a failure of the business request is answered with 502.         *)
FailedBusinessIs502 ==
    \A r \in Requests : request[r].status = 200 => request[r].whole
=============================================================================
