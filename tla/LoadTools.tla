------------------------------ MODULE LoadTools ------------------------------
(***************************************************************************)
(* Five of the stand-alone load tools: EMMProxy, EMMProxy-2, TLS-Test,     *)
(* quic-client and sgp-xcad. Each is a main goroutine that hands out       *)
(* attempts, for a time or up to a number, through a queue to a pool of    *)
(* workers or to a goroutine of its own behind a semaphore; attempts that  *)
(* pass through stages of a conversation with a server; and counters that  *)
(* are reported when every attempt has ended.                              *)
(***************************************************************************)
EXTENDS JTLWriter

CONSTANTS
    Tools,          \* the runs to look at: a tool, its clients and its attempts
    MaxTasks        \* bound: attempts of a run

ToolsAssumption ==
    /\ Tools \subseteq
          [name: {"EMMProxy", "EMMProxy-2", "TLS-Test", "quic-client", "sgp-xcad"},
           clients: Nat \ {0}, tasks: 1..MaxTasks]
    /\ MaxTasks \in Nat \ {0}
    /\ WriterAssumption

VARIABLES
    tool,       \* the run that is looked at; it never changes
    toolMain,   \* where its main goroutine is
    expired,    \* the run duration has passed
    queue,      \* the tasks in the channel
    attempt,    \* attempt[i]: the attempt of task i
    counts,     \* the counters
    tokens      \* token_client.csv of quic-client, line by line

coreVars == <<toolMain, expired, queue, attempt, counts, tokens>>
toolVars == <<tool, coreVars, writerVars>>

Tasks == 0..(MaxTasks - 1)

-----------------------------------------------------------------------------
(* The stages of an attempt: has a stage a deadline, and does the attempt  *)
(* succeed although the stage fails? The opening of a tunnel is the TLS    *)
(* handshake and the header that asks for it.                              *)

Stage(name, deadline, harmless) == [name |-> name, deadline |-> deadline, harmless |-> harmless]

(* The read deadline is set for the answer, not for what precedes it.      *)
EMMProxyTunnel ==
    <<Stage("dial", TRUE, FALSE), Stage("opening", FALSE, FALSE), Stage("answer", TRUE, FALSE)>>

EMMProxyBusiness == <<Stage("request", FALSE, FALSE), Stage("response", TRUE, FALSE)>>

EMMProxy2Tunnel ==
    <<Stage("dial", TRUE, FALSE), Stage("opening", FALSE, FALSE), Stage("answer", TRUE, FALSE)>>

EMMProxy2Download == <<Stage("request", FALSE, FALSE), Stage("response", TRUE, FALSE)>>

EMMProxy2Body == <<Stage("body", TRUE, FALSE)>>

(* One deadline for the whole connection is set before the handshake.      *)
TLSTestTunnel ==
    <<Stage("dial", TRUE, FALSE), Stage("opening and answer", TRUE, FALSE)>>

(* What it returns is not looked at.                                       *)
TLSTestBusiness == <<Stage("request", TRUE, TRUE), Stage("response", TRUE, TRUE)>>

QUICAuth == <<Stage("dial", TRUE, FALSE)>>

QUICSend == <<Stage("request", TRUE, FALSE)>>

(* A body that is no JSON is an answer.                                    *)
QUICAnswer == <<Stage("answer", TRUE, FALSE)>>

(* An answer without a token, or a token that cannot be saved, is logged.  *)
QUICToken == <<Stage("stat", TRUE, TRUE), Stage("append", TRUE, TRUE)>>

KerberosLogin == <<Stage("login", TRUE, FALSE)>>

(* How a tool makes its attempts: for a time, or a number of them; by a    *)
(* channel and a pool, or by goroutines behind a semaphore; with a record  *)
(* of each in the result file or without one.                              *)
Kind(timed, pooled, recorded, stages) ==
    [timed |-> timed, pooled |-> pooled, recorded |-> recorded, stages |-> stages]

EMMProxyRun == Kind(TRUE, TRUE, TRUE, EMMProxyTunnel \o EMMProxyBusiness)

EMMProxy2Run == Kind(FALSE, TRUE, FALSE, EMMProxy2Tunnel \o EMMProxy2Download \o EMMProxy2Body)

TLSTestRun == Kind(TRUE, FALSE, FALSE, TLSTestTunnel \o TLSTestBusiness)

QUICClientRun == Kind(TRUE, FALSE, FALSE, QUICAuth \o QUICSend \o QUICAnswer \o QUICToken)

(* processAuthRequests                                                     *)
KerberosRun == Kind(FALSE, FALSE, FALSE, KerberosLogin)

KindOfTool(name) ==
    CASE name = "EMMProxy"    -> EMMProxyRun
      [] name = "EMMProxy-2"  -> EMMProxy2Run
      [] name = "TLS-Test"    -> TLSTestRun
      [] name = "quic-client" -> QUICClientRun
      [] name = "sgp-xcad"    -> KerberosRun

kind == KindOfTool(tool.name)

MaxRetries == 3

AttemptRecord ==
    [at: {"none", "queued", "running", "recording", "counting", "releasing", "leaving", "done"},
     stage: 1..8, ok: BOOLEAN, tries: 1..MaxRetries, empty: BOOLEAN]

NoAttempt == [at |-> "none", stage |-> 1, ok |-> FALSE, tries |-> 1, empty |-> FALSE]

ToolTypeOK ==
    /\ tool \in Tools
    /\ toolMain \in {"loop", "sending", "waiting", "reported", "ended"}
    /\ expired \in BOOLEAN
    /\ queue \in Seq(Tasks) /\ Len(queue) <= 2 * tool.clients
    /\ attempt \in [Tasks -> AttemptRecord]
    /\ counts \in [success: 0..MaxTasks, fail: 0..MaxTasks]
    /\ tokens \in Seq({"token_id", "token"})
    /\ WriterTypeOK(Tasks)

(* The file of tokens of an earlier run is continued. The result file may  *)
(* be disabled or fail to open.                                            *)
ToolInit ==
    /\ tool \in Tools
    /\ toolMain = "loop" /\ expired = FALSE /\ queue = <<>>
    /\ attempt = [i \in Tasks |-> NoAttempt]
    /\ counts = [success |-> 0, fail |-> 0]
    /\ tokens \in IF tool.name = "quic-client" THEN {<<>>, <<"token_id", "token">>} ELSE {<<>>}
    /\ WriterInit(Tasks, IF kind.recorded THEN {"off", "running"} ELSE {"off"})

InState(states) == {i \in Tasks : attempt[i].at \in states}

(* Tasks are numbered in the order they are handed out.                    *)
Sent == Cardinality(Tasks \ InState({"none"}))

Moves(i, at) == attempt' = [attempt EXCEPT ![i].at = at]

-----------------------------------------------------------------------------
(* The main goroutine *)

(* A tool that runs for a time looks at the clock before each attempt; at  *)
(* the bound it stops as if its time had passed.                           *)
Decide ==
    /\ toolMain = "loop"
    /\ toolMain' = IF (kind.timed /\ expired) \/ Sent = tool.tasks THEN "waiting" ELSE "sending"
    /\ UNCHANGED <<expired, queue, attempt, counts, tokens, writerVars>>

(* Mutation: the channel is taken to be unbounded.                         *)
EnqueueAnyway ==
    /\ toolMain = "sending" /\ kind.pooled
    /\ queue' = Append(queue, Sent)
    /\ Moves(Sent, "queued")
    /\ toolMain' = "loop"
    /\ UNCHANGED <<expired, counts, tokens, writerVars>>

(* taskChan <- Task{...}                                                   *)
Enqueue ==
    /\ toolMain = "sending" /\ kind.pooled
    /\ Len(queue) < 2 * tool.clients
    /\ queue' = Append(queue, Sent)
    /\ Moves(Sent, "queued")
    /\ toolMain' = "loop"
    /\ UNCHANGED <<expired, counts, tokens, writerVars>>

(* semaphore <- struct{}{}, and the goroutine                              *)
Spawn ==
    /\ toolMain = "sending" /\ ~kind.pooled
    /\ Cardinality(InState({"running", "counting", "releasing"})) < tool.clients
    /\ Moves(Sent, "running")
    /\ toolMain' = "loop"
    /\ UNCHANGED <<expired, queue, counts, tokens, writerVars>>

(* Mutation: attempts that have given their place back are not waited for. *)
ReportEarly ==
    /\ toolMain = "waiting"
    /\ InState({"queued", "running", "recording"}) = {}
    /\ toolMain' = "reported"
    /\ UNCHANGED <<expired, queue, attempt, counts, tokens, writerVars>>

(* wg.Wait, and the report. The channel is closed by then: a worker leaves *)
(* when it is empty.                                                       *)
Report ==
    /\ toolMain = "waiting"
    /\ InState({"queued", "running", "recording", "counting", "releasing", "leaving"}) = {}
    /\ toolMain' = "reported"
    /\ UNCHANGED <<expired, queue, attempt, counts, tokens, writerVars>>

(* The deferred Close of the result file.                                  *)
CloseFile ==
    /\ toolMain = "reported"
    /\ \/ StopWriter /\ UNCHANGED toolMain
       \/ writer \in {"off", "closed"} /\ toolMain' = "ended" /\ UNCHANGED writerVars
    /\ UNCHANGED <<expired, queue, attempt, counts, tokens>>

Main == Decide \/ Enqueue \/ Spawn \/ Report \/ CloseFile

Expire ==
    /\ kind.timed /\ ~expired
    /\ expired' = TRUE
    /\ UNCHANGED <<toolMain, queue, attempt, counts, tokens, writerVars>>
-----------------------------------------------------------------------------
(* An attempt *)

Busy == InState({"running", "recording", "counting"})

(* A worker takes the next task.                                           *)
Take(i) ==
    /\ queue # <<>> /\ Head(queue) = i
    /\ Cardinality(Busy) < tool.clients
    /\ queue' = Tail(queue)
    /\ Moves(i, "running")
    /\ UNCHANGED <<toolMain, expired, counts, tokens, writerVars>>

Now(i) == kind.stages[attempt[i].stage]

In(i, name) == attempt[i].at = "running" /\ Now(i).name = name

(* The attempt is over: EMMProxy records it, whichever way it ended.       *)
Over(i, ok) ==
    [NoAttempt EXCEPT !.ok = ok, !.at = IF kind.recorded THEN "recording" ELSE "counting"]

(* The attempt after a stage that went well.                               *)
Further(i) == IF attempt[i].stage = Len(kind.stages)
                 THEN Over(i, TRUE)
                 ELSE [attempt[i] EXCEPT !.stage = @ + 1]

Passes(i) ==
    /\ attempt[i].at = "running" /\ Now(i).name \notin {"stat", "append"}
    /\ attempt' = [attempt EXCEPT ![i] = Further(i)]
    /\ UNCHANGED <<toolMain, expired, queue, counts, tokens, writerVars>>

(* The first client of EMMProxy dials three times.                         *)
DialsAgain(i) ==
    /\ tool.name = "EMMProxy" /\ i = 0 /\ In(i, "dial") /\ attempt[i].tries < MaxRetries
    /\ attempt' = [attempt EXCEPT ![i].tries = @ + 1]
    /\ UNCHANGED <<toolMain, expired, queue, counts, tokens, writerVars>>

Fails(i) ==
    /\ attempt[i].at = "running"
    /\ (tool.name = "EMMProxy" /\ i = 0 /\ In(i, "dial")) => attempt[i].tries = MaxRetries
    /\ attempt' = [attempt EXCEPT ![i] = Over(i, Now(i).harmless)]
    /\ UNCHANGED <<toolMain, expired, queue, counts, tokens, writerVars>>

(* Is the file of tokens, opened for appending, still empty?               *)
StatTokens(i) ==
    /\ In(i, "stat")
    /\ attempt' = [attempt EXCEPT ![i] = [Further(i) EXCEPT !.empty = (tokens = <<>>)]]
    /\ UNCHANGED <<toolMain, expired, queue, counts, tokens, writerVars>>

(* Its lines are flushed together.                                         *)
AppendToken(i) ==
    /\ In(i, "append")
    /\ tokens' = tokens \o (IF attempt[i].empty THEN <<"token_id">> ELSE <<>>) \o <<"token">>
    /\ attempt' = [attempt EXCEPT ![i] = Further(i)]
    /\ UNCHANGED <<toolMain, expired, queue, counts, writerVars>>

Record(i) ==
    /\ attempt[i].at = "recording"
    /\ WriteResult(i)
    /\ Moves(i, "counting")
    /\ UNCHANGED <<toolMain, expired, queue, counts, tokens>>

Counted(i) == IF attempt[i].ok THEN [counts EXCEPT !.success = @ + 1]
                               ELSE [counts EXCEPT !.fail = @ + 1]

updateStats(i) ==
    /\ attempt[i].at = "counting"
    /\ counts' = Counted(i)
    /\ Moves(i, IF kind.pooled THEN "done" ELSE "releasing")
    /\ UNCHANGED <<toolMain, expired, queue, tokens, writerVars>>

(* The deferred calls of a goroutine, the last one first.                  *)
ReleaseSemaphore(i) ==
    /\ attempt[i].at = "releasing"
    /\ Moves(i, "leaving")
    /\ UNCHANGED <<toolMain, expired, queue, counts, tokens, writerVars>>

GroupDone(i) ==
    /\ attempt[i].at = "leaving"
    /\ Moves(i, "done")
    /\ UNCHANGED <<toolMain, expired, queue, counts, tokens, writerVars>>

Converse(i) ==
    \/ Passes(i) \/ DialsAgain(i) \/ Fails(i)
    \/ StatTokens(i) \/ AppendToken(i)

Account(i) == Record(i) \/ updateStats(i) \/ ReleaseSemaphore(i) \/ GroupDone(i)

Steps ==
    \/ Main \/ Expire
    \/ \E i \in Tasks : Take(i) \/ Converse(i) \/ Account(i)
    \/ WriteLoop /\ UNCHANGED coreVars

ToolNext == Steps /\ UNCHANGED tool

ToolSpec == ToolInit /\ [][ToolNext]_toolVars

-----------------------------------------------------------------------------
(* Goroutines that can run do, and a stage with a deadline ends. One that  *)
(* has none may last for ever.                                             *)

Bounded(i) == attempt[i].at = "running" /\ Now(i).deadline

Stuck(i) == attempt[i].at = "running" /\ ~Now(i).deadline

ToolFairness ==
    /\ WF_toolVars(Main /\ UNCHANGED tool) /\ WF_toolVars(Expire /\ UNCHANGED tool)
    /\ WF_toolVars(WriteLoop /\ UNCHANGED <<tool, coreVars>>)
    /\ \A i \in Tasks :
          WF_toolVars((Take(i) \/ Account(i) \/ (Bounded(i) /\ Converse(i))) /\ UNCHANGED tool)

-----------------------------------------------------------------------------
(* Properties *)

(* What is reported is what was attempted: every attempt that was handed   *)
(* out is in one of the counters when main prints them, as it ended.       *)
EveryAttemptIsReported ==
    toolMain \in {"reported", "ended"} =>
        /\ counts.success = Cardinality({i \in Tasks : attempt[i].ok})
        /\ counts.success + counts.fail = Sent

(* What a tool leaves in a file agrees with what it reports. The result    *)
(* file of EMMProxy and its counters differ by exactly the results it      *)
(* dropped or lost, and no result is in the file twice. The file of tokens *)
(* of quic-client starts with its title, whoever else appends to it; that  *)
(* may be there again, but not more often than there are clients.          *)
FilesAgreeWithReport ==
    /\ writer = "closed" =>
          /\ \A i \in Tasks : file[i] <= 1
          /\ Cardinality({i \in Tasks : file[i] = 1}) + missed.dropped + missed.lost
                = counts.success + counts.fail
    /\ tokens # <<>> => tokens[1] = "token_id"
    /\ Cardinality({n \in DOMAIN tokens : tokens[n] = "token_id"}) <= tool.clients

(* TLS-Test, quic-client and sgp-xcad have no stage without a deadline.     *)
AnyStuck == \E i \in Tasks : Stuck(i)
=============================================================================
