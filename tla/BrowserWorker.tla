---------------------------- MODULE BrowserWorker ----------------------------
(***************************************************************************)
(* The browser workers and the pipes to them: the Node process that opens  *)
(* and closes browser sessions one message after the other (worker.mjs),   *)
(* the goroutine that hands its messages to the calls that wait for them,  *)
(* and the closing of a worker (browser.ProcessClient).                    *)
(***************************************************************************)
EXTENDS Naturals, Sequences

CONSTANTS
    Jobs,
    Size,           \* the slots of the pool
    Generations,    \* bound: the workers a slot may get, one after the other
    MaxTrouble,     \* bound: crashes, failing activities and shutdowns, broken pipes, retries
    None            \* no job: a message without an id

ASSUME SizeAssumption == Size \in Nat \ {0} /\ Generations \in Nat \ {0} /\ MaxTrouble \in Nat
ASSUME NoneAssumption == None \notin Jobs

Slots == 1..Size

(* A worker is named by its slot and by how many the slot had.             *)
Workers == Slots \X (1..Generations)

VARIABLES
    proc,       \* proc[w]: the process, its sessions, and its client
    input,      \* input[w]: what it has not read yet
    output,     \* output[w]: what was not read from it yet
    pending,    \* pending[w]: the messages waiting for each registered call
    trouble     \* how many things went wrong or were tried again

workerVars == <<proc, input, output, pending, trouble>>

(* "of" is the job that an error is about, which no code reads; "type" and *)
(* "id" are the fields of the protocol.                                    *)
MessageTypes == {"start", "stop", "shutdown", "started", "stopped", "error", "fatal"}

Message == [type: MessageTypes, id: Jobs \cup {None}, of: Jobs \cup {None}]

Msg(type, j) == [type |-> type, id |-> j, of |-> j]

(* handleMessage threw: the error is sent without the id of the job.       *)
Thrown(j) == [type |-> "error", id |-> None, of |-> j]

(* "shut": how far Close has come; "busy": the start in progress; "left":  *)
(* jobs with a context of the browser that no session is registered for;   *)
(* "held": the jobs that had a session, whose heartbeats may fill their    *)
(* channel; "stuck": nothing is read any more, and something keeps it up.  *)
States == {"absent", "alive", "dead"}
Shuts == {"open", "marked", "sent", "eof"}

Process == [state: States, shut: Shuts, reader: BOOLEAN, busy: Jobs \cup {None},
            sessions: SUBSET Jobs, left: SUBSET Jobs, held: SUBSET Jobs, stuck: BOOLEAN]

NoProcess == [state |-> "absent", shut |-> "open", reader |-> FALSE, busy |-> None,
              sessions |-> {}, left |-> {}, held |-> {}, stuck |-> FALSE]

NewProcess == [NoProcess EXCEPT !.state = "alive", !.reader = TRUE]

NoCalls == [j \in {} |-> <<>>]

WorkerTypeOK ==
    /\ proc \in [Workers -> Process]
    /\ input \in [Workers -> Seq(Message)] /\ output \in [Workers -> Seq(Message)]
    /\ \A w \in Workers :
          DOMAIN pending[w] \subseteq Jobs /\ \A j \in DOMAIN pending[w] : pending[w][j] \in Seq(Message)
    /\ trouble \in 0..MaxTrouble

(* Some workers could be started with the pool.                            *)
WorkerInit(ready) ==
    /\ proc = [w \in Workers |-> IF w \in ready THEN NewProcess ELSE NoProcess]
    /\ input = [w \in Workers |-> <<>>] /\ output = [w \in Workers |-> <<>>]
    /\ pending = [w \in Workers |-> NoCalls]
    /\ trouble = 0

Alive(w) == proc[w].state = "alive"

Trouble == trouble < MaxTrouble /\ trouble' = trouble + 1

-----------------------------------------------------------------------------
(* The process: one message at a time *)

Emit(w, m) == output' = [output EXCEPT ![w] = Append(@, m)]

Reads(w, type) ==
    /\ Alive(w) /\ proc[w].busy = None
    /\ input[w] # <<>> /\ Head(input[w]).type = type
    /\ input' = [input EXCEPT ![w] = Tail(@)]

StartTaken(w) ==
    /\ Reads(w, "start")
    /\ LET j == Head(input[w]).id
       IN  IF j \in proc[w].sessions
              THEN Emit(w, Thrown(j)) /\ UNCHANGED proc
              ELSE proc' = [proc EXCEPT ![w].busy = j] /\ UNCHANGED output
    /\ UNCHANGED <<pending, trouble>>

(* The page is ready, or something on the way to it failed: what fails     *)
(* after newContext leaves the context open, and no session to close it.   *)
StartEnds(w) ==
    /\ Alive(w) /\ proc[w].busy # None
    /\ LET j == proc[w].busy
       IN  \/ /\ proc' = [proc EXCEPT ![w].busy = None, ![w].sessions = @ \cup {j},
                                      ![w].held = @ \cup {j}]
              /\ Emit(w, Msg("started", j))
           \/ /\ \E leaves \in SUBSET {j} :
                    proc' = [proc EXCEPT ![w].busy = None, ![w].left = @ \cup leaves]
              /\ Emit(w, Thrown(j))
    /\ UNCHANGED <<input, pending, trouble>>

(* Mutation: the session of the job stays open.                            *)
StopAnswered(w) ==
    /\ Reads(w, "stop")
    /\ Emit(w, Msg("stopped", Head(input[w]).id))
    /\ UNCHANGED <<proc, pending, trouble>>

(* A session that is not there is stopped; closing the context of one that *)
(* is may throw, when its session is no longer registered.                 *)
StopTaken(w) ==
    /\ Reads(w, "stop")
    /\ LET j == Head(input[w]).id
       IN  \/ /\ proc' = [proc EXCEPT ![w].sessions = @ \ {j}]
              /\ Emit(w, Msg("stopped", j))
           \/ /\ j \in proc[w].sessions
              /\ \E leaves \in SUBSET {j} :
                    proc' = [proc EXCEPT ![w].sessions = @ \ {j}, ![w].left = @ \cup leaves]
              /\ Emit(w, Thrown(j))
    /\ UNCHANGED <<pending, trouble>>

(* One session after the other is stopped, and the browser closed with all *)
(* its contexts. Its answer has no id and means nothing to the calls.      *)
ShutdownTaken(w) ==
    /\ Reads(w, "shutdown")
    /\ proc' = [proc EXCEPT ![w].sessions = {}, ![w].left = {}]
    /\ UNCHANGED <<output, pending, trouble>>

(* What throws on the way leaves the rest as it is, and of the session     *)
(* that was being stopped perhaps its context.                             *)
PartlyClosed(w, stuck) ==
    \E gone \in SUBSET proc[w].sessions :
        /\ gone = {} => proc[w].sessions = {}
        /\ \E leaves \in {{}} \cup {{j} : j \in gone} :
              proc' = [proc EXCEPT ![w].sessions = @ \ gone, ![w].left = @ \cup leaves,
                                   ![w].stuck = stuck]

ShutdownFails(w) ==
    /\ Reads(w, "shutdown") /\ Trouble
    /\ PartlyClosed(w, FALSE)
    /\ Emit(w, Thrown(None))
    /\ UNCHANGED pending

Ended(w) == [proc[w] EXCEPT !.state = "dead", !.busy = None, !.sessions = {}, !.left = {},
                            !.stuck = FALSE]

(* At the end of its input it shuts down a second time.                    *)
InputEnded(w) ==
    /\ Alive(w) /\ proc[w].busy = None /\ ~proc[w].stuck
    /\ proc[w].shut = "eof" /\ input[w] = <<>>

Exit(w) ==
    /\ InputEnded(w)
    /\ proc' = [proc EXCEPT ![w] = Ended(w)]
    /\ UNCHANGED <<input, output, pending, trouble>>

(* That throws: only the exit code is set, so that the intervals of        *)
(* sessions, or a browser that did not close, keep the process up.         *)
EndFails(w) ==
    /\ InputEnded(w) /\ Trouble
    /\ PartlyClosed(w, TRUE) \/ proc' = [proc EXCEPT ![w] = Ended(w)]
    /\ Emit(w, Msg("fatal", None))
    /\ UNCHANGED <<input, pending>>

Crash(w) ==
    /\ Alive(w) /\ Trouble
    /\ proc' = [proc EXCEPT ![w] = Ended(w)]
    /\ input' = [input EXCEPT ![w] = <<>>]
    /\ UNCHANGED <<output, pending>>

(* The activity of a session fails, also one that was in progress when the *)
(* session was stopped; otherwise its interval goes on.                    *)
ActivityFails(w) ==
    /\ Alive(w) /\ Trouble
    /\ \E j \in proc[w].held : Emit(w, Msg("error", j))
    /\ UNCHANGED <<proc, input, pending>>

Node(w) == StartTaken(w) \/ StartEnds(w) \/ StopTaken(w) \/ ShutdownTaken(w) \/ Exit(w)

-----------------------------------------------------------------------------
(* The goroutine that reads its output *)

(* Every recipient gets the message, unless its channel is full: that      *)
(* takes heartbeats, which are not messages here.                          *)
Offer(w, m, recipients) ==
    \E lost \in SUBSET (recipients \cap proc[w].held) :
        /\ m.type = "started" => lost = {}
        /\ pending' = [pending EXCEPT ![w] =
              [j \in DOMAIN @ |-> IF j \in recipients \ lost THEN Append(@[j], m) ELSE @[j]]]

(* A message with an id is for its job, one without for everyone.          *)
Recipients(w, m) ==
    {j \in DOMAIN pending[w] : m.id \in {j, None}}

Deliver(w) ==
    /\ proc[w].reader /\ output[w] # <<>>
    /\ Offer(w, Head(output[w]), Recipients(w, Head(output[w])))
    /\ output' = [output EXCEPT ![w] = Tail(@)]
    /\ UNCHANGED <<proc, input, trouble>>

ReaderLeaves(w) ==
    /\ proc[w].reader
    /\ proc' = [proc EXCEPT ![w].reader = FALSE, ![w].held = {}]
    /\ output' = [output EXCEPT ![w] = <<>>]
    /\ Offer(w, Msg("fatal", None), DOMAIN pending[w])
    /\ UNCHANGED input

(* The output ends with the process; the Wait of a Close may cut it short. *)
ReaderEnds(w) ==
    /\ proc[w].state = "dead" /\ (output[w] = <<>> \/ proc[w].shut = "eof")
    /\ ReaderLeaves(w) /\ UNCHANGED trouble

(* A line that is too long or is not JSON.                                 *)
ReaderFails(w) == Alive(w) /\ Trouble /\ ReaderLeaves(w)

-----------------------------------------------------------------------------
(* The client's side of the pipes *)

(* A message is written unless the pipe is closed at one of its ends.      *)
Writable(w) == Alive(w) /\ proc[w].shut # "eof"

Written(w, m) == input' = [input EXCEPT ![w] = IF Writable(w) THEN Append(@, m) ELSE @]

(* Close, from the flag on: the shutdown, and the end of the input.        *)
SendShutdown(w) ==
    /\ proc[w].shut = "marked"
    /\ proc' = [proc EXCEPT ![w].shut = "sent"]
    /\ Written(w, Msg("shutdown", None))
    /\ UNCHANGED <<output, pending, trouble>>

(* Mutation: the input is not closed.                                      *)
InputLeftOpen(w) == FALSE

CloseInput(w) ==
    /\ proc[w].shut = "sent"
    /\ proc' = [proc EXCEPT ![w].shut = "eof"]
    /\ UNCHANGED <<input, output, pending, trouble>>

(* Its Wait returns.                                                       *)
WaitReturns(w) == proc[w].shut = "eof" /\ proc[w].state = "dead"

Reader(w) == Deliver(w) \/ ReaderEnds(w)
Closing(w) == SendShutdown(w) \/ CloseInput(w)
Faulty(w) == ShutdownFails(w) \/ EndFails(w) \/ Crash(w) \/ ActivityFails(w) \/ ReaderFails(w)

WorkerStep == \E w \in Workers : Node(w) \/ Reader(w) \/ Closing(w) \/ Faulty(w)
=============================================================================
