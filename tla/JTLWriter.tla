------------------------------ MODULE JTLWriter ------------------------------
(***************************************************************************)
(* The result file of EMMProxy (JTLWriter): attempts offer their result to *)
(* a channel without ever waiting, one goroutine collects batches, writes  *)
(* them on a tick or when one is full, and drains the channel at the end.  *)
(***************************************************************************)
EXTENDS Naturals, Sequences, FiniteSets

CONSTANTS
    BufferSize,     \* the capacity of the channel
    BatchSize       \* results that make a batch

WriterAssumption == BufferSize \in Nat \ {0} /\ BatchSize \in Nat \ {0}

VARIABLES
    results,    \* the channel
    batch,      \* what was taken from it and not written
    file,       \* file[r]: how many lines of the file are result r
    missed,     \* what is in no line: dropped at the channel, or lost with a batch
    writer      \* "off": without a file; "draining": told to stop

writerVars == <<results, batch, file, missed, writer>>

WriterTypeOK(Result) ==
    /\ results \in Seq(Result) /\ batch \in Seq(Result) /\ file \in [Result -> Nat]
    /\ Len(results) <= BufferSize /\ Len(batch) < BatchSize
    /\ missed \in [dropped : Nat, lost : Nat]
    /\ writer \in {"off", "running", "draining", "closed"}

WriterInit(Result, states) ==
    /\ results = <<>> /\ batch = <<>> /\ file = [r \in Result |-> 0]
    /\ missed = [dropped |-> 0, lost |-> 0]
    /\ writer \in states

(* A result that finds the channel full is dropped.                        *)
WriteResult(r) ==
    /\ IF writer = "off" THEN UNCHANGED <<results, missed>>
       ELSE IF Len(results) < BufferSize
               THEN results' = Append(results, r) /\ UNCHANGED missed
               ELSE missed' = [missed EXCEPT !.dropped = @ + 1] /\ UNCHANGED results
    /\ UNCHANGED <<batch, file, writer>>

(* The batch is emptied whether or not it could be written.                *)
flushBuffer(lines) ==
    /\ batch' = <<>>
    /\ \/ /\ file' = [r \in DOMAIN file |->
                       file[r] + Cardinality({n \in DOMAIN lines : lines[n] = r})]
          /\ UNCHANGED missed
       \/ missed' = [missed EXCEPT !.lost = @ + Len(lines)] /\ UNCHANGED file

(* The next result, while the writer runs as when it drains.               *)
Collect ==
    /\ writer \in {"running", "draining"} /\ results # <<>>
    /\ results' = Tail(results)
    /\ LET lines == Append(batch, Head(results))
       IN  IF Len(lines) >= BatchSize
              THEN flushBuffer(lines)
              ELSE batch' = lines /\ UNCHANGED <<file, missed>>
    /\ UNCHANGED writer

(* Told to stop, the goroutine may still see a tick before it sees that.   *)
Tick ==
    /\ writer \in {"running", "draining"} /\ batch # <<>>
    /\ flushBuffer(batch)
    /\ UNCHANGED <<results, writer>>

(* Close tells the goroutine to stop.                                      *)
StopWriter ==
    /\ writer = "running"
    /\ writer' = "draining"
    /\ UNCHANGED <<results, batch, file, missed>>

(* Mutation: what is in the channel when the writer stops is left there.   *)
StoppedAtOnce ==
    /\ writer = "draining"
    /\ flushBuffer(batch)
    /\ writer' = "closed"
    /\ UNCHANGED results

(* The channel is empty: what is left is written, and Close returns.       *)
Drained ==
    /\ writer = "draining" /\ results = <<>>
    /\ flushBuffer(batch)
    /\ writer' = "closed"
    /\ UNCHANGED results

WriteLoop == Collect \/ Tick \/ Drained
=============================================================================
