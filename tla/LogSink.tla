------------------------------- MODULE LogSink -------------------------------
(***************************************************************************)
(* The logger of SPA-test-server (asyncLogSink): a handler puts its line   *)
(* into a bounded queue without waiting and counts it when the queue is    *)
(* full; one goroutine moves the lines to a buffer, writes a summary of    *)
(* the lines that were dropped and flushes, at every tick and at the end.  *)
(* A line is one of a count. The buffer is written out at a flush, not     *)
(* when it is full. The code ignores errors of the file, and the buffer    *)
(* takes and discards whatever comes after one; a flush that fails counts  *)
(* as lost as a whole, although the file may have taken some of it.        *)
(***************************************************************************)
EXTENDS Naturals

CONSTANT QueueSize      \* lines that wait for the goroutine

ASSUME SinkAssumption == QueueSize \in Nat \ {0}

VARIABLE sink

(* The levels of lines and of the configuration.                           *)
LevelOf == [debug |-> 0, info |-> 1, warn |-> 2, error |-> 3]

NoLines == [lines |-> 0, dropped |-> 0]

newAsyncLogSink ==
    [closed |-> FALSE, done |-> FALSE, offered |-> 0, refused |-> 0,
     queue |-> 0, dropped |-> 0, buffered |-> NoLines, file |-> NoLines,
     broken |-> FALSE, lost |-> 0]

-----------------------------------------------------------------------------
(* Write of one line: never waits. The read lock keeps Close out.          *)
Written(s) ==
    IF s.closed
       THEN [s EXCEPT !.offered = @ + 1, !.refused = @ + 1]
       ELSE IF s.queue < QueueSize
               THEN [s EXCEPT !.offered = @ + 1, !.queue = @ + 1]
               ELSE [s EXCEPT !.offered = @ + 1, !.dropped = @ + 1]

(* A line of a level, which the handler passes on if it is enabled.        *)
Handle(s, level, enabled) == IF LevelOf[level] >= LevelOf[enabled] THEN Written(s) ELSE s

Closed(s) == [s EXCEPT !.closed = TRUE]

(* dropped.Swap(0): the summary is a line that stands for the dropped.     *)
writeDroppedSummary(s) ==
    [s EXCEPT !.buffered.dropped = @ + s.dropped, !.dropped = 0]

Stored(s) ==
    [s EXCEPT !.file = [lines |-> @.lines + s.buffered.lines,
                        dropped |-> @.dropped + s.buffered.dropped],
              !.buffered = NoLines]

(* The error of the file stays with the buffer.                            *)
Lost(s) ==
    [s EXCEPT !.broken = TRUE, !.lost = @ + s.buffered.lines + s.buffered.dropped,
              !.buffered = NoLines]

(* What a flush can come to; an empty buffer is not written.               *)
Flush(s) ==
    IF s.buffered = NoLines THEN {s}
       ELSE IF s.broken THEN {Lost(s)} ELSE {Stored(s), Lost(s)}

(* One turn of the goroutine.                                              *)
TakeLine ==
    /\ ~sink.done /\ sink.queue > 0
    /\ sink' = [sink EXCEPT !.queue = @ - 1, !.buffered.lines = @ + 1]

FlushTick ==
    /\ ~sink.done
    /\ sink' \in Flush(writeDroppedSummary(sink))

(* Mutation: the goroutine leaves as soon as the channel is closed.        *)
EndsAtOnce ==
    /\ sink.closed /\ ~sink.done
    /\ \E s \in Flush(writeDroppedSummary(sink)) : sink' = [s EXCEPT !.done = TRUE]

(* A closed channel first gives the lines that are still in it.            *)
EndsDrained ==
    /\ sink.closed /\ ~sink.done /\ sink.queue = 0
    /\ \E s \in Flush(writeDroppedSummary(sink)) : sink' = [s EXCEPT !.done = TRUE]

run == TakeLine \/ FlushTick \/ EndsDrained

(* Every line that was offered is in one place.                            *)
LinesAddUp ==
    sink.offered = sink.refused + sink.queue + sink.dropped
                      + sink.buffered.lines + sink.buffered.dropped
                      + sink.file.lines + sink.file.dropped + sink.lost
=============================================================================
