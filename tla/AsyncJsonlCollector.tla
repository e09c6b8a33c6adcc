------------------------ MODULE AsyncJsonlCollector ------------------------
(***************************************************************************)
(* The feature recorder of the inference API                               *)
(* (src/AI/data_collection/collector.py): requests put validated snapshots *)
(* into a bounded queue and one writer thread appends them to              *)
(* features.jsonl, until stop() has it drain the queue and write           *)
(* collection_summary.json.                                                *)
(*                                                                         *)
(* A record is its collection_sequence_id.  A block under self._lock is    *)
(* one step; the writer's get, its counters and its file operations are    *)
(* steps of their own.  Partial is a line of which only a part got out.    *)
(***************************************************************************)
EXTENDS Integers, Sequences

CONSTANTS
    QueueCapacity,   \* config.queue_capacity
    MaxAttempts      \* bound: calls of try_collect

ASSUME QueueAssumption == QueueCapacity \in Nat \ {0} /\ MaxAttempts \in Nat

VARIABLES
    queue, accepting, stopRequested, in_flight,
    stats,
    writer, record,   \* the writer thread: its step and the record it holds
    closing,          \* the writer has come to stream.close
    buffer, disk,     \* lines in the stream's buffer, lines in the file
    stopPc, stopResult,
    summary,          \* collection_summary.json
    snapshot          \* the status the writer computes it from

shared == <<queue, accepting, stopRequested, in_flight, stats>>
files == <<buffer, disk, summary, snapshot>>
vars == <<shared, writer, record, closing, files, stopPc, stopResult>>

Partial == 0
NoSummary == [attempted |-> 0, complete |-> FALSE]

-----------------------------------------------------------------------------
Init ==
    /\ queue = <<>> /\ accepting = TRUE /\ stopRequested = FALSE
    /\ in_flight = 0
    /\ stats = [attempted |-> 0, enqueued |-> 0, written |-> 0, flushed |-> 0,
                dropped_full |-> 0, dropped_closed |-> 0, dropped_failed |-> 0,
                failed_records |-> 0,
                write_error |-> FALSE, summary_error |-> FALSE,
                shutdown_timed_out |-> FALSE, shutdown_complete |-> FALSE,
                state |-> "running"]
    /\ writer = "loop" /\ record = Partial /\ closing = FALSE
    /\ buffer = <<>> /\ disk = <<>>
    /\ stopPc = "idle" /\ stopResult = "none"
    /\ summary = NoSummary /\ snapshot = NoSummary

\* try_collect, by any request thread.  It never waits and never fails.
try_collect ==
    LET id == stats.attempted + 1
        fate == IF stats.write_error THEN "dropped_failed"
                   ELSE IF ~accepting THEN "dropped_closed"
                   ELSE IF Len(queue) = QueueCapacity THEN "dropped_full"
                   ELSE "enqueued"
    IN  /\ stats.attempted < MaxAttempts
        /\ stats' = [stats EXCEPT !.attempted = id, ![fate] = @ + 1]
        /\ queue' = IF fate = "enqueued" THEN Append(queue, id) ELSE queue
        /\ UNCHANGED <<accepting, stopRequested, in_flight, writer, record,
                       closing, files, stopPc, stopResult>>

-----------------------------------------------------------------------------
(* stop *)

StopGoto(from, to) ==
    /\ stopPc = from /\ stopPc' = to
    /\ UNCHANGED <<queue, in_flight, writer, record, closing, files>>

StopCloses ==
    /\ StopGoto("idle", "set")
    /\ accepting' = FALSE
    /\ stats' = [stats EXCEPT !.state = IF @ = "running" THEN "stopping" ELSE @]
    /\ UNCHANGED <<stopRequested, stopResult>>

StopSets ==
    /\ StopGoto("set", "join")
    /\ stopRequested' = TRUE
    /\ UNCHANGED <<accepting, stats, stopResult>>

\* The join times out while the writer is alive ...
StopTimesOut ==
    /\ StopGoto("join", "late")
    /\ writer # "ended"
    /\ UNCHANGED <<accepting, stopRequested, stats, stopResult>>

\* ... and the timeout is recorded afterwards, under the lock.
StopRecordsTimeout ==
    /\ StopGoto("late", "returned")
    /\ stats' = [stats EXCEPT !.shutdown_timed_out = TRUE]
    /\ stopResult' = "false"
    /\ UNCHANGED <<accepting, stopRequested>>

StopJoins ==
    /\ StopGoto("join", "returned")
    /\ writer = "ended"
    /\ stopResult' = IF /\ stats.shutdown_complete
                        /\ ~stats.shutdown_timed_out
                        /\ ~stats.summary_error
                     THEN "true" ELSE "false"
    /\ UNCHANGED <<accepting, stopRequested, stats>>

-----------------------------------------------------------------------------
(* _run, the writer thread *)

WriterGoto(from, to) == writer = from /\ writer' = to

\* while not (stop_requested and queue.empty())
LoopTest ==
    /\ WriterGoto("loop", IF stopRequested /\ queue = <<>> THEN "lastFlush"
                          ELSE "get")
    /\ UNCHANGED <<shared, record, closing, files, stopPc, stopResult>>

\* queue.get with a timeout
GetRecord ==
    /\ WriterGoto("get", "mark")
    /\ queue # <<>>
    /\ record' = Head(queue) /\ queue' = Tail(queue)
    /\ UNCHANGED <<accepting, stopRequested, in_flight, stats, closing, files, stopPc,
                   stopResult>>

GetTimesOut ==
    /\ WriterGoto("get", "flushTest")
    /\ queue = <<>>
    /\ UNCHANGED <<shared, record, closing, files, stopPc, stopResult>>

MarkInFlight ==
    /\ WriterGoto("mark", "write")
    /\ in_flight' = 1
    /\ UNCHANGED <<queue, accepting, stopRequested, stats, record, closing, files,
                   stopPc, stopResult>>

\* _write_record and its counter.
WriteRecord ==
    /\ WriterGoto("write", "done")
    /\ buffer' = Append(buffer, record)
    /\ stats' = [stats EXCEPT !.written = @ + 1]
    /\ UNCHANGED <<queue, accepting, stopRequested, in_flight, record, closing, disk,
                   summary, snapshot, stopPc, stopResult>>

\* An error of json.dumps or of the stream, after none or part of the line.
WriteFails ==
    /\ WriterGoto("write", "doneFailed")
    /\ buffer' \in {buffer, Append(buffer, Partial)}
    /\ stats' = [stats EXCEPT !.failed_records = @ + 1]
    /\ UNCHANGED <<queue, accepting, stopRequested, in_flight, record, closing, disk,
                   summary, snapshot, stopPc, stopResult>>

\* finally: in_flight = 0, task_done; an exception goes on to _fail.
TaskDone ==
    /\ \/ WriterGoto("done", "flushTest")
       \/ WriterGoto("doneFailed", "fail")
    /\ in_flight' = 0 /\ record' = Partial
    /\ UNCHANGED <<queue, accepting, stopRequested, stats, closing, files, stopPc,
                   stopResult>>

\* next_flush is not reached.
NoFlushYet ==
    /\ WriterGoto("flushTest", "loop")
    /\ UNCHANGED <<shared, record, closing, files, stopPc, stopResult>>

\* _flush, when it is due and once at the end.
Flush ==
    /\ WriterGoto("flushTest", "loop") \/ WriterGoto("lastFlush", "close")
    /\ disk' = disk \o buffer /\ buffer' = <<>>
    /\ stats' = [stats EXCEPT !.flushed = stats.written]
    /\ UNCHANGED <<queue, accepting, stopRequested, in_flight, record, closing, summary,
                   snapshot, stopPc, stopResult>>

\* Lines that get out when a flush or a close fails half way.
SomeOfBuffer ==
    \E n \in 0..Len(buffer) :
        /\ disk' = disk \o SubSeq(buffer, 1, n)
        /\ buffer' = SubSeq(buffer, n + 1, Len(buffer))

FlushFails ==
    /\ WriterGoto("flushTest", "fail") \/ WriterGoto("lastFlush", "fail")
    /\ SomeOfBuffer
    /\ UNCHANGED <<shared, record, closing, summary, snapshot, stopPc, stopResult>>

\* _fail, after an error of the loop or of the close: no more records ...
Fail ==
    /\ WriterGoto("fail", "drain")
    /\ accepting' = FALSE
    /\ stats' = [stats EXCEPT !.write_error = TRUE, !.state = "failed"]
    /\ UNCHANGED <<queue, stopRequested, in_flight, record, closing, files,
                   stopPc, stopResult>>

\* ... and those in the queue are counted as failed, one by one.
DrainTakes ==
    /\ WriterGoto("drain", "count")
    /\ queue # <<>>
    /\ record' = Head(queue) /\ queue' = Tail(queue)
    /\ UNCHANGED <<accepting, stopRequested, in_flight, stats, closing, files,
                   stopPc, stopResult>>

DrainCounts ==
    /\ WriterGoto("count", "drain")
    /\ record' = Partial
    /\ stats' = [stats EXCEPT !.failed_records = @ + 1]
    /\ UNCHANGED <<queue, accepting, stopRequested, in_flight, closing, files,
                   stopPc, stopResult>>

\* Mutant: _fail does not empty the queue.
MutDrainEnds ==
    /\ WriterGoto("drain", IF closing THEN "finish" ELSE "close")
    /\ UNCHANGED <<shared, record, closing, files, stopPc, stopResult>>

DrainEnds ==
    /\ WriterGoto("drain", IF closing THEN "finish" ELSE "close")
    /\ queue = <<>>
    /\ UNCHANGED <<shared, record, closing, files, stopPc, stopResult>>

\* stream.close flushes what is left, or fails and goes to _fail.
CloseStream ==
    /\ closing' = TRUE
    /\ \/ /\ WriterGoto("close", "finish")
          /\ disk' = disk \o buffer /\ buffer' = <<>>
       \/ /\ WriterGoto("close", "fail")
          /\ SomeOfBuffer
    /\ UNCHANGED <<shared, record, summary, snapshot, stopPc, stopResult>>

Finish ==
    /\ WriterGoto("finish", "status")
    /\ accepting' = FALSE
    /\ stats' = IF stats.write_error THEN stats
                ELSE [stats EXCEPT !.state = "closed", !.shutdown_complete = TRUE]
    /\ UNCHANGED <<queue, stopRequested, in_flight, record, closing, files,
                   stopPc, stopResult>>

\* Mutant: refused records do not make a run incomplete.
MutComplete ==
    /\ stats.shutdown_complete /\ ~stats.shutdown_timed_out
    /\ stats.flushed = stats.enqueued

Complete ==
    /\ stats.shutdown_complete /\ ~stats.shutdown_timed_out
    /\ stats.flushed = stats.enqueued
    /\ \A c \in {"dropped_full", "dropped_closed", "dropped_failed",
                  "failed_records"} : stats[c] = 0

\* The status is taken under the lock, the file is written after it.
TakeStatus ==
    /\ WriterGoto("status", "summary")
    /\ snapshot' = [attempted |-> stats.attempted, complete |-> Complete]
    /\ UNCHANGED <<shared, record, closing, buffer, disk, summary, stopPc,
                   stopResult>>

WriteSummary ==
    /\ WriterGoto("summary", "ended")
    /\ summary' = snapshot
    /\ UNCHANGED <<shared, record, closing, buffer, disk, snapshot, stopPc,
                   stopResult>>

SummaryFails ==
    /\ WriterGoto("summary", "ended")
    /\ stats' = [stats EXCEPT !.summary_error = TRUE]
    /\ UNCHANGED <<queue, accepting, stopRequested, in_flight, record, closing,
                   files, stopPc, stopResult>>

-----------------------------------------------------------------------------
Stop == StopCloses \/ StopSets \/ StopTimesOut \/ StopRecordsTimeout \/ StopJoins

WriterStep ==
    \/ LoopTest \/ GetRecord \/ GetTimesOut \/ MarkInFlight
    \/ WriteRecord \/ WriteFails \/ TaskDone
    \/ NoFlushYet \/ Flush \/ FlushFails
    \/ Fail \/ DrainTakes \/ DrainCounts \/ DrainEnds
    \/ CloseStream \/ Finish \/ TakeStatus \/ WriteSummary \/ SummaryFails

Next == try_collect \/ Stop \/ WriterStep

Spec == Init /\ [][Next]_vars

\* The writer thread is scheduled and its file operations return; stop()
\* gets on once it has been called.
FairSpec ==
    /\ Spec
    /\ WF_vars(WriterStep)
    /\ WF_vars(StopSets \/ StopRecordsTimeout \/ StopJoins)

-----------------------------------------------------------------------------
(* Properties *)

\* A run that is called complete is complete: the file holds every attempt
\* made until then, in order, and no part of a line.  When stop() returns
\* True, the file holds every record that was enqueued.
CompleteIsOnDisk ==
    /\ summary.complete => disk = [i \in 1..summary.attempted |-> i]
    /\ stopResult = "true" =>
           Len(disk) = stats.enqueued /\ \A i \in 1..Len(disk) : disk[i] # Partial

\* Once stop is requested the writer ends, whatever fails on its way, and
\* no record is left in the queue: none can come in after its last look.
WriterEndsWithEmptyQueue ==
    stopRequested ~> [](writer = "ended" /\ queue = <<>>)
=============================================================================
