------------------------- MODULE InferenceApiProofs -------------------------
(***************************************************************************)
(* Proofs about AsyncJsonlCollector and InferenceApi, for any queue        *)
(* capacity and any set of requests.                                       *)
(*                                                                         *)
(* A complete run is complete because, as long as nothing was dropped and  *)
(* nothing failed, the file, the buffer, the record in the writer's hands  *)
(* and the queue are, one after the other, the attempts in their order     *)
(* (InOrder), and because the last flush leaves only the file.             *)
(***************************************************************************)
EXTENDS InferenceApi, FiniteSetTheorems, SequenceTheorems, TLAPS

Counters == {"attempted", "enqueued", "written", "flushed", "dropped_full",
             "dropped_closed", "dropped_failed", "failed_records"}
Flags == {"write_error", "summary_error", "shutdown_timed_out", "shutdown_complete"}
StatNames == Counters \cup Flags \cup {"state"}
States == {"running", "stopping", "failed", "closed"}
Steps == {"loop", "get", "mark", "write", "done", "doneFailed", "flushTest",
          "lastFlush", "fail", "drain", "count", "close", "finish", "status",
          "summary", "ended"}

StatsShape ==
    /\ stats = [x \in StatNames |-> stats[x]]
    /\ \A c \in Counters : stats[c] \in Nat
    /\ stats.state \in States

LinesShape ==
    /\ queue \in Seq(Nat \ {0}) /\ record \in Nat
    /\ buffer \in Seq(Nat) /\ disk \in Seq(Nat)
    /\ writer \in Steps

\* The record the writer has taken from the queue and not yet written.
Held == IF writer \in {"mark", "write", "count"} THEN <<record>> ELSE <<>>

NothingFailed == stats.failed_records = 0
NothingDropped ==
    stats.dropped_full = 0 /\ stats.dropped_closed = 0 /\ stats.dropped_failed = 0

Lines == ((disk \o buffer) \o Held) \o queue

\* Nothing dropped, nothing failed: the attempts are all there, in order.
InOrder ==
    NothingFailed /\ NothingDropped => Lines = [i \in 1..stats.attempted |-> i]

\* Nothing failed: what was enqueued is all there, and what was flushed is
\* in the file, without a partial line.
Counted ==
    NothingFailed =>
        /\ stats.enqueued = Len(disk) + Len(buffer) + Len(Held) + Len(queue)
        /\ stats.written = Len(disk) + Len(buffer)
        /\ stats.flushed <= Len(disk)
        /\ \A i \in 1..Len(disk) : disk[i] # Partial
        /\ \A i \in 1..Len(buffer) : buffer[i] # Partial
        /\ Held # <<>> => record # Partial

\* A failure that is not yet recorded is on its way to _fail.
FailureIsSeen ==
    /\ ~NothingFailed => stats.write_error \/ writer \in {"doneFailed", "fail"}
    /\ writer \in {"drain", "count"} => stats.write_error

\* stop() closes the door before it asks the writer to end.
DoorShut ==
    /\ stopPc # "idle" => ~accepting
    /\ stopRequested => stopPc \in {"join", "late", "returned"}

\* A writer that has left its loop without an error has seen the queue empty
\* behind the closed door, and once it has closed the stream the buffer is
\* empty too.
LeftEmpty ==
    /\ writer \in {"lastFlush", "close", "finish", "status", "summary", "ended"} =>
           stats.write_error \/ (stopRequested /\ queue = <<>>)
    /\ writer \in {"finish", "status", "summary", "ended"} =>
           stats.write_error \/ buffer = <<>>
    /\ stats.shutdown_complete =>
           ~stats.write_error /\ writer \in {"status", "summary", "ended"}

\* What the status and the summary say, and what stop() returned.
SaidIsTrue ==
    /\ snapshot.complete => /\ writer \in {"summary", "ended"}
                            /\ disk = [i \in 1..snapshot.attempted |-> i]
    /\ summary.complete => /\ writer = "ended"
                           /\ disk = [i \in 1..summary.attempted |-> i]
    /\ stopResult = "true" => stats.shutdown_complete /\ writer = "ended"

CollectorShape == StatsShape /\ LinesShape
CollectorInv ==
    /\ CollectorShape /\ InOrder /\ Counted /\ FailureIsSeen
    /\ DoorShut /\ LeftEmpty /\ SaidIsTrue

\* The limiter has one token, which a computation holds from its start to
\* the return of its thread; there is none before the model is loaded.
OneToken ==
    /\ inference_limiter \in {0, 1}
    /\ \A r, s \in Computing : r = s
    /\ Computing # {} => inference_limiter = 0
    /\ inference_limiter = 1 \/ Computing # {} => lifespan # "off"
    /\ service_factory /\ lifespan \notin {"off", "down"} =>
           inference_limiter = 1 \/ Computing # {}

\* The approved model is there whenever its application is ready.
ServiceReady ==
    /\ inference_service <=> service_factory /\ lifespan \in {"loaded", "serving", "stopping"}
    /\ service_factory /\ inference_ready => inference_service

RequestShape ==
    /\ request = [r \in Requests |-> request[r]]
    /\ \A r \in Requests :
           request[r] = [pc |-> request[r].pc, event |-> request[r].event,
                         cancelled |-> request[r].cancelled,
                         answer |-> request[r].answer]

ApiInv ==
    /\ RequestShape /\ OneToken /\ ServiceReady /\ NeverDummyInstead

-----------------------------------------------------------------------------
(* The recorder *)

LEMMA CollectorInit == Init => CollectorInv
<1> SUFFICES ASSUME Init PROVE CollectorInv
  OBVIOUS
<1> USE DEF Init, Partial, NoSummary
<1>1. StatsShape
  <2>1. /\ \A c \in Counters : stats[c] = 0
        /\ stats.state = "running"
    BY DEF Counters, Flags
  <2>2. stats = [x \in StatNames |-> stats[x]]
    BY DEF StatNames, Counters, Flags
  <2> QED
    BY <2>1, <2>2 DEF StatsShape, States
<1>2. LinesShape
  BY DEF LinesShape, Steps
<1>3. /\ \A c \in Counters : stats[c] = 0
      /\ stats.write_error = FALSE /\ stats.shutdown_complete = FALSE
  BY DEF Counters
<1>4. InOrder /\ Counted
  <2>1. Lines = <<>> /\ Held = <<>>
    BY DEF Lines, Held
  <2> QED
    BY <2>1, <1>3 DEF InOrder, Counted, Counters
<1>5. FailureIsSeen /\ DoorShut /\ LeftEmpty /\ SaidIsTrue
  BY <1>3 DEF FailureIsSeen, NothingFailed, Counters, DoorShut, LeftEmpty, SaidIsTrue
<1> QED
  BY <1>1, <1>2, <1>4, <1>5 DEF CollectorInv, CollectorShape

\* What try_collect does to the counters: one attempt more, and one fate of
\* four is counted.
LEMMA AttemptCounts ==
  ASSUME StatsShape, try_collect
  PROVE  /\ stats' = [x \in StatNames |-> stats'[x]]
         /\ stats'.attempted = stats.attempted + 1
         /\ \E fate \in {"dropped_failed", "dropped_closed", "dropped_full", "enqueued"} :
              /\ stats'[fate] = stats[fate] + 1
              /\ \A x \in StatNames \ {"attempted", fate} : stats'[x] = stats[x]
              /\ fate = "enqueued" =>
                     /\ ~stats.write_error /\ accepting
                     /\ queue' = Append(queue, stats.attempted + 1)
              /\ fate # "enqueued" => queue' = queue
<1> DEFINE fate == IF stats.write_error THEN "dropped_failed"
                   ELSE IF ~accepting THEN "dropped_closed"
                   ELSE IF Len(queue) = QueueCapacity THEN "dropped_full"
                   ELSE "enqueued"
<1>1. /\ fate \in {"dropped_failed", "dropped_closed", "dropped_full", "enqueued"}
      /\ fate = "enqueued" => ~stats.write_error /\ accepting
  OBVIOUS
<1>2. /\ stats' = [stats EXCEPT !.attempted = stats.attempted + 1, ![fate] = @ + 1]
      /\ queue' = IF fate = "enqueued" THEN Append(queue, stats.attempted + 1) ELSE queue
  BY DEF try_collect
<1> HIDE DEF fate
<1>3. /\ stats' = [x \in StatNames |-> stats'[x]]
      /\ stats'.attempted = stats.attempted + 1
      /\ stats'[fate] = stats[fate] + 1
      /\ \A x \in StatNames \ {"attempted", fate} : stats'[x] = stats[x]
  BY <1>1, <1>2 DEF StatsShape, StatNames, Counters
<1> QED
  BY <1>1, <1>2, <1>3
LEMMA ShapeStep ==
  ASSUME CollectorShape, Next
  PROVE  CollectorShape'
<1> USE DEF CollectorShape
<1>1. CASE try_collect
  <2>1. StatsShape'
    <3>1. PICK fate \in {"dropped_failed", "dropped_closed", "dropped_full", "enqueued"} :
              /\ stats'[fate] = stats[fate] + 1
              /\ \A x \in StatNames \ {"attempted", fate} : stats'[x] = stats[x]
      BY <1>1, AttemptCounts
    <3>2. stats'.attempted = stats.attempted + 1
      BY <1>1, AttemptCounts
    <3>3. \A c \in Counters : stats'[c] \in Nat
      BY <3>1, <3>2 DEF StatsShape, StatNames, Counters
    <3>4. stats'.state = stats.state
      BY <3>1 DEF StatNames
    <3> QED
      BY <1>1, AttemptCounts, <3>3, <3>4 DEF StatsShape
  <2>2. LinesShape'
    <3>1. queue' \in Seq(Nat \ {0})
      <4>1. stats.attempted + 1 \in Nat \ {0}
        BY DEF StatsShape, Counters
      <4> QED
        BY <1>1, <4>1 DEF try_collect, LinesShape
    <3> QED
      BY <1>1, <3>1 DEF try_collect, files, LinesShape
  <2> QED
    BY <2>1, <2>2
<1>2. CASE Stop
  <2>1. LinesShape'
    BY <1>2 DEF Stop, StopCloses, StopSets, StopTimesOut, StopRecordsTimeout, StopJoins,
                StopGoto, files, LinesShape
  <2>2. StatsShape'
    BY <1>2 DEF Stop, StopCloses, StopSets, StopTimesOut, StopRecordsTimeout, StopJoins,
                StatsShape, StatNames, Counters, Flags, States
  <2> QED
    BY <2>1, <2>2
<1>3. CASE WriterStep
  <2>1. StatsShape'
    <3> USE DEF StatsShape, StatNames, Counters, Flags, States
    <3>1. \/ stats' = stats
          \/ stats' = [stats EXCEPT !.written = @ + 1]
          \/ stats' = [stats EXCEPT !.failed_records = @ + 1]
          \/ stats' = [stats EXCEPT !.flushed = stats.written]
          \/ stats' = [stats EXCEPT !.write_error = TRUE, !.state = "failed"]
          \/ stats' = [stats EXCEPT !.state = "closed", !.shutdown_complete = TRUE]
          \/ stats' = [stats EXCEPT !.summary_error = TRUE]
      BY <1>3 DEF WriterStep, LoopTest, GetRecord, GetTimesOut, MarkInFlight, WriteRecord,
         WriteFails, TaskDone, NoFlushYet, Flush, FlushFails, Fail, DrainTakes, DrainCounts,
         DrainEnds, CloseStream, Finish, TakeStatus, WriteSummary, SummaryFails, shared
    <3>2. CASE stats' = stats
      BY <3>2
    <3>3. CASE stats' = [stats EXCEPT !.written = @ + 1]
      BY <3>3
    <3>4. CASE stats' = [stats EXCEPT !.failed_records = @ + 1]
      BY <3>4
    <3>5. CASE stats' = [stats EXCEPT !.flushed = stats.written]
      BY <3>5
    <3>6. CASE stats' = [stats EXCEPT !.write_error = TRUE, !.state = "failed"]
      BY <3>6
    <3>7. CASE stats' = [stats EXCEPT !.state = "closed", !.shutdown_complete = TRUE]
      BY <3>7
    <3>8. CASE stats' = [stats EXCEPT !.summary_error = TRUE]
      BY <3>8
    <3> QED
      BY <3>1, <3>2, <3>3, <3>4, <3>5, <3>6, <3>7, <3>8
  <2>2. writer' \in Steps
    BY <1>3 DEF WriterStep, LoopTest, GetRecord, GetTimesOut, MarkInFlight, WriteRecord,
         WriteFails, TaskDone, NoFlushYet, Flush, FlushFails, Fail, DrainTakes, DrainCounts,
         DrainEnds, CloseStream, Finish, TakeStatus, WriteSummary, SummaryFails,
         WriterGoto, LinesShape, Steps
  <2>3. queue' \in Seq(Nat \ {0}) /\ record' \in Nat
    <3>1. \/ queue' = queue /\ (record' = record \/ record' = 0)
          \/ queue # <<>> /\ queue' = Tail(queue) /\ record' = Head(queue)
      BY <1>3 DEF WriterStep, LoopTest, GetRecord, GetTimesOut, MarkInFlight, WriteRecord,
         WriteFails, TaskDone, NoFlushYet, Flush, FlushFails, Fail, DrainTakes, DrainCounts,
         DrainEnds, CloseStream, Finish, TakeStatus, WriteSummary, SummaryFails, shared,
         Partial
    <3>2. queue \in Seq(Nat \ {0}) /\ record \in Nat
      BY DEF LinesShape
    <3>3. queue # <<>> => Head(queue) \in Nat \ {0} /\ Tail(queue) \in Seq(Nat \ {0})
      BY <3>2
    <3> QED
      BY SMTT(40), <3>1, <3>2, <3>3
  <2>4. buffer' \in Seq(Nat) /\ disk' \in Seq(Nat)
    <3>1. \/ buffer' = buffer /\ disk' = disk
          \/ disk' = disk /\ buffer' \in {Append(buffer, record), Append(buffer, 0)}
          \/ disk' = disk \o buffer /\ buffer' = <<>>
          \/ SomeOfBuffer
      BY <1>3 DEF WriterStep, LoopTest, GetRecord, GetTimesOut, MarkInFlight, WriteRecord,
         WriteFails, TaskDone, NoFlushYet, Flush, FlushFails, Fail, DrainTakes, DrainCounts,
         DrainEnds, CloseStream, Finish, TakeStatus, WriteSummary, SummaryFails, files,
         Partial
    <3>2. CASE SomeOfBuffer
      <4>1. PICK n \in 0..Len(buffer) :
                /\ disk' = disk \o SubSeq(buffer, 1, n)
                /\ buffer' = SubSeq(buffer, n + 1, Len(buffer))
        BY <3>2 DEF SomeOfBuffer
      <4>2. buffer \in Seq(Nat) /\ disk \in Seq(Nat) /\ Len(buffer) \in Nat
        BY DEF LinesShape
      <4>3. /\ SubSeq(buffer, 1, n) \in Seq(Nat)
            /\ SubSeq(buffer, n + 1, Len(buffer)) \in Seq(Nat)
        BY <4>2
      <4> QED
        BY <4>1, <4>2, <4>3
    <3>3. /\ buffer \in Seq(Nat) /\ disk \in Seq(Nat) /\ record \in Nat
          /\ Append(buffer, record) \in Seq(Nat) /\ Append(buffer, 0) \in Seq(Nat)
          /\ disk \o buffer \in Seq(Nat) /\ <<>> \in Seq(Nat)
      BY DEF LinesShape
    <3> QED
      BY <3>1, <3>2, <3>3
  <2> QED
    BY <2>1, <2>2, <2>3, <2>4 DEF LinesShape
<1> QED
  BY <1>1, <1>2, <1>3 DEF Next
\* The four ways a line moves towards the file: taken from the queue, put in
\* the buffer, flushed, flushed in part.  The lines stay in their order.
LEMMA LinesAssociate ==
  ASSUME NEW a \in Seq(Nat), NEW b \in Seq(Nat), NEW c \in Seq(Nat)
  PROVE  (a \o b) \o c = a \o (b \o c)
BY ConcatAssociative

LEMMA LineTaken ==
  ASSUME NEW a \in Seq(Nat), NEW q \in Seq(Nat), q # <<>>
  PROVE  (a \o <<Head(q)>>) \o Tail(q) = (a \o <<>>) \o q
<1>1. Head(q) \in Nat /\ Tail(q) \in Seq(Nat) /\ q = <<Head(q)>> \o Tail(q)
  OBVIOUS
<1>2. a \o <<>> = a
  OBVIOUS
<1>3. (a \o <<Head(q)>>) \o Tail(q) = a \o (<<Head(q)>> \o Tail(q))
  BY SMTT(40), <1>1, ConcatAssociative
<1> QED
  BY <1>1, <1>2, <1>3

LEMMA LineBuffered ==
  ASSUME NEW a \in Seq(Nat), NEW b \in Seq(Nat), NEW r \in Nat
  PROVE  (a \o Append(b, r)) \o <<>> = (a \o b) \o <<r>>
<1>1. Append(b, r) = b \o <<r>> /\ <<r>> \in Seq(Nat) /\ Append(b, r) \in Seq(Nat)
  OBVIOUS
<1>2. (a \o b) \o <<r>> = a \o (b \o <<r>>)
  BY <1>1, ConcatAssociative
<1>3. (a \o Append(b, r)) \o <<>> = a \o Append(b, r)
  BY <1>1
<1> QED
  BY <1>1, <1>2, <1>3

LEMMA LinesFlushed ==
  ASSUME NEW a \in Seq(Nat), NEW b \in Seq(Nat), NEW n \in 0..Len(b)
  PROVE  /\ (a \o SubSeq(b, 1, n)) \o SubSeq(b, n + 1, Len(b)) = a \o b
         /\ SubSeq(b, 1, n) \in Seq(Nat) /\ SubSeq(b, n + 1, Len(b)) \in Seq(Nat)
         /\ Len(SubSeq(b, 1, n)) = n /\ Len(SubSeq(b, n + 1, Len(b))) = Len(b) - n
<1>1. /\ SubSeq(b, 1, n) \in Seq(Nat) /\ SubSeq(b, n + 1, Len(b)) \in Seq(Nat)
      /\ Len(SubSeq(b, 1, n)) = n /\ Len(SubSeq(b, n + 1, Len(b))) = Len(b) - n
  OBVIOUS
<1>2. SubSeq(b, 1, n) \o SubSeq(b, n + 1, Len(b)) = SubSeq(b, 1, Len(b))
  <2>1. 1 \in 1..Len(b) + 1 /\ n \in 1 - 1..Len(b) /\ Len(b) \in n..Len(b)
    OBVIOUS
  <2> QED
    BY <2>1, ConcatAdjacentSubSeq, Zenon
<1>3. SubSeq(b, 1, Len(b)) = b
  BY SubSeqFull
<1>4. (a \o SubSeq(b, 1, n)) \o SubSeq(b, n + 1, Len(b))
          = a \o (SubSeq(b, 1, n) \o SubSeq(b, n + 1, Len(b)))
  BY <1>1, LinesAssociate, Zenon
<1> QED
  BY <1>1, <1>2, <1>3, <1>4

\* What a step of the writer does to the lines and to the counters: it moves
\* a line, flushes, or counts a failure.
Stays == UNCHANGED <<disk, buffer, queue>> /\ Held' = Held
         /\ (record' = record \/ Held = <<>>)
Takes == /\ queue # <<>> /\ Held = <<>> /\ Held' = <<Head(queue)>>
         /\ record' = Head(queue) /\ queue' = Tail(queue)
         /\ UNCHANGED <<disk, buffer>>
Writes == /\ Held = <<record>> /\ Held' = <<>> /\ buffer' = Append(buffer, record)
          /\ UNCHANGED <<disk, queue>>
Flushes == /\ Held = <<>> /\ Held' = <<>> /\ queue' = queue
           /\ disk' = disk \o buffer /\ buffer' = <<>>
FlushesSome == /\ Held = <<>> /\ Held' = <<>> /\ queue' = queue /\ SomeOfBuffer
Counts(x) == stats'[x] = stats[x]

LEMMA WriterMoves ==
  ASSUME CollectorShape, WriterStep
  PROVE  /\ \A x \in Counters \ {"written", "flushed", "failed_records"} : Counts(x)
         /\ \/ stats'.failed_records = stats.failed_records + 1
            \/ /\ Stays \/ Takes \/ FlushesSome \/ Flushes
               /\ Counts("written") /\ Counts("flushed") /\ Counts("failed_records")
            \/ /\ Writes /\ stats'.written = stats.written + 1
               /\ Counts("flushed") /\ Counts("failed_records")
            \/ /\ Flushes /\ stats'.flushed = stats.written
               /\ Counts("written") /\ Counts("failed_records")
<1> USE DEF Counts
<1>0. stats = [x \in StatNames |-> stats[x]]
  BY DEF CollectorShape, StatsShape
<1>1. CASE LoopTest \/ GetTimesOut \/ MarkInFlight \/ TaskDone \/ NoFlushYet \/ DrainEnds
           \/ TakeStatus \/ WriteSummary
  <2>1. stats' = stats /\ Stays
    BY <1>1 DEF LoopTest, GetTimesOut, MarkInFlight, TaskDone, NoFlushYet, DrainEnds,
         TakeStatus, WriteSummary, shared, files, WriterGoto, Stays, Held
  <2> QED
    BY <2>1
<1>2. CASE GetRecord \/ DrainTakes
  <2>1. stats' = stats /\ Takes
    BY <1>2 DEF GetRecord, DrainTakes, files, WriterGoto, Takes, Held
  <2> QED
    BY <2>1
<1>3. CASE WriteRecord
  BY <1>0, <1>3 DEF WriteRecord, WriterGoto, Writes, Held, StatNames, Counters
<1>4. CASE WriteFails \/ DrainCounts
  BY <1>0, <1>4 DEF WriteFails, DrainCounts, StatNames, Counters
<1>5. CASE Flush
  BY <1>0, <1>5 DEF Flush, WriterGoto, Flushes, Held, StatNames, Counters
<1>6. CASE FlushFails \/ CloseStream
  <2>1. stats' = stats /\ (FlushesSome \/ Flushes)
    BY <1>6 DEF FlushFails, CloseStream, shared, WriterGoto, FlushesSome, Flushes, Held
  <2> QED
    BY <2>1
<1>7. CASE Fail \/ Finish \/ SummaryFails
  <2>1. Stays
    BY <1>7 DEF Fail, Finish, SummaryFails, files, WriterGoto, Stays, Held
  <2> QED
    BY <1>0, <1>7, <2>1 DEF Fail, Finish, SummaryFails, StatNames, Counters
<1> QED
  BY <1>1, <1>2, <1>3, <1>4, <1>5, <1>6, <1>7 DEF WriterStep
LEMMA HeldShape ==
  ASSUME CollectorShape
  PROVE  /\ Held \in Seq(Nat) /\ disk \in Seq(Nat) /\ buffer \in Seq(Nat)
         /\ queue \in Seq(Nat) /\ queue \in Seq(Nat \ {0})
         /\ disk \o buffer \in Seq(Nat) /\ Lines \in Seq(Nat)
         /\ \A c \in Counters : stats[c] \in Nat
<1>1. /\ disk \in Seq(Nat) /\ buffer \in Seq(Nat) /\ queue \in Seq(Nat \ {0})
      /\ record \in Nat
  BY DEF CollectorShape, LinesShape
<1>2. Held \in Seq(Nat)
  BY <1>1 DEF Held
<1>3. queue \in Seq(Nat)
  BY <1>1, SeqMonotonic
<1>4. disk \o buffer \in Seq(Nat)
  BY <1>1
<1>5. Lines \in Seq(Nat)
  BY <1>2, <1>3, <1>4 DEF Lines
<1> QED
  BY <1>1, <1>2, <1>3, <1>4, <1>5 DEF CollectorShape, StatsShape

\* As long as it counts no failure, the writer changes neither the lines nor
\* their order.
LEMMA LinesKept ==
  ASSUME CollectorShape, Stays \/ Takes \/ Writes \/ Flushes \/ FlushesSome
  PROVE  Lines' = Lines
<1>1. CASE Stays
  BY <1>1 DEF Stays, Lines
<1>2. CASE Takes
  <2>1. Lines' = ((disk \o buffer) \o <<Head(queue)>>) \o Tail(queue)
    BY <1>2 DEF Takes, Lines
  <2>2. Lines = ((disk \o buffer) \o <<>>) \o queue /\ queue # <<>>
    BY <1>2 DEF Takes, Lines
  <2> QED
    BY <2>1, <2>2, LineTaken, HeldShape
<1>3. CASE Writes
  <2>1. Lines' = ((disk \o Append(buffer, record)) \o <<>>) \o queue
    BY <1>3 DEF Writes, Lines
  <2>2. Lines = ((disk \o buffer) \o <<record>>) \o queue
    BY <1>3 DEF Writes, Lines
  <2>3. record \in Nat
    BY DEF CollectorShape, LinesShape
  <2> QED
    BY <2>1, <2>2, <2>3, LineBuffered, HeldShape
<1>4. CASE Flushes
  <2>1. Lines' = (((disk \o buffer) \o <<>>) \o <<>>) \o queue
    BY <1>4 DEF Flushes, Lines
  <2>2. Lines = ((disk \o buffer) \o <<>>) \o queue
    BY <1>4 DEF Flushes, Lines
  <2>3. (disk \o buffer) \o <<>> = disk \o buffer
    BY HeldShape, ConcatEmptySeq
  <2> QED
    BY <2>1, <2>2, <2>3
<1>5. CASE FlushesSome
  <2>1. PICK n \in 0..Len(buffer) :
            /\ disk' = disk \o SubSeq(buffer, 1, n)
            /\ buffer' = SubSeq(buffer, n + 1, Len(buffer))
    BY <1>5 DEF FlushesSome, SomeOfBuffer
  <2>2. disk' \o buffer' = disk \o buffer
    BY <2>1, LinesFlushed, HeldShape
  <2> QED
    BY <1>5, <2>2 DEF FlushesSome, Lines
<1> QED
  BY <1>1, <1>2, <1>3, <1>4, <1>5

\* One attempt more at the end of the attempts.
LEMMA OneMoreAttempt ==
  ASSUME NEW n \in Nat, NEW l \in Seq(Nat), l = [i \in 1..n |-> i]
  PROVE  Append(l, n + 1) = [i \in 1..(n + 1) |-> i]
<1>1. Len(l) = n
  OBVIOUS
<1> QED
  BY <1>1

LEMMA InOrderStep ==
  ASSUME CollectorShape, InOrder, Next
  PROVE  InOrder'
<1> SUFFICES ASSUME NothingFailed', NothingDropped'
             PROVE  Lines' = [i \in 1..stats'.attempted |-> i]
  BY DEF InOrder
<1>1. CASE try_collect
  <2>1. PICK fate \in {"dropped_failed", "dropped_closed", "dropped_full", "enqueued"} :
            /\ stats'[fate] = stats[fate] + 1
            /\ \A x \in StatNames \ {"attempted", fate} : stats'[x] = stats[x]
            /\ fate = "enqueued" => queue' = Append(queue, stats.attempted + 1)
    BY <1>1, AttemptCounts DEF CollectorShape
  <2>2. fate = "enqueued"
    BY SMTT(40), <2>1, HeldShape DEF NothingDropped, Counters
  <2>3. NothingFailed /\ NothingDropped
    BY <2>1, <2>2 DEF NothingFailed, NothingDropped, StatNames, Counters
  <2>4. Lines = [i \in 1..stats.attempted |-> i]
    BY <2>3 DEF InOrder
  <2>5. Lines' = Append(Lines, stats.attempted + 1)
    <3>1. Lines' = ((disk \o buffer) \o Held) \o Append(queue, stats.attempted + 1)
      BY <1>1, <2>1, <2>2 DEF try_collect, files, Lines, Held
    <3>2. (disk \o buffer) \o Held \in Seq(Nat)
      BY HeldShape
    <3>3. stats.attempted + 1 \in Nat
      BY HeldShape DEF Counters
    <3>4. queue \in Seq(Nat)
      BY HeldShape
    <3>5. ((disk \o buffer) \o Held) \o Append(queue, stats.attempted + 1)
             = Append(((disk \o buffer) \o Held) \o queue, stats.attempted + 1)
      BY SMTT(40), <3>2, <3>3, <3>4
    <3> QED
      BY <3>1, <3>5 DEF Lines
  <2>6. stats'.attempted = stats.attempted + 1
    BY <1>1, AttemptCounts DEF CollectorShape
  <2>7. stats.attempted \in Nat /\ Lines \in Seq(Nat)
    BY HeldShape DEF Counters
  <2> QED
    BY <2>4, <2>5, <2>6, <2>7, OneMoreAttempt
<1>2. CASE Stop
  <2>1. Lines' = Lines
    BY <1>2 DEF Stop, StopCloses, StopSets, StopTimesOut, StopRecordsTimeout, StopJoins,
                StopGoto, files, Lines, Held
  <2>2. \A c \in Counters : stats'[c] = stats[c]
    BY <1>2 DEF Stop, StopCloses, StopSets, StopTimesOut, StopRecordsTimeout, StopJoins,
                CollectorShape, StatsShape, StatNames, Counters
  <2> QED
    BY <2>1, <2>2 DEF InOrder, NothingFailed, NothingDropped, Counters
<1>3. CASE WriterStep
  <2>1. Lines' = Lines /\ NothingFailed
    BY <1>3, WriterMoves, LinesKept, HeldShape DEF NothingFailed, Counters, Counts
  <2>2. NothingDropped /\ stats'.attempted = stats.attempted
    BY <1>3, WriterMoves DEF NothingDropped, Counters, Counts
  <2> QED
    BY <2>1, <2>2 DEF InOrder
<1> QED
  BY <1>1, <1>2, <1>3 DEF Next
\* Whole lines stay whole in the file and in the buffer.
WholeLines == /\ \A i \in 1..Len(disk) : disk[i] # Partial
              /\ \A i \in 1..Len(buffer) : buffer[i] # Partial

LEMMA WholeKept ==
  ASSUME CollectorShape, WholeLines, Held # <<>> => record # Partial,
         Stays \/ Takes \/ Writes \/ Flushes \/ FlushesSome
  PROVE  WholeLines' /\ (Held' # <<>> => record' # Partial)
<1> USE DEF WholeLines
<1>0. disk \in Seq(Nat) /\ buffer \in Seq(Nat) /\ queue \in Seq(Nat \ {0}) /\ record \in Nat
  BY DEF CollectorShape, LinesShape
<1>1. CASE Stays
  BY <1>1 DEF Stays
<1>2. CASE Takes
  <2>1. Head(queue) # Partial
    BY <1>0, <1>2 DEF Takes, Partial
  <2> QED
    BY <1>2, <2>1 DEF Takes
<1>3. CASE Writes
  <2>1. record # Partial
    BY <1>3 DEF Writes
  <2>2. \A i \in 1..Len(buffer') : buffer'[i] # Partial
    BY <1>0, <1>3, <2>1 DEF Writes
  <2> QED
    BY <1>3, <2>2 DEF Writes
<1>4. CASE Flushes
  <2>1. \A i \in 1..Len(disk \o buffer) : (disk \o buffer)[i] # Partial
    BY <1>0
  <2> QED
    BY <1>4, <2>1 DEF Flushes
<1>5. CASE FlushesSome
  <2>1. PICK n \in 0..Len(buffer) :
            /\ disk' = disk \o SubSeq(buffer, 1, n)
            /\ buffer' = SubSeq(buffer, n + 1, Len(buffer))
    BY <1>5 DEF FlushesSome, SomeOfBuffer
  <2> DEFINE out == SubSeq(buffer, 1, n)
             in == SubSeq(buffer, n + 1, Len(buffer))
  <2>2. out \in Seq(Nat) /\ \A i \in 1..Len(out) : out[i] # Partial
    BY <1>0
  <2>3. in \in Seq(Nat) /\ \A i \in 1..Len(in) : in[i] # Partial
    BY <1>0
  <2> HIDE DEF out, in
  <2>4. \A i \in 1..Len(disk \o out) : (disk \o out)[i] # Partial
    BY <1>0, <2>2
  <2>5. disk' = disk \o out /\ buffer' = in
    BY <2>1 DEF out, in
  <2> QED
    BY <1>5, <2>3, <2>4, <2>5 DEF FlushesSome
<1> QED
  BY <1>1, <1>2, <1>3, <1>4, <1>5

\* What the moves do to the lengths.
LEMMA LengthsKept ==
  ASSUME CollectorShape
  PROVE  /\ Stays => /\ Len(disk') = Len(disk) /\ Len(buffer') = Len(buffer)
                     /\ Len(Held') = Len(Held) /\ Len(queue') = Len(queue)
         /\ Takes => /\ Len(disk') = Len(disk) /\ Len(buffer') = Len(buffer)
                     /\ Len(Held) = 0 /\ Len(Held') = 1 /\ Len(queue') = Len(queue) - 1
         /\ Writes => /\ Len(disk') = Len(disk) /\ Len(buffer') = Len(buffer) + 1
                      /\ Len(Held) = 1 /\ Len(Held') = 0 /\ Len(queue') = Len(queue)
         /\ Flushes \/ FlushesSome =>
                /\ Len(disk') + Len(buffer') = Len(disk) + Len(buffer)
                /\ Len(disk') \in Nat /\ Len(disk') >= Len(disk)
                /\ Len(Held) = 0 /\ Len(Held') = 0 /\ Len(queue') = Len(queue)
         /\ Flushes => Len(disk') = Len(disk) + Len(buffer)
<1>0. disk \in Seq(Nat) /\ buffer \in Seq(Nat) /\ queue \in Seq(Nat \ {0}) /\ record \in Nat
  BY DEF CollectorShape, LinesShape
<1>1. ASSUME Stays
      PROVE  /\ Len(disk') = Len(disk) /\ Len(buffer') = Len(buffer)
             /\ Len(Held') = Len(Held) /\ Len(queue') = Len(queue)
  BY <1>1 DEF Stays
<1>2. ASSUME Takes
      PROVE  /\ Len(disk') = Len(disk) /\ Len(buffer') = Len(buffer)
             /\ Len(Held) = 0 /\ Len(Held') = 1 /\ Len(queue') = Len(queue) - 1
  BY <1>0, <1>2 DEF Takes
<1>3. ASSUME Writes
      PROVE  /\ Len(disk') = Len(disk) /\ Len(buffer') = Len(buffer) + 1
             /\ Len(Held) = 1 /\ Len(Held') = 0 /\ Len(queue') = Len(queue)
  BY <1>0, <1>3 DEF Writes
<1>4. ASSUME Flushes
      PROVE  /\ Len(disk') = Len(disk) + Len(buffer) /\ Len(buffer') = 0
             /\ Len(Held) = 0 /\ Len(Held') = 0 /\ Len(queue') = Len(queue)
  BY <1>0, <1>4 DEF Flushes
<1>5. ASSUME FlushesSome
      PROVE  /\ Len(disk') + Len(buffer') = Len(disk) + Len(buffer)
             /\ Len(disk') \in Nat /\ Len(disk') >= Len(disk)
             /\ Len(Held) = 0 /\ Len(Held') = 0 /\ Len(queue') = Len(queue)
  <2>1. PICK n \in 0..Len(buffer) :
            /\ disk' = disk \o SubSeq(buffer, 1, n)
            /\ buffer' = SubSeq(buffer, n + 1, Len(buffer))
    BY <1>5 DEF FlushesSome, SomeOfBuffer
  <2>2. /\ SubSeq(buffer, 1, n) \in Seq(Nat) /\ Len(SubSeq(buffer, 1, n)) = n
        /\ Len(SubSeq(buffer, n + 1, Len(buffer))) = Len(buffer) - n
    BY <1>0, LinesFlushed
  <2>3. Len(disk') = Len(disk) + n /\ Len(buffer') = Len(buffer) - n
    BY <1>0, <2>1, <2>2
  <2> QED
    BY <1>0, <1>5, <2>3 DEF FlushesSome
<1>6. Len(disk) \in Nat /\ Len(buffer) \in Nat
  BY <1>0
<1>7. Flushes => /\ Len(disk') + Len(buffer') = Len(disk) + Len(buffer)
                 /\ Len(disk') \in Nat /\ Len(disk') >= Len(disk)
  BY <1>4, <1>6
<1> QED
  BY <1>1, <1>2, <1>3, <1>4, <1>5, <1>7, Zenon

LEMMA CountedStep ==
  ASSUME CollectorShape, Counted, Next
  PROVE  Counted'
<1> SUFFICES ASSUME NothingFailed'
             PROVE  /\ stats'.enqueued = Len(disk') + Len(buffer') + Len(Held') + Len(queue')
                    /\ stats'.written = Len(disk') + Len(buffer')
                    /\ stats'.flushed <= Len(disk')
                    /\ WholeLines' /\ (Held' # <<>> => record' # Partial)
  BY DEF Counted, WholeLines
<1>1. CASE try_collect
  <2>1. PICK fate \in {"dropped_failed", "dropped_closed", "dropped_full", "enqueued"} :
            /\ stats'[fate] = stats[fate] + 1
            /\ \A x \in StatNames \ {"attempted", fate} : stats'[x] = stats[x]
            /\ fate = "enqueued" => queue' = Append(queue, stats.attempted + 1)
            /\ fate # "enqueued" => queue' = queue
    BY <1>1, AttemptCounts DEF CollectorShape
  <2>2. NothingFailed
    BY <2>1 DEF NothingFailed, StatNames, Counters
  <2>3. /\ UNCHANGED <<disk, buffer, record>> /\ Held' = Held
        /\ stats'.written = stats.written /\ stats'.flushed = stats.flushed
    BY <1>1, <2>1 DEF try_collect, files, Held, StatNames, Counters
  <2>4. stats'.enqueued - stats.enqueued = Len(queue') - Len(queue)
    <3>1. queue \in Seq(Nat) /\ stats.attempted + 1 \in Nat /\ stats.enqueued \in Nat
      BY HeldShape DEF Counters
    <3>2. CASE fate = "enqueued"
      BY <2>1, <3>1, <3>2
    <3>3. CASE fate # "enqueued"
      <4>1. stats'.enqueued = stats.enqueued
        BY <2>1, <3>3 DEF StatNames, Counters
      <4> QED
        BY <2>1, <3>1, <3>3, <4>1
    <3> QED
      BY <3>2, <3>3
  <2>5. queue' \in Seq(Nat) /\ stats'.enqueued \in Nat
    BY <1>1, ShapeStep, HeldShape DEF Next, CollectorShape, LinesShape, StatsShape, Counters
  <2>6. /\ stats.enqueued = Len(disk) + Len(buffer) + Len(Held) + Len(queue)
        /\ stats.written = Len(disk) + Len(buffer) /\ stats.flushed <= Len(disk)
        /\ WholeLines /\ (Held # <<>> => record # Partial)
    BY <2>2 DEF Counted, WholeLines
  <2>7. WholeLines' /\ (Held' # <<>> => record' # Partial)
    BY <2>3, <2>6 DEF WholeLines
  <2>8. Len(disk) \in Nat /\ Len(buffer) \in Nat /\ Len(queue) \in Nat /\ Len(Held) \in Nat
    BY HeldShape
  <2>9. Len(queue') \in Nat
    BY <2>5
  <2>10. stats'.enqueued = Len(disk) + Len(buffer) + Len(Held) + Len(queue')
    BY <2>4, <2>5, <2>6, <2>8, <2>9
  <2> QED
    BY <2>3, <2>6, <2>7, <2>10
<1>2. CASE Stop
  <2>1. UNCHANGED <<disk, buffer, record, queue>> /\ Held' = Held
    BY <1>2 DEF Stop, StopCloses, StopSets, StopTimesOut, StopRecordsTimeout, StopJoins,
                StopGoto, files, Held
  <2>2. \A c \in Counters : stats'[c] = stats[c]
    BY <1>2 DEF Stop, StopCloses, StopSets, StopTimesOut, StopRecordsTimeout, StopJoins,
                CollectorShape, StatsShape, StatNames, Counters
  <2> QED
    BY <2>1, <2>2 DEF Counted, NothingFailed, WholeLines, Counters
<1>3. CASE WriterStep
  <2>1. NothingFailed /\ (Stays \/ Takes \/ Writes \/ Flushes \/ FlushesSome)
    BY <1>3, WriterMoves, HeldShape DEF NothingFailed, Counters, Counts
  <2>2. WholeLines' /\ (Held' # <<>> => record' # Partial)
    BY <2>1, WholeKept DEF Counted, WholeLines
  <2>3. /\ stats.enqueued = Len(disk) + Len(buffer) + Len(Held) + Len(queue)
        /\ stats.written = Len(disk) + Len(buffer) /\ stats.flushed <= Len(disk)
    BY <2>1 DEF Counted
  <2>4. /\ Len(disk) \in Nat /\ Len(buffer) \in Nat /\ Len(queue) \in Nat
        /\ Len(Held) \in Nat /\ stats.flushed \in Nat /\ stats.failed_records \in Nat
    BY HeldShape DEF Counters
  <2>5. stats'.failed_records # stats.failed_records + 1
    BY <2>1, <2>4 DEF NothingFailed
  <2>6. stats'.enqueued = stats.enqueued
    BY <1>3, WriterMoves DEF Counts, Counters
  <2> DEFINE Adds == /\ stats'.enqueued = Len(disk') + Len(buffer') + Len(Held') + Len(queue')
                     /\ stats'.written = Len(disk') + Len(buffer')
                     /\ stats'.flushed <= Len(disk')
  <2>7. ASSUME Stays \/ Takes \/ FlushesSome \/ Flushes,
               Counts("written"), Counts("flushed")
        PROVE  Adds
    <3>1. stats'.written = stats.written /\ stats'.flushed = stats.flushed
      BY <2>7 DEF Counts
    <3>2. CASE Stays
      BY <2>3, <2>6, <3>1, <3>2, LengthsKept
    <3>3. CASE Takes
      <4>1. /\ Len(disk') = Len(disk) /\ Len(buffer') = Len(buffer)
            /\ Len(Held) = 0 /\ Len(Held') = 1 /\ Len(queue') = Len(queue) - 1
        BY <3>3, LengthsKept
      <4> QED
        BY <2>3, <2>4, <2>6, <3>1, <4>1
    <3>4. CASE FlushesSome \/ Flushes
      <4>1. /\ Len(disk') + Len(buffer') = Len(disk) + Len(buffer)
            /\ Len(disk') \in Nat /\ Len(disk') >= Len(disk)
            /\ Len(Held) = 0 /\ Len(Held') = 0 /\ Len(queue') = Len(queue)
        BY <3>4, LengthsKept
      <4> QED
        BY <2>3, <2>4, <2>6, <3>1, <4>1
    <3> QED
      BY <2>7, <3>2, <3>3, <3>4
  <2>8. ASSUME Writes, stats'.written = stats.written + 1, Counts("flushed")
        PROVE  Adds
    <3>1. /\ Len(disk') = Len(disk) /\ Len(buffer') = Len(buffer) + 1
          /\ Len(Held) = 1 /\ Len(Held') = 0 /\ Len(queue') = Len(queue)
      BY <2>8, LengthsKept
    <3> QED
      BY <2>3, <2>4, <2>6, <2>8, <3>1 DEF Counts
  <2>9. ASSUME Flushes, stats'.flushed = stats.written, Counts("written")
        PROVE  Adds
    <3>1. /\ Len(disk') + Len(buffer') = Len(disk) + Len(buffer)
          /\ Len(disk') = Len(disk) + Len(buffer)
          /\ Len(Held) = 0 /\ Len(Held') = 0 /\ Len(queue') = Len(queue)
      BY <2>9, LengthsKept
    <3> QED
      BY <2>3, <2>4, <2>6, <2>9, <3>1 DEF Counts
  <2> HIDE DEF Adds
  <2>10. Adds
    BY <1>3, <2>5, <2>7, <2>8, <2>9, WriterMoves
  <2> QED
    BY <2>2, <2>10 DEF Adds
<1> QED
  BY <1>1, <1>2, <1>3 DEF Next
LEMMA FailureIsSeenStep ==
  ASSUME CollectorShape, FailureIsSeen, Next
  PROVE  FailureIsSeen'
<1>0. stats = [x \in StatNames |-> stats[x]] /\ stats.failed_records \in Nat
  BY DEF CollectorShape, StatsShape, Counters
<1>1. CASE try_collect \/ Stop
  <2>1. writer' = writer
    BY <1>1 DEF try_collect, Stop, StopCloses, StopSets, StopTimesOut, StopRecordsTimeout,
                StopJoins, StopGoto
  <2>2. /\ stats'.failed_records = stats.failed_records
        /\ stats'.write_error = stats.write_error
    <3>1. CASE try_collect
      BY <3>1, AttemptCounts DEF CollectorShape, StatNames, Counters, Flags
    <3>2. CASE Stop
      BY <1>0, <3>2 DEF Stop, StopCloses, StopSets, StopTimesOut, StopRecordsTimeout,
                        StopJoins, StatNames, Counters, Flags
    <3> QED
      BY <1>1, <3>1, <3>2
  <2> QED
    BY <2>1, <2>2 DEF FailureIsSeen, NothingFailed
<1>2. CASE WriterStep
  <2> USE DEF FailureIsSeen, NothingFailed, WriterGoto
  <2>1. CASE WriteRecord
    BY <1>0, <2>1 DEF WriteRecord, StatNames, Counters, Flags
  <2>2. CASE WriteFails
    BY <1>0, <2>2 DEF WriteFails, StatNames, Counters, Flags
  <2>3. CASE Flush
    BY <1>0, <2>3 DEF Flush, StatNames, Counters, Flags
  <2>4. CASE Fail
    BY <1>0, <2>4 DEF Fail, StatNames, Counters, Flags
  <2>5. CASE DrainCounts
    BY <1>0, <2>5 DEF DrainCounts, StatNames, Counters, Flags
  <2>6. CASE Finish
    BY <1>0, <2>6 DEF Finish, StatNames, Counters, Flags
  <2>7. CASE SummaryFails
    BY <1>0, <2>7 DEF SummaryFails, StatNames, Counters, Flags
  <2>8. CASE LoopTest \/ GetRecord \/ GetTimesOut \/ MarkInFlight \/ TaskDone
             \/ NoFlushYet \/ FlushFails \/ DrainTakes \/ DrainEnds
             \/ CloseStream \/ TakeStatus \/ WriteSummary
    BY <2>8 DEF LoopTest, GetRecord, GetTimesOut, MarkInFlight, TaskDone, NoFlushYet,
         FlushFails, DrainTakes, DrainEnds, CloseStream, TakeStatus, WriteSummary, shared
  <2> QED
    BY <1>2, <2>1, <2>2, <2>3, <2>4, <2>5, <2>6, <2>7, <2>8 DEF WriterStep
<1> QED
  BY <1>1, <1>2 DEF Next

LEMMA DoorShutStep ==
  ASSUME DoorShut, Next
  PROVE  DoorShut'
<1>1. CASE try_collect
  BY <1>1 DEF try_collect, DoorShut
<1>2. CASE Stop
  BY <1>2 DEF Stop, StopCloses, StopSets, StopTimesOut, StopRecordsTimeout, StopJoins,
              StopGoto, DoorShut
<1>3. CASE WriterStep
  <2>1. stopPc' = stopPc /\ stopRequested' = stopRequested /\ (accepting' => accepting)
    BY <1>3 DEF WriterStep, LoopTest, GetRecord, GetTimesOut, MarkInFlight, WriteRecord,
         WriteFails, TaskDone, NoFlushYet, Flush, FlushFails, Fail, DrainTakes, DrainCounts,
         DrainEnds, CloseStream, Finish, TakeStatus, WriteSummary, SummaryFails, shared
  <2> QED
    BY <2>1 DEF DoorShut
<1> QED
  BY <1>1, <1>2, <1>3 DEF Next

LEMMA LeftEmptyStep ==
  ASSUME CollectorShape, FailureIsSeen, DoorShut, LeftEmpty, Next
  PROVE  LeftEmpty'
<1>0. stats = [x \in StatNames |-> stats[x]]
  BY DEF CollectorShape, StatsShape
<1>1. CASE try_collect
  <2>1. PICK fate \in {"dropped_failed", "dropped_closed", "dropped_full", "enqueued"} :
            /\ \A x \in StatNames \ {"attempted", fate} : stats'[x] = stats[x]
            /\ fate = "enqueued" => ~stats.write_error /\ accepting
            /\ fate # "enqueued" => queue' = queue
    BY <1>1, AttemptCounts DEF CollectorShape
  <2>2. /\ stats'.write_error = stats.write_error
        /\ stats'.shutdown_complete = stats.shutdown_complete
    BY <2>1 DEF StatNames, Counters, Flags
  <2>3. UNCHANGED <<writer, stopRequested, buffer>>
    BY <1>1 DEF try_collect, files
  <2>4. stopRequested => queue' = queue
    BY <2>1 DEF DoorShut
  <2> QED
    BY <2>2, <2>3, <2>4 DEF LeftEmpty
<1>2. CASE Stop
  <2>1. /\ stats'.write_error = stats.write_error
        /\ stats'.shutdown_complete = stats.shutdown_complete
    BY <1>0, <1>2 DEF Stop, StopCloses, StopSets, StopTimesOut, StopRecordsTimeout,
                      StopJoins, StatNames, Counters, Flags
  <2>2. UNCHANGED <<writer, queue, buffer>> /\ (stopRequested => stopRequested')
    BY <1>2 DEF Stop, StopCloses, StopSets, StopTimesOut, StopRecordsTimeout, StopJoins,
                StopGoto, files
  <2> QED
    BY <2>1, <2>2 DEF LeftEmpty
<1>3. CASE WriterStep
  <2> USE DEF LeftEmpty, WriterGoto
  <2>1. CASE WriteRecord \/ WriteFails \/ DrainCounts
    <3>1. /\ stats'.write_error = stats.write_error
          /\ stats'.shutdown_complete = stats.shutdown_complete
      BY <1>0, <2>1 DEF WriteRecord, WriteFails, DrainCounts, StatNames, Counters, Flags
    <3> QED
      BY <2>1, <3>1 DEF WriteRecord, WriteFails, DrainCounts
  <2>2. CASE Flush
    <3>1. /\ stats'.write_error = stats.write_error
          /\ stats'.shutdown_complete = stats.shutdown_complete
      BY <1>0, <2>2 DEF Flush, StatNames, Counters, Flags
    <3> QED
      BY <2>2, <3>1 DEF Flush
  <2>3. CASE Fail
    <3>1. /\ stats'.write_error
          /\ stats'.shutdown_complete = stats.shutdown_complete
      BY <1>0, <2>3 DEF Fail, StatNames, Counters, Flags
    <3> QED
      BY <2>3, <3>1 DEF Fail
  <2>4. CASE Finish
    <3>1. /\ stats'.write_error = stats.write_error
          /\ stats.write_error => stats'.shutdown_complete = stats.shutdown_complete
      BY <1>0, <2>4 DEF Finish, StatNames, Counters, Flags
    <3> QED
      BY <2>4, <3>1 DEF Finish, files
  <2>5. CASE SummaryFails
    <3>1. /\ stats'.write_error = stats.write_error
          /\ stats'.shutdown_complete = stats.shutdown_complete
      BY <1>0, <2>5 DEF SummaryFails, StatNames, Counters, Flags
    <3> QED
      BY <2>5, <3>1 DEF SummaryFails, files
  <2>6. CASE DrainEnds
    BY <2>6 DEF DrainEnds, shared, files, FailureIsSeen
  <2>7. CASE LoopTest \/ GetRecord \/ GetTimesOut \/ MarkInFlight \/ TaskDone
             \/ NoFlushYet \/ FlushFails \/ DrainTakes
    BY <2>7 DEF LoopTest, GetRecord, GetTimesOut, MarkInFlight, TaskDone, NoFlushYet,
         FlushFails, DrainTakes, shared
  <2>8. CASE CloseStream \/ TakeStatus \/ WriteSummary
    BY <2>8 DEF CloseStream, TakeStatus, WriteSummary, shared
  <2> QED
    BY <1>3, <2>1, <2>2, <2>3, <2>4, <2>5, <2>6, <2>7, <2>8 DEF WriterStep
<1> QED
  BY <1>1, <1>2, <1>3 DEF Next
\* The status of a run that has lost nothing: its file is its attempts.
LEMMA CompleteRun ==
  ASSUME CollectorInv, writer = "status", Complete
  PROVE  disk = [i \in 1..stats.attempted |-> i]
<1>1. NothingFailed /\ NothingDropped
  BY DEF Complete, NothingFailed, NothingDropped
<1>2. Lines = [i \in 1..stats.attempted |-> i]
  BY <1>1 DEF CollectorInv, InOrder
<1>3. ~stats.write_error
  BY DEF CollectorInv, LeftEmpty, Complete
<1>4. queue = <<>> /\ buffer = <<>> /\ Held = <<>>
  BY <1>3 DEF CollectorInv, LeftEmpty, Held
<1>5. disk \in Seq(Nat)
  BY HeldShape DEF CollectorInv
<1>6. Lines = disk
  BY <1>4, <1>5 DEF Lines
<1> QED
  BY <1>2, <1>6

LEMMA SaidIsTrueStep ==
  ASSUME CollectorInv, Next
  PROVE  SaidIsTrue'
<1> USE DEF SaidIsTrue
<1>0. stats = [x \in StatNames |-> stats[x]] /\ SaidIsTrue
  BY DEF CollectorInv, CollectorShape, StatsShape
<1>1. CASE try_collect
  <2>1. stats'.shutdown_complete = stats.shutdown_complete
    BY <1>1, AttemptCounts DEF CollectorInv, CollectorShape, StatNames, Counters, Flags
  <2> QED
    BY <1>0, <1>1, <2>1 DEF try_collect, files
<1>2. CASE Stop
  <2>1. stats'.shutdown_complete = stats.shutdown_complete
    BY <1>0, <1>2 DEF Stop, StopCloses, StopSets, StopTimesOut, StopRecordsTimeout,
                      StopJoins, StatNames, Counters, Flags
  <2>2. UNCHANGED <<writer, disk, summary, snapshot>>
    BY <1>2 DEF Stop, StopCloses, StopSets, StopTimesOut, StopRecordsTimeout, StopJoins,
                StopGoto, files
  <2>3. stopResult' = "true" =>
            stopResult = "true" \/ (stats.shutdown_complete /\ writer = "ended")
    BY <1>2 DEF Stop, StopCloses, StopSets, StopTimesOut, StopRecordsTimeout, StopJoins
  <2> QED
    BY <1>0, <2>1, <2>2, <2>3
<1>3. CASE WriterStep
  <2>1. CASE TakeStatus
    <3>1. writer = "status" /\ writer' = "summary" /\ disk' = disk /\ summary' = summary
          /\ stopResult' = stopResult
      BY <2>1 DEF TakeStatus, WriterGoto
    <3>2. /\ snapshot'.complete => Complete
          /\ snapshot'.attempted = stats.attempted
      BY <2>1 DEF TakeStatus
    <3>3. snapshot'.complete => disk' = [i \in 1..snapshot'.attempted |-> i]
      BY <3>1, <3>2, CompleteRun
    <3> QED
      BY <1>0, <3>1, <3>3
  <2>2. CASE WriteSummary
    BY <1>0, <2>2 DEF WriteSummary, WriterGoto
  <2>3. CASE SummaryFails
    BY <1>0, <2>3 DEF SummaryFails, WriterGoto, files
  <2>4. CASE LoopTest \/ GetRecord \/ GetTimesOut \/ MarkInFlight \/ WriteRecord
             \/ WriteFails \/ TaskDone \/ NoFlushYet \/ Flush \/ FlushFails \/ Fail
             \/ DrainTakes \/ DrainCounts \/ DrainEnds \/ CloseStream \/ Finish
    <3>1. /\ writer \notin {"summary", "ended"}
          /\ UNCHANGED <<summary, snapshot, stopResult>>
      BY <2>4 DEF LoopTest, GetRecord, GetTimesOut, MarkInFlight, WriteRecord, WriteFails,
           TaskDone, NoFlushYet, Flush, FlushFails, Fail, DrainTakes, DrainCounts,
           DrainEnds, CloseStream, Finish, WriterGoto, files
    <3> QED
      BY <1>0, <3>1
  <2> QED
    BY <1>3, <2>1, <2>2, <2>3, <2>4 DEF WriterStep
<1> QED
  BY <1>1, <1>2, <1>3 DEF Next

LEMMA CollectorStep == CollectorInv /\ [Next]_vars => CollectorInv'
<1> SUFFICES ASSUME CollectorInv, [Next]_vars PROVE CollectorInv'
  OBVIOUS
<1>1. CASE Next
  <2>1. /\ CollectorShape /\ InOrder /\ Counted /\ FailureIsSeen
        /\ DoorShut /\ LeftEmpty
    BY DEF CollectorInv
  <2> QED
    BY <1>1, <2>1, ShapeStep, InOrderStep, CountedStep, FailureIsSeenStep, DoorShutStep,
       LeftEmptyStep, SaidIsTrueStep DEF CollectorInv
<1>2. CASE UNCHANGED vars
  BY ZenonT(60), <1>2 DEF vars, shared, files, CollectorInv, CollectorShape, StatsShape, LinesShape,
       InOrder, Counted, FailureIsSeen, DoorShut, LeftEmpty, SaidIsTrue, NothingFailed,
       NothingDropped, Lines, Held
<1> QED
  BY <1>1, <1>2

LEMMA CollectorKeepsItsWord == CollectorInv => CompleteIsOnDisk
<1> SUFFICES ASSUME CollectorInv PROVE CompleteIsOnDisk
  OBVIOUS
<1>1. ASSUME stopResult = "true"
      PROVE  Len(disk) = stats.enqueued /\ \A i \in 1..Len(disk) : disk[i] # Partial
  <2>1. writer = "ended" /\ stats.shutdown_complete
    BY <1>1 DEF CollectorInv, SaidIsTrue
  <2>2. ~stats.write_error
    BY <2>1 DEF CollectorInv, LeftEmpty
  <2>3. NothingFailed
    BY <2>1, <2>2 DEF CollectorInv, FailureIsSeen
  <2>4. queue = <<>> /\ buffer = <<>> /\ Held = <<>>
    BY <2>1, <2>2 DEF CollectorInv, LeftEmpty, Held
  <2>5. /\ stats.enqueued = Len(disk) + Len(buffer) + Len(Held) + Len(queue)
        /\ \A i \in 1..Len(disk) : disk[i] # Partial
    BY <2>3 DEF CollectorInv, Counted
  <2>6. Len(disk) \in Nat
    BY HeldShape DEF CollectorInv
  <2> QED
    BY <2>4, <2>5, <2>6
<1> QED
  BY <1>1 DEF CompleteIsOnDisk, CollectorInv, SaidIsTrue

\* Whatever the capacity of the queue and wherever an operation fails: a run
\* that collection_summary.json calls complete has every attempt in its file,
\* in order, and when stop() returned True every enqueued record is there.
THEOREM CompleteIsOnDiskHolds == Spec => []CompleteIsOnDisk
<1>1. Init => CollectorInv
  BY CollectorInit
<1>2. CollectorInv /\ [Next]_vars => CollectorInv'
  BY CollectorStep
<1>3. CollectorInv => CompleteIsOnDisk
  BY CollectorKeepsItsWord
<1> QED
  BY <1>1, <1>2, <1>3, PTL DEF Spec

-----------------------------------------------------------------------------
(* The application *)

\* A step of the application is a step of the recorder or leaves it alone.
LEMMA ApiStepsRecorder == [ApiNext]_<<vars, apiVars>> => [Next]_vars
<1> SUFFICES ASSUME [ApiNext]_<<vars, apiVars>> PROVE [Next]_vars
  OBVIOUS
<1>1. CASE Lifespan \/ BeginShutdown \/ WriterThread
  BY <1>1 DEF Lifespan, LoadService, StartServing, StopRecorder, EndShutdown,
       BeginShutdown, WriterThread, Next
<1>2. ASSUME NEW r \in Requests,
             validation_error(r) \/ Arrives(r) \/ health(r) \/ collection_status(r)
             \/ predict(r) \/ Cancel(r) \/ ThreadReturns(r)
      PROVE  [Next]_vars
  BY <1>2 DEF validation_error, Arrives, health, collection_status, predict, Cancel,
       ThreadReturns, Next
<1>3. CASE UNCHANGED <<vars, apiVars>>
  BY <1>3
<1> QED
  BY <1>1, <1>2, <1>3 DEF ApiNext

\* The recorder inside the application is the recorder: what the handlers,
\* the lifespan and the threads do to it are its own steps.
THEOREM ApiRunsTheRecorder == ApiSpec => Spec
<1>1. ApiInit => Init
  BY DEF ApiInit
<1>2. [ApiNext]_<<vars, apiVars>> => [Next]_vars
  BY ApiStepsRecorder
<1> QED
  BY <1>1, <1>2, PTL DEF ApiSpec, Spec

\* So the application's summary can be believed as well.
THEOREM ApiCompleteIsOnDisk == ApiSpec => []CompleteIsOnDisk
BY ApiRunsTheRecorder, CompleteIsOnDiskHolds, PTL
\* A request that goes from one step to another changes no other request.
LEMMA RequestMoves ==
  ASSUME RequestShape, NEW r \in Requests, NEW to, NEW answer, NEW event
  PROVE  /\ request' = [request EXCEPT ![r].pc = to] =>
                /\ RequestShape' /\ request'[r].pc = to
                /\ request'[r].answer = request[r].answer
                /\ \A s \in Requests \ {r} : request'[s] = request[s]
         /\ request' = [request EXCEPT ![r].pc = to, ![r].answer = answer] =>
                /\ RequestShape' /\ request'[r].pc = to /\ request'[r].answer = answer
                /\ \A s \in Requests \ {r} : request'[s] = request[s]
         /\ request' = [request EXCEPT ![r].pc = to, ![r].event = event] =>
                /\ RequestShape' /\ request'[r].pc = to
                /\ request'[r].answer = request[r].answer
                /\ \A s \in Requests \ {r} : request'[s] = request[s]
         /\ request' = [request EXCEPT ![r].cancelled = TRUE] =>
                /\ RequestShape' /\ request'[r].pc = request[r].pc
                /\ request'[r].answer = request[r].answer
                /\ \A s \in Requests \ {r} : request'[s] = request[s]
<1> USE DEF RequestShape
<1>1. ASSUME request' = [request EXCEPT ![r].pc = to]
      PROVE  /\ RequestShape' /\ request'[r].pc = to
             /\ request'[r].answer = request[r].answer
             /\ \A s \in Requests \ {r} : request'[s] = request[s]
  BY <1>1
<1>2. ASSUME request' = [request EXCEPT ![r].pc = to, ![r].answer = answer]
      PROVE  /\ RequestShape' /\ request'[r].pc = to /\ request'[r].answer = answer
             /\ \A s \in Requests \ {r} : request'[s] = request[s]
  <2>1. request'[r] = [pc |-> to, event |-> request[r].event,
                           cancelled |-> request[r].cancelled, answer |-> answer]
    <3>1. request'[r] = [[request[r] EXCEPT !.pc = to] EXCEPT !.answer = answer]
      BY <1>2
    <3>2. request[r] = [pc |-> request[r].pc, event |-> request[r].event,
                        cancelled |-> request[r].cancelled, answer |-> request[r].answer]
      OBVIOUS
    <3> HIDE DEF RequestShape
    <3> QED
      BY <3>1, <3>2
  <2>2. /\ request' = [s \in Requests |-> request'[s]]
        /\ \A s \in Requests \ {r} : request'[s] = request[s]
    BY <1>2
  <2> QED
    BY <2>1, <2>2
<1>3. ASSUME request' = [request EXCEPT ![r].pc = to, ![r].event = event]
      PROVE  /\ RequestShape' /\ request'[r].pc = to
             /\ request'[r].answer = request[r].answer
             /\ \A s \in Requests \ {r} : request'[s] = request[s]
  <2>1. request'[r] = [pc |-> to, event |-> event,
                           cancelled |-> request[r].cancelled, answer |-> request[r].answer]
    <3>1. request'[r] = [[request[r] EXCEPT !.pc = to] EXCEPT !.event = event]
      BY <1>3
    <3>2. request[r] = [pc |-> request[r].pc, event |-> request[r].event,
                        cancelled |-> request[r].cancelled, answer |-> request[r].answer]
      OBVIOUS
    <3> HIDE DEF RequestShape
    <3> QED
      BY <3>1, <3>2
  <2>2. /\ request' = [s \in Requests |-> request'[s]]
        /\ \A s \in Requests \ {r} : request'[s] = request[s]
    BY <1>3
  <2> QED
    BY <2>1, <2>2
<1>4. ASSUME request' = [request EXCEPT ![r].cancelled = TRUE]
      PROVE  /\ RequestShape' /\ request'[r].pc = request[r].pc
             /\ request'[r].answer = request[r].answer
             /\ \A s \in Requests \ {r} : request'[s] = request[s]
  <2>1. request'[r] = [pc |-> request[r].pc, event |-> request[r].event,
                           cancelled |-> TRUE, answer |-> request[r].answer]
    <3>1. request'[r] = [request[r] EXCEPT !.cancelled = TRUE]
      BY <1>4
    <3>2. request[r] = [pc |-> request[r].pc, event |-> request[r].event,
                        cancelled |-> request[r].cancelled, answer |-> request[r].answer]
      OBVIOUS
    <3> HIDE DEF RequestShape
    <3> QED
      BY <3>1, <3>2
  <2>2. /\ request' = [s \in Requests |-> request'[s]]
        /\ \A s \in Requests \ {r} : request'[s] = request[s]
    BY <1>4
  <2> QED
    BY <2>1, <2>2
<1> QED
  BY <1>1, <1>2, <1>3, <1>4

LEMMA ApiInitInv == ApiInit => ApiInv
<1> SUFFICES ASSUME ApiInit PROVE ApiInv
  OBVIOUS
<1>1. RequestShape /\ Computing = {} /\ NeverDummyInstead
  BY DEF ApiInit, Fresh, RequestShape, Computing, NeverDummyInstead
<1>2. OneToken
  BY <1>1 DEF ApiInit, create_app, OneToken
<1>3. ServiceReady
  BY Zenon DEF ApiInit, create_app, ServiceReady
<1> QED
  BY <1>1, <1>2, <1>3 DEF ApiInv

\* The requests as the application's invariant sees them: who computes, and
\* what was answered.
LEMMA RequestFacts ==
  ASSUME RequestShape, NEW r \in Requests, RequestShape',
         \A s \in Requests \ {r} : request'[s] = request[s]
  PROVE  /\ request'[r].pc = "computing" => Computing' = Computing \cup {r}
         /\ request'[r].pc # "computing" => Computing' = Computing \ {r}
BY DEF Computing

LEMMA FinallyFacts ==
  finally => /\ lifespan' = "down" /\ ~inference_service'
             /\ service_factory => ~inference_ready'
BY DEF finally

LEMMA ApiStep ==
  ASSUME ApiInv, CollectorShape, [ApiNext]_<<vars, apiVars>>
  PROVE  ApiInv'
<1> USE DEF ApiInv
<1>1. CASE Lifespan \/ BeginShutdown \/ WriterThread
  <2>1. request' = request
    BY <1>1 DEF Lifespan, LoadService, StartServing, StopRecorder, EndShutdown,
       BeginShutdown, WriterThread, apiVars
  <2>2. Computing' = Computing /\ RequestShape'
    BY <2>1 DEF Computing, RequestShape
  <2>3. service_factory' = service_factory
    BY <1>1 DEF Lifespan, LoadService, StartServing, StopRecorder, EndShutdown,
       BeginShutdown, WriterThread, apiVars, app
  <2>4. NeverDummyInstead'
    BY <2>1, <2>3 DEF NeverDummyInstead
  <2>5. OneToken'
    BY <1>1, <2>2, <2>3 DEF Lifespan, LoadService, StartServing, StopRecorder, EndShutdown,
       BeginShutdown, WriterThread, apiVars, app, finally, OneToken, MaxConcurrent
  <2>6. ServiceReady'
    <3> USE DEF ServiceReady
    <3>1. CASE LoadService
      <4>1. CASE finally
        BY <2>3, <4>1, FinallyFacts
      <4>2. CASE lifespan' = "loaded" /\ service_factory /\ inference_service'
        BY <2>3, <4>2
      <4>3. CASE /\ lifespan' = "loaded" /\ ~service_factory
                 /\ inference_service' = inference_service
        BY <2>3, <4>3
      <4> QED
        BY <3>1, <4>1, <4>2, <4>3 DEF LoadService
    <3>2. CASE StartServing
      <4>1. CASE finally
        BY <2>3, <4>1, FinallyFacts
      <4>2. CASE lifespan' = "serving" /\ inference_service' = inference_service
        BY <2>3, <3>2, <4>2 DEF StartServing
      <4> QED
        BY <3>2, <4>1, <4>2 DEF StartServing
    <3>3. CASE EndShutdown
      BY <2>3, <3>3, FinallyFacts DEF EndShutdown
    <3>4. CASE BeginShutdown
      BY <2>3, <3>4 DEF BeginShutdown
    <3>5. CASE StopRecorder \/ WriterThread
      BY <2>3, <3>5 DEF StopRecorder, WriterThread, apiVars, app
    <3> QED
      BY <1>1, <3>1, <3>2, <3>3, <3>4, <3>5 DEF Lifespan
  <2> QED
    BY <2>2, <2>4, <2>5, <2>6
<1>2. ASSUME NEW r \in Requests,
             validation_error(r) \/ Arrives(r) \/ health(r) \/ collection_status(r)
             \/ predict(r) \/ Cancel(r) \/ ThreadReturns(r)
      PROVE  ApiInv'
  <2>1. UNCHANGED <<service_factory, config, lifespan, inference_ready, inference_service,
                    feature_collector, recorder>>
    BY <1>2 DEF validation_error, Arrives, health, collection_status, predict, Cancel,
                ThreadReturns, app
  <2>2. ServiceReady'
    BY <2>1 DEF ServiceReady
  <2> DEFINE Others == \A s \in Requests \ {r} : request'[s] = request[s]
             NotDummy(a) == a \notin {"dummy", "healthy dummy"}
             Idle == Computing' = Computing /\ inference_limiter' = inference_limiter
  <2>3. ASSUME RequestShape', Others, NotDummy(request'[r].answer) \/ ~service_factory
        PROVE  NeverDummyInstead'
    BY <2>1, <2>3 DEF NeverDummyInstead
  <2>4. ASSUME Idle PROVE OneToken'
    BY <2>1, <2>4 DEF OneToken
  <2>5. NotDummy(request[r].answer) \/ ~service_factory
    BY DEF NeverDummyInstead
  <2>6. CASE validation_error(r)
    <3>1. /\ RequestShape' /\ Others /\ request'[r].answer = "invalid"
          /\ request[r].pc = "new" /\ request'[r].pc = "done"
      BY <2>6, RequestMoves DEF validation_error, Answers
    <3>2. Idle
      BY <2>6, <3>1, RequestFacts DEF validation_error, app, Computing
    <3> QED
      BY <2>2, <2>3, <2>4, <3>1, <3>2
  <2>7. CASE Arrives(r)
    <3>1. /\ RequestShape' /\ Others /\ request'[r].answer = request[r].answer
          /\ request[r].pc = "new" /\ request'[r].pc = "predict"
      <4>1. PICK e \in Accepted :
                request' = [request EXCEPT ![r].pc = "predict", ![r].event = e]
        BY <2>7 DEF Arrives
      <4> QED
        BY <2>7, <4>1, RequestMoves DEF Arrives
    <3>2. Idle
      BY <2>7, <3>1, RequestFacts DEF Arrives, app, Computing
    <3> QED
      BY <2>2, <2>3, <2>4, <2>5, <3>1, <3>2
  <2>8. CASE health(r)
    <3> DEFINE answer == IF ~inference_ready THEN "model_not_ready"
                         ELSE IF inference_service THEN "healthy random_forest"
                         ELSE "healthy dummy"
    <3>1. NotDummy(answer) \/ ~service_factory
      BY DEF ServiceReady
    <3>2. request[r].pc = "new" /\ request' = [request EXCEPT ![r].pc = "done", ![r].answer = answer]
      BY <2>8 DEF health, Answers
    <3> HIDE DEF answer
    <3>3. RequestShape' /\ Others /\ request'[r].answer = answer /\ request'[r].pc = "done"
      BY <3>2, RequestMoves
    <3>4. Idle
      BY <2>8, <3>2, <3>3, RequestFacts DEF health, app, Computing
    <3> QED
      BY <2>2, <2>3, <2>4, <3>1, <3>3, <3>4
  <2>9. CASE collection_status(r)
    <3> DEFINE answer == IF feature_collector THEN stats.state ELSE "disabled"
    <3>1. NotDummy(answer)
      BY DEF CollectorShape, StatsShape, States
    <3>2. request[r].pc = "new" /\ request' = [request EXCEPT ![r].pc = "done", ![r].answer = answer]
      BY <2>9 DEF collection_status, Answers
    <3> HIDE DEF answer
    <3>3. RequestShape' /\ Others /\ request'[r].answer = answer /\ request'[r].pc = "done"
      BY <3>2, RequestMoves
    <3>4. Idle
      BY <2>9, <3>2, <3>3, RequestFacts DEF collection_status, app, Computing
    <3> QED
      BY <2>2, <2>3, <2>4, <3>1, <3>3, <3>4
  <2>10. CASE predict(r)
    <3>1. CASE Goto(r, "predict", "computing")
               /\ inference_limiter' = inference_limiter - 1
               /\ inference_ready /\ inference_service /\ inference_limiter # 0
      <4>1. /\ RequestShape' /\ Others /\ request'[r].answer = request[r].answer
            /\ request'[r].pc = "computing"
        BY <3>1, RequestMoves DEF Goto
      <4>2. Computing = {} /\ Computing' = {r} /\ inference_limiter' = 0
        BY <3>1, <4>1, RequestFacts DEF OneToken
      <4>3. OneToken'
        BY <2>1, <4>2, <3>1 DEF OneToken, ServiceReady
      <4> QED
        BY <2>2, <2>3, <2>5, <4>1, <4>3
    <3>2. ASSUME NEW answer, Answers(r, "predict", answer),
                 inference_limiter' = inference_limiter,
                 NotDummy(answer) \/ ~service_factory
          PROVE  ApiInv'
      <4>1. /\ RequestShape' /\ Others /\ request'[r].answer = answer
            /\ request[r].pc = "predict" /\ request'[r].pc = "done"
        BY <3>2, RequestMoves DEF Answers
      <4>2. Idle
        BY <3>2, <4>1, RequestFacts DEF Computing
      <4> QED
        BY <2>2, <2>3, <2>4, <3>2, <4>1, <4>2
    <3>3. \/ /\ Goto(r, "predict", "computing")
             /\ inference_limiter' = inference_limiter - 1
             /\ inference_ready /\ inference_service /\ inference_limiter # 0
          \/ /\ inference_limiter' = inference_limiter
             /\ \/ Answers(r, "predict", "model_not_ready")
                \/ Answers(r, "predict", "unsupported")
                \/ Answers(r, "predict", "inference_busy")
                \/ /\ Answers(r, "predict", "dummy")
                   /\ inference_ready /\ ~inference_service
      BY <2>10 DEF predict
    <3>4. inference_ready /\ ~inference_service => ~service_factory
      BY DEF ServiceReady
    <3> QED
      BY <3>1, <3>2, <3>3, <3>4
  <2>11. CASE Cancel(r)
    <3>1. /\ RequestShape' /\ Others /\ request'[r].answer = request[r].answer
          /\ request'[r].pc = request[r].pc
      BY <2>11, RequestMoves DEF Cancel
    <3>2. Idle
      BY <2>11, <3>1, RequestFacts DEF Cancel, app, Computing
    <3> QED
      BY <2>2, <2>3, <2>4, <2>5, <3>1, <3>2
  <2>12. CASE ThreadReturns(r)
    <3>1. PICK answer \in {RfPredict(s) : s \in Scores} \cup {"inference_failed"} :
              Answers(r, "computing", IF request[r].cancelled THEN "none" ELSE answer)
      BY <2>12 DEF ThreadReturns
    <3> DEFINE told == IF request[r].cancelled THEN "none" ELSE answer
    <3>2. NotDummy(told)
      BY <3>1 DEF RfPredict
    <3>3. request[r].pc = "computing" /\ request' = [request EXCEPT ![r].pc = "done", ![r].answer = told]
      BY <3>1 DEF Answers
    <3> HIDE DEF told
    <3>4. RequestShape' /\ Others /\ request'[r].answer = told /\ request'[r].pc = "done"
      BY ZenonT(60), <3>3, RequestMoves
    <3>5. Computing = {r} /\ Computing' = {}
      <4>1. r \in Computing /\ \A s \in Computing : s = r
        BY <3>3 DEF Computing, OneToken
      <4> QED
        BY <3>4, <4>1, RequestFacts
    <3>6. inference_limiter' = 1 /\ lifespan # "off"
      BY <2>12, <3>5 DEF ThreadReturns, OneToken
    <3>7. OneToken'
      BY <2>1, <3>5, <3>6 DEF OneToken
    <3> QED
      BY <2>2, <2>3, <3>2, <3>4, <3>7
  <2> QED
    BY <1>2, <2>6, <2>7, <2>8, <2>9, <2>10, <2>11, <2>12
<1>3. CASE UNCHANGED <<vars, apiVars>>
  BY <1>3 DEF apiVars, app, RequestShape, OneToken, ServiceReady, NeverDummyInstead, Computing
<1> QED
  BY <1>1, <1>2, <1>3 DEF ApiNext
LEMMA ApiInvHolds == ApiSpec => []ApiInv
<1>1. ApiInit => ApiInv
  BY ApiInitInv
<1>2. ApiInit => CollectorInv
  BY CollectorInit DEF ApiInit
<1>3. CollectorInv /\ [ApiNext]_<<vars, apiVars>> => CollectorInv'
  BY ApiStepsRecorder, CollectorStep
<1>4. ApiInv /\ CollectorInv /\ [ApiNext]_<<vars, apiVars>> => ApiInv'
  BY ApiStep DEF CollectorInv
<1> QED
  BY <1>1, <1>2, <1>3, <1>4, PTL DEF ApiSpec

\* For any number of requests, cancelled or not, and whenever the lifespan
\* ends: a slot of the limiter is taken exactly while a prediction thread
\* runs, and at most one runs.
THEOREM SlotsAreThreadsHolds == ApiSpec => []SlotsAreThreads
<1>1. ApiInv => SlotsAreThreads
  <2> SUFFICES ASSUME ApiInv PROVE SlotsAreThreads
    OBVIOUS
  <2> USE DEF MaxConcurrent
  <2>1. OneToken
    BY DEF ApiInv
  <2>2. CASE Computing = {}
    <3>1. Cardinality(Computing) = 0
      BY <2>2, FS_EmptySet
    <3> QED
      BY <2>1, <2>2, <3>1 DEF SlotsAreThreads, OneToken
  <2>3. CASE Computing # {}
    <3>1. PICK r : r \in Computing
      BY <2>3
    <3>2. Computing = {r}
      BY <2>1, <3>1 DEF OneToken
    <3>3. Cardinality(Computing) = 1
      BY <3>2, FS_Singleton
    <3> QED
      BY <2>1, <2>3, <3>3 DEF SlotsAreThreads, OneToken
  <2> QED
    BY <2>2, <2>3
<1> QED
  BY <1>1, ApiInvHolds, PTL

\* An application made for the approved model never gives a dummy answer, in
\* any order of loading, failing, serving and shutting down.
THEOREM NeverDummyInsteadHolds == ApiSpec => []NeverDummyInstead
<1>1. ApiInv => NeverDummyInstead
  BY DEF ApiInv
<1> QED
  BY <1>1, ApiInvHolds, PTL
=============================================================================
