------------------------------ MODULE Recorder ------------------------------
(***************************************************************************)
(* record_replay/src/record_replay.cpp, class Recorder: threads that call  *)
(* Record put records into a bounded queue, one writer thread takes them   *)
(* out and appends them to the trace file, and threads that call Stop ask  *)
(* the writer to drain, wait for it and join it.                           *)
(*                                                                         *)
(* One action is one critical section of impl_->mutex, or one effect that  *)
(* happens between two of them.  The three condition variables are kept: a *)
(* thread in state "blocked" sleeps and only a notify moves it to "woken". *)
(* A record is its record_sequence and its monotonic offset; channel, type *)
(* and payload do not influence any decision after the argument checks.    *)
(***************************************************************************)
EXTENDS Integers, Sequences, FiniteSets

CONSTANTS
  Producers,        \* threads that call Record
  Stoppers,         \* threads that call Stop
  FiniteStoppers,   \* those of them whose Stop has a finite deadline
  QueueCapacity,    \* RecorderConfig::queue_capacity
  OverflowPolicies, \* the values of RecorderConfig::overflow_policy to consider
  MaxRecords,       \* bound: Record calls in a behaviour
  MaxTime,          \* bound: the monotonic clock
  NoThread

ASSUME QueueCapacityAssumption == QueueCapacity \in Nat \ {0}
ASSUME PolicyAssumption == OverflowPolicies \subseteq {"DropNewest", "Block"}
ASSUME BoundsAssumption == MaxRecords \in Nat /\ MaxTime \in Nat
ASSUME ThreadAssumption ==
  FiniteStoppers \subseteq Stoppers /\ NoThread \notin Stoppers

VARIABLES
  policy,              \* RecorderConfig::overflow_policy, fixed by Create
  now,                 \* the latest reading of the monotonic clock
  calls,               \* how many Record calls have begun
  queue,               \* impl_->queue
  nextRecordSequence,
  lastRecordOffset,
  stopping,
  writerStatus,        \* "Ok" or "TransportError"
  writerFinished,
  stats,               \* the counters of RecorderStats a property reads
  rejected,            \* history: Record calls that returned Dropped
  file,                \* the records completely written, in file order
  torn,                \* the file ends in a partly written record
  writer,              \* where the writer thread is
  record,              \* the writer's local PendingRecord
  producer,            \* where each Record call is
  capture,             \* its local capture_now
  joinMutex,           \* owner of join_mutex, or NoThread
  stopper,             \* where each Stop call is
  stopResult           \* what the last Stop of each thread returned

numberVars == <<nextRecordSequence, lastRecordOffset>>
statusVars == <<stopping, writerStatus, writerFinished>>
countVars == <<stats, rejected>>
fileVars == <<file, torn>>
writerVars == <<writer, record>>
captureVars == <<now, capture, calls>>
recordVars == <<producer, captureVars>>
stopVars == <<joinMutex, stopper, stopResult>>
vars == <<policy, queue, numberVars, statusVars, countVars, fileVars, writerVars,
          recordVars, stopVars>>

-----------------------------------------------------------------------------
(* Faulty variants of the definitions below.  No action uses them: each is *)
(* a plausible slip in the code that breaks one of the properties.         *)
NotFullNotifiedNever == producer
RefusingIgnoresStop == writerStatus # "Ok"
OffsetNotClamped(p) == capture[p]
LostBehindWriter == Len(queue)
DrainedIgnoresQueue == TRUE

-----------------------------------------------------------------------------
(* notify_all on not_full, as seen by the threads asleep in Record.        *)
NotFullNotified ==
  [p \in Producers |-> IF producer[p] = "blocked" THEN "woken" ELSE producer[p]]

(* notify_one or notify_all on not_empty: only the writer waits there.     *)
NotEmptyNotified == IF writer = "asleep" THEN "check" ELSE writer

Full == Len(queue) >= QueueCapacity
Refusing == stopping \/ writerStatus # "Ok"
Oldest == Head(queue)
Drained == queue = << >>

(* monotonic_offset_ns: never before the previous accepted record.         *)
Offset(p) ==
  IF capture[p] >= lastRecordOffset THEN capture[p] ELSE lastRecordOffset

(* What a failed write loses: the record it held and all that were queued. *)
Lost == Len(queue) + 1

Init ==
  /\ policy \in OverflowPolicies
  /\ now = 0
  /\ calls = 0
  /\ queue = << >>
  /\ nextRecordSequence = 1
  /\ lastRecordOffset = 0
  /\ stopping = FALSE
  /\ writerStatus = "Ok"
  /\ writerFinished = FALSE
  /\ stats = [accepted |-> 0, written |-> 0, dropped |-> 0]
  /\ rejected = 0
  /\ file = << >>
  /\ torn = FALSE
  /\ writer = "check"
  /\ record = << >>
  /\ producer = [p \in Producers |-> "idle"]
  /\ capture = [p \in Producers |-> 0]
  /\ joinMutex = NoThread
  /\ stopper = [s \in Stoppers |-> "idle"]
  /\ stopResult = [s \in Stoppers |-> "none"]

-----------------------------------------------------------------------------
(* Record                                                                  *)

(* The part before the lock: the arguments are valid and the capture time  *)
(* is read, so two calls can enter the lock in the other order.  The clock *)
(* has moved on by any amount since it was last read.                      *)
RecordCapture(p) ==
  /\ producer[p] = "idle"
  /\ calls < MaxRecords
  /\ calls' = calls + 1
  /\ now' \in now .. MaxTime
  /\ capture' = [capture EXCEPT ![p] = now']
  /\ producer' = [producer EXCEPT ![p] = "captured"]
  /\ UNCHANGED <<policy, queue, numberVars, statusVars, countVars, fileVars,
                 writerVars, stopVars>>

(* A Record call returns and its capture_now is gone.                      *)
Return(p) ==
  /\ producer' = [producer EXCEPT ![p] = "idle"]
  /\ capture' = [capture EXCEPT ![p] = 0]

(* Closed, or the writer's error, both on entry and after the wait.        *)
RecordRefuse(p) ==
  /\ producer[p] \in {"captured", "woken"}
  /\ Refusing
  /\ Return(p)
  /\ UNCHANGED <<policy, queue, numberVars, statusVars, countVars, fileVars,
                 writerVars, now, calls, stopVars>>

RecordDrop(p) ==
  /\ producer[p] = "captured"
  /\ ~Refusing /\ Full
  /\ policy = "DropNewest"
  /\ stats' = [stats EXCEPT !.dropped = @ + 1]
  /\ rejected' = rejected + 1
  /\ Return(p)
  /\ UNCHANGED <<policy, queue, numberVars, statusVars, fileVars, writerVars,
                 now, calls, stopVars>>

(* not_full.wait_until: the predicate is false, the caller sleeps (again). *)
RecordBlock(p) ==
  /\ producer[p] \in {"captured", "woken"}
  /\ ~Refusing /\ Full
  /\ policy = "Block"
  /\ producer' = [producer EXCEPT ![p] = "blocked"]
  /\ UNCHANGED <<policy, queue, numberVars, statusVars, countVars, fileVars,
                 writerVars, captureVars, stopVars>>

(* enqueue_timeout elapses: the predicate is evaluated once more, and the  *)
(* call returns Timeout only when it is still false.                       *)
RecordExpire(p) ==
  /\ producer[p] = "blocked"
  /\ IF Refusing \/ ~Full
       THEN producer' = [producer EXCEPT ![p] = "woken"] /\ UNCHANGED capture
       ELSE Return(p)
  /\ UNCHANGED <<policy, queue, numberVars, statusVars, countVars, fileVars,
                 writerVars, now, calls, stopVars>>

RecordAccept(p) ==
  /\ producer[p] \in {"captured", "woken"}
  /\ ~Refusing /\ ~Full
  /\ lastRecordOffset' = Offset(p)
  /\ nextRecordSequence' = nextRecordSequence + 1
  /\ queue' = Append(queue, [seq |-> nextRecordSequence, off |-> Offset(p)])
  /\ stats' = [stats EXCEPT !.accepted = @ + 1]
  /\ producer' = [producer EXCEPT ![p] = "notify"]
  /\ capture' = [capture EXCEPT ![p] = 0]
  /\ UNCHANGED <<policy, statusVars, rejected, fileVars, writerVars, now, calls,
                 stopVars>>

(* not_empty.notify_one(), after the lock has been released.               *)
RecordNotify(p) ==
  /\ producer[p] = "notify"
  /\ writer' = NotEmptyNotified
  /\ producer' = [producer EXCEPT ![p] = "idle"]
  /\ UNCHANGED <<policy, queue, numberVars, statusVars, countVars, fileVars,
                 record, captureVars, stopVars>>

-----------------------------------------------------------------------------
(* WriterLoop                                                              *)

WriterSleep ==
  /\ writer = "check"
  /\ Drained /\ ~stopping
  /\ writer' = "asleep"
  /\ UNCHANGED <<policy, queue, numberVars, statusVars, countVars, fileVars,
                 record, recordVars, stopVars>>

WriterTake ==
  /\ writer = "check"
  /\ queue # << >>
  /\ record' = <<Oldest>>
  /\ queue' = Tail(queue)
  /\ producer' = NotFullNotified
  /\ writer' = "write"
  /\ UNCHANGED <<policy, numberVars, statusVars, countVars, fileVars, captureVars,
                 stopVars>>

(* SerializeRecord and WriteAll succeed, outside the lock.                 *)
WriterWrite ==
  /\ writer = "write"
  /\ file' = file \o record
  /\ writer' = "count"
  /\ UNCHANGED <<policy, queue, numberVars, statusVars, countVars, torn, record,
                 recordVars, stopVars>>

WriterCount ==
  /\ writer = "count"
  /\ stats' = [stats EXCEPT !.written = @ + 1]
  /\ record' = << >>
  /\ writer' = "check"
  /\ UNCHANGED <<policy, queue, numberVars, statusVars, rejected, fileVars,
                 recordVars, stopVars>>

(* SerializeRecord throws (nothing is written) or WriteAll fails (a part   *)
(* of the record may be in the file), then FailWriter.                     *)
FailWriter ==
  /\ writer = "write"
  /\ torn' \in BOOLEAN
  /\ stats' = [stats EXCEPT !.dropped = @ + Lost]
  /\ queue' = << >>
  /\ record' = << >>
  /\ writerStatus' = "TransportError"
  /\ stopping' = TRUE
  /\ producer' = NotFullNotified
  /\ writer' = "closing"
  /\ UNCHANGED <<policy, numberVars, writerFinished, rejected, file, captureVars,
                 stopVars>>

WriterStop ==
  /\ writer = "check"
  /\ Drained /\ stopping
  /\ writer' = "closing"
  /\ UNCHANGED <<policy, queue, numberVars, statusVars, countVars, fileVars,
                 record, recordVars, stopVars>>

(* fsync and close, either of which may fail, and the last critical        *)
(* section.                                                                *)
WriterClose ==
  /\ writer = "closing"
  /\ writerStatus' \in {writerStatus, "TransportError"}
  /\ writerFinished' = TRUE
  /\ writer' = "finished"
  /\ UNCHANGED <<policy, queue, numberVars, stopping, countVars, fileVars,
                 record, recordVars, stopVars>>

(* finished.notify_all(), not_full.notify_all(), end of the thread.        *)
WriterExit ==
  /\ writer = "finished"
  /\ writer' = "exited"
  /\ producer' = NotFullNotified
  /\ stopper' = [s \in Stoppers |->
                   IF stopper[s] = "blocked" THEN "woken" ELSE stopper[s]]
  /\ UNCHANGED <<policy, queue, numberVars, statusVars, countVars, fileVars,
                 record, captureVars, joinMutex, stopResult>>

-----------------------------------------------------------------------------
(* Stop                                                                    *)

(* A thread calls Stop; after a Timeout it may call it again.              *)
StopCall(s) ==
  /\ stopper[s] = "idle"
  /\ stopResult[s] \in {"none", "Timeout"}
  /\ stopper' = [stopper EXCEPT ![s] = "called"]
  /\ UNCHANGED <<policy, queue, numberVars, statusVars, countVars, fileVars,
                 writerVars, recordVars, joinMutex, stopResult>>

StopLock(s) ==
  /\ stopper[s] = "called"
  /\ joinMutex = NoThread
  /\ joinMutex' = s
  /\ stopper' = [stopper EXCEPT ![s] = "locked"]
  /\ UNCHANGED <<policy, queue, numberVars, statusVars, countVars, fileVars,
                 writerVars, recordVars, stopResult>>

(* The critical section up to finished.wait: reject new records, wake      *)
(* everybody who waits for the queue, and sleep unless the writer is done. *)
StopRequest(s) ==
  /\ stopper[s] = "locked"
  /\ stopping' = TRUE
  /\ IF stopping
       THEN UNCHANGED <<writer, producer>>
       ELSE writer' = NotEmptyNotified /\ producer' = NotFullNotified
  /\ stopper' = [stopper EXCEPT ![s] = IF writerFinished THEN "woken" ELSE "blocked"]
  /\ UNCHANGED <<policy, queue, numberVars, writerStatus, writerFinished,
                 countVars, fileVars, record, captureVars, joinMutex,
                 stopResult>>

(* The deadline passes; Timeout unless the writer has finished meanwhile.  *)
StopExpire(s) ==
  /\ stopper[s] = "blocked"
  /\ s \in FiniteStoppers
  /\ IF writerFinished
       THEN /\ stopper' = [stopper EXCEPT ![s] = "woken"]
            /\ UNCHANGED <<joinMutex, stopResult>>
       ELSE /\ stopper' = [stopper EXCEPT ![s] = "idle"]
            /\ stopResult' = [stopResult EXCEPT ![s] = "Timeout"]
            /\ joinMutex' = NoThread
  /\ UNCHANGED <<policy, queue, numberVars, statusVars, countVars, fileVars,
                 writerVars, recordVars>>

(* writer.join(), then writer_status, which cannot change any more.        *)
StopJoin(s) ==
  /\ stopper[s] = "woken"
  /\ writerFinished
  /\ writer = "exited"
  /\ stopResult' = [stopResult EXCEPT ![s] = writerStatus]
  /\ stopper' = [stopper EXCEPT ![s] = "idle"]
  /\ joinMutex' = NoThread
  /\ UNCHANGED <<policy, queue, numberVars, statusVars, countVars, fileVars,
                 writerVars, recordVars>>

-----------------------------------------------------------------------------
RecordReturn(p) ==
  \/ RecordRefuse(p) \/ RecordDrop(p) \/ RecordBlock(p)
  \/ RecordAccept(p) \/ RecordNotify(p)

WriterStep ==
  \/ WriterSleep \/ WriterTake \/ WriterWrite \/ WriterCount \/ FailWriter
  \/ WriterStop \/ WriterClose \/ WriterExit

StopStep(s) == StopLock(s) \/ StopRequest(s) \/ StopJoin(s)

Next ==
  \/ \E p \in Producers : RecordCapture(p) \/ RecordReturn(p) \/ RecordExpire(p)
  \/ WriterStep
  \/ \E s \in Stoppers : StopCall(s) \/ StopStep(s) \/ StopExpire(s)

Spec == Init /\ [][Next]_vars

(* Every thread the operating system runs makes progress inside a call.    *)
(* Nobody has to call Record or Stop, and nothing forces time to pass: no  *)
(* call may need its timeout in order to return.                           *)
Fairness ==
  /\ WF_vars(WriterStep)
  /\ \A p \in Producers : WF_vars(RecordReturn(p))
  /\ \A s \in Stoppers : WF_vars(StopStep(s))

FairSpec == Spec /\ Fairness

-----------------------------------------------------------------------------
Records == [seq : Nat, off : Nat]

(* Types, and the bound of the queue: however many blocked producers one   *)
(* notify_all wakes, the queue never exceeds queue_capacity.               *)
TypeOK ==
  /\ policy \in OverflowPolicies
  /\ now \in Nat /\ calls \in Nat
  /\ queue \in Seq(Records) /\ Len(queue) <= QueueCapacity
  /\ nextRecordSequence \in Nat \ {0}
  /\ lastRecordOffset \in Nat
  /\ stopping \in BOOLEAN /\ writerFinished \in BOOLEAN /\ torn \in BOOLEAN
  /\ writerStatus \in {"Ok", "TransportError"}
  /\ stats \in [accepted : Nat, written : Nat, dropped : Nat]
  /\ rejected \in Nat
  /\ file \in Seq(Records)
  /\ writer \in {"check", "asleep", "write", "count", "closing", "finished", "exited"}
  /\ record \in Seq(Records) /\ Len(record) <= 1
  /\ producer \in [Producers -> {"idle", "captured", "blocked", "woken", "notify"}]
  /\ capture \in [Producers -> Nat]
  /\ joinMutex \in Stoppers \cup {NoThread}
  /\ stopper \in [Stoppers -> {"idle", "called", "locked", "blocked", "woken"}]
  /\ stopResult \in [Stoppers -> {"none", "Ok", "TransportError", "Timeout"}]

(* Every record that was accepted or refused for a full queue is in        *)
(* exactly one place: counted as written, held by the writer, queued, or   *)
(* counted as dropped, also when a write fails with records behind it.     *)
Conservation ==
  stats.accepted + rejected =
    stats.written + Len(record) + Len(queue) + stats.dropped

(* At every instant, hence also after a crash, the complete records of the *)
(* file are accepted records 1, 2, ..., n with non-decreasing offsets:     *)
(* what Replayer::NextLocked demands of them, although the capture times   *)
(* were read before the lock.                                              *)
FileReplayable ==
  \A i \in 1 .. Len(file) :
    /\ file[i].seq = i
    /\ i > 1 => file[i - 1].off <= file[i].off

(* A Stop that returned Ok has left every accepted record in a file that   *)
(* ends on a record boundary, with the writer joined.                      *)
StopOkMeansDurable ==
  \A s \in Stoppers :
    stopResult[s] = "Ok" =>
      /\ writer = "exited"
      /\ Len(file) = stats.accepted
      /\ ~torn

(* Once Stop or a write error has set stopping, no call is accepted any    *)
(* more, not even one that was asleep in the full queue.                   *)
NothingAcceptedAfterStop ==
  [][stopping => stats'.accepted = stats.accepted]_vars

(* Every Record call returns, even if its timeout never fires, and so does *)
(* every Stop call, also one that queues for join_mutex behind another:    *)
(* the writer always drains or fails, and wakes whoever waits.             *)
CallsReturn ==
  /\ \A p \in Producers : producer[p] # "idle" ~> producer[p] = "idle"
  /\ \A s \in Stoppers : stopper[s] # "idle" ~> stopper[s] = "idle"

(* The recorder implements the abstract log.                               *)
Log == INSTANCE TraceLog WITH
  accepted <- nextRecordSequence - 1,
  durable <- [i \in 1 .. Len(file) |-> file[i].seq],
  sealed <- stopping

ImplementsTraceLog == Log!Spec
=============================================================================
