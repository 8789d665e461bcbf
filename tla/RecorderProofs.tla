--------------------------- MODULE RecorderProofs ---------------------------
(***************************************************************************)
(* Proofs about the Recorder for any number of producers and stoppers, any *)
(* queue capacity, both overflow policies and any bounds.                  *)
(*                                                                         *)
(* None of the properties is inductive.  What makes them so is a picture   *)
(* of the pipeline: file, then the record the writer holds, then queue.    *)
(* Numbers are consecutive along it, offsets do not decrease along it, and *)
(* once the writer closes the file the queue is empty and stays so.        *)
(***************************************************************************)
EXTENDS Recorder, SequenceTheorems, TLAPS

Closing == writer \in {"closing", "finished", "exited"}

(* The pipeline: what is in the file, what is about to be, what is queued. *)
Hand == IF writer = "write" THEN record ELSE << >>
Pipeline == file \o (Hand \o queue)

(* Numbered from 1, with non-decreasing offsets that end at last or before.*)
Ordered(q, last) ==
  /\ \A i \in 1 .. Len(q) : q[i].seq = i
  /\ \A i, j \in 1 .. Len(q) : i <= j => q[i].off <= q[j].off
  /\ \A i \in 1 .. Len(q) : q[i].off <= last

(* The writer's local record, its way out, and what a Stop has seen.       *)
WriterInv ==
  /\ Len(record) = IF writer \in {"write", "count"} THEN 1 ELSE 0
  /\ Closing => stopping /\ queue = << >>
  /\ writerStatus # "Ok" => Closing
  /\ torn => writerStatus # "Ok"
  /\ \A s \in Stoppers :
       stopResult[s] = "Ok" => writer = "exited" /\ writerStatus = "Ok"

PipelineInv ==
  /\ Ordered(Pipeline, lastRecordOffset)
  /\ stats.accepted = nextRecordSequence - 1
  /\ Len(Pipeline) < nextRecordSequence
  /\ writerStatus = "Ok" => Len(Pipeline) = nextRecordSequence - 1

IInv == TypeOK /\ WriterInv /\ PipelineInv /\ Conservation

USE DEF numberVars, statusVars, countVars, fileVars, writerVars, captureVars,
        recordVars, stopVars
-----------------------------------------------------------------------------
(* Appending the next number with an offset not before the last one keeps  *)
(* a sequence of records ordered.                                          *)
LEMMA OrderedAppend ==
  ASSUME NEW q \in Seq(Records), NEW last \in Nat, NEW r \in Records,
         Ordered(q, last), r.seq = Len(q) + 1, last <= r.off
  PROVE  Ordered(Append(q, r), r.off)
<1> DEFINE t == Append(q, r)
<1>0. \A i \in 1 .. Len(q) : q[i] \in Records
  BY Zenon, ElementOfSeq
<1>1. /\ Len(t) = Len(q) + 1 /\ Len(q) \in Nat
      /\ \A i \in 1 .. Len(q) : t[i] = q[i]
      /\ t[Len(q) + 1] = r /\ r.off \in Nat
      /\ \A i \in 1 .. Len(q) : q[i].off \in Nat
  BY <1>0, AppendProperties, LenProperties DEF Records
<1> HIDE DEF t
<1>2. \A i \in 1 .. Len(t) : i \in 1 .. Len(q) \/ i = Len(q) + 1
  BY <1>1
<1>3. \A i \in 1 .. Len(q) : t[i].off <= r.off
  BY <1>1 DEF Ordered
<1>4. \A i \in 1 .. Len(t) : t[i].seq = i /\ t[i].off <= r.off
  BY <1>1, <1>2, <1>3 DEF Ordered
<1>5. ASSUME NEW i \in 1 .. Len(t), NEW j \in 1 .. Len(t), i <= j
      PROVE  t[i].off <= t[j].off
  <2>1. CASE j = Len(q) + 1
    BY Zenon, <1>1, <1>4, <2>1
  <2>2. CASE j \in 1 .. Len(q)
    <3>1. i \in 1 .. Len(q)
      BY <1>1, <1>5, <2>2
    <3> QED
      BY Zenon, <1>1, <1>5, <2>2, <3>1 DEF Ordered
  <2> QED
    BY Zenon, <1>2, <2>1, <2>2
<1>6. Ordered(t, r.off)
  BY Zenon, <1>4, <1>5 DEF Ordered
<1> QED
  BY Zenon, <1>6 DEF t

(* A prefix of an ordered sequence is ordered.                             *)
LEMMA OrderedPrefix ==
  ASSUME NEW f \in Seq(Records), NEW g \in Seq(Records), NEW last \in Nat,
         Ordered(f \o g, last)
  PROVE  Ordered(f, last)
<1>1. /\ Len(f \o g) = Len(f) + Len(g) /\ Len(f) \in Nat /\ Len(g) \in Nat
      /\ \A i \in 1 .. Len(f) : i \in 1 .. Len(f \o g) /\ (f \o g)[i] = f[i]
  BY ConcatProperties, LenProperties
<1> QED
  BY Zenon, <1>1 DEF Ordered

(* Removing the head and putting it in front again changes nothing.        *)
LEMMA HeadThenTail ==
  ASSUME NEW q \in Seq(Records), q # << >>
  PROVE  /\ <<Head(q)>> \in Seq(Records) /\ Len(<<Head(q)>>) = 1
         /\ Tail(q) \in Seq(Records) /\ Len(Tail(q)) = Len(q) - 1
         /\ <<Head(q)>> \o Tail(q) = q
<1>1. /\ Head(q) \in Records /\ Head(q) = q[1]
      /\ Tail(q) \in Seq(Records) /\ Len(Tail(q)) = Len(q) - 1
      /\ \A i \in 1 .. Len(Tail(q)) : Tail(q)[i] = q[i + 1]
  BY HeadTailProperties
<1>2. <<Head(q)>> \in Seq(Records) /\ Len(<<Head(q)>>) = 1 /\ <<Head(q)>>[1] = q[1]
  BY <1>1
<1> DEFINE h == <<Head(q)>>  t == Tail(q)
<1>3. /\ h \o t \in Seq(Records) /\ Len(h \o t) = Len(q)
      /\ \A i \in 1 .. Len(h) + Len(t) : (h \o t)[i] = IF i <= Len(h) THEN h[i] ELSE t[i - Len(h)]
  BY <1>1, <1>2, ConcatProperties, LenProperties
<1>4. Len(q) \in Nat /\ Len(h) = 1 /\ h[1] = q[1] /\ Len(t) = Len(q) - 1
  BY Zenon, <1>1, <1>2, LenProperties
<1>5. \A i \in 1 .. Len(t) : t[i] = q[i + 1]
  BY Zenon, <1>1
<1> HIDE DEF h, t
<1>6. ASSUME NEW i \in 1 .. Len(h \o t) PROVE (h \o t)[i] = q[i]
  BY <1>3, <1>4, <1>5
<1>7. h \o t = q
  BY Zenon, <1>3, <1>6, SeqEqual
<1> QED
  BY Zenon, <1>1, <1>2, <1>7 DEF h, t

(* What RecordAccept appends is a record, not before the previous one.     *)
LEMMA OffsetClamped ==
  ASSUME TypeOK, NEW p \in Producers
  PROVE /\ Offset(p) \in Nat /\ lastRecordOffset <= Offset(p)
        /\ [seq |-> nextRecordSequence, off |-> Offset(p)] \in Records
  BY DEF TypeOK, Offset, Records

(* A counter of the statistics grows by a natural number.                  *)
LEMMA CountersGrow ==
  ASSUME NEW st \in [accepted : Nat, written : Nat, dropped : Nat], NEW n \in Nat
  PROVE /\ [st EXCEPT !.accepted = @ + 1] \in [accepted : Nat, written : Nat, dropped : Nat]
        /\ [st EXCEPT !.written = @ + 1] \in [accepted : Nat, written : Nat, dropped : Nat]
        /\ [st EXCEPT !.dropped = @ + n] \in [accepted : Nat, written : Nat, dropped : Nat]
  OBVIOUS

-----------------------------------------------------------------------------
(* Every step preserves the types.                                         *)
LEMMA TypeStep == TypeOK /\ WriterInv /\ [Next]_vars => TypeOK'
<1> SUFFICES ASSUME TypeOK, WriterInv, [Next]_vars PROVE TypeOK'
  OBVIOUS
<1>1. ASSUME NEW p \in Producers, RecordCapture(p) PROVE TypeOK'
  <2>1. now' \in Nat
    BY <1>1, BoundsAssumption DEF TypeOK, RecordCapture
  <2> QED
    BY <1>1, <2>1 DEF TypeOK, RecordCapture
<1>2. ASSUME NEW p \in Producers, RecordRefuse(p) PROVE TypeOK'
  BY Zenon, <1>2 DEF TypeOK, RecordRefuse, Return
<1>3. ASSUME NEW p \in Producers, RecordDrop(p) PROVE TypeOK'
  <2>1. stats' \in [accepted : Nat, written : Nat, dropped : Nat]
    BY Zenon, <1>3, CountersGrow DEF TypeOK, RecordDrop
  <2>2. /\ producer' \in [Producers -> {"idle", "captured", "blocked", "woken", "notify"}]
        /\ capture' \in [Producers -> Nat]
    BY Zenon, <1>3 DEF TypeOK, RecordDrop, Return
  <2>3. /\ rejected' \in Nat
        /\ UNCHANGED <<policy, queue, numberVars, statusVars, fileVars, writerVars,
                       now, calls, stopVars>>
    BY SMTT(60), <1>3 DEF TypeOK, RecordDrop
  <2> QED
    BY Zenon, <2>1, <2>2, <2>3 DEF TypeOK
<1>4. ASSUME NEW p \in Producers, RecordBlock(p) PROVE TypeOK'
  BY Zenon, <1>4 DEF TypeOK, RecordBlock
<1>5. ASSUME NEW p \in Producers, RecordExpire(p) PROVE TypeOK'
  <2>1. /\ producer' \in [Producers -> {"idle", "captured", "blocked", "woken", "notify"}]
        /\ capture' \in [Producers -> Nat]
    <3>1. CASE Refusing \/ ~Full
      <4>1. producer' = [producer EXCEPT ![p] = "woken"] /\ capture' = capture
        BY Zenon, <1>5, <3>1 DEF RecordExpire
      <4> QED
        BY Zenon, <4>1 DEF TypeOK
    <3>2. CASE ~(Refusing \/ ~Full)
      <4>1. Return(p)
        BY Zenon, <1>5, <3>2 DEF RecordExpire
      <4> QED
        BY Zenon, <4>1 DEF TypeOK, Return
    <3> QED
      BY Zenon, <3>1, <3>2
  <2> QED
    BY Zenon, <1>5, <2>1 DEF TypeOK, RecordExpire
<1>6. ASSUME NEW p \in Producers, RecordAccept(p) PROVE TypeOK'
  <2> DEFINE r == [seq |-> nextRecordSequence, off |-> Offset(p)]
  <2>1. r \in Records /\ Offset(p) \in Nat
    BY Zenon, OffsetClamped
  <2>2. queue' \in Seq(Records) /\ Len(queue') = Len(queue) + 1
    BY <1>6, <2>1, AppendProperties DEF RecordAccept, TypeOK
  <2>3. stats' \in [accepted : Nat, written : Nat, dropped : Nat]
    BY Zenon, <1>6, CountersGrow DEF TypeOK, RecordAccept
  <2>4. /\ producer' \in [Producers -> {"idle", "captured", "blocked", "woken", "notify"}]
        /\ capture' \in [Producers -> Nat]
    BY Zenon, <1>6 DEF TypeOK, RecordAccept
  <2>5. Len(queue') <= QueueCapacity
    BY <1>6, <2>2, QueueCapacityAssumption DEF TypeOK, RecordAccept, Full
  <2> HIDE DEF r
  <2>6. /\ lastRecordOffset' \in Nat /\ nextRecordSequence' \in Nat \ {0}
        /\ UNCHANGED <<policy, statusVars, rejected, fileVars, writerVars, now,
                       calls, stopVars>>
    BY SMTT(60), <1>6, <2>1 DEF TypeOK, RecordAccept
  <2> QED
    BY Zenon, <2>2, <2>3, <2>4, <2>5, <2>6 DEF TypeOK
<1>7. ASSUME NEW p \in Producers, RecordNotify(p) PROVE TypeOK'
  BY Zenon, <1>7 DEF TypeOK, RecordNotify, NotEmptyNotified
<1>8. CASE WriterSleep
  BY Zenon, <1>8 DEF TypeOK, WriterSleep
<1>9. CASE WriterTake
  <2>1. /\ queue' \in Seq(Records) /\ Len(queue') <= QueueCapacity
        /\ record' \in Seq(Records) /\ Len(record') = 1
    BY <1>9, HeadThenTail, QueueCapacityAssumption DEF WriterTake, TypeOK, Oldest
  <2> QED
    BY <1>9, <2>1 DEF TypeOK, WriterTake, NotFullNotified
<1>10. CASE WriterWrite
  <2>1. file' \in Seq(Records)
    BY Zenon, <1>10, ConcatProperties DEF WriterWrite, TypeOK
  <2> QED
    BY Zenon, <1>10, <2>1 DEF TypeOK, WriterWrite
<1>11. CASE WriterCount
  <2>1. stats' \in [accepted : Nat, written : Nat, dropped : Nat]
    BY Zenon, <1>11, CountersGrow DEF TypeOK, WriterCount
  <2> QED
    BY SMTT(60), <1>11, <2>1 DEF TypeOK, WriterCount
<1>12. CASE FailWriter
  <2>1. Lost \in Nat
    BY DEF TypeOK, Lost
  <2>2. stats' \in [accepted : Nat, written : Nat, dropped : Nat]
    BY Zenon, <1>12, <2>1, CountersGrow DEF TypeOK, FailWriter
  <2> QED
    BY SMTT(60), <1>12, <2>2, QueueCapacityAssumption DEF TypeOK, FailWriter, NotFullNotified
<1>13. CASE WriterStop
  BY Zenon, <1>13 DEF TypeOK, WriterStop
<1>14. CASE WriterClose
  BY Zenon, <1>14 DEF TypeOK, WriterClose
<1>15. CASE WriterExit
  BY Zenon, <1>15 DEF TypeOK, WriterExit, NotFullNotified
<1>16. ASSUME NEW s \in Stoppers, StopCall(s) PROVE TypeOK'
  BY Zenon, <1>16 DEF TypeOK, StopCall
<1>17. ASSUME NEW s \in Stoppers, StopLock(s) PROVE TypeOK'
  BY Zenon, <1>17 DEF TypeOK, StopLock
<1>18. ASSUME NEW s \in Stoppers, StopRequest(s) PROVE TypeOK'
  BY <1>18 DEF TypeOK, StopRequest, NotEmptyNotified, NotFullNotified
<1>19. ASSUME NEW s \in Stoppers, StopExpire(s) PROVE TypeOK'
  BY Zenon, <1>19 DEF TypeOK, StopExpire
<1>20. ASSUME NEW s \in Stoppers, StopJoin(s) PROVE TypeOK'
  BY Zenon, <1>20 DEF TypeOK, StopJoin
<1>21. CASE UNCHANGED vars
  BY Zenon, <1>21 DEF TypeOK, vars
<1> QED
  BY Zenon, <1>1, <1>2, <1>3, <1>4, <1>5, <1>6, <1>7, <1>8, <1>9, <1>10, <1>11,
     <1>12, <1>13, <1>14, <1>15, <1>16, <1>17, <1>18, <1>19, <1>20, <1>21
  DEF Next, RecordReturn, WriterStep, StopStep


-----------------------------------------------------------------------------
(* The constructor's state satisfies the invariant.                        *)
LEMMA InitIInv == Init => IInv
<1> SUFFICES ASSUME Init PROVE IInv
  OBVIOUS
<1>1. TypeOK
  <2>1. stats \in [accepted : Nat, written : Nat, dropped : Nat]
    BY Zenon DEF Init
  <2>2. queue \in Seq(Records) /\ file \in Seq(Records) /\ record \in Seq(Records)
    BY Zenon, EmptySeq DEF Init
  <2>3. /\ producer \in [Producers -> {"idle", "captured", "blocked", "woken", "notify"}]
        /\ capture \in [Producers -> Nat]
    BY Zenon DEF Init
  <2>4. /\ stopper \in [Stoppers -> {"idle", "called", "locked", "blocked", "woken"}]
        /\ stopResult \in [Stoppers -> {"none", "Ok", "TransportError", "Timeout"}]
    BY Zenon DEF Init
  <2>5. Len(queue) <= QueueCapacity /\ Len(record) <= 1
    BY QueueCapacityAssumption DEF Init
  <2>6. /\ policy \in OverflowPolicies /\ now \in Nat /\ calls \in Nat /\ rejected \in Nat
        /\ nextRecordSequence \in Nat \ {0} /\ lastRecordOffset \in Nat
    BY DEF Init
  <2>7. stopping \in BOOLEAN /\ writerFinished \in BOOLEAN /\ torn \in BOOLEAN
    BY Zenon DEF Init
  <2>8. /\ writerStatus \in {"Ok", "TransportError"} /\ writer = "check"
        /\ joinMutex \in Stoppers \cup {NoThread}
    BY Zenon DEF Init
  <2> QED
    BY Zenon, <2>1, <2>2, <2>3, <2>4, <2>5, <2>6, <2>7, <2>8 DEF TypeOK
<1>2. WriterInv /\ Conservation
  BY DEF Init, WriterInv, Conservation, Closing
<1>3. Pipeline = << >>
  BY DEF Init, Pipeline, Hand
<1>4. PipelineInv
  BY <1>3 DEF Init, PipelineInv, Ordered
<1> QED
  BY Zenon, <1>1, <1>2, <1>4 DEF IInv

(* The writer's hand holds at most one record.                             *)
LEMMA HandType ==
  ASSUME TypeOK
  PROVE  Hand \in Seq(Records) /\ Pipeline \in Seq(Records)
<1>1. Hand \in Seq(Records)
  BY Zenon, EmptySeq DEF TypeOK, Hand
<1> QED
  BY Zenon, <1>1, ConcatProperties DEF TypeOK, Pipeline

(* Concatenation of record sequences is associative.                       *)
LEMMA Regroup ==
  ASSUME NEW a \in Seq(Records), NEW b \in Seq(Records), NEW c \in Seq(Records)
  PROVE  (a \o b) \o c = a \o (b \o c)
  BY ConcatAssociative

(* RecordAccept appends to the pipeline.                                   *)
LEMMA AcceptStep ==
  ASSUME IInv, NEW p \in Producers, RecordAccept(p)
  PROVE  PipelineInv'
<1> DEFINE r == [seq |-> nextRecordSequence, off |-> Offset(p)]
<1>1. /\ r \in Records /\ r.seq = nextRecordSequence /\ r.off = Offset(p)
      /\ Offset(p) \in Nat /\ lastRecordOffset <= Offset(p)
  BY Zenon, OffsetClamped DEF IInv
<1>2. /\ queue' = Append(queue, r) /\ lastRecordOffset' = r.off
      /\ nextRecordSequence' = nextRecordSequence + 1
      /\ UNCHANGED <<writer, record, file, writerStatus>>
  BY Zenon, <1>1 DEF RecordAccept
<1> HIDE DEF r
<1>3. writerStatus = "Ok"
  BY Zenon DEF RecordAccept, Refusing, IInv, TypeOK
<1>4. Hand' = Hand
  BY Zenon, <1>2 DEF Hand
<1>5. Pipeline' = Append(Pipeline, r)
  <2>1. /\ Hand \in Seq(Records) /\ file \in Seq(Records) /\ queue \in Seq(Records)
        /\ Hand \o queue \in Seq(Records) /\ <<r>> \in Seq(Records)
    BY <1>1, HandType, ConcatProperties DEF IInv, TypeOK
  <2>2. queue' = queue \o <<r>>
    BY Zenon, <1>1, <1>2, <2>1, AppendIsConcat
  <2>3. Hand \o queue' = (Hand \o queue) \o <<r>>
    BY <2>1, <2>2, Regroup
  <2>4. file \o (Hand \o queue') = (file \o (Hand \o queue)) \o <<r>>
    <3> DEFINE b == Hand \o queue
               c == <<r>>
    <3>1. file \in Seq(Records) /\ b \in Seq(Records) /\ c \in Seq(Records)
      BY Zenon, <2>1
    <3> HIDE DEF b, c
    <3>2. (file \o b) \o c = file \o (b \o c)
      BY Zenon, <3>1, Regroup
    <3> QED
      BY Zenon, <2>3, <3>2 DEF b, c
  <2>5. Pipeline \in Seq(Records) /\ Append(Pipeline, r) = Pipeline \o <<r>>
    BY Zenon, <1>1, HandType, AppendIsConcat DEF IInv
  <2> QED
    BY Zenon, <1>2, <1>4, <2>4, <2>5 DEF Pipeline
<1>6. /\ Pipeline \in Seq(Records) /\ Len(Pipeline) \in Nat
      /\ Len(Pipeline) = nextRecordSequence - 1
      /\ nextRecordSequence \in Nat /\ lastRecordOffset \in Nat
  BY Zenon, <1>3, HandType, LenProperties DEF IInv, TypeOK, PipelineInv
<1>7. Len(Pipeline') = Len(Pipeline) + 1
  BY Zenon, <1>1, <1>5, <1>6, AppendProperties
<1>8. Ordered(Pipeline', lastRecordOffset')
  BY <1>1, <1>2, <1>5, <1>6, OrderedAppend DEF IInv, PipelineInv
<1>9. stats'.accepted = stats.accepted + 1
  BY Zenon DEF RecordAccept, IInv, TypeOK
<1> QED
  BY <1>2, <1>6, <1>7, <1>8, <1>9 DEF IInv, PipelineInv, TypeOK

(* WriterTake moves the head of the queue into the writer's hand.          *)
LEMMA TakeStep == ASSUME IInv, WriterTake PROVE Pipeline' = Pipeline
<1>1. /\ <<Head(queue)>> \in Seq(Records) /\ Tail(queue) \in Seq(Records)
      /\ <<Head(queue)>> \o Tail(queue) = queue /\ queue \in Seq(Records)
  BY Zenon, HeadThenTail DEF IInv, TypeOK, WriterTake
<1>2. /\ Hand = << >> /\ Hand' = <<Head(queue)>> /\ queue' = Tail(queue) /\ file' = file
  BY Zenon DEF WriterTake, Hand, Oldest
<1>3. Hand \o queue = queue
  BY Zenon, <1>1, <1>2, ConcatEmptySeq
<1> QED
  BY Zenon, <1>1, <1>2, <1>3 DEF Pipeline

(* WriterWrite moves the record in the writer's hand into the file.        *)
LEMMA WriteStep == ASSUME IInv, WriterWrite PROVE Pipeline' = Pipeline
<1>1. /\ Hand = record /\ Hand' = << >> /\ file' = file \o record /\ queue' = queue
      /\ file \in Seq(Records) /\ record \in Seq(Records) /\ queue \in Seq(Records)
  BY Zenon DEF WriterWrite, Hand, IInv, TypeOK
<1>2. << >> \o queue = queue
  BY Zenon, <1>1, ConcatEmptySeq
<1>3. (file \o record) \o queue = file \o (record \o queue)
  BY SMTT(60), <1>1, ConcatAssociative
<1> QED
  BY Zenon, <1>1, <1>2, <1>3 DEF Pipeline

(* FailWriter cuts the pipeline down to what the file holds.               *)
LEMMA FailStep == ASSUME IInv, FailWriter PROVE PipelineInv'
<1>1. /\ Hand' = << >> /\ queue' = << >> /\ file' = file /\ file \in Seq(Records)
      /\ writerStatus' # "Ok" /\ UNCHANGED <<nextRecordSequence, lastRecordOffset>>
  BY Zenon DEF FailWriter, Hand, IInv, TypeOK
<1>2. Pipeline' = file
  <2>1. << >> \in Seq(Records) /\ << >> \o << >> = << >>
    BY Zenon, EmptySeq, ConcatEmptySeq
  <2> QED
    BY Zenon, <1>1, <2>1, ConcatEmptySeq DEF Pipeline
<1>3. Hand \o queue \in Seq(Records)
  BY Zenon, HandType, ConcatProperties DEF IInv, TypeOK
<1>4. Ordered(file, lastRecordOffset)
  BY Zenon, <1>1, <1>3, OrderedPrefix DEF IInv, PipelineInv, Pipeline, TypeOK
<1>5. /\ Len(file) <= Len(Pipeline) /\ Len(file) \in Nat /\ Len(Pipeline) \in Nat
      /\ nextRecordSequence \in Nat
  BY <1>1, <1>3, ConcatProperties, LenProperties DEF Pipeline, IInv, TypeOK
<1>6. stats'.accepted = stats.accepted
  BY Zenon DEF FailWriter, IInv, TypeOK
<1> QED
  BY <1>1, <1>2, <1>4, <1>5, <1>6 DEF PipelineInv, IInv

(* A step that leaves the pipeline and the numbers alone.                  *)
LEMMA SamePipeline ==
  ASSUME IInv, Pipeline' = Pipeline, UNCHANGED <<numberVars, writerStatus>>,
         stats'.accepted = stats.accepted
  PROVE  PipelineInv'
  BY Zenon DEF IInv, PipelineInv

(* A step that only moves threads around, wakes them or sets stopping.     *)
Quiet ==
  /\ UNCHANGED <<queue, numberVars, writerStatus, countVars, fileVars, record>>
  /\ writer' = writer \/ (writer \in {"check", "asleep"} /\ writer' \in {"check", "asleep"})
  /\ stopping => stopping'
  /\ \A s \in Stoppers : stopResult'[s] = "Ok" => stopResult[s] = "Ok"

(* Such a step, an enqueue timeout or a Stop call say, keeps everything.   *)
LEMMA QuietStep ==
  ASSUME IInv, Quiet PROVE WriterInv' /\ PipelineInv' /\ Conservation'
<1>1. WriterInv'
  BY Zenon DEF IInv, WriterInv, Closing, Quiet, TypeOK
<1>2. Pipeline' = Pipeline
  BY Zenon DEF Pipeline, Hand, Quiet
<1>3. PipelineInv'
  BY Zenon, <1>2, SamePipeline DEF Quiet
<1>4. Conservation'
  BY Zenon DEF IInv, Conservation, Quiet
<1> QED
  BY Zenon, <1>1, <1>3, <1>4

(* Every step preserves the invariant.                                     *)
LEMMA NextIInv == IInv /\ [Next]_vars => IInv'
<1> SUFFICES ASSUME IInv, [Next]_vars PROVE IInv'
  OBVIOUS
<1>a. TypeOK'
  BY Zenon, TypeStep DEF IInv
<1>b. stats.accepted \in Nat /\ stats.written \in Nat /\ stats.dropped \in Nat /\ rejected \in Nat
  BY Zenon DEF IInv, TypeOK
<1> DEFINE x == Len(record)
           q == Len(queue)
<1>c. /\ x \in Nat /\ q \in Nat
      /\ stats.accepted + rejected = stats.written + x + q + stats.dropped
  BY Zenon, LenProperties DEF IInv, TypeOK, Conservation
<1> SUFFICES WriterInv' /\ PipelineInv' /\ Conservation'
  BY Zenon, <1>a DEF IInv
<1>1. ASSUME NEW p \in Producers,
             RecordCapture(p) \/ RecordRefuse(p) \/ RecordBlock(p) \/ RecordExpire(p)
      PROVE  WriterInv' /\ PipelineInv' /\ Conservation'
  BY <1>1, QuietStep DEF RecordCapture, RecordRefuse, RecordBlock, RecordExpire, Quiet
<1>2. ASSUME NEW p \in Producers, RecordNotify(p)
      PROVE  WriterInv' /\ PipelineInv' /\ Conservation'
  BY Zenon, <1>2, QuietStep DEF RecordNotify, NotEmptyNotified, Quiet
<1>3. ASSUME NEW p \in Producers, RecordDrop(p)
      PROVE  WriterInv' /\ PipelineInv' /\ Conservation'
  <2>1. /\ stats'.accepted = stats.accepted /\ stats'.written = stats.written
        /\ stats'.dropped = stats.dropped + 1
        /\ rejected' = rejected + 1
        /\ UNCHANGED <<queue, numberVars, statusVars, fileVars, writerVars, stopVars>>
    BY Zenon, <1>3 DEF RecordDrop, IInv, TypeOK
  <2>2. Pipeline' = Pipeline
    BY Zenon, <2>1 DEF Pipeline, Hand
  <2>3. WriterInv' /\ PipelineInv'
    BY Zenon, <2>1, <2>2, SamePipeline DEF IInv, WriterInv, Closing
  <2>4. Conservation'
    <3>1. Len(record') = x /\ Len(queue') = q
      BY Zenon, <2>1
    <3> HIDE DEF x, q
    <3>2. stats'.accepted + rejected' = stats'.written + x + q + stats'.dropped
      BY <1>b, <1>c, <2>1
    <3> QED
      BY Zenon, <3>1, <3>2 DEF Conservation
  <2> QED
    BY Zenon, <2>3, <2>4
<1>4. ASSUME NEW p \in Producers, RecordAccept(p)
      PROVE  WriterInv' /\ PipelineInv' /\ Conservation'
  <2>1. /\ stats'.accepted = stats.accepted + 1 /\ stats'.written = stats.written
        /\ stats'.dropped = stats.dropped
        /\ UNCHANGED <<statusVars, rejected, fileVars, writerVars, stopVars>>
    BY Zenon, <1>4 DEF RecordAccept, IInv, TypeOK
  <2>2. ~stopping /\ Len(queue') = Len(queue) + 1
    <3>1. [seq |-> nextRecordSequence, off |-> Offset(p)] \in Records
      BY Zenon, OffsetClamped DEF IInv
    <3>2. queue \in Seq(Records)
      BY Zenon DEF IInv, TypeOK
    <3> QED
      BY <1>4, <3>1, <3>2, AppendProperties DEF RecordAccept, Refusing
  <2>3. WriterInv'
    BY Zenon, <2>1, <2>2 DEF IInv, WriterInv, Closing
  <2>4. Conservation'
    <3>1. Len(record') = x /\ Len(queue') = q + 1
      BY Zenon, <2>1, <2>2
    <3>2. /\ stats'.accepted = stats.accepted + 1 /\ stats'.written = stats.written
          /\ stats'.dropped = stats.dropped /\ rejected' = rejected
      BY Zenon, <2>1
    <3> HIDE DEF x, q
    <3>3. (stats.accepted + 1) + rejected = stats.written + x + (q + 1) + stats.dropped
      BY <1>b, <1>c
    <3> QED
      BY Zenon, <3>1, <3>2, <3>3 DEF Conservation
  <2> QED
    BY Zenon, <1>4, <2>3, <2>4, AcceptStep
<1>5. CASE WriterSleep
  BY Zenon, <1>5, QuietStep DEF WriterSleep, Quiet
<1>6. CASE WriterTake
  <2>1. /\ Len(queue') = Len(queue) - 1 /\ Len(record') = 1
    <3>1. queue \in Seq(Records) /\ queue # << >>
      BY Zenon, <1>6 DEF WriterTake, IInv, TypeOK
    <3> QED
      BY Zenon, <1>6, <3>1, HeadThenTail DEF WriterTake, Oldest
  <2>2. /\ writer = "check" /\ writer' = "write" /\ Len(record) = 0
        /\ UNCHANGED <<numberVars, statusVars, countVars, fileVars, stopVars>>
    BY Zenon, <1>6 DEF WriterTake, IInv, WriterInv
  <2>3. WriterInv'
    BY Zenon, <2>1, <2>2 DEF IInv, WriterInv, Closing
  <2>4. PipelineInv'
    BY Zenon, <1>6, <2>2, TakeStep, SamePipeline
  <2>5. Conservation'
    <3>1. Len(record') = 1 /\ Len(queue') = q - 1 /\ x = 0
      BY Zenon, <2>1, <2>2
    <3> HIDE DEF x, q
    <3>2. stats'.accepted + rejected' = stats'.written + 1 + (q - 1) + stats'.dropped
      BY <1>b, <1>c, <2>2, <3>1
    <3> QED
      BY Zenon, <3>1, <3>2 DEF Conservation
  <2> QED
    BY Zenon, <2>3, <2>4, <2>5
<1>7. CASE WriterWrite
  <2>1. /\ writer = "write" /\ writer' = "count"
        /\ UNCHANGED <<queue, numberVars, statusVars, countVars, torn, record, stopVars>>
    BY Zenon, <1>7 DEF WriterWrite
  <2>2. WriterInv' /\ Conservation'
    BY Zenon, <2>1 DEF IInv, WriterInv, Closing, Conservation
  <2> QED
    BY Zenon, <1>7, <2>1, <2>2, WriteStep, SamePipeline
<1>8. CASE WriterCount
  <2>1. /\ writer = "count" /\ writer' = "check" /\ record' = << >> /\ Len(record) = 1
        /\ stats'.accepted = stats.accepted /\ stats'.written = stats.written + 1
        /\ stats'.dropped = stats.dropped
        /\ UNCHANGED <<queue, numberVars, statusVars, rejected, fileVars, stopVars>>
    BY Zenon, <1>8 DEF WriterCount, IInv, TypeOK, WriterInv
  <2>2. Pipeline' = Pipeline
    BY Zenon, <2>1 DEF Pipeline, Hand
  <2>3. WriterInv' /\ PipelineInv'
    BY Zenon, <2>1, <2>2, SamePipeline DEF IInv, WriterInv, Closing
  <2>4. Conservation'
    <3>1. Len(record') = 0 /\ Len(queue') = q /\ x = 1
      BY Zenon, <2>1
    <3> HIDE DEF x, q
    <3>2. stats'.accepted + rejected' = stats'.written + 0 + q + stats'.dropped
      BY <1>b, <1>c, <2>1, <3>1
    <3> QED
      BY Zenon, <3>1, <3>2 DEF Conservation
  <2> QED
    BY Zenon, <2>3, <2>4
<1>9. CASE FailWriter
  <2>1. /\ writer = "write" /\ writer' = "closing" /\ Len(record) = 1
        /\ record' = << >> /\ queue' = << >> /\ stopping' /\ writerStatus' = "TransportError"
        /\ stats'.accepted = stats.accepted /\ stats'.written = stats.written
        /\ stats'.dropped = stats.dropped + Lost
        /\ UNCHANGED <<rejected, stopResult>>
    BY Zenon, <1>9 DEF FailWriter, IInv, TypeOK, WriterInv
  <2>2. WriterInv'
    BY Zenon, <2>1 DEF IInv, WriterInv, Closing
  <2>3. Conservation'
    <3>1. Len(record') = 0 /\ Len(queue') = 0
      BY Zenon, <2>1
    <3>2. /\ x = 1 /\ stats'.dropped = stats.dropped + (q + 1)
          /\ stats'.accepted = stats.accepted /\ stats'.written = stats.written
          /\ rejected' = rejected
      BY Zenon, <2>1 DEF Lost
    <3> HIDE DEF x, q
    <3>3. stats'.accepted + rejected' = stats'.written + 0 + 0 + stats'.dropped
      BY <1>b, <1>c, <3>2
    <3> QED
      BY Zenon, <3>1, <3>3 DEF Conservation
  <2> QED
    BY Zenon, <1>9, <2>2, <2>3, FailStep
<1>10. CASE WriterStop \/ WriterClose \/ WriterExit
  <2>1. /\ writer \in {"check", "closing", "finished"}
        /\ writer' \in {"closing", "finished", "exited"}
        /\ stopping /\ queue = << >>
        /\ writerStatus = "Ok" \/ writerStatus' # "Ok"
        /\ UNCHANGED <<queue, numberVars, stopping, countVars, fileVars, record, stopResult>>
    BY Zenon, <1>10 DEF WriterStop, WriterClose, WriterExit, Drained, IInv, WriterInv, Closing, TypeOK
  <2>2. WriterInv' /\ Conservation'
    BY Zenon, <2>1 DEF IInv, WriterInv, Closing, Conservation
  <2>3. Pipeline' = Pipeline
    BY Zenon, <2>1 DEF Pipeline, Hand
  <2>4. PipelineInv'
    BY Zenon, <2>1, <2>3 DEF IInv, PipelineInv
  <2> QED
    BY Zenon, <2>2, <2>4
<1>11. ASSUME NEW s \in Stoppers, StopCall(s) \/ StopLock(s) \/ StopExpire(s)
       PROVE  WriterInv' /\ PipelineInv' /\ Conservation'
  <2>1. \A t \in Stoppers : stopResult'[t] = "Ok" => stopResult[t] = "Ok"
    BY Zenon, <1>11 DEF StopCall, StopLock, StopExpire, IInv, TypeOK
  <2> QED
    BY <1>11, <2>1, QuietStep DEF StopCall, StopLock, StopExpire, Quiet
<1>12. ASSUME NEW s \in Stoppers, StopRequest(s)
       PROVE  WriterInv' /\ PipelineInv' /\ Conservation'
  BY Zenon, <1>12, QuietStep DEF StopRequest, NotEmptyNotified, Quiet
<1>13. ASSUME NEW s \in Stoppers, StopJoin(s)
       PROVE  WriterInv' /\ PipelineInv' /\ Conservation'
  <2>1. /\ writer = "exited"
        /\ \A t \in Stoppers : stopResult'[t] = "Ok" =>
                                 stopResult[t] = "Ok" \/ writerStatus = "Ok"
        /\ UNCHANGED <<queue, numberVars, statusVars, countVars, fileVars, writerVars>>
    BY Zenon, <1>13 DEF StopJoin, IInv, TypeOK
  <2>2. WriterInv' /\ Conservation'
    BY Zenon, <2>1 DEF IInv, WriterInv, Closing, Conservation
  <2>3. Pipeline' = Pipeline
    BY Zenon, <2>1 DEF Pipeline, Hand
  <2> QED
    BY Zenon, <2>1, <2>2, <2>3, SamePipeline
<1>14. CASE UNCHANGED vars
  BY Zenon, <1>14, QuietStep DEF vars, Quiet
<1> QED
  BY Zenon, <1>1, <1>2, <1>3, <1>4, <1>5, <1>6, <1>7, <1>8, <1>9, <1>10, <1>11,
     <1>12, <1>13, <1>14
  DEF Next, RecordReturn, WriterStep, StopStep

-----------------------------------------------------------------------------
(* The invariant holds in every reachable state.                           *)
LEMMA Invariance == Spec => []IInv
<1>1. Init => IInv
  BY Zenon, InitIInv
<1>2. IInv /\ [Next]_vars => IInv'
  BY Zenon, NextIInv
<1> QED
  BY <1>1, <1>2, PTL DEF Spec

(* The queue never exceeds queue_capacity and every variable keeps its     *)
(* type, for every number of threads Record wakes at once.                 *)
THEOREM TypeCorrect == Spec => []TypeOK
<1>1. IInv => TypeOK
  BY Zenon DEF IInv
<1> QED
  BY <1>1, Invariance, PTL

(* No record is lost or counted twice between Record, WriterLoop and       *)
(* FailWriter.                                                             *)
THEOREM ConservationHolds == Spec => []Conservation
<1>1. IInv => Conservation
  BY Zenon DEF IInv
<1> QED
  BY <1>1, Invariance, PTL

(* The file is at every instant a prefix of the pipeline, so it is         *)
(* numbered without a gap and ordered in time.                             *)
THEOREM FileReplayableHolds == Spec => []FileReplayable
<1>1. ASSUME IInv PROVE FileReplayable
  <2>1. Hand \o queue \in Seq(Records) /\ file \in Seq(Records)
    BY Zenon, <1>1, HandType, ConcatProperties DEF IInv, TypeOK
  <2>2. Ordered(file, lastRecordOffset) /\ Len(file) \in Nat
    BY Zenon, <1>1, <2>1, OrderedPrefix, LenProperties DEF IInv, PipelineInv, Pipeline, TypeOK
  <2> QED
    BY <2>2 DEF Ordered, FileReplayable
<1> QED
  BY <1>1, Invariance, PTL

(* When Stop answers Ok the writer thread has ended without an error and   *)
(* the pipeline has run dry, so the file holds every accepted record.      *)
THEOREM StopOkMeansDurableHolds == Spec => []StopOkMeansDurable
<1>1. ASSUME IInv PROVE StopOkMeansDurable
  <2> SUFFICES ASSUME NEW s \in Stoppers, stopResult[s] = "Ok"
               PROVE  writer = "exited" /\ Len(file) = stats.accepted /\ ~torn
    BY Zenon DEF StopOkMeansDurable
  <2>1. writer = "exited" /\ writerStatus = "Ok" /\ ~torn
    BY Zenon, <1>1 DEF IInv, WriterInv
  <2>2. Hand = << >> /\ queue = << >> /\ file \in Seq(Records)
    BY Zenon, <1>1, <2>1 DEF IInv, WriterInv, Closing, Hand, TypeOK
  <2>3. Pipeline = file
    <3>1. << >> \in Seq(Records) /\ << >> \o << >> = << >>
      BY Zenon, EmptySeq, ConcatEmptySeq
    <3> QED
      BY Zenon, <2>2, <3>1, ConcatEmptySeq DEF Pipeline
  <2> QED
    BY Zenon, <1>1, <2>1, <2>3 DEF IInv, PipelineInv
<1> QED
  BY <1>1, Invariance, PTL

(* No action accepts a record once stopping is set: RecordAccept is the    *)
(* only one that counts, and it asks for stopping under the same lock.     *)
THEOREM NothingAcceptedAfterStopHolds == Spec => NothingAcceptedAfterStop
<1>1. ASSUME TypeOK, [Next]_vars, stopping PROVE stats'.accepted = stats.accepted
  <2>1. CASE stats' = stats
    BY Zenon, <2>1
  <2>2. ASSUME NEW p \in Producers, RecordDrop(p) PROVE stats'.accepted = stats.accepted
    BY Zenon, <1>1, <2>2 DEF RecordDrop, TypeOK
  <2>3. ASSUME NEW p \in Producers, RecordAccept(p) PROVE FALSE
    BY Zenon, <1>1, <2>3 DEF RecordAccept, Refusing
  <2>4. CASE WriterCount \/ FailWriter
    BY Zenon, <1>1, <2>4 DEF WriterCount, FailWriter, TypeOK
  <2> QED
    BY Zenon, <1>1, <2>1, <2>2, <2>3, <2>4
    DEF Next, RecordReturn, WriterStep, StopStep, vars, RecordCapture, RecordRefuse,
        RecordBlock, RecordExpire, RecordNotify, WriterSleep, WriterTake, WriterWrite,
        WriterStop, WriterClose, WriterExit, StopCall, StopLock, StopRequest,
        StopExpire, StopJoin
<1>2. TypeOK /\ [Next]_vars => [stopping => stats'.accepted = stats.accepted]_vars
  BY Zenon, <1>1
<1> QED
  BY <1>2, TypeCorrect, PTL DEF Spec, NothingAcceptedAfterStop

-----------------------------------------------------------------------------
(* Refinement of the abstract log                                          *)

Numbers(n) == [i \in 1 .. n |-> i]
Durable == [i \in 1 .. Len(file) |-> file[i].seq]

(* The first n numbers, and one more.                                      *)
LEMMA NumbersProperties ==
  ASSUME NEW n \in Nat
  PROVE  /\ Numbers(n) \in Seq(Nat) /\ Len(Numbers(n)) = n
         /\ Append(Numbers(n), Len(Numbers(n)) + 1) = Numbers(n + 1)
         /\ Numbers(0) = << >>
<1>1. ASSUME NEW m \in Nat PROVE Numbers(m) \in Seq(Nat) /\ Len(Numbers(m)) = m
  BY DEF Numbers
<1>2. Append(Numbers(n), n + 1) = Numbers(n + 1)
  <2> DEFINE t == Append(Numbers(n), n + 1)
  <2>1. /\ t \in Seq(Nat) /\ Len(t) = n + 1
        /\ \A i \in 1 .. n : t[i] = Numbers(n)[i]
        /\ t[n + 1] = n + 1
    <3>1. Numbers(n) \in Seq(Nat) /\ Len(Numbers(n)) = n /\ n + 1 \in Nat
      BY <1>1
    <3> QED
      BY <3>1, AppendProperties
  <2>2. Numbers(n + 1) \in Seq(Nat) /\ Len(Numbers(n + 1)) = n + 1
    BY <1>1
  <2> HIDE DEF t
  <2>3. \A i \in 1 .. n + 1 : t[i] = Numbers(n + 1)[i]
    BY <2>1 DEF Numbers
  <2>4. t = Numbers(n + 1)
    BY Zenon, <2>1, <2>2, <2>3, SeqEqual
  <2> QED
    BY Zenon, <2>4 DEF t
<1>3. Numbers(0) = << >>
  BY Zenon, <1>1, EmptySeq
<1> QED
  BY Zenon, <1>1, <1>2, <1>3

DurableIsNumbered ==
  Durable = Numbers(Len(file)) /\ Len(file) \in Nat /\ Len(Durable) = Len(file)

(* Under the invariant the file shows the numbers 1 to its length.         *)
LEMMA DurableNumbers == IInv => DurableIsNumbered
<1> SUFFICES ASSUME IInv PROVE DurableIsNumbered
  OBVIOUS
<1>1. Hand \o queue \in Seq(Records) /\ file \in Seq(Records)
  BY Zenon, HandType, ConcatProperties DEF IInv, TypeOK
<1>2. Ordered(file, lastRecordOffset) /\ Len(file) \in Nat
  BY Zenon, <1>1, OrderedPrefix, LenProperties DEF IInv, PipelineInv, Pipeline, TypeOK
<1>3. Durable = Numbers(Len(file))
  BY Zenon, <1>2 DEF Durable, Numbers, Ordered
<1> QED
  BY Zenon, <1>2, <1>3, NumbersProperties DEF DurableIsNumbered

(* Every step of the recorder is a step of the log: RecordAccept accepts,  *)
(* WriterWrite persists, StopRequest and FailWriter seal.                  *)
LEMMA StepRefines ==
  ASSUME IInv, IInv', [Next]_vars PROVE [Log!Next]_(Log!logVars)
<1>1. ASSUME UNCHANGED <<nextRecordSequence, file, stopping>>
      PROVE  UNCHANGED Log!logVars
  BY Zenon, <1>1 DEF Log!logVars
<1>2. ASSUME UNCHANGED <<nextRecordSequence, file>>, stopping' = TRUE
      PROVE  [Log!Next]_(Log!logVars)
  BY Zenon, <1>2 DEF Log!logVars, Log!Next, Log!Seal, IInv, TypeOK
<1>3. ASSUME NEW p \in Producers, RecordAccept(p) PROVE Log!Accept
  BY SMTT(60), <1>3 DEF RecordAccept, Refusing, Log!Accept, IInv, TypeOK
<1>4. CASE WriterWrite
  <2>1. Len(file') = Len(file) + 1
    <3>1. /\ file' = file \o record /\ Len(record) = 1
          /\ file \in Seq(Records) /\ record \in Seq(Records)
      BY Zenon, <1>4 DEF WriterWrite, IInv, TypeOK, WriterInv
    <3>2. Len(file \o record) = Len(file) + Len(record)
      BY Zenon, <3>1, ConcatProperties
    <3> QED
      BY Zenon, <3>1, <3>2
  <2>2. DurableIsNumbered /\ DurableIsNumbered'
    BY DurableNumbers, PTL
  <2>3. Durable' = Append(Durable, Len(Durable) + 1)
    BY Zenon, <2>1, <2>2, NumbersProperties DEF DurableIsNumbered
  <2>4. Len(Durable) < nextRecordSequence - 1
    <3>1. writerStatus = "Ok" /\ Hand = record /\ Len(record) = 1
      BY Zenon, <1>4 DEF WriterWrite, Hand, IInv, WriterInv, Closing
    <3>2. /\ file \in Seq(Records) /\ Hand \in Seq(Records) /\ queue \in Seq(Records)
          /\ Hand \o queue \in Seq(Records)
      BY Zenon, HandType, ConcatProperties DEF IInv, TypeOK
    <3>3. Len(Pipeline) = Len(file) + (Len(Hand) + Len(queue)) /\ Len(queue) \in Nat
      BY <3>2, ConcatProperties, LenProperties DEF Pipeline
    <3>4. Len(Durable) = Len(file) /\ Len(file) \in Nat
      BY Zenon, <2>2 DEF DurableIsNumbered
    <3>5. Len(Pipeline) = nextRecordSequence - 1
      BY Zenon, <3>1 DEF IInv, PipelineInv
    <3>6. Len(file) < Len(Pipeline)
      BY <3>1, <3>3, <3>4
    <3> QED
      BY Zenon, <3>4, <3>5, <3>6
  <2> QED
    BY Zenon, <1>4, <2>3, <2>4 DEF WriterWrite, Log!Next, Log!Persist, Durable
<1> QED
  BY Zenon, <1>1, <1>2, <1>3, <1>4
  DEF Next, RecordReturn, WriterStep, StopStep, vars, Log!Next, RecordCapture,
      RecordRefuse, RecordDrop, RecordBlock, RecordExpire, RecordNotify, WriterSleep,
      WriterTake, WriterCount, FailWriter, WriterStop, WriterClose, WriterExit,
      StopCall, StopLock, StopRequest, StopExpire, StopJoin

(* The recorder implements the abstract log for every number of threads.   *)
THEOREM Refinement == Spec => ImplementsTraceLog
<1>1. Init => Log!Init
  <2> SUFFICES ASSUME Init PROVE Log!Init
    OBVIOUS
  <2>1. Durable = << >>
    BY Zenon, InitIInv, DurableNumbers, NumbersProperties DEF Init, DurableIsNumbered
  <2> QED
    BY <2>1 DEF Init, Log!Init, Durable
<1>2. IInv /\ IInv' /\ [Next]_vars => [Log!Next]_(Log!logVars)
  BY Zenon, StepRefines
<1> QED
  BY <1>1, <1>2, Invariance, PTL DEF Spec, ImplementsTraceLog, Log!Spec
=============================================================================
