------------------------------- MODULE Replayer -------------------------------
(***************************************************************************)
(* record_replay/src/record_replay.cpp, class Replayer: threads replay or  *)
(* step through one trace file that they share.  A record of the file is   *)
(* its record_sequence, its monotonic_offset_ns and what is wrong with its *)
(* bytes, if anything is.  A timed wait may last any time; the statistics  *)
(* are left out.                                                           *)
(***************************************************************************)
EXTENDS Integers, Sequences

CONSTANTS
  Readers,      \* threads that call Replay or Next
  MaxRecords,   \* bound: records of the file
  MaxResets     \* bound: calls to Reset

ASSUME TraceAssumption == MaxRecords \in Nat /\ MaxResets \in Nat

VARIABLES
  trace,        \* the file after its header
  position,     \* the record the stream is at
  expected,     \* expected_sequence
  lastOffset,   \* last_offset_ns
  eof,          \* eof
  terminal,     \* terminal_error, "none" when not set
  reader,       \* where each thread is, with the locals of Replay
  result,       \* what its last call returned: "Ok" or "failed"
  delivered,    \* positions of the records given to callbacks
  resets        \* calls to Reset

cursor == <<position, expected, lastOffset, eof, terminal>>
vars == <<trace, cursor, reader, result, delivered, resets>>

Damage == {"truncated", "format", "checksum"}

(* What Recorder writes: numbers from 1 on, offsets that never decrease. *)
Written ==
  {t \in UNION {[1..n -> [seq : 1..MaxRecords, offset : 0..1, damage : {"none"}]] :
                  n \in 0..MaxRecords} :
     \A i \in DOMAIN t : t[i].seq = i /\ (i > 1 => t[i - 1].offset <= t[i].offset)}

(* The same with one record damaged, one missing, or one out of time. *)
Damaged ==
  (UNION {{[t EXCEPT ![i].damage = d] : i \in DOMAIN t, d \in Damage} : t \in Written})
  \cup
  (UNION {{[j \in 1..(Len(t) - 1) |-> IF j < i THEN t[j] ELSE t[j + 1]] :
             i \in DOMAIN t \ {Len(t)}} : t \in Written})
  \cup
  (UNION {{[t EXCEPT ![i].offset = 0] :
             i \in {k \in DOMAIN t \ {1} : t[k - 1].offset = 1}} : t \in Written})

Timings == {"AsFastAsPossible", "Original", "Accelerated"}

Idle == [at |-> "idle", timing |-> "none", first |-> -1, record |-> 0]

Init ==
  /\ trace \in Written \cup Damaged
  /\ position = 1 /\ expected = 1 /\ lastOffset = 0
  /\ eof = FALSE /\ terminal = "none"
  /\ reader = [r \in Readers |-> Idle]
  /\ result = [r \in Readers |-> "none"]
  /\ delivered = {} /\ resets = 0

-----------------------------------------------------------------------------
(* NextLocked *)

(* Faulty variant: an error is returned once, the stream is past its end.   *)
Sticky_Not(error) == "none"

Sticky(error) == error

Fails(error) ==
  /\ terminal' = Sticky(error)
  /\ position' = IF error = "truncated" THEN Len(trace) + 1 ELSE position + 1
  /\ UNCHANGED <<expected, lastOffset, eof>>

InSequence(record) ==
  record.seq = expected /\ (record.seq > 1 => record.offset >= lastOffset)

ReadRecord ==
  /\ position' = position + 1
  /\ expected' = expected + 1
  /\ lastOffset' = trace[position].offset
  /\ UNCHANGED <<eof, terminal>>

Return(r, status) ==
  /\ reader' = [reader EXCEPT ![r] = Idle]
  /\ result' = [result EXCEPT ![r] = status]

(* The relative offset is unsigned.  Below the first one it wraps: out of   *)
(* the range of a duration or, divided by the speed, centuries away.        *)
Got(r, i) ==
  LET first == IF reader[r].first = -1 /\ reader[r].timing # "AsFastAsPossible"
               THEN trace[i].offset ELSE reader[r].first
      Goto(at) == /\ reader' = [reader EXCEPT ![r].at = at, ![r].record = i,
                                              ![r].first = first]
                  /\ UNCHANGED result
  IN \/ reader[r].timing = "AsFastAsPossible" /\ Goto("deliver")
     \/ /\ reader[r].timing # "AsFastAsPossible"
        /\ \/ trace[i].offset >= first /\ Goto("wait")
           \/ trace[i].offset < first /\ Return(r, "failed")
           \/ trace[i].offset < first /\ reader[r].timing = "Accelerated" /\ Goto("far")

(* NextLocked and what the caller, Replay or Next in step mode, does with  *)
(* its result: a record is replayed or handed out, anything else returned.  *)
NextLocked(r, replaying) ==
  /\ \/ terminal # "none" /\ Return(r, "failed") /\ UNCHANGED cursor
     \/ /\ terminal = "none" /\ (eof \/ position > Len(trace))
        /\ eof' = TRUE /\ Return(r, "Ok")
        /\ UNCHANGED <<position, expected, lastOffset, terminal>>
     \/ /\ terminal = "none" /\ ~eof /\ position <= Len(trace)
        /\ LET record == trace[position]
               error == IF record.damage # "none" THEN record.damage ELSE "sequence"
           IN IF record.damage = "none" /\ InSequence(record)
              THEN \/ /\ ReadRecord
                      /\ IF replaying THEN Got(r, position)
                         ELSE UNCHANGED <<reader, result>>
                   \/ Fails("allocation") /\ Return(r, "failed")
              ELSE Fails(error) /\ Return(r, "failed")
  /\ UNCHANGED <<trace, delivered, resets>>

-----------------------------------------------------------------------------
(* Replay *)

Replay(r, timing) ==
  /\ reader[r] = Idle
  /\ reader' = [reader EXCEPT ![r] = [Idle EXCEPT !.at = "next", !.timing = timing]]
  /\ UNCHANGED <<trace, cursor, result, delivered, resets>>

ReplayNext(r) ==
  /\ reader[r].at = "next"
  /\ NextLocked(r, TRUE)

(* stop_token, looked at before every record and while waiting. *)
Cancelled(r) ==
  /\ reader[r].at \in {"next", "wait", "far"}
  /\ Return(r, "failed")
  /\ UNCHANGED <<trace, cursor, delivered, resets>>

WaitEnds(r) ==
  /\ reader[r].at = "wait"
  /\ reader' = [reader EXCEPT ![r].at = "deliver"]
  /\ UNCHANGED <<trace, cursor, result, delivered, resets>>

(* The callback; when it fails or throws its status is returned. *)
Deliver(r) ==
  /\ reader[r].at = "deliver"
  /\ delivered' = delivered \cup {reader[r].record}
  /\ \/ /\ reader' = [reader EXCEPT ![r].at = "next", ![r].record = 0]
        /\ UNCHANGED result
     \/ Return(r, "failed")
  /\ UNCHANGED <<trace, cursor, resets>>

-----------------------------------------------------------------------------
(* Next in step mode, and Reset *)

Step(r) ==
  /\ reader[r] = Idle
  /\ NextLocked(r, FALSE)

Reset ==
  /\ resets < MaxResets /\ resets' = resets + 1
  /\ position' = 1 /\ expected' = 1 /\ lastOffset' = 0
  /\ eof' = FALSE /\ terminal' = "none"
  /\ UNCHANGED <<trace, reader, result, delivered>>

ReplayStep(r) == ReplayNext(r) \/ WaitEnds(r) \/ Deliver(r)

Next ==
  \/ \E r \in Readers :
       \/ \E timing \in Timings : Replay(r, timing)
       \/ ReplayStep(r) \/ Cancelled(r) \/ Step(r)
  \/ Reset

Spec == Init /\ [][Next]_vars

(* A replaying thread runs, its waits end and its callback returns. *)
Fairness == \A r \in Readers : WF_vars(ReplayStep(r))

FairSpec == Spec /\ Fairness

-----------------------------------------------------------------------------
(* Properties *)

(* Records before the first one that is damaged, missing or out of time. *)
Intact ==
  {n \in 0..Len(trace) : \A i \in 1..n :
     /\ trace[i].damage = "none" /\ trace[i].seq = i
     /\ i > 1 => trace[i - 1].offset <= trace[i].offset}

(* No record at or behind a damaged, missing or out-of-time one reaches a   *)
(* callback, whichever thread met it and however often Reset is called; a   *)
(* replay returns Ok only if the file is intact to its end, as the thread   *)
(* that meets damage leaves an error for all the others; and only a replay  *)
(* that a Reset takes back before its first record waits for centuries, its *)
(* unsigned relative offset having wrapped (NextLocked and Replay;          *)
(* docs/record-replay.md: corruption is a typed error, no best effort).     *)
DamageIsFatal ==
  /\ delivered \subseteq Intact
  /\ \A r \in Readers :
       /\ result[r] = "Ok" => Len(trace) \in Intact
       /\ reader[r].at = "far" => resets > 0

(* A replay is under way and does not wait for centuries. *)
Replaying(r) == reader[r].at \notin {"idle", "far"}
=============================================================================
