---------------------------- MODULE ReplayerProofs ----------------------------
(***************************************************************************)
(* Replayer delivers the intact beginning of a trace and nothing else, for *)
(* any number of readers, records and resets.                              *)
(***************************************************************************)
EXTENDS Replayer, TLAPS

Record == [seq : Nat, offset : Nat, damage : Damage \cup {"none"}]

Locals == [at : {"idle", "next", "wait", "far", "deliver"},
           timing : Timings \cup {"none"}, first : Int, record : Nat]

(* Types, as far as the proof needs them. *)
TypeInv ==
  /\ trace \in Seq(Record)
  /\ position \in Nat \ {0} /\ expected \in Nat /\ lastOffset \in Nat
  /\ reader \in [Readers -> Locals]
  /\ result \in [Readers -> {"none", "Ok", "failed"}]
  /\ resets \in Nat

(* Unless an error is kept, everything before the cursor is intact and the *)
(* two fields that NextLocked compares the next record with are those of   *)
(* the record before it.                                                   *)
CursorInv ==
  /\ terminal = "none" =>
       /\ expected = position
       /\ position - 1 \in Intact
       /\ lastOffset = IF position = 1 THEN 0 ELSE trace[position - 1].offset
  /\ eof => Len(trace) \in Intact

(* A thread holds only intact records, and without a Reset the offset of   *)
(* its first one is not behind the cursor.                                 *)
ReaderInv ==
  \A r \in Readers :
    /\ reader[r].at \in {"wait", "far", "deliver"} => reader[r].record \in Intact
    /\ resets = 0 /\ terminal = "none" => reader[r].first <= lastOffset

IInv == TypeInv /\ CursorInv /\ ReaderInv /\ DamageIsFatal

-----------------------------------------------------------------------------
(* What Recorder writes, and every kind of damage to it, is a sequence of   *)
(* records (Init).                                                          *)
LEMMA TraceType == Written \cup Damaged \subseteq Seq(Record)
<1>1. ASSUME NEW n \in Nat, NEW t \in [1..n -> Record]
      PROVE  t \in Seq(Record) /\ Len(t) = n /\ DOMAIN t = 1..n
  OBVIOUS
<1>2. ASSUME NEW t \in Written PROVE \E n \in Nat : t \in [1..n -> Record]
  <2>1. PICK n \in 0..MaxRecords :
           t \in [1..n -> [seq : 1..MaxRecords, offset : 0..1, damage : {"none"}]]
    BY Zenon, <1>2 DEF Written
  <2>2. [seq : 1..MaxRecords, offset : 0..1, damage : {"none"}] \subseteq Record
    BY TraceAssumption DEF Record
  <2> QED
    BY <2>1, <2>2, TraceAssumption
<1>3. ASSUME NEW u \in Damaged PROVE \E n \in Nat : u \in [1..n -> Record]
  <2>1. PICK t \in Written :
          \/ \E i \in DOMAIN t, d \in Damage : u = [t EXCEPT ![i].damage = d]
          \/ \E i \in DOMAIN t \ {Len(t)} :
               u = [j \in 1..(Len(t) - 1) |-> IF j < i THEN t[j] ELSE t[j + 1]]
          \/ \E i \in DOMAIN t : u = [t EXCEPT ![i].offset = 0]
    BY <1>3 DEF Damaged
  <2>2. PICK n \in Nat : t \in [1..n -> Record]
    BY Zenon, <1>2
  <2>3. Len(t) = n /\ DOMAIN t = 1..n
    BY Zenon, <1>1, <2>2
  <2>4. ASSUME NEW i \in DOMAIN t, NEW d \in Damage, u = [t EXCEPT ![i].damage = d]
        PROVE  u \in [1..n -> Record]
    <3>1. [t[i] EXCEPT !.damage = d] \in Record
      BY Zenon, <2>2, <2>3, <2>4 DEF Record
    <3> QED
      BY Zenon, <2>2, <2>3, <2>4, <3>1
  <2>5. ASSUME NEW i \in DOMAIN t \ {Len(t)},
               u = [j \in 1..(Len(t) - 1) |-> IF j < i THEN t[j] ELSE t[j + 1]]
        PROVE  n - 1 \in Nat /\ u \in [1..(n - 1) -> Record]
    BY <2>2, <2>3, <2>5
  <2>6. ASSUME NEW i \in DOMAIN t, u = [t EXCEPT ![i].offset = 0]
        PROVE  u \in [1..n -> Record]
    <3>1. [t[i] EXCEPT !.offset = 0] \in Record
      BY Zenon, <2>2, <2>3 DEF Record
    <3> QED
      BY Zenon, <2>2, <2>3, <2>6, <3>1
  <2> QED
    BY Zenon, <2>1, <2>4, <2>5, <2>6
<1> QED
  BY Zenon, <1>1, <1>2, <1>3

(* The record after an intact beginning belongs to it when it is the one    *)
(* that NextLocked expects (InSequence).                                    *)
LEMMA IntactGrows ==
  ASSUME TypeInv, NEW n \in Intact, n < Len(trace),
         trace[n + 1].damage = "none", trace[n + 1].seq = n + 1,
         n > 0 => trace[n].offset <= trace[n + 1].offset
  PROVE  n + 1 \in Intact
<1>1. Len(trace) \in Nat /\ n \in Nat /\ n + 1 \in 0..Len(trace)
  BY DEF TypeInv, Intact
<1>2. \A i \in 1..(n + 1) : i \in 1..n \/ i = n + 1
  BY <1>1
<1> QED
  BY <1>1, <1>2 DEF Intact

-----------------------------------------------------------------------------
(* The two callers of NextLocked, Replay and Next, with what it did.        *)
Fetch(r) == ReplayNext(r) \/ Step(r)

(* The ways in which Next can end, with what each does to the cursor.      *)
LEMMA FetchCases ==
  ASSUME TypeInv, NEW r \in Readers, Fetch(r)
  PROVE  /\ UNCHANGED <<trace, delivered, resets>>
         /\ \/ terminal # "none" /\ Return(r, "failed") /\ UNCHANGED cursor
            \/ /\ terminal = "none" /\ (eof \/ position > Len(trace))
               /\ eof' = TRUE /\ Return(r, "Ok")
               /\ UNCHANGED <<position, expected, lastOffset, terminal>>
            \/ /\ terminal = "none" /\ ~eof /\ position <= Len(trace)
               /\ trace[position].damage = "none" /\ InSequence(trace[position])
               /\ ReadRecord
               /\ Got(r, position) \/ UNCHANGED <<reader, result>>
            \/ \E error \in Damage \cup {"sequence", "allocation"} :
                 /\ terminal = "none" /\ Fails(error) /\ Return(r, "failed")
<1> DEFINE record == trace[position]
           error == IF record.damage # "none" THEN record.damage ELSE "sequence"
<1>1. ASSUME position <= Len(trace)
      PROVE  error \in Damage \cup {"sequence", "allocation"}
  <2>1. record \in Record
    BY <1>1 DEF TypeInv
  <2> QED
    BY Zenon, <2>1 DEF Record
<1>2. CASE ReplayNext(r)
  BY <1>1, <1>2, Zenon DEF ReplayNext, NextLocked
<1>3. CASE Step(r)
  BY <1>1, <1>3, Zenon DEF Step, NextLocked
<1> QED
  BY Zenon, <1>2, <1>3 DEF Fetch

(* A reader that returns is idle again and has its status.                  *)
LEMMA ReturnEffect ==
  ASSUME TypeInv, NEW r \in Readers, NEW status \in {"Ok", "failed"}, Return(r, status)
  PROVE  /\ reader' = [reader EXCEPT ![r] = Idle] /\ Idle.at = "idle" /\ Idle.first = -1
         /\ reader' \in [Readers -> Locals]
         /\ result' \in [Readers -> {"none", "Ok", "failed"}]
         /\ \A q \in Readers :
              /\ reader'[q] = IF q = r THEN Idle ELSE reader[q]
              /\ result'[q] = IF q = r THEN status ELSE result[q]
  BY DEF TypeInv, Return, Idle, Locals

(* A record that Replay got makes the reader return, or hold it until its   *)
(* time; only one older than the reader's first is centuries away.          *)
LEMMA GotEffect ==
  ASSUME TypeInv, NEW r \in Readers, NEW i \in 1..Len(trace), Got(r, i)
  PROVE  \/ Return(r, "failed")
         \/ \E at \in {"deliver", "wait", "far"}, first \in Int :
              /\ reader' \in [Readers -> Locals] /\ result' = result
              /\ \A q \in Readers \ {r} : reader'[q] = reader[q]
              /\ reader'[r].at = at /\ reader'[r].first = first /\ reader'[r].record = i
              /\ first = reader[r].first \/ first = trace[i].offset
              /\ at = "far" => trace[i].offset < reader[r].first
<1> DEFINE first == IF reader[r].first = -1 /\ reader[r].timing # "AsFastAsPossible"
                    THEN trace[i].offset ELSE reader[r].first
           Goto(at) == /\ reader' = [reader EXCEPT ![r].at = at, ![r].record = i,
                                                   ![r].first = first]
                       /\ result' = result
<1>1. trace[i] \in Record
  BY DEF TypeInv
<1>2. trace[i].offset \in Nat
  BY Zenon, <1>1 DEF Record
<1>3. first \in Int
  BY <1>2 DEF TypeInv, Locals
<1>4. first = reader[r].first \/ first = trace[i].offset
  OBVIOUS
<1>5. trace[i].offset < first => trace[i].offset < reader[r].first
  BY <1>2
<1>6. ASSUME NEW at \in {"deliver", "wait", "far"}, Goto(at)
      PROVE  /\ reader' \in [Readers -> Locals] /\ result' = result
             /\ \A q \in Readers \ {r} : reader'[q] = reader[q]
             /\ reader'[r].at = at /\ reader'[r].first = first /\ reader'[r].record = i
  <2>1. reader \in [Readers -> Locals] /\ i \in Nat
    BY DEF TypeInv
  <2> HIDE DEF first
  <2>2. reader'[r] \in Locals
    BY Zenon, <1>3, <1>6, <2>1 DEF Locals
  <2> QED
    BY <1>6, <2>1, <2>2 DEF Locals
<1>7. \/ Return(r, "failed")
      \/ Goto("deliver") \/ Goto("wait")
      \/ Goto("far") /\ trace[i].offset < first
  BY Zenon DEF Got
<1> HIDE DEF first
<1> QED
  BY Zenon, <1>3, <1>4, <1>5, <1>6, <1>7

-----------------------------------------------------------------------------
(* A call of NextLocked preserves the invariant.                            *)
LEMMA FetchStep ==
  ASSUME IInv, NEW r \in Readers, Fetch(r)
  PROVE  IInv'
<1> USE DEF IInv
<1>1. UNCHANGED <<trace, delivered, resets>> /\ Intact' = Intact
  BY Zenon, FetchCases DEF Intact
<1>2. Len(trace) \in Nat
  BY DEF TypeInv
<1>3. CASE terminal # "none" /\ Return(r, "failed") /\ UNCHANGED cursor
  <2> USE <1>1, <1>3, ReturnEffect
  <2>1. TypeInv'
    BY Zenon DEF TypeInv, cursor
  <2>2. CursorInv'
    BY Zenon DEF CursorInv, cursor
  <2>3. ReaderInv'
    BY Zenon DEF ReaderInv, cursor
  <2>4. DamageIsFatal'
    BY Zenon DEF DamageIsFatal
  <2> QED
    BY Zenon, <2>1, <2>2, <2>3, <2>4
<1>4. CASE /\ terminal = "none" /\ (eof \/ position > Len(trace))
           /\ eof' = TRUE /\ Return(r, "Ok")
           /\ UNCHANGED <<position, expected, lastOffset, terminal>>
  <2> USE <1>1, <1>4, ReturnEffect
  <2>1. TypeInv'
    BY Zenon DEF TypeInv
  <2>2. Len(trace) \in Intact
    <3>1. CASE eof
      BY Zenon, <3>1 DEF CursorInv
    <3>2. CASE position > Len(trace)
      <4>1. position - 1 \in Intact /\ position - 1 \in 0..Len(trace)
        BY Zenon DEF CursorInv, Intact
      <4>2. position - 1 = Len(trace)
        BY <1>2, <3>2, <4>1 DEF TypeInv
      <4> QED
        BY Zenon, <4>1, <4>2
    <3> QED
      BY Zenon, <3>1, <3>2
  <2>3. CursorInv'
    BY Zenon, <2>2 DEF CursorInv
  <2>4. ReaderInv'
    BY DEF ReaderInv, TypeInv
  <2>5. DamageIsFatal'
    BY Zenon, <2>2 DEF DamageIsFatal
  <2> QED
    BY Zenon, <2>1, <2>3, <2>4, <2>5
<1>5. CASE \E error \in Damage \cup {"sequence", "allocation"} :
             /\ terminal = "none" /\ Fails(error) /\ Return(r, "failed")
  <2>1. PICK error \in Damage \cup {"sequence", "allocation"} :
               /\ terminal = "none" /\ Fails(error) /\ Return(r, "failed")
    BY Zenon, <1>5
  <2> USE <1>1, <2>1, ReturnEffect
  <2>2. terminal' # "none" /\ position' \in Nat \ {0} /\ UNCHANGED <<expected, lastOffset, eof>>
    BY <1>2 DEF Fails, Sticky, Damage, TypeInv
  <2>3. TypeInv'
    BY Zenon, <2>2 DEF TypeInv
  <2>4. CursorInv'
    BY Zenon, <2>2 DEF CursorInv
  <2>5. ReaderInv'
    BY Zenon, <2>2 DEF ReaderInv
  <2>6. DamageIsFatal'
    BY Zenon DEF DamageIsFatal
  <2> QED
    BY Zenon, <2>3, <2>4, <2>5, <2>6
<1>6. CASE /\ terminal = "none" /\ ~eof /\ position <= Len(trace)
           /\ trace[position].damage = "none" /\ InSequence(trace[position])
           /\ ReadRecord
           /\ Got(r, position) \/ UNCHANGED <<reader, result>>
  <2>1. position \in 1..Len(trace) /\ trace[position] \in Record
    BY <1>2, <1>6 DEF TypeInv
  <2>2. trace[position].offset \in Nat
    BY Zenon, <2>1 DEF Record
  <2>3. /\ expected = position /\ trace[position].seq = position
        /\ lastOffset = IF position = 1 THEN 0 ELSE trace[position - 1].offset
        /\ position - 1 \in Intact
    BY Zenon, <1>6 DEF CursorInv, InSequence
  <2>4. lastOffset <= trace[position].offset
    BY <1>6, <2>1, <2>2, <2>3 DEF InSequence
  <2>5. position \in Intact
    <3> DEFINE n == position - 1
    <3>1. n \in Intact /\ n < Len(trace) /\ n + 1 = position /\ n \in Nat
      BY <2>1, <2>3
    <3>2. n > 0 => trace[n].offset <= trace[n + 1].offset
      BY <2>1, <2>3, <2>4
    <3> HIDE DEF n
    <3> QED
      BY Zenon, <1>6, <2>3, <3>1, <3>2, IntactGrows
  <2>6. /\ position' = position + 1 /\ expected' = position + 1
        /\ lastOffset' = trace[position].offset /\ eof' = FALSE /\ terminal' = "none"
    BY <1>6, <2>3 DEF ReadRecord
  <2>7. CursorInv'
    BY <1>1, <2>1, <2>5, <2>6 DEF CursorInv
  <2>8. ASSUME reader' \in [Readers -> Locals], result' \in [Readers -> {"none", "Ok", "failed"}]
        PROVE  TypeInv'
    BY <1>1, <2>1, <2>2, <2>6, <2>8 DEF TypeInv
  <2>9. lastOffset \in Nat /\ \A q \in Readers : reader[q].first \in Int
    BY Zenon DEF TypeInv, Locals
  <2>10. ASSUME resets = 0, NEW q \in Readers
         PROVE  reader[q].first <= trace[position].offset
    <3>1. reader[q].first <= lastOffset
      BY Zenon, <1>6, <2>10 DEF ReaderInv
    <3> QED
      BY <2>2, <2>4, <2>9, <3>1
  <2>11. CASE UNCHANGED <<reader, result>>
    <3>1. TypeInv'
      BY Zenon, <2>8, <2>11 DEF TypeInv
    <3>2. ReaderInv'
      BY Zenon, <1>1, <2>6, <2>10, <2>11 DEF ReaderInv
    <3>3. DamageIsFatal'
      BY Zenon, <1>1, <2>11 DEF DamageIsFatal
    <3> QED
      BY Zenon, <2>7, <3>1, <3>2, <3>3
  <2>12. CASE Return(r, "failed")
    <3> USE <1>1, <2>12, ReturnEffect
    <3>1. TypeInv'
      BY Zenon, <2>8
    <3>2. ReaderInv'
      BY <2>2, <2>6, <2>10 DEF ReaderInv
    <3>3. DamageIsFatal'
      BY Zenon DEF DamageIsFatal
    <3> QED
      BY Zenon, <2>7, <3>1, <3>2, <3>3
  <2>13. ASSUME NEW at \in {"deliver", "wait", "far"}, NEW first \in Int,
                reader' \in [Readers -> Locals], result' = result,
                \A q \in Readers \ {r} : reader'[q] = reader[q],
                reader'[r].at = at, reader'[r].first = first, reader'[r].record = position,
                first = reader[r].first \/ first = trace[position].offset,
                at = "far" => trace[position].offset < reader[r].first
         PROVE  IInv'
    <3>1. TypeInv'
      BY Zenon, <2>8, <2>13 DEF TypeInv
    <3>2. resets = 0 => first <= trace[position].offset
      BY <2>2, <2>10, <2>13
    <3>3. ReaderInv'
      BY Zenon, <1>1, <2>5, <2>6, <2>10, <2>13, <3>2 DEF ReaderInv
    <3>4. at = "far" => resets > 0
      BY <2>2, <2>9, <2>10, <2>13 DEF TypeInv
    <3>5. DamageIsFatal'
      BY Zenon, <1>1, <2>13, <3>4 DEF DamageIsFatal
    <3> QED
      BY Zenon, <2>7, <3>1, <3>3, <3>5
  <2>14. CASE Got(r, position)
    BY <2>1, <2>12, <2>13, <2>14, GotEffect
  <2> QED
    BY Zenon, <1>6, <2>11, <2>14
<1> QED
  BY Zenon, <1>3, <1>4, <1>5, <1>6, FetchCases

-----------------------------------------------------------------------------
(* A replayer that was just opened satisfies the invariant.                *)
LEMMA InitInv == Init => IInv
<1> SUFFICES ASSUME Init PROVE IInv
  OBVIOUS
<1>1. trace \in Seq(Record) /\ Len(trace) \in Nat
  BY TraceType DEF Init
<1>2. 0 \in Intact
  BY <1>1 DEF Intact
<1>3. TypeInv
  BY <1>1 DEF Init, TypeInv, Idle, Locals
<1>4. CursorInv /\ ReaderInv /\ DamageIsFatal
  BY <1>2 DEF Init, CursorInv, ReaderInv, DamageIsFatal, Idle
<1> QED
  BY Zenon, <1>3, <1>4 DEF IInv

(* Every other step leaves the cursor alone, except Reset, which puts it    *)
(* back to the beginning.                                                   *)
LEMMA StepInv == IInv /\ [Next]_vars => IInv'
<1> SUFFICES ASSUME IInv, [Next]_vars PROVE IInv'
  OBVIOUS
<1> USE DEF IInv
<1>1. trace' = trace => Intact' = Intact
  BY Zenon DEF Intact
<1>2. ASSUME NEW r \in Readers, NEW timing \in Timings, Replay(r, timing) PROVE IInv'
  <2>1. reader \in [Readers -> Locals] /\ reader[r] = Idle
    BY Zenon, <1>2 DEF TypeInv, Replay
  <2>2. /\ reader' \in [Readers -> Locals]
        /\ \A q \in Readers :
             \/ reader'[q] = reader[q]
             \/ (reader'[q].at = "next" /\ reader'[q].first = reader[q].first)
    BY Zenon, <1>2, <2>1 DEF Replay, Idle, Locals
  <2>3. UNCHANGED <<trace, cursor, result, delivered, resets>>
    BY Zenon, <1>2 DEF Replay
  <2>4. TypeInv' /\ CursorInv'
    BY Zenon, <1>1, <2>2, <2>3 DEF TypeInv, CursorInv, cursor
  <2>5. ReaderInv' /\ DamageIsFatal'
    BY Zenon, <1>1, <2>2, <2>3 DEF ReaderInv, DamageIsFatal, cursor
  <2> QED
    BY Zenon, <2>4, <2>5
<1>3. ASSUME NEW r \in Readers, WaitEnds(r) PROVE IInv'
  <2>1. reader \in [Readers -> Locals]
    BY Zenon DEF TypeInv
  <2>2. /\ reader' \in [Readers -> Locals]
        /\ \A q \in Readers : \/ reader'[q] = reader[q]
                               \/ /\ reader[q].at = "wait" /\ reader'[q].at = "deliver"
                                  /\ reader'[q].first = reader[q].first
                                  /\ reader'[q].record = reader[q].record
    BY Zenon, <1>3, <2>1 DEF WaitEnds, Locals
  <2>3. UNCHANGED <<trace, cursor, result, delivered, resets>>
    BY Zenon, <1>3 DEF WaitEnds
  <2>4. TypeInv' /\ CursorInv'
    BY Zenon, <1>1, <2>2, <2>3 DEF TypeInv, CursorInv, cursor
  <2>5. ReaderInv' /\ DamageIsFatal'
    BY Zenon, <1>1, <2>2, <2>3 DEF ReaderInv, DamageIsFatal, cursor
  <2> QED
    BY Zenon, <2>4, <2>5
<1>4. ASSUME NEW r \in Readers, Deliver(r) PROVE IInv'
  <2>1. reader \in [Readers -> Locals]
    BY Zenon DEF TypeInv
  <2>2. /\ UNCHANGED <<trace, cursor, resets>>
        /\ delivered' = delivered \cup {reader[r].record} /\ reader[r].record \in Intact
    BY Zenon, <1>4 DEF Deliver, ReaderInv
  <2>3. CASE Return(r, "failed")
    <3> USE <1>1, <2>2, <2>3, ReturnEffect
    <3>1. TypeInv' /\ CursorInv'
      BY Zenon DEF TypeInv, CursorInv, cursor
    <3>2. ReaderInv' /\ DamageIsFatal'
      BY DEF ReaderInv, DamageIsFatal, cursor, TypeInv
    <3> QED
      BY Zenon, <3>1, <3>2
  <2>4. CASE /\ reader' = [reader EXCEPT ![r].at = "next", ![r].record = 0]
             /\ UNCHANGED result
    <3>1. /\ reader' \in [Readers -> Locals]
          /\ \A q \in Readers :
               \/ reader'[q] = reader[q]
               \/ (reader'[q].at = "next" /\ reader'[q].first = reader[q].first)
      BY Zenon, <2>1, <2>4 DEF Locals
    <3>2. TypeInv' /\ CursorInv'
      BY Zenon, <1>1, <2>2, <2>4, <3>1 DEF TypeInv, CursorInv, cursor
    <3>3. ReaderInv' /\ DamageIsFatal'
      BY Zenon, <1>1, <2>2, <2>4, <3>1 DEF ReaderInv, DamageIsFatal, cursor
    <3> QED
      BY Zenon, <3>2, <3>3
  <2> QED
    BY Zenon, <1>4, <2>3, <2>4 DEF Deliver
<1>5. ASSUME NEW r \in Readers, Cancelled(r) PROVE IInv'
  <2>1. UNCHANGED <<trace, cursor, delivered, resets>> /\ Return(r, "failed")
    BY Zenon, <1>5 DEF Cancelled
  <2> USE <1>1, <2>1, ReturnEffect
  <2>2. TypeInv' /\ CursorInv'
    BY Zenon DEF TypeInv, CursorInv, cursor
  <2>3. ReaderInv' /\ DamageIsFatal'
    BY DEF ReaderInv, DamageIsFatal, cursor, TypeInv
  <2> QED
    BY Zenon, <2>2, <2>3
<1>6. CASE Reset
  <2>1. UNCHANGED <<trace, reader, result, delivered>> /\ resets' = resets + 1
    BY Zenon, <1>6 DEF Reset
  <2>2. 0 \in Intact
    BY DEF Intact, TypeInv
  <2>3. TypeInv' /\ CursorInv'
    BY <1>1, <1>6, <2>1, <2>2 DEF TypeInv, CursorInv, Reset
  <2>4. resets' > 0
    BY <2>1 DEF TypeInv
  <2>5. ReaderInv' /\ DamageIsFatal'
    BY <1>1, <2>1, <2>4 DEF ReaderInv, DamageIsFatal, TypeInv
  <2> QED
    BY Zenon, <2>3, <2>5
<1>7. CASE UNCHANGED vars
  <2>1. UNCHANGED <<trace, cursor, reader, result, delivered, resets>>
    BY Zenon, <1>7 DEF vars
  <2>2. TypeInv' /\ CursorInv'
    BY Zenon, <1>1, <2>1 DEF TypeInv, CursorInv, cursor
  <2>3. ReaderInv' /\ DamageIsFatal'
    BY Zenon, <1>1, <2>1 DEF ReaderInv, DamageIsFatal, cursor
  <2> QED
    BY Zenon, <2>2, <2>3
<1> QED
  BY Zenon, <1>2, <1>3, <1>4, <1>5, <1>6, <1>7, FetchStep DEF Next, ReplayStep, Fetch

(* Replay and Next give a callback only records of the intact beginning of  *)
(* the trace, return Ok only for an intact one, and a replay is taken back  *)
(* only by a Reset, for any number of threads, records and resets           *)
(* (NextLocked's terminal_error, expected_sequence and last_offset_ns).     *)
THEOREM DamageIsFatalHolds == Spec => []DamageIsFatal
<1>1. IInv => DamageIsFatal
  BY Zenon DEF IInv
<1> QED
  BY <1>1, InitInv, StepInv, PTL DEF Spec
=============================================================================
