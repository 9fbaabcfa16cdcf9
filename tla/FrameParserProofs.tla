------------------------- MODULE FrameParserProofs -------------------------
(***************************************************************************)
(* Theorems about the byte loop of read_from_serial, for every stream,     *)
(* every cutting into reads and every size of the buffers.                 *)
(***************************************************************************)
EXTENDS FrameParser, SequenceTheorems, TLAPS

(* The length of a frame whose header and length field were received. *)
LEMMA FrameLenNat ==
  ASSUME stream \in Seq(Byte), NEW p \in Nat, p + 5 <= Len(stream)
  PROVE  FrameLen(p) \in Nat /\ FrameLen(p) >= 7
<1>1. Len(stream) \in Nat
  BY LenProperties
<1>2. p + 3 + 1 \in 1..Len(stream) /\ p + 4 + 1 \in 1..Len(stream)
  BY <1>1
<1>3. stream[p + 3 + 1] \in Byte /\ stream[p + 4 + 1] \in Byte
  BY <1>2, ElementOfSeq
<1>4. \A a, b \in 0..255 : /\ 5 + (256 * a + b) + 2 \in Nat
                            /\ 5 + (256 * a + b) + 2 >= 7
  OBVIOUS
<1>5. QED
  BY <1>3, <1>4 DEF FrameLen, DataLen, ByteAt, Byte

(* What the three actions that meet a complete frame have in common. *)
LEMMA CompleteFrame ==
  ASSUME TypeOK, NEW p \in cursor..(tail - 1), ~Incomplete(p)
  PROVE  /\ p \in Nat
         /\ FrameLen(p) \in Nat
         /\ FrameLen(p) >= 7
         /\ p + FrameLen(p) <= tail
<1>1. p \in Nat /\ p + 5 <= tail /\ p + 5 <= Len(stream)
  BY DEF TypeOK, Incomplete
<1>2. FrameLen(p) \in Nat /\ FrameLen(p) >= 7
  BY <1>1, FrameLenNat DEF TypeOK
<1>3. QED
  BY <1>1, <1>2 DEF Incomplete, TypeOK

(* Wherever rolling is cut, it stays a stretch of what was received. *)
LEMMA TrimmedInRange ==
  ASSUME TypeOK, NEW p \in Nat, cursor <= p, p <= tail
  PROVE  /\ Trimmed(p) \in Nat
         /\ start <= Trimmed(p)
         /\ Trimmed(p) <= tail
         /\ tail - Trimmed(p) <= RollingMax
BY SizesAssumption DEF TypeOK, Trimmed

-----------------------------------------------------------------------------
(* Type correctness: rolling is always a stretch of the bytes received in  *)
(* the current call, and every packet lies where its header was received.  *)
LEMMA TypeInit == Init => TypeOK
<1> SUFFICES ASSUME Init PROVE TypeOK
  OBVIOUS
<1>1. stream \in Seq(Byte) /\ frames \subseteq 0..(Len(stream) - 1)
  BY InputsAssumption DEF Init
<1>2. QED
  BY <1>1, SizesAssumption DEF Init, TypeOK

(* A search that starts anew at a later byte keeps the types. *)
LEMMA TypeReadAgain ==
  ASSUME TypeOK, NEW p \in Nat, cursor <= p, p <= tail, ReadAgain(p)
  PROVE  TypeOK'
BY TrimmedInRange DEF TypeOK, ReadAgain, input, call

(* Every step of the parser keeps TypeOK. *)
LEMMA TypeNext == TypeOK /\ [Next]_vars => TypeOK'
<1> SUFFICES ASSUME TypeOK, [Next]_vars PROVE TypeOK'
  OBVIOUS
<1>1. CASE Received
  BY <1>1, SizesAssumption DEF Received, TypeOK, input, call
<1>2. CASE Exhausted
  BY <1>2, TypeReadAgain DEF Exhausted, TypeOK
<1>3. CASE NeedMore
  <2>1. PICK p \in cursor..(tail - 1) : ReadAgain(p)
    BY <1>3 DEF NeedMore
  <2>2. QED
    BY <2>1, TypeReadAgain DEF TypeOK
<1>4. CASE EmitFrame
  <2>1. PICK p \in cursor..(tail - 1) :
          ~Incomplete(p) /\ output' = Append(output, p) /\ cursor' = p + FrameLen(p)
    BY <1>4 DEF EmitFrame
  <2>2. QED
    BY <1>4, <2>1, CompleteFrame DEF EmitFrame, TypeOK, input, call
<1>5. CASE LastFrame
  <2>1. PICK p \in cursor..(tail - 1) :
          ~Incomplete(p) /\ output' = Append(output, p) /\ cursor' = p + FrameLen(p)
    BY <1>5 DEF LastFrame
  <2>2. QED
    BY <1>5, <2>1, CompleteFrame DEF LastFrame, TypeOK, input, call
<1>6. CASE SkipFrame
  <2>1. PICK p \in cursor..(tail - 1) :
          ~Incomplete(p) /\ cursor' = p + FrameLen(p)
    BY <1>6 DEF SkipFrame
  <2>2. QED
    BY <1>6, <2>1, CompleteFrame DEF SkipFrame, TypeOK, input, call
<1>7. CASE TimedOut \/ Eof \/ ReadError
  BY <1>7 DEF TimedOut, Eof, ReadError, Return, TypeOK, input, call
<1>8. CASE NextCall
  BY <1>8 DEF NextCall, TypeOK, input
<1>9. CASE UNCHANGED vars
  BY <1>9 DEF vars, TypeOK
<1>10. QED
  BY <1>1, <1>2, <1>3, <1>4, <1>5, <1>6, <1>7, <1>8, <1>9 DEF Next

(* TypeOK for every stream and every size of buffer (read_from_serial,     *)
(* connector/sync.rs).                                                     *)
THEOREM TypeCorrect == Spec => []TypeOK
<1>1. QED
  BY TypeInit, TypeNext, PTL DEF Spec

-----------------------------------------------------------------------------
(* The cap bounds rolling: what a call holds between two reads never       *)
(* exceeds RollingMax bytes, on any line, noise included.                  *)
THEOREM Bounded == Spec => []RollingBounded
<1>1. Init => RollingBounded
  BY SizesAssumption DEF Init, RollingBounded
<1>2. TypeOK /\ RollingBounded /\ [Next]_vars => RollingBounded'
  <2> SUFFICES ASSUME TypeOK, RollingBounded, [Next]_vars PROVE RollingBounded'
    OBVIOUS
  <2> USE SizesAssumption DEF TypeOK, RollingBounded
  <2>1. CASE Received
    BY <2>1 DEF Received
  <2>2. CASE Exhausted
    BY <2>2, TrimmedInRange DEF Exhausted, ReadAgain
  <2>3. CASE NeedMore
    <3>1. PICK p \in cursor..(tail - 1) : ReadAgain(p)
      BY <2>3 DEF NeedMore
    <3>2. QED
      BY <3>1, TrimmedInRange DEF ReadAgain
  <2>4. CASE EmitFrame \/ LastFrame \/ SkipFrame
    BY <2>4 DEF EmitFrame, LastFrame, SkipFrame
  <2>5. CASE TimedOut \/ Eof \/ ReadError
    BY <2>5 DEF TimedOut, Eof, ReadError, Return
  <2>6. CASE NextCall
    BY <2>6 DEF NextCall
  <2>7. CASE UNCHANGED vars
    BY <2>7 DEF vars
  <2>8. QED
    BY <2>1, <2>2, <2>3, <2>4, <2>5, <2>6, <2>7 DEF Next
<1>3. QED
  BY <1>1, <1>2, TypeCorrect, PTL DEF Spec

-----------------------------------------------------------------------------
(* Answers: AnswerSize is inductive once a running call is known to have   *)
(* no result yet.                                                          *)
Running == pc # "done" => result = "none"

(* AnswerSize for every stream: a read that returns Ok(Some) holds between *)
(* one packet and as many as were asked for, and one that times out holds  *)
(* none.                                                                   *)
THEOREM Answers == Spec => []AnswerSize
<1>1. Init => AnswerSize /\ Running
  BY SizesAssumption DEF Init, AnswerSize, Running
<1>2. TypeOK /\ AnswerSize /\ Running /\ [Next]_vars => (AnswerSize /\ Running)'
  <2> SUFFICES ASSUME TypeOK, AnswerSize, Running, [Next]_vars
               PROVE  (AnswerSize /\ Running)'
    OBVIOUS
  <2> USE SizesAssumption DEF TypeOK, AnswerSize, Running, call
  <2>1. CASE Received
    BY <2>1 DEF Received
  <2>2. CASE Exhausted \/ NeedMore
    BY <2>2 DEF Exhausted, NeedMore, ReadAgain
  <2>3. CASE EmitFrame
    BY <2>3 DEF EmitFrame
  <2>4. CASE LastFrame
    BY <2>4 DEF LastFrame
  <2>5. CASE SkipFrame
    BY <2>5 DEF SkipFrame
  <2>6. CASE TimedOut \/ Eof \/ ReadError
    BY <2>6 DEF TimedOut, Eof, ReadError, Return
  <2>7. CASE NextCall
    BY <2>7 DEF NextCall
  <2>8. CASE UNCHANGED vars
    BY <2>8 DEF vars
  <2>9. QED
    BY <2>1, <2>2, <2>3, <2>4, <2>5, <2>6, <2>7, <2>8 DEF Next
<1>3. QED
  BY <1>1, <1>2, TypeCorrect, PTL DEF Spec

-----------------------------------------------------------------------------
(* Framing. ExactFrames alone is not inductive: a cursor that had strayed  *)
(* into a payload could take a byte of it for a header. The invariant adds *)
(* that the cursor never stands inside a frame of a regular line.          *)
Good == Regular /\ ~Inside(start)

Passed == {f \in frames : start <= f /\ f < cursor /\ IsValid(f)}

Framed ==
  Good => /\ ~Inside(cursor)
          /\ \A i, j \in 1..Len(output) : i < j => output[i] < output[j]
          /\ Range(output) = Passed

FramedInv == Framed /\ (pc = "read" => head = cursor)

(* The stream never changes, and neither does what is computed from it. *)
LEMMA StreamFixed ==
  ASSUME UNCHANGED input
  PROVE  /\ \A p : FrameLen(p)' = FrameLen(p) /\ IsValid(p)' = IsValid(p)
         /\ Regular' = Regular
<1>1. stream' = stream /\ frames' = frames
  BY DEF input
<1>2. \A p : FrameLen(p)' = FrameLen(p)
  BY <1>1 DEF FrameLen, DataLen, ByteAt
<1>3. \A p : IsValid(p)' = IsValid(p)
  BY <1>1 DEF IsValid, FrameLen, DataLen, ByteAt
<1>4. Regular' = Regular
  BY <1>1 DEF Regular, FrameLen, DataLen, ByteAt
<1>5. QED
  BY <1>2, <1>3, <1>4

(* A frame of a regular stream lies within it and has its seven bytes. *)
LEMMA RegularFrames ==
  ASSUME TypeOK, Regular, NEW f \in frames
  PROVE  f \in Nat /\ FrameLen(f) \in Nat /\ FrameLen(f) >= 7
<1>1. f \in Nat /\ f + 7 <= Len(stream) /\ f + 5 <= Len(stream)
  BY LenProperties DEF TypeOK, Regular
<1>2. QED
  BY <1>1, FrameLenNat DEF TypeOK

(* On a regular line the next header is the next frame. *)
LEMMA HeaderIsFrame ==
  ASSUME TypeOK, Regular, ~Inside(cursor),
         NEW p \in cursor..(tail - 1), NextHeader(p)
  PROVE  p \in frames /\ \A f \in frames : f < cursor \/ p <= f
<1>1. p \in Nat /\ cursor \in Nat /\ cursor <= p /\ p \in 0..(Len(stream) - 1)
  BY LenProperties DEF TypeOK
<1>2. PICK g \in frames : g <= p /\ p < g + FrameLen(g)
  BY <1>1 DEF Regular, NextHeader
<1>3. g \in Nat /\ FrameLen(g) \in Nat
  BY RegularFrames
<1>4. cursor <= g
  BY <1>1, <1>2, <1>3 DEF Inside
<1>5. \A f \in frames : cursor <= f => p <= f
  <2> SUFFICES ASSUME NEW f \in frames, cursor <= f, f < p PROVE FALSE
    BY <1>1, RegularFrames
  <2>1. f \in cursor..(p - 1) /\ ByteAt(f) = Header
    BY <1>1, RegularFrames DEF Regular
  <2>2. QED
    BY <2>1 DEF NextHeader
<1>6. QED
  BY <1>1, <1>2, <1>3, <1>4, <1>5, RegularFrames

(* Without a header no frame begins in the rest of rolling, or runs past   *)
(* its end.                                                                *)
LEMMA NoHeaderNoFrame ==
  ASSUME TypeOK, Regular, ~Inside(cursor), NoHeader
  PROVE  /\ \A f \in frames : f < cursor \/ tail <= f
         /\ ~Inside(tail)
<1>1. \A f \in frames : f < cursor \/ tail <= f
  <2> SUFFICES ASSUME NEW f \in frames, ~(f < cursor), ~(tail <= f) PROVE FALSE
    OBVIOUS
  <2>1. f \in cursor..(tail - 1) /\ ByteAt(f) = Header
    BY RegularFrames DEF Regular, TypeOK
  <2>2. QED
    BY <2>1 DEF NoHeader
<1>2. ~Inside(tail)
  <2> SUFFICES ASSUME NEW f \in frames, f < tail, tail < f + FrameLen(f) PROVE FALSE
    BY DEF Inside
  <2>1. f \in Nat /\ FrameLen(f) \in Nat
    BY RegularFrames
  <2>2. f < cursor /\ cursor < f + FrameLen(f)
    BY <1>1, <2>1, ~Inside(cursor) DEF TypeOK
  <2>3. QED
    BY <2>2 DEF Inside
<1>3. QED
  BY <1>1, <1>2

(* The place behind a frame is not inside another one. *)
LEMMA BehindFrame ==
  ASSUME TypeOK, Regular, NEW p \in frames
  PROVE  /\ ~Inside(p) /\ ~Inside(p + FrameLen(p))
         /\ \A f \in frames : f < p + FrameLen(p) => f <= p
<1>1. p \in Nat /\ FrameLen(p) \in Nat /\ FrameLen(p) >= 7
  BY RegularFrames
<1>2. \A f \in frames : /\ f \in Nat /\ FrameLen(f) \in Nat
                        /\ f < p => f + FrameLen(f) <= p
                        /\ p < f => p + FrameLen(p) <= f
  BY RegularFrames DEF Regular
<1>3. QED
  BY <1>1, <1>2 DEF Inside

(* A step that moves the cursor past no valid frame keeps Framed. *)
LEMMA MoveOn ==
  ASSUME TypeOK, Framed, UNCHANGED <<input, call, output>>,
         Good => /\ ~Inside(cursor)'
                 /\ \A f \in frames : IsValid(f) => (f < cursor' <=> f < cursor)
  PROVE  Framed'
<1>1. start' = start /\ frames' = frames /\ output' = output
  BY DEF input, call
<1>2. /\ \A p : FrameLen(p)' = FrameLen(p) /\ IsValid(p)' = IsValid(p)
      /\ Regular' = Regular
  BY StreamFixed
<1>3. Inside(start)' = Inside(start)
  BY <1>1, <1>2 DEF Inside
<1>4. SUFFICES ASSUME Good PROVE Framed'
  BY <1>2, <1>3 DEF Good, Framed
<1>5. Passed' = Passed
  BY <1>1, <1>2, <1>4 DEF Passed
<1>6. QED
  BY <1>1, <1>4, <1>5 DEF Framed

(* A step that reports the next frame, a valid one, keeps Framed. *)
LEMMA Report ==
  ASSUME TypeOK, Framed, UNCHANGED <<input, call>>,
         NEW p \in cursor..(tail - 1),
         NextHeader(p), ~Incomplete(p), IsValid(p),
         output' = Append(output, p), cursor' = p + FrameLen(p)
  PROVE  Framed'
<1>1. start' = start /\ frames' = frames
  BY DEF input, call
<1>2. /\ \A q : FrameLen(q)' = FrameLen(q) /\ IsValid(q)' = IsValid(q)
      /\ Regular' = Regular
  BY StreamFixed
<1>3. Inside(start)' = Inside(start)
  BY <1>1, <1>2 DEF Inside
<1>4. SUFFICES ASSUME Good PROVE Framed'
  BY <1>2, <1>3 DEF Good, Framed
<1>5. /\ p \in frames
      /\ \A f \in frames : f < cursor \/ p <= f
      /\ p \in Nat /\ cursor <= p /\ start <= p /\ FrameLen(p) \in Nat
      /\ FrameLen(p) >= 7
  BY <1>4, HeaderIsFrame, CompleteFrame DEF Framed, Good, TypeOK
<1>6. ~Inside(cursor)'
  BY <1>1, <1>2, <1>4, <1>5, BehindFrame DEF Inside, Good
<1>7. \A f \in frames : f < cursor' <=> f < cursor \/ f = p
  BY <1>4, <1>5, BehindFrame, RegularFrames DEF Good, TypeOK
<1>8. Passed' = Passed \cup {p}
  BY <1>1, <1>2, <1>5, <1>7 DEF Passed
<1>9. /\ Len(output') = Len(output) + 1
      /\ output'[Len(output) + 1] = p
      /\ \A i \in 1..Len(output) : output'[i] = output[i] /\ output[i] \in Range(output)
      /\ Len(output) \in Nat
  BY AppendProperties, LenProperties DEF TypeOK, Range
<1>10. \A i \in 1..Len(output) : output[i] < p /\ output[i] \in Nat
  <2>1. Range(output) \subseteq {f \in frames : f < cursor}
    BY <1>4 DEF Framed, Passed
  <2>2. \A f \in frames : f \in Nat
    BY <1>4, RegularFrames DEF Good
  <2>3. cursor \in Nat
    BY DEF TypeOK
  <2>4. \A i \in 1..Len(output) : output[i] \in frames /\ output[i] < cursor
    BY <1>9, <2>1
  <2>5. TAKE i \in 1..Len(output)
  <2>6. output[i] < cursor /\ output[i] \in Nat
    BY <2>2, <2>4
  <2>7. cursor <= p /\ p \in Nat
    BY <1>5
  <2> QED
    BY <2>3, <2>6, <2>7
<1>11. \A i, j \in 1..Len(output') : i < j => output'[i] < output'[j]
  BY <1>4, <1>9, <1>10 DEF Framed
<1>12. Range(output') = Range(output) \cup {p}
  <2>1. DOMAIN output = 1..Len(output) /\ DOMAIN output' = 1..(Len(output) + 1)
    BY <1>9 DEF TypeOK
  <2>2. QED
    BY <1>9, <2>1 DEF Range
<1>13. QED
  BY <1>4, <1>6, <1>8, <1>11, <1>12 DEF Framed

(* Cutting rolling at p: on a regular line an incomplete frame fits, so    *)
(* the cap does not cut it.                                                *)
LEMMA CutAtFrame ==
  ASSUME TypeOK, Regular, ~Inside(cursor),
         NEW p \in cursor..(tail - 1), NextHeader(p), Incomplete(p)
  PROVE  Trimmed(p) = p
<1>1. p \in frames /\ FrameLen(p) \in Nat /\ FrameLen(p) >= 7 /\ p \in Nat
  BY HeaderIsFrame, RegularFrames
<1>2. FrameLen(p) <= RollingMax + 1
  BY <1>1 DEF Regular
<1>3. p + FrameLen(p) > tail
  BY <1>1 DEF Incomplete, TypeOK
<1>4. QED
  BY <1>1, <1>2, <1>3, SizesAssumption DEF Trimmed, TypeOK

(* Before the first call no frame has been passed, nor returned. *)
LEMMA FramedInit == Init => FramedInv
<1> SUFFICES ASSUME Init PROVE FramedInv
  OBVIOUS
<1>1. TypeOK
  BY TypeInit
<1>2. Good => Passed = {}
  BY <1>1, RegularFrames DEF Good, Passed, Init
<1>3. Len(output) = 0 /\ Range(output) = {}
  BY DEF Init, Range
<1>4. QED
  BY <1>2, <1>3 DEF FramedInv, Framed, Good, Init

(* Every step of the parser keeps FramedInv. *)
LEMMA FramedNext == TypeOK /\ FramedInv /\ [Next]_vars => FramedInv'
<1> SUFFICES ASSUME TypeOK, FramedInv, [Next]_vars PROVE FramedInv'
  OBVIOUS
<1> USE DEF FramedInv
<1>1. CASE Received
  <2>1. UNCHANGED <<input, call, output>> /\ cursor' = head /\ head = cursor
    BY <1>1 DEF Received
  <2>2. Good => ~Inside(cursor)'
    BY <2>1, StreamFixed DEF Framed, Inside, input
  <2>3. QED
    BY <1>1, <2>1, <2>2, MoveOn DEF Received
<1>2. CASE Exhausted
  <2>1. /\ UNCHANGED <<input, call, output>>
        /\ NoHeader /\ cursor' = Trimmed(tail) /\ head' = cursor'
    BY <1>2 DEF Exhausted, ReadAgain
  <2>2. cursor' = tail
    BY <2>1, SizesAssumption DEF Trimmed, TypeOK
  <2>3. Good => /\ ~Inside(cursor)'
                /\ \A f \in frames : f < cursor' <=> f < cursor
    <3> SUFFICES ASSUME Good PROVE /\ ~Inside(cursor)'
                                   /\ \A f \in frames : f < cursor' <=> f < cursor
      OBVIOUS
    <3>1. ~Inside(tail) /\ \A f \in frames : f < cursor \/ tail <= f
      BY <2>1, NoHeaderNoFrame DEF Good, Framed
    <3>2. ~Inside(cursor)'
      BY <2>1, <2>2, <3>1, StreamFixed DEF Inside, input
    <3>3. \A f \in frames : f < cursor' <=> f < cursor
      BY <2>2, <3>1, RegularFrames DEF Good, TypeOK
    <3>4. QED
      BY <3>2, <3>3
  <2>4. QED
    BY <2>1, <2>3, MoveOn
<1>3. CASE NeedMore
  <2>1. PICK p \in cursor..(tail - 1) :
          NextHeader(p) /\ Incomplete(p) /\ ReadAgain(p)
    BY <1>3 DEF NeedMore
  <2>2. UNCHANGED <<input, call, output>> /\ cursor' = Trimmed(p) /\ head' = cursor'
    BY <2>1 DEF ReadAgain
  <2>3. Good => /\ ~Inside(cursor)'
                /\ \A f \in frames : f < cursor' <=> f < cursor
    <3> SUFFICES ASSUME Good PROVE /\ ~Inside(cursor)'
                                   /\ \A f \in frames : f < cursor' <=> f < cursor
      OBVIOUS
    <3>1. cursor' = p
      BY <2>1, <2>2, CutAtFrame DEF Good, Framed
    <3>2. p \in frames /\ \A f \in frames : f < cursor \/ p <= f
      BY <2>1, HeaderIsFrame DEF Good, Framed
    <3>3. ~Inside(cursor)'
      BY <2>2, <3>1, <3>2, BehindFrame, StreamFixed DEF Inside, Good, input
    <3>4. \A f \in frames : f < cursor' <=> f < cursor
      BY <3>1, <3>2, RegularFrames DEF Good, TypeOK
    <3>5. QED
      BY <3>3, <3>4
  <2>4. QED
    BY <2>2, <2>3, MoveOn
<1>4. CASE EmitFrame
  <2>1. PICK p \in cursor..(tail - 1) :
          /\ NextHeader(p) /\ ~Incomplete(p) /\ IsValid(p)
          /\ output' = Append(output, p) /\ cursor' = p + FrameLen(p)
    BY <1>4 DEF EmitFrame
  <2>2. QED
    BY <1>4, <2>1, Report DEF EmitFrame
<1>5. CASE LastFrame
  <2>1. PICK p \in cursor..(tail - 1) :
          /\ NextHeader(p) /\ ~Incomplete(p) /\ IsValid(p)
          /\ output' = Append(output, p) /\ cursor' = p + FrameLen(p)
    BY <1>5 DEF LastFrame
  <2>2. QED
    BY <1>5, <2>1, Report DEF LastFrame
<1>6. CASE SkipFrame
  <2>1. PICK p \in cursor..(tail - 1) :
          /\ NextHeader(p) /\ ~Incomplete(p) /\ ~IsValid(p)
          /\ cursor' = p + FrameLen(p)
    BY <1>6 DEF SkipFrame
  <2>2. UNCHANGED <<input, call, output>> /\ pc' = "scan"
    BY <1>6 DEF SkipFrame
  <2>3. Good => /\ ~Inside(cursor)'
                /\ \A f \in frames : IsValid(f) => (f < cursor' <=> f < cursor)
    <3> SUFFICES ASSUME Good
                 PROVE  /\ ~Inside(cursor)'
                        /\ \A f \in frames : IsValid(f) => (f < cursor' <=> f < cursor)
      OBVIOUS
    <3>1. /\ p \in frames /\ p \in Nat /\ FrameLen(p) \in Nat /\ FrameLen(p) >= 7
          /\ \A f \in frames : f < cursor \/ p <= f
      BY <2>1, HeaderIsFrame, CompleteFrame DEF Good, Framed
    <3>2. ~Inside(cursor)'
      BY <2>1, <2>2, <3>1, BehindFrame, StreamFixed DEF Inside, Good, input
    <3>3. \A f \in frames : IsValid(f) => (f < cursor' <=> f < cursor)
      BY <2>1, <3>1, BehindFrame, RegularFrames DEF Good, TypeOK
    <3>4. QED
      BY <3>2, <3>3
  <2>4. QED
    BY <2>2, <2>3, MoveOn
<1>7. CASE TimedOut \/ Eof \/ ReadError
  <2>1. UNCHANGED <<input, call, head, cursor, output>> /\ pc' = "done"
    BY <1>7 DEF TimedOut, Eof, ReadError, Return
  <2>2. Good => ~Inside(cursor)'
    BY <2>1, StreamFixed DEF Framed, Inside, input
  <2>3. QED
    BY <2>1, <2>2, MoveOn
<1>8. CASE NextCall
  <2>1. /\ UNCHANGED input
        /\ start' = tail /\ cursor' = tail /\ head' = tail /\ output' = <<>>
    BY <1>8 DEF NextCall
  <2>2. Good' => ~Inside(cursor)'
    BY <2>1 DEF Good, Inside
  <2>3. Passed' = {f \in frames : tail <= f /\ f < tail /\ IsValid(f)}
    BY <2>1, StreamFixed DEF Passed, input
  <2>4. Passed' = {}
    <3>1. \A f \in frames : f \in Nat
      BY LenProperties DEF TypeOK
    <3>2. \A f \in frames : ~(tail <= f /\ f < tail)
      BY <3>1 DEF TypeOK
    <3>3. QED
      BY <2>3, <3>2
  <2>5. Len(output') = 0 /\ Range(output') = {}
    BY <2>1 DEF Range
  <2>6. QED
    BY <2>1, <2>2, <2>4, <2>5 DEF Framed
<1>9. CASE UNCHANGED vars
  <2>1. UNCHANGED <<input, call, head, cursor, output, pc>>
    BY <1>9 DEF vars, input, call
  <2>2. Good => ~Inside(cursor)'
    BY <2>1, StreamFixed DEF Framed, Inside, input
  <2>3. QED
    BY <2>1, <2>2, MoveOn
<1>10. QED
  BY <1>1, <1>2, <1>3, <1>4, <1>5, <1>6, <1>7, <1>8, <1>9 DEF Next

(* The parser reports exactly the reader's frames on a regular line, for   *)
(* every length of stream, every payload and every cutting into reads.     *)
THEOREM Framing == Spec => []ExactFrames
<1>1. FramedInv => ExactFrames
  BY DEF FramedInv, Framed, Good, Passed, ExactFrames
<1>2. QED
  BY <1>1, FramedInit, FramedNext, TypeCorrect, PTL DEF Spec
=============================================================================
