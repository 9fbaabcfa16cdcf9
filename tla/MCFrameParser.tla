---------------------------- MODULE MCFrameParser ---------------------------
(***************************************************************************)
(* Small instances of FrameParser. The byte values are the protocol's; the *)
(* sizes 1024, 8192 and 4096 are scaled down in the configurations so that *)
(* frames, reads and the cap on the buffer meet.                           *)
(***************************************************************************)
EXTENDS FrameParser, FiniteSetsExt, SequencesExt, TLC

AA == 170   \* R200_FRAME_HEADER
DD == 221   \* end byte, which the parser never looks at

(* Frame::to_bytes for command 34 (0x22) and the given payload; off # 0    *)
(* damages the checksum.                                                   *)
FrameBytes(data, off) ==
  LET body == <<1, 34, 0, Len(data)>> \o data
  IN  <<AA>> \o body \o <<(FoldLeft(+, off, body)) % 256, DD>>

Piece(bytes, isFrame) == [bytes |-> bytes, isFrame |-> isFrame]

Silence   == Piece(<<>>, FALSE)
Junk      == Piece(<<0, DD>>, FALSE)
Short     == Piece(FrameBytes(<<>>, 0), TRUE)
Tricky    == Piece(FrameBytes(<<AA, DD, AA>>, 0), TRUE) \* headers inside the data
SumIsAA   == Piece(FrameBytes(<<134>>, 0), TRUE)       \* header as the checksum
Damaged   == Piece(FrameBytes(<<AA>>, 1), TRUE)        \* bad checksum
FalseHead == Piece(<<AA, 0, 0, 0>>, FALSE)             \* noise like a header
LongHead  == Piece(<<AA, 0, 0, 1, 0>>, FALSE)          \* ... announcing 263 bytes

(* The stream made of a sequence of pieces, and where its frames begin. *)
StreamOf(ps) ==
  LET at(i) == FoldLeft(LAMBDA n, p : n + Len(p.bytes), 0, SubSeq(ps, 1, i - 1))
  IN  [bytes  |-> FoldLeft(LAMBDA b, p : b \o p.bytes, <<>>, ps),
       frames |-> {at(i) : i \in {j \in 1..Len(ps) : ps[j].isFrame}}]

Pieces == {Silence, Junk, Short, Tricky, SumIsAA, Damaged, FalseHead, LongHead}

(* Every stream of three pieces. *)
PiecedInputs == {StreamOf(<<a, b, c>>) : a, b, c \in Pieces}

(* Every stream of NoiseLen bytes made of headers and small bytes. *)
NoiseLen    == 9
NoiseInputs == {[bytes |-> b, frames |-> {}] : b \in [1..NoiseLen -> {AA, 0}]}

AllInputs == PiecedInputs \cup NoiseInputs

(* What one pass over stream[c .. t-1] reports, in order, were it all in   *)
(* the buffer at once.                                                     *)
OnePass(from, t) ==
  LET pass[c \in from..t] ==
        LET hs == {p \in c..(t - 1) : ByteAt(p) = Header}
            p  == Min(hs)
        IN  IF hs = {} THEN <<>>
            ELSE IF IF p + 5 > t THEN TRUE ELSE p + FrameLen(p) > t THEN <<>>
            ELSE (IF IsValid(p) THEN <<p>> ELSE <<>>) \o pass[p + FrameLen(p)]
  IN  pass[from]

(* How the bytes are cut into reads is invisible: on any line, noise       *)
(* included, and as long as the cap is not reached, the packets of a call  *)
(* are those one pass over everything it received would find (the first    *)
(* num_expected_responses of them). This is what the rolling buffer of     *)
(* read_from_serial is for.                                                *)
ChunkingInvisible ==
  Len(stream) <= RollingMax /\ pc # "scan" =>
    LET all == OnePass(start, tail)
    IN  output = SubSeq(all, 1, Min({expected, Len(all)}))
=============================================================================
