------------------------------- MODULE Frames -------------------------------
(***************************************************************************)
(* The frame of the wire and of the WAL (src/network/binary_protocol.go):  *)
(* EncodeFrame and DecodeFrame.  A file is a function from positions to    *)
(* cells.  The 17 bytes of a header are two cells, its magic byte and the  *)
(* fields behind it; a payload d is SizeOf[d] cells, and the checksum in   *)
(* the fields stands for the payload it was computed of.                   *)
(***************************************************************************)
EXTENDS Naturals, Sequences

CONSTANTS
  Payload,
  SizeOf,          \* the length of each payload
  Empty,           \* the payload of length zero
  MaxPayloadSize

ASSUME PayloadAssumption ==
  /\ SizeOf \in [Payload -> Nat] /\ MaxPayloadSize \in Nat
  /\ Empty \in Payload
  /\ \A d \in Payload : SizeOf[d] = 0 <=> d = Empty

HeaderSize == 2
FrameLen(d) == HeaderSize + SizeOf[d]

Zero == [kind |-> "zero"]       \* a byte, or the bytes of the fields, never written
Magic == [kind |-> "magic"]
Fields(length, offset, d) == [kind |-> "fields", length |-> length, offset |-> offset, data |-> d]
Byte(d, i) == [kind |-> "byte", data |-> d, at |-> i]

Cell == {Zero, Magic} \cup [kind : {"fields"}, length : Nat, offset : Nat, data : Payload]
          \cup [kind : {"byte"}, data : Payload, at : Nat]

\* EncodeFrame refuses payloads beyond the limit.
Encodable(d) == SizeOf[d] <= MaxPayloadSize

EncodeFrame(offset, d) ==
  <<Magic, Fields(SizeOf[d], offset, d)>> \o [i \in 1..SizeOf[d] |-> Byte(d, i)]

\* The fields a cell is read as.  Zeros are well-formed fields: length 0, offset 0 and
\* the checksum of nothing.
Read(cell) == IF cell = Zero THEN Fields(0, 0, Empty) ELSE cell

\* Mutant: the checksum is not compared.
DecodesUnverified(cells, pos, limit) ==
  /\ pos + HeaderSize <= limit
  /\ cells[pos] = Magic /\ Read(cells[pos + 1]).kind = "fields"
  /\ pos + HeaderSize + Read(cells[pos + 1]).length <= limit

\* DecodeFrame on the bytes from pos up to limit returns no error: a header, its
\* payload and a checksum that agrees.
Decodes(cells, pos, limit) ==
  /\ pos + HeaderSize <= limit
  /\ cells[pos] = Magic /\ Read(cells[pos + 1]).kind = "fields"
  /\ LET f == Read(cells[pos + 1]) IN
     /\ f.length <= MaxPayloadSize
     /\ pos + HeaderSize + f.length <= limit
     /\ \A i \in 1..f.length : cells[pos + 1 + i] = Byte(f.data, i)

\* The frame it then returns, and where the next one begins.
FrameAt(cells, pos) == Read(cells[pos + 1])
NextFrame(cells, pos) == pos + HeaderSize + FrameAt(cells, pos).length
=============================================================================
