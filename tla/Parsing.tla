------------------------------ MODULE Parsing -------------------------------
(***************************************************************************)
(* What the extract_* functions of aflnet.c share: a loop that reads a     *)
(* buffer from byte_count on and, now and then, completes something (a     *)
(* region of a request file, or a code of the responses) and begins anew.  *)
(* mem, the bytes copied since then, is a piece of buf and is not kept;    *)
(* neither is cur_end, the offset of the byte just read.                   *)
(***************************************************************************)
EXTENDS Integers, Sequences, SequencesExt, FiniteSetsExt

VARIABLES
  proto,       \* whose extractor runs
  side,        \* "requests" or "responses"
  pieces,      \* what the memory was put together from: a file, or all the responses
  given,       \* pieces of it that the buffer has
  behind,      \* what lies behind the byte that ends the allocation
  byte_count,  \* bytes read or skipped
  cur_start,   \* offset of mem[0]
  stale,       \* what mem[0..11] held when it was begun anew
  out,         \* regions <<start_byte, end_byte>>, or state_sequence
  before,      \* what the previous call, on a shorter buffer, returned
  pc           \* "loop", "returned", "crashed"

parsing == <<proto, side, pieces, given, behind, byte_count, cur_start, stale, out, before, pc>>

Protocols == {"SMTP", "SSH", "TLS", "DICOM", "DNS", "RTSP", "FTP", "DTLS12"}

\* the buffer is the beginning of an allocation, all of it but in
\* update_region_annotations
memory == FlattenSeq(pieces)
buf_size == Len(FlattenSeq(SubSeq(pieces, 1, given)))

\* the C arrays, from 0; what is read behind the buffer is the rest of the
\* allocation, the byte 240 that ends every allocation, and what is there
b(i) == CASE i < Len(memory) -> memory[i + 1]
          [] i - Len(memory) \in DOMAIN behind -> behind[i - Len(memory)]
          [] OTHER -> 240
bytes(i, n) == [k \in 1 .. n |-> b(i + k - 1)]
mem_count == byte_count - cur_start
mem(i) == IF i <= mem_count THEN b(cur_start + i) ELSE stale[i + 1]

\* n bytes at offset i, most significant first; four bytes are the number in
\* -2^31 .. 2^31 - 1 that is congruent to them
BigEndian(i, n) ==
  FoldLeft(LAMBDA v, x : 256 * v + x,
           IF n = 4 /\ b(i) >= 128 THEN b(i) - 256 ELSE b(i), bytes(i + 1, n - 1))

CRLF == <<13, 10>>

\* how far a loop comes that goes on n bytes from offset i, or to the end of
\* the buffer; a negative n stands for an unsigned one beyond any buffer
Forward(i, n) == IF n < 0 \/ i + n > buf_size THEN buf_size ELSE i + n

Running(s, p) == pc = "loop" /\ side = s /\ proto = p
Reading(s, p) == Running(s, p) /\ byte_count < buf_size

Constant == UNCHANGED <<proto, side, pieces, given, behind, before>>

\* the last byte is read for ever
SlipReadOn ==
  /\ byte_count' = IF byte_count + 1 = buf_size THEN byte_count ELSE byte_count + 1
  /\ UNCHANGED <<cur_start, stale, out, pc>>

\* one more byte into mem
ReadOn == byte_count' = byte_count + 1 /\ UNCHANGED <<cur_start, stale, out, pc>>

Return == pc' = "returned" /\ UNCHANGED <<byte_count, cur_start, stale, out>>

\* a read of memory that is not there
Crash == pc' = "crashed" /\ UNCHANGED <<byte_count, cur_start, stale, out>>

Exhausted == pc = "loop" /\ byte_count >= buf_size
=============================================================================
