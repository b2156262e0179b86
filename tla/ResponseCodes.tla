---------------------------- MODULE ResponseCodes ---------------------------
(***************************************************************************)
(* The extract_response_codes_* functions of aflnet.c: the states of the   *)
(* server that the bytes of its responses give away.  Every sequence       *)
(* begins with state 0.                                                    *)
(***************************************************************************)
EXTENDS RequestRegions

CONSTANT MaxCodes  \* bound: codes kept of one buffer, of a loop that never ends
ASSUME MaxCodesAssumption == MaxCodes \in Nat

\* a code, and the loop goes on at offset i with an empty mem
Code(c, i) ==
  /\ out' = IF Len(out) <= MaxCodes THEN Append(out, c) ELSE out
  /\ byte_count' = i
  /\ cur_start' = i
  /\ UNCHANGED <<stale, pc>>

\* mem as if it had been cleared
Overwritten12 == [i \in 1 .. 12 |-> mem(i - 1)]

\* atoi of three characters
atoi(s) ==
  LET digit(a, c) ==
        CASE a.at = "front" /\ c \in (9 .. 13) \cup {32} -> a
          [] a.at = "front" /\ c \in {43, 45} -> [a EXCEPT !.at = "digits", !.sign = 44 - c]
          [] a.at # "end" /\ c \in 48 .. 57 ->
               [a EXCEPT !.at = "digits", !.value = 10 * @ + (c - 48)]
          [] OTHER -> [a EXCEPT !.at = "end"]
      r == FoldLeft(digit, [at |-> "front", sign |-> 1, value |-> 0], s)
  IN r.sign * r.value

EndOfLine == mem_count > 0 /\ bytes(byte_count - 1, 2) = CRLF

\* mem_count is not reset
SlipLineCode(at) ==
  LET code == atoi(<<mem(at), mem(at + 1), mem(at + 2)>>)
  IN IF code = 0
       THEN pc' = "returned" /\ UNCHANGED <<out, byte_count, cur_start, stale>>
       ELSE /\ out' = Append(out, code)
            /\ byte_count' = byte_count + 1
            /\ UNCHANGED <<cur_start, stale, pc>>

\* a line is complete; its code is that of the three characters at mem[at], of
\* which a short line leaves some as they were
LineCode(at) ==
  LET code == atoi(<<mem(at), mem(at + 1), mem(at + 2)>>)
  IN IF code = 0
       THEN pc' = "returned" /\ UNCHANGED <<out, byte_count, cur_start, stale>>
       ELSE /\ out' = Append(out, code)
            /\ byte_count' = byte_count + 1
            /\ cur_start' = byte_count + 1
            /\ stale' = Overwritten12
            /\ UNCHANGED pc

extract_response_codes_smtp ==
  /\ Reading("responses", "SMTP")
  /\ IF EndOfLine THEN LineCode(0) ELSE ReadOn
  /\ Constant

extract_response_codes_ftp ==
  /\ Reading("responses", "FTP")
  /\ IF EndOfLine THEN LineCode(0) ELSE ReadOn
  /\ Constant

RtspVersion == <<82, 84, 83, 80, 47>>

extract_response_codes_rtsp ==
  /\ Reading("responses", "RTSP")
  /\ IF ~ EndOfLine THEN ReadOn
     ELSE IF mem_count >= 5 /\ bytes(cur_start, 5) = RtspVersion
       THEN LineCode(9)
       ELSE /\ byte_count' = byte_count + 1
            /\ cur_start' = byte_count + 1
            /\ stale' = Overwritten12
            /\ UNCHANGED <<out, pc>>
  /\ Constant

\* strstr(mem, "SSH"): mem[6], which is never written, is last
ContainsSSH(last) ==
  LET text == bytes(byte_count, 6) \o <<last>>
  IN \E i \in 1 .. 5 : /\ SubSeq(text, i, i + 2) = SubSeq(Identification, 1, 3)
                       /\ \A k \in 1 .. i - 1 : text[k] # 0

\* m > n, of unsigned numbers; a negative one is that number less 2^32
Above(m, n) == IF (m < 0) = (n < 0) THEN m > n ELSE m < 0

\* the message at byte_count, of which the MAC need not be there: where the
\* next one begins, less 2^32 when the sum is not beyond that
NextMessage ==
  byte_count + 6 + BigEndian(byte_count, 4) - 2 + MacLength(b(byte_count + 5))

\* Six bytes at a time, also when fewer are left.  A message that is not
\* complete ends the loop, unless its header is not: then what is left is less
\* than nothing, an unsigned number that few lengths exceed.  The end of an
\* identification is looked for without regard to the end of the buffer.
extract_response_codes_ssh ==
  LET next == byte_count + 6
      newlines == {i \in next .. Len(memory) - 1 : b(i) = 10}
      longer == Above(BigEndian(byte_count, 4) - 2, buf_size - next)
  IN /\ Reading("responses", "SSH")
     /\ \E last \in {0, 72} :
          \/ /\ ContainsSSH(last)
             /\ \/ Code(256, Min(newlines \cup {Len(memory)}) + 1)
                \/ newlines = {} /\ Crash
          \/ ~ ContainsSSH(last) /\ longer /\ Return
          \/ /\ ~ ContainsSSH(last) /\ ~ longer
             /\ Code(b(byte_count + 5), IF NextMessage < 0 THEN buf_size ELSE NextMessage)
     /\ Constant

\* the message whose header was cut off leads back into the buffer
WrapsAround ==
  /\ Reading("responses", "SSH") /\ byte_count + 6 > buf_size
  /\ BigEndian(byte_count, 4) < 2 /\ NextMessage \in 0 .. buf_size - 1

\* seven bytes are needed for a code; bytes_to_skip is message_size - 1
extract_response_codes_tls ==
  LET stop == Forward(byte_count + 1, BigEndian(cur_start + 3, 2) - 1)
      type == mem(0)
  IN /\ Reading("responses", "TLS")
     /\ IF mem_count < 6 THEN ReadOn
        ELSE Code(256 * type + (IF type = 23 THEN 255 ELSE mem(5)),
                  IF stop < buf_size THEN stop - 1 ELSE stop)
     /\ Constant

\* the type of the first PDU, whatever follows
extract_response_codes_dicom ==
  /\ Running("responses", "DICOM") /\ buf_size > 0
  /\ out' = <<0, b(0)>>
  /\ pc' = "returned"
  /\ Constant /\ UNCHANGED <<byte_count, cur_start, stale>>

NoPDU ==
  /\ Running("responses", "DICOM") /\ buf_size = 0
  /\ out' = <<>>
  /\ pc' = "returned"
  /\ Constant /\ UNCHANGED <<byte_count, cur_start, stale>>

Signed(x) == IF x >= 128 THEN x - 256 ELSE x

\* mem is an array of char; the byte at which the answer begins is skipped too
extract_response_codes_dns ==
  /\ Reading("responses", "DNS")
  /\ IF mem_count >= 12 /\ b(byte_count) = 0
       THEN Code(256 * Signed(mem(2)) + Signed(mem(3)), byte_count + 6)
       ELSE ReadOn
  /\ Constant

CCS == 20
ALERT == 21
HS == 22
HEARTBEAT == 24
UNKNOWN == 255
MALFORMED == 254

\* message_type of a record at offset i with n bytes behind its header.  That it
\* goes beyond the buffer is never noticed: the difference is unsigned
MessageType(i, n) ==
  CASE b(i) = HS /\ n < 12 -> MALFORMED
    [] b(i) = HS /\ n >= 12 /\ n - BigEndian(i + 22, 3) = 12 -> b(i + 13)
    [] b(i) = CCS /\ n < 1 -> MALFORMED
    [] b(i) = CCS /\ n = 1 -> b(i + 13)
    [] b(i) = ALERT /\ n < 2 -> MALFORMED
    [] b(i) = ALERT /\ n = 2 -> b(i + 14)
    [] b(i) = HEARTBEAT /\ n < 3 -> MALFORMED
    [] OTHER -> UNKNOWN

\* whether the record at byte_count has no content
EmptyRecord ==
  /\ Reading("responses", "DTLS12") /\ buf_size - byte_count > 13
  /\ DtlsHeader(byte_count) /\ BigEndian(byte_count + 11, 2) = 0

\* the loop goes on record_length bytes after the start of the header
extract_response_codes_dtls12 ==
  LET record_length == BigEndian(byte_count + 11, 2)
  IN /\ Reading("responses", "DTLS12")
     /\ IF buf_size - byte_count > 13 /\ DtlsHeader(byte_count)
          THEN Code(256 * b(byte_count) + MessageType(byte_count, record_length),
                    byte_count + record_length)
          ELSE ReadOn
     /\ Constant

\* the code that is read next depends on more than the buffer
Overruns ==
  \/ /\ Reading("responses", "SSH")
     /\ byte_count + 6 > buf_size \/ ContainsSSH(0) # ContainsSSH(72)
  \/ /\ Reading("responses", "DTLS12")
     /\ byte_count + 13 + BigEndian(byte_count + 11, 2) > buf_size

NoMoreResponses ==
  /\ Exhausted /\ side = "responses" /\ proto # "DICOM"
  /\ Return /\ Constant

extract_response_codes ==
  \/ extract_response_codes_smtp \/ extract_response_codes_ftp
  \/ extract_response_codes_rtsp \/ extract_response_codes_ssh
  \/ extract_response_codes_tls \/ extract_response_codes_dicom \/ NoPDU
  \/ extract_response_codes_dns \/ extract_response_codes_dtls12
  \/ NoMoreResponses
=============================================================================
