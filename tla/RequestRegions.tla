--------------------------- MODULE RequestRegions ---------------------------
(***************************************************************************)
(* The extract_requests_* functions of aflnet.c: where the messages of a   *)
(* seed file begin and end.                                                *)
(***************************************************************************)
EXTENDS Parsing

\* the next region begins with the last byte of this one
\* a region from cur_start to end; the next one begins behind it
Region(end) ==
  /\ out' = Append(out, <<cur_start, end>>)
  /\ byte_count' = end + 1
  /\ cur_start' = end + 1
  /\ UNCHANGED <<stale, pc>>

\* the byte that was read completes nothing; the last byte of the buffer is not
\* read but added to the region, and the loop left
NoBoundary ==
  IF byte_count + 1 = buf_size - 1
    THEN /\ out' = Append(out, <<cur_start, buf_size - 1>>)
         /\ byte_count' = buf_size
         /\ pc' = "returned"
         /\ UNCHANGED <<cur_start, stale>>
    ELSE ReadOn

\* a file without any structure is one region
NothingFound ==
  /\ Exhausted /\ side = "requests" /\ proto \notin {"DICOM"}
  /\ out' = IF out = <<>> /\ buf_size > 0 THEN <<<<0, buf_size - 1>>>> ELSE out
  /\ pc' = "returned"
  /\ Constant /\ UNCHANGED <<byte_count, cur_start, stale>>

\* messages that end with terminator t, which their first byte is not part of
Line(p, t) ==
  /\ Reading("requests", p)
  /\ IF mem_count >= Len(t) /\ bytes(byte_count - Len(t) + 1, Len(t)) = t
       THEN Region(byte_count)
       ELSE NoBoundary
  /\ Constant

extract_requests_smtp == Line("SMTP", CRLF)
extract_requests_ftp == Line("FTP", CRLF)
extract_requests_rtsp == Line("RTSP", CRLF \o CRLF)

\* the byte behind the header is kept
SlipRecord(n) == Region(Forward(byte_count + 1, n) - 1)

\* one byte behind the header has been read and n bytes follow; that byte is
\* given back, but not when the skip came to the end of the buffer
Record(n) ==
  LET stop == Forward(byte_count + 1, n)
  IN Region(IF stop < buf_size THEN stop - 2 ELSE stop - 1)

Identification == <<83, 83, 72, 45>>

\* a key exchange message comes without the 8 bytes of MAC
MacLength(code) == IF code \in 20 .. 49 THEN 0 ELSE 8

extract_requests_ssh ==
  /\ Reading("requests", "SSH")
  /\ IF mem_count < 6 THEN NoBoundary
     ELSE IF bytes(cur_start, 4) = Identification
       THEN Region(Min({i \in byte_count .. buf_size - 1 : bytes(i - 1, 2) = CRLF}
                         \cup {buf_size - 1}))
       ELSE Record(BigEndian(cur_start, 4) - 2 + MacLength(mem(5)))
  /\ Constant

extract_requests_tls ==
  /\ Reading("requests", "TLS")
  /\ IF mem_count < 5 THEN NoBoundary ELSE Record(BigEndian(cur_start + 3, 2))
  /\ Constant

\* a header of 12 bytes, the name up to a zero, and 4 bytes, which may lie
\* behind the end of the buffer
extract_requests_dns ==
  /\ Reading("requests", "DNS")
  /\ IF mem_count >= 12 /\ b(byte_count) = 0 THEN Region(byte_count + 4) ELSE NoBoundary
  /\ Constant

\* packet_length is pdu_length + 6 modulo 2^32: the tests for an overflow let
\* lengths of 1 to 5 pass
extract_requests_dicom ==
  LET length == BigEndian(byte_count + 2, 4) + 6
      whole == byte_count + 5 < buf_size /\ length > 0 /\ byte_count + length <= buf_size
  IN /\ Running("requests", "DICOM")
     /\ \/ whole /\ Region(byte_count + length - 1)
        \/ /\ ~ whole
           /\ out' = IF byte_count < buf_size THEN Append(out, <<byte_count, buf_size - 1>>)
                                              ELSE out
           /\ pc' = "returned"
           /\ UNCHANGED <<byte_count, cur_start, stale>>
     /\ Constant

\* a content type of DTLS and the version DTLS 1.2
DtlsHeader(i) == b(i) \in 20 .. 24 /\ bytes(i + 1, 2) = <<254, 253>>

extract_requests_dtls12 ==
  /\ Reading("requests", "DTLS12")
  /\ IF byte_count > 3 /\ DtlsHeader(byte_count)
       THEN /\ out' = Append(out, <<cur_start, byte_count - 1>>)
            /\ cur_start' = byte_count
            /\ byte_count' = byte_count + 1
            /\ UNCHANGED <<stale, pc>>
       ELSE IF byte_count = buf_size - 1
         THEN Region(byte_count)
         ELSE ReadOn
  /\ Constant

extract_requests ==
  \/ extract_requests_smtp \/ extract_requests_ftp \/ extract_requests_rtsp
  \/ extract_requests_ssh \/ extract_requests_tls \/ extract_requests_dns
  \/ extract_requests_dicom \/ extract_requests_dtls12
  \/ NothingFound
=============================================================================
