----------------------------- MODULE Extractors -----------------------------
(***************************************************************************)
(* The protocol extractors as AFLNet calls them: on the bytes of a seed    *)
(* file to find the requests in it (add_to_queue), and on the responses    *)
(* that have come so far, cut off after every message that was sent        *)
(* (update_region_annotations), to find the states of the server.  Pieces  *)
(* of a buffer are whole or broken messages; Piece(p) are those a peer of  *)
(* protocol p may send or a seed may hold.                                 *)
(*                                                                         *)
(* What the extractors promise is stated with the framing of each protocol,*)
(* written down independently of them: IsRequest and ReplyCode.            *)
(***************************************************************************)
EXTENDS ResponseCodes

CONSTANTS
  Requests,   \* Requests[p]: pieces of seed files of protocol p
  Replies,    \* Replies[p]: pieces of responses
  MaxPieces,  \* longest file, and longest responses, in pieces
  Behind      \* what may follow the byte that ends an allocation

ASSUME ExtractorsAssumption ==
  /\ DOMAIN Requests \subseteq Protocols /\ DOMAIN Replies \subseteq Protocols
  /\ \A p \in DOMAIN Requests : \A x \in Requests[p] : x \in Seq(0 .. 255)
  /\ \A p \in DOMAIN Replies : \A x \in Replies[p] : x \in Seq(0 .. 255)
  /\ MaxPieces \in Nat
  /\ <<>> \in Behind /\ Behind \subseteq Seq(0 .. 255)

VARIABLE sure   \* history: how many of the codes in out come from the buffer alone

vars == <<parsing, sure>>

\* only these look at what is behind the allocation
Overrunning == {"SSH", "DTLS12"}

Init ==
  /\ \/ /\ side = "requests" /\ proto \in DOMAIN Requests
        /\ pieces \in BoundedSeq(Requests[proto], MaxPieces)
        /\ given = Len(pieces) /\ out = <<>>
     \/ /\ side = "responses" /\ proto \in DOMAIN Replies
        /\ pieces \in BoundedSeq(Replies[proto], MaxPieces)
        /\ given = 0 /\ out = <<0>>
  /\ behind = <<>>
  /\ before = <<>> /\ sure = Len(out)
  /\ byte_count = 0 /\ cur_start = 0 /\ stale = [i \in 1 .. 12 |-> 0]
  /\ pc = "loop"

\* the next call, on the responses up to a later message
Grow ==
  /\ pc = "returned" /\ side = "responses" /\ given < Len(pieces)
  /\ given' = given + 1
  /\ behind' \in IF proto \in Overrunning THEN Behind ELSE {<<>>}
  /\ before' = SubSeq(out, 1, sure)
  /\ byte_count' = 0 /\ cur_start' = 0 /\ stale' = [i \in 1 .. 12 |-> 0]
  /\ out' = <<0>> /\ sure' = 1
  /\ pc' = "loop"
  /\ UNCHANGED <<proto, side, pieces>>

Extract ==
  /\ extract_requests \/ extract_response_codes
  /\ sure' = IF sure = Len(out) /\ ~ Overruns THEN Len(out') ELSE sure

Next == Extract \/ Grow

\* an extractor is a function of the fuzzer, which runs on
Spec == Init /\ [][Next]_vars /\ WF_vars(Extract)

-----------------------------------------------------------------------------
\* the framing of the protocols

Occurs(t, x) == \E i \in 0 .. Len(x) - Len(t) : SubSeq(x, i + 1, i + Len(t)) = t

Value(x) == FoldLeft(LAMBDA v, y : 256 * v + y, 0, x)

\* a line longer than its terminator, which is its end and nowhere else
IsLine(x, t) == Len(x) > Len(t) /\ IsSuffix(t, x) /\ ~ Occurs(t, Front(x))

IsRequest(p, x) ==
  CASE p \in {"SMTP", "FTP"} -> IsLine(x, CRLF)
    [] p = "RTSP" -> IsLine(x, CRLF \o CRLF)
    [] p = "SSH" -> \/ IsLine(x, CRLF) /\ IsPrefix(Identification, x)
                    \/ /\ Len(x) >= 6 /\ x[1] = 0 /\ Value(SubSeq(x, 1, 4)) >= 2
                       /\ Len(x) = 4 + Value(SubSeq(x, 1, 4)) + MacLength(x[6])
    [] p = "TLS" -> Len(x) >= 6 /\ Len(x) = 5 + Value(SubSeq(x, 4, 5))
    [] p = "DICOM" -> Len(x) >= 6 /\ x[3] = 0 /\ Len(x) = 6 + Value(SubSeq(x, 3, 6))
    [] p = "DNS" -> Len(x) >= 17 /\ x[Len(x) - 4] = 0
                    /\ \A i \in 13 .. Len(x) - 5 : x[i] # 0
    [] p = "DTLS12" -> /\ Len(x) > 13 /\ x[1] \in 20 .. 24 /\ SubSeq(x, 2, 3) = <<254, 253>>
                       /\ Len(x) = 13 + Value(SubSeq(x, 12, 13))
                       /\ ~ Occurs(<<254, 253>>, SubSeq(x, 4, Len(x)))

\* where the pieces of a buffer begin and end
Boundaries ==
  [k \in 1 .. given |->
     LET start == Len(FlattenSeq(SubSeq(pieces, 1, k - 1)))
     IN <<start, start + Len(pieces[k]) - 1>>]

\* the type of the message a DTLS record holds, 255 when it is encrypted and 254
\* when there is less of it than any message has
PlainType(type, body) ==
  LET least == [t \in 20 .. 24 |-> CASE t = 20 -> 1 [] t = 21 -> 2 [] t = 22 -> 12 [] t = 24 -> 3
                                     [] OTHER -> 0]
  IN CASE Len(body) < least[type] -> 254
       [] type = 20 /\ Len(body) = 1 -> body[1]
       [] type = 21 /\ Len(body) = 2 -> body[2]
       [] type = 22 /\ Len(body) >= 12 /\ Len(body) = 12 + Value(SubSeq(body, 10, 12)) -> body[1]
       [] OTHER -> 255

\* the codes a whole reply gives, by the rules of its protocol
ReplyCode(p, x) ==
  CASE p \in {"SMTP", "FTP"} -> atoi(SubSeq(x, 1, 3))
    [] p = "RTSP" -> atoi(SubSeq(x, 10, 12))
    [] p = "SSH" -> IF IsPrefix(Identification, x) THEN 256 ELSE x[6]
    [] p = "TLS" -> 256 * x[1] + (IF x[1] = 23 THEN 255 ELSE x[6])
    [] p = "DTLS12" -> 256 * x[1] + PlainType(x[1], SubSeq(x, 14, Len(x)))

IsReply(p, x) ==
  CASE p \in {"SMTP", "FTP"} -> IsLine(x, CRLF) /\ Len(x) >= 5 /\ ReplyCode(p, x) > 0
    [] p = "RTSP" -> /\ IsLine(x, CRLF \o CRLF) /\ Len(x) > 16
                     /\ IsPrefix(RtspVersion, x) /\ ReplyCode(p, x) > 0
                     /\ ~ Occurs(RtspVersion, SubSeq(x, 2, Len(x)))
    [] p \in {"SSH", "TLS", "DTLS12"} -> IsRequest(p, x)
    [] OTHER -> FALSE

-----------------------------------------------------------------------------
TypeOK ==
  /\ proto \in Protocols /\ side \in {"requests", "responses"}
  /\ pieces \in Seq((UNION Range(Requests)) \cup UNION Range(Replies))
  /\ given \in 0 .. Len(pieces) /\ behind \in Behind /\ sure \in 0 .. Len(out)
  /\ byte_count \in Nat /\ cur_start \in Nat
  /\ stale \in [1 .. 12 -> 0 .. 255]
  /\ \A k \in DOMAIN out :
       IF side = "requests" THEN out[k] \in Nat \X Nat ELSE out[k] \in Int
  /\ pc \in {"loop", "returned", "crashed"}

\* The regions of a file follow each other from its first byte on and leave
\* nothing out, whatever the file holds: what extract_requests returns is what
\* construct_kl_messages cuts the file into.  Two protocols keep every byte.
\* The others drop the last byte when a new message begins with it, and the 4
\* bytes that end a DNS query may lie behind the end of the file.
RegionsTile ==
  pc = "returned" /\ side = "requests" /\ buf_size > 0 =>
    /\ out # <<>> /\ out[1][1] = 0
    /\ \A k \in DOMAIN out : out[k][1] <= out[k][2]
    /\ \A k \in 2 .. Len(out) : out[k][1] = out[k - 1][2] + 1
    /\ LET end == out[Len(out)][2] + 1
       IN CASE proto \in {"DICOM", "DTLS12"} -> end = buf_size
            [] proto = "DNS" -> end \in buf_size - 1 .. buf_size + 4
            [] OTHER -> end \in {buf_size - 1, buf_size}

\* A file of whole requests is cut into just these requests: an extractor that
\* reads a byte too many or too few, or takes one that belongs to the next
\* message for a length, loses its place in what follows.
RegionsAreRequests ==
  /\ pc = "returned" /\ side = "requests"
  /\ \A k \in 1 .. given : IsRequest(proto, pieces[k])
  => out = Boundaries

\* Responses that give all their codes away: those of each reply in turn.  A
\* TLS record of 6 bytes, such as ChangeCipherSpec, is not seen when it is the
\* last one.
CodesAreReplies ==
  /\ pc = "returned" /\ side = "responses" /\ given > 0
  /\ \A k \in 1 .. given : IsReply(proto, pieces[k])
  => LET codes == <<0>> \o [k \in 1 .. given |-> ReplyCode(proto, pieces[k])]
     IN \/ out = codes
        \/ /\ proto = "TLS" /\ Len(pieces[given]) = 6
           /\ out = Front(codes)

\* More bytes of the responses never change the codes that were read from fewer:
\* the state sequences of the regions of an entry, taken from longer and longer
\* parts of one buffer, extend each other, wherever the server was cut off.
\* This is about the codes up to the first one that was read behind the buffer.
\* An SSH message whose header is cut off gives a code, and none when one byte
\* more completes the header but not the message (aflnet.c:662).
CodesGrow ==
  pc = "returned" /\ side = "responses" => IsPrefix(before, out)

\* Every call returns, or dies in the search for the end of an SSH
\* identification (aflnet.c:647-650), but for one that meets a DTLS record
\* without content or an SSH message whose header is cut off and whose length is
\* near 2^32: the loop moves on by the length of the content (1003), or around
\* to an earlier byte (675), and may take the same record again for ever.
Returns == pc = "loop" ~> pc # "loop" \/ EmptyRecord \/ WrapsAround

\* What extract_requests gives away: a partition of the file, and of a file of
\* whole requests the right one (aflnet.c:43-680).
RequestsCut == TypeOK /\ RegionsTile /\ RegionsAreRequests

\* What extract_response_codes gives away: the codes of the replies, and never
\* other ones because more bytes came (aflnet.c:682-1109, afl-fuzz.c:603-619).
ResponsesRead == CodesAreReplies /\ CodesGrow
=============================================================================
