---------------------------- MODULE MCExtractors ----------------------------
(* Whole, short, cut off and misshapen messages of each protocol.           *)
EXTENDS Extractors

Zeros(n) == [i \in 1 .. n |-> 0]
Filler(n) == [i \in 1 .. n |-> 65]

\* lengths 1 and 2 as bytes of a length field; a ChangeCipherSpec, a handshake
\* record, one of application data, an empty and a truncated one
TlsPieces ==
  {<<20, 3, 3, 0, 1, 1>>, <<22, 3, 3, 0, 2, 1, 0>>, <<23, 3, 3, 0, 1, 9>>,
   <<21, 3, 3, 0, 0>>, <<22, 3>>, <<22, 3, 3, 0, 9, 2, 7>>}

SshIdent == Identification \o <<50, 13, 10>>

\* a key exchange message, one with a MAC, one that lacks half of it
SshPieces ==
  {SshIdent, <<0, 0, 0, 3, 1, 20, 7>>, <<0, 0, 0, 2, 1, 94>> \o Filler(8)}

\* an incomplete message, the five bytes of a header and what may follow them, a
\* header that leads back to itself, one with "SS" at its end, no end of line
SshParts ==
  {<<0, 0, 0, 9, 1, 94>>, <<0, 0, 0, 9, 1>>, <<20, 7>>, <<255, 255, 255, 252, 1>>,
   <<65, 65, 65, 65, 83, 83>>, Identification \o <<50, 46>>}

MCBehind == {<<>>, <<30>>, <<0, 0, 30>>}

DnsHeader == <<1, 2, 129, 128>> \o Filler(8)

DtlsRecord(type, n, body) == <<type, 254, 253>> \o Filler(8) \o <<0, n>> \o body

MCRequests ==
  [p \in Protocols |->
     CASE p \in {"SMTP", "FTP"} -> {<<65>> \o CRLF, <<65, 13>>, CRLF, <<10>>, <<65, 66>> \o CRLF}
       [] p = "RTSP" -> {<<65>> \o CRLF \o CRLF, CRLF, <<65>>, <<10, 13, 10>>}
       [] p = "SSH" -> SshPieces \cup {<<83, 83>>, <<0, 0, 0, 1, 1, 20>>, <<7>>}
       [] p = "TLS" -> TlsPieces \cup {<<22>>}
       [] p = "DICOM" -> {<<1, 0, 0, 0, 0, 2, 9, 9>>, <<2, 0, 0, 0, 0, 0>>, <<3>>,
                          <<4, 0, 255, 255, 255, 252>>, <<5, 0, 255, 255, 255, 250>>, <<0, 0, 0, 0>>}
       [] p = "DNS" -> {DnsHeader \o <<0>> \o Filler(4), DnsHeader \o <<1, 0>> \o Filler(4),
                        DnsHeader \o <<0, 1>>, <<0, 0>>, <<1>>}
       [] p = "DTLS12" -> {DtlsRecord(22, 1, <<1>>), DtlsRecord(20, 2, <<1, 2>>), <<22, 254>>,
                           <<253>>, <<22, 254, 253>>, <<7>>}]

MCReplies ==
  [p \in Protocols |->
     CASE p \in {"SMTP", "FTP"} ->
            {<<50, 50, 48>> \o CRLF, <<53, 53, 49, 32>> \o CRLF, <<50, 53, 49>>, CRLF, <<13>>, <<65, 10>>,
             <<45, 49>> \o CRLF}
       [] p = "RTSP" -> {RtspVersion \o <<49, 46, 48, 32, 50, 48, 48>> \o CRLF \o <<65>> \o CRLF \o CRLF,
                         RtspVersion \o CRLF, <<65>>, CRLF, RtspVersion \o Filler(4) \o <<52, 48, 52>>}
       [] p = "SSH" -> SshPieces \cup SshParts
       [] p = "TLS" -> TlsPieces
       [] p = "DICOM" -> {<<2, 0, 0, 0, 0, 0>>, <<4>>}
       [] p = "DNS" -> {DnsHeader \o <<0>> \o Filler(4), Filler(4) \o Zeros(8), <<0>>}
       [] p = "DTLS12" -> {DtlsRecord(20, 1, <<1>>), DtlsRecord(21, 2, <<2, 40>>),
                           DtlsRecord(22, 12, <<1>> \o Zeros(11)),
                           DtlsRecord(22, 13, <<2>> \o Zeros(10) \o <<1, 0>>), DtlsRecord(22, 1, <<3>>),
                           DtlsRecord(24, 1, <<1>>), DtlsRecord(21, 0, <<>>), DtlsRecord(23, 1, <<1>>), <<0, 22>>}]
=============================================================================
