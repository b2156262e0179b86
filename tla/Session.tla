------------------------------ MODULE Session ------------------------------
(***************************************************************************)
(* One execution as the network sees it: send_over_network sends the       *)
(* messages of kl_messages one by one and collects what the server         *)
(* answers, and update_region_annotations and preprocess_queue_entry cut   *)
(* the answers into the state sequences of the regions.                    *)
(*                                                                         *)
(* The server is a process of its own: it answers a message when it likes, *)
(* also while later messages are sent, it may answer in parts, and it may  *)
(* crash.  A unit of response_buf is a code (a complete answer), Part      *)
(* (bytes that complete no answer) or Bad (an answer without a code, where *)
(* extract_response_codes stops); it remembers the session it was sent in  *)
(* and the number of messages the server had taken by then.                *)
(***************************************************************************)
EXTENDS Orders

CONSTANTS
  Codes,            \* response codes, 0 is not one of them
  Part, Bad,        \* the units that are not codes
  MaxMessages,      \* bound: messages in kl_messages
  MaxUnits,         \* bound: units sent by the server in a session
  MaxSessions,      \* bound: sessions are numbered modulo this
  MaxCoverage,      \* bound: bits the target can set late in a session
  TruncateAt        \* 200 in truncate_long_regions

ASSUME CodesAssumption == Codes \subseteq Nat \ {0}
ASSUME BoundsAssumption ==
  /\ {MaxMessages, MaxUnits, MaxSessions, TruncateAt} \subseteq Nat \ {0}
  /\ MaxCoverage \in Nat

Unit == [what : Codes \cup {Part, Bad}, taken : 0..MaxMessages,
         session : 1..MaxSessions]

VARIABLES
  \* the fuzzer
  pc,
  session,         \* number of the current session, 0 before the first
  count,           \* messages in kl_messages
  messages_sent,
  response_buf,
  response_bytes,  \* <<>> is the null pointer
  likely_buggy,
  seen,            \* bits that session_virgin_bits has lost
  regions,         \* number of states of each region of the entry, 0 for NULL
  states,          \* the state sequence of its last region
  region_index,    \* of remove_null_regions, 0 outside of it
  null_regions,    \* null_region_count of remove_null_regions
  \* the server
  alive,
  arrived,         \* messages that reached it
  taken,           \* messages it has read
  wire,            \* units it sent that were not received yet
  emitted,         \* units it sent in this session
  lit              \* bits it has set
entry == <<regions, states, region_index, null_regions>>
fuzzer == <<pc, session, count, messages_sent, response_buf, response_bytes,
            likely_buggy, seen, entry>>
server == <<alive, arrived, taken, wire, emitted, lit>>
vars == <<fuzzer, server>>

-----------------------------------------------------------------------------
(* From answers to regions *)

(* The answers with a code, before the first one without.                   *)
WithCode(buf) ==
  {k \in DOMAIN buf : buf[k].what # Part /\ \A j \in 1..k : buf[j].what # Bad}

(* extract_response_codes: the initial state and the codes of the answers.  *)
extract_response_codes(buf) ==
  LET code == At(WithCode(buf), buf)
  IN  <<0>> \o [k \in DOMAIN code |-> code[k].what]

(* update_region_annotations: the state_count of region k, 0 for a region   *)
(* that got no answer.                                                      *)
StateCount(bytes, buf, k) ==
  IF bytes[k] = 0 \/ (k > 1 /\ bytes[k] = bytes[k - 1]) THEN 0
  ELSE Len(extract_response_codes(SubSeq(buf, 1, bytes[k])))

(* The regions of an entry: n messages of which the first ones were sent.   *)
Annotation(sent, bytes, buf, n) ==
  [k \in 1..n |-> IF k <= sent THEN StateCount(bytes, buf, k) ELSE 0]

(* The regions that got an answer.                                          *)
Answered(counts) == {k \in DOMAIN counts : counts[k] # 0}

(* truncate_long_regions *)
Truncated(counts) ==
  [k \in DOMAIN counts |-> IF counts[k] < TruncateAt THEN counts[k] ELSE TruncateAt]

-----------------------------------------------------------------------------
Init ==
  /\ pc = "idle" /\ session = 0 /\ count = 0
  /\ messages_sent = 0
  /\ response_buf = <<>> /\ response_bytes = <<>>
  /\ likely_buggy = FALSE /\ seen = 0
  /\ regions = <<>> /\ states = <<>> /\ region_index = 0 /\ null_regions = 0
  /\ alive = FALSE /\ arrived = 0 /\ taken = 0 /\ wire = <<>>
  /\ emitted = 0 /\ lit = 0

(* The server ---------------------------------------------------------------*)

ServerTakes ==
  /\ alive /\ taken < arrived
  /\ taken' = taken + 1
  /\ UNCHANGED <<fuzzer, alive, arrived, wire, emitted, lit>>

(* An early greeting, an answer, or a part of one. *)
ServerSends ==
  /\ alive /\ emitted < MaxUnits
  /\ \E what \in Codes \cup {Part, Bad} :
       wire' = Append(wire, [what |-> what, taken |-> taken, session |-> session])
  /\ emitted' = emitted + 1
  /\ UNCHANGED <<fuzzer, alive, arrived, taken, lit>>

ServerCovers ==
  /\ alive /\ lit < MaxCoverage
  /\ lit' = lit + 1
  /\ UNCHANGED <<fuzzer, alive, arrived, taken, wire, emitted>>

ServerCrashes ==
  /\ alive
  /\ alive' = FALSE
  /\ UNCHANGED <<fuzzer, arrived, taken, wire, emitted, lit>>

(* The fuzzer ---------------------------------------------------------------*)

(* run_target starts a new server with the list of some entry.              *)
StartSession ==
  /\ pc = "idle"
  /\ session' = (session % MaxSessions) + 1
  /\ count' \in 1..MaxMessages
  /\ likely_buggy' = FALSE /\ seen' = 0
  /\ regions' = <<>> /\ states' = <<>>
  /\ alive' = TRUE
  /\ pc' = "connect"
  /\ UNCHANGED <<messages_sent, response_buf, response_bytes, region_index, null_regions,
                 arrived, taken, wire, emitted, lit>>

SlipForget(buf, bytes) == response_buf' = <<>> /\ response_bytes' = bytes

(* The buffers of the last session are freed. *)
Forget(buf, bytes) == response_buf' = <<>> /\ response_bytes' = <<>>

(* The connection is made, also after some of the 1000 retries, or not.     *)
Connect ==
  /\ pc = "connect"
  /\ Forget(response_buf, response_bytes)
  /\ pc' \in {"early", "closed"}
  /\ UNCHANGED <<session, count, messages_sent, likely_buggy, seen, entry, server>>

(* net_recv with result ok takes what has arrived.  A signal or a reset of  *)
(* the connection makes it fail, perhaps after it took a part; a reset also *)
(* loses the rest.                                                          *)
NetRecv(ok) ==
  /\ \E k \in 0..Len(wire) :
       /\ ok => k = Len(wire)
       /\ response_buf' = response_buf \o SubSeq(wire, 1, k)
       /\ wire' \in {SubSeq(wire, k + 1, Len(wire)), <<>>}
  /\ UNCHANGED <<alive, arrived, taken, emitted, lit>>

(* The early response, read before the first message.                       *)
Early ==
  /\ pc = "early"
  /\ \/ NetRecv(TRUE) /\ messages_sent' = 0 /\ pc' = "send"
     \/ NetRecv(FALSE) /\ UNCHANGED messages_sent /\ pc' = "handle"
  /\ UNCHANGED <<session, count, response_bytes, likely_buggy, seen, entry>>

(* net_send of the next message; when it does not send all of it, the       *)
(* server may still get it.                                                 *)
Send ==
  /\ pc = "send" /\ messages_sent < count
  /\ messages_sent' = messages_sent + 1
  /\ response_bytes' = Append(response_bytes, 0)
  /\ \/ arrived' = arrived + 1 /\ pc' = "recv"
     \/ arrived' \in {arrived, arrived + 1} /\ pc' = "handle"
  /\ UNCHANGED <<session, count, response_buf, likely_buggy, seen, entry,
                 alive, taken, wire, emitted, lit>>

Received == Len(response_buf') > Len(response_buf)

Recv ==
  /\ pc = "recv"
  /\ \/ /\ NetRecv(TRUE)
        /\ response_bytes' = [response_bytes EXCEPT
                                ![messages_sent] = Len(response_buf')]
        /\ likely_buggy' = ~Received
        /\ pc' = "send"
     \/ /\ NetRecv(FALSE)
        /\ pc' = "handle"
        /\ UNCHANGED <<response_bytes, likely_buggy>>
  /\ UNCHANGED <<session, count, messages_sent, seen, entry>>

AllSent ==
  /\ pc = "send" /\ messages_sent = count
  /\ pc' = "handle"
  /\ UNCHANGED <<session, count, messages_sent, response_buf, response_bytes,
                 likely_buggy, seen, entry, server>>

SlipTotal(bytes, n, total) == bytes

(* HANDLE_RESPONSES counts what came late to the last message.              *)
Total(bytes, n, total) ==
  IF n > 0 /\ bytes # <<>> THEN [bytes EXCEPT ![n] = total] ELSE bytes

HandleResponses ==
  /\ pc = "handle"
  /\ NetRecv(TRUE) \/ NetRecv(FALSE)
  /\ response_bytes' = Total(response_bytes, messages_sent, Len(response_buf'))
  /\ seen' = 0
  /\ pc' = "drain"
  /\ UNCHANGED <<session, count, messages_sent, likely_buggy, entry>>

SlipSeen(bits) == 0

(* has_new_bits clears in session_virgin_bits the bits it finds set.        *)
Seen(bits) == bits

(* The wait loop goes on as long as the target sets new bits.               *)
Drain ==
  /\ pc = "drain"
  /\ seen' = Seen(lit)
  /\ pc' = IF lit > seen THEN "drain" ELSE "closed"
  /\ UNCHANGED <<session, count, messages_sent, response_buf, response_bytes,
                 likely_buggy, entry, server>>

(* The regions of the entry are the messages: all of them in the dry run,   *)
(* those that were sent for a new entry.                                    *)
Annotated(n) == Annotation(messages_sent, response_bytes, response_buf, n)

NoAnswer == response_buf = <<>> \/ response_bytes = <<>>

(* The session is over, the server ends, and the entry is kept or not:      *)
(* update_MCTS_tree annotates its regions.                                  *)
Annotate ==
  /\ pc = "closed"
  /\ \/ /\ NoAnswer
        /\ pc' = "idle" /\ regions' = <<>>
        /\ UNCHANGED <<region_index, null_regions>>
     \/ /\ ~NoAnswer
        /\ \E n \in {count, messages_sent} : regions' = Annotated(n)
        /\ pc' = "remove" /\ region_index' = 1 /\ null_regions' = 0
  /\ alive' = FALSE /\ arrived' = 0 /\ taken' = 0 /\ wire' = <<>>
  /\ emitted' = 0 /\ lit' = 0
  /\ UNCHANGED <<session, count, messages_sent, response_buf, response_bytes,
                 likely_buggy, seen, states>>

Inspected == region_index + null_regions

(* One iteration of the loops of remove_null_regions, which moves the       *)
(* regions that have states to the front, in place.                         *)
remove_null_regions ==
  /\ pc = "remove" /\ Inspected <= Len(regions)
  /\ \/ /\ regions[Inspected] = 0
        /\ null_regions' = null_regions + 1
        /\ UNCHANGED <<regions, region_index>>
     \/ /\ regions[Inspected] # 0
        /\ regions' = [regions EXCEPT ![region_index] = regions[Inspected]]
        /\ region_index' = region_index + 1
        /\ UNCHANGED null_regions
  /\ UNCHANGED <<pc, session, count, messages_sent, response_buf, response_bytes,
                 likely_buggy, seen, states, server>>

(* The rest of preprocess_queue_entry, and the states of the last region.   *)
Preprocess ==
  /\ pc = "remove" /\ Inspected > Len(regions)
  /\ regions' = Truncated(SubSeq(regions, 1, region_index - 1))
  /\ states' =
       IF regions' = <<>> THEN <<>>
       ELSE SubSeq(extract_response_codes(response_buf), 1, regions'[Len(regions')])
  /\ region_index' = 0 /\ null_regions' = 0
  /\ pc' = "idle"
  /\ UNCHANGED <<session, count, messages_sent, response_buf, response_bytes,
                 likely_buggy, seen, server>>

Fuzzer == \/ Connect \/ Early \/ Send \/ Recv \/ AllSent \/ HandleResponses
          \/ Drain \/ Annotate \/ remove_null_regions \/ Preprocess
Server == ServerTakes \/ ServerSends \/ ServerCovers \/ ServerCrashes
Next == StartSession \/ Fuzzer \/ Server

Spec == Init /\ [][Next]_vars /\ WF_vars(Fuzzer)

-----------------------------------------------------------------------------
(* Properties *)

(* The types of the variables.                                              *)
TypeOK ==
  /\ pc \in {"idle", "connect", "early", "send", "recv", "handle", "drain", "closed", "remove"}
  /\ session \in 0..MaxSessions /\ count \in 0..MaxMessages
  /\ messages_sent \in 0..MaxMessages
  /\ response_buf \in Seq(Unit) /\ wire \in Seq(Unit)
  /\ response_bytes \in Seq(Nat)
  /\ likely_buggy \in BOOLEAN /\ alive \in BOOLEAN
  /\ regions \in Seq(Nat) /\ states \in Seq(Codes \cup {0})
  /\ pc # "remove" => regions \in Seq(1..TruncateAt)
  /\ region_index \in 0..MaxMessages + 1 /\ null_regions \in 0..MaxMessages
  /\ arrived \in 0..count /\ taken \in 0..arrived
  /\ emitted \in 0..MaxUnits
  /\ lit \in 0..MaxCoverage /\ seen \in 0..MaxCoverage

Over == pc \in {"drain", "closed", "remove", "idle"}

(* Everything update_region_annotations reads comes from one execution: the *)
(* accumulated sizes are those of the messages of this list (the entry has  *)
(* a region for each of them), and no answer is left from the session       *)
(* before, also when the connection fails and messages_sent keeps its old   *)
(* value.                                                                   *)
AnnotationFits ==
  Over /\ response_bytes # <<>> =>
    messages_sent <= count /\ messages_sent = Len(response_bytes)
NoStaleResponses ==
  pc \notin {"idle", "connect"} =>
    \A k \in DOMAIN response_buf : response_buf[k].session = session

(* However sending ended, the sizes never decrease from message to message  *)
(* (update_region_annotations subtracts unsigned numbers) and the last one  *)
(* covers all that was received.                                            *)
BytesGrow ==
  Over /\ response_bytes # <<>> =>
    /\ \A k \in 2..Len(response_bytes) : response_bytes[k - 1] <= response_bytes[k]
                                         \/ response_bytes[k] = 0
    /\ response_bytes[Len(response_bytes)] = Len(response_buf)

(* A region is never credited with an answer the server gave after reading  *)
(* a later message.                                                         *)
Causality ==
  \A i \in DOMAIN response_bytes : \A k \in 1..response_bytes[i] :
    k <= Len(response_buf) => response_buf[k].taken <= i

ST == INSTANCE SearchTree WITH MaxSelected <- 0

(* An entry update_MCTS_tree does not turn away has a region when its last  *)
(* one is read, and is what Expansion assumes: no region without states,    *)
(* and every region's states a prefix of those of the last (Entries of      *)
(* MCTS).  Its regions are those that got an answer, in their order.        *)
EntryWellFormed ==
  pc = "idle" /\ ~NoAnswer =>
    /\ regions # <<>> /\ ST!WellFormed([codes |-> states, counts |-> regions])
    /\ \E n \in {count, messages_sent} :
         regions = At(Answered(Annotated(n)), Truncated(Annotated(n)))

(* What is annotated belongs to this session (afl-fuzz.c:1184, 835).        *)
OneSession == TypeOK /\ AnnotationFits /\ NoStaleResponses

(* Answers are credited to the messages they were given to, and what comes  *)
(* of it is an entry the callers can use (afl-fuzz.c:603, 1201, 856).       *)
AnswersCredited == BytesGrow /\ Causality /\ EntryWellFormed

(* A session comes to an end, whatever the server does: the fuzzer alone    *)
(* has to be scheduled, and the target has a finite map to fill.            *)
SessionEnds == (pc = "connect") ~> (pc = "idle")
=============================================================================
