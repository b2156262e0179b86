--------------------------- MODULE SessionProofs ----------------------------
(***************************************************************************)
(* Proofs about the messages of a session: those that are sent (Session)   *)
(* and the list they are kept in (MessageList).                            *)
(*                                                                         *)
(* Session: what is annotated belongs to the session that ends, answers    *)
(* are credited to messages the server had read, and the entry that comes  *)
(* of it is one the search tree can use, for any number of messages, units *)
(* and sessions.                                                           *)
(*                                                                         *)
(* MessageList: through any sequence of splices every cell is in the list, *)
(* on its way to be freed or in the pool, M2 is the mutated buffer when    *)
(* the target is run, and the list is a sequence in three parts            *)
(* (MessageSeq), for any queue, any buffers and any number of mutations.   *)
(***************************************************************************)
EXTENDS Session, MessageList, Sums, FiniteSetTheorems, SequenceTheorems, TLAPS

-----------------------------------------------------------------------------
(* The inductive invariant *)

\* The server sends in its session only, has nothing when it ended, and cannot
\* have got more messages than were sent.
OnWire ==
  /\ \A k \in DOMAIN wire : wire[k].session = session /\ wire[k].taken <= taken
  /\ pc \in {"idle", "remove"} =>
       ~alive /\ wire = <<>> /\ arrived = 0 /\ taken = 0 /\ emitted = 0 /\ lit = 0
  /\ pc # "idle" => session >= 1 /\ count >= 1
  /\ pc \in {"connect", "early"} => arrived = 0
  /\ pc \notin {"connect", "early"} => arrived <= messages_sent

Buffered ==
  /\ NoStaleResponses
  /\ pc \notin {"idle", "connect", "remove"} =>
       \A k \in DOMAIN response_buf : response_buf[k].taken <= taken
  /\ pc = "early" => response_buf = <<>> /\ response_bytes = <<>>

\* There is a size for each message that was sent.
Sized == messages_sent = Len(response_bytes) /\ messages_sent <= count

Counted ==
  /\ pc \in {"send", "recv"} => Sized
  /\ pc = "recv" => messages_sent >= 1
  /\ (pc = "handle" \/ Over) /\ response_bytes # <<>> => Sized

\* The sizes grow, but for the one of a message whose answer is still awaited.
Grown ==
  /\ \A k \in DOMAIN response_bytes : response_bytes[k] <= Len(response_buf)
  /\ \A i, j \in DOMAIN response_bytes :
       i <= j /\ j < Len(response_bytes) => response_bytes[i] <= response_bytes[j]
  /\ pc \notin {"recv", "handle"} /\ response_bytes # <<>> =>
       response_bytes[Len(response_bytes)] = Len(response_buf)

\* remove_null_regions has moved the regions with an answer among those it
\* inspected to the front, and has not touched the others.
Removing ==
  pc = "remove" =>
    LET n == Len(regions)
        counts == Annotated(n)
    IN  /\ ~NoAnswer /\ n \in {count, messages_sent}
        /\ region_index \in 1..n + 1 /\ Inspected \in 1..n + 1
        /\ region_index - 1 = Cardinality({j \in Answered(counts) : j < Inspected})
        /\ \A j \in Inspected..n : regions[j] = counts[j]
        /\ \A r \in 1..region_index - 1 : regions[r] = counts[Nth(Answered(counts), r)]

IInv ==
  /\ TypeOK /\ OnWire /\ Buffered /\ Counted /\ Grown /\ Causality /\ Removing /\ EntryWellFormed

-----------------------------------------------------------------------------
(* Numbers of a set in their order *)

\* Each place in the order of a finite set is taken by exactly one of its members.
LEMMA NthFound ==
  ASSUME NEW S \in SUBSET Nat, IsFiniteSet(S)
  PROVE  /\ Cardinality(S) \in Nat
         /\ \A r \in 1..Cardinality(S) :
              Nth(S, r) \in S /\ Cardinality({q \in S : q < Nth(S, r)}) = r - 1
         /\ \A r \in 1..Cardinality(S), p \in S :
              Cardinality({q \in S : q < p}) = r - 1 => p = Nth(S, r)
<1> DEFINE n == Cardinality(S)
           below(p) == {q \in S : q < p}
           rank == [p \in S |-> Cardinality(below(p))]
<1>1. n \in Nat
  BY FS_CardinalityType
<1>2. ASSUME NEW p \in S
      PROVE  IsFiniteSet(below(p)) /\ Cardinality(below(p)) \in 0..n - 1
  <2>1. p \notin below(p)
    OBVIOUS
  <2>2. below(p) \in SUBSET (S \ {p})
    OBVIOUS
  <2>3. IsFiniteSet(S \ {p}) /\ Cardinality(S \ {p}) = n - 1
    BY FS_RemoveElement
  <2>4. IsFiniteSet(below(p)) /\ Cardinality(below(p)) <= n - 1
    BY <2>2, <2>3, FS_Subset
  <2>5. Cardinality(below(p)) \in Nat
    BY <2>4, FS_CardinalityType
  <2> QED
    BY <1>1, <2>4, <2>5
<1>3. ASSUME NEW p \in S, NEW q \in S, p < q
      PROVE  Cardinality(below(p)) # Cardinality(below(q))
  <2>1. below(p) \in SUBSET below(q)
    <3>1. \A x \in S : x < p => x < q
      BY <1>3
    <3> QED
      BY <3>1
  <2>2. p \in below(q) /\ p \notin below(p)
    BY <1>3
  <2>3. below(p) # below(q)
    BY <2>2
  <2> QED
    BY <1>2, <2>1, <2>3, FS_Subset
<1>4. rank \in Injection(S, 0..n - 1)
  <2>1. rank \in [S -> 0..n - 1]
    BY <1>2
  <2>2. ASSUME NEW p \in S, NEW q \in S, p # q
        PROVE  rank[p] # rank[q]
    <3>1. p < q \/ q < p
      BY <2>2
    <3> QED
      BY <1>3, <3>1
  <2> QED
    BY <2>1, <2>2 DEF Injection, IsInjective
<1>5. IsFiniteSet(0..n - 1) /\ Cardinality(0..n - 1) = n
  <2>1. 0 \in Int /\ n - 1 \in Int /\ (n - 1) - 0 + 1 = n /\ (0 > n - 1 => n = 0)
    BY <1>1
  <2> HIDE DEF n
  <2> QED
    BY <2>1, FS_Interval
<1>6. \A p \in S : rank[p] = Cardinality({q \in S : q < p})
  OBVIOUS
<1> HIDE DEF rank
<1>7. rank \in Surjection(S, 0..n - 1)
  BY <1>4, <1>5, FS_Injection
<1>8. \A j \in 0..n - 1 : \E p \in S : rank[p] = j
  BY <1>7 DEF Surjection
<1>9. \A p, q \in S : rank[p] = rank[q] => p = q
  BY <1>4 DEF Injection, IsInjective
<1>10. ASSUME NEW r \in 1..n
       PROVE  Nth(S, r) \in S /\ Cardinality({q \in S : q < Nth(S, r)}) = r - 1
  <2>1. r - 1 \in 0..n - 1
    BY <1>1
  <2>2. PICK p \in S : rank[p] = r - 1
    BY <1>8, <2>1
  <2>3. Cardinality({q \in S : q < p}) = r - 1
    BY <1>6, <2>2
  <2> QED
    BY <2>3 DEF Nth
<1>11. ASSUME NEW r \in 1..n, NEW p \in S, Cardinality({q \in S : q < p}) = r - 1
       PROVE  p = Nth(S, r)
  <2>1. rank[p] = r - 1 /\ rank[Nth(S, r)] = r - 1
    BY <1>6, <1>10, <1>11
  <2> QED
    BY <1>9, <1>10, <2>1
<1> QED
  BY <1>1, <1>10, <1>11

\* The places are in the order of the numbers.
LEMMA NthGrows ==
  ASSUME NEW S \in SUBSET Nat, IsFiniteSet(S),
         NEW i \in 1..Cardinality(S), NEW j \in 1..Cardinality(S), i <= j
  PROVE  Nth(S, i) <= Nth(S, j)
<1> DEFINE p == Nth(S, i)
           q == Nth(S, j)
<1>1. /\ Cardinality(S) \in Nat /\ p \in S /\ q \in S
      /\ Cardinality({x \in S : x < p}) = i - 1
      /\ Cardinality({x \in S : x < q}) = j - 1
  BY NthFound
<1>2. p \in Nat /\ q \in Nat /\ \A x \in S : x \in Nat
  BY <1>1
<1> HIDE DEF p, q
<1> SUFFICES ASSUME q < p
             PROVE  FALSE
  BY <1>2 DEF p, q
<1>3. {x \in S : x < q} \in SUBSET {x \in S : x < p}
  <2>1. \A x \in S : x < q => x < p
    BY <1>2
  <2> QED
    BY <2>1
<1>4. {x \in S : x < p} \in SUBSET S
  OBVIOUS
<1>5. IsFiniteSet({x \in S : x < p})
  BY <1>4, FS_Subset
<1>6. j - 1 <= i - 1
  BY <1>1, <1>3, <1>5, FS_Subset
<1>7. i = j
  BY <1>1, <1>6
<1>8. {x \in S : x < p} = {x \in S : x < q}
  BY <1>1, <1>3, <1>5, <1>7, FS_Subset
<1>9. q \in {x \in S : x < p} /\ q \notin {x \in S : x < q}
  BY <1>1, <1>2
<1> QED
  BY <1>8, <1>9

\* What a sequence has at the numbers of a set is a sequence.
LEMMA AtTyped ==
  ASSUME NEW S, IsFiniteSet(S), S \subseteq Nat, NEW T, NEW s,
         \A k \in S : s[k] \in T
  PROVE  /\ At(S, s) \in Seq(T) /\ Len(At(S, s)) = Cardinality(S)
         /\ \A r \in 1..Cardinality(S) : At(S, s)[r] = s[Nth(S, r)]
<1>1. Cardinality(S) \in Nat /\ \A r \in 1..Cardinality(S) : Nth(S, r) \in S
  BY NthFound
<1>2. \A r \in 1..Cardinality(S) : s[Nth(S, r)] \in T
  BY <1>1
<1>3. At(S, s) = [r \in 1..Cardinality(S) |-> s[Nth(S, r)]]
  BY DEF At
<1>4. At(S, s) \in [1..Cardinality(S) -> T]
  BY <1>2, <1>3
<1>5. At(S, s) \in Seq(T)
  BY <1>1, <1>4
<1>6. Len(At(S, s)) = Cardinality(S)
  BY <1>1, <1>4, <1>5, LenProperties
<1> QED
  BY <1>3, <1>5, <1>6

-----------------------------------------------------------------------------
(* Answers and their codes *)

\* There is one code more than answers with a code, and the first is the
\* initial state.
LEMMA CodesExtracted ==
  ASSUME NEW buf \in Seq(Unit)
  PROVE  /\ IsFiniteSet(WithCode(buf)) /\ Cardinality(WithCode(buf)) \in Nat
         /\ extract_response_codes(buf) \in Seq(Codes \cup {0})
         /\ Len(extract_response_codes(buf)) = 1 + Cardinality(WithCode(buf))
         /\ extract_response_codes(buf)[1] = 0
<1> DEFINE S == WithCode(buf)
           code == At(S, buf)
           whats == [k \in DOMAIN code |-> code[k].what]
           Answer == {u \in Unit : u.what \in Codes}
<1>1. Len(buf) \in Nat /\ DOMAIN buf = 1..Len(buf) /\ \A k \in DOMAIN buf : buf[k] \in Unit
  BY LenProperties, ElementOfSeq
<1>2. S \subseteq Nat /\ S \in SUBSET (1..Len(buf))
  BY <1>1 DEF WithCode
<1>3. IsFiniteSet(1..Len(buf))
  BY <1>1, FS_Interval
<1>4. IsFiniteSet(S) /\ Cardinality(S) \in Nat
  BY <1>2, <1>3, FS_Subset, FS_CardinalityType
<1>5. ASSUME NEW k \in S
      PROVE  buf[k] \in Answer
  <2>1. k \in 1..Len(buf) /\ buf[k] \in Unit /\ buf[k].what # Part /\ buf[k].what # Bad
    BY <1>1 DEF WithCode
  <2>2. buf[k].what \in Codes \cup {Part, Bad}
    BY <2>1 DEF Unit
  <2> QED
    BY <2>1, <2>2
<1> HIDE DEF Answer
<1>6. /\ code \in Seq(Answer) /\ Len(code) = Cardinality(S)
      /\ \A r \in 1..Cardinality(S) : code[r] \in Answer
  <2>1. code \in Seq(Answer) /\ Len(code) = Cardinality(S)
    BY <1>2, <1>4, <1>5, AtTyped
  <2> QED
    BY <2>1, ElementOfSeq
<1>7. DOMAIN code = 1..Cardinality(S)
  BY <1>6, LenProperties
<1>8. \A u \in Answer : u.what \in Codes
  BY DEF Answer
<1>9. whats \in [1..Cardinality(S) -> Codes \cup {0}]
  BY <1>6, <1>7, <1>8
<1>10. whats \in Seq(Codes \cup {0}) /\ Len(whats) = Cardinality(S)
  <2> HIDE DEF whats
  <2>1. whats \in Seq(Codes \cup {0})
    BY <1>4, <1>9
  <2> QED
    BY <1>4, <1>9, <2>1, LenProperties
<1>11. extract_response_codes(buf) = <<0>> \o whats
  BY DEF extract_response_codes
<1> HIDE DEF whats
<1>12. <<0>> \in Seq(Codes \cup {0}) /\ Len(<<0>>) = 1 /\ <<0>>[1] = 0
  OBVIOUS
<1>13. /\ <<0>> \o whats \in Seq(Codes \cup {0})
       /\ Len(<<0>> \o whats) = 1 + Cardinality(S)
       /\ (<<0>> \o whats)[1] = 0
  <2>1. 1 \in 1..Len(<<0>>) + Len(whats)
    BY <1>4, <1>10
  <2> QED
    BY <1>4, <1>10, <1>12, <2>1, ConcatProperties
<1> QED
  BY <1>4, <1>11, <1>13

\* A longer prefix of the responses has at least as many codes.
LEMMA CodesGrow ==
  ASSUME NEW buf \in Seq(Unit), NEW a \in 0..Len(buf), NEW b \in 0..Len(buf), a <= b
  PROVE  /\ SubSeq(buf, 1, a) \in Seq(Unit) /\ SubSeq(buf, 1, b) \in Seq(Unit)
         /\ Len(extract_response_codes(SubSeq(buf, 1, a)))
              <= Len(extract_response_codes(SubSeq(buf, 1, b)))
<1>1. Len(buf) \in Nat /\ \A k \in 1..Len(buf) : buf[k] \in Unit
  BY LenProperties, ElementOfSeq
<1>2. a \in Nat /\ b \in Nat /\ a <= Len(buf) /\ b <= Len(buf)
  BY <1>1
<1>3. ASSUME NEW c \in {a, b}
      PROVE  /\ SubSeq(buf, 1, c) \in Seq(Unit) /\ DOMAIN SubSeq(buf, 1, c) = 1..c
             /\ \A k \in 1..c : SubSeq(buf, 1, c)[k] = buf[k]
  <2>1. c \in Nat /\ c <= Len(buf)
    BY <1>2
  <2>2. \A k \in 1..c : buf[k] \in Unit
    BY <1>1, <2>1
  <2>3. /\ SubSeq(buf, 1, c) \in Seq(Unit)
        /\ Len(SubSeq(buf, 1, c)) = IF 1 <= c THEN c - 1 + 1 ELSE 0
        /\ \A k \in 1..c - 1 + 1 : SubSeq(buf, 1, c)[k] = buf[1 + k - 1]
    BY <2>1, <2>2, SubSeqProperties
  <2>4. Len(SubSeq(buf, 1, c)) = c
    BY <2>1, <2>3
  <2>5. \A k \in 1..c : SubSeq(buf, 1, c)[k] = buf[k]
    BY <2>1, <2>3
  <2> QED
    BY <2>3, <2>4, <2>5, LenProperties
<1> DEFINE p == SubSeq(buf, 1, a)
           q == SubSeq(buf, 1, b)
<1>4. /\ p \in Seq(Unit) /\ q \in Seq(Unit) /\ DOMAIN p = 1..a /\ DOMAIN q = 1..b
      /\ \A k \in 1..a : p[k] = buf[k]
      /\ \A k \in 1..b : q[k] = buf[k]
  BY <1>3
<1>5. SUFFICES Len(extract_response_codes(p)) <= Len(extract_response_codes(q))
  BY <1>4
<1> HIDE DEF p, q
<1>6. WithCode(p) \in SUBSET WithCode(q)
  <2>1. ASSUME NEW k \in WithCode(p)
        PROVE  k \in WithCode(q)
    <3>1. k \in 1..a /\ p[k].what # Part /\ \A j \in 1..k : p[j].what # Bad
      BY <1>4 DEF WithCode
    <3>2. k \in 1..b /\ \A j \in 1..k : j \in 1..a /\ j \in 1..b
      BY <1>2, <3>1
    <3>3. q[k].what # Part /\ \A j \in 1..k : q[j].what # Bad
      BY <1>4, <3>1, <3>2
    <3> QED
      BY <1>4, <3>2, <3>3 DEF WithCode
  <2> QED
    BY <2>1
<1>7. Cardinality(WithCode(p)) <= Cardinality(WithCode(q))
  BY <1>4, <1>6, CodesExtracted, FS_Subset
<1>8. /\ Cardinality(WithCode(p)) \in Nat /\ Cardinality(WithCode(q)) \in Nat
      /\ Len(extract_response_codes(p)) = 1 + Cardinality(WithCode(p))
      /\ Len(extract_response_codes(q)) = 1 + Cardinality(WithCode(q))
  BY <1>4, CodesExtracted
<1> QED
  BY <1>7, <1>8

-----------------------------------------------------------------------------
(* The annotation of regions *)

\* What a session leaves when there are answers.
Kept(sent, bytes, buf) ==
  /\ buf \in Seq(Unit) /\ bytes \in Seq(Nat) /\ sent \in Nat \ {0} /\ sent = Len(bytes)
  /\ \A k \in 1..sent : bytes[k] <= Len(buf)
  /\ \A i, j \in 1..sent : i <= j => bytes[i] <= bytes[j]
  /\ bytes[sent] = Len(buf)

\* The states of the regions with an answer grow up to those of the whole
\* response, and there is such a region.
LEMMA AnnotationGrows ==
  ASSUME NEW sent, NEW bytes, NEW buf, Kept(sent, bytes, buf), NEW n \in Nat,
         NEW counts, counts = Annotation(sent, bytes, buf, n)
  PROVE  /\ counts \in Seq(Nat) /\ Len(counts) = n /\ DOMAIN counts = 1..n
         /\ IsFiniteSet(Answered(counts)) /\ Answered(counts) \in SUBSET (1..n)
         /\ \A k \in Answered(counts) : counts[k] >= 1 /\ counts[k] <= Len(extract_response_codes(buf))
         /\ \A i, j \in Answered(counts) : i <= j => counts[i] <= counts[j]
         /\ buf # <<>> /\ sent <= n => Answered(counts) # {}
<1> DEFINE codes(k) == Len(extract_response_codes(SubSeq(buf, 1, bytes[k])))
<1>1. /\ buf \in Seq(Unit) /\ bytes \in Seq(Nat) /\ sent \in Nat \ {0} /\ sent = Len(bytes)
      /\ \A k \in 1..sent : bytes[k] <= Len(buf)
      /\ \A i, j \in 1..sent : i <= j => bytes[i] <= bytes[j]
      /\ bytes[sent] = Len(buf)
  BY DEF Kept
<1>2. Len(buf) \in Nat /\ \A k \in 1..sent : bytes[k] \in Nat /\ bytes[k] \in 0..Len(buf)
  <2>1. Len(buf) \in Nat /\ \A k \in 1..sent : bytes[k] \in Nat
    BY <1>1, LenProperties, ElementOfSeq
  <2> QED
    BY <1>1, <2>1
<1>3. ASSUME NEW i \in 1..sent, NEW j \in 1..sent, i <= j
      PROVE  codes(i) <= codes(j)
  <2>1. bytes[i] <= bytes[j]
    BY <1>1, <1>3
  <2> QED
    BY <1>1, <1>2, <2>1, CodesGrow
<1>4. ASSUME NEW k \in 1..sent
      PROVE  codes(k) \in Nat /\ codes(k) >= 1 /\ codes(k) <= Len(extract_response_codes(buf))
  <2>1. SubSeq(buf, 1, bytes[k]) \in Seq(Unit)
    BY <1>1, <1>2, CodesGrow
  <2>2. codes(k) = 1 + Cardinality(WithCode(SubSeq(buf, 1, bytes[k])))
        /\ Cardinality(WithCode(SubSeq(buf, 1, bytes[k]))) \in Nat
    BY <2>1, CodesExtracted
  <2>3. codes(k) \in Nat /\ codes(k) >= 1
    BY <2>2
  <2>4. SubSeq(buf, 1, Len(buf)) = buf
    BY <1>1, SubSeqFull
  <2>5. Len(buf) \in 0..Len(buf) /\ bytes[k] <= Len(buf)
    BY <1>1, <1>2
  <2>6. codes(k) <= Len(extract_response_codes(SubSeq(buf, 1, Len(buf))))
    BY <1>1, <1>2, <2>5, CodesGrow
  <2> QED
    BY <2>3, <2>4, <2>6
<1>5. ASSUME NEW k \in 1..n
      PROVE  /\ counts[k] \in Nat
             /\ counts[k] # 0 => k \in 1..sent /\ counts[k] = codes(k)
             /\ k <= sent /\ bytes[k] # 0 /\ (k = 1 \/ bytes[k - 1] # bytes[k]) => counts[k] # 0
  <2>1. counts[k] = IF k <= sent THEN StateCount(bytes, buf, k) ELSE 0
    BY DEF Annotation
  <2>2. CASE k <= sent
    <3>1. k \in 1..sent
      BY <1>1, <2>2
    <3>2. counts[k] = IF bytes[k] = 0 \/ (k > 1 /\ bytes[k] = bytes[k - 1]) THEN 0 ELSE codes(k)
      BY <2>1, <2>2 DEF StateCount
    <3>3. codes(k) \in Nat /\ codes(k) >= 1
      BY <1>4, <3>1
    <3> HIDE DEF codes
    <3>4. counts[k] \in Nat /\ (counts[k] # 0 => counts[k] = codes(k))
      BY <3>2, <3>3
    <3>5. ASSUME bytes[k] # 0, k = 1 \/ bytes[k - 1] # bytes[k]
          PROVE  counts[k] # 0
      BY <3>2, <3>3, <3>5
    <3> QED
      BY <3>1, <3>4, <3>5
  <2>3. CASE ~(k <= sent)
    BY <2>1, <2>3
  <2> QED
    BY <2>2, <2>3
<1>6. counts \in Seq(Nat) /\ Len(counts) = n /\ DOMAIN counts = 1..n
  <2>1. counts \in [1..n -> Nat]
    BY <1>5 DEF Annotation
  <2>2. counts \in Seq(Nat)
    BY <2>1
  <2> QED
    BY <2>1, <2>2, LenProperties
<1>7. Answered(counts) \in SUBSET (1..n) /\ \A k \in 1..n : k \in Answered(counts) <=> counts[k] # 0
  BY <1>6 DEF Answered
<1>8. IsFiniteSet(Answered(counts))
  <2>1. IsFiniteSet(1..n)
    BY FS_Interval
  <2> QED
    BY <1>7, <2>1, FS_Subset
<1>9. \A k \in Answered(counts) : k \in 1..sent /\ counts[k] = codes(k)
  BY <1>5, <1>7
<1>10. ASSUME NEW k \in Answered(counts)
       PROVE  counts[k] >= 1 /\ counts[k] <= Len(extract_response_codes(buf))
  BY <1>4, <1>9
<1>11. ASSUME NEW i \in Answered(counts), NEW j \in Answered(counts), i <= j
       PROVE  counts[i] <= counts[j]
  BY <1>3, <1>9, <1>11
<1>12. ASSUME buf # <<>>, sent <= n
       PROVE  Answered(counts) # {}
  <2> DEFINE S == {k \in 1..sent : bytes[k] # 0}
             first == Nth(S, 1)
  <2>1. S \in SUBSET Nat /\ IsFiniteSet(S)
    <3>1. S \in SUBSET (1..sent) /\ S \in SUBSET Nat /\ sent \in Int
      BY <1>1
    <3>2. IsFiniteSet(1..sent)
      BY <3>1, FS_Interval
    <3> QED
      BY <3>1, <3>2, FS_Subset
  <2>2. sent \in S
    <3>1. Len(buf) # 0
      BY <1>1, <1>12, EmptySeq
    <3> QED
      BY <1>1, <3>1
  <2>3. Cardinality(S) \in Nat /\ Cardinality(S) # 0
    BY <2>1, <2>2, FS_CardinalityType, FS_EmptySet
  <2>4. 1 \in 1..Cardinality(S)
    BY <2>3
  <2>5. first \in S /\ Cardinality({q \in S : q < first}) = 0
    BY <2>1, <2>4, NthFound
  <2> HIDE DEF first
  <2>6. {q \in S : q < first} = {}
    <3>1. {q \in S : q < first} \in SUBSET S
      OBVIOUS
    <3>2. IsFiniteSet({q \in S : q < first})
      BY <2>1, <3>1, FS_Subset
    <3> QED
      BY <2>5, <3>2, FS_EmptySet
  <2>7. first \in 1..n /\ first <= sent /\ bytes[first] # 0
    BY <1>1, <1>12, <2>5
  <2>8. first = 1 \/ bytes[first - 1] # bytes[first]
    <3>1. SUFFICES ASSUME first # 1
                   PROVE  bytes[first - 1] # bytes[first]
      OBVIOUS
    <3>2. first - 1 \in 1..sent /\ first - 1 < first
      BY <1>1, <2>7, <3>1
    <3>3. first - 1 \notin S
      BY <2>6, <3>2
    <3> QED
      BY <2>7, <3>2, <3>3
  <2>9. counts[first] # 0
    BY <1>5, <2>7, <2>8
  <2> QED
    BY <1>7, <2>7, <2>9
<1> QED
  BY <1>6, <1>7, <1>8, <1>10, <1>11, <1>12

\* Truncation keeps the order of the regions and their states.
LEMMA TruncatedTyped ==
  ASSUME NEW counts \in Seq(Nat)
  PROVE  /\ Len(Truncated(counts)) = Len(counts) /\ DOMAIN Truncated(counts) = 1..Len(counts)
         /\ Truncated(counts) \in Seq(Nat)
         /\ \A k \in 1..Len(counts) :
              Truncated(counts)[k] = IF counts[k] < TruncateAt THEN counts[k] ELSE TruncateAt
<1>1. Len(counts) \in Nat /\ DOMAIN counts = 1..Len(counts)
      /\ \A k \in 1..Len(counts) : counts[k] \in Nat
  BY LenProperties, ElementOfSeq
<1>2. TruncateAt \in Nat \ {0}
  BY BoundsAssumption
<1>3. Truncated(counts) = [k \in 1..Len(counts) |->
                             IF counts[k] < TruncateAt THEN counts[k] ELSE TruncateAt]
  BY <1>1 DEF Truncated
<1>4. Truncated(counts) \in [1..Len(counts) -> Nat]
  BY <1>1, <1>2, <1>3
<1>5. Truncated(counts) \in Seq(Nat)
  BY <1>1, <1>4
<1>6. Len(Truncated(counts)) = Len(counts)
  BY <1>1, <1>4, <1>5, LenProperties
<1> QED
  BY <1>3, <1>4, <1>5, <1>6

\* The first elements of a sequence.
LEMMA FrontOf ==
  ASSUME NEW S, NEW s \in Seq(S), NEW d \in Nat, d <= Len(s)
  PROVE  /\ SubSeq(s, 1, d) \in Seq(S) /\ Len(SubSeq(s, 1, d)) = d
         /\ DOMAIN SubSeq(s, 1, d) = 1..d
         /\ \A k \in 1..d : SubSeq(s, 1, d)[k] = s[k]
<1>1. Len(s) \in Nat /\ \A k \in 1..Len(s) : s[k] \in S
  BY LenProperties, ElementOfSeq
<1>2. \A k \in 1..d : s[k] \in S
  BY <1>1
<1>3. /\ SubSeq(s, 1, d) \in Seq(S)
      /\ Len(SubSeq(s, 1, d)) = IF 1 <= d THEN d - 1 + 1 ELSE 0
      /\ \A k \in 1..d - 1 + 1 : SubSeq(s, 1, d)[k] = s[1 + k - 1]
  BY <1>2, SubSeqProperties
<1>4. Len(SubSeq(s, 1, d)) = d
  BY <1>3
<1>5. \A k \in 1..d : SubSeq(s, 1, d)[k] = s[k]
  BY <1>3
<1> QED
  BY <1>3, <1>4, <1>5, LenProperties

\* A function on 1..n is a sequence.
LEMMA FunctionIsSeq ==
  ASSUME NEW S, NEW n \in Nat, NEW f \in [1..n -> S]
  PROVE  f \in Seq(S)
OBVIOUS

\* The m-th and earlier regions with an answer, truncated.
TruncatedFrom(kept, counts, m) ==
  \A r \in 1..m :
    kept[r] = IF counts[Nth(Answered(counts), r)] < TruncateAt
              THEN counts[Nth(Answered(counts), r)] ELSE TruncateAt

\* Truncated regions that are those with an answer are in order, and the last
\* one has no more states than the whole response.
LEMMA AnsweredFit ==
  ASSUME NEW sent, NEW bytes, NEW buf, Kept(sent, bytes, buf), buf # <<>>,
         NEW n \in Nat, sent <= n,
         NEW counts, counts = Annotation(sent, bytes, buf, n),
         NEW m \in Nat, m = Cardinality(Answered(counts)),
         NEW kept \in Seq(Nat), Len(kept) = m, TruncatedFrom(kept, counts, m)
  PROVE  /\ m >= 1 /\ kept # <<>> /\ kept \in Seq(1..TruncateAt)
         /\ kept = At(Answered(counts), Truncated(counts))
         /\ \A i, j \in 1..m : i <= j => kept[i] <= kept[j]
         /\ kept[1] >= 1
         /\ kept[m] \in Nat /\ kept[m] <= Len(extract_response_codes(buf))
<1> DEFINE K == Answered(counts)
           T == Truncated(counts)
           all == extract_response_codes(buf)
           cut(c) == IF c < TruncateAt THEN c ELSE TruncateAt
<1>1. /\ counts \in Seq(Nat) /\ Len(counts) = n
      /\ IsFiniteSet(K) /\ K \in SUBSET (1..n)
      /\ \A k \in K : counts[k] >= 1 /\ counts[k] <= Len(all)
      /\ \A i, j \in K : i <= j => counts[i] <= counts[j]
      /\ K # {}
  <2>1. counts \in Seq(Nat) /\ Len(counts) = n
    BY AnnotationGrows
  <2>4. IsFiniteSet(K) /\ K \in SUBSET (1..n)
    BY AnnotationGrows
  <2>5. K # {}
    BY AnnotationGrows
  <2>2. \A k \in K : counts[k] >= 1 /\ counts[k] <= Len(all)
    BY AnnotationGrows
  <2>3. \A i, j \in K : i <= j => counts[i] <= counts[j]
    BY AnnotationGrows
  <2> QED
    BY <2>1, <2>2, <2>3, <2>4, <2>5
<1>2. TruncateAt \in Nat \ {0}
  BY BoundsAssumption
<1>3. buf \in Seq(Unit)
  BY DEF Kept
<1>4. K \in SUBSET Nat /\ m >= 1
  <2>1. m # 0
    BY <1>1, FS_EmptySet
  <2> QED
    BY <1>1, <2>1
<1>5. /\ \A r \in 1..m : Nth(K, r) \in K
      /\ \A i, j \in 1..m : i <= j => Nth(K, i) <= Nth(K, j)
  BY <1>1, <1>4, NthFound, NthGrows
<1>6. \A k \in K : k \in 1..n /\ counts[k] \in Nat
  BY <1>1, ElementOfSeq
<1>8. DOMAIN kept = 1..m /\ \A r \in 1..m : kept[r] = cut(counts[Nth(K, r)])
  BY LenProperties DEF TruncatedFrom
<1>9. \A r \in 1..m : /\ kept[r] \in 1..TruncateAt
                      /\ kept[r] <= counts[Nth(K, r)] /\ counts[Nth(K, r)] \in Nat
  <2>1. ASSUME NEW r \in 1..m
        PROVE  counts[Nth(K, r)] \in Nat /\ counts[Nth(K, r)] >= 1
    BY <1>1, <1>5, <1>6
  <2> QED
    BY <1>2, <1>8, <2>1
<1>10. \A i, j \in 1..m : i <= j => kept[i] <= kept[j]
  <2>1. ASSUME NEW i \in 1..m, NEW j \in 1..m, i <= j
        PROVE  kept[i] <= kept[j]
    <3>1. counts[Nth(K, i)] <= counts[Nth(K, j)]
      BY <1>1, <1>5, <2>1
    <3>2. counts[Nth(K, i)] \in Nat /\ counts[Nth(K, j)] \in Nat
      BY <1>9
    <3>3. kept[i] = cut(counts[Nth(K, i)]) /\ kept[j] = cut(counts[Nth(K, j)])
      BY <1>8
    <3> QED
      BY <1>2, <3>1, <3>2, <3>3
  <2> QED
    BY <2>1
<1>11. kept # <<>> /\ kept \in Seq(1..TruncateAt)
  <2>1. kept \in [1..m -> 1..TruncateAt]
    BY <1>8, <1>9
  <2>2. kept # <<>>
    BY <1>4, <1>8
  <2>3. kept \in Seq(1..TruncateAt)
    BY <2>1, FunctionIsSeq
  <2> QED
    BY <2>2, <2>3
<1>12. kept = At(K, T)
  <2>1. \A k \in K : T[k] = cut(counts[k]) /\ T[k] \in Nat
    <3>1. \A k \in 1..n : T[k] = cut(counts[k])
      BY <1>1, TruncatedTyped
    <3> QED
      BY <1>2, <1>6, <3>1
  <2>2. At(K, T) \in Seq(Nat) /\ Len(At(K, T)) = m /\ \A r \in 1..m : At(K, T)[r] = T[Nth(K, r)]
    <3>1. \A k \in K : T[k] \in Nat
      BY <2>1
    <3> HIDE DEF K, T
    <3>2. Cardinality(K) = m
      BY DEF K
    <3>3. IsFiniteSet(K) /\ K \subseteq Nat
      BY <1>1, <1>4
    <3>4. At(K, T) \in Seq(Nat) /\ Len(At(K, T)) = Cardinality(K)
          /\ \A r \in 1..Cardinality(K) : At(K, T)[r] = T[Nth(K, r)]
      BY <3>1, <3>3, AtTyped
    <3> QED
      BY <3>2, <3>4
  <2>3. \A r \in 1..m : kept[r] = At(K, T)[r]
    BY <1>5, <1>8, <2>1, <2>2
  <2> QED
    BY <1>8, <2>2, <2>3, SeqEqual
<1>13. Len(all) \in Nat
  BY <1>3, CodesExtracted, LenProperties
<1>14. kept[m] \in Nat /\ kept[m] <= Len(all)
  <2>1. m \in 1..m
    BY <1>4
  <2>2. counts[Nth(K, m)] <= Len(all) /\ counts[Nth(K, m)] \in Nat
    BY <1>1, <1>5, <1>9, <2>1
  <2>3. kept[m] \in 1..TruncateAt /\ kept[m] <= counts[Nth(K, m)]
    BY <1>9, <2>1
  <2>4. kept[m] \in Nat
    BY <1>2, <2>3
  <2> HIDE DEF all
  <2> QED
    BY <1>13, <2>2, <2>3, <2>4
<1>15. kept[1] >= 1
  BY <1>2, <1>4, <1>9
<1> QED
  BY <1>4, <1>10, <1>11, <1>12, <1>14, <1>15

\* The regions that are kept, those with an answer at the front, truncated.
LEMMA FrontTruncated ==
  ASSUME NEW moved \in Seq(Nat), NEW m \in Nat, m <= Len(moved)
  PROVE  LET kept == Truncated(SubSeq(moved, 1, m))
         IN  /\ kept \in Seq(Nat) /\ Len(kept) = m
             /\ \A r \in 1..m : kept[r] = IF moved[r] < TruncateAt THEN moved[r] ELSE TruncateAt
<1> DEFINE front == SubSeq(moved, 1, m)
<1>1. front \in Seq(Nat) /\ Len(front) = m /\ \A r \in 1..m : front[r] = moved[r]
  BY FrontOf
<1> HIDE DEF front
<1>2. /\ Truncated(front) \in Seq(Nat) /\ Len(Truncated(front)) = m
      /\ \A r \in 1..m : Truncated(front)[r] = IF front[r] < TruncateAt THEN front[r] ELSE TruncateAt
  BY <1>1, TruncatedTyped
<1>3. \A r \in 1..m : Truncated(front)[r] = IF moved[r] < TruncateAt THEN moved[r] ELSE TruncateAt
  BY <1>1, <1>2
<1> QED
  BY <1>2, <1>3 DEF front

\* The codes of the last region begin with the initial state.
LEMMA CodesCut ==
  ASSUME NEW buf \in Seq(Unit), NEW d \in Nat, d >= 1, d <= Len(extract_response_codes(buf))
  PROVE  LET codes == SubSeq(extract_response_codes(buf), 1, d)
         IN  /\ codes \in Seq(Codes \cup {0}) /\ codes \in Seq(Nat)
             /\ Len(codes) = d /\ codes[1] = 0
<1> DEFINE all == extract_response_codes(buf)
           codes == SubSeq(all, 1, d)
<1>1. all \in Seq(Codes \cup {0}) /\ all[1] = 0
  BY CodesExtracted
<1> HIDE DEF all
<1>2. codes \in Seq(Codes \cup {0}) /\ Len(codes) = d /\ \A k \in 1..d : codes[k] = all[k]
  BY <1>1, FrontOf DEF all
<1> HIDE DEF codes
<1>3. codes[1] = 0
  BY <1>1, <1>2
<1>4. Codes \cup {0} \subseteq Nat
  BY CodesAssumption
<1>5. codes \in Seq(Nat)
  BY <1>2, <1>4, SeqMonotonic
<1> QED
  BY <1>2, <1>3, <1>5 DEF codes, all

\* Such an entry is what Expansion expects (afl-fuzz.c:856).
LEMMA EntryFits ==
  ASSUME NEW m \in Nat, m >= 1,
         NEW kept \in Seq(Nat), Len(kept) = m, kept[1] >= 1,
         \A i, j \in 1..m : i <= j => kept[i] <= kept[j],
         NEW codes \in Seq(Nat), Len(codes) = kept[m], codes[1] = 0
  PROVE  ST!WellFormed([codes |-> codes, counts |-> kept])
<1> DEFINE e == [codes |-> codes, counts |-> kept]
<1>1. e.codes = codes /\ e.counts = kept /\ e \in [codes : Seq(Nat), counts : Seq(Nat)]
  OBVIOUS
<1>2. DOMAIN kept = 1..m /\ kept # <<>>
  BY LenProperties, EmptySeq
<1>3. kept[m] >= 1
  <2>1. 1 \in 1..m /\ m \in 1..m
    OBVIOUS
  <2>2. kept[1] \in Nat /\ kept[m] \in Nat /\ kept[1] <= kept[m]
    BY <2>1, ElementOfSeq
  <2> QED
    BY <2>2
<1>4. codes # <<>>
  BY <1>3
<1> HIDE DEF e
<1>5. ST!WellFormed(e)
  BY <1>1, <1>2, <1>4 DEF ST!WellFormed
<1> QED
  BY <1>5 DEF e

-----------------------------------------------------------------------------
(* What a step leaves alone *)

\* The number after n of the numbers 1 to m that are used in turn.
LEMMA ModNext ==
  ASSUME NEW n \in Nat, NEW m \in Nat \ {0}
  PROVE  (n % m) + 1 \in 1..m
<1>1. n % m \in 0..(m - 1)
  OBVIOUS
<1>2. \A k \in 0..(m - 1) : k + 1 \in 1..m
  OBVIOUS
<1> QED
  BY <1>1, <1>2, Zenon

\* The numbers in a state are natural numbers within their bounds.
LEMMA Numbers ==
  ASSUME TypeOK
  PROVE  /\ session \in Nat /\ count \in Nat /\ messages_sent \in Nat
         /\ arrived \in Nat /\ taken \in Nat /\ emitted \in Nat /\ lit \in Nat
         /\ arrived <= count /\ taken <= arrived /\ taken <= MaxMessages
         /\ session <= MaxSessions /\ count <= MaxMessages /\ messages_sent <= MaxMessages
         /\ Len(response_buf) \in Nat /\ DOMAIN response_buf = 1..Len(response_buf)
         /\ Len(response_bytes) \in Nat /\ DOMAIN response_bytes = 1..Len(response_bytes)
         /\ \A k \in DOMAIN response_bytes : response_bytes[k] \in Nat
         /\ \A k \in DOMAIN response_buf : response_buf[k] \in Unit
         /\ Len(wire) \in Nat /\ DOMAIN wire = 1..Len(wire)
         /\ \A k \in DOMAIN wire : wire[k] \in Unit
         /\ MaxMessages \in Nat \ {0} /\ MaxUnits \in Nat \ {0} /\ MaxSessions \in Nat \ {0}
         /\ MaxCoverage \in Nat /\ TruncateAt \in Nat \ {0}
<1>1. /\ MaxMessages \in Nat \ {0} /\ MaxUnits \in Nat \ {0} /\ MaxSessions \in Nat \ {0}
      /\ MaxCoverage \in Nat /\ TruncateAt \in Nat \ {0}
  BY BoundsAssumption
<1>2. /\ session \in 0..MaxSessions /\ count \in 0..MaxMessages /\ messages_sent \in 0..MaxMessages
      /\ arrived \in 0..count /\ taken \in 0..arrived
      /\ emitted \in 0..MaxUnits /\ lit \in 0..MaxCoverage
      /\ response_buf \in Seq(Unit) /\ response_bytes \in Seq(Nat) /\ wire \in Seq(Unit)
  BY DEF TypeOK
<1>3. /\ Len(response_buf) \in Nat /\ DOMAIN response_buf = 1..Len(response_buf)
      /\ Len(response_bytes) \in Nat /\ DOMAIN response_bytes = 1..Len(response_bytes)
      /\ Len(wire) \in Nat /\ DOMAIN wire = 1..Len(wire)
      /\ \A k \in 1..Len(response_bytes) : response_bytes[k] \in Nat
      /\ \A k \in 1..Len(response_buf) : response_buf[k] \in Unit
      /\ \A k \in 1..Len(wire) : wire[k] \in Unit
  BY <1>2, LenProperties, ElementOfSeq
<1> QED
  BY <1>1, <1>2, <1>3

\* Where no entry is annotated or left, there is nothing to say of one.
LEMMA Elsewhere ==
  ASSUME pc' \notin {"remove", "idle"}
  PROVE  Removing' /\ EntryWellFormed'
BY DEF Removing, EntryWellFormed

SameBuffers == response_buf' = response_buf /\ response_bytes' = response_bytes

LEMMA CausalityKept ==
  ASSUME Causality, SameBuffers
  PROVE  Causality'
BY DEF Causality, SameBuffers

\* The server does not touch what the fuzzer has.
LEMMA ServerKeeps ==
  ASSUME IInv, UNCHANGED fuzzer, taken' \in Nat, taken <= taken'
  PROVE  Buffered' /\ Counted' /\ Grown' /\ Causality' /\ Removing' /\ EntryWellFormed'
<1>1. /\ pc' = pc /\ session' = session /\ count' = count /\ messages_sent' = messages_sent
      /\ SameBuffers /\ regions' = regions /\ states' = states
      /\ region_index' = region_index /\ null_regions' = null_regions
  BY DEF fuzzer, entry, SameBuffers
<1>2. TypeOK /\ Buffered /\ Counted /\ Grown /\ Causality /\ Removing /\ EntryWellFormed
  BY DEF IInv
<1>3. Buffered'
  <2>1. \A k \in DOMAIN response_buf : response_buf[k].taken <= taken => response_buf[k].taken <= taken'
    <3>1. \A k \in DOMAIN response_buf : response_buf[k].taken \in Nat
      BY <1>2, Numbers DEF Unit
    <3>2. taken \in Nat
      BY <1>2, Numbers
    <3> QED
      BY <3>1, <3>2
  <2> QED
    BY <1>1, <1>2, <2>1 DEF Buffered, NoStaleResponses, SameBuffers
<1>4. Counted' /\ Grown'
  BY <1>1, <1>2 DEF Counted, Sized, Over, Grown, SameBuffers
<1>5. Causality'
  BY <1>1, <1>2, CausalityKept
<1>6. Removing'
  BY <1>1, <1>2 DEF Removing, Annotated, NoAnswer, Inspected, SameBuffers
<1>7. EntryWellFormed'
  BY <1>1, <1>2 DEF EntryWellFormed, Annotated, NoAnswer, SameBuffers
<1> QED
  BY <1>3, <1>4, <1>5, <1>6, <1>7

-----------------------------------------------------------------------------
(* The server *)

LEMMA ServerTakesKeeps ==
  ASSUME IInv, ServerTakes
  PROVE  IInv'
<1>1. /\ alive /\ taken < arrived /\ taken' = taken + 1
      /\ UNCHANGED fuzzer /\ alive' = alive /\ arrived' = arrived /\ wire' = wire
      /\ emitted' = emitted /\ lit' = lit
  BY DEF ServerTakes
<1>2. TypeOK /\ OnWire
  BY DEF IInv
<1>3. taken \in Nat /\ arrived \in Nat
  BY <1>2, Numbers
<1>4. TypeOK'
  BY <1>1, <1>2, <1>3 DEF TypeOK, fuzzer, entry
<1>5. OnWire'
  <2>1. \A k \in DOMAIN wire : wire[k].taken \in Nat /\ wire[k].taken <= taken
    <3>1. \A k \in DOMAIN wire : wire[k] \in Unit
      BY <1>2, Numbers
    <3> QED
      BY <1>2, <3>1 DEF OnWire, Unit
  <2> QED
    BY <1>1, <1>2, <1>3, <2>1 DEF OnWire, fuzzer, entry
<1>6. Buffered' /\ Counted' /\ Grown' /\ Causality' /\ Removing' /\ EntryWellFormed'
  BY <1>1, <1>3, ServerKeeps
<1> QED
  BY <1>4, <1>5, <1>6 DEF IInv

LEMMA ServerSendsKeeps ==
  ASSUME IInv, ServerSends
  PROVE  IInv'
<1>1. PICK what \in Codes \cup {Part, Bad} :
        wire' = Append(wire, [what |-> what, taken |-> taken, session |-> session])
  BY DEF ServerSends
<1>2. /\ alive /\ emitted < MaxUnits /\ emitted' = emitted + 1
      /\ UNCHANGED fuzzer /\ alive' = alive /\ arrived' = arrived /\ taken' = taken /\ lit' = lit
  BY DEF ServerSends
<1>3. TypeOK /\ OnWire
  BY DEF IInv
<1>4. /\ taken \in Nat /\ taken <= MaxMessages /\ session \in Nat /\ session <= MaxSessions
      /\ emitted \in Nat /\ MaxMessages \in Nat /\ MaxSessions \in Nat /\ MaxUnits \in Nat
  BY <1>3, Numbers
<1>5. pc \notin {"idle", "remove"} /\ session >= 1
  BY <1>2, <1>3 DEF OnWire
<1> DEFINE u == [what |-> what, taken |-> taken, session |-> session]
<1>6. u \in Unit /\ u.session = session /\ u.taken = taken
  BY <1>4, <1>5 DEF Unit
<1> HIDE DEF u
<1>7. /\ wire' \in Seq(Unit) /\ DOMAIN wire' = 1..Len(wire) + 1
      /\ \A k \in 1..Len(wire) : wire'[k] = wire[k]
      /\ wire'[Len(wire) + 1] = u
  <2>1. wire' = Append(wire, u) /\ wire \in Seq(Unit)
    BY <1>1, <1>3 DEF u, TypeOK
  <2> QED
    BY <1>6, <2>1, AppendProperties, LenProperties
<1>8. TypeOK'
  BY <1>2, <1>3, <1>4, <1>7 DEF TypeOK, fuzzer, entry
<1>9. OnWire'
  <2>1. \A k \in DOMAIN wire' : wire'[k].session = session /\ wire'[k].taken <= taken
    <3>1. \A k \in 1..Len(wire) : wire'[k].session = session /\ wire'[k].taken <= taken
      BY <1>3, <1>7, Numbers DEF OnWire
    <3>2. wire'[Len(wire) + 1].session = session /\ wire'[Len(wire) + 1].taken <= taken
      BY <1>4, <1>6, <1>7
    <3>3. \A k \in DOMAIN wire' : k \in 1..Len(wire) \/ k = Len(wire) + 1
      BY <1>3, <1>7, Numbers
    <3> QED
      BY <3>1, <3>2, <3>3
  <2>2. /\ pc' = pc /\ session' = session /\ count' = count /\ messages_sent' = messages_sent
    BY <1>2 DEF fuzzer, entry
  <2> QED
    BY <1>2, <1>3, <1>5, <2>1, <2>2 DEF OnWire
<1>10. Buffered' /\ Counted' /\ Grown' /\ Causality' /\ Removing' /\ EntryWellFormed'
  BY <1>2, <1>4, ServerKeeps
<1> QED
  BY <1>8, <1>9, <1>10 DEF IInv

LEMMA ServerElseKeeps ==
  ASSUME IInv, ServerCovers \/ ServerCrashes
  PROVE  IInv'
<1>1. /\ UNCHANGED fuzzer /\ alive' \in BOOLEAN /\ arrived' = arrived /\ taken' = taken
      /\ wire' = wire /\ emitted' = emitted /\ alive /\ lit' \in 0..MaxCoverage
  <2>1. alive \in BOOLEAN /\ lit \in 0..MaxCoverage /\ MaxCoverage \in Nat
    BY BoundsAssumption DEF IInv, TypeOK
  <2>2. CASE ServerCovers
    BY <2>1, <2>2 DEF ServerCovers
  <2>3. CASE ServerCrashes
    BY <2>1, <2>3 DEF ServerCrashes
  <2> QED
    BY <2>2, <2>3
<1>2. TypeOK /\ OnWire
  BY DEF IInv
<1>3. taken \in Nat
  BY <1>2, Numbers
<1>4. TypeOK'
  BY <1>1, <1>2 DEF TypeOK, fuzzer, entry
<1>5. OnWire'
  BY <1>1, <1>2 DEF OnWire, fuzzer, entry
<1>6. Buffered' /\ Counted' /\ Grown' /\ Causality' /\ Removing' /\ EntryWellFormed'
  BY <1>1, <1>3, ServerKeeps
<1> QED
  BY <1>4, <1>5, <1>6 DEF IInv

-----------------------------------------------------------------------------
(* Sending and receiving *)

LEMMA StartSessionKeeps ==
  ASSUME IInv, StartSession
  PROVE  IInv'
<1>1. /\ pc = "idle" /\ pc' = "connect" /\ count' \in 1..MaxMessages
      /\ session' = (session % MaxSessions) + 1
      /\ likely_buggy' = FALSE /\ seen' = 0 /\ alive' = TRUE
      /\ regions' = <<>> /\ states' = <<>>
      /\ messages_sent' = messages_sent /\ SameBuffers
      /\ region_index' = region_index /\ null_regions' = null_regions
      /\ arrived' = arrived /\ taken' = taken /\ wire' = wire /\ emitted' = emitted /\ lit' = lit
  BY DEF StartSession, SameBuffers
<1>2. TypeOK /\ OnWire /\ Grown /\ Causality
  BY DEF IInv
<1>3. arrived = 0 /\ taken = 0 /\ wire = <<>>
  BY <1>1, <1>2 DEF OnWire
<1>4. session' \in 1..MaxSessions
  <2>1. session \in Nat /\ MaxSessions \in Nat \ {0}
    BY <1>2, Numbers
  <2>2. session' = (session % MaxSessions) + 1
    BY <1>1
  <2> QED
    BY <2>1, <2>2, ModNext, Zenon
<1>5. TypeOK'
  <2>1. count' \in 0..MaxMessages /\ session' \in 0..MaxSessions
    BY <1>1, <1>2, <1>4, Numbers
  <2>2. arrived' \in 0..count' /\ taken' \in 0..arrived'
    BY <1>1, <1>3
  <2>3. <<>> \in Seq(Nat) /\ <<>> \in Seq(1..TruncateAt) /\ <<>> \in Seq(Codes \cup {0})
    BY EmptySeq
  <2>4. 0 \in 0..MaxCoverage
    BY BoundsAssumption
  <2> QED
    BY <1>1, <1>2, <2>1, <2>2, <2>3, <2>4 DEF TypeOK, SameBuffers
<1>6. OnWire'
  BY <1>1, <1>2, <1>3, <1>4 DEF OnWire
<1>7. Buffered' /\ Counted'
  BY <1>1 DEF Buffered, NoStaleResponses, Counted, Over
<1>8. Grown'
  BY <1>1, <1>2 DEF Grown, SameBuffers
<1>9. Causality'
  BY <1>1, <1>2, CausalityKept
<1> QED
  BY <1>1, <1>5, <1>6, <1>7, <1>8, <1>9, Elsewhere DEF IInv

LEMMA ConnectKeeps ==
  ASSUME IInv, Connect
  PROVE  IInv'
<1>1. /\ pc = "connect" /\ pc' \in {"early", "closed"}
      /\ response_buf' = <<>> /\ response_bytes' = <<>>
      /\ UNCHANGED <<session, count, messages_sent, likely_buggy, seen, entry, server>>
  BY DEF Connect, Forget
<1>2. TypeOK /\ OnWire
  BY DEF IInv
<1>3. <<>> \in Seq(Nat) /\ <<>> \in Seq(Unit) /\ DOMAIN <<>> = {}
  BY EmptySeq
<1>4. TypeOK'
  BY <1>1, <1>2, <1>3 DEF TypeOK, entry, server
<1>5. OnWire'
  BY <1>1, <1>2, Numbers DEF OnWire, entry, server
<1>6. Buffered' /\ Counted' /\ Grown' /\ Causality'
  BY <1>1, <1>3 DEF Buffered, NoStaleResponses, Counted, Over, Grown, Causality
<1> QED
  BY <1>1, <1>4, <1>5, <1>6, Elsewhere DEF IInv

\* What net_recv adds was sent by this server, after what it had read by then.
LEMMA ReceivedUnits ==
  ASSUME TypeOK, OnWire, Buffered, NetRecv(TRUE) \/ NetRecv(FALSE),
         pc \in {"early", "recv", "handle"}
  PROVE  /\ response_buf' \in Seq(Unit) /\ wire' \in Seq(Unit)
         /\ Len(response_buf') \in Nat /\ Len(response_buf) <= Len(response_buf')
         /\ \A k \in 1..Len(response_buf) : response_buf'[k] = response_buf[k]
         /\ \A k \in 1..Len(response_buf') :
              response_buf'[k].session = session /\ response_buf'[k].taken <= taken
         /\ \A k \in DOMAIN wire' : wire'[k].session = session /\ wire'[k].taken <= taken
         /\ UNCHANGED <<alive, arrived, taken, emitted, lit>>
<1>1. PICK k \in 0..Len(wire) :
        /\ response_buf' = response_buf \o SubSeq(wire, 1, k)
        /\ wire' \in {SubSeq(wire, k + 1, Len(wire)), <<>>}
  BY DEF NetRecv
<1>2. /\ response_buf \in Seq(Unit) /\ wire \in Seq(Unit)
      /\ Len(response_buf) \in Nat /\ Len(wire) \in Nat
      /\ DOMAIN response_buf = 1..Len(response_buf) /\ DOMAIN wire = 1..Len(wire)
      /\ \A j \in 1..Len(wire) : wire[j] \in Unit
  BY Numbers DEF TypeOK
<1>3. \A j \in 1..Len(wire) : wire[j].session = session /\ wire[j].taken <= taken
  BY <1>2 DEF OnWire
<1>4. \A j \in 1..Len(response_buf) : response_buf[j].session = session /\ response_buf[j].taken <= taken
  BY <1>2 DEF Buffered, NoStaleResponses
<1> DEFINE got == SubSeq(wire, 1, k)
           rest == SubSeq(wire, k + 1, Len(wire))
<1>5. got \in Seq(Unit) /\ Len(got) = k /\ \A j \in 1..k : got[j] = wire[j]
  <2>1. k \in Nat /\ k <= Len(wire)
    BY <1>2
  <2> QED
    BY <1>2, <2>1, FrontOf
<1>6. rest \in Seq(Unit) /\ \A j \in DOMAIN rest : rest[j].session = session /\ rest[j].taken <= taken
  <2>1. k \in Nat /\ k <= Len(wire) /\ k + 1 \in Int /\ Len(wire) \in Int
    BY <1>2
  <2>2. \A i \in k + 1..Len(wire) : wire[i] \in Unit
    BY <1>2, <2>1
  <2>3. /\ rest \in Seq(Unit)
        /\ Len(rest) = IF k + 1 <= Len(wire) THEN Len(wire) - (k + 1) + 1 ELSE 0
        /\ \A i \in 1..Len(wire) - (k + 1) + 1 : rest[i] = wire[k + 1 + i - 1]
    BY <2>1, <2>2, SubSeqProperties
  <2> HIDE DEF rest
  <2>4. DOMAIN rest = 1..Len(rest) /\ Len(rest) = Len(wire) - k
    <3>1. Len(rest) = Len(wire) - k
      <4>1. Len(rest) = IF k + 1 <= Len(wire) THEN Len(wire) - (k + 1) + 1 ELSE 0
        BY <2>3
      <4> DEFINE w == Len(wire)
                 r == Len(rest)
      <4>2. w \in Nat /\ k \in Nat /\ k <= w /\ r = IF k + 1 <= w THEN w - (k + 1) + 1 ELSE 0
        BY <1>2, <2>1, <4>1
      <4> HIDE DEF w, r
      <4>3. r = w - k
        BY <4>2
      <4> QED
        BY <4>3 DEF w, r
    <3> QED
      BY <2>3, <3>1, LenProperties
  <2>5. ASSUME NEW j \in 1..Len(wire) - k
        PROVE  rest[j] = wire[k + j] /\ k + j \in 1..Len(wire)
    <3>1. j \in 1..Len(wire) - (k + 1) + 1 /\ k + 1 + j - 1 = k + j /\ k + j \in 1..Len(wire)
      BY <1>2, <2>1
    <3> QED
      BY <2>3, <3>1
  <2> QED
    BY <1>3, <2>3, <2>4, <2>5
<1> HIDE DEF got, rest
<1>7. /\ response_buf' \in Seq(Unit) /\ Len(response_buf') = Len(response_buf) + k
      /\ \A j \in 1..Len(response_buf) + k :
           response_buf'[j] = IF j <= Len(response_buf) THEN response_buf[j]
                              ELSE got[j - Len(response_buf)]
  <2>1. response_buf' = response_buf \o got
    BY <1>1 DEF got
  <2> QED
    BY <1>2, <1>5, <2>1, ConcatProperties
<1>8. Len(response_buf') \in Nat /\ Len(response_buf) <= Len(response_buf')
  BY <1>2, <1>7
<1>9. \A j \in 1..Len(response_buf) : response_buf'[j] = response_buf[j]
  BY <1>2, <1>7
<1>10. ASSUME NEW j \in 1..Len(response_buf')
       PROVE  response_buf'[j].session = session /\ response_buf'[j].taken <= taken
  <2>1. CASE j <= Len(response_buf)
    BY <1>2, <1>4, <1>9, <2>1
  <2>2. CASE ~(j <= Len(response_buf))
    <3>1. j - Len(response_buf) \in 1..k /\ j - Len(response_buf) \in 1..Len(wire)
      BY <1>2, <1>7, <2>2
    <3>2. response_buf'[j] = wire[j - Len(response_buf)]
      BY <1>2, <1>5, <1>7, <2>2, <3>1
    <3> QED
      BY <1>3, <3>1, <3>2
  <2> QED
    BY <2>1, <2>2
<1>11. /\ wire' \in Seq(Unit)
       /\ \A j \in DOMAIN wire' : wire'[j].session = session /\ wire'[j].taken <= taken
  <2>1. wire' = rest \/ wire' = <<>>
    BY <1>1 DEF rest
  <2>2. <<>> \in Seq(Unit) /\ DOMAIN <<>> = {}
    OBVIOUS
  <2> QED
    BY <1>6, <2>1, <2>2
<1>12. UNCHANGED <<alive, arrived, taken, emitted, lit>>
  BY DEF NetRecv
<1> QED
  BY <1>7, <1>8, <1>9, <1>10, <1>11, <1>12

LEMMA EarlyKeeps ==
  ASSUME IInv, Early
  PROVE  IInv'
<1>1. /\ pc = "early"
      /\ NetRecv(TRUE) \/ NetRecv(FALSE)
      /\ \/ pc' = "send" /\ messages_sent' = 0
         \/ pc' = "handle" /\ messages_sent' = messages_sent
      /\ session' = session /\ count' = count /\ response_bytes' = response_bytes
      /\ likely_buggy' = likely_buggy /\ seen' = seen /\ entry' = entry
  BY DEF Early
<1>2. TypeOK /\ OnWire /\ Buffered
  BY DEF IInv
<1>3. /\ response_buf = <<>> /\ response_bytes = <<>> /\ arrived = 0 /\ session >= 1 /\ count >= 1
  BY <1>1, <1>2 DEF OnWire, Buffered
<1>4. /\ response_buf' \in Seq(Unit) /\ wire' \in Seq(Unit)
      /\ \A k \in 1..Len(response_buf') :
           response_buf'[k].session = session /\ response_buf'[k].taken <= taken
      /\ \A k \in DOMAIN wire' : wire'[k].session = session /\ wire'[k].taken <= taken
      /\ UNCHANGED <<alive, arrived, taken, emitted, lit>>
  BY <1>1, <1>2, ReceivedUnits
<1>5. messages_sent' \in 0..MaxMessages
  <2>1. MaxMessages \in Nat \ {0}
    BY BoundsAssumption
  <2>2. messages_sent \in 0..MaxMessages
    BY <1>2 DEF TypeOK
  <2>3. messages_sent' = 0 \/ messages_sent' = messages_sent
    BY <1>1
  <2> QED
    BY ONLY <2>1, <2>2, <2>3
<1>6. TypeOK'
  <2>1. /\ pc' \in {"send", "handle"} /\ messages_sent' \in 0..MaxMessages
        /\ session' = session /\ count' = count /\ response_bytes' = response_bytes
        /\ likely_buggy' = likely_buggy /\ seen' = seen /\ entry' = entry
        /\ UNCHANGED <<alive, arrived, taken, emitted, lit>>
    BY <1>1, <1>4, <1>5
  <2>2. response_buf' \in Seq(Unit) /\ wire' \in Seq(Unit) /\ TypeOK
    BY <1>2, <1>4
  <2>3. UNCHANGED <<session, count, response_bytes, likely_buggy, alive, regions, states,
                   region_index, null_regions, arrived, taken, emitted, lit, seen>>
    BY ONLY <2>1 DEF entry
  <2>4. pc' # "remove" /\ pc # "remove"
    BY <1>1, <2>1
  <2> QED
    BY ONLY <2>1, <2>2, <2>3, <2>4 DEF TypeOK
<1>7. OnWire'
  <2>1. arrived' = 0 /\ 0 <= messages_sent'
    BY <1>3, <1>4, <1>5
  <2> QED
    BY <1>1, <1>3, <1>4, <2>1 DEF OnWire
<1>8. Buffered'
  <2>1. DOMAIN response_buf' = 1..Len(response_buf')
    BY <1>4, LenProperties
  <2> QED
    BY <1>1, <1>4, <2>1 DEF Buffered, NoStaleResponses
<1>9. Counted' /\ Grown' /\ Causality'
  <2>1. response_bytes' = <<>> /\ DOMAIN <<>> = {} /\ Len(<<>>) = 0
    BY <1>1, <1>3
  <2>2. count' \in Nat
    BY <1>1, <1>2, Numbers
  <2> QED
    BY <1>1, <2>1, <2>2 DEF Counted, Sized, Over, Grown, Causality
<1> QED
  BY <1>1, <1>6, <1>7, <1>8, <1>9, Elsewhere DEF IInv

LEMMA AllSentKeeps ==
  ASSUME IInv, AllSent
  PROVE  IInv'
<1>1. /\ pc = "send" /\ pc' = "handle" /\ SameBuffers
      /\ UNCHANGED <<session, count, messages_sent, likely_buggy, seen, entry, server>>
  BY DEF AllSent, SameBuffers
<1>2. TypeOK /\ OnWire /\ Buffered /\ Counted /\ Grown /\ Causality
  BY DEF IInv
<1>3. TypeOK'
  BY <1>1, <1>2 DEF TypeOK, entry, server, SameBuffers
<1>4. OnWire' /\ Buffered'
  BY <1>1, <1>2 DEF OnWire, Buffered, NoStaleResponses, SameBuffers, entry, server
<1>5. Counted' /\ Grown'
  BY <1>1, <1>2 DEF Counted, Sized, Over, Grown, SameBuffers
<1>6. Causality'
  BY <1>1, <1>2, CausalityKept
<1> QED
  BY <1>1, <1>3, <1>4, <1>5, <1>6, Elsewhere DEF IInv

LEMMA DrainKeeps ==
  ASSUME IInv, Drain
  PROVE  IInv'
<1>1. /\ pc = "drain" /\ pc' \in {"drain", "closed"} /\ SameBuffers /\ seen' = lit
      /\ UNCHANGED <<session, count, messages_sent, likely_buggy, entry, server>>
  BY DEF Drain, Seen, SameBuffers
<1>2. TypeOK /\ OnWire /\ Buffered /\ Counted /\ Grown /\ Causality
  BY DEF IInv
<1>3. TypeOK'
  BY <1>1, <1>2 DEF TypeOK, entry, server, SameBuffers
<1>4. OnWire' /\ Buffered'
  BY <1>1, <1>2 DEF OnWire, Buffered, NoStaleResponses, SameBuffers, entry, server
<1>5. Counted' /\ Grown'
  BY <1>1, <1>2 DEF Counted, Sized, Over, Grown, SameBuffers
<1>6. Causality'
  BY <1>1, <1>2, CausalityKept
<1> QED
  BY <1>1, <1>3, <1>4, <1>5, <1>6, Elsewhere DEF IInv

LEMMA SendKeeps ==
  ASSUME IInv, Send
  PROVE  IInv'
<1> DEFINE n == messages_sent
<1>1. /\ pc = "send" /\ n < count /\ messages_sent' = n + 1
      /\ response_bytes' = Append(response_bytes, 0) /\ response_buf' = response_buf
      /\ arrived' \in {arrived, arrived + 1} /\ pc' \in {"recv", "handle"}
      /\ session' = session /\ count' = count /\ likely_buggy' = likely_buggy
      /\ seen' = seen /\ entry' = entry
      /\ alive' = alive /\ taken' = taken /\ wire' = wire /\ emitted' = emitted /\ lit' = lit
  BY DEF Send
<1>2. TypeOK /\ OnWire /\ Buffered /\ Counted /\ Grown /\ Causality
  BY DEF IInv
<1>3. /\ n \in Nat /\ count \in Nat /\ count <= MaxMessages /\ arrived \in Nat /\ taken \in Nat
      /\ taken <= arrived /\ MaxMessages \in Nat
      /\ Len(response_buf) \in Nat
      /\ DOMAIN response_bytes = 1..Len(response_bytes)
      /\ \A k \in DOMAIN response_bytes : response_bytes[k] \in Nat
  BY <1>2, Numbers
<1>4. n = Len(response_bytes) /\ arrived <= n
  BY <1>1, <1>2 DEF Counted, Sized, OnWire
<1>5. /\ response_bytes' \in Seq(Nat) /\ Len(response_bytes') = n + 1
      /\ DOMAIN response_bytes' = 1..n + 1
      /\ \A k \in 1..n : response_bytes'[k] = response_bytes[k]
      /\ response_bytes'[n + 1] = 0
  <2>1. response_bytes \in Seq(Nat)
    BY <1>2 DEF TypeOK
  <2> QED
    BY <1>1, <1>3, <1>4, <2>1, AppendProperties, LenProperties
<1>6. TypeOK'
  <2>1. messages_sent' \in 0..MaxMessages /\ arrived' \in 0..count' /\ taken' \in 0..arrived'
    BY <1>1, <1>3, <1>4
  <2> QED
    BY <1>1, <1>2, <1>5, <2>1 DEF TypeOK, entry
<1>7. OnWire'
  <2>1. arrived' <= messages_sent'
    BY <1>1, <1>3, <1>4
  <2> QED
    BY <1>1, <1>2, <2>1 DEF OnWire
<1>8. Buffered'
  BY <1>1, <1>2 DEF Buffered, NoStaleResponses
<1>9. Counted'
  BY <1>1, <1>3, <1>5 DEF Counted, Sized, Over
<1>10. Grown'
  <2>1. /\ \A k \in 1..n : response_bytes[k] <= Len(response_buf)
        /\ \A i, j \in 1..n : i <= j /\ j < n => response_bytes[i] <= response_bytes[j]
        /\ response_bytes # <<>> => response_bytes[n] = Len(response_buf)
    BY <1>1, <1>2, <1>3, <1>4 DEF Grown
  <2>2. \A k \in DOMAIN response_bytes' : response_bytes'[k] <= Len(response_buf')
    BY <1>1, <1>3, <1>5, <2>1
  <2>3. ASSUME NEW i \in 1..n + 1, NEW j \in 1..n + 1, i <= j, j < n + 1
        PROVE  response_bytes'[i] <= response_bytes'[j]
    <3>1. i \in 1..n /\ j \in 1..n
      BY <1>3, <2>3
    <3>2. j = n => response_bytes[j] = Len(response_buf)
      BY <1>3, <1>4, <2>1, <3>1
    <3>3. response_bytes[i] <= response_bytes[j]
      BY <1>3, <2>1, <2>3, <3>1, <3>2
    <3> QED
      BY <1>5, <3>1, <3>3
  <2> QED
    BY <1>1, <1>5, <2>2, <2>3 DEF Grown
<1>11. Causality'
  <2>1. ASSUME NEW i \in 1..n + 1, NEW k \in 1..response_bytes'[i], k <= Len(response_buf')
        PROVE  response_buf'[k].taken <= i
    <3>1. i \in 1..n
      BY <1>3, <1>5, <2>1
    <3> QED
      BY <1>1, <1>2, <1>3, <1>4, <1>5, <2>1, <3>1 DEF Causality
  <2> QED
    BY <1>5, <2>1 DEF Causality
<1> QED
  BY <1>1, <1>6, <1>7, <1>8, <1>9, <1>10, <1>11, Elsewhere DEF IInv

\* What was true of the prefixes stays true when more is received.
LEMMA LongerBuffer ==
  ASSUME IInv, NetRecv(TRUE) \/ NetRecv(FALSE), pc \in {"early", "recv", "handle"}
  PROVE  /\ \A k \in DOMAIN response_bytes : response_bytes[k] <= Len(response_buf')
         /\ \A i \in DOMAIN response_bytes : \A k \in 1..response_bytes[i] :
              k <= Len(response_buf') => response_buf'[k].taken <= i
<1>1. TypeOK /\ OnWire /\ Buffered /\ Grown /\ Causality
  BY DEF IInv
<1>2. /\ Len(response_buf') \in Nat /\ Len(response_buf) <= Len(response_buf')
      /\ \A k \in 1..Len(response_buf) : response_buf'[k] = response_buf[k]
  BY <1>1, ReceivedUnits
<1>3. /\ \A k \in DOMAIN response_bytes : response_bytes[k] \in Nat
      /\ Len(response_buf) \in Nat
  BY <1>1, Numbers
<1>4. \A k \in DOMAIN response_bytes : response_bytes[k] <= Len(response_buf)
  BY <1>1 DEF Grown
<1>5. \A k \in DOMAIN response_bytes : response_bytes[k] <= Len(response_buf')
  BY <1>2, <1>3, <1>4
<1>6. ASSUME NEW i \in DOMAIN response_bytes, NEW k \in 1..response_bytes[i]
      PROVE  response_buf'[k].taken <= i
  <2>1. k \in 1..Len(response_buf) /\ k <= Len(response_buf)
    BY <1>3, <1>4
  <2> QED
    BY <1>1, <1>2, <2>1 DEF Causality
<1> QED
  BY <1>5, <1>6

LEMMA RecvKeeps ==
  ASSUME IInv, Recv
  PROVE  IInv'
<1> DEFINE n == messages_sent
           got == Len(response_buf')
<1>1. /\ pc = "recv"
      /\ NetRecv(TRUE) \/ NetRecv(FALSE)
      /\ \/ /\ pc' = "send" /\ response_bytes' = [response_bytes EXCEPT ![n] = got]
            /\ likely_buggy' = ~Received
         \/ /\ pc' = "handle" /\ response_bytes' = response_bytes
            /\ likely_buggy' = likely_buggy
      /\ session' = session /\ count' = count /\ messages_sent' = n
      /\ seen' = seen /\ entry' = entry
  BY DEF Recv
<1>2. TypeOK /\ OnWire /\ Buffered /\ Counted /\ Grown /\ Causality
  BY DEF IInv
<1>3. /\ n \in Nat /\ taken \in Nat /\ arrived \in Nat /\ taken <= arrived
      /\ DOMAIN response_bytes = 1..Len(response_bytes)
      /\ \A k \in DOMAIN response_bytes : response_bytes[k] \in Nat
  BY <1>2, Numbers
<1>4. /\ n = Len(response_bytes) /\ n >= 1 /\ n <= count /\ arrived <= n
  BY <1>1, <1>2 DEF Counted, Sized, OnWire
<1>5. /\ response_buf' \in Seq(Unit) /\ wire' \in Seq(Unit) /\ got \in Nat
      /\ \A k \in 1..got : response_buf'[k].session = session /\ response_buf'[k].taken <= taken
      /\ \A k \in DOMAIN wire' : wire'[k].session = session /\ wire'[k].taken <= taken
      /\ UNCHANGED <<alive, arrived, taken, emitted, lit>>
  BY <1>1, <1>2, ReceivedUnits
<1>6. /\ \A k \in 1..n : response_bytes[k] <= got
      /\ \A i \in 1..n : \A k \in 1..response_bytes[i] :
              k <= got => response_buf'[k].taken <= i
  BY <1>1, <1>3, <1>4, LongerBuffer
<1>7. /\ response_bytes' \in Seq(Nat) /\ Len(response_bytes') = n
      /\ DOMAIN response_bytes' = 1..n
      /\ \A k \in 1..n : k # n => response_bytes'[k] = response_bytes[k]
      /\ response_bytes'[n] \in {response_bytes[n], got}
      /\ pc' = "send" => response_bytes'[n] = got
  <2>1. response_bytes \in Seq(Nat) /\ n \in 1..Len(response_bytes)
    BY <1>2, <1>3, <1>4 DEF TypeOK
  <2>2. CASE response_bytes' = [response_bytes EXCEPT ![n] = got]
    <3> HIDE DEF got
    <3>1. /\ [response_bytes EXCEPT ![n] = got] \in Seq(Nat)
          /\ Len([response_bytes EXCEPT ![n] = got]) = Len(response_bytes)
          /\ \A j \in 1..Len(response_bytes) :
               [response_bytes EXCEPT ![n] = got][j] = IF j = n THEN got ELSE response_bytes[j]
      BY <1>5, <2>1, ExceptSeq
    <3> QED
      BY <1>3, <1>4, <2>1, <2>2, <3>1, LenProperties
  <2>3. CASE response_bytes' = response_bytes /\ pc' = "handle"
    BY <1>3, <1>4, <2>1, <2>3
  <2> QED
    BY <1>1, <2>2, <2>3
<1>8. TypeOK'
  <2>1. likely_buggy' \in BOOLEAN
    BY <1>1, <1>2 DEF TypeOK, Received
  <2> QED
    BY <1>1, <1>2, <1>5, <1>7, <2>1 DEF TypeOK, entry
<1>9. OnWire'
  BY <1>1, <1>2, <1>4, <1>5 DEF OnWire
<1>10. Buffered'
  <2>1. DOMAIN response_buf' = 1..got
    BY <1>5, LenProperties
  <2> QED
    BY <1>1, <1>5, <2>1 DEF Buffered, NoStaleResponses
<1>11. Counted'
  BY <1>1, <1>4, <1>7 DEF Counted, Sized, Over
<1>12. Grown'
  <2>1. \A i, j \in 1..n : i <= j /\ j < n => response_bytes[i] <= response_bytes[j]
    BY <1>2, <1>3, <1>4 DEF Grown
  <2>2. \A k \in DOMAIN response_bytes' : response_bytes'[k] <= got
    BY <1>3, <1>5, <1>6, <1>7
  <2>3. ASSUME NEW i \in 1..n, NEW j \in 1..n, i <= j, j < n
        PROVE  response_bytes'[i] <= response_bytes'[j]
    <3>1. i # n /\ j # n
      BY <1>3, <2>3
    <3> QED
      BY <1>7, <2>1, <2>3, <3>1
  <2> HIDE DEF got
  <2> QED
    BY <1>1, <1>7, <2>2, <2>3 DEF Grown, got
<1>13. Causality'
  <2>1. ASSUME NEW i \in 1..n, NEW k \in 1..response_bytes'[i], k <= got
        PROVE  response_buf'[k].taken <= i
    <3>1. CASE k \in 1..response_bytes[i]
      BY <1>6, <2>1, <3>1
    <3>2. CASE k \notin 1..response_bytes[i]
      <4>1. i = n
        BY <1>7, <2>1, <3>2
      <4>2. k \in 1..got
        BY <1>3, <1>4, <1>5, <1>7, <2>1, <4>1, <3>2
      <4>3. response_buf'[k].taken <= taken
        BY <1>5, <4>2
      <4>4. response_buf'[k].taken \in Nat
        <5>1. response_buf'[k] \in Unit
          BY <1>5, <4>2, ElementOfSeq
        <5> QED
          BY <5>1 DEF Unit
      <4> QED
        BY <1>3, <1>4, <4>1, <4>3, <4>4
    <3> QED
      BY <3>1, <3>2
  <2> QED
    BY <1>7, <2>1 DEF Causality
<1> QED
  BY <1>1, <1>8, <1>9, <1>10, <1>11, <1>12, <1>13, Elsewhere DEF IInv

LEMMA HandleResponsesKeeps ==
  ASSUME IInv, HandleResponses
  PROVE  IInv'
<1> DEFINE n == messages_sent
           got == Len(response_buf')
<1>1. /\ pc = "handle" /\ pc' = "drain" /\ seen' = 0
      /\ NetRecv(TRUE) \/ NetRecv(FALSE)
      /\ response_bytes' = Total(response_bytes, n, got)
      /\ session' = session /\ count' = count /\ messages_sent' = n
      /\ likely_buggy' = likely_buggy /\ entry' = entry
  BY DEF HandleResponses
<1>2. TypeOK /\ OnWire /\ Buffered /\ Counted /\ Grown /\ Causality
  BY DEF IInv
<1>3. /\ n \in Nat /\ taken \in Nat /\ arrived \in Nat /\ taken <= arrived
      /\ DOMAIN response_bytes = 1..Len(response_bytes) /\ Len(response_bytes) \in Nat
      /\ \A k \in DOMAIN response_bytes : response_bytes[k] \in Nat
  BY <1>2, Numbers
<1>4. arrived <= n
  BY <1>1, <1>2 DEF OnWire
<1>5. /\ response_buf' \in Seq(Unit) /\ wire' \in Seq(Unit) /\ got \in Nat
      /\ \A k \in 1..got : response_buf'[k].session = session /\ response_buf'[k].taken <= taken
      /\ \A k \in DOMAIN wire' : wire'[k].session = session /\ wire'[k].taken <= taken
      /\ UNCHANGED <<alive, arrived, taken, emitted, lit>>
  BY <1>1, <1>2, ReceivedUnits
<1>6. response_bytes \in Seq(Nat)
  BY <1>2 DEF TypeOK
<1>7. CASE response_bytes = <<>>
  <2>1. response_bytes' = <<>> /\ DOMAIN <<>> = {} /\ <<>> \in Seq(Nat)
    BY <1>1, <1>7 DEF Total
  <2>2. TypeOK'
    BY <1>1, <1>2, <1>5, <2>1, BoundsAssumption DEF TypeOK, entry
  <2>3. OnWire'
    BY <1>1, <1>2, <1>4, <1>5 DEF OnWire
  <2>4. Buffered'
    <3>1. \A k \in DOMAIN response_buf' :
            response_buf'[k].session = session' /\ response_buf'[k].taken <= taken'
      BY <1>1, <1>5, LenProperties
    <3> QED
      BY <1>1, <3>1 DEF Buffered, NoStaleResponses
  <2>5. Counted' /\ Grown' /\ Causality'
    BY <1>1, <2>1 DEF Counted, Sized, Over, Grown, Causality
  <2> QED
    BY <1>1, <2>2, <2>3, <2>4, <2>5, Elsewhere DEF IInv
<1>8. CASE response_bytes # <<>>
  <2>1. n = Len(response_bytes) /\ n <= count /\ n >= 1 /\ n \in 1..Len(response_bytes)
    <3>1. Len(response_bytes) # 0
      BY <1>6, <1>8, EmptySeq
    <3>2. n = Len(response_bytes) /\ n <= count
      BY <1>1, <1>2, <1>8 DEF Counted, Sized
    <3> QED
      BY <1>3, <3>1, <3>2
  <2>2. /\ response_bytes' \in Seq(Nat) /\ Len(response_bytes') = n
        /\ DOMAIN response_bytes' = 1..n
        /\ \A k \in 1..n : k # n => response_bytes'[k] = response_bytes[k]
        /\ response_bytes'[n] = got
    <3>1. response_bytes' = [response_bytes EXCEPT ![n] = got]
      BY <1>1, <1>3, <1>8, <2>1 DEF Total
    <3> HIDE DEF got
    <3>2. /\ [response_bytes EXCEPT ![n] = got] \in Seq(Nat)
          /\ Len([response_bytes EXCEPT ![n] = got]) = Len(response_bytes)
          /\ \A j \in 1..Len(response_bytes) :
               [response_bytes EXCEPT ![n] = got][j] = IF j = n THEN got ELSE response_bytes[j]
      BY <1>5, <1>6, <2>1, ExceptSeq
    <3> QED
      BY <1>3, <2>1, <3>1, <3>2, LenProperties
  <2>3. /\ \A k \in 1..n : response_bytes[k] <= got
        /\ \A i \in 1..n : \A k \in 1..response_bytes[i] :
              k <= got => response_buf'[k].taken <= i
    BY <1>1, <1>3, <2>1, LongerBuffer
  <2>4. TypeOK'
    BY <1>1, <1>2, <1>5, <2>2, BoundsAssumption DEF TypeOK, entry
  <2>5. OnWire'
    BY <1>1, <1>2, <1>4, <1>5 DEF OnWire
  <2>6. Buffered'
    <3>1. DOMAIN response_buf' = 1..got
      BY <1>5, LenProperties
    <3> QED
      BY <1>1, <1>5, <3>1 DEF Buffered, NoStaleResponses
  <2>7. Counted'
    BY <1>1, <2>1, <2>2 DEF Counted, Sized, Over
  <2>8. Grown'
    <3>1. \A i, j \in 1..n : i <= j /\ j < n => response_bytes[i] <= response_bytes[j]
      BY <1>2, <1>3, <2>1 DEF Grown
    <3>2. \A k \in DOMAIN response_bytes' : response_bytes'[k] <= got
      BY <1>3, <1>5, <2>2, <2>3
    <3>3. ASSUME NEW i \in 1..n, NEW j \in 1..n, i <= j, j < n
          PROVE  response_bytes'[i] <= response_bytes'[j]
      <4>1. i # n /\ j # n
        BY <1>3, <3>3
      <4> QED
        BY <2>2, <3>1, <3>3, <4>1
    <3> HIDE DEF got
    <3> QED
      BY <1>1, <2>2, <3>2, <3>3 DEF Grown, got
  <2>9. Causality'
    <3>1. ASSUME NEW i \in 1..n, NEW k \in 1..response_bytes'[i], k <= got
          PROVE  response_buf'[k].taken <= i
      <4>1. CASE k \in 1..response_bytes[i]
        BY <2>3, <3>1, <4>1
      <4>2. CASE k \notin 1..response_bytes[i]
        <5>1. i = n
          BY <2>2, <3>1, <4>2
        <5>2. k \in 1..got
          BY <2>2, <3>1, <5>1
        <5>3. response_buf'[k].taken <= taken
          BY <1>5, <5>2
        <5>4. response_buf'[k].taken \in Nat
          <6>1. response_buf'[k] \in Unit
            BY <1>5, <5>2, ElementOfSeq
          <6> QED
            BY <6>1 DEF Unit
        <5>5. taken <= n
          BY <1>3, <1>4
        <5> QED
          BY <1>3, <5>1, <5>3, <5>4, <5>5
      <4> QED
        BY <4>1, <4>2
    <3> QED
      BY <2>2, <3>1 DEF Causality
  <2> QED
    BY <1>1, <2>4, <2>5, <2>6, <2>7, <2>8, <2>9, Elsewhere DEF IInv
<1> QED
  BY <1>7, <1>8

-----------------------------------------------------------------------------
(* The entry *)

\* When there are answers, what is annotated is what the session left.
LEMMA KeptAtEnd ==
  ASSUME TypeOK, Counted, Grown, pc \in {"closed", "remove"}, ~NoAnswer
  PROVE  /\ Kept(messages_sent, response_bytes, response_buf)
         /\ response_buf # <<>> /\ messages_sent <= count
<1> DEFINE n == messages_sent
<1>1. /\ response_buf \in Seq(Unit) /\ response_bytes \in Seq(Nat)
      /\ response_buf # <<>> /\ response_bytes # <<>>
  BY DEF TypeOK, NoAnswer
<1>2. n = Len(response_bytes) /\ n <= count
  BY <1>1 DEF Counted, Sized, Over
<1>3. n \in Nat \ {0}
  BY <1>1, <1>2, EmptySeq
<1>4. /\ DOMAIN response_bytes = 1..n
      /\ Len(response_buf) \in Nat /\ \A k \in 1..n : response_bytes[k] \in Nat
  BY <1>2, Numbers
<1>5. /\ \A k \in 1..n : response_bytes[k] <= Len(response_buf)
      /\ \A i, j \in 1..n : i <= j /\ j < n => response_bytes[i] <= response_bytes[j]
      /\ response_bytes[n] = Len(response_buf)
  BY <1>1, <1>2, <1>4 DEF Grown
<1>6. ASSUME NEW i \in 1..n, NEW j \in 1..n, i <= j
      PROVE  response_bytes[i] <= response_bytes[j]
  <2>1. CASE j < n
    BY <1>5, <1>6, <2>1
  <2>2. CASE ~(j < n)
    <3>1. j = n
      BY <1>3, <2>2
    <3> QED
      BY <1>5, <3>1
  <2> QED
    BY <2>1, <2>2
<1> QED
  BY <1>1, <1>2, <1>3, <1>5, <1>6 DEF Kept

LEMMA AnnotateKeeps ==
  ASSUME IInv, Annotate
  PROVE  IInv'
<1>1. /\ pc = "closed" /\ pc' \in {"idle", "remove"}
      /\ alive' = FALSE /\ arrived' = 0 /\ taken' = 0 /\ wire' = <<>> /\ emitted' = 0 /\ lit' = 0
      /\ session' = session /\ count' = count /\ messages_sent' = messages_sent /\ SameBuffers
      /\ likely_buggy' = likely_buggy /\ seen' = seen /\ states' = states
  BY DEF Annotate, SameBuffers
<1>2. TypeOK /\ OnWire /\ Buffered /\ Counted /\ Grown /\ Causality
  BY DEF IInv
<1>3. /\ MaxMessages \in Nat /\ count \in Nat /\ count <= MaxMessages
      /\ messages_sent \in Nat /\ messages_sent <= MaxMessages /\ MaxUnits \in Nat
  BY <1>2, Numbers
<1>4. OnWire'
  <2>1. session >= 1 /\ count >= 1 /\ 0 <= messages_sent /\ DOMAIN <<>> = {}
    BY <1>1, <1>2, <1>3 DEF OnWire
  <2> QED
    BY <1>1, <2>1 DEF OnWire
<1>5. Buffered' /\ Counted' /\ Grown'
  BY <1>1, <1>2 DEF Buffered, NoStaleResponses, Counted, Sized, Over, Grown, SameBuffers
<1>6. Causality'
  BY <1>1, <1>2, CausalityKept
<1>7. CASE NoAnswer
  <2>1. pc' = "idle" /\ regions' = <<>> /\ region_index' = region_index /\ null_regions' = null_regions
    BY <1>7 DEF Annotate
  <2>2. TypeOK'
    <3>1. <<>> \in Seq(Nat) /\ <<>> \in Seq(1..TruncateAt) /\ <<>> \in Seq(Unit)
      BY EmptySeq
    <3>2. 0 \in 0..MaxCoverage /\ 0 \in 0..MaxUnits /\ 0 \in 0..0 /\ 0 \in 0..count
      BY <1>3, BoundsAssumption
    <3> QED
      BY <1>1, <1>2, <2>1, <3>1, <3>2 DEF TypeOK, SameBuffers
  <2>3. Removing' /\ EntryWellFormed'
    <3>1. NoAnswer'
      BY <1>1, <1>7 DEF NoAnswer, SameBuffers
    <3> QED
      BY <2>1, <3>1 DEF Removing, EntryWellFormed
  <2> QED
    BY <1>4, <1>5, <1>6, <2>2, <2>3 DEF IInv
<1>8. CASE ~NoAnswer
  <2>1. /\ pc' = "remove" /\ region_index' = 1 /\ null_regions' = 0
        /\ \E n \in {count, messages_sent} : regions' = Annotated(n)
    BY <1>8 DEF Annotate
  <2>2. PICK n \in {count, messages_sent} :
           regions' = Annotation(messages_sent, response_bytes, response_buf, n)
    BY <2>1 DEF Annotated
  <2>3. n \in Nat /\ n <= MaxMessages
    BY <1>3
  <2>4. Kept(messages_sent, response_bytes, response_buf)
    BY <1>1, <1>2, <1>8, KeptAtEnd
  <2>5. /\ regions' \in Seq(Nat) /\ Len(regions') = n
        /\ Answered(regions') \in SUBSET (1..n)
    BY <2>2, <2>3, <2>4, AnnotationGrows
  <2>6. TypeOK'
    <3>1. 0 \in 0..MaxCoverage /\ 0 \in 0..MaxUnits /\ 0 \in 0..0 /\ 0 \in 0..count
          /\ 1 \in 0..MaxMessages + 1 /\ 0 \in 0..MaxMessages /\ <<>> \in Seq(Unit)
      BY <1>3, BoundsAssumption, EmptySeq
    <3> QED
      BY <1>1, <1>2, <2>1, <2>5, <3>1 DEF TypeOK, SameBuffers
  <2>7. Annotation(messages_sent', response_bytes', response_buf', n) = regions'
    BY <1>1, <2>2 DEF SameBuffers
  <2>8. Removing'
    <3>1. ~NoAnswer'
      BY <1>1, <1>8 DEF NoAnswer, SameBuffers
    <3>2. /\ Len(regions') \in {count', messages_sent'}
          /\ region_index' \in 1..Len(regions') + 1 /\ Inspected' \in 1..Len(regions') + 1
      BY <1>1, <2>1, <2>3, <2>5 DEF Inspected
    <3>3. Inspected' = 1
      BY <2>1 DEF Inspected
    <3>4. Cardinality({j \in Answered(regions') : j < 1}) = 0
      <4>1. {j \in Answered(regions') : j < 1} = {}
        BY <2>3, <2>5
      <4> QED
        BY <4>1, FS_EmptySet
    <3>5. Annotation(messages_sent', response_bytes', response_buf', Len(regions')) = regions'
      BY <2>5, <2>7 DEF Annotated
    <3>6. region_index' - 1 = Cardinality({j \in Answered(regions') : j < Inspected'})
      BY <2>1, <3>3, <3>4
    <3> QED
      BY <2>1, <3>1, <3>2, <3>5, <3>6 DEF Removing, Annotated
  <2>9. EntryWellFormed'
    BY <2>1 DEF EntryWellFormed
  <2> QED
    BY <1>4, <1>5, <1>6, <2>6, <2>8, <2>9 DEF IInv
<1> QED
  BY <1>7, <1>8

LEMMA RemoveNullKeeps ==
  ASSUME IInv, remove_null_regions
  PROVE  IInv'
<1> DEFINE n == Len(regions)
           counts == Annotated(n)
           K == Answered(counts)
           I == Inspected
           below(p) == {j \in K : j < p}
<1>1. /\ pc = "remove" /\ pc' = "remove" /\ I <= n
      /\ session' = session /\ count' = count /\ messages_sent' = messages_sent /\ SameBuffers
      /\ likely_buggy' = likely_buggy /\ seen' = seen /\ states' = states /\ server' = server
  BY DEF remove_null_regions, SameBuffers
<1>2. TypeOK /\ OnWire /\ Buffered /\ Counted /\ Grown /\ Causality /\ Removing
  BY DEF IInv
<1>3. /\ ~NoAnswer /\ n \in {count, messages_sent}
      /\ region_index \in 1..n + 1 /\ I \in 1..n + 1
      /\ region_index - 1 = Cardinality(below(I))
      /\ \A j \in I..n : regions[j] = counts[j]
      /\ \A r \in 1..region_index - 1 : regions[r] = counts[Nth(K, r)]
  BY <1>1, <1>2 DEF Removing
<1>4. /\ n \in Nat /\ n <= MaxMessages /\ MaxMessages \in Nat
      /\ region_index \in Nat /\ null_regions \in Nat /\ region_index >= 1
      /\ I = region_index + null_regions /\ I \in 1..n /\ region_index <= I
  <2>1. n \in Nat /\ n <= MaxMessages /\ MaxMessages \in Nat
    BY <1>2, <1>3, Numbers
  <2>2. null_regions \in Nat
    BY <1>2, <2>1 DEF TypeOK
  <2> QED
    BY <1>1, <1>3, <2>1, <2>2 DEF Inspected
<1>5. /\ counts \in Seq(Nat) /\ DOMAIN counts = 1..n
      /\ IsFiniteSet(K) /\ K \in SUBSET (1..n) /\ K \in SUBSET Nat
  <2>1. Kept(messages_sent, response_bytes, response_buf)
    BY <1>1, <1>2, <1>3, KeptAtEnd
  <2>2. counts = Annotation(messages_sent, response_bytes, response_buf, n)
    BY DEF Annotated
  <2> HIDE DEF counts, n
  <2>3. /\ counts \in Seq(Nat) /\ DOMAIN counts = 1..n
        /\ IsFiniteSet(K) /\ K \in SUBSET (1..n)
    BY <1>4, <2>1, <2>2, AnnotationGrows
  <2> QED
    BY <2>3
<1>6. regions \in Seq(Nat) /\ DOMAIN regions = 1..n
  BY <1>2, LenProperties DEF TypeOK
<1>7. I \in K <=> regions[I] # 0
  BY <1>3, <1>4, <1>5 DEF Answered
<1>8. OnWire' /\ Buffered' /\ Counted' /\ Grown'
  BY <1>1, <1>2 DEF OnWire, Buffered, NoStaleResponses, Counted, Sized, Over, Grown, SameBuffers, server
<1>9. Causality'
  BY <1>1, <1>2, CausalityKept
<1>10. EntryWellFormed'
  BY <1>1 DEF EntryWellFormed
<1>11. ~NoAnswer'
  BY <1>1, <1>3 DEF NoAnswer, SameBuffers
<1>13. CASE regions[I] = 0
  <2>1. null_regions' = null_regions + 1 /\ regions' = regions /\ region_index' = region_index
    BY <1>13 DEF remove_null_regions
  <2>2. TypeOK'
    <3>1. null_regions' \in 0..MaxMessages
      BY <1>4, <2>1
    <3> QED
      BY <1>1, <1>2, <2>1, <3>1 DEF TypeOK, SameBuffers, server
  <2>3. Inspected' = I + 1
    BY <1>4, <2>1 DEF Inspected
  <2>4. Annotation(messages_sent', response_bytes', response_buf', Len(regions')) = counts
    BY <1>1, <2>1 DEF Annotated, SameBuffers
  <2>5. below(I + 1) = below(I)
    <3>1. \A j \in K : j < I + 1 <=> j < I
      BY <1>4, <1>5, <1>7, <1>13
    <3> QED
      BY <3>1
  <2>6. /\ Len(regions') \in {count', messages_sent'}
        /\ region_index' \in 1..Len(regions') + 1 /\ Inspected' \in 1..Len(regions') + 1
        /\ \A j \in Inspected'..Len(regions') : regions'[j] = counts[j]
        /\ \A r \in 1..region_index' - 1 : regions'[r] = counts[Nth(K, r)]
    <3>1. \A j \in I + 1..n : j \in I..n
      BY <1>4
    <3> QED
      BY <1>1, <1>3, <1>4, <2>1, <2>3, <3>1
  <2>7. region_index' - 1 = Cardinality(below(Inspected'))
    BY <1>3, <2>1, <2>3, <2>5
  <2>8. Removing'
    <3> HIDE DEF counts
    <3> QED
      BY <1>11, <2>4, <2>6, <2>7 DEF Removing, Annotated
  <2> QED
    BY <1>8, <1>9, <1>10, <2>2, <2>8 DEF IInv
<1>14. CASE regions[I] # 0
  <2>1. /\ regions' = [regions EXCEPT ![region_index] = regions[I]]
        /\ region_index' = region_index + 1 /\ null_regions' = null_regions
    BY <1>14 DEF remove_null_regions
  <2>2. regions[I] \in Nat /\ region_index \in 1..n
    BY <1>4, <1>6, ElementOfSeq
  <2>3. /\ regions' \in Seq(Nat) /\ Len(regions') = n
        /\ \A j \in 1..n : regions'[j] = IF j = region_index THEN regions[I] ELSE regions[j]
    <3> DEFINE new == regions[I]
    <3>1. new \in Nat /\ regions' = [regions EXCEPT ![region_index] = new]
      BY <2>1, <2>2
    <3> HIDE DEF new
    <3>2. /\ regions' \in Seq(Nat) /\ Len(regions') = n
          /\ \A j \in 1..n : regions'[j] = IF j = region_index THEN new ELSE regions[j]
      BY <1>6, <2>2, <3>1, ExceptSeq
    <3> QED
      BY <3>2 DEF new
  <2>4. TypeOK'
    <3>1. region_index' \in 0..MaxMessages + 1
      BY <1>4, <2>1
    <3> QED
      BY <1>1, <1>2, <2>1, <2>3, <3>1 DEF TypeOK, SameBuffers, server
  <2>5. Inspected' = I + 1
    BY <1>4, <2>1 DEF Inspected
  <2>6. Annotation(messages_sent', response_bytes', response_buf', Len(regions')) = counts
    BY <1>1, <2>3 DEF Annotated, SameBuffers
  <2>7. I \in K /\ region_index - 1 = Cardinality({q \in K : q < I})
    BY <1>3, <1>7, <1>14
  <2>8. Cardinality(below(I + 1)) = region_index /\ IsFiniteSet(below(I))
    <3>1. below(I + 1) = below(I) \cup {I}
      <4>1. \A j \in K : j < I + 1 <=> j < I \/ j = I
        BY <1>4, <1>5
      <4>2. I < I + 1
        BY <1>4
      <4> QED
        BY <2>7, <4>1, <4>2
    <3>2. I \notin below(I) /\ below(I) \in SUBSET K
      BY <1>4
    <3>3. IsFiniteSet(below(I))
      BY <1>5, <3>2, FS_Subset
    <3>4. Cardinality(below(I) \cup {I}) = Cardinality(below(I)) + 1
      BY <3>2, <3>3, FS_AddElement
    <3>5. Cardinality(below(I)) = region_index - 1 /\ region_index \in Nat
      BY <1>3, <1>4
    <3>6. Cardinality(below(I + 1)) = Cardinality(below(I)) + 1
      BY <3>1, <3>4
    <3> HIDE DEF below, I
    <3> QED
      BY <3>3, <3>5, <3>6
  <2>9. region_index <= Cardinality(K) /\ Cardinality(K) \in Nat
    <3>1. below(I + 1) \in SUBSET K
      OBVIOUS
    <3> QED
      BY <1>5, <2>8, <3>1, FS_Subset, FS_CardinalityType
  <2>10. I = Nth(K, region_index)
    <3>1. region_index \in 1..Cardinality(K)
      BY <1>4, <2>9
    <3> HIDE DEF K, I
    <3> QED
      BY <1>5, <2>7, <3>1, NthFound
  <2>11. \A j \in I + 1..n : regions'[j] = counts[j]
    <3>1. ASSUME NEW j \in I + 1..n
          PROVE  j \in 1..n /\ j # region_index /\ j \in I..n
      BY <1>4
    <3> QED
      BY <1>3, <2>3, <3>1
  <2>12. \A r \in 1..region_index : regions'[r] = counts[Nth(K, r)]
    <3>1. ASSUME NEW r \in 1..region_index, r # region_index
          PROVE  regions'[r] = counts[Nth(K, r)]
      <4>1. r \in 1..region_index - 1 /\ r \in 1..n
        BY <1>4, <2>2, <3>1
      <4> QED
        BY <1>3, <2>3, <3>1, <4>1
    <3>2. regions'[region_index] = counts[Nth(K, region_index)]
      <4>1. regions'[region_index] = regions[I]
        BY <2>2, <2>3
      <4>2. regions[I] = counts[I]
        BY <1>3, <1>4
      <4> QED
        BY <2>10, <4>1, <4>2
    <3> QED
      BY <3>1, <3>2
  <2>13. /\ Len(regions') \in {count', messages_sent'}
         /\ region_index' \in 1..Len(regions') + 1 /\ Inspected' \in 1..Len(regions') + 1
    BY <1>1, <1>3, <1>4, <2>1, <2>2, <2>3, <2>5
  <2>14. region_index' - 1 = region_index
    BY <1>4, <2>1
  <2>15. Removing'
    <3>1. region_index' - 1 = Cardinality({j \in K : j < Inspected'})
      BY <2>5, <2>8, <2>14
    <3>2. \A j \in Inspected'..Len(regions') : regions'[j] = counts[j]
      BY <2>3, <2>5, <2>11
    <3>3. \A r \in 1..region_index' - 1 : regions'[r] = counts[Nth(K, r)]
      BY <2>12, <2>14
    <3> DEFINE after == Annotation(messages_sent', response_bytes', response_buf', Len(regions'))
    <3>4. /\ region_index' - 1 = Cardinality({j \in Answered(after) : j < Inspected'})
          /\ \A j \in Inspected'..Len(regions') : regions'[j] = after[j]
          /\ \A r \in 1..region_index' - 1 : regions'[r] = after[Nth(Answered(after), r)]
      <4>1. after = counts
        BY <2>6
      <4> HIDE DEF after, counts
      <4> QED
        BY <3>1, <3>2, <3>3, <4>1
    <3>5. Annotated(Len(regions))' = after
      BY DEF Annotated
    <3> HIDE DEF after
    <3> QED
      BY <1>11, <2>13, <3>4, <3>5 DEF Removing
  <2> QED
    BY <1>8, <1>9, <1>10, <2>4, <2>15 DEF IInv
<1> QED
  BY <1>13, <1>14

LEMMA PreprocessKeeps ==
  ASSUME IInv, Preprocess
  PROVE  IInv'
<1> DEFINE n == Len(regions)
           counts == Annotated(n)
           m == region_index - 1
           all == extract_response_codes(response_buf)
<1>1. /\ pc = "remove" /\ pc' = "idle" /\ Inspected > n
      /\ regions' = Truncated(SubSeq(regions, 1, m))
      /\ states' = IF regions' = <<>> THEN <<>> ELSE SubSeq(all, 1, regions'[Len(regions')])
      /\ region_index' = 0 /\ null_regions' = 0
      /\ session' = session /\ count' = count /\ messages_sent' = messages_sent /\ SameBuffers
      /\ likely_buggy' = likely_buggy /\ seen' = seen /\ server' = server
  BY DEF Preprocess, SameBuffers
<1>2. TypeOK /\ OnWire /\ Buffered /\ Counted /\ Grown /\ Causality /\ Removing
  BY DEF IInv
<1>3. /\ ~NoAnswer /\ n \in {count, messages_sent}
      /\ region_index \in 1..n + 1 /\ Inspected \in 1..n + 1
      /\ m = Cardinality({j \in Answered(counts) : j < Inspected})
      /\ \A r \in 1..m : regions[r] = counts[Nth(Answered(counts), r)]
  BY <1>1, <1>2 DEF Removing
<1>4. n \in Nat /\ n <= MaxMessages /\ MaxMessages \in Nat /\ messages_sent \in Nat /\ count \in Nat
  BY <1>2, <1>3, Numbers
<1>5. m \in Nat /\ m <= n /\ Inspected = n + 1
  BY <1>1, <1>3, <1>4
<1>6. /\ Kept(messages_sent, response_bytes, response_buf)
      /\ response_buf # <<>> /\ messages_sent <= count
  BY <1>1, <1>2, <1>3, KeptAtEnd
<1>7. counts = Annotation(messages_sent, response_bytes, response_buf, n)
  BY DEF Annotated
<1>8. regions \in Seq(Nat) /\ response_buf \in Seq(Unit) /\ messages_sent <= n
  BY <1>2, <1>3, <1>4, <1>6 DEF TypeOK
<1> HIDE DEF counts, m, n, all
<1>9. Answered(counts) \in SUBSET (1..n)
  BY <1>4, <1>6, <1>7, AnnotationGrows
<1>10. m = Cardinality(Answered(counts))
  <2>1. {j \in Answered(counts) : j < Inspected} = Answered(counts)
    <3>1. \A j \in Answered(counts) : j < Inspected
      BY <1>4, <1>5, <1>9
    <3> QED
      BY <3>1
  <2> QED
    BY <1>3, <2>1
<1>11. /\ regions' \in Seq(Nat) /\ Len(regions') = m
       /\ \A r \in 1..m : regions'[r] = IF regions[r] < TruncateAt THEN regions[r] ELSE TruncateAt
  <2>1. m <= Len(regions)
    BY <1>5 DEF n
  <2> QED
    BY <1>1, <1>5, <1>8, <2>1, FrontTruncated
<1>12. TruncatedFrom(regions', counts, m)
  BY <1>3, <1>11 DEF TruncatedFrom
<1>13. /\ m >= 1 /\ regions' # <<>> /\ regions' \in Seq(1..TruncateAt)
       /\ regions' = At(Answered(counts), Truncated(counts))
       /\ \A i, j \in 1..m : i <= j => regions'[i] <= regions'[j]
       /\ regions'[1] >= 1
       /\ regions'[m] \in Nat /\ regions'[m] <= Len(all)
  <2>1. regions' \in Seq(Nat) /\ Len(regions') = m
    BY <1>11
  <2> DEFINE kept == regions'
             sent == messages_sent
             bytes == response_bytes
             buf == response_buf
  <2>2. /\ Kept(sent, bytes, buf) /\ buf # <<>> /\ n \in Nat /\ sent <= n
        /\ counts = Annotation(sent, bytes, buf, n)
        /\ m \in Nat /\ m = Cardinality(Answered(counts))
        /\ kept \in Seq(Nat) /\ Len(kept) = m /\ TruncatedFrom(kept, counts, m)
    BY <1>4, <1>5, <1>6, <1>7, <1>8, <1>10, <1>12, <2>1
  <2> HIDE DEF kept, sent, bytes, buf
  <2>3. /\ m >= 1 /\ kept # <<>> /\ kept \in Seq(1..TruncateAt)
        /\ kept = At(Answered(counts), Truncated(counts))
        /\ \A i, j \in 1..m : i <= j => kept[i] <= kept[j]
        /\ kept[1] >= 1
        /\ kept[m] \in Nat /\ kept[m] <= Len(extract_response_codes(buf))
    BY <2>2, AnsweredFit
  <2> QED
    BY <2>3 DEF kept, buf, all
<1>14. states' = SubSeq(all, 1, regions'[m])
  BY <1>1, <1>11, <1>13
<1>15. regions'[m] >= 1
  <2>1. m \in 1..m /\ 1 \in 1..m
    BY <1>5, <1>13
  <2>2. regions'[1] \in Nat /\ regions'[1] <= regions'[m] /\ regions'[1] >= 1 /\ regions'[m] \in Nat
    BY <1>5, <1>11, <1>13, <2>1, ElementOfSeq
  <2> QED
    BY <2>2
<1>16. /\ states' \in Seq(Codes \cup {0}) /\ states' \in Seq(Nat)
       /\ Len(states') = regions'[m] /\ states'[1] = 0
  BY <1>8, <1>13, <1>14, <1>15, CodesCut DEF all
<1>17. ST!WellFormed([codes |-> states', counts |-> regions'])
  BY <1>5, <1>11, <1>13, <1>16, EntryFits
<1>18. TypeOK'
  <2>1. 0 \in 0..MaxMessages + 1 /\ 0 \in 0..MaxMessages
    BY <1>4
  <2> QED
    BY <1>1, <1>2, <1>11, <1>13, <1>16, <2>1 DEF TypeOK, SameBuffers, server
<1>19. OnWire' /\ Buffered' /\ Counted' /\ Grown'
  BY <1>1, <1>2 DEF OnWire, Buffered, NoStaleResponses, Counted, Sized, Over, Grown, SameBuffers, server
<1>20. Causality'
  BY <1>1, <1>2, CausalityKept
<1>21. Removing'
  BY <1>1 DEF Removing
<1>22. EntryWellFormed'
  <2> DEFINE after == Annotation(messages_sent', response_bytes', response_buf', n)
  <2>1. after = counts
    BY <1>1, <1>7 DEF SameBuffers
  <2>2. n \in {count', messages_sent'}
    BY <1>1, <1>3
  <2>3. regions' = At(Answered(after), Truncated(after))
    <3> HIDE DEF after
    <3> QED
      BY <1>13, <2>1
  <2> QED
    BY <1>13, <1>17, <2>2, <2>3 DEF EntryWellFormed, Annotated
<1> QED
  BY <1>18, <1>19, <1>20, <1>21, <1>22 DEF IInv

-----------------------------------------------------------------------------
(* The theorems *)

LEMMA InitGivesIInv ==
  ASSUME Init
  PROVE  IInv
<1>1. TypeOK
  <2>1. /\ 0 \in 0..MaxSessions /\ 0 \in 0..MaxMessages /\ 0 \in 0..MaxMessages + 1
        /\ 0 \in 0..0 /\ 0 \in 0..MaxUnits /\ 0 \in 0..MaxCoverage
    BY BoundsAssumption
  <2>2. /\ <<>> \in Seq(Unit) /\ <<>> \in Seq(Nat) /\ <<>> \in Seq(Codes \cup {0})
        /\ <<>> \in Seq(1..TruncateAt)
    BY EmptySeq
  <2> QED
    BY <2>1, <2>2 DEF Init, TypeOK
<1>2. DOMAIN <<>> = {}
  OBVIOUS
<1>3. OnWire /\ Buffered /\ Counted /\ Grown /\ Causality
  BY <1>2 DEF Init, OnWire, Buffered, NoStaleResponses, Counted, Grown, Causality
<1>4. Removing /\ EntryWellFormed
  BY DEF Init, Removing, EntryWellFormed, NoAnswer
<1> QED
  BY <1>1, <1>3, <1>4 DEF IInv

LEMMA NextKeepsIInv ==
  ASSUME IInv, [Next]_vars
  PROVE  IInv'
<1>1. CASE StartSession
  BY <1>1, StartSessionKeeps
<1>2. CASE Fuzzer
  BY <1>2, ConnectKeeps, EarlyKeeps, SendKeeps, RecvKeeps, AllSentKeeps, HandleResponsesKeeps,
     DrainKeeps, AnnotateKeeps, RemoveNullKeeps, PreprocessKeeps DEF Fuzzer
<1>3. CASE Server
  BY <1>3, ServerTakesKeeps, ServerSendsKeeps, ServerElseKeeps DEF Server
<1>4. CASE UNCHANGED vars
  <2>1. UNCHANGED fuzzer /\ UNCHANGED server
    BY <1>4 DEF vars
  <2>2. TypeOK /\ OnWire
    BY DEF IInv
  <2>3. TypeOK' /\ OnWire'
    BY <2>1, <2>2 DEF TypeOK, OnWire, fuzzer, server, entry
  <2>4. taken' \in Nat /\ taken <= taken'
    BY <2>1, <2>2, Numbers DEF server
  <2>5. Buffered' /\ Counted' /\ Grown' /\ Causality' /\ Removing' /\ EntryWellFormed'
    BY <2>1, <2>4, ServerKeeps
  <2> QED
    BY <2>3, <2>5 DEF IInv
<1> QED
  BY <1>1, <1>2, <1>3, <1>4 DEF Next

\* The inductive invariant holds in every state of every execution.
THEOREM SessionInvariant == Spec => []IInv
<1>1. Init => IInv
  BY InitGivesIInv
<1>2. IInv /\ [Next]_vars => IInv'
  BY NextKeepsIInv
<1> QED
  BY <1>1, <1>2, PTL DEF Spec

\* What is annotated belongs to the session that ends: the sizes are those of
\* its messages, and no response of an earlier one is left, also when the
\* connection fails (send_over_network, afl-fuzz.c:1100-1239, and
\* update_region_annotations, 591-640).
THEOREM SessionIsOne == Spec => []OneSession
<1>1. IInv => OneSession
  BY DEF IInv, Buffered, Counted, Sized, OneSession, AnnotationFits
<1> QED
  BY <1>1, SessionInvariant, PTL

\* However sending ends and whenever the server answers, no region is credited
\* with an answer to a later message, sizes do not decrease, and the entry that
\* is left has its regions in order, each a prefix of the last (afl-fuzz.c:603,
\* 1201, 856, and mcts.c:898-976).
THEOREM SessionCredits == Spec => []AnswersCredited
<1>1. ASSUME IInv
      PROVE  BytesGrow
  <2>1. TypeOK /\ Grown
    BY <1>1 DEF IInv
  <2>2. ASSUME Over, response_bytes # <<>>
        PROVE  response_bytes[Len(response_bytes)] = Len(response_buf)
    BY <2>1, <2>2 DEF Grown, Over
  <2>3. ASSUME Over, response_bytes # <<>>, NEW k \in 2..Len(response_bytes)
        PROVE  response_bytes[k - 1] <= response_bytes[k]
    <3>1. /\ Len(response_bytes) \in Nat /\ DOMAIN response_bytes = 1..Len(response_bytes)
      BY <2>1, Numbers
    <3>2. k - 1 \in 1..Len(response_bytes) /\ k \in 1..Len(response_bytes) /\ k - 1 <= k
      BY <2>3, <3>1
    <3>3. CASE k < Len(response_bytes)
      BY <2>1, <3>1, <3>2, <3>3 DEF Grown
    <3>4. CASE k = Len(response_bytes)
      BY <2>1, <2>2, <2>3, <3>1, <3>2, <3>4 DEF Grown
    <3>5. k < Len(response_bytes) \/ k = Len(response_bytes)
      <4>1. k \in Nat /\ k <= Len(response_bytes) /\ Len(response_bytes) \in Nat
        BY <3>1, <3>2
      <4> QED
        BY <4>1
    <3> QED
      BY <3>3, <3>4, <3>5
  <2> QED
    BY <2>2, <2>3 DEF BytesGrow
<1>2. IInv => AnswersCredited
  BY <1>1 DEF IInv, AnswersCredited
<1> QED
  BY <1>2, SessionInvariant, PTL

-----------------------------------------------------------------------------
(* Lemmas: flattened sequences *)

(* What FlattenSeq defines; Flat is its body without the recursion. *)
FlatBody(s, f) == [i \in 1..Len(s) |-> IF i = 1 THEN s[i] ELSE f[i - 1] \o s[i]]

LEMMA FlatExists ==
  ASSUME NEW s, NEW n \in Nat
  PROVE  \E f : f = [i \in 1..n |-> IF i = 1 THEN s[i] ELSE f[i - 1] \o s[i]]
<1> DEFINE Good(m) == \E f : f = [i \in 1..m |-> IF i = 1 THEN s[i] ELSE f[i - 1] \o s[i]]
           Lacking == {m \in Nat : ~Good(m)}
<1>1. Good(0)
  <2>1. [i \in 1..0 |-> 0] = [i \in 1..0 |-> IF i = 1 THEN s[i] ELSE [j \in 1..0 |-> 0][i - 1] \o s[i]]
    OBVIOUS
  <2> QED
    BY <2>1
<1>2. ASSUME NEW m \in Nat, Good(m) PROVE Good(m + 1)
  <2>1. PICK f : f = [i \in 1..m |-> IF i = 1 THEN s[i] ELSE f[i - 1] \o s[i]]
    BY <1>2
  <2> DEFINE top == IF m + 1 = 1 THEN s[m + 1] ELSE f[m] \o s[m + 1]
             g == [i \in 1..m + 1 |-> IF i = m + 1 THEN top ELSE f[i]]
  <2>2. DOMAIN f = 1..m /\ \A i \in 1..m : f[i] = IF i = 1 THEN s[i] ELSE f[i - 1] \o s[i]
    BY <2>1
  <2>3. ASSUME NEW i \in 1..m + 1
        PROVE  g[i] = IF i = 1 THEN s[i] ELSE g[i - 1] \o s[i]
    <3>1. CASE i = m + 1
      <4>1. g[i] = top
        BY <3>1
      <4>2. i # 1 => g[i - 1] = f[m]
        BY <3>1
      <4> QED
        BY <3>1, <4>1, <4>2
    <3>2. CASE i # m + 1
      <4>1. i \in 1..m /\ g[i] = f[i]
        BY <3>2
      <4>2. i # 1 => g[i - 1] = f[i - 1]
        BY <3>2
      <4> QED
        BY <2>2, <4>1, <4>2
    <3> QED
      BY <3>1, <3>2
  <2> HIDE DEF top
  <2>4. g = [i \in 1..m + 1 |-> g[i]]
    OBVIOUS
  <2> HIDE DEF g
  <2>5. g = [i \in 1..m + 1 |-> IF i = 1 THEN s[i] ELSE g[i - 1] \o s[i]]
    BY <2>3, <2>4
  <2> QED
    BY <2>5
<1> HIDE DEF Good
<1>3. CASE Lacking = {}
  BY <1>3 DEF Good
<1>4. CASE Lacking # {}
  <2>1. PICK m \in Lacking : \A k \in Lacking : m <= k
    BY <1>4, SmallestOf, Lacking \in SUBSET Nat
  <2>2. m # 0 /\ m \in Nat /\ ~Good(m)
    BY <1>1
  <2>3. m - 1 \in Nat /\ m - 1 \notin Lacking
    BY <2>1, <2>2
  <2> QED
    BY <1>2, <2>2, <2>3
<1> QED
  BY <1>3, <1>4

(* Up to where FlattenSeq has come after k of the sequences. *)
FlatTo(s) == CHOOSE f : f = [i \in 1..Len(s) |-> IF i = 1 THEN s[i] ELSE f[i - 1] \o s[i]]

LEMMA FlatToIs ==
  ASSUME NEW S, NEW s \in Seq(Seq(S))
  PROVE  /\ FlattenSeq(s) = IF Len(s) = 0 THEN <<>> ELSE FlatTo(s)[Len(s)]
         /\ DOMAIN FlatTo(s) = 1..Len(s)
         /\ \A i \in 1..Len(s) :
              /\ FlatTo(s)[i] = IF i = 1 THEN s[i] ELSE FlatTo(s)[i - 1] \o s[i]
              /\ FlatTo(s)[i] \in Seq(S)
<1> DEFINE f == FlatTo(s)
<1>1. f = [i \in 1..Len(s) |-> IF i = 1 THEN s[i] ELSE f[i - 1] \o s[i]]
  <2>1. Len(s) \in Nat
    OBVIOUS
  <2>2. \E g : g = [i \in 1..Len(s) |-> IF i = 1 THEN s[i] ELSE g[i - 1] \o s[i]]
    BY ONLY <2>1, FlatExists
  <2> QED
    BY ONLY <2>2 DEF FlatTo
<1> HIDE DEF f
<1>2. DOMAIN f = 1..Len(s) /\ \A i \in 1..Len(s) : f[i] = IF i = 1 THEN s[i] ELSE f[i - 1] \o s[i]
  BY <1>1
<1>3. FlattenSeq(s) = IF Len(s) = 0 THEN <<>> ELSE FlatTo(s)[Len(s)]
  <2>1. FlattenSeq(s) = IF Len(s) = 0 THEN s ELSE FlatTo(s)[Len(s)]
    BY DEF FlattenSeq, FlatTo
  <2>2. Len(s) = 0 => s = <<>>
    OBVIOUS
  <2> QED
    BY <2>1, <2>2
<1> DEFINE Lacking == {i \in 1..Len(s) : f[i] \notin Seq(S)}
<1>4. Lacking = {}
  <2> SUFFICES ASSUME Lacking # {} PROVE FALSE
    OBVIOUS
  <2>1. Lacking \in SUBSET Nat
    OBVIOUS
  <2>2. PICK m \in Lacking : \A k \in Lacking : m <= k
    BY <2>1, SmallestOf
  <2>3. m \in 1..Len(s) /\ s[m] \in Seq(S) /\ f[m] \notin Seq(S)
    OBVIOUS
  <2>4. m # 1 => m - 1 \in 1..Len(s) /\ f[m - 1] \in Seq(S)
    BY <2>2, <2>3
  <2>5. f[m] = IF m = 1 THEN s[m] ELSE f[m - 1] \o s[m]
    BY <1>2, <2>3
  <2>6. CASE m = 1
    BY <2>3, <2>5, <2>6
  <2>7. CASE m # 1
    BY <2>3, <2>4, <2>5, <2>7, ConcatProperties
  <2> QED
    BY <2>6, <2>7
<1>5. \A i \in 1..Len(s) : f[i] \in Seq(S)
  BY <1>4
<1> QED
  BY <1>2, <1>3, <1>5 DEF f

LEMMA FlatTyped ==
  ASSUME NEW S, NEW s \in Seq(Seq(S))
  PROVE  FlattenSeq(s) \in Seq(S)
<1>1. CASE Len(s) = 0
  <2>1. FlattenSeq(s) = <<>>
    BY <1>1, FlatToIs
  <2> QED
    BY <2>1
<1>2. CASE Len(s) # 0
  BY <1>2, FlatToIs
<1> QED
  BY <1>1, <1>2

(* Sequences that begin alike are flattened alike there. *)
LEMMA FlatToSame ==
  ASSUME NEW S, NEW s \in Seq(Seq(S)), NEW t \in Seq(Seq(S)),
         NEW n \in 0..Len(s), n <= Len(t), \A i \in 1..n : s[i] = t[i]
  PROVE  \A i \in 1..n : FlatTo(s)[i] = FlatTo(t)[i]
<1> DEFINE f == FlatTo(s)
           g == FlatTo(t)
           Lacking == {i \in 1..n : f[i] # g[i]}
<1>0. Len(s) \in Nat /\ Len(t) \in Nat
      /\ \A i \in 1..n : i \in 1..Len(s) /\ i \in 1..Len(t)
  OBVIOUS
<1> HIDE DEF f, g
<1>1. \A i \in 1..n : f[i] = IF i = 1 THEN s[i] ELSE f[i - 1] \o s[i]
  <2>1. \A i \in 1..Len(s) : f[i] = IF i = 1 THEN s[i] ELSE f[i - 1] \o s[i]
    BY FlatToIs DEF f
  <2> QED
    BY <1>0, <2>1
<1>2. \A i \in 1..n : g[i] = IF i = 1 THEN t[i] ELSE g[i - 1] \o t[i]
  <2>1. \A i \in 1..Len(t) : g[i] = IF i = 1 THEN t[i] ELSE g[i - 1] \o t[i]
    BY FlatToIs DEF g
  <2> QED
    BY <1>0, <2>1
<1>3. Lacking = {}
  <2> SUFFICES ASSUME Lacking # {} PROVE FALSE
    OBVIOUS
  <2>1. Lacking \in SUBSET Nat
    BY <1>0
  <2>2. PICK m \in Lacking : \A k \in Lacking : m <= k
    BY <2>1, SmallestOf
  <2>3. m \in 1..n /\ f[m] # g[m]
    OBVIOUS
  <2>4. m # 1 => m - 1 \in 1..n /\ f[m - 1] = g[m - 1]
    <3>1. m - 1 \notin Lacking
      <4>1. m \in Nat /\ ~(m <= m - 1)
        BY <2>1, <2>2
      <4> QED
        BY <2>2, <4>1
    <3>2. m # 1 => m - 1 \in 1..n
      BY <1>0, <2>3
    <3> QED
      BY <3>1, <3>2
  <2> QED
    BY <1>1, <1>2, <2>3, <2>4
<1> QED
  BY <1>3 DEF f, g

LEMMA FlatAppend ==
  ASSUME NEW S, NEW s \in Seq(Seq(S)), NEW e \in Seq(S)
  PROVE  FlattenSeq(Append(s, e)) = FlattenSeq(s) \o e
<1> DEFINE t == Append(s, e)
           n == Len(s)
<1>1. t \in Seq(Seq(S)) /\ Len(t) = n + 1 /\ t[n + 1] = e /\ n \in Nat
      /\ \A i \in 1..n : t[i] = s[i]
  OBVIOUS
<1> HIDE DEF t
<1>2. FlattenSeq(t) = FlatTo(t)[n + 1]
  <2>1. Len(t) # 0
    BY <1>1
  <2> QED
    BY <1>1, <2>1, FlatToIs
<1>3. FlatTo(t)[n + 1] = IF n + 1 = 1 THEN e ELSE FlatTo(t)[n] \o e
  BY <1>1, FlatToIs
<1>4. CASE n = 0
  <2>1. FlattenSeq(s) = <<>>
    BY <1>4, FlatToIs
  <2> QED
    BY <1>2, <1>3, <1>4, <2>1 DEF t
<1>5. CASE n # 0
  <2>1. FlattenSeq(s) = FlatTo(s)[n]
    BY <1>5, FlatToIs
  <2>2. FlatTo(t)[n] = FlatTo(s)[n]
    <3>1. n \in 0..Len(t) /\ n <= Len(s)
      BY <1>1
    <3>2. \A i \in 1..n : FlatTo(t)[i] = FlatTo(s)[i]
      BY ONLY <1>1, <3>1, FlatToSame, s \in Seq(Seq(S))
    <3>3. n \in 1..n
      BY <1>1, <1>5
    <3> QED
      BY <3>2, <3>3
  <2> QED
    BY <1>1, <1>2, <1>3, <1>5, <2>1, <2>2 DEF t
<1> QED
  BY <1>4, <1>5

LEMMA FlatEmpty == FlattenSeq(<<>>) = <<>>
  BY DEF FlattenSeq

LEMMA SeqFacts ==
  ASSUME NEW S, NEW t \in Seq(S), NEW k \in 0..Len(t)
  PROVE  /\ SubSeq(t, 1, k) \in Seq(S) /\ Len(SubSeq(t, 1, k)) = k
         /\ \A i \in 1..k : SubSeq(t, 1, k)[i] = t[i]
         /\ k < Len(t) => SubSeq(t, 1, k + 1) = Append(SubSeq(t, 1, k), t[k + 1])
<1>1. /\ Len(t) \in Nat /\ k \in Nat /\ \A i \in 1..Len(t) : t[i] \in S
  OBVIOUS
<1>2. \A m \in 0..Len(t) : /\ SubSeq(t, 1, m) \in Seq(S) /\ Len(SubSeq(t, 1, m)) = m
                           /\ \A i \in 1..m : SubSeq(t, 1, m)[i] = t[i]
  <2> TAKE m \in 0..Len(t)
  <2>1. \A i \in 1..m : t[i] \in S
    BY <1>1
  <2>2. 1 \in Int /\ m \in Int /\ m >= 0 /\ m - 1 + 1 = m /\ \A i \in 1..m : 1 + i - 1 = i
    BY <1>1
  <2>3. /\ SubSeq(t, 1, m) \in Seq(S)
        /\ Len(SubSeq(t, 1, m)) = IF 1 <= m THEN m - 1 + 1 ELSE 0
        /\ \A i \in 1..m - 1 + 1 : SubSeq(t, 1, m)[i] = t[1 + i - 1]
    BY ONLY <2>1, <2>2, SubSeqProperties
  <2> QED
    BY <2>2, <2>3
<1>3. ASSUME k < Len(t)
      PROVE  SubSeq(t, 1, k + 1) = Append(SubSeq(t, 1, k), t[k + 1])
  <2> DEFINE a == SubSeq(t, 1, k + 1)
             b == SubSeq(t, 1, k)
  <2>1. k + 1 \in 0..Len(t) /\ t[k + 1] \in S
    BY <1>1, <1>3
  <2>2. /\ a \in Seq(S) /\ Len(a) = k + 1 /\ \A i \in 1..k + 1 : a[i] = t[i]
        /\ b \in Seq(S) /\ Len(b) = k /\ \A i \in 1..k : b[i] = t[i]
    BY <1>2, <2>1
  <2> HIDE DEF a, b
  <2>3. /\ Append(b, t[k + 1]) \in Seq(S) /\ Len(Append(b, t[k + 1])) = k + 1
        /\ \A i \in 1..k + 1 : Append(b, t[k + 1])[i] = t[i]
    BY <1>1, <2>1, <2>2, AppendProperties
  <2>4. a = Append(b, t[k + 1])
    BY <2>2, <2>3, SeqEqual
  <2> QED
    BY <2>4 DEF a, b
<1> QED
  BY <1>2, <1>3

LEMMA FlatStep ==
  ASSUME NEW S, NEW t \in Seq(Seq(S)), NEW k \in 0..Len(t), k < Len(t)
  PROVE  FlattenSeq(SubSeq(t, 1, k + 1)) = FlattenSeq(SubSeq(t, 1, k)) \o t[k + 1]
<1>1. t[k + 1] \in Seq(S)
  OBVIOUS
<1> QED
  BY <1>1, SeqFacts, FlatAppend

LEMMA FlatConcat ==
  ASSUME NEW S, NEW s \in Seq(Seq(S)), NEW t \in Seq(Seq(S))
  PROVE  FlattenSeq(s \o t) = FlattenSeq(s) \o FlattenSeq(t)
<1> DEFINE Good(k) == FlattenSeq(s \o SubSeq(t, 1, k)) = FlattenSeq(s) \o FlattenSeq(SubSeq(t, 1, k))
           Lacking == {k \in 0..Len(t) : ~Good(k)}
<1>0. Len(t) \in Nat /\ SubSeq(t, 1, Len(t)) = t /\ FlattenSeq(s) \in Seq(S)
  BY FlatTyped, SubSeqFull
<1>1. Good(0)
  <2>1. SubSeq(t, 1, 0) = <<>>
    BY SubSeqEmpty
  <2> QED
    BY <1>0, <2>1, FlatEmpty, ConcatEmptySeq
<1>2. ASSUME NEW k \in 0..Len(t), k < Len(t), Good(k) PROVE Good(k + 1)
  <2> DEFINE u == SubSeq(t, 1, k)
  <2>1. u \in Seq(Seq(S)) /\ t[k + 1] \in Seq(S)
    BY <1>0, <1>2, SeqFacts
  <2>2. SubSeq(t, 1, k + 1) = Append(u, t[k + 1])
    BY <1>2, SeqFacts
  <2>3. FlattenSeq(s \o u) = FlattenSeq(s) \o FlattenSeq(u)
    BY <1>2
  <2> HIDE DEF u
  <2>4. s \o Append(u, t[k + 1]) = Append(s \o u, t[k + 1]) /\ s \o u \in Seq(Seq(S))
    <3>1. Append(u, t[k + 1]) = u \o <<t[k + 1]>> /\ <<t[k + 1]>> \in Seq(Seq(S))
      BY <2>1, AppendIsConcat
    <3>2. s \o u \in Seq(Seq(S))
      BY <2>1, ConcatProperties
    <3>3. Append(s \o u, t[k + 1]) = (s \o u) \o <<t[k + 1]>>
      BY <2>1, <3>2, AppendIsConcat
    <3>4. (s \o u) \o <<t[k + 1]>> = s \o (u \o <<t[k + 1]>>)
      <4>1. \A x, y, z \in Seq(Seq(S)) : (x \o y) \o z = x \o (y \o z)
        <5> DEFINE T == Seq(S)
        <5> HIDE DEF T
        <5>1. \A x, y, z \in Seq(T) : (x \o y) \o z = x \o (y \o z)
          BY ConcatAssociative
        <5> QED
          BY <5>1 DEF T
      <4> QED
        BY <2>1, <3>1, <4>1
    <3> QED
      BY <3>1, <3>2, <3>3, <3>4
  <2>5. FlattenSeq(s \o Append(u, t[k + 1])) = FlattenSeq(s \o u) \o t[k + 1]
    BY <2>1, <2>4, FlatAppend
  <2>6. FlattenSeq(Append(u, t[k + 1])) = FlattenSeq(u) \o t[k + 1]
    BY <2>1, FlatAppend
  <2>7. FlattenSeq(u) \in Seq(S)
    BY <2>1, FlatTyped
  <2>8. (FlattenSeq(s) \o FlattenSeq(u)) \o t[k + 1] = FlattenSeq(s) \o (FlattenSeq(u) \o t[k + 1])
    <3>1. \A x, y, z \in Seq(S) : (x \o y) \o z = x \o (y \o z)
      BY ConcatAssociative
    <3> QED
      BY <1>0, <2>1, <2>7, <3>1
  <2> QED
    BY <2>2, <2>3, <2>5, <2>6, <2>8
<1> HIDE DEF Good
<1>3. Lacking = {}
  <2> SUFFICES ASSUME Lacking # {} PROVE FALSE
    OBVIOUS
  <2>1. Lacking \in SUBSET Nat
    OBVIOUS
  <2>2. PICK m \in Lacking : \A k \in Lacking : m <= k
    BY <2>1, SmallestOf
  <2>3. m # 0 /\ m \in 0..Len(t) /\ ~Good(m)
    BY <1>1
  <2>4. m - 1 \in 0..Len(t) /\ m - 1 < Len(t) /\ ~(m <= m - 1) /\ m - 1 + 1 = m
    BY <1>0, <2>3
  <2>5. Good(m - 1)
    BY <2>2, <2>4
  <2> QED
    BY <1>2, <2>3, <2>4, <2>5
<1>4. Good(Len(t))
  BY <1>0, <1>3
<1> QED
  BY <1>0, <1>4 DEF Good

(* What is flattened of a front is a front of what is flattened. *)
LEMMA FlatFront ==
  ASSUME NEW S, NEW t \in Seq(Seq(S)), NEW k \in 0..Len(t)
  PROVE  /\ FlattenSeq(SubSeq(t, 1, k)) \in Seq(S)
         /\ Len(FlattenSeq(SubSeq(t, 1, k))) <= Len(FlattenSeq(t))
         /\ \A i \in 1..Len(FlattenSeq(SubSeq(t, 1, k))) :
              FlattenSeq(SubSeq(t, 1, k))[i] = FlattenSeq(t)[i]
         /\ FlattenSeq(t) = FlattenSeq(SubSeq(t, 1, k)) \o FlattenSeq(SubSeq(t, k + 1, Len(t)))
<1> DEFINE a == SubSeq(t, 1, k)
           b == SubSeq(t, k + 1, Len(t))
           fa == FlattenSeq(a)
           fb == FlattenSeq(b)
<1>1. a \in Seq(Seq(S)) /\ b \in Seq(Seq(S)) /\ a \o b = t
  <2>1. Len(t) \in Nat /\ 1 \in 1..Len(t) + 1 /\ k \in 1 - 1..Len(t) /\ Len(t) \in k..Len(t)
    OBVIOUS
  <2>2. a \o b = SubSeq(t, 1, Len(t))
    BY <2>1, ConcatAdjacentSubSeq
  <2>3. \A i \in k + 1..Len(t) : t[i] \in Seq(S)
    OBVIOUS
  <2>4. b \in Seq(Seq(S))
    BY <2>1, <2>3, SubSeqProperties
  <2> QED
    BY <2>2, <2>4, SeqFacts, SubSeqFull
<1>2. fa \in Seq(S) /\ fb \in Seq(S)
  BY <1>1, FlatTyped
<1>3. FlattenSeq(t) = fa \o fb
  BY <1>1, FlatConcat
<1> HIDE DEF fa, fb
<1>4. /\ Len(fa \o fb) = Len(fa) + Len(fb) /\ Len(fa) \in Nat /\ Len(fb) \in Nat
      /\ \A i \in 1..Len(fa) + Len(fb) : (fa \o fb)[i] = IF i <= Len(fa) THEN fa[i] ELSE fb[i - Len(fa)]
  BY <1>2, ConcatProperties
<1>5. \A i \in 1..Len(fa) : fa[i] = FlattenSeq(t)[i]
  BY <1>3, <1>4
<1> QED
  BY <1>2, <1>3, <1>4, <1>5 DEF fa, fb

LEMMA AddExists ==
  ASSUME NEW g, NEW n \in Nat
  PROVE  \E f : f = [k \in 0..n |-> IF k = 0 THEN 0 ELSE f[k - 1] + g[k]]
<1> DEFINE Good(m) == \E f : f = [k \in 0..m |-> IF k = 0 THEN 0 ELSE f[k - 1] + g[k]]
           Lacking == {m \in Nat : ~Good(m)}
<1>1. Good(0)
  <2> DEFINE z == [k \in 0..0 |-> 0]
  <2>1. z = [k \in 0..0 |-> IF k = 0 THEN 0 ELSE z[k - 1] + g[k]]
    OBVIOUS
  <2> QED
    BY <2>1
<1>2. ASSUME NEW m \in Nat, Good(m) PROVE Good(m + 1)
  <2>1. PICK f : f = [k \in 0..m |-> IF k = 0 THEN 0 ELSE f[k - 1] + g[k]]
    BY <1>2
  <2> DEFINE top == f[m] + g[m + 1]
             h == [k \in 0..m + 1 |-> IF k = m + 1 THEN top ELSE f[k]]
  <2>2. DOMAIN f = 0..m /\ \A k \in 0..m : f[k] = IF k = 0 THEN 0 ELSE f[k - 1] + g[k]
    BY <2>1
  <2>3. ASSUME NEW k \in 0..m + 1
        PROVE  h[k] = IF k = 0 THEN 0 ELSE h[k - 1] + g[k]
    <3>1. CASE k = m + 1
      <4>1. h[k] = top /\ k # 0
        BY <3>1
      <4>2. h[k - 1] = f[m]
        BY <3>1
      <4> QED
        BY <3>1, <4>1, <4>2
    <3>2. CASE k # m + 1
      <4>1. k \in 0..m /\ h[k] = f[k]
        BY <3>2
      <4>2. k # 0 => h[k - 1] = f[k - 1]
        BY <3>2
      <4> QED
        BY <2>2, <4>1, <4>2
    <3> QED
      BY <3>1, <3>2
  <2> HIDE DEF top
  <2>4. h = [k \in 0..m + 1 |-> h[k]]
    OBVIOUS
  <2> HIDE DEF h
  <2>5. h = [k \in 0..m + 1 |-> IF k = 0 THEN 0 ELSE h[k - 1] + g[k]]
    BY <2>3, <2>4
  <2> QED
    BY <2>5
<1> HIDE DEF Good
<1>3. CASE Lacking = {}
  BY <1>3 DEF Good
<1>4. CASE Lacking # {}
  <2>1. PICK m \in Lacking : \A k \in Lacking : m <= k
    BY <1>4, SmallestOf, Lacking \in SUBSET Nat
  <2>2. m # 0 /\ m \in Nat /\ ~Good(m)
    BY <1>1
  <2>3. m - 1 \in Nat /\ m - 1 \notin Lacking
    BY <2>1, <2>2
  <2> QED
    BY <1>2, <2>2, <2>3
<1> QED
  BY <1>3, <1>4

Iterates(f, step, a, size) ==
  f = [n \in 0..size |-> IF n = 0 THEN a ELSE step[f[n - 1]]]

LEMMA IterExists ==
  ASSUME NEW step, NEW a, NEW size \in Nat
  PROVE  \E f : Iterates(f, step, a, size)
<1> DEFINE Good(m) == \E f : f = [n \in 0..m |-> IF n = 0 THEN a ELSE step[f[n - 1]]]
           Lacking == {m \in Nat : ~Good(m)}
<1>1. Good(0)
  <2> DEFINE z == [n \in 0..0 |-> a]
  <2>1. z = [n \in 0..0 |-> IF n = 0 THEN a ELSE step[z[n - 1]]]
    OBVIOUS
  <2> QED
    BY <2>1
<1>2. ASSUME NEW m \in Nat, Good(m) PROVE Good(m + 1)
  <2>1. PICK f : f = [n \in 0..m |-> IF n = 0 THEN a ELSE step[f[n - 1]]]
    BY <1>2
  <2> DEFINE top == step[f[m]]
             h == [n \in 0..m + 1 |-> IF n = m + 1 THEN top ELSE f[n]]
  <2>2. DOMAIN f = 0..m /\ \A n \in 0..m : f[n] = IF n = 0 THEN a ELSE step[f[n - 1]]
    BY <2>1
  <2>3. ASSUME NEW n \in 0..m + 1
        PROVE  h[n] = IF n = 0 THEN a ELSE step[h[n - 1]]
    <3>1. CASE n = m + 1
      <4>1. h[n] = top /\ n # 0
        BY <3>1
      <4>2. h[n - 1] = f[m]
        BY <3>1
      <4> QED
        BY <3>1, <4>1, <4>2
    <3>2. CASE n # m + 1
      <4>1. n \in 0..m /\ h[n] = f[n]
        BY <3>2
      <4>2. n # 0 => h[n - 1] = f[n - 1]
        BY <3>2
      <4> QED
        BY <2>2, <4>1, <4>2
    <3> QED
      BY <3>1, <3>2
  <2> HIDE DEF top
  <2>4. h = [n \in 0..m + 1 |-> h[n]]
    OBVIOUS
  <2> HIDE DEF h
  <2>5. h = [n \in 0..m + 1 |-> IF n = 0 THEN a ELSE step[h[n - 1]]]
    BY <2>3, <2>4
  <2> QED
    BY <2>5
<1> HIDE DEF Good
<1>4. Lacking = {}
  <2> SUFFICES ASSUME Lacking # {} PROVE FALSE
    OBVIOUS
  <2>1. PICK m \in Lacking : \A n \in Lacking : m <= n
    BY SmallestOf, Lacking \in SUBSET Nat
  <2>2. m # 0 /\ m \in Nat /\ ~Good(m)
    BY <1>1
  <2>3. m - 1 \in Nat /\ m - 1 \notin Lacking
    BY <2>1, <2>2
  <2> QED
    BY <1>2, <2>2, <2>3
<1> QED
  BY <1>4 DEF Good, Iterates

-----------------------------------------------------------------------------
(* The cells of a list *)

Heap == [next : Seq(Nat), data : Seq(Seq(Nat)), pool : Seq(Nat),
         head : Nat, tail : Nat, size : Nat]

\* The cells point to cells, or nowhere.
Sane(l) ==
  /\ l \in Heap /\ Len(l.data) = Len(l.next)
  /\ \A x \in 1..Len(l.next) : l.next[x] \in 0..Len(l.next)

Distinct(s) == \A i, j \in 1..Len(s) : i # j => s[i] # s[j]

\* Cells of which each points to the following one.
Chain(l, c) ==
  /\ c \in Seq(Nat) /\ Distinct(c)
  /\ \A k \in 1..Len(c) : c[k] \in 1..Len(l.next)
  /\ \A k \in 1..Len(c) - 1 : l.next[c[k]] = c[k + 1]

\* The cells from the p-th up to the q-th.
Stretch(l, c, p, q) ==
  Sane(l) /\ Chain(l, c) /\ p \in 1..Len(c) /\ q \in p..Len(c)

LEMMA BetweenIs ==
  ASSUME NEW l, NEW c, NEW p, NEW q, Stretch(l, c, p, q)
  PROVE  Between(l, c[p], c[q]) = [r \in 1..q - p |-> c[p + (r - 1)]]
<1>0. Sane(l) /\ Chain(l, c) /\ p \in 1..Len(c) /\ q \in p..Len(c)
  BY DEF Stretch
<1> DEFINE a == c[p]
           b == c[q]
           step == [x \in Cells(l) \cup {Null} |->
                      IF x = b \/ x = Null THEN Null ELSE l.next[x]]
           L == Len(l.next)
           walk == CHOOSE f : f = [n \in 0..L |-> IF n = 0 THEN a ELSE step[f[n - 1]]]
           marks == {n \in 1..L : walk[n - 1] \notin {b, Null}}
<1>1. Between(l, c[p], c[q]) = [n \in 1..Cardinality(marks) |-> walk[n - 1]]
  BY DEF Between
<1>2. /\ L \in Nat /\ Cells(l) = 1..L /\ Len(c) \in Nat /\ p \in Nat /\ q \in Nat
      /\ p >= 1 /\ p <= q /\ q <= Len(c)
      /\ \A k \in 1..Len(c) : c[k] \in 1..L
      /\ \A k \in 1..Len(c) - 1 : l.next[c[k]] = c[k + 1]
      /\ \A i, j \in 1..Len(c) : i # j => c[i] # c[j]
  BY <1>0 DEF Sane, Heap, Cells, Chain, Distinct
<1>3. walk = [n \in 0..L |-> IF n = 0 THEN a ELSE step[walk[n - 1]]]
  <2> HIDE DEF step, L
  <2>1. L \in Nat
    BY <1>2
  <2>2. \E f : Iterates(f, step, a, L)
    BY ONLY <2>1, IterExists
  <2> QED
    BY ONLY <2>2 DEF Iterates
<1>4. \A n \in 0..L : walk[n] = IF n = 0 THEN a ELSE step[walk[n - 1]]
  BY <1>3
<1>5. \A x \in 0..L : step[x] = IF x = b \/ x = 0 THEN 0 ELSE l.next[x]
  BY <1>2 DEF Null
<1> HIDE DEF walk, step
<1>6. q - p <= L - 1
  <2> DEFINE f == [k \in 1..Len(c) |-> c[k]]
  <2>1. f \in Injection(1..Len(c), 1..L)
    BY <1>2 DEF Injection, IsInjective
  <2>2. IsFiniteSet(1..L) /\ Cardinality(1..L) = L /\ Cardinality(1..Len(c)) = Len(c)
    <3>1. L \in Int /\ Len(c) \in Int /\ 1 \in Int /\ L >= 1 /\ Len(c) >= 1
      BY <1>2
    <3>2. /\ IsFiniteSet(1..L) /\ Cardinality(1..L) = IF 1 > L THEN 0 ELSE L - 1 + 1
          /\ Cardinality(1..Len(c)) = IF 1 > Len(c) THEN 0 ELSE Len(c) - 1 + 1
      BY <3>1, FS_Interval
    <3> QED
      BY <3>1, <3>2
  <2>3. Cardinality(1..Len(c)) <= Cardinality(1..L)
    BY <2>1, <2>2, FS_Injection
  <2> QED
    BY <1>2, <2>2, <2>3
<1> HIDE DEF L
<1>7. \A n \in 0..L : walk[n] = IF n <= q - p THEN c[p + n] ELSE 0
  <2> DEFINE Good(n) == walk[n] = IF n <= q - p THEN c[p + n] ELSE 0
             Lacking == {n \in 0..L : ~Good(n)}
  <2>1. Good(0)
    BY <1>2, <1>4
  <2>2. ASSUME NEW n \in 1..L, Good(n - 1) PROVE Good(n)
    <3>1. walk[n] = step[walk[n - 1]]
      <4>1. n \in 0..L /\ n # 0
        BY <1>2
      <4> QED
        BY ONLY <1>4, <4>1
    <3>2. CASE n <= q - p
      <4>1. walk[n - 1] = c[p + (n - 1)] /\ p + (n - 1) \in 1..Len(c) - 1 /\ p + (n - 1) # q
            /\ (p + (n - 1)) + 1 = p + n
        BY <1>2, <2>2, <3>2
      <4>2. c[p + (n - 1)] \in 1..L /\ c[p + (n - 1)] # b
            /\ l.next[c[p + (n - 1)]] = c[p + n]
        BY <1>2, <4>1
      <4> QED
        BY <1>2, <1>5, <3>1, <3>2, <4>1, <4>2
    <3>3. CASE n = (q - p) + 1
      <4>1. walk[n - 1] = b /\ b \in 1..L
        BY <1>2, <2>2, <3>3
      <4> QED
        BY <1>2, <1>5, <3>1, <3>3, <4>1
    <3>4. CASE n > (q - p) + 1
      <4>1. walk[n - 1] = 0
        BY <1>2, <2>2, <3>4
      <4> QED
        BY <1>2, <1>5, <3>1, <3>4, <4>1
    <3> QED
      BY <1>2, <3>2, <3>3, <3>4
  <2> HIDE DEF Good
  <2>3. Lacking = {}
    <3> SUFFICES ASSUME Lacking # {} PROVE FALSE
      OBVIOUS
    <3>1. Lacking \in SUBSET Nat
      BY <1>2
    <3>2. PICK m \in Lacking : \A k \in Lacking : m <= k
      BY <3>1, SmallestOf
    <3>3. m # 0 /\ m \in 0..L /\ ~Good(m)
      BY <2>1
    <3>4. m \in 1..L /\ m - 1 \in 0..L /\ ~(m <= m - 1)
      BY <1>2, <3>3
    <3>5. Good(m - 1)
      BY <3>2, <3>4
    <3> QED
      BY <2>2, <3>3, <3>4, <3>5
  <2> QED
    BY <2>3 DEF Good
<1>8. marks = 1..q - p
  <2>1. ASSUME NEW n \in 1..L PROVE walk[n - 1] \notin {b, Null} <=> n \in 1..q - p
    <3>1. n - 1 \in 0..L /\ n \in Int
      BY <1>2
    <3>2. CASE n <= q - p
      <4>1. walk[n - 1] = c[p + (n - 1)] /\ p + (n - 1) \in 1..Len(c) /\ p + (n - 1) # q
        BY <1>2, <1>7, <3>1, <3>2
      <4>2. walk[n - 1] # b /\ walk[n - 1] \in 1..L
        BY <1>2, <4>1
      <4> QED
        BY <1>2, <3>2, <4>2 DEF Null
    <3>3. CASE n = (q - p) + 1
      <4>1. walk[n - 1] = b
        BY <1>2, <1>7, <3>1, <3>3
      <4> QED
        BY <1>2, <3>3, <4>1
    <3>4. CASE n > (q - p) + 1
      <4>1. walk[n - 1] = Null
        BY <1>2, <1>7, <3>1, <3>4 DEF Null
      <4> QED
        BY <1>2, <3>4, <4>1
    <3> QED
      BY <1>2, <3>1, <3>2, <3>3, <3>4
  <2>2. \A n \in 1..q - p : n \in 1..L
    BY <1>2, <1>6
  <2> QED
    BY <2>1, <2>2
<1>9. Cardinality(marks) = q - p
  <2>1. 1 \in Int /\ q - p \in Int /\ q - p >= 0
    BY <1>2
  <2>2. Cardinality(1..q - p) = IF 1 > q - p THEN 0 ELSE (q - p) - 1 + 1
    BY <2>1, FS_Interval
  <2>3. Cardinality(1..q - p) = q - p
    BY ONLY <2>1, <2>2
  <2> HIDE DEF marks
  <2> QED
    BY <1>8, <2>3
<1> HIDE DEF marks
<1>10. \A n \in 1..q - p : walk[n - 1] = c[p + (n - 1)]
  <2>1. \A n \in 1..q - p : n - 1 \in 0..L /\ n - 1 <= q - p
    BY <1>2, <1>6
  <2> QED
    BY <1>7, <2>1
<1> QED
  BY <1>1, <1>9, <1>10

Apart(s, t) == \A i \in 1..Len(s), j \in 1..Len(t) : s[i] # t[j]
Has(s, x) == \E i \in 1..Len(s) : s[i] = x

\* The list is c, which ends with the tail, and d is detached from it; with the
\* pool they have every cell, once.
Layout(l, c, d) ==
  /\ Sane(l) /\ Chain(l, c) /\ Len(c) >= 1
  /\ l.head = c[1] /\ l.tail = c[Len(c)] /\ l.next[c[Len(c)]] = 0
  /\ d \in Seq(Nat) /\ Distinct(d) /\ \A k \in 1..Len(d) : d[k] \in 1..Len(l.next)
  /\ Distinct(l.pool) /\ \A k \in 1..Len(l.pool) : l.pool[k] \in 1..Len(l.next)
  /\ Apart(c, d) /\ Apart(c, l.pool) /\ Apart(d, l.pool)
  /\ \A x \in 1..Len(l.next) : Has(c, x) \/ Has(d, x) \/ Has(l.pool, x)
  /\ l.size = (Len(c) - 1) + Len(d)

\* What Push does to the cells.
Pushed(l, m, p, t) ==
  LET L == Len(l.next)
  IN  /\ t \in Heap /\ Len(t.next) \in {L, L + 1} /\ Len(t.data) = Len(t.next)
      /\ p \in 1..Len(t.next)
      /\ t.next[p] = 0 /\ t.next[l.tail] = p /\ t.data[l.tail] = m
      /\ \A x \in 1..L : x \notin {p, l.tail} => t.next[x] = l.next[x]
      /\ \A x \in 1..L : x # l.tail => t.data[x] = l.data[x]
      /\ t.tail = p /\ t.head = l.head /\ t.size = l.size + 1
      /\ p = L + 1 \/ Has(l.pool, p)
      /\ \A x \in 1..Len(t.next) : x # p => x \in 1..L
      /\ Len(t.pool) <= Len(l.pool) /\ \A k \in 1..Len(t.pool) : t.pool[k] = l.pool[k]
      /\ \A k \in 1..Len(t.pool) : t.pool[k] # p
      /\ \A x \in 1..L : Has(l.pool, x) => x = p \/ Has(t.pool, x)

LEMMA PushEffect ==
  ASSUME NEW l, NEW c, Layout(l, c, <<>>), NEW m \in Seq(Nat),
         NEW L, L = Len(l.next)
  PROVE  Pushed(l, m, NewCell(l), Push(l, m))
<1> DEFINE p == NewCell(l)
           q == l.tail
           a == Alloc(l)
           t == Push(l, m)
<1>1. /\ l \in Heap /\ L \in Nat /\ Len(l.data) = L /\ l.next \in Seq(Nat)
      /\ l.data \in Seq(Seq(Nat)) /\ l.pool \in Seq(Nat) /\ l.size \in Nat
      /\ l.head \in Nat /\ l.tail \in Nat /\ Len(l.pool) \in Nat
      /\ q \in 1..L
  <2>1. l \in Heap /\ Len(l.data) = L
    BY DEF Layout, Sane
  <2>2. q \in 1..L
    BY DEF Layout, Chain
  <2> QED
    BY <2>1, <2>2 DEF Heap
<1>11. /\ L \in Nat /\ l.size \in Nat /\ l.head \in Nat /\ l.pool \in Seq(Nat) /\ q \in 1..L
  BY <1>1
<1>2. /\ Distinct(l.pool) /\ \A k \in 1..Len(l.pool) : l.pool[k] \in 1..L
      /\ \A k \in 1..Len(l.pool) : l.pool[k] # q
  BY DEF Layout, Apart
<1>3. t = [next |-> [a.next EXCEPT ![p] = 0, ![q] = p], data |-> [a.data EXCEPT ![q] = m],
           pool |-> a.pool, head |-> a.head, tail |-> p, size |-> a.size + 1]
  <2>1. t = [a EXCEPT !.next = [@ EXCEPT ![p] = 0, ![q] = p],
                      !.data[q] = m, !.tail = p, !.size = @ + 1]
    BY DEF Push, Null
  <2>2. DOMAIN a = {"next", "data", "pool", "head", "tail", "size"}
        /\ a = [next |-> a.next, data |-> a.data, pool |-> a.pool,
                 head |-> a.head, tail |-> a.tail, size |-> a.size]
    <3>1. CASE l.pool = <<>>
      <4>1. a = [l EXCEPT !.next = Append(@, Null), !.data = Append(@, NoData)]
        BY <3>1 DEF Alloc
      <4> QED
        BY <1>1, <4>1 DEF Heap
    <3>2. CASE l.pool # <<>>
      <4>1. a = [l EXCEPT !.pool = Front(@)]
        BY <3>2 DEF Alloc
      <4> QED
        BY <1>1, <4>1 DEF Heap
    <3> QED
      BY <3>1, <3>2
  <2> HIDE DEF a, p, q, t
  <2> QED
    BY <2>1, <2>2

<1> HIDE DEF t
<1>4. CASE l.pool = <<>>
  <2>1. a = [next |-> Append(l.next, 0), data |-> Append(l.data, <<>>), pool |-> l.pool,
             head |-> l.head, tail |-> l.tail, size |-> l.size]
    BY <1>1, <1>4 DEF Alloc, Heap, Null, NoData
  <2>2. p = L + 1
    BY <1>4 DEF NewCell
  <2> DEFINE n0 == Append(l.next, 0)
             d0 == Append(l.data, <<>>)
  <2>3. /\ n0 \in Seq(Nat) /\ Len(n0) = L + 1 /\ \A x \in 1..L : n0[x] = l.next[x]
        /\ d0 \in Seq(Seq(Nat)) /\ Len(d0) = L + 1 /\ \A x \in 1..L : d0[x] = l.data[x]
    <3>1. 0 \in Nat /\ <<>> \in Seq(Nat)
      OBVIOUS
    <3>2. n0 \in Seq(Nat) /\ Len(n0) = L + 1 /\ \A x \in 1..L : n0[x] = l.next[x]
      BY <1>1, <3>1, AppendProperties
    <3> DEFINE T == Seq(Nat)
    <3> HIDE DEF T
    <3>3. <<>> \in T /\ l.data \in Seq(T)
      BY <1>1, <3>1 DEF T
    <3>4. d0 \in Seq(T) /\ Len(d0) = L + 1 /\ \A x \in 1..L : d0[x] = l.data[x]
      <4>1. L \in Nat /\ Len(l.data) = L
        BY <1>1
      <4>2. /\ d0 \in Seq(T) /\ Len(d0) = Len(l.data) + 1
            /\ \A x \in 1..Len(l.data) : d0[x] = l.data[x]
        BY ONLY <3>3, AppendProperties
      <4> QED
        BY ONLY <4>1, <4>2
    <3> QED
      BY <3>2, <3>4 DEF T
  <2>4. a.next = n0 /\ a.data = d0 /\ a.pool = l.pool /\ a.head = l.head /\ a.size = l.size
    BY <2>1
  <2> HIDE DEF n0, d0, a, p, q
  <2>5. /\ t.next = [n0 EXCEPT ![p] = 0, ![q] = p] /\ t.data = [d0 EXCEPT ![q] = m]
        /\ t.pool = l.pool /\ t.head = l.head /\ t.tail = p /\ t.size = l.size + 1
    BY <1>3, <2>4
  <2>6. q \in 1..L /\ p # q /\ q \in 1..L + 1 /\ p \in 1..L + 1
    BY <1>1, <2>2
  <2>7. /\ t.next \in Seq(Nat) /\ Len(t.next) = L + 1 /\ t.next[p] = 0 /\ t.next[q] = p
        /\ \A x \in 1..L : x \notin {p, q} => t.next[x] = l.next[x]
    <3>1. 0 \in Nat /\ p \in Nat /\ p \in 1..Len(n0) /\ q \in 1..Len(n0) /\ n0 \in Seq(Nat)
          /\ Len(n0) = L + 1
      BY <1>1, <2>2, <2>3, <2>6
    <3>2. /\ t.next \in Seq(Nat) /\ Len(t.next) = Len(n0) /\ t.next[p] = 0 /\ t.next[q] = p
          /\ \A x \in 1..Len(n0) : x \notin {p, q} => t.next[x] = n0[x]
      <4>1. PICK tn : tn = t.next
        OBVIOUS
      <4>2. p # q /\ tn = [n0 EXCEPT ![p] = 0, ![q] = p]
        BY ONLY <2>5, <2>6, <4>1
      <4>3. /\ tn \in Seq(Nat) /\ Len(tn) = Len(n0) /\ tn[p] = 0 /\ tn[q] = p
            /\ \A x \in 1..Len(n0) : x \notin {p, q} => tn[x] = n0[x]
        <5>1. PICK u : u = [n0 EXCEPT ![p] = 0]
          OBVIOUS
        <5>2. u \in Seq(Nat) /\ Len(u) = Len(n0) /\ \A x \in 1..Len(n0) : u[x] = IF x = p THEN 0 ELSE n0[x]
          BY ONLY <3>1, <5>1, ExceptSeq
        <5>3. tn = [u EXCEPT ![q] = p]
          BY ONLY <4>2, <5>1
        <5>4. tn \in Seq(Nat) /\ Len(tn) = Len(u) /\ \A x \in 1..Len(u) : tn[x] = IF x = q THEN p ELSE u[x]
          BY ONLY <3>1, <5>2, <5>3, ExceptSeq
        <5> QED
          BY ONLY <3>1, <4>2, <5>2, <5>4
      <4> QED
        BY ONLY <4>1, <4>3
    <3>3. \A x \in 1..L : x \in 1..Len(n0)
      BY ONLY <1>11, <3>1
    <3>4. \A x \in 1..L : x \notin {p, q} => t.next[x] = l.next[x]
      BY ONLY <2>3, <3>2, <3>3
    <3> QED
      BY ONLY <3>1, <3>2, <3>4
  <2>8. /\ t.data \in Seq(Seq(Nat)) /\ Len(t.data) = L + 1 /\ t.data[q] = m
        /\ \A x \in 1..L : x # q => t.data[x] = l.data[x]
    <3> DEFINE T == Seq(Nat)
    <3> HIDE DEF T
    <3>1. d0 \in Seq(T) /\ m \in T /\ q \in 1..Len(d0) /\ Len(d0) = L + 1
      BY <1>1, <2>3, <2>6 DEF T
    <3>2. /\ t.data \in Seq(T) /\ Len(t.data) = Len(d0)
          /\ \A x \in 1..Len(d0) : t.data[x] = IF x = q THEN m ELSE d0[x]
      BY <2>5, <3>1, ExceptSeq
    <3>3. t.data[q] = m
      BY ONLY <3>1, <3>2
    <3>4. \A x \in 1..L : x # q => t.data[x] = l.data[x]
      <4> TAKE x \in 1..L
      <4>1. x \in 1..L + 1 /\ L \in Nat
        BY ONLY <1>1, x \in 1..L
      <4>2. d0[x] = l.data[x]
        BY ONLY <2>3, x \in 1..L
      <4> QED
        BY ONLY <3>1, <3>2, <4>1, <4>2
    <3> QED
      BY ONLY <3>1, <3>2, <3>3, <3>4 DEF T
  <2>9. t \in Heap
    <3>1. p \in Nat /\ t.pool \in Seq(Nat) /\ t.head \in Nat /\ t.size \in Nat
      BY ONLY <1>11, <2>2, <2>5
    <3> QED
      BY <1>3, <2>5, <2>7, <2>8, <3>1 DEF Heap
  <2>10. Len(t.pool) = 0 /\ Len(l.pool) = 0
    BY <1>4, <2>5
  <2> QED
    <3>1. Len(t.next) \in {L, L + 1} /\ Len(t.data) = Len(t.next) /\ p \in 1..Len(t.next)
          /\ \A x \in 1..Len(t.next) : x # p => x \in 1..L
      BY ONLY <1>11, <2>2, <2>6, <2>7, <2>8
    <3>2. /\ t.next[p] = 0 /\ t.next[q] = p /\ t.data[q] = m
          /\ t.tail = p /\ t.head = l.head /\ t.size = l.size + 1
      BY ONLY <2>5, <2>7, <2>8
    <3>3. \A x : ~Has(l.pool, x)
      BY ONLY <2>10 DEF Has
    <3>4. Len(t.pool) <= Len(l.pool) /\ \A k \in 1..Len(t.pool) : FALSE
      BY ONLY <2>10
    <3>5. \A x \in 1..L : x # q => t.data[x] = l.data[x]
      BY ONLY <2>8
    <3>6. \A x \in 1..L : x \notin {p, q} => t.next[x] = l.next[x]
      BY ONLY <2>7
    <3> QED
      BY ONLY <2>2, <2>9, <3>1, <3>2, <3>3, <3>4, <3>5, <3>6, L = Len(l.next) DEF Pushed, p, q, t
<1>5. CASE l.pool # <<>>
  <2> DEFINE n == Len(l.pool)
             f == Front(l.pool)
  <2>1. a = [next |-> l.next, data |-> l.data, pool |-> f,
             head |-> l.head, tail |-> l.tail, size |-> l.size]
    BY <1>1, <1>5 DEF Alloc, Heap
  <2>2. p = l.pool[n] /\ n \in Nat \ {0}
    BY <1>1, <1>5 DEF NewCell, Last
  <2>3. /\ f \in Seq(Nat) /\ Len(f) = n - 1 /\ \A k \in 1..n - 1 : f[k] = l.pool[k]
    <3>1. n - 1 \in 0..n
      BY <2>2
    <3> QED
      BY <1>1, <3>1, SeqFacts DEF Front
  <2>4. a.next = l.next /\ a.data = l.data /\ a.pool = f /\ a.head = l.head /\ a.size = l.size
    BY <2>1
  <2> HIDE DEF f, a, p, q
  <2>5. /\ t.next = [l.next EXCEPT ![p] = 0, ![q] = p] /\ t.data = [l.data EXCEPT ![q] = m]
        /\ t.pool = f /\ t.head = l.head /\ t.tail = p /\ t.size = l.size + 1
    BY <1>3, <2>4
  <2>6. q \in 1..L /\ p # q /\ p \in 1..L
    BY <1>1, <1>2, <2>2
  <2>7. /\ t.next \in Seq(Nat) /\ Len(t.next) = L /\ t.next[p] = 0 /\ t.next[q] = p
        /\ \A x \in 1..L : x \notin {p, q} => t.next[x] = l.next[x]
    <3>1. 0 \in Nat /\ p \in Nat /\ p \in 1..Len(l.next) /\ q \in 1..Len(l.next) /\ l.next \in Seq(Nat)
          /\ Len(l.next) = L
      BY <1>1, <2>6
    <3>2. /\ t.next \in Seq(Nat) /\ Len(t.next) = Len(l.next) /\ t.next[p] = 0 /\ t.next[q] = p
          /\ \A x \in 1..Len(l.next) : x \notin {p, q} => t.next[x] = l.next[x]
      <4>1. PICK tn : tn = t.next
        OBVIOUS
      <4>2. PICK u : u = [l.next EXCEPT ![p] = 0]
        OBVIOUS
      <4>3. /\ u \in Seq(Nat) /\ Len(u) = Len(l.next)
            /\ \A x \in 1..Len(l.next) : u[x] = IF x = p THEN 0 ELSE l.next[x]
        BY ONLY <3>1, <4>2, ExceptSeq
      <4>4. p # q /\ tn = [u EXCEPT ![q] = p]
        BY ONLY <2>5, <2>6, <4>1, <4>2
      <4>5. tn \in Seq(Nat) /\ Len(tn) = Len(u) /\ \A x \in 1..Len(u) : tn[x] = IF x = q THEN p ELSE u[x]
        BY ONLY <3>1, <4>3, <4>4, ExceptSeq
      <4> QED
        BY ONLY <3>1, <4>1, <4>3, <4>4, <4>5
    <3> QED
      BY <1>1, <3>1, <3>2
  <2>8. /\ t.data \in Seq(Seq(Nat)) /\ Len(t.data) = L /\ t.data[q] = m
        /\ \A x \in 1..L : x # q => t.data[x] = l.data[x]
    <3> DEFINE T == Seq(Nat)
    <3> HIDE DEF T
    <3>1. l.data \in Seq(T) /\ m \in T /\ q \in 1..Len(l.data) /\ Len(l.data) = L
      BY <1>1, <2>6 DEF T
    <3>2. /\ t.data \in Seq(T) /\ Len(t.data) = Len(l.data)
          /\ \A x \in 1..Len(l.data) : t.data[x] = IF x = q THEN m ELSE l.data[x]
      BY <2>5, <3>1, ExceptSeq
    <3> QED
      BY <1>1, <3>1, <3>2 DEF T
  <2>9. t \in Heap
    <3>1. p \in Nat /\ t.pool \in Seq(Nat) /\ t.head \in Nat /\ t.size \in Nat
      BY ONLY <1>11, <2>3, <2>5, <2>6
    <3> QED
      BY <1>3, <2>5, <2>7, <2>8, <3>1 DEF Heap
  <2>10. /\ Len(t.pool) = n - 1 /\ \A k \in 1..n - 1 : t.pool[k] = l.pool[k]
         /\ \A k \in 1..n - 1 : t.pool[k] # p
    <3>1. \A k \in 1..n - 1 : k \in 1..n /\ k # n /\ n \in 1..n
      BY <2>2
    <3>2. t.pool = f /\ p = l.pool[n] /\ Len(f) = n - 1 /\ \A k \in 1..n - 1 : f[k] = l.pool[k]
      BY ONLY <2>2, <2>3, <2>5
    <3> QED
      BY ONLY <1>2, <3>1, <3>2 DEF Distinct
  <2>11. Has(l.pool, p)
    BY <2>2 DEF Has
  <2>12. \A x : Has(l.pool, x) => x = p \/ Has(t.pool, x)
    <3> SUFFICES ASSUME NEW x, Has(l.pool, x), x # p PROVE Has(t.pool, x)
      OBVIOUS
    <3>1. PICK k \in 1..n : l.pool[k] = x
      BY DEF Has
    <3>2. k # n /\ k \in 1..n - 1
      BY <2>2, <3>1
    <3> QED
      BY <2>10, <3>1, <3>2 DEF Has
  <2>13. Len(t.pool) <= Len(l.pool)
    BY <2>2, <2>10
  <2> QED
    <3>1. Len(t.next) \in {L, L + 1} /\ Len(t.data) = Len(t.next) /\ p \in 1..Len(t.next)
          /\ \A x \in 1..Len(t.next) : x # p => x \in 1..L
      BY ONLY <1>11, <2>6, <2>7, <2>8
    <3>2. /\ t.next[p] = 0 /\ t.next[q] = p /\ t.data[q] = m
          /\ t.tail = p /\ t.head = l.head /\ t.size = l.size + 1
      BY ONLY <2>5, <2>7, <2>8
    <3>4. /\ \A k \in 1..Len(t.pool) : t.pool[k] = l.pool[k] /\ t.pool[k] # p
      BY ONLY <2>10
    <3>5. \A x \in 1..L : x # q => t.data[x] = l.data[x]
      BY ONLY <2>8
    <3>6. \A x \in 1..L : x \notin {p, q} => t.next[x] = l.next[x]
      BY ONLY <2>7
    <3> QED
      BY ONLY <2>9, <2>11, <2>12, <2>13, <3>1, <3>2, <3>4, <3>5, <3>6, L = Len(l.next) DEF Pushed, p, q, t
<1> QED
  BY <1>4, <1>5

Longer(n, L, M, p, c, e, nx, tn) ==
  /\ n \in Nat /\ n >= 1 /\ L \in Nat /\ M \in Nat /\ L <= M /\ p \in 1..M
  /\ \A k \in 1..n : c[k] \in 1..L
  /\ \A i, j \in 1..n : i # j => c[i] # c[j]
  /\ \A k \in 1..n - 1 : nx[c[k]] = c[k + 1]
  /\ \A x \in 1..L : nx[x] \in 0..L
  /\ (\A k \in 1..n : e[k] = c[k]) /\ e[n + 1] = p
  /\ \A k \in 1..n : c[k] # p
  /\ tn[p] = 0 /\ tn[c[n]] = p
  /\ \A x \in 1..L : x # p /\ x # c[n] => tn[x] = nx[x]
  /\ \A x \in 1..M : x # p => x \in 1..L

LEMMA PushChain ==
  ASSUME NEW n, NEW L, NEW M, NEW p, NEW c, NEW e, NEW nx, NEW tn,
         Longer(n, L, M, p, c, e, nx, tn)
  PROVE  /\ \A x \in 1..M : tn[x] \in 0..M
         /\ \A i, j \in 1..n + 1 : i # j => e[i] # e[j]
         /\ \A k \in 1..n + 1 : e[k] \in 1..M
         /\ \A k \in 1..n : tn[e[k]] = e[k + 1]
         /\ \A k \in 1..n - 1 : c[k] # c[n]
<1>90. n \in Nat /\ n >= 1 /\ L \in Nat /\ M \in Nat /\ L <= M /\ p \in 1..M
  BY DEF Longer
<1>91. \A k \in 1..n : c[k] \in 1..L
  BY DEF Longer
<1>92. \A i, j \in 1..n : i # j => c[i] # c[j]
  BY DEF Longer
<1>93. \A k \in 1..n - 1 : nx[c[k]] = c[k + 1]
  BY DEF Longer
<1>94. \A x \in 1..L : nx[x] \in 0..L
  BY DEF Longer
<1>95. (\A k \in 1..n : e[k] = c[k]) /\ e[n + 1] = p
  BY DEF Longer
<1>96. \A k \in 1..n : c[k] # p
  BY DEF Longer
<1>97. tn[p] = 0 /\ tn[c[n]] = p
  BY DEF Longer
<1>98. \A x \in 1..L : x # p /\ x # c[n] => tn[x] = nx[x]
  BY DEF Longer
<1>99. \A x \in 1..M : x # p => x \in 1..L
  BY DEF Longer
<1> USE <1>90, <1>91, <1>92, <1>93, <1>94, <1>95, <1>96, <1>97, <1>98, <1>99
<1>1. ASSUME NEW x \in 1..M PROVE tn[x] \in 0..M
  <2>1. CASE x = p
    BY <2>1
  <2>2. CASE x = c[n]
    BY <2>2
  <2>3. CASE x # p /\ x # c[n]
    BY <2>3
  <2> QED
    BY <2>1, <2>2, <2>3
<1>2. ASSUME NEW i \in 1..n + 1, NEW j \in 1..n + 1, i # j PROVE e[i] # e[j]
  <2>1. (i \in 1..n \/ i = n + 1) /\ (j \in 1..n \/ j = n + 1)
    OBVIOUS
  <2> QED
    BY <1>2, <2>1
<1>3. ASSUME NEW k \in 1..n + 1 PROVE e[k] \in 1..M
  <2>1. k \in 1..n \/ k = n + 1
    OBVIOUS
  <2> QED
    BY <2>1
<1>4. ASSUME NEW k \in 1..n - 1 PROVE c[k] # c[n]
  OBVIOUS
<1>5. ASSUME NEW k \in 1..n PROVE tn[e[k]] = e[k + 1]
  <2>1. CASE k = n
    BY <2>1
  <2>2. CASE k # n
    <3>1. k \in 1..n - 1 /\ k + 1 \in 1..n
      BY <2>2
    <3>2. c[k] \in 1..L /\ c[k] # p /\ c[k] # c[n]
      BY <1>4, <3>1
    <3> QED
      BY <3>1, <3>2
  <2> QED
    BY <2>1, <2>2
<1> QED
  BY <1>1, <1>2, <1>3, <1>4, <1>5

PoolTaken(n, L, M, p, u, v, c, e, a, b) ==
  /\ n \in Nat /\ L \in Nat /\ M \in Nat /\ L <= M /\ u \in Nat /\ v \in Nat /\ v <= u
  /\ \A k \in 1..v : b[k] = a[k] /\ b[k] # p
  /\ \A i, j \in 1..u : i # j => a[i] # a[j]
  /\ \A k \in 1..u : a[k] \in 1..L
  /\ \A i \in 1..n, j \in 1..u : c[i] # a[j]
  /\ (\A k \in 1..n : e[k] = c[k]) /\ e[n + 1] = p

LEMMA PushPool ==
  ASSUME NEW n, NEW L, NEW M, NEW p, NEW u, NEW v, NEW c, NEW e, NEW a, NEW b,
         PoolTaken(n, L, M, p, u, v, c, e, a, b)
  PROVE  /\ \A i, j \in 1..v : i # j => b[i] # b[j]
         /\ \A k \in 1..v : b[k] \in 1..M
         /\ \A i \in 1..n + 1, j \in 1..v : e[i] # b[j]
<1>90. n \in Nat /\ L \in Nat /\ M \in Nat /\ L <= M /\ u \in Nat /\ v \in Nat /\ v <= u
  BY DEF PoolTaken
<1>91. \A k \in 1..v : b[k] = a[k] /\ b[k] # p
  BY DEF PoolTaken
<1>92. \A i, j \in 1..u : i # j => a[i] # a[j]
  BY DEF PoolTaken
<1>93. \A k \in 1..u : a[k] \in 1..L
  BY DEF PoolTaken
<1>94. \A i \in 1..n, j \in 1..u : c[i] # a[j]
  BY DEF PoolTaken
<1>95. (\A k \in 1..n : e[k] = c[k]) /\ e[n + 1] = p
  BY DEF PoolTaken
<1> USE <1>90, <1>91, <1>92, <1>93, <1>94, <1>95
<1>0. \A k \in 1..v : k \in 1..u
  OBVIOUS
<1>1. \A i, j \in 1..v : i # j => b[i] # b[j]
  BY <1>0
<1>2. \A k \in 1..v : b[k] \in 1..M
  <2> TAKE k \in 1..v
  <2>1. b[k] = a[k] /\ a[k] \in 1..L
    BY <1>0
  <2> QED
    BY <2>1
<1>3. ASSUME NEW i \in 1..n + 1, NEW j \in 1..v PROVE e[i] # b[j]
  <2>1. i \in 1..n \/ i = n + 1
    OBVIOUS
  <2> QED
    BY <1>0, <2>1
<1> QED
  BY <1>1, <1>2, <1>3

LEMMA PushIs ==
  ASSUME NEW l, NEW c, Layout(l, c, <<>>), NEW m \in Seq(Nat),
         NEW p, p = NewCell(l), NEW t, t = Push(l, m),
         NEW L, L = Len(l.next), NEW n, n = Len(c)
  PROVE  /\ Layout(t, Append(c, p), <<>>) /\ p \in Nat /\ t.tail = p /\ t.head = l.head
         /\ Len(l.next) <= Len(t.next) /\ t.data[c[Len(c)]] = m
         /\ \A k \in 1..Len(c) - 1 : t.data[c[k]] = l.data[c[k]]
<1> DEFINE e == Append(c, p)
<1>1. Pushed(l, m, p, t)
  BY PushEffect
<1>2. /\ c \in Seq(Nat) /\ n \in Nat /\ n >= 1 /\ L \in Nat /\ l.tail = c[n] /\ l.head = c[1]
      /\ l.size = n - 1
  BY DEF Layout, Sane, Chain, Heap
<1>21. \A k \in 1..n : c[k] \in 1..L
  BY DEF Layout, Chain
<1>22. \A i, j \in 1..n : i # j => c[i] # c[j]
  BY DEF Layout, Chain, Distinct
<1>23. \A k \in 1..n - 1 : l.next[c[k]] = c[k + 1]
  BY DEF Layout, Chain
<1>24. \A x \in 1..L : l.next[x] \in 0..L
  BY DEF Layout, Sane
<1>3. /\ Len(t.next) \in Nat /\ L <= Len(t.next) /\ p \in 1..Len(t.next) /\ p \in Nat
      /\ t.next \in Seq(Nat) /\ t.pool \in Seq(Nat) /\ Len(l.pool) \in Nat
      /\ Len(t.pool) \in Nat /\ Len(t.pool) <= Len(l.pool)
  <2>1. t \in Heap /\ l \in Heap /\ Len(t.next) \in {L, L + 1} /\ p \in 1..Len(t.next)
        /\ Len(t.pool) <= Len(l.pool)
    BY <1>1 DEF Pushed, Layout, Sane
  <2>2. t.next \in Seq(Nat) /\ t.pool \in Seq(Nat) /\ l.pool \in Seq(Nat)
    BY ONLY <2>1 DEF Heap
  <2>3. Len(t.pool) \in Nat /\ Len(l.pool) \in Nat
    BY ONLY <2>2, LenProperties
  <2>4. L \in Nat
    BY <1>2
  <2>5. Len(t.next) \in Nat /\ L <= Len(t.next)
    BY ONLY <2>1, <2>4
  <2>6. p \in Nat
    BY ONLY <2>1, <2>5
  <2> QED
    BY ONLY <2>1, <2>2, <2>3, <2>5, <2>6
<1>31. /\ Len(l.pool) \in Nat /\ Len(t.pool) \in Nat /\ Len(t.pool) <= Len(l.pool)
       /\ \A k \in 1..Len(t.pool) : t.pool[k] = l.pool[k] /\ t.pool[k] # p
  BY <1>1, <1>3 DEF Pushed
<1>32. /\ \A i, j \in 1..Len(l.pool) : i # j => l.pool[i] # l.pool[j]
       /\ \A k \in 1..Len(l.pool) : l.pool[k] \in 1..L
       /\ \A i \in 1..n, j \in 1..Len(l.pool) : c[i] # l.pool[j]
  BY DEF Layout, Apart, Distinct
<1>4. \A k \in 1..n : c[k] # p
  <2>1. p = L + 1 \/ Has(l.pool, p)
    BY <1>1 DEF Pushed
  <2>2. CASE p = L + 1
    <3>1. L + 1 \notin 1..L
      BY ONLY <1>2
    <3> QED
      BY ONLY <1>21, <2>2, <3>1
  <2>3. CASE Has(l.pool, p)
    BY ONLY <1>32, <2>3 DEF Has
  <2> QED
    BY ONLY <2>1, <2>2, <2>3
<1>5. e \in Seq(Nat) /\ Len(e) = n + 1 /\ e[n + 1] = p /\ \A k \in 1..n : e[k] = c[k]
  BY <1>2, <1>3, AppendProperties
<1> HIDE DEF e
<1>6. t.next[p] = 0 /\ t.next[c[n]] = p /\ t.data[c[n]] = m
  BY <1>1, <1>2 DEF Pushed
<1>61. \A x \in 1..L : x # p /\ x # c[n] => t.next[x] = l.next[x]
  BY <1>1, <1>2 DEF Pushed
<1>62. \A x \in 1..L : x # c[n] => t.data[x] = l.data[x]
  BY <1>1, <1>2 DEF Pushed
<1>63. \A x \in 1..Len(t.next) : x # p => x \in 1..L
  BY <1>1 DEF Pushed
<1>7. /\ \A x \in 1..Len(t.next) : t.next[x] \in 0..Len(t.next)
      /\ \A i, j \in 1..n + 1 : i # j => e[i] # e[j]
      /\ \A k \in 1..n + 1 : e[k] \in 1..Len(t.next)
      /\ \A k \in 1..n : t.next[e[k]] = e[k + 1]
      /\ \A k \in 1..n - 1 : c[k] # c[n]
  <2>1. Longer(n, L, Len(t.next), p, c, e, l.next, t.next)
    BY ONLY <1>2, <1>21, <1>22, <1>23, <1>24, <1>3, <1>4, <1>5, <1>6, <1>61, <1>63 DEF Longer
  <2> QED
    BY ONLY <2>1, PushChain
<1>8. /\ \A i, j \in 1..Len(t.pool) : i # j => t.pool[i] # t.pool[j]
      /\ \A k \in 1..Len(t.pool) : t.pool[k] \in 1..Len(t.next)
      /\ \A i \in 1..n + 1, j \in 1..Len(t.pool) : e[i] # t.pool[j]
  <2>1. PoolTaken(n, L, Len(t.next), p, Len(l.pool), Len(t.pool), c, e, l.pool, t.pool)
    BY ONLY <1>2, <1>3, <1>31, <1>32, <1>5 DEF PoolTaken
  <2> QED
    BY ONLY <2>1, PushPool
<1>9. Sane(t) /\ Chain(t, e)
  <2>1. t \in Heap /\ Len(t.data) = Len(t.next) /\ (n + 1) - 1 = n
    BY <1>1, <1>2 DEF Pushed
  <2> QED
    BY ONLY <1>5, <1>7, <2>1 DEF Sane, Chain, Distinct
<1>12. ASSUME NEW x \in 1..Len(t.next) PROVE Has(e, x) \/ Has(t.pool, x)
  <2>1. CASE x = p
    <3>1. n + 1 \in 1..Len(e)
      BY ONLY <1>2, <1>5
    <3> QED
      BY ONLY <1>5, <2>1, <3>1 DEF Has
  <2>2. CASE x # p
    <3>1. x \in 1..L
      BY <1>63, <2>2
    <3>2. Has(c, x) \/ Has(<<>>, x) \/ Has(l.pool, x)
      BY <3>1 DEF Layout
    <3>3. ~Has(<<>>, x)
      BY ONLY TRUE DEF Has
    <3>4. CASE Has(c, x)
      <4>1. PICK k \in 1..n : c[k] = x
        BY <3>4 DEF Has
      <4>2. k \in 1..Len(e) /\ e[k] = x
        BY <1>2, <1>5, <4>1
      <4> QED
        BY ONLY <4>2 DEF Has
    <3>5. CASE Has(l.pool, x)
      BY <1>1, <2>2, <3>1, <3>5 DEF Pushed
    <3> QED
      BY ONLY <3>2, <3>3, <3>4, <3>5
  <2> QED
    BY ONLY <2>1, <2>2
<1>13. t.head = e[1] /\ t.tail = e[Len(e)] /\ t.next[e[Len(e)]] = 0 /\ t.size = (Len(e) - 1) + 0
  <2>1. t.tail = p /\ t.head = l.head /\ t.size = l.size + 1
    BY <1>1 DEF Pushed
  <2>2. 1 \in 1..n
    BY ONLY <1>2
  <2> QED
    BY ONLY <1>2, <1>5, <1>6, <2>1, <2>2
<1>14. Layout(t, e, <<>>)
  <2>1. <<>> \in Seq(Nat) /\ Len(<<>>) = 0 /\ Distinct(<<>>) /\ Apart(e, <<>>) /\ Apart(<<>>, t.pool)
        /\ \A k \in 1..0 : <<>>[k] \in 1..Len(t.next)
    BY ONLY TRUE DEF Distinct, Apart
  <2>2. Len(e) >= 1 /\ Distinct(t.pool) /\ Apart(e, t.pool)
    BY ONLY <1>2, <1>5, <1>8 DEF Distinct, Apart
  <2> QED
    BY ONLY <1>8, <1>9, <1>12, <1>13, <2>1, <2>2 DEF Layout
<1>15. \A k \in 1..n - 1 : t.data[c[k]] = l.data[c[k]]
  <2> TAKE k \in 1..n - 1
  <2>1. k \in 1..n
    BY <1>2
  <2> QED
    BY ONLY <1>21, <1>62, <1>7, <2>1, k \in 1..n - 1
<1>16. t.tail = p /\ t.head = l.head
  BY <1>1 DEF Pushed
<1> QED
  BY <1>3, <1>6, <1>14, <1>15, <1>16 DEF e

PushArgs(l, c, m, p, t) ==
  Layout(l, c, <<>>) /\ m \in Seq(Nat) /\ p = NewCell(l) /\ t = Push(l, m)

LEMMA PushResult ==
  ASSUME NEW l, NEW c, NEW m, NEW p, NEW t, PushArgs(l, c, m, p, t)
  PROVE  /\ Layout(t, Append(c, p), <<>>) /\ p \in Nat /\ t.tail = p /\ t.head = l.head
         /\ Len(l.next) <= Len(t.next) /\ t.data[c[Len(c)]] = m
         /\ \A k \in 1..Len(c) - 1 : t.data[c[k]] = l.data[c[k]]
<1>1. Layout(l, c, <<>>) /\ m \in Seq(Nat) /\ p = NewCell(l) /\ t = Push(l, m)
  BY DEF PushArgs
<1>2. PICK L : L = Len(l.next)
  OBVIOUS
<1>3. PICK n : n = Len(c)
  OBVIOUS
<1> QED
  BY <1>1, <1>2, <1>3, PushIs

LEMMA EmptyLayout == Layout(EmptyList, <<1>>, <<>>)
<1> DEFINE l == EmptyList
<1>1. /\ l.next = <<0>> /\ l.data = << <<>> >> /\ l.pool = <<>> /\ l.head = 1 /\ l.tail = 1 /\ l.size = 0
  BY DEF EmptyList, Null, NoData
<1>2. l \in Heap
  BY DEF EmptyList, Null, NoData, Heap
<1> HIDE DEF l
<1>3. Len(l.next) = 1 /\ Len(l.data) = 1 /\ l.next[1] = 0
  BY <1>1
<1>4. Sane(l)
  BY <1>2, <1>3 DEF Sane
<1> DEFINE c == <<1>>
<1>5. c \in Seq(Nat) /\ Len(c) = 1 /\ c[1] = 1
  OBVIOUS
<1> HIDE DEF c
<1>6. Chain(l, c)
  BY <1>3, <1>5 DEF Chain, Distinct
<1>7. Distinct(<<>>) /\ Apart(c, <<>>) /\ Apart(<<>>, <<>>) /\ <<>> \in Seq(Nat) /\ Len(<<>>) = 0
  BY DEF Distinct, Apart
<1>8. \A x \in 1..Len(l.next) : Has(c, x)
  BY <1>3, <1>5 DEF Has
<1>9. l.head = c[1] /\ l.tail = c[Len(c)] /\ l.next[c[Len(c)]] = 0 /\ Len(c) >= 1
      /\ l.size = (Len(c) - 1) + Len(<<>>)
  BY <1>1, <1>3, <1>5, <1>7
<1>10. /\ \A k \in 1..Len(<<>>) : <<>>[k] \in 1..Len(l.next)
  BY <1>7
<1> QED
  BY <1>1, <1>4, <1>6, <1>7, <1>8, <1>9, <1>10 DEF Layout, l, c

Pushes(f, l, ms, size) ==
  f = [k \in 0..size |-> IF k = 0 THEN l ELSE Push(f[k - 1], ms[k])]

LEMMA PushesExist ==
  ASSUME NEW l, NEW ms, NEW size \in Nat
  PROVE  \E f : Pushes(f, l, ms, size)
<1> DEFINE Good(m) == \E f : f = [k \in 0..m |-> IF k = 0 THEN l ELSE Push(f[k - 1], ms[k])]
           Lacking == {m \in Nat : ~Good(m)}
<1>1. Good(0)
  <2> DEFINE z == [k \in 0..0 |-> l]
  <2>1. z = [k \in 0..0 |-> IF k = 0 THEN l ELSE Push(z[k - 1], ms[k])]
    OBVIOUS
  <2> QED
    BY <2>1
<1>2. ASSUME NEW m \in Nat, Good(m) PROVE Good(m + 1)
  <2>1. PICK f : f = [k \in 0..m |-> IF k = 0 THEN l ELSE Push(f[k - 1], ms[k])]
    BY <1>2
  <2> DEFINE top == Push(f[m], ms[m + 1])
             h == [k \in 0..m + 1 |-> IF k = m + 1 THEN top ELSE f[k]]
  <2>2. DOMAIN f = 0..m /\ \A k \in 0..m : f[k] = IF k = 0 THEN l ELSE Push(f[k - 1], ms[k])
    BY <2>1
  <2>3. ASSUME NEW k \in 0..m + 1
        PROVE  h[k] = IF k = 0 THEN l ELSE Push(h[k - 1], ms[k])
    <3>1. CASE k = m + 1
      <4>1. h[k] = top /\ k # 0
        BY <3>1
      <4>2. h[k - 1] = f[m]
        BY <3>1
      <4> QED
        BY <3>1, <4>1, <4>2
    <3>2. CASE k # m + 1
      <4>1. k \in 0..m /\ h[k] = f[k]
        BY <3>2
      <4>2. k # 0 => h[k - 1] = f[k - 1]
        BY <3>2
      <4> QED
        BY <2>2, <4>1, <4>2
    <3> QED
      BY <3>1, <3>2
  <2> HIDE DEF top
  <2>4. h = [k \in 0..m + 1 |-> h[k]]
    OBVIOUS
  <2> HIDE DEF h
  <2>5. h = [k \in 0..m + 1 |-> IF k = 0 THEN l ELSE Push(h[k - 1], ms[k])]
    BY <2>3, <2>4
  <2> QED
    BY <2>5
<1> HIDE DEF Good
<1>4. Lacking = {}
  <2> SUFFICES ASSUME Lacking # {} PROVE FALSE
    OBVIOUS
  <2>1. PICK m \in Lacking : \A k \in Lacking : m <= k
    BY SmallestOf, Lacking \in SUBSET Nat
  <2>2. m # 0 /\ m \in Nat /\ ~Good(m)
    BY <1>1
  <2>3. m - 1 \in Nat /\ m - 1 \notin Lacking
    BY <2>1, <2>2
  <2> QED
    BY <1>2, <2>2, <2>3
<1> QED
  BY <1>4 DEF Good, Pushes

\* The list of the cells c has the messages ms.
Holding(l, c, ms) ==
  /\ Layout(l, c, <<>>) /\ Len(c) = Len(ms) + 1
  /\ \A k \in 1..Len(ms) : l.data[c[k]] = ms[k]

LEMMA PushAllIs ==
  ASSUME NEW ms \in Seq(Seq(Nat)), NEW l, l = PushAll(EmptyList, ms)
  PROVE  \E c : Holding(l, c, ms)
<1> DEFINE f == CHOOSE g : g = [k \in 0..Len(ms) |-> IF k = 0 THEN EmptyList ELSE Push(g[k - 1], ms[k])]
<1>0. Len(ms) \in Nat
  OBVIOUS
<1>1. l = f[Len(ms)]
  BY DEF PushAll
<1>2. Pushes(f, EmptyList, ms, Len(ms))
  <2>1. \E g : Pushes(g, EmptyList, ms, Len(ms))
    BY ONLY <1>0, PushesExist
  <2> QED
    BY ONLY <2>1 DEF Pushes
<1> HIDE DEF f
<1>3. \A k \in 0..Len(ms) : f[k] = IF k = 0 THEN EmptyList ELSE Push(f[k - 1], ms[k])
  BY ONLY <1>2 DEF Pushes
<1> DEFINE Holds(k, c) == /\ Layout(f[k], c, <<>>) /\ Len(c) = k + 1
                          /\ \A i \in 1..k : f[k].data[c[i]] = ms[i]
           Good(k) == \E c : Holds(k, c)
           Lacking == {k \in 0..Len(ms) : ~Good(k)}
<1>4. Good(0)
  <2>1. f[0] = EmptyList
    BY <1>0, <1>3
  <2>2. Len(<<1>>) = 0 + 1 /\ \A i \in 1..0 : FALSE
    OBVIOUS
  <2>3. Holds(0, <<1>>)
    BY <2>1, <2>2, EmptyLayout
  <2> QED
    BY <2>3
<1>5. ASSUME NEW k \in 1..Len(ms), Good(k - 1) PROVE Good(k)
  <2>1. PICK c : Holds(k - 1, c)
    BY <1>5
  <2>2. PICK p : p = NewCell(f[k - 1])
    OBVIOUS
  <2>3. /\ k \in 0..Len(ms) /\ k # 0 /\ k \in Nat /\ k >= 1 /\ ms[k] \in Seq(Nat)
    BY <1>0
  <2>4. f[k] = Push(f[k - 1], ms[k])
    BY ONLY <1>3, <2>3
  <2>5. PushArgs(f[k - 1], c, ms[k], p, f[k])
    BY ONLY <2>1, <2>2, <2>3, <2>4 DEF PushArgs
  <2> DEFINE e == Append(c, p)
  <2>6. /\ Layout(f[k], e, <<>>) /\ p \in Nat /\ f[k].data[c[Len(c)]] = ms[k]
        /\ \A i \in 1..Len(c) - 1 : f[k].data[c[i]] = f[k - 1].data[c[i]]
    <3>1. PICK l0, t0, m0 : l0 = f[k - 1] /\ t0 = f[k] /\ m0 = ms[k]
      OBVIOUS
    <3>2. PushArgs(l0, c, m0, p, t0)
      BY ONLY <2>5, <3>1
    <3>3. /\ Layout(t0, Append(c, p), <<>>) /\ p \in Nat /\ t0.data[c[Len(c)]] = m0
          /\ \A i \in 1..Len(c) - 1 : t0.data[c[i]] = l0.data[c[i]]
      BY ONLY <3>2, PushResult
    <3> QED
      BY ONLY <3>1, <3>3
  <2>7. Len(c) = k /\ c \in Seq(Nat) /\ \A i \in 1..k - 1 : f[k - 1].data[c[i]] = ms[i]
    <3>1. Len(c) = (k - 1) + 1 /\ \A i \in 1..k - 1 : f[k - 1].data[c[i]] = ms[i]
      BY ONLY <2>1
    <3>2. c \in Seq(Nat)
      BY ONLY <2>1 DEF Layout, Chain
    <3> QED
      BY ONLY <2>3, <3>1, <3>2
  <2>8. Len(e) = k + 1 /\ \A i \in 1..k : e[i] = c[i]
    BY ONLY <2>6, <2>7, AppendProperties
  <2> HIDE DEF e
  <2>9. ASSUME NEW i \in 1..k PROVE f[k].data[e[i]] = ms[i]
    <3>0. e[i] = c[i]
      BY ONLY <2>8, i \in 1..k
    <3>1. CASE i = k
      BY ONLY <2>6, <2>7, <3>0, <3>1
    <3>2. CASE i # k
      <4>1. i \in 1..k - 1
        BY ONLY <2>3, <3>2, i \in 1..k
      <4> QED
        BY ONLY <2>6, <2>7, <3>0, <4>1
    <3> QED
      BY ONLY <3>1, <3>2
  <2>10. Holds(k, e)
    BY ONLY <2>6, <2>8, <2>9
  <2> QED
    BY ONLY <2>10
<1> HIDE DEF Good
<1>6. Lacking = {}
  <2> SUFFICES ASSUME Lacking # {} PROVE FALSE
    OBVIOUS
  <2>1. Lacking \in SUBSET Nat
    BY <1>0
  <2>2. PICK m \in Lacking : \A k \in Lacking : m <= k
    BY <2>1, SmallestOf
  <2>3. m # 0 /\ m \in 0..Len(ms) /\ ~Good(m)
    BY <1>4
  <2>4. m \in 1..Len(ms) /\ m - 1 \in 0..Len(ms) /\ ~(m <= m - 1)
    BY <1>0, <2>3
  <2>5. Good(m - 1)
    BY <2>2, <2>4
  <2> QED
    BY <1>5, <2>3, <2>4, <2>5
<1>7. Good(Len(ms))
  BY <1>0, <1>6
<1> QED
  BY <1>1, <1>7 DEF Good, Holding

-----------------------------------------------------------------------------
(* Splicing the list *)

\* The cells c[k + 1]..c[n - 1] are moved to the place of c[i + 1]..c[j]: where
\* the q-th cell of the list comes from.
From(q, n, i, j, k) ==
  IF q <= i THEN q
  ELSE IF q <= i + ((n - 1) - k) THEN (q - i) + k
  ELSE IF q < n - (j - i) THEN ((q - i) - ((n - 1) - k)) + j
  ELSE n

Spliced(c, n, i, j, k) == [q \in 1..n - (j - i) |-> c[From(q, n, i, j, k)]]
Cutout(c, i, j) == [q \in 1..j - i |-> c[i + q]]

Places(n, i, j, k) ==
  /\ n \in Nat /\ i \in Nat /\ j \in Nat /\ k \in Nat
  /\ i < j /\ j <= k /\ k < n - 1

LEMMA FromPlaces ==
  ASSUME NEW n, NEW i, NEW j, NEW k, Places(n, i, j, k)
  PROVE  /\ \A q \in 1..n - (j - i) : From(q, n, i, j, k) \in (1..n) \ (i + 1..j)
         /\ \A q, r \in 1..n - (j - i) : q # r => From(q, n, i, j, k) # From(r, n, i, j, k)
         /\ \A x \in (1..n) \ (i + 1..j) : \E q \in 1..n - (j - i) : From(q, n, i, j, k) = x
         /\ From(n - (j - i), n, i, j, k) = n
         /\ From(1, n, i, j, k) = IF i = 0 THEN k + 1 ELSE 1
         /\ \A q \in 1..(n - (j - i)) - 1 :
              LET x == From(q, n, i, j, k)
                  y == From(q + 1, n, i, j, k)
              IN  /\ x # n
                  /\ y = IF x = i THEN k + 1
                         ELSE IF x = n - 1 THEN (IF j = k THEN n ELSE j + 1)
                         ELSE IF x = k THEN n ELSE x + 1
<1>1. /\ n \in Nat /\ i \in Nat /\ j \in Nat /\ k \in Nat
      /\ i < j /\ j <= k /\ k < n - 1
  BY DEF Places
<1>2. ASSUME NEW q \in 1..n - (j - i) PROVE From(q, n, i, j, k) \in (1..n) \ (i + 1..j)
  BY ONLY <1>1, <1>2 DEF From
<1>3. ASSUME NEW q \in 1..n - (j - i), NEW r \in 1..n - (j - i), q # r
      PROVE  From(q, n, i, j, k) # From(r, n, i, j, k)
  BY ONLY <1>1, <1>3 DEF From
<1>4. ASSUME NEW x \in (1..n) \ (i + 1..j)
      PROVE  \E q \in 1..n - (j - i) : From(q, n, i, j, k) = x
  <2>1. CASE x <= i
    <3>1. x \in 1..n - (j - i) /\ From(x, n, i, j, k) = x
      BY ONLY <1>1, <1>4, <2>1 DEF From
    <3> QED
      BY ONLY <3>1
  <2>2. CASE x > j /\ x <= k
    <3> DEFINE q == ((x - j) + i) + ((n - 1) - k)
    <3>1. q \in 1..n - (j - i) /\ From(q, n, i, j, k) = x
      BY ONLY <1>1, <1>4, <2>2 DEF From
    <3> QED
      BY ONLY <3>1
  <2>3. CASE x > k /\ x < n
    <3> DEFINE q == (x - k) + i
    <3>1. q \in 1..n - (j - i) /\ From(q, n, i, j, k) = x
      BY ONLY <1>1, <1>4, <2>3 DEF From
    <3> QED
      BY ONLY <3>1
  <2>4. CASE x = n
    <3> DEFINE q == n - (j - i)
    <3>1. q \in 1..n - (j - i) /\ From(q, n, i, j, k) = x
      BY ONLY <1>1, <1>4, <2>4 DEF From
    <3> QED
      BY ONLY <3>1
  <2>5. x \in 1..n /\ ~(x \in i + 1..j)
    BY ONLY <1>4
  <2> QED
    BY ONLY <1>1, <2>1, <2>2, <2>3, <2>4, <2>5
<1>5. From(n - (j - i), n, i, j, k) = n
  BY ONLY <1>1 DEF From
<1>6. From(1, n, i, j, k) = IF i = 0 THEN k + 1 ELSE 1
  BY ONLY <1>1 DEF From
<1>7. ASSUME NEW q \in 1..(n - (j - i)) - 1
      PROVE  LET x == From(q, n, i, j, k)
                 y == From(q + 1, n, i, j, k)
             IN  /\ x # n
                 /\ y = IF x = i THEN k + 1
                        ELSE IF x = n - 1 THEN (IF j = k THEN n ELSE j + 1)
                        ELSE IF x = k THEN n ELSE x + 1
  BY ONLY <1>1, <1>7 DEF From
<1> QED
  BY ONLY <1>2, <1>3, <1>4, <1>5, <1>6, <1>7

\* What Relinked does to the pointers of the cells c.
Rewired(c, n, i, j, k, L, nx, tn) ==
  /\ Places(n, i, j, k) /\ L \in Nat
  /\ \A q \in 1..n : c[q] \in 1..L
  /\ \A q, r \in 1..n : q # r => c[q] # c[r]
  /\ \A q \in 1..n - 1 : nx[c[q]] = c[q + 1]
  /\ nx[c[n]] = 0
  /\ \A x \in 1..L : nx[x] \in 0..L
  /\ i > 0 => tn[c[i]] = c[k + 1]
  /\ tn[c[n - 1]] = (IF j = k THEN c[n] ELSE c[j + 1])
  /\ tn[c[k]] = c[n]
  /\ \A x \in 1..L : (i > 0 => x # c[i]) /\ x # c[n - 1] /\ x # c[k] => tn[x] = nx[x]

SplicedArgs(c, n, i, j, k, L, nx, tn, e, d, m) ==
  /\ Rewired(c, n, i, j, k, L, nx, tn)
  /\ e = Spliced(c, n, i, j, k) /\ d = Cutout(c, i, j) /\ m = n - (j - i)

LEMMA SplicedIs ==
  ASSUME NEW c, NEW n, NEW i, NEW j, NEW k, NEW L, NEW nx, NEW tn, NEW e, NEW d, NEW m,
         SplicedArgs(c, n, i, j, k, L, nx, tn, e, d, m)
  PROVE  /\ m \in Nat /\ m >= 2 /\ e[m] = c[n] /\ tn[c[n]] = 0
         /\ e[1] = IF i = 0 THEN c[k + 1] ELSE c[1]
         /\ \A q \in 1..m : e[q] \in 1..L
         /\ \A q, r \in 1..m : q # r => e[q] # e[r]
         /\ \A q \in 1..m - 1 : tn[e[q]] = e[q + 1]
         /\ \A q \in 1..j - i : d[q] \in 1..L
         /\ \A q, r \in 1..j - i : q # r => d[q] # d[r]
         /\ \A q \in 1..(j - i) - 1 : tn[d[q]] = d[q + 1]
         /\ tn[d[j - i]] = IF j = k THEN c[n] ELSE c[j + 1]
         /\ \A q \in 1..m, r \in 1..j - i : e[q] # d[r]
         /\ \A x \in 1..n : (\E q \in 1..m : e[q] = c[x]) \/ (\E r \in 1..j - i : d[r] = c[x])
         /\ \A x \in 1..L : tn[x] \in 0..L
<1>40. Rewired(c, n, i, j, k, L, nx, tn)
  BY DEF SplicedArgs
<1>41. e = Spliced(c, n, i, j, k) /\ d = Cutout(c, i, j) /\ m = n - (j - i)
  BY DEF SplicedArgs
<1>0. Places(n, i, j, k)
  BY <1>40 DEF Rewired
<1>1. /\ n \in Nat /\ i \in Nat /\ j \in Nat /\ k \in Nat
      /\ i < j /\ j <= k /\ k < n - 1
  BY <1>0 DEF Places
<1>2. L \in Nat /\ \A q \in 1..n : c[q] \in 1..L
  BY <1>40 DEF Rewired
<1>3. \A q, r \in 1..n : q # r => c[q] # c[r]
  BY <1>40 DEF Rewired
<1>4. \A q \in 1..n - 1 : nx[c[q]] = c[q + 1]
  BY <1>40 DEF Rewired
<1>5. \A x \in 1..L : nx[x] \in 0..L
  BY <1>40 DEF Rewired
<1>6. i > 0 => tn[c[i]] = c[k + 1]
  BY <1>40 DEF Rewired
<1>7. tn[c[n - 1]] = (IF j = k THEN c[n] ELSE c[j + 1]) /\ tn[c[k]] = c[n] /\ nx[c[n]] = 0
  BY <1>40 DEF Rewired
<1>8. \A x \in 1..L : (i > 0 => x # c[i]) /\ x # c[n - 1] /\ x # c[k] => tn[x] = nx[x]
  BY <1>40 DEF Rewired
\* Where the pointers of the cells go, by their places in the old list.
<1>9. \A x \in 1..n : x # i /\ x # n - 1 /\ x # k => tn[c[x]] = nx[c[x]]
  <2> SUFFICES ASSUME NEW x \in 1..n, x # i, x # n - 1, x # k PROVE tn[c[x]] = nx[c[x]]
    OBVIOUS
  <2>1. n - 1 \in 1..n /\ k \in 1..n /\ (i > 0 => i \in 1..n)
    BY ONLY <1>1
  <2>2. c[x] # c[n - 1] /\ c[x] # c[k] /\ (i > 0 => c[x] # c[i]) /\ c[x] \in 1..L
    BY ONLY <1>2, <1>3, <2>1, x \in 1..n, x # i, x # n - 1, x # k
  <2> QED
    BY ONLY <1>8, <2>2
<1>10. \A x \in 1..n - 1 : tn[c[x]] = IF x = i THEN c[k + 1]
                                      ELSE IF x = n - 1 THEN (IF j = k THEN c[n] ELSE c[j + 1])
                                      ELSE IF x = k THEN c[n] ELSE c[x + 1]
  <2> TAKE x \in 1..n - 1
  <2>1. x \in 1..n /\ i # n - 1 /\ (x = i => i > 0) /\ k # n - 1
    BY ONLY <1>1, x \in 1..n - 1
  <2> QED
    BY ONLY <1>4, <1>6, <1>7, <1>9, <2>1, x \in 1..n - 1
<1>11. /\ \A q \in 1..m : From(q, n, i, j, k) \in (1..n) \ (i + 1..j)
       /\ \A q, r \in 1..m : q # r => From(q, n, i, j, k) # From(r, n, i, j, k)
       /\ \A x \in (1..n) \ (i + 1..j) : \E q \in 1..m : From(q, n, i, j, k) = x
  BY <1>0, <1>41, FromPlaces
<1>12. From(m, n, i, j, k) = n /\ From(1, n, i, j, k) = IF i = 0 THEN k + 1 ELSE 1
  BY <1>0, <1>41, FromPlaces
<1>13. \A q \in 1..m - 1 :
         /\ From(q, n, i, j, k) # n
         /\ From(q + 1, n, i, j, k)
              = IF From(q, n, i, j, k) = i THEN k + 1
                ELSE IF From(q, n, i, j, k) = n - 1 THEN (IF j = k THEN n ELSE j + 1)
                ELSE IF From(q, n, i, j, k) = k THEN n ELSE From(q, n, i, j, k) + 1
  BY <1>0, <1>41, FromPlaces
<1>14. m \in Nat /\ m >= 2 /\ 1 \in 1..m /\ m \in 1..m
  BY ONLY <1>1, <1>41
<1>15. \A q \in 1..m : e[q] = c[From(q, n, i, j, k)]
  BY ONLY <1>41 DEF Spliced
<1>16. \A q \in 1..j - i : d[q] = c[i + q]
  BY ONLY <1>41 DEF Cutout
<1>17. \A q \in 1..j - i : i + q \in 1..n /\ i + q \in i + 1..j /\ i + q # i /\ i + q # n - 1
  BY ONLY <1>1
<1>18. e[m] = c[n] /\ e[1] = IF i = 0 THEN c[k + 1] ELSE c[1]
  BY ONLY <1>12, <1>14, <1>15
<1>19. tn[c[n]] = 0
  <2>1. n \in 1..n /\ n # i /\ n # n - 1 /\ n # k
    BY ONLY <1>1
  <2> QED
    BY ONLY <1>7, <1>9, <2>1
<1>20. \A q \in 1..m : e[q] \in 1..L
  BY ONLY <1>2, <1>11, <1>15
<1>21. \A q, r \in 1..m : q # r => e[q] # e[r]
  BY ONLY <1>3, <1>11, <1>15
<1>22. ASSUME NEW q \in 1..m - 1 PROVE tn[e[q]] = e[q + 1]
  <2>1. q \in 1..m /\ q + 1 \in 1..m
    BY ONLY <1>14, q \in 1..m - 1
  <2>2. PICK x : x = From(q, n, i, j, k)
    OBVIOUS
  <2>3. x \in 1..n /\ x # n
    BY ONLY <1>11, <1>13, <2>1, <2>2, q \in 1..m - 1
  <2>4. x \in 1..n - 1
    BY ONLY <1>1, <2>3
  <2>5. e[q] = c[x]
    BY ONLY <1>15, <2>1, <2>2
  <2>6. e[q + 1] = c[From(q + 1, n, i, j, k)]
    BY ONLY <1>15, <2>1
  <2>7. From(q + 1, n, i, j, k)
          = IF x = i THEN k + 1
            ELSE IF x = n - 1 THEN (IF j = k THEN n ELSE j + 1)
            ELSE IF x = k THEN n ELSE x + 1
    BY ONLY <1>13, <2>2, q \in 1..m - 1
  <2>8. tn[c[x]] = IF x = i THEN c[k + 1]
                   ELSE IF x = n - 1 THEN (IF j = k THEN c[n] ELSE c[j + 1])
                   ELSE IF x = k THEN c[n] ELSE c[x + 1]
    BY ONLY <1>10, <2>4
  <2> QED
    BY ONLY <2>5, <2>6, <2>7, <2>8
<1>23. \A q \in 1..j - i : d[q] \in 1..L
  BY ONLY <1>2, <1>16, <1>17
<1>24. \A q, r \in 1..j - i : q # r => d[q] # d[r]
  <2> SUFFICES ASSUME NEW q \in 1..j - i, NEW r \in 1..j - i, q # r PROVE d[q] # d[r]
    OBVIOUS
  <2>1. i + q # i + r
    BY ONLY <1>1, q \in 1..j - i, r \in 1..j - i, q # r
  <2> QED
    BY ONLY <1>3, <1>16, <1>17, <2>1, q \in 1..j - i, r \in 1..j - i
<1>25. ASSUME NEW q \in 1..(j - i) - 1 PROVE tn[d[q]] = d[q + 1]
  <2>1. /\ q \in 1..j - i /\ q + 1 \in 1..j - i /\ i + q \in 1..n - 1 /\ i + q # i
        /\ i + q # n - 1 /\ i + q # k /\ (i + q) + 1 = i + (q + 1)
    BY ONLY <1>1, q \in 1..(j - i) - 1
  <2> QED
    BY ONLY <1>10, <1>16, <2>1
<1>26. tn[d[j - i]] = IF j = k THEN c[n] ELSE c[j + 1]
  <2>1. j - i \in 1..j - i /\ i + (j - i) = j /\ j \in 1..n - 1 /\ j # i /\ j # n - 1
    BY ONLY <1>1
  <2>2. d[j - i] = c[j]
    BY ONLY <1>16, <2>1
  <2> QED
    BY ONLY <1>10, <2>1, <2>2
<1>27. \A q \in 1..m, r \in 1..j - i : e[q] # d[r]
  <2> SUFFICES ASSUME NEW q \in 1..m, NEW r \in 1..j - i PROVE e[q] # d[r]
    OBVIOUS
  <2>1. From(q, n, i, j, k) \in 1..n /\ From(q, n, i, j, k) # i + r
    BY ONLY <1>11, <1>17, q \in 1..m, r \in 1..j - i
  <2> QED
    BY ONLY <1>3, <1>15, <1>16, <1>17, <2>1, q \in 1..m, r \in 1..j - i
<1>28. \A x \in 1..n : (\E q \in 1..m : e[q] = c[x]) \/ (\E r \in 1..j - i : d[r] = c[x])
  <2> TAKE x \in 1..n
  <2>1. CASE x \in i + 1..j
    <3>1. x - i \in 1..j - i /\ i + (x - i) = x
      BY ONLY <1>1, <2>1
    <3>2. d[x - i] = c[x]
      BY ONLY <1>16, <3>1
    <3> QED
      BY ONLY <3>1, <3>2
  <2>2. CASE x \notin i + 1..j
    <3>1. PICK q \in 1..m : From(q, n, i, j, k) = x
      BY ONLY <1>11, <2>2, x \in 1..n
    <3>2. e[q] = c[x]
      BY ONLY <1>15, <3>1
    <3> QED
      BY ONLY <3>1, <3>2
  <2> QED
    BY ONLY <2>1, <2>2
<1>29. ASSUME NEW x \in 1..L PROVE tn[x] \in 0..L
  <2>1. /\ k + 1 \in 1..n /\ n \in 1..n /\ j + 1 \in 1..n
    BY ONLY <1>1
  <2>2. c[k + 1] \in 0..L /\ c[n] \in 0..L /\ c[j + 1] \in 0..L
    <3>1. \A y \in 1..L : y \in 0..L
      BY ONLY <1>2
    <3> QED
      BY ONLY <1>2, <2>1, <3>1
  <2> QED
    BY ONLY <1>5, <1>6, <1>7, <1>8, <2>2, x \in 1..L
<1> QED
  BY ONLY <1>14, <1>18, <1>19, <1>20, <1>21, <1>22, <1>23, <1>24, <1>25, <1>26, <1>27, <1>28, <1>29

LEMMA SetNext ==
  ASSUME NEW l \in Heap, NEW x \in 1..Len(l.next), NEW y \in Nat,
         NEW t, t = [l EXCEPT !.next[x] = y]
  PROVE  /\ t \in Heap /\ Len(t.next) = Len(l.next)
         /\ \A z \in 1..Len(l.next) : t.next[z] = IF z = x THEN y ELSE l.next[z]
         /\ t.data = l.data /\ t.pool = l.pool /\ t.head = l.head /\ t.tail = l.tail /\ t.size = l.size
<1>1. l.next \in Seq(Nat)
  BY DEF Heap
<1>2. t.next = [l.next EXCEPT ![x] = y]
      /\ t.data = l.data /\ t.pool = l.pool /\ t.head = l.head /\ t.tail = l.tail /\ t.size = l.size
      /\ t = [next |-> t.next, data |-> l.data, pool |-> l.pool, head |-> l.head,
              tail |-> l.tail, size |-> l.size]
  BY DEF Heap
<1>3. t.next \in Seq(Nat) /\ Len(t.next) = Len(l.next)
      /\ \A z \in 1..Len(l.next) : t.next[z] = IF z = x THEN y ELSE l.next[z]
  BY <1>1, <1>2, ExceptSeq
<1>4. t \in Heap
  BY <1>2, <1>3 DEF Heap
<1> QED
  BY <1>2, <1>3, <1>4

\* The whole list, cells and tail, and parts of it.
Portion(l, c, d, p, q) == Layout(l, c, d) /\ p \in 1..Len(c) /\ q \in p..Len(c)
Segment(c, p, q) == [r \in 1..q - p |-> c[p + (r - 1)]]

LEMMA BetweenCells ==
  ASSUME NEW l, NEW c, NEW d, NEW p, NEW q, Portion(l, c, d, p, q)
  PROVE  /\ Between(l, c[p], c[q]) = Segment(c, p, q)
         /\ Len(Segment(c, p, q)) = q - p
         /\ Segment(c, p, q) \in Seq(Nat)
<1>1. Sane(l) /\ Chain(l, c) /\ c \in Seq(Nat) /\ p \in 1..Len(c) /\ q \in p..Len(c)
  BY DEF Portion, Layout, Chain
<1>2. Between(l, c[p], c[q]) = [r \in 1..q - p |-> c[p + (r - 1)]]
  <2>1. Stretch(l, c, p, q)
    BY <1>1 DEF Stretch
  <2> QED
    BY ONLY <2>1, BetweenIs
<1>3. Len(c) \in Nat /\ q - p \in Nat /\ \A r \in 1..q - p : p + (r - 1) \in 1..Len(c)
  BY <1>1
<1>4. \A r \in 1..q - p : c[p + (r - 1)] \in Nat
  BY <1>1, <1>3
<1>5. Segment(c, p, q) \in Seq(Nat) /\ Len(Segment(c, p, q)) = q - p
  BY ONLY <1>3, <1>4 DEF Segment
<1> QED
  BY <1>2, <1>5 DEF Segment

LEMMA LinkedIs ==
  ASSUME NEW l, NEW c, NEW d, Layout(l, c, d)
  PROVE  /\ Linked(l) = [r \in 1..Len(c) - 1 |-> c[r]]
         /\ Len(Linked(l)) = Len(c) - 1 /\ Linked(l) \in Seq(Nat)
         /\ Len(c) > 1 => LastMessage(l) = c[Len(c) - 1]
<1>1. l.head = c[1] /\ l.tail = c[Len(c)] /\ Len(c) \in Nat /\ Len(c) >= 1
  BY DEF Layout, Chain
<1>2. 1 \in 1..Len(c) /\ Len(c) \in 1..Len(c)
  BY ONLY <1>1
<1> DEFINE b == [r \in 1..Len(c) - 1 |-> c[1 + (r - 1)]]
<1>3. Between(l, c[1], c[Len(c)]) = b /\ Len(b) = Len(c) - 1 /\ b \in Seq(Nat)
  <2>1. Portion(l, c, d, 1, Len(c))
    BY ONLY <1>1, <1>2, Layout(l, c, d) DEF Portion
  <2>2. PICK q : q = Len(c)
    OBVIOUS
  <2>3. Portion(l, c, d, 1, q)
    BY ONLY <2>1, <2>2
  <2>4. Between(l, c[1], c[q]) = Segment(c, 1, q) /\ Len(Segment(c, 1, q)) = q - 1
        /\ Segment(c, 1, q) \in Seq(Nat)
    BY ONLY <2>3, BetweenCells
  <2> QED
    BY ONLY <2>2, <2>4 DEF Segment
<1>4. b = [r \in 1..Len(c) - 1 |-> c[r]]
  <2>1. \A r \in 1..Len(c) - 1 : 1 + (r - 1) = r
    BY ONLY <1>1
  <2> QED
    BY <2>1
<1> HIDE DEF b
<1>5. Linked(l) = b
  BY <1>1, <1>3 DEF Linked
<1>6. ASSUME Len(c) > 1 PROVE LastMessage(l) = c[Len(c) - 1]
  <2>1. Len(c) - 1 \in 1..Len(c) - 1
    BY ONLY <1>1, <1>6
  <2> QED
    BY ONLY <1>3, <1>4, <1>5, <2>1 DEF LastMessage, Last
<1> QED
  BY <1>3, <1>4, <1>5, <1>6

RelinkArgs(l, c, n, i, j, k, prev, next, t) ==
  /\ Layout(l, c, <<>>) /\ n = Len(c) /\ Places(n, i, j, k)
  /\ prev = (IF i = 0 THEN Null ELSE c[i])
  /\ next = (IF j = k THEN c[n] ELSE c[j + 1])
  /\ t = Relinked(l, prev, next, c[k])

LEMMA RelinkEffect ==
  ASSUME NEW l, NEW c, NEW n, NEW i, NEW j, NEW k, NEW prev, NEW next, NEW t,
         RelinkArgs(l, c, n, i, j, k, prev, next, t)
  PROVE  /\ t \in Heap /\ Rewired(c, n, i, j, k, Len(l.next), l.next, t.next)
         /\ Len(t.next) = Len(l.next)
         /\ t.data = l.data /\ t.pool = l.pool /\ t.tail = l.tail /\ t.size = l.size
         /\ t.head = IF i = 0 THEN c[k + 1] ELSE l.head
<1>1. /\ Layout(l, c, <<>>) /\ n = Len(c) /\ Places(n, i, j, k)
      /\ prev = (IF i = 0 THEN 0 ELSE c[i])
      /\ next = (IF j = k THEN c[n] ELSE c[j + 1])
      /\ t = Relinked(l, prev, next, c[k])
  BY DEF RelinkArgs, Null
<1>2. /\ n \in Nat /\ i \in Nat /\ j \in Nat /\ k \in Nat
      /\ i < j /\ j <= k /\ k < n - 1
  BY <1>1 DEF Places
<1>3. PICK L : L = Len(l.next)
  OBVIOUS
<1>4. /\ l \in Heap /\ L \in Nat
      /\ \A q \in 1..n : c[q] \in 1..L
  BY <1>1, <1>3 DEF Layout, Sane, Chain, Heap
<1>5. \A q, r \in 1..n : q # r => c[q] # c[r]
  BY <1>1 DEF Layout, Chain, Distinct
<1>6. \A q \in 1..n - 1 : l.next[c[q]] = c[q + 1]
  BY <1>1 DEF Layout, Chain
<1>7. l.next[c[n]] = 0 /\ l.tail = c[n] /\ \A x \in 1..L : l.next[x] \in 0..L
  BY <1>1, <1>3 DEF Layout, Sane
<1>8. LastMessage(l) = c[n - 1]
  BY <1>1, <1>2, LinkedIs
<1>9. l.next[c[k]] = c[k + 1] /\ k \in 1..n /\ k + 1 \in 1..n /\ n - 1 \in 1..n /\ n \in 1..n
      /\ (i # 0 => i \in 1..n) /\ j + 1 \in 1..n
  <2>1. k \in 1..n - 1 /\ k \in 1..n /\ k + 1 \in 1..n /\ n - 1 \in 1..n /\ n \in 1..n
        /\ (i # 0 => i \in 1..n) /\ j + 1 \in 1..n
    BY ONLY <1>2
  <2> QED
    BY ONLY <1>6, <2>1
<1>10. /\ c[k] \in 1..L /\ c[k + 1] \in 1..L /\ c[n - 1] \in 1..L /\ c[n] \in 1..L /\ c[j + 1] \in 1..L
       /\ (i # 0 => c[i] \in 1..L)
  BY ONLY <1>4, <1>9
<1> DEFINE first == l.next[c[k]]
           a == IF prev = Null THEN [l EXCEPT !.head = first]
                               ELSE [l EXCEPT !.next[prev] = first]
           b == [a EXCEPT !.next[LastMessage(l)] = next]
<1>11. t = [b EXCEPT !.next[c[k]] = l.tail]
  BY <1>1 DEF Relinked
<1>12. first = c[k + 1] /\ first \in Nat /\ first \in 1..L
  <2>1. first = c[k + 1]
    BY ONLY <1>9
  <2>2. c[k + 1] \in Nat
    BY ONLY <1>4, <1>10
  <2> QED
    BY ONLY <1>10, <2>1, <2>2
<1> HIDE DEF first
<1>13. /\ a \in Heap /\ Len(a.next) = L
       /\ \A z \in 1..L : a.next[z] = IF i # 0 /\ z = c[i] THEN c[k + 1] ELSE l.next[z]
       /\ a.data = l.data /\ a.pool = l.pool /\ a.tail = l.tail /\ a.size = l.size
       /\ a.head = IF i = 0 THEN c[k + 1] ELSE l.head
  <2>1. CASE i = 0
    <3>1. a = [l EXCEPT !.head = first]
      BY ONLY <1>1, <2>1 DEF Null
    <3> HIDE DEF a
    <3>2. a \in Heap /\ a.next = l.next /\ a.data = l.data /\ a.pool = l.pool /\ a.tail = l.tail
          /\ a.size = l.size /\ a.head = first
      BY ONLY <1>4, <1>12, <3>1 DEF Heap
    <3> QED
      BY ONLY <1>3, <1>12, <2>1, <3>2
  <2>2. CASE i # 0
    <3>0. prev = c[i] /\ c[i] \in 1..L /\ prev # Null
      BY ONLY <1>1, <1>4, <1>10, <2>2 DEF Null
    <3>1. a = [l EXCEPT !.next[prev] = first]
      BY ONLY <3>0
    <3> HIDE DEF a
    <3>2. /\ a \in Heap /\ Len(a.next) = L
          /\ \A z \in 1..L : a.next[z] = IF z = prev THEN first ELSE l.next[z]
          /\ a.data = l.data /\ a.pool = l.pool /\ a.head = l.head /\ a.tail = l.tail /\ a.size = l.size
      BY ONLY <1>3, <1>4, <1>12, <3>0, <3>1, SetNext
    <3> QED
      BY ONLY <1>12, <2>2, <3>0, <3>2
  <2> QED
    BY ONLY <2>1, <2>2
<1> HIDE DEF a
<1>14. next \in Nat /\ l.tail \in Nat
  BY ONLY <1>1, <1>4, <1>7, <1>10
<1>15. /\ b \in Heap /\ Len(b.next) = L
       /\ \A z \in 1..L : b.next[z] = IF z = c[n - 1] THEN next ELSE a.next[z]
       /\ b.data = l.data /\ b.pool = l.pool /\ b.tail = l.tail /\ b.size = l.size
       /\ b.head = a.head
  <2>1. b = [a EXCEPT !.next[c[n - 1]] = next]
    BY ONLY <1>8
  <2> HIDE DEF b
  <2> QED
    BY ONLY <1>10, <1>13, <1>14, <2>1, SetNext
<1> HIDE DEF b
<1>16. /\ t \in Heap /\ Len(t.next) = L
       /\ \A z \in 1..L : t.next[z] = IF z = c[k] THEN l.tail ELSE b.next[z]
       /\ t.data = l.data /\ t.pool = l.pool /\ t.tail = l.tail /\ t.size = l.size
       /\ t.head = a.head
  BY ONLY <1>10, <1>11, <1>14, <1>15, SetNext
<1>17. c[k] # c[n - 1] /\ (i # 0 => c[i] # c[k] /\ c[i] # c[n - 1])
  <2>1. k # n - 1 /\ i # k /\ i # n - 1
    BY ONLY <1>2
  <2> QED
    BY ONLY <1>5, <1>9, <2>1
<1>18. /\ i > 0 => t.next[c[i]] = c[k + 1]
       /\ t.next[c[n - 1]] = next /\ t.next[c[k]] = c[n]
  BY ONLY <1>2, <1>7, <1>10, <1>13, <1>15, <1>16, <1>17
<1>19. \A x \in 1..L : (i > 0 => x # c[i]) /\ x # c[n - 1] /\ x # c[k] => t.next[x] = l.next[x]
  BY ONLY <1>2, <1>13, <1>15, <1>16
<1>20. Rewired(c, n, i, j, k, L, l.next, t.next)
  BY ONLY <1>1, <1>4, <1>5, <1>6, <1>7, <1>18, <1>19 DEF Rewired
<1> QED
  BY ONLY <1>3, <1>13, <1>16, <1>20

LEMMA RelinkIs ==
  ASSUME NEW l, NEW c, NEW n, NEW i, NEW j, NEW k, NEW prev, NEW next, NEW t,
         RelinkArgs(l, c, n, i, j, k, prev, next, t),
         NEW e, e = Spliced(c, n, i, j, k), NEW d, d = Cutout(c, i, j)
  PROVE  /\ Layout(t, e, d) /\ Len(e) = n - (j - i) /\ Len(d) = j - i
         /\ t.data = l.data /\ Len(t.next) = Len(l.next) /\ t.tail = l.tail
         /\ \A q \in 1..(j - i) - 1 : t.next[d[q]] = d[q + 1]
         /\ t.next[d[j - i]] = next
         /\ d[1] = IF prev = Null THEN l.head ELSE l.next[prev]
<1>1. /\ Layout(l, c, <<>>) /\ n = Len(c) /\ Places(n, i, j, k)
      /\ prev = (IF i = 0 THEN 0 ELSE c[i])
      /\ next = (IF j = k THEN c[n] ELSE c[j + 1])
  BY DEF RelinkArgs, Null
<1>2. /\ n \in Nat /\ i \in Nat /\ j \in Nat /\ k \in Nat
      /\ i < j /\ j <= k /\ k < n - 1
  BY <1>1 DEF Places
<1>3. PICK L : L = Len(l.next)
  OBVIOUS
<1>4. PICK m : m = n - (j - i)
  OBVIOUS
<1>5. /\ t \in Heap /\ Rewired(c, n, i, j, k, L, l.next, t.next)
      /\ Len(t.next) = L
      /\ t.data = l.data /\ t.pool = l.pool /\ t.tail = l.tail /\ t.size = l.size
      /\ t.head = IF i = 0 THEN c[k + 1] ELSE l.head
  BY <1>3, RelinkEffect
<1>6. /\ m \in Nat /\ m >= 2 /\ e[m] = c[n] /\ t.next[c[n]] = 0
      /\ e[1] = IF i = 0 THEN c[k + 1] ELSE c[1]
      /\ \A q \in 1..m : e[q] \in 1..L
      /\ \A q, r \in 1..m : q # r => e[q] # e[r]
      /\ \A q \in 1..m - 1 : t.next[e[q]] = e[q + 1]
      /\ \A q \in 1..j - i : d[q] \in 1..L
      /\ \A q, r \in 1..j - i : q # r => d[q] # d[r]
      /\ \A q \in 1..(j - i) - 1 : t.next[d[q]] = d[q + 1]
      /\ t.next[d[j - i]] = IF j = k THEN c[n] ELSE c[j + 1]
      /\ \A q \in 1..m, r \in 1..j - i : e[q] # d[r]
      /\ \A x \in 1..n : (\E q \in 1..m : e[q] = c[x]) \/ (\E r \in 1..j - i : d[r] = c[x])
      /\ \A x \in 1..L : t.next[x] \in 0..L
  <2>1. SplicedArgs(c, n, i, j, k, L, l.next, t.next, e, d, m)
    BY ONLY <1>4, <1>5, e = Spliced(c, n, i, j, k), d = Cutout(c, i, j) DEF SplicedArgs
  <2>2. PICK nx, tn : nx = l.next /\ tn = t.next
    OBVIOUS
  <2>3. SplicedArgs(c, n, i, j, k, L, nx, tn, e, d, m)
    BY ONLY <2>1, <2>2
  <2> HIDE <2>1
  <2> QED
    BY ONLY <2>2, <2>3, SplicedIs
<1>7. L \in Nat /\ l.head = c[1] /\ l.tail = c[n] /\ Len(l.data) = L /\ l.pool \in Seq(Nat)
      /\ l.size = (n - 1) + 0
  <2>1. l \in Heap
    BY <1>1 DEF Layout, Sane
  <2>2. l.head = c[1] /\ l.tail = c[n] /\ Len(l.data) = L /\ l.size = (Len(c) - 1) + Len(<<>>)
    BY <1>1, <1>3 DEF Layout, Sane
  <2> QED
    BY ONLY <1>1, <1>3, <2>1, <2>2 DEF Heap
<1>8. e \in Seq(Nat) /\ Len(e) = m /\ d \in Seq(Nat) /\ Len(d) = j - i
  <2>1. \A x \in 1..L : x \in Nat
    BY ONLY <1>7
  <2>2. e = [q \in 1..m |-> c[From(q, n, i, j, k)]] /\ d = [q \in 1..j - i |-> c[i + q]]
    BY ONLY <1>4, e = Spliced(c, n, i, j, k), d = Cutout(c, i, j) DEF Spliced, Cutout
  <2>3. (\A q \in 1..m : e[q] \in Nat) /\ \A q \in 1..j - i : d[q] \in Nat
    BY ONLY <1>6, <2>1
  <2>4. m \in Nat /\ j - i \in Nat
    BY ONLY <1>2, <1>6
  <2>5. e \in [1..m -> Nat]
    BY ONLY <2>2, <2>3
  <2>6. d \in [1..j - i -> Nat]
    BY ONLY <2>2, <2>3
  <2> QED
    BY ONLY <2>4, <2>5, <2>6
<1>9. Sane(t)
  BY ONLY <1>5, <1>6, <1>7 DEF Sane
<1>10. Chain(t, e)
  BY ONLY <1>5, <1>6, <1>8 DEF Chain, Distinct
<1>11. \A q \in 1..m : \E x \in 1..n : e[q] = c[x]
  <2> TAKE q \in 1..m
  <2>1. From(q, n, i, j, k) \in 1..n
    BY ONLY <1>1, <1>4, FromPlaces, q \in 1..m
  <2>2. e[q] = c[From(q, n, i, j, k)]
    BY ONLY <1>4, e = Spliced(c, n, i, j, k), q \in 1..m DEF Spliced
  <2> QED
    BY ONLY <2>1, <2>2
<1>12. \A q \in 1..j - i : i + q \in 1..n /\ d[q] = c[i + q]
  BY ONLY <1>2, d = Cutout(c, i, j) DEF Cutout
<1>13. /\ Distinct(l.pool) /\ \A x \in 1..Len(l.pool) : l.pool[x] \in 1..L
       /\ \A x \in 1..n, y \in 1..Len(l.pool) : c[x] # l.pool[y]
       /\ \A x \in 1..L : Has(c, x) \/ Has(<<>>, x) \/ Has(l.pool, x)
  BY ONLY <1>1, <1>3 DEF Layout, Apart
<1>14. Apart(e, l.pool) /\ Apart(d, l.pool) /\ Apart(e, d) /\ Distinct(d)
  <2>1. Apart(e, l.pool)
    <3>1. \A q \in 1..Len(e), y \in 1..Len(l.pool) : e[q] # l.pool[y]
      <4> TAKE q \in 1..Len(e), y \in 1..Len(l.pool)
      <4>1. q \in 1..m
        BY ONLY <1>8, q \in 1..Len(e)
      <4>2. PICK x \in 1..n : e[q] = c[x]
        BY ONLY <4>1, <1>11
      <4>3. c[x] # l.pool[y]
        BY ONLY <1>13, x \in 1..n, y \in 1..Len(l.pool)
      <4> QED
        BY ONLY <4>2, <4>3
    <3> QED
      BY ONLY <3>1 DEF Apart
  <2>2. Apart(d, l.pool)
    BY ONLY <1>8, <1>12, <1>13 DEF Apart
  <2>3. Apart(e, d) /\ Distinct(d)
    BY ONLY <1>6, <1>8 DEF Apart, Distinct
  <2> QED
    BY ONLY <2>1, <2>2, <2>3
<1>15. ASSUME NEW x \in 1..L PROVE Has(e, x) \/ Has(d, x) \/ Has(l.pool, x)
  <2>1. ~Has(<<>>, x)
    BY ONLY TRUE DEF Has
  <2>2. CASE Has(c, x)
    <3>1. PICK y \in 1..n : c[y] = x
      BY ONLY <1>1, <2>2 DEF Has
    <3>2. (\E q \in 1..m : e[q] = c[y]) \/ (\E r \in 1..j - i : d[r] = c[y])
      BY ONLY <1>6
    <3> QED
      BY ONLY <1>8, <3>1, <3>2 DEF Has
  <2> QED
    BY ONLY <1>13, <2>1, <2>2, x \in 1..L
<1>16. /\ t.head = e[1] /\ t.tail = e[Len(e)] /\ t.next[e[Len(e)]] = 0
       /\ t.size = (Len(e) - 1) + Len(d) /\ Len(e) >= 1
  <2>1. Len(e) = m /\ Len(d) = j - i /\ m \in Nat /\ m >= 2 /\ m = n - (j - i)
    BY ONLY <1>4, <1>6, <1>8
  <2>2. t.head = e[1]
    BY ONLY <1>5, <1>6, <1>7
  <2>3. t.tail = e[m] /\ t.next[e[m]] = 0
    BY ONLY <1>5, <1>6, <1>7
  <2>4. t.size = (m - 1) + (j - i)
    BY ONLY <1>2, <1>5, <1>7, <2>1
  <2> QED
    BY ONLY <2>1, <2>2, <2>3, <2>4
<1>17. Layout(t, e, d)
  BY ONLY <1>5, <1>6, <1>8, <1>9, <1>10, <1>13, <1>14, <1>15, <1>16 DEF Layout
<1>18. d[1] = IF prev = Null THEN l.head ELSE l.next[prev]
  <2>1. 1 \in 1..j - i
    BY ONLY <1>2
  <2>2. d[1] = c[i + 1]
    BY ONLY <1>12, <2>1
  <2>3. CASE i = 0
    BY ONLY <1>1, <1>7, <2>2, <2>3 DEF Null
  <2>4. CASE i # 0
    <3>1. i \in 1..n - 1 /\ i \in 1..n
      BY ONLY <1>2, <2>4
    <3>2. l.next[c[i]] = c[i + 1] /\ c[i] \in 1..L
      BY ONLY <1>1, <1>3, <3>1 DEF Layout, Chain
    <3> QED
      BY ONLY <1>1, <1>7, <2>2, <2>4, <3>2 DEF Null
  <2> QED
    BY ONLY <2>3, <2>4
<1> QED
  BY ONLY <1>1, <1>3, <1>4, <1>5, <1>6, <1>8, <1>17, <1>18

-----------------------------------------------------------------------------
(* Freeing cells *)

Gains(q, x, r) == q \in Seq(Nat) /\ x \in Nat /\ r = Append(q, x) /\ Distinct(q) /\ ~Has(q, x)

LEMMA PoolGains ==
  ASSUME NEW q, NEW x, NEW r, Gains(q, x, r)
  PROVE  /\ r \in Seq(Nat) /\ Distinct(r)
         /\ \A y : Has(r, y) <=> Has(q, y) \/ y = x
<1>1. q \in Seq(Nat) /\ x \in Nat /\ r = Append(q, x) /\ Distinct(q) /\ ~Has(q, x)
  BY DEF Gains
<1>2. PICK n : n = Len(q)
  OBVIOUS
<1>3. n \in Nat /\ r \in Seq(Nat) /\ Len(r) = n + 1 /\ r[n + 1] = x /\ \A k \in 1..n : r[k] = q[k]
  BY <1>1, <1>2, AppendProperties
<1>4. \A k \in 1..n + 1 : k \in 1..n \/ k = n + 1
  BY ONLY <1>3
<1>5. \A k \in 1..n : q[k] # x
  BY ONLY <1>1, <1>2 DEF Has
<1>6. \A i, j \in 1..n : i # j => q[i] # q[j]
  BY ONLY <1>1, <1>2 DEF Distinct
<1>7. ASSUME NEW i \in 1..n + 1, NEW j \in 1..n + 1, i # j PROVE r[i] # r[j]
  <2>1. i \in 1..n \/ j \in 1..n
    BY ONLY <1>4, <1>7
  <2> QED
    BY ONLY <1>3, <1>4, <1>5, <1>6, <1>7, <2>1
<1>8. ASSUME NEW y PROVE Has(r, y) <=> Has(q, y) \/ y = x
  <2>1. ASSUME Has(r, y) PROVE Has(q, y) \/ y = x
    BY ONLY <1>2, <1>3, <1>4, <2>1 DEF Has
  <2>2. ASSUME Has(q, y) PROVE Has(r, y)
    <3>1. PICK k \in 1..n : q[k] = y
      BY ONLY <1>2, <2>2 DEF Has
    <3>2. k \in 1..n + 1
      BY ONLY <1>3, <3>1
    <3> QED
      BY ONLY <1>3, <3>1, <3>2 DEF Has
  <2>3. ASSUME y = x PROVE Has(r, y)
    <3>1. n + 1 \in 1..n + 1
      BY ONLY <1>3
    <3> QED
      BY ONLY <1>3, <2>3, <3>1 DEF Has
  <2> QED
    BY ONLY <2>1, <2>2, <2>3
<1> QED
  BY ONLY <1>3, <1>7, <1>8 DEF Distinct

LEMMA TailIs ==
  ASSUME NEW s \in Seq(Nat), NEW n, n = Len(s), n >= 1
  PROVE  /\ Tail(s) \in Seq(Nat) /\ Len(Tail(s)) = n - 1 /\ s[1] \in Nat
         /\ \A k \in 1..n - 1 : Tail(s)[k] = s[k + 1]
         /\ \A y : Has(s, y) <=> y = s[1] \/ Has(Tail(s), y)
<1>1. s # <<>> /\ n \in Nat
  OBVIOUS
<1>2. /\ Tail(s) \in Seq(Nat) /\ Len(Tail(s)) = n - 1 /\ s[1] \in Nat
      /\ \A k \in 1..n - 1 : Tail(s)[k] = s[k + 1]
  BY <1>1, HeadTailProperties
<1>3. ASSUME NEW y PROVE Has(s, y) <=> y = s[1] \/ Has(Tail(s), y)
  <2>1. ASSUME Has(s, y), y # s[1] PROVE Has(Tail(s), y)
    <3>1. PICK k \in 1..n : s[k] = y
      BY ONLY <2>1, n = Len(s) DEF Has
    <3>2. k - 1 \in 1..n - 1 /\ (k - 1) + 1 = k
      BY ONLY <1>1, <2>1, <3>1
    <3>3. Tail(s)[k - 1] = y
      BY ONLY <1>2, <3>1, <3>2
    <3> QED
      BY ONLY <1>2, <3>2, <3>3 DEF Has
  <2>2. ASSUME Has(Tail(s), y) PROVE Has(s, y)
    <3>1. PICK k \in 1..n - 1 : Tail(s)[k] = y
      BY ONLY <1>2, <2>2 DEF Has
    <3>2. k + 1 \in 1..n
      BY ONLY <1>1, <3>1
    <3> QED
      BY ONLY <1>2, <3>1, <3>2, n = Len(s) DEF Has
  <2>3. ASSUME y = s[1] PROVE Has(s, y)
    <3>1. 1 \in 1..n
      BY ONLY <1>1, n >= 1
    <3> QED
      BY ONLY <2>3, <3>1, n = Len(s) DEF Has
  <2> QED
    BY ONLY <2>1, <2>2, <2>3
<1> QED
  BY ONLY <1>2, <1>3

FreeArgs(l, c, d, t) ==
  Layout(l, c, d) /\ Len(d) >= 1 /\ t = [Free(l, d[1]) EXCEPT !.size = @ - 1]

LEMMA FreeIs ==
  ASSUME NEW l, NEW c, NEW d, NEW t, FreeArgs(l, c, d, t)
  PROVE  Layout(t, c, Tail(d)) /\ t.next = l.next /\ t.data = l.data
<1>1. Layout(l, c, d) /\ Len(d) >= 1 /\ t = [Free(l, d[1]) EXCEPT !.size = @ - 1]
  BY DEF FreeArgs
<1>2. PICK L, n, m, x : L = Len(l.next) /\ n = Len(c) /\ m = Len(d) /\ x = d[1]
  OBVIOUS
<1>3. PICK e : e = Tail(d)
  OBVIOUS
<1>4. Sane(l) /\ Chain(l, c) /\ n >= 1 /\ l.size = (n - 1) + m
      /\ l.head = c[1] /\ l.tail = c[Len(c)] /\ l.next[c[Len(c)]] = 0
  BY <1>1, <1>2 DEF Layout
<1>5. /\ d \in Seq(Nat) /\ Distinct(d) /\ (\A k \in 1..m : d[k] \in 1..L)
      /\ Distinct(l.pool) /\ \A k \in 1..Len(l.pool) : l.pool[k] \in 1..L
  BY <1>1, <1>2 DEF Layout
<1>6. Apart(c, d) /\ Apart(c, l.pool) /\ Apart(d, l.pool)
      /\ \A y \in 1..L : Has(c, y) \/ Has(d, y) \/ Has(l.pool, y)
  BY <1>1, <1>2 DEF Layout
<1>7. l \in Heap /\ n \in Nat /\ m \in Nat /\ m >= 1 /\ L \in Nat
  <2>1. l \in Heap /\ c \in Seq(Nat)
    BY ONLY <1>4 DEF Sane, Chain
  <2> QED
    BY ONLY <1>1, <1>2, <1>5, <2>1 DEF Heap
<1>8. /\ e \in Seq(Nat) /\ Len(e) = m - 1 /\ x \in Nat
      /\ \A k \in 1..m - 1 : e[k] = d[k + 1]
      /\ \A y : Has(d, y) <=> y = x \/ Has(e, y)
  BY ONLY <1>2, <1>3, <1>5, <1>7, TailIs
<1>9. /\ t.next = l.next /\ t.data = l.data /\ t.head = l.head /\ t.tail = l.tail
      /\ t.size = l.size - 1 /\ t.pool = Append(l.pool, x)
      /\ t = [next |-> t.next, data |-> t.data, pool |-> t.pool, head |-> t.head,
              tail |-> t.tail, size |-> t.size]
  BY ONLY <1>1, <1>2, <1>7 DEF Free, Heap
<1>10. x \in 1..L /\ x = d[1] /\ 1 \in 1..m
  BY ONLY <1>2, <1>5, <1>7
<1>11. ~Has(l.pool, x)
  BY ONLY <1>2, <1>6, <1>10 DEF Apart, Has
<1>12. t.pool \in Seq(Nat) /\ Distinct(t.pool) /\ \A y : Has(t.pool, y) <=> Has(l.pool, y) \/ y = x
  <2>1. l.pool \in Seq(Nat)
    BY ONLY <1>7 DEF Heap
  <2>2. Gains(l.pool, x, t.pool)
    BY ONLY <1>5, <1>8, <1>9, <1>11, <2>1 DEF Gains
  <2>3. PICK q, r : q = l.pool /\ r = t.pool
    OBVIOUS
  <2>4. Gains(q, x, r)
    BY ONLY <2>2, <2>3
  <2> QED
    BY ONLY <2>3, <2>4, PoolGains
<1>13. Sane(t)
  <2>1. t.size \in Nat
    BY ONLY <1>4, <1>7, <1>9
  <2>2. t \in Heap
    BY ONLY <1>7, <1>9, <1>12, <2>1 DEF Heap
  <2> QED
    BY ONLY <1>4, <1>9, <2>2 DEF Sane
<1>14. Chain(t, c)
  BY ONLY <1>4, <1>9 DEF Chain
<1>15. Distinct(e) /\ \A k \in 1..Len(e) : e[k] \in 1..L
  <2>1. \A k \in 1..m - 1 : k + 1 \in 1..m
    BY ONLY <1>7
  <2>2. \A k \in 1..Len(e) : e[k] \in 1..L
    BY ONLY <1>5, <1>8, <2>1
  <2>3. \A i, j \in 1..m - 1 : i # j => e[i] # e[j]
    <3> SUFFICES ASSUME NEW i \in 1..m - 1, NEW j \in 1..m - 1, i # j PROVE e[i] # e[j]
      OBVIOUS
    <3>1. i + 1 # j + 1
      BY ONLY <1>7, i \in 1..m - 1, j \in 1..m - 1, i # j
    <3> QED
      BY ONLY <1>2, <1>5, <1>8, <2>1, <3>1, i \in 1..m - 1, j \in 1..m - 1 DEF Distinct
  <2> QED
    BY ONLY <1>8, <2>2, <2>3 DEF Distinct
<1>16. \A k \in 1..Len(t.pool) : t.pool[k] \in 1..L
  <2> TAKE k \in 1..Len(t.pool)
  <2>1. Has(t.pool, t.pool[k])
    BY ONLY k \in 1..Len(t.pool) DEF Has
  <2> QED
    BY ONLY <1>5, <1>10, <1>12, <2>1 DEF Has
<1>17. Apart(c, e)
  <2>1. \A k \in 1..m - 1 : k + 1 \in 1..m
    BY ONLY <1>7
  <2> QED
    BY ONLY <1>2, <1>6, <1>8, <2>1 DEF Apart
<1>18. Apart(c, t.pool)
  <2> SUFFICES ASSUME NEW i \in 1..Len(c), NEW j \in 1..Len(t.pool), c[i] = t.pool[j] PROVE FALSE
    BY DEF Apart
  <2>1. Has(t.pool, c[i])
    BY ONLY i \in 1..Len(c), j \in 1..Len(t.pool), c[i] = t.pool[j] DEF Has
  <2>2. Has(l.pool, c[i]) \/ c[i] = d[1]
    BY ONLY <1>2, <1>12, <2>1
  <2> QED
    BY ONLY <1>2, <1>6, <1>10, <2>2, i \in 1..Len(c) DEF Apart, Has
<1>19. Apart(e, t.pool)
  <2> SUFFICES ASSUME NEW i \in 1..Len(e), NEW j \in 1..Len(t.pool), e[i] = t.pool[j] PROVE FALSE
    BY DEF Apart
  <2>1. Has(t.pool, e[i])
    BY ONLY i \in 1..Len(e), j \in 1..Len(t.pool), e[i] = t.pool[j] DEF Has
  <2>2. i + 1 \in 1..m /\ i + 1 # 1 /\ e[i] = d[i + 1]
    BY ONLY <1>7, <1>8, i \in 1..Len(e)
  <2>3. Has(l.pool, e[i]) \/ e[i] = d[1]
    BY ONLY <1>2, <1>12, <2>1
  <2>4. d[i + 1] # d[1]
    BY ONLY <1>2, <1>5, <1>10, <2>2 DEF Distinct
  <2>5. ~Has(l.pool, d[i + 1])
    BY ONLY <1>2, <1>6, <2>2 DEF Apart, Has
  <2> QED
    BY ONLY <2>2, <2>3, <2>4, <2>5
<1>20. \A y \in 1..L : Has(c, y) \/ Has(e, y) \/ Has(t.pool, y)
  BY ONLY <1>6, <1>8, <1>12
<1>21. t.size = (n - 1) + Len(e)
  BY ONLY <1>4, <1>7, <1>8, <1>9
<1>22. Layout(t, c, e)
  <2>1. /\ t.head = c[1] /\ t.tail = c[Len(c)] /\ t.next[c[Len(c)]] = 0 /\ Len(t.next) = L
        /\ Len(c) >= 1 /\ t.size = (Len(c) - 1) + Len(e)
    BY ONLY <1>2, <1>4, <1>9, <1>21
  <2> QED
    BY ONLY <1>8, <1>12, <1>13, <1>14, <1>15, <1>16, <1>17, <1>18, <1>19, <1>20, <2>1 DEF Layout
<1> QED
  BY ONLY <1>3, <1>9, <1>22

ShiftArgs(l, c, t) == Layout(l, c, <<>>) /\ Len(c) > 1 /\ t = Shift(l)

LEMMA ShiftIs ==
  ASSUME NEW l, NEW c, NEW t, ShiftArgs(l, c, t)
  PROVE  Layout(t, Tail(c), <<>>) /\ t.next = l.next /\ t.data = l.data
<1>1. Layout(l, c, <<>>) /\ Len(c) > 1 /\ t = Shift(l)
  BY DEF ShiftArgs
<1>2. PICK L, n, x : L = Len(l.next) /\ n = Len(c) /\ x = c[1]
  OBVIOUS
<1>3. PICK e : e = Tail(c)
  OBVIOUS
<1>4. Sane(l) /\ Chain(l, c) /\ l.size = (n - 1) + Len(<<>>)
      /\ l.head = c[1] /\ l.tail = c[Len(c)] /\ l.next[c[Len(c)]] = 0
  BY <1>1, <1>2 DEF Layout
<1>5. /\ c \in Seq(Nat) /\ Distinct(c) /\ (\A k \in 1..n : c[k] \in 1..L)
      /\ (\A k \in 1..n - 1 : l.next[c[k]] = c[k + 1])
      /\ Distinct(l.pool) /\ \A k \in 1..Len(l.pool) : l.pool[k] \in 1..L
  BY <1>1, <1>2 DEF Layout, Chain
<1>6. Apart(c, l.pool) /\ \A y \in 1..L : Has(c, y) \/ Has(<<>>, y) \/ Has(l.pool, y)
  BY <1>1, <1>2 DEF Layout
<1>7. l \in Heap /\ n \in Nat /\ n >= 2 /\ L \in Nat
  <2>1. l \in Heap
    BY ONLY <1>4 DEF Sane
  <2> QED
    BY ONLY <1>1, <1>2, <1>5, <2>1 DEF Heap
<1>8. /\ e \in Seq(Nat) /\ Len(e) = n - 1 /\ x \in Nat
      /\ \A k \in 1..n - 1 : e[k] = c[k + 1]
      /\ \A y : Has(c, y) <=> y = x \/ Has(e, y)
  BY ONLY <1>2, <1>3, <1>5, <1>7, TailIs
<1>10. x \in 1..L /\ x = c[1] /\ 1 \in 1..n /\ 1 \in 1..n - 1 /\ l.next[x] = c[2] /\ 1 + 1 = 2
  BY ONLY <1>2, <1>5, <1>7
<1>9. /\ t.next = l.next /\ t.data = l.data /\ t.head = l.next[l.head] /\ t.tail = l.tail
      /\ t.size = l.size - 1 /\ t.pool = Append(l.pool, x)
      /\ t = [next |-> t.next, data |-> t.data, pool |-> t.pool, head |-> t.head,
              tail |-> t.tail, size |-> t.size]
  BY ONLY <1>1, <1>2, <1>4, <1>7 DEF Shift, Free, Heap
<1>11. ~Has(l.pool, x)
  BY ONLY <1>2, <1>6, <1>10 DEF Apart, Has
<1>12. t.pool \in Seq(Nat) /\ Distinct(t.pool) /\ \A y : Has(t.pool, y) <=> Has(l.pool, y) \/ y = x
  <2>1. l.pool \in Seq(Nat)
    BY ONLY <1>7 DEF Heap
  <2>2. Gains(l.pool, x, t.pool)
    BY ONLY <1>5, <1>8, <1>9, <1>11, <2>1 DEF Gains
  <2>3. PICK q, r : q = l.pool /\ r = t.pool
    OBVIOUS
  <2>4. Gains(q, x, r)
    BY ONLY <2>2, <2>3
  <2> QED
    BY ONLY <2>3, <2>4, PoolGains
<1>23. \A k \in 1..n - 1 : k + 1 \in 1..n /\ k \in 1..n
  BY ONLY <1>7
<1>24. t.head = e[1] /\ e[1] \in Nat
  <2>1. e[1] = c[2] /\ e[1] \in Nat
    BY ONLY <1>8, <1>10
  <2>2. t.head = c[2]
    BY ONLY <1>2, <1>4, <1>9, <1>10
  <2> QED
    BY ONLY <2>1, <2>2
<1>13. Sane(t)
  <2>1. t.size \in Nat
    BY ONLY <1>4, <1>7, <1>9
  <2>2. t \in Heap
    <3>1. l.next \in Seq(Nat) /\ l.data \in Seq(Seq(Nat)) /\ l.tail \in Nat
      BY ONLY <1>7 DEF Heap
    <3>2. t.next \in Seq(Nat) /\ t.data \in Seq(Seq(Nat)) /\ t.tail \in Nat /\ t.head \in Nat
      BY ONLY <1>9, <1>24, <3>1
    <3> QED
      BY ONLY <1>9, <1>12, <2>1, <3>2 DEF Heap
  <2> QED
    BY ONLY <1>4, <1>9, <2>2 DEF Sane
<1>15. Distinct(e) /\ \A k \in 1..Len(e) : e[k] \in 1..L
  <2>2. \A k \in 1..Len(e) : e[k] \in 1..L
    BY ONLY <1>5, <1>8, <1>23
  <2>3. \A i, j \in 1..n - 1 : i # j => e[i] # e[j]
    <3> SUFFICES ASSUME NEW i \in 1..n - 1, NEW j \in 1..n - 1, i # j PROVE e[i] # e[j]
      OBVIOUS
    <3>1. i + 1 # j + 1
      BY ONLY <1>7, i \in 1..n - 1, j \in 1..n - 1, i # j
    <3> QED
      BY ONLY <1>2, <1>5, <1>8, <1>23, <3>1, i \in 1..n - 1, j \in 1..n - 1 DEF Distinct
  <2> QED
    BY ONLY <1>8, <2>2, <2>3 DEF Distinct
<1>14. Chain(t, e)
  <2>1. \A k \in 1..Len(e) - 1 : t.next[e[k]] = e[k + 1]
    <3> TAKE k \in 1..Len(e) - 1
    <3>1. k \in 1..n - 1 /\ k + 1 \in 1..n - 1
      BY ONLY <1>7, <1>8, k \in 1..Len(e) - 1
    <3> QED
      BY ONLY <1>5, <1>8, <1>9, <3>1
  <2> QED
    BY ONLY <1>2, <1>8, <1>9, <1>15, <2>1 DEF Chain
<1>16. \A k \in 1..Len(t.pool) : t.pool[k] \in 1..L
  <2> TAKE k \in 1..Len(t.pool)
  <2>1. Has(t.pool, t.pool[k])
    BY ONLY k \in 1..Len(t.pool) DEF Has
  <2> QED
    BY ONLY <1>5, <1>10, <1>12, <2>1 DEF Has
<1>19. Apart(e, t.pool)
  <2> SUFFICES ASSUME NEW i \in 1..Len(e), NEW j \in 1..Len(t.pool), e[i] = t.pool[j] PROVE FALSE
    BY DEF Apart
  <2>1. Has(t.pool, e[i])
    BY ONLY i \in 1..Len(e), j \in 1..Len(t.pool), e[i] = t.pool[j] DEF Has
  <2>2. i + 1 \in 1..n /\ i + 1 # 1 /\ e[i] = c[i + 1]
    BY ONLY <1>7, <1>8, i \in 1..Len(e)
  <2>3. Has(l.pool, e[i]) \/ e[i] = c[1]
    BY ONLY <1>2, <1>12, <2>1
  <2>4. c[i + 1] # c[1]
    BY ONLY <1>2, <1>5, <1>10, <2>2 DEF Distinct
  <2>5. ~Has(l.pool, c[i + 1])
    BY ONLY <1>2, <1>6, <2>2 DEF Apart, Has
  <2> QED
    BY ONLY <2>2, <2>3, <2>4, <2>5
<1>20. \A y \in 1..L : Has(e, y) \/ Has(<<>>, y) \/ Has(t.pool, y)
  BY ONLY <1>6, <1>8, <1>12
<1>21. t.size = (Len(e) - 1) + Len(<<>>) /\ Len(e) >= 1
  BY ONLY <1>4, <1>7, <1>8, <1>9
<1>22. Layout(t, e, <<>>)
  <2>1. t.tail = e[Len(e)] /\ t.next[e[Len(e)]] = 0 /\ Len(t.next) = L
    <3>1. n - 1 \in 1..n - 1 /\ (n - 1) + 1 = n
      BY ONLY <1>7
    <3> QED
      BY ONLY <1>2, <1>4, <1>8, <1>9, <3>1
  <2>2. <<>> \in Seq(Nat) /\ Len(<<>>) = 0 /\ Distinct(<<>>) /\ Apart(e, <<>>) /\ Apart(<<>>, t.pool)
        /\ \A k \in 1..0 : <<>>[k] \in 1..L
    BY ONLY TRUE DEF Distinct, Apart
  <2> QED
    BY ONLY <1>12, <1>13, <1>14, <1>16, <1>19, <1>20, <1>21, <1>24, <2>1, <2>2 DEF Layout
<1> QED
  BY ONLY <1>3, <1>9, <1>22

-----------------------------------------------------------------------------
(* The sums of the sizes of regions *)

Summed(f, g, n) ==
  /\ n \in Nat /\ \A k \in 1..n : g[k] \in Nat
  /\ \A k \in 0..n : f[k] = IF k = 0 THEN 0 ELSE f[k - 1] + g[k]

LEMMA SummedGrows ==
  ASSUME NEW f, NEW g, NEW n, Summed(f, g, n)
  PROVE  /\ \A k \in 0..n : f[k] \in Nat
         /\ \A j, k \in 0..n : j <= k => f[j] <= f[k]
<1>0. n \in Nat /\ \A k \in 1..n : g[k] \in Nat
  BY DEF Summed
<1>1. f[0] = 0 /\ \A k \in 1..n : f[k] = f[k - 1] + g[k]
  <2>1. \A k \in 0..n : f[k] = IF k = 0 THEN 0 ELSE f[k - 1] + g[k]
    BY DEF Summed
  <2>2. 0 \in 0..n /\ \A k \in 1..n : k \in 0..n /\ k # 0
    BY <1>0
  <2> QED
    BY ONLY <2>1, <2>2
<1> DEFINE Good(k) == \A j \in 0..k : f[j] \in Nat /\ f[j] <= f[k]
           Lacking == {k \in 0..n : ~Good(k)}
<1>2. Good(0)
  BY ONLY <1>1
<1>3. ASSUME NEW k \in 1..n, Good(k - 1) PROVE Good(k)
  <2>1. k \in Nat /\ g[k] \in Nat /\ f[k] = f[k - 1] + g[k] /\ f[k - 1] \in Nat
    <3>1. k - 1 \in 0..k - 1
      BY <1>0
    <3> QED
      BY <1>0, <1>1, <1>3, <3>1
  <2>2. ASSUME NEW j \in 0..k PROVE f[j] \in Nat /\ f[j] <= f[k]
    <3>1. CASE j = k
      BY ONLY <2>1, <3>1
    <3>2. CASE j # k
      <4>1. j \in 0..k - 1
        BY ONLY <2>1, <3>2, j \in 0..k
      <4>2. f[j] <= f[k - 1] /\ f[j] \in Nat
        BY <1>3, <4>1
      <4> QED
        BY ONLY <2>1, <4>2
    <3> QED
      BY ONLY <3>1, <3>2
  <2> QED
    BY ONLY <2>2
<1> HIDE DEF Good
<1>4. Lacking = {}
  <2> SUFFICES ASSUME Lacking # {} PROVE FALSE
    OBVIOUS
  <2>1. Lacking \in SUBSET Nat
    BY <1>0
  <2>2. PICK m \in Lacking : \A k \in Lacking : m <= k
    BY <2>1, SmallestOf
  <2>3. m # 0 /\ m \in 0..n /\ ~Good(m)
    BY <1>2
  <2>4. m \in 1..n /\ m - 1 \in 0..n /\ ~(m <= m - 1)
    BY <1>0, <2>3
  <2>5. Good(m - 1)
    BY <2>2, <2>4
  <2> QED
    BY <1>3, <2>3, <2>4, <2>5
<1>5. \A k \in 0..n : Good(k)
  BY <1>4
<1> QED
  BY ONLY <1>0, <1>5 DEF Good

-----------------------------------------------------------------------------
(* Entries, and the lists made of them *)

Fits(e) == e \in Entry /\ RegionsFit(e)

SizesFit(e) == e \in Entry /\ \A k \in DOMAIN e.regions : Size(e.regions[k]) \in Nat

LEMMA OffsetAdds ==
  ASSUME NEW e, SizesFit(e)
  PROVE  \E g : /\ Summed(Offset(e), g, RegionCount(e))
                /\ \A k \in 1..RegionCount(e) : g[k] = Size(e.regions[k])
<1>1. /\ e.regions \in Seq([start : Nat, end : Nat])
      /\ \A k \in DOMAIN e.regions : Size(e.regions[k]) \in Nat
  BY DEF SizesFit, Entry
<1>2. PICK n : n = RegionCount(e)
  OBVIOUS
<1>3. n \in Nat /\ DOMAIN e.regions = 1..n
  BY <1>1, <1>2 DEF RegionCount
<1> DEFINE g == [k \in 1..n |-> Size(e.regions[k])]
           f == CHOOSE h : h = [k \in 0..n |-> IF k = 0 THEN 0 ELSE h[k - 1] + Size(e.regions[k])]
<1>4. \E h : h = [k \in 0..n |-> IF k = 0 THEN 0 ELSE h[k - 1] + Size(e.regions[k])]
  <2>1. PICK h : h = [k \in 0..n |-> IF k = 0 THEN 0 ELSE h[k - 1] + g[k]]
    <3> HIDE DEF g
    <3> QED
      BY ONLY <1>3, AddExists
  <2>2. \A k \in 0..n : k # 0 => g[k] = Size(e.regions[k])
    BY <1>3
  <2> HIDE DEF g
  <2>3. h = [k \in 0..n |-> IF k = 0 THEN 0 ELSE h[k - 1] + Size(e.regions[k])]
    BY ONLY <2>1, <2>2
  <2> QED
    BY ONLY <2>3
<1>5. f = [k \in 0..n |-> IF k = 0 THEN 0 ELSE f[k - 1] + Size(e.regions[k])]
  BY ONLY <1>4
<1>6. Offset(e) = f
  BY <1>2 DEF Offset
<1> HIDE DEF f
<1>7. \A k \in 0..n : f[k] = IF k = 0 THEN 0 ELSE f[k - 1] + Size(e.regions[k])
  BY ONLY <1>5
<1>8. Summed(f, g, n)
  <2>1. \A k \in 1..n : g[k] = Size(e.regions[k]) /\ g[k] \in Nat
    BY ONLY <1>1, <1>3
  <2>2. \A k \in 0..n : k # 0 => k \in 1..n
    BY ONLY <1>3
  <2> HIDE DEF g
  <2>3. \A k \in 0..n : f[k] = IF k = 0 THEN 0 ELSE f[k - 1] + g[k]
    BY ONLY <1>7, <2>1, <2>2
  <2> QED
    BY ONLY <1>3, <2>1, <2>3 DEF Summed
<1>9. \A k \in 1..n : g[k] = Size(e.regions[k])
  OBVIOUS
<1> HIDE DEF g
<1> QED
  BY ONLY <1>2, <1>6, <1>8, <1>9

LEMMA OffsetIs ==
  ASSUME NEW e, Fits(e)
  PROVE  /\ RegionCount(e) \in Nat
         /\ \A k \in 1..RegionCount(e) : Offset(e)[k] = Offset(e)[k - 1] + Size(e.regions[k])
         /\ \A k \in 1..RegionCount(e) : Size(e.regions[k]) \in Nat
         /\ \A k \in 0..RegionCount(e) : Offset(e)[k] \in 0..Len(e.file)
         /\ \A j, k \in 0..RegionCount(e) : j <= k => Offset(e)[j] <= Offset(e)[k]
         /\ Offset(e)[0] = 0 /\ Len(e.file) \in Nat
<1>1. /\ e.regions \in Seq([start : Nat, end : Nat]) /\ e.file \in Seq(Nat)
      /\ \A k \in DOMAIN e.regions : Size(e.regions[k]) \in Nat
      /\ Offset(e)[RegionCount(e)] <= Len(e.file)
  BY DEF Fits, Entry, RegionsFit
<1>2. PICK n : n = RegionCount(e)
  OBVIOUS
<1>3. n \in Nat /\ DOMAIN e.regions = 1..n /\ n = Len(e.regions) /\ Len(e.file) \in Nat
  BY <1>1, <1>2 DEF RegionCount
<1>4. PICK g, f : f = Offset(e) /\ Summed(f, g, n) /\ \A k \in 1..n : g[k] = Size(e.regions[k])
  <2>1. SizesFit(e)
    BY <1>1 DEF Fits, SizesFit
  <2> QED
    BY ONLY <1>2, <2>1, OffsetAdds
<1>6. Offset(e) = f
  BY ONLY <1>4
<1>7. \A k \in 0..n : f[k] = IF k = 0 THEN 0 ELSE f[k - 1] + g[k]
  BY ONLY <1>4 DEF Summed
<1>9. /\ \A k \in 0..n : f[k] \in Nat
      /\ \A j, k \in 0..n : j <= k => f[j] <= f[k]
  BY ONLY <1>4, SummedGrows
<1>10. \A k \in 0..n : f[k] \in 0..Len(e.file)
  <2> TAKE k \in 0..n
  <2>1. n \in 0..n /\ k <= n
    BY ONLY <1>3, k \in 0..n
  <2>2. f[k] \in Nat /\ f[k] <= f[n] /\ f[n] \in Nat /\ f[n] <= Len(e.file)
    BY ONLY <1>1, <1>2, <1>6, <1>9, <2>1, k \in 0..n
  <2> QED
    BY ONLY <1>3, <2>2
<1>11. \A k \in 1..n : f[k] = f[k - 1] + Size(e.regions[k]) /\ Size(e.regions[k]) \in Nat
  <2>1. \A k \in 1..n : k \in 0..n /\ k # 0
    BY ONLY <1>3
  <2> QED
    BY ONLY <1>1, <1>3, <1>4, <1>7, <2>1
<1>12. f[0] = 0
  <2>1. 0 \in 0..n
    BY ONLY <1>3
  <2> QED
    BY ONLY <1>7, <2>1
<1> QED
  BY ONLY <1>2, <1>3, <1>6, <1>9, <1>10, <1>11, <1>12

LEMMA LargestNat ==
  ASSUME NEW n \in Nat, n >= 1, NEW g, \A k \in 1..n : g[k] \in Nat
  PROVE  \E i \in 1..n : \A j \in 1..n : g[i] >= g[j]
<1> DEFINE Good(k) == \E i \in 1..k : \A j \in 1..k : g[i] >= g[j]
           Lacking == {k \in 1..n : ~Good(k)}
<1>1. Good(1)
  <2>1. 1 \in 1..1 /\ \A j \in 1..1 : g[1] >= g[j]
    OBVIOUS
  <2> QED
    BY <2>1
<1>2. ASSUME NEW k \in 1..n, k < n, Good(k) PROVE Good(k + 1)
  <2>1. PICK i \in 1..k : \A j \in 1..k : g[i] >= g[j]
    BY <1>2
  <2>2. i \in 1..k + 1 /\ k + 1 \in 1..k + 1 /\ k + 1 \in 1..n /\ i \in 1..n /\ k \in Nat
        /\ \A j \in 1..k + 1 : j \in 1..k \/ j = k + 1
    BY <1>2
  <2>3. g[i] \in Nat /\ g[k + 1] \in Nat /\ \A j \in 1..k : g[j] \in Nat
    <3>1. \A j \in 1..k : j \in 1..n
      BY <1>2
    <3> QED
      BY <2>2, <3>1
  <2>4. CASE g[i] >= g[k + 1]
    <3>1. \A j \in 1..k + 1 : g[i] >= g[j]
      BY ONLY <2>1, <2>2, <2>4
    <3> QED
      BY ONLY <2>2, <3>1
  <2>5. CASE ~(g[i] >= g[k + 1])
    <3>1. \A j \in 1..k + 1 : g[k + 1] >= g[j]
      <4> TAKE j \in 1..k + 1
      <4>1. CASE j = k + 1
        BY ONLY <2>3, <4>1
      <4>2. CASE j \in 1..k
        BY ONLY <2>1, <2>3, <2>5, <4>2
      <4> QED
        BY ONLY <2>2, <4>1, <4>2, j \in 1..k + 1
    <3> QED
      BY ONLY <2>2, <3>1
  <2> QED
    BY ONLY <2>4, <2>5
<1> HIDE DEF Good
<1>3. Lacking = {}
  <2> SUFFICES ASSUME Lacking # {} PROVE FALSE
    OBVIOUS
  <2>1. Lacking \in SUBSET Nat
    OBVIOUS
  <2>2. PICK m \in Lacking : \A k \in Lacking : m <= k
    BY <2>1, SmallestOf
  <2>3. m # 1 /\ m \in 1..n /\ ~Good(m)
    BY <1>1
  <2>4. m - 1 \in 1..n /\ m - 1 < n /\ ~(m <= m - 1) /\ m - 1 + 1 = m
    BY <2>3
  <2>5. Good(m - 1)
    BY <2>2, <2>4
  <2> QED
    BY <1>2, <2>3, <2>4, <2>5
<1>4. n \in 1..n
  OBVIOUS
<1> QED
  BY <1>3, <1>4 DEF Good

LEMMA MaxRegionCountIs == max_seed_region_count \in Nat
<1> DEFINE S == {RegionCount(InitialQueue[k]) : k \in DOMAIN InitialQueue}
           g == [k \in DOMAIN InitialQueue |-> RegionCount(InitialQueue[k])]
<1>1. PICK n : n = Len(InitialQueue)
  OBVIOUS
<1>2. n \in Nat /\ n >= 1 /\ DOMAIN InitialQueue = 1..n
      /\ \A k \in 1..n : InitialQueue[k] \in Entry
  BY <1>1, InitialQueueAssumption
<1>3. \A k \in 1..n : g[k] = RegionCount(InitialQueue[k]) /\ g[k] \in Nat
  BY <1>2 DEF RegionCount, Entry
<1> HIDE DEF g
<1>4. PICK i \in 1..n : \A j \in 1..n : g[i] >= g[j]
  BY ONLY <1>2, <1>3, LargestNat
<1>5. g[i] \in S /\ \A y \in S : g[i] >= y
  BY ONLY <1>2, <1>3, <1>4
<1>6. \A y \in S : y \in Nat
  BY ONLY <1>2, <1>3
<1>7. Max(S) \in S
  BY ONLY <1>5 DEF Max
<1> QED
  BY <1>6, <1>7 DEF max_seed_region_count

LEMMA MessagesOfIs ==
  ASSUME NEW r \in Seq(Seq(Nat)), r # <<>>
  PROVE  /\ MessagesOf(r) \in Seq(Seq(Nat))
         /\ Len(MessagesOf(r)) \in 1..max_seed_region_count + 1
         /\ FlattenSeq(MessagesOf(r)) = FlattenSeq(r)
<1>1. PICK n : n = max_seed_region_count
  OBVIOUS
<1>2. n \in Nat /\ Len(r) \in Nat /\ Len(r) >= 1
  BY <1>1, MaxRegionCountIs
<1>3. CASE Len(r) <= n
  <2>1. MessagesOf(r) = r
    BY <1>1, <1>3 DEF MessagesOf
  <2> QED
    BY <1>1, <1>2, <1>3, <2>1
<1>4. CASE ~(Len(r) <= n)
  <2>1. PICK a, b : a = SubSeq(r, 1, n) /\ b = FlattenSeq(SubSeq(r, n + 1, Len(r)))
    OBVIOUS
  <2>2. MessagesOf(r) = Append(a, b)
    BY <1>1, <1>4, <2>1 DEF MessagesOf
  <2>3. n \in 0..Len(r)
    BY ONLY <1>2, <1>4
  <2>4. a \in Seq(Seq(Nat)) /\ Len(a) = n
    <3> DEFINE T == Seq(Nat)
    <3> HIDE DEF T
    <3>1. r \in Seq(T)
      BY DEF T
    <3>2. a \in Seq(T) /\ Len(a) = n
      BY ONLY <2>1, <2>3, <3>1, SeqFacts
    <3> QED
      BY ONLY <3>2 DEF T
  <2>5. b \in Seq(Nat)
    <3>1. SubSeq(r, n + 1, Len(r)) \in Seq(Seq(Nat))
      <4>1. \A i \in n + 1..Len(r) : r[i] \in Seq(Nat)
        BY <1>2
      <4>2. n + 1 \in Int /\ Len(r) \in Int
        BY ONLY <1>2
      <4> DEFINE T == Seq(Nat)
      <4> HIDE DEF T
      <4>3. \A i \in n + 1..Len(r) : r[i] \in T
        BY ONLY <4>1 DEF T
      <4>4. SubSeq(r, n + 1, Len(r)) \in Seq(T)
        BY ONLY <4>2, <4>3, SubSeqProperties
      <4> QED
        BY ONLY <4>4 DEF T
    <3> QED
      BY ONLY <2>1, <3>1, FlatTyped
  <2>6. FlattenSeq(r) = FlattenSeq(a) \o b
    BY ONLY <2>1, <2>3, r \in Seq(Seq(Nat)), FlatFront
  <2>7. FlattenSeq(Append(a, b)) = FlattenSeq(a) \o b
    BY ONLY <2>4, <2>5, FlatAppend
  <2>8. Append(a, b) \in Seq(Seq(Nat)) /\ Len(Append(a, b)) = n + 1
    <3> DEFINE T == Seq(Nat)
    <3> HIDE DEF T
    <3>1. a \in Seq(T) /\ b \in T
      BY ONLY <2>4, <2>5 DEF T
    <3>2. Append(a, b) \in Seq(T) /\ Len(Append(a, b)) = Len(a) + 1
      BY ONLY <3>1, AppendProperties
    <3> QED
      BY ONLY <2>4, <3>2 DEF T
  <2>9. n + 1 \in 1..n + 1
    BY ONLY <1>2
  <2> QED
    BY ONLY <1>1, <2>2, <2>6, <2>7, <2>8, <2>9
<1> QED
  BY ONLY <1>3, <1>4

LEMMA ConstructIs ==
  ASSUME NEW e, Fits(e), NEW ms, ms = construct_kl_messages(e)
  PROVE  /\ ms \in Seq(Seq(Nat)) /\ Len(ms) = RegionCount(e)
         /\ FlattenSeq(ms) = SubSeq(e.file, 1, Offset(e)[RegionCount(e)])
<1>1. PICK n, f, file : n = RegionCount(e) /\ f = Offset(e) /\ file = e.file
  OBVIOUS
<1>2. /\ n \in Nat /\ f[0] = 0 /\ Len(file) \in Nat
      /\ \A k \in 0..n : f[k] \in 0..Len(file)
      /\ \A j, k \in 0..n : j <= k => f[j] <= f[k]
  BY ONLY <1>1, Fits(e), OffsetIs
<1>3. file \in Seq(Nat)
  BY <1>1 DEF Fits, Entry
<1>4. ms = [k \in 1..n |-> SubSeq(file, f[k - 1] + 1, f[k])]
  BY <1>1 DEF construct_kl_messages
<1>5. \A k \in 1..n : SubSeq(file, f[k - 1] + 1, f[k]) \in Seq(Nat)
  <2> TAKE k \in 1..n
  <2>1. k - 1 \in 0..n /\ k \in 0..n
    BY ONLY <1>2, k \in 1..n
  <2>2. f[k - 1] \in 0..Len(file) /\ f[k] \in 0..Len(file)
    BY ONLY <1>2, <2>1
  <2>3. f[k - 1] + 1 \in Int /\ f[k] \in Int /\ \A i \in f[k - 1] + 1..f[k] : i \in 1..Len(file)
    BY ONLY <1>2, <2>2
  <2>4. \A i \in f[k - 1] + 1..f[k] : file[i] \in Nat
    BY ONLY <1>3, <2>3, ElementOfSeq
  <2> QED
    BY ONLY <2>3, <2>4, SubSeqProperties
<1> DEFINE T == Seq(Nat)
<1>6. ms \in [1..n -> T]
  BY ONLY <1>4, <1>5
<1> HIDE DEF T
<1>7. ms \in Seq(T) /\ Len(ms) = n
  BY ONLY <1>2, <1>6
<1>8. ms \in Seq(Seq(Nat))
  BY ONLY <1>7 DEF T
<1> DEFINE Good(k) == FlattenSeq(SubSeq(ms, 1, k)) = SubSeq(file, 1, f[k])
           Lacking == {k \in 0..n : ~Good(k)}
<1>9. Good(0)
  <2>1. SubSeq(ms, 1, 0) = <<>> /\ SubSeq(file, 1, 0) = <<>>
    <3>1. 1 \in Int /\ 0 \in Int /\ 0 < 1
      OBVIOUS
    <3> QED
      BY ONLY <3>1, SubSeqEmpty
  <2> QED
    BY <1>2, <2>1, FlatEmpty
<1>10. ASSUME NEW k \in 0..n, k < n, Good(k) PROVE Good(k + 1)
  <2>1. k \in 0..Len(ms) /\ k < Len(ms) /\ k + 1 \in 1..n /\ k + 1 \in 0..n /\ k <= k + 1 /\ (k + 1) - 1 = k
    BY ONLY <1>2, <1>7, <1>10
  <2>2. FlattenSeq(SubSeq(ms, 1, k + 1)) = FlattenSeq(SubSeq(ms, 1, k)) \o ms[k + 1]
    BY ONLY <1>8, <2>1, FlatStep
  <2>3. ms[k + 1] = SubSeq(file, f[k] + 1, f[k + 1])
    BY ONLY <1>4, <2>1
  <2>4. f[k] \in 0..Len(file) /\ f[k + 1] \in 0..Len(file) /\ f[k] <= f[k + 1]
    BY ONLY <1>2, <1>10, <2>1
  <2>5. SubSeq(file, 1, f[k]) \o SubSeq(file, f[k] + 1, f[k + 1]) = SubSeq(file, 1, f[k + 1])
    <3>1. 1 \in 1..Len(file) + 1 /\ f[k] \in 1 - 1..Len(file) /\ f[k + 1] \in f[k]..Len(file)
      BY ONLY <1>2, <2>4
    <3> QED
      BY ONLY <1>3, <3>1, ConcatAdjacentSubSeq
  <2> QED
    BY ONLY <1>10, <2>2, <2>3, <2>5
<1> HIDE DEF Good
<1>11. Lacking = {}
  <2> SUFFICES ASSUME Lacking # {} PROVE FALSE
    OBVIOUS
  <2>1. Lacking \in SUBSET Nat
    BY <1>2
  <2>2. PICK m \in Lacking : \A k \in Lacking : m <= k
    BY <2>1, SmallestOf
  <2>3. m # 0 /\ m \in 0..n /\ ~Good(m)
    BY <1>9
  <2>4. m - 1 \in 0..n /\ m - 1 < n /\ ~(m <= m - 1) /\ m - 1 + 1 = m
    BY <1>2, <2>3
  <2>5. Good(m - 1)
    BY <2>2, <2>4
  <2> QED
    BY <1>10, <2>3, <2>4, <2>5
<1>12. FlattenSeq(SubSeq(ms, 1, n)) = SubSeq(file, 1, f[n])
  <2>1. n \in 0..n
    BY ONLY <1>2
  <2> QED
    BY ONLY <1>11, <2>1 DEF Good
<1>13. SubSeq(ms, 1, n) = ms
  BY ONLY <1>7, SubSeqFull
<1> QED
  BY ONLY <1>1, <1>7, <1>8, <1>12, <1>13

\* How long the first k messages are.
Ends(ms, end) == Summed(end, [k \in 1..Len(ms) |-> Len(ms[k])], Len(ms))

LEMMA ConvertIs ==
  ASSUME NEW ms \in Seq(Seq(Nat)), NEW r, r = convert_kl_messages_to_regions(ms),
         NEW n, n = Len(ms)
  PROVE  /\ r \in Seq([start : Nat, end : Nat]) /\ Len(r) = n
         /\ \E end : /\ Ends(ms, end) /\ end[n] = Len(FlattenSeq(ms))
                     /\ \A k \in 1..n : Size(r[k]) = Len(ms[k])
<1>1. n \in Nat /\ DOMAIN ms = 1..n /\ \A k \in 1..n : ms[k] \in Seq(Nat) /\ Len(ms[k]) \in Nat
  OBVIOUS
<1> DEFINE g == [k \in 1..n |-> Len(ms[k])]
           f == CHOOSE h : h = [k \in 0..n |-> IF k = 0 THEN 0 ELSE h[k - 1] + Len(ms[k])]
<1>4. \E h : h = [k \in 0..n |-> IF k = 0 THEN 0 ELSE h[k - 1] + Len(ms[k])]
  <2>1. PICK h : h = [k \in 0..n |-> IF k = 0 THEN 0 ELSE h[k - 1] + g[k]]
    <3> HIDE DEF g
    <3> QED
      BY ONLY <1>1, AddExists
  <2>2. \A k \in 0..n : k # 0 => g[k] = Len(ms[k])
    BY <1>1
  <2> HIDE DEF g
  <2>3. h = [k \in 0..n |-> IF k = 0 THEN 0 ELSE h[k - 1] + Len(ms[k])]
    BY ONLY <2>1, <2>2
  <2> QED
    BY ONLY <2>3
<1>5. f = [k \in 0..n |-> IF k = 0 THEN 0 ELSE f[k - 1] + Len(ms[k])]
  BY ONLY <1>4
<1>6. r = [k \in 1..n |-> [start |-> f[k - 1] + 1, end |-> f[k]]]
  BY ONLY <1>1, r = convert_kl_messages_to_regions(ms), n = Len(ms) DEF convert_kl_messages_to_regions
<1> HIDE DEF f
<1>7. \A k \in 0..n : f[k] = IF k = 0 THEN 0 ELSE f[k - 1] + Len(ms[k])
  BY ONLY <1>5
<1>8. Summed(f, g, n)
  <2>1. \A k \in 1..n : g[k] = Len(ms[k]) /\ g[k] \in Nat
    BY ONLY <1>1
  <2>2. \A k \in 0..n : k # 0 => k \in 1..n
    BY ONLY <1>1
  <2> HIDE DEF g
  <2>3. \A k \in 0..n : f[k] = IF k = 0 THEN 0 ELSE f[k - 1] + g[k]
    BY ONLY <1>7, <2>1, <2>2
  <2> QED
    BY ONLY <1>1, <2>1, <2>3 DEF Summed
<1>81. Ends(ms, f)
  BY ONLY <1>8, n = Len(ms) DEF Ends
<1> HIDE DEF g
<1>9. \A k \in 0..n : f[k] \in Nat
  BY ONLY <1>8, SummedGrows
<1>10. \A k \in 1..n : f[k] = f[k - 1] + Len(ms[k]) /\ f[k - 1] \in Nat /\ f[k] \in Nat
  <2>1. \A k \in 1..n : k \in 0..n /\ k # 0 /\ k - 1 \in 0..n
    BY ONLY <1>1
  <2> QED
    <3>1. \A k \in 1..n : f[k] = f[k - 1] + Len(ms[k])
      BY ONLY <1>7, <2>1
    <3>2. \A k \in 1..n : f[k - 1] \in Nat /\ f[k] \in Nat
      BY ONLY <1>9, <2>1
    <3> QED
      BY ONLY <3>1, <3>2
<1>11. r \in Seq([start : Nat, end : Nat]) /\ Len(r) = n
  <2>1. \A k \in 1..n : [start |-> f[k - 1] + 1, end |-> f[k]] \in [start : Nat, end : Nat]
    BY ONLY <1>10
  <2> DEFINE T == [start : Nat, end : Nat]
  <2>2. r \in [1..n -> T]
    BY ONLY <1>6, <2>1
  <2> HIDE DEF T
  <2>3. n \in Nat
    BY ONLY <1>1
  <2>4. r \in Seq(T) /\ Len(r) = n
    BY ONLY <2>2, <2>3
  <2>5. r \in Seq([start : Nat, end : Nat])
    BY ONLY <2>4 DEF T
  <2> QED
    BY ONLY <2>4, <2>5
<1>12. ASSUME NEW k \in 1..n PROVE Size(r[k]) = Len(ms[k])
  <2>1. r[k].start = f[k - 1] + 1 /\ r[k].end = f[k]
    BY ONLY <1>6, k \in 1..n
  <2>2. Len(ms[k]) \in Nat
    BY ONLY <1>1, k \in 1..n
  <2>3. f[k] = f[k - 1] + Len(ms[k]) /\ f[k - 1] \in Nat
    BY ONLY <1>10, k \in 1..n
  <2>4. Size(r[k]) = (f[k] - (f[k - 1] + 1)) + 1
    BY ONLY <2>1 DEF Size
  <2>5. PICK x, y, z : x = f[k - 1] /\ y = f[k] /\ z = Len(ms[k])
    OBVIOUS
  <2> QED
    BY ONLY <2>2, <2>3, <2>4, <2>5
<1> DEFINE Good(k) == Len(FlattenSeq(SubSeq(ms, 1, k))) = f[k]
           Lacking == {k \in 0..n : ~Good(k)}
<1>13. Good(0)
  <2>1. SubSeq(ms, 1, 0) = <<>>
    <3>1. 1 \in Int /\ 0 \in Int /\ 0 < 1
      OBVIOUS
    <3> QED
      BY ONLY <3>1, SubSeqEmpty
  <2>2. f[0] = 0
    BY <1>1, <1>7
  <2>3. Len(FlattenSeq(SubSeq(ms, 1, 0))) = 0
    <3>1. Len(<<>>) = 0
      OBVIOUS
    <3> QED
      BY ONLY <2>1, <3>1, FlatEmpty
  <2> QED
    BY ONLY <2>2, <2>3
<1>14. ASSUME NEW k \in 0..n, k < n, Good(k) PROVE Good(k + 1)
  <2>1. k \in 0..Len(ms) /\ k < Len(ms) /\ k + 1 \in 1..n /\ (k + 1) - 1 = k
    BY ONLY <1>1, <1>14, n = Len(ms)
  <2>2. FlattenSeq(SubSeq(ms, 1, k + 1)) = FlattenSeq(SubSeq(ms, 1, k)) \o ms[k + 1]
    BY ONLY <2>1, ms \in Seq(Seq(Nat)), FlatStep
  <2>3. FlattenSeq(SubSeq(ms, 1, k)) \in Seq(Nat)
    BY ONLY <2>1, ms \in Seq(Seq(Nat)), FlatFront
  <2>4. ms[k + 1] \in Seq(Nat) /\ f[k + 1] = f[k] + Len(ms[k + 1])
    BY ONLY <1>1, <1>10, <2>1
  <2>5. Len(FlattenSeq(SubSeq(ms, 1, k)) \o ms[k + 1])
          = Len(FlattenSeq(SubSeq(ms, 1, k))) + Len(ms[k + 1])
    BY ONLY <2>3, <2>4, ConcatProperties
  <2> QED
    BY ONLY <1>14, <2>2, <2>4, <2>5
<1> HIDE DEF Good
<1>15. Lacking = {}
  <2> SUFFICES ASSUME Lacking # {} PROVE FALSE
    OBVIOUS
  <2>1. Lacking \in SUBSET Nat
    BY <1>1
  <2>2. PICK m \in Lacking : \A k \in Lacking : m <= k
    BY <2>1, SmallestOf
  <2>3. m # 0 /\ m \in 0..n /\ ~Good(m)
    BY <1>13
  <2>4. m - 1 \in 0..n /\ m - 1 < n /\ ~(m <= m - 1) /\ m - 1 + 1 = m
    BY <1>1, <2>3
  <2>5. Good(m - 1)
    BY <2>2, <2>4
  <2> QED
    BY <1>14, <2>3, <2>4, <2>5
<1>16. Len(FlattenSeq(SubSeq(ms, 1, n))) = f[n]
  <2>1. n \in 0..n
    BY ONLY <1>1
  <2> QED
    BY ONLY <1>15, <2>1 DEF Good
<1>17. SubSeq(ms, 1, n) = ms
  BY ONLY n = Len(ms), ms \in Seq(Seq(Nat)), SubSeqFull
<1>18. f[n] = Len(FlattenSeq(ms))
  BY ONLY <1>16, <1>17
<1> QED
  BY ONLY <1>11, <1>12, <1>18, <1>81

Picked(f, g, m, end, h, n, p) ==
  /\ Summed(f, g, m) /\ Summed(end, h, n)
  /\ \A r \in 1..m : p[r] \in 1..n /\ g[r] = h[p[r]]
  /\ \A r \in 1..m - 1 : p[r] < p[r + 1]

LEMMA PickedIsLess ==
  ASSUME NEW f, NEW g, NEW m, NEW end, NEW h, NEW n, NEW p, Picked(f, g, m, end, h, n, p)
  PROVE  f[m] <= end[n]
<1>1. /\ m \in Nat /\ n \in Nat /\ (\A k \in 1..n : h[k] \in Nat) /\ \A k \in 1..m : g[k] \in Nat
  BY DEF Picked, Summed
<1>2. \A k \in 0..m : f[k] = IF k = 0 THEN 0 ELSE f[k - 1] + g[k]
  BY DEF Picked, Summed
<1>3. \A k \in 0..n : end[k] = IF k = 0 THEN 0 ELSE end[k - 1] + h[k]
  BY DEF Picked, Summed
<1>4. \A r \in 1..m : p[r] \in 1..n /\ g[r] = h[p[r]]
  BY DEF Picked
<1>5. \A r \in 1..m - 1 : p[r] < p[r + 1]
  BY DEF Picked
<1>6. /\ \A k \in 0..m : f[k] \in Nat
  BY SummedGrows DEF Picked
<1>7. /\ \A k \in 0..n : end[k] \in Nat
      /\ \A j, k \in 0..n : j <= k => end[j] <= end[k]
  BY SummedGrows DEF Picked
<1>8. f[0] = 0
  BY <1>1, <1>2
<1> DEFINE Good(r) == r = 0 \/ f[r] <= end[p[r]]
           Lacking == {r \in 0..m : ~Good(r)}
<1>9. ASSUME NEW r \in 1..m, Good(r - 1) PROVE Good(r)
  <2>1. PICK k : k = p[r]
    OBVIOUS
  <2>2. k \in 1..n /\ k \in 0..n /\ k - 1 \in 0..n /\ k # 0 /\ g[r] = h[k] /\ h[k] \in Nat
    BY <1>1, <1>4, <2>1
  <2>3. end[k] = end[k - 1] + h[k] /\ end[k - 1] \in Nat /\ end[k] \in Nat
    BY ONLY <1>3, <1>7, <2>2
  <2>4. r \in 0..m /\ r - 1 \in 0..m /\ r # 0
    BY <1>1
  <2>5. f[r] = f[r - 1] + h[k] /\ f[r - 1] \in Nat
    BY ONLY <1>2, <1>6, <2>2, <2>4
  <2>6. f[r - 1] <= end[k - 1]
    <3>1. CASE r = 1
      <4>1. f[r - 1] = 0
        BY ONLY <1>8, <3>1
      <4> QED
        BY ONLY <2>3, <4>1
    <3>2. CASE r # 1
      <4>1. r - 1 \in 1..m - 1 /\ r - 1 \in 1..m /\ (r - 1) + 1 = r /\ r - 1 # 0
        BY ONLY <1>1, <3>2, r \in 1..m
      <4>2. PICK j : j = p[r - 1]
        OBVIOUS
      <4>3. j \in 1..n /\ j < k
        BY ONLY <1>4, <1>5, <2>1, <4>1, <4>2
      <4>4. j \in 0..n /\ j <= k - 1
        BY ONLY <1>1, <2>2, <4>3
      <4>5. end[j] <= end[k - 1] /\ end[j] \in Nat
        BY ONLY <1>7, <2>2, <4>4
      <4>6. f[r - 1] <= end[j]
        BY ONLY <1>9, <4>1, <4>2
      <4> QED
        BY ONLY <2>3, <2>5, <4>5, <4>6
    <3> QED
      BY ONLY <3>1, <3>2
  <2>7. f[r] <= end[k]
    BY ONLY <2>2, <2>3, <2>5, <2>6
  <2> QED
    BY ONLY <2>1, <2>7
<1> HIDE DEF Good
<1>10. Lacking = {}
  <2> SUFFICES ASSUME Lacking # {} PROVE FALSE
    OBVIOUS
  <2>1. Lacking \in SUBSET Nat
    BY <1>1
  <2>2. PICK r \in Lacking : \A k \in Lacking : r <= k
    BY <2>1, SmallestOf
  <2>3. r # 0 /\ r \in 0..m /\ ~Good(r)
    BY DEF Good
  <2>4. r \in 1..m /\ r - 1 \in 0..m /\ ~(r <= r - 1)
    BY <1>1, <2>3
  <2>5. Good(r - 1)
    BY <2>2, <2>4
  <2> QED
    BY <1>9, <2>3, <2>4, <2>5
<1>11. CASE m = 0
  <2>1. 0 \in 0..n
    BY ONLY <1>1
  <2>2. end[n] \in Nat
    <3>1. n \in 0..n
      BY ONLY <1>1
    <3> QED
      BY ONLY <1>7, <3>1
  <2> QED
    BY ONLY <1>8, <1>11, <2>2
<1>12. CASE m # 0
  <2>1. m \in 0..m /\ m \in 1..m /\ n \in 0..n
    BY ONLY <1>1, <1>12
  <2>2. f[m] <= end[p[m]] /\ p[m] \in 1..n
    <3>1. Good(m)
      BY ONLY <1>10, <2>1
    <3> QED
      BY ONLY <1>4, <1>12, <2>1, <3>1 DEF Good
  <2>3. p[m] \in 0..n /\ p[m] <= n
    BY ONLY <1>1, <2>2
  <2>4. end[p[m]] <= end[n] /\ end[p[m]] \in Nat /\ end[n] \in Nat /\ f[m] \in Nat
    BY ONLY <1>6, <1>7, <2>1, <2>3
  <2> QED
    BY ONLY <2>2, <2>4
<1> QED
  BY ONLY <1>11, <1>12

SavedArgs(ms, null, e) ==
  /\ ms \in Seq(Seq(Nat)) /\ null \in SUBSET (1..Len(ms)) /\ null # 1..Len(ms)
  /\ e = without_null_regions([file |-> FlattenSeq(ms),
                               regions |-> convert_kl_messages_to_regions(ms)], null)

LEMMA SavedIs ==
  ASSUME NEW ms, NEW null, NEW e, SavedArgs(ms, null, e)
  PROVE  Fits(e) /\ e.file = FlattenSeq(ms) /\ e.regions # <<>> /\ RegionCount(e) >= 1
<1>1. /\ ms \in Seq(Seq(Nat)) /\ null \in SUBSET (1..Len(ms)) /\ null # 1..Len(ms)
      /\ e = without_null_regions([file |-> FlattenSeq(ms),
                                   regions |-> convert_kl_messages_to_regions(ms)], null)
  BY DEF SavedArgs
<1>2. PICK n, r0, file : n = Len(ms) /\ r0 = convert_kl_messages_to_regions(ms) /\ file = FlattenSeq(ms)
  OBVIOUS
<1>3. n \in Nat /\ file \in Seq(Nat)
  <2>1. file \in Seq(Nat)
    BY ONLY <1>1, <1>2, FlatTyped
  <2> QED
    BY <1>1, <1>2, <2>1
<1>4. r0 \in Seq([start : Nat, end : Nat]) /\ Len(r0) = n
  BY ONLY <1>1, <1>2, ConvertIs
<1>5. PICK end : /\ Ends(ms, end) /\ end[n] = Len(file)
                 /\ \A k \in 1..n : Size(r0[k]) = Len(ms[k])
  BY ONLY <1>1, <1>2, ConvertIs
<1>6. PICK S : S = (1..n) \ null
  OBVIOUS
<1>7. S \in SUBSET Nat /\ IsFiniteSet(S) /\ S # {} /\ S \subseteq 1..n
  <2>1. IsFiniteSet(1..n)
    <3>1. 1 \in Int /\ n \in Int
      BY <1>3
    <3> QED
      BY ONLY <3>1, FS_Interval
  <2>2. S \subseteq 1..n /\ S # {}
    BY ONLY <1>1, <1>2, <1>6
  <2>3. IsFiniteSet(S)
    BY ONLY <2>1, <2>2, FS_Subset
  <2> QED
    BY <1>3, <2>2, <2>3
<1>8. PICK m : m = Cardinality(S)
  OBVIOUS
<1>9. m \in Nat /\ m >= 1
  BY <1>7, <1>8, FS_CardinalityType, FS_EmptySet
<1>10. /\ \A r \in 1..m : Nth(S, r) \in S /\ Cardinality({q \in S : q < Nth(S, r)}) = r - 1
  BY ONLY <1>7, <1>8, NthFound
<1>11. \A i, j \in 1..m : i <= j => Nth(S, i) <= Nth(S, j)
  BY ONLY <1>7, <1>8, NthGrows
<1>12. PICK a : a = At(S, r0)
  OBVIOUS
<1>13. /\ a \in Seq([start : Nat, end : Nat]) /\ Len(a) = m
       /\ \A r \in 1..m : a[r] = r0[Nth(S, r)]
  <2> DEFINE T == [start : Nat, end : Nat]
  <2>0. r0 \in Seq(T)
    BY ONLY <1>4
  <2> HIDE DEF T
  <2>1. \A k \in S : r0[k] \in T
    BY ONLY <1>4, <1>7, <2>0, ElementOfSeq
  <2>2. a \in Seq(T) /\ Len(a) = m /\ \A r \in 1..m : a[r] = r0[Nth(S, r)]
    BY ONLY <1>7, <1>8, <1>12, <2>1, AtTyped
  <2> QED
    BY ONLY <2>2 DEF T
<1>14. e = [file |-> file, regions |-> a]
  <2>1. DOMAIN r0 = 1..n
    BY <1>4
  <2>2. e = [[file |-> file, regions |-> r0] EXCEPT !.regions = At((DOMAIN @) \ null, @)]
    BY ONLY <1>1, <1>2 DEF without_null_regions
  <2> QED
    BY ONLY <1>6, <1>12, <2>1, <2>2
<1>15. e.file = file /\ e.regions = a /\ e \in Entry /\ RegionCount(e) = m
  BY ONLY <1>3, <1>13, <1>14 DEF Entry, RegionCount
<1>16. \A r \in 1..m : Nth(S, r) \in 1..n /\ Size(a[r]) = Len(ms[Nth(S, r)])
  BY ONLY <1>5, <1>7, <1>10, <1>13
<1>17. \A k \in 1..n : Len(ms[k]) \in Nat
  BY <1>1, <1>2
<1>18. SizesFit(e)
  <2>1. DOMAIN e.regions = 1..m
    BY <1>13, <1>15
  <2>2. \A k \in DOMAIN e.regions : Size(e.regions[k]) \in Nat
    BY ONLY <1>15, <1>16, <1>17, <2>1
  <2> QED
    BY ONLY <1>15, <2>2 DEF SizesFit
<1>19. PICK g : Summed(Offset(e), g, m) /\ \A k \in 1..m : g[k] = Size(a[k])
  BY ONLY <1>15, <1>18, OffsetAdds
<1>20. Offset(e)[m] <= end[n]
  <2> DEFINE p == [r \in 1..m |-> Nth(S, r)]
             h == [k \in 1..n |-> Len(ms[k])]
  <2>1. Summed(end, h, n)
    BY ONLY <1>2, <1>5 DEF Ends
  <2>2. \A r \in 1..m : p[r] = Nth(S, r)
    OBVIOUS
  <2>3. \A k \in 1..n : h[k] = Len(ms[k])
    OBVIOUS
  <2> HIDE DEF p, h
  <2>4. \A r \in 1..m : p[r] \in 1..n /\ g[r] = h[p[r]]
    BY ONLY <1>16, <1>19, <2>2, <2>3
  <2>5. \A r \in 1..m - 1 : p[r] < p[r + 1]
    <3> TAKE r \in 1..m - 1
    <3>1. r \in 1..m /\ r + 1 \in 1..m /\ r <= r + 1 /\ r - 1 # (r + 1) - 1
      BY ONLY <1>9, r \in 1..m - 1
    <3>2. Nth(S, r) <= Nth(S, r + 1)
      BY ONLY <1>11, <3>1
    <3>3. Nth(S, r) # Nth(S, r + 1)
      BY ONLY <1>10, <3>1
    <3>4. Nth(S, r) \in 1..n /\ Nth(S, r + 1) \in 1..n
      BY ONLY <1>16, <3>1
    <3> QED
      BY ONLY <1>3, <2>2, <3>1, <3>2, <3>3, <3>4
  <2>6. PICK f : f = Offset(e)
    OBVIOUS
  <2>7. Picked(f, g, m, end, h, n, p)
    BY ONLY <1>19, <2>1, <2>4, <2>5, <2>6 DEF Picked
  <2>8. f[m] <= end[n]
    BY ONLY <2>7, PickedIsLess
  <2> QED
    BY ONLY <2>6, <2>8
<1>21. Fits(e)
  BY ONLY <1>5, <1>15, <1>18, <1>20 DEF Fits, RegionsFit, SizesFit
<1>22. e.regions # <<>>
  BY <1>9, <1>13, <1>15
<1> QED
  BY ONLY <1>2, <1>9, <1>15, <1>21, <1>22

-----------------------------------------------------------------------------
(* The places in fuzz_one and common_fuzz_stuff *)

\* The list has the cells c; of the first k of them M2 has those after the i-th
\* up to the j-th.
Divided(l, c, d, i, j, k, prev, next) ==
  /\ Layout(l, c, d) /\ i \in Nat /\ j \in Nat /\ k \in Nat
  /\ i < j /\ j <= k /\ k <= Len(c) - 1
  /\ prev = (IF i = 0 THEN 0 ELSE c[i])
  /\ next = (IF j = k THEN c[Len(c)] ELSE c[j + 1])

\* Of the messages ms some are behind the first k cells, the rest is to come.
Queued(l, c, k, rest, ms) ==
  /\ rest \in Seq(Seq(Nat)) /\ ms \in Seq(Seq(Nat)) /\ Len(ms) >= 1
  /\ Len(ms) = ((Len(c) - 1) - k) + Len(rest)
  /\ \A q \in 1..(Len(c) - 1) - k : l.data[c[k + q]] = ms[q]
  /\ \A q \in 1..Len(rest) : rest[q] = ms[((Len(c) - 1) - k) + q]

\* M2 has the messages ms.
Filled(l, c, i, j, ms) ==
  /\ ms \in Seq(Seq(Nat)) /\ Len(ms) = j - i
  /\ \A q \in 1..j - i : l.data[c[i + q]] = ms[q]

AtReady(l, prev, next, c, i, j, k) ==
  Divided(l, c, <<>>, i, j, k, prev, next) /\ k = Len(c) - 1
AtPush(l, prev, next, end, rest, ms, c, i, j, k) ==
  Divided(l, c, <<>>, i, j, k, prev, next) /\ end = c[k] /\ Queued(l, c, k, rest, ms)
AtFree(l, prev, next, cur, ms, c, d, i, j, k) ==
  /\ Divided(l, c, d, i, j, k, prev, next) /\ k = Len(c) - 1 /\ Filled(l, c, i, j, ms)
  /\ Len(d) >= 1 /\ cur = d[1] /\ l.next[d[Len(d)]] = next
  /\ \A q \in 1..Len(d) - 1 : l.next[d[q]] = d[q + 1]
AtRun(l, prev, next, ms, c, i, j, k) ==
  /\ Divided(l, c, <<>>, i, j, k, prev, next) /\ k = Len(c) - 1 /\ Filled(l, c, i, j, ms)

LEMMA LayoutFacts ==
  ASSUME NEW l, NEW c, NEW d, Layout(l, c, d)
  PROVE  /\ l \in Heap /\ c \in Seq(Nat) /\ d \in Seq(Nat) /\ Len(c) \in Nat /\ Len(c) >= 1
         /\ Len(l.next) \in Nat /\ Len(d) \in Nat
         /\ l.head = c[1] /\ l.tail = c[Len(c)] /\ l.next[c[Len(c)]] = 0
         /\ \A q \in 1..Len(c) : c[q] \in 1..Len(l.next)
         /\ \A q, r \in 1..Len(c) : q # r => c[q] # c[r]
         /\ \A q \in 1..Len(c) - 1 : l.next[c[q]] = c[q + 1]
         /\ \A q \in 1..Len(d) : d[q] \in 1..Len(l.next)
         /\ l.size = (Len(c) - 1) + Len(d)
<1>1. l \in Heap /\ c \in Seq(Nat) /\ d \in Seq(Nat)
      /\ l.head = c[1] /\ l.tail = c[Len(c)] /\ l.next[c[Len(c)]] = 0
      /\ l.size = (Len(c) - 1) + Len(d) /\ Len(c) >= 1
  BY DEF Layout, Sane, Chain
<1>2. \A q \in 1..Len(c) : c[q] \in 1..Len(l.next)
  BY DEF Layout, Chain
<1>3. \A q, r \in 1..Len(c) : q # r => c[q] # c[r]
  BY DEF Layout, Chain, Distinct
<1>4. \A q \in 1..Len(c) - 1 : l.next[c[q]] = c[q + 1]
  BY DEF Layout, Chain
<1>5. \A q \in 1..Len(d) : d[q] \in 1..Len(l.next)
  BY DEF Layout
<1>6. Len(l.next) \in Nat /\ Len(c) \in Nat /\ Len(d) \in Nat
  <2>1. l.next \in Seq(Nat)
    BY ONLY <1>1 DEF Heap
  <2> QED
    BY ONLY <1>1, <2>1, LenProperties
<1> QED
  BY ONLY <1>1, <1>2, <1>3, <1>4, <1>5, <1>6

ChooseArgs(l, c, start, cnt, b) ==
  /\ Layout(l, c, <<>>) /\ start \in Nat /\ cnt \in Nat /\ cnt >= 1
  /\ start + cnt <= Len(c) - 1 /\ b = Boundary(l, start, cnt)

LEMMA ChooseStep ==
  ASSUME NEW l, NEW c, NEW start, NEW cnt, NEW b, ChooseArgs(l, c, start, cnt, b)
  PROVE  AtReady(l, b.prev, b.next, c, start, start + cnt, Len(c) - 1)
<1>1. /\ Layout(l, c, <<>>) /\ start \in Nat /\ cnt \in Nat /\ cnt >= 1
      /\ start + cnt <= Len(c) - 1 /\ b = Boundary(l, start, cnt)
  BY DEF ChooseArgs
<1>2. PICK n : n = Len(c)
  OBVIOUS
<1>3. n \in Nat /\ l.tail = c[n]
  BY ONLY <1>1, <1>2, LayoutFacts
<1>4. Linked(l) = [r \in 1..n - 1 |-> c[r]] /\ Len(Linked(l)) = n - 1
  BY ONLY <1>1, <1>2, LinkedIs
<1>5. PICK m : m = Linked(l)
  OBVIOUS
<1>6. Len(m) = n - 1 /\ \A r \in 1..n - 1 : m[r] = c[r]
  BY ONLY <1>4, <1>5
<1>7. /\ b.prev = (IF start = 0 THEN 0 ELSE m[start])
      /\ b.next = (IF start + cnt < Len(m) THEN m[(start + cnt) + 1] ELSE l.tail)
  BY ONLY <1>1, <1>5 DEF Boundary, Null
<1>8. b.prev = IF start = 0 THEN 0 ELSE c[start]
  <2>1. start # 0 => start \in 1..n - 1
    BY ONLY <1>1, <1>2, <1>3
  <2> QED
    BY ONLY <1>6, <1>7, <2>1
<1>9. b.next = IF start + cnt = n - 1 THEN c[n] ELSE c[(start + cnt) + 1]
  <2>1. CASE start + cnt = n - 1
    BY ONLY <1>1, <1>3, <1>6, <1>7, <2>1
  <2>2. CASE start + cnt # n - 1
    <3>1. start + cnt < n - 1 /\ (start + cnt) + 1 \in 1..n - 1
      BY ONLY <1>1, <1>2, <1>3, <2>2
    <3> QED
      BY ONLY <1>6, <1>7, <2>2, <3>1
  <2> QED
    BY ONLY <2>1, <2>2
<1>10. /\ start \in Nat /\ start + cnt \in Nat /\ n - 1 \in Nat /\ start < start + cnt
       /\ start + cnt <= n - 1 /\ n - 1 <= n - 1
  BY ONLY <1>1, <1>2, <1>3
<1> QED
  BY ONLY <1>1, <1>2, <1>8, <1>9, <1>10 DEF AtReady, Divided

BeginArgs(l, prev, next, c, i, j, k, r) ==
  AtReady(l, prev, next, c, i, j, k) /\ r \in Seq(Seq(Nat)) /\ r # <<>>

LEMMA BeginStep ==
  ASSUME NEW l, NEW prev, NEW next, NEW c, NEW i, NEW j, NEW k, NEW r,
         BeginArgs(l, prev, next, c, i, j, k, r)
  PROVE  AtPush(l, prev, next, LastMessage(l), MessagesOf(r), MessagesOf(r), c, i, j, k)
<1>1. Divided(l, c, <<>>, i, j, k, prev, next) /\ k = Len(c) - 1 /\ r \in Seq(Seq(Nat)) /\ r # <<>>
  BY DEF BeginArgs, AtReady
<1>2. Layout(l, c, <<>>) /\ k \in Nat /\ k >= 1
  BY <1>1 DEF Divided
<1>3. Len(c) \in Nat
  BY ONLY <1>2, LayoutFacts
<1>4. LastMessage(l) = c[k]
  <2>1. Len(c) > 1
    BY ONLY <1>1, <1>2, <1>3
  <2> QED
    BY ONLY <1>1, <1>2, <2>1, LinkedIs
<1>5. PICK ms : ms = MessagesOf(r)
  OBVIOUS
<1>6. ms \in Seq(Seq(Nat)) /\ Len(ms) >= 1 /\ Len(ms) \in Nat
  <2>1. ms \in Seq(Seq(Nat)) /\ Len(ms) \in 1..max_seed_region_count + 1
    BY ONLY <1>1, <1>5, MessagesOfIs
  <2> QED
    BY ONLY <2>1, MaxRegionCountIs
<1>7. Queued(l, c, k, ms, ms)
  <2>1. (Len(c) - 1) - k = 0 /\ 0 + Len(ms) = Len(ms)
    BY ONLY <1>1, <1>3, <1>6
  <2>2. \A q \in 1..0 : l.data[c[k + q]] = ms[q]
    OBVIOUS
  <2>3. \A q \in 1..Len(ms) : ms[q] = ms[0 + q]
    BY ONLY <1>6
  <2> QED
    BY ONLY <1>6, <2>1, <2>2, <2>3 DEF Queued
<1> QED
  BY ONLY <1>1, <1>4, <1>5, <1>7 DEF AtPush

PushStepArgs(l, prev, next, end, rest, ms, c, i, j, k, t, p) ==
  /\ AtPush(l, prev, next, end, rest, ms, c, i, j, k) /\ rest # <<>>
  /\ t = Push(l, Head(rest)) /\ p = NewCell(l)

LEMMA PushStep ==
  ASSUME NEW l, NEW prev, NEW next, NEW end, NEW rest, NEW ms, NEW c, NEW i, NEW j, NEW k,
         NEW t, NEW p, PushStepArgs(l, prev, next, end, rest, ms, c, i, j, k, t, p)
  PROVE  /\ AtPush(t, prev, FollowTail(t, next), end, Tail(rest), ms, Append(c, p), i, j, k)
         /\ Len(l.next) <= Len(t.next) /\ Len(Append(c, p)) = Len(c) + 1
         /\ \A q \in 1..Len(c) : Append(c, p)[q] = c[q]
         /\ \A q \in 1..k : t.data[c[q]] = l.data[c[q]]
<1>1. /\ Divided(l, c, <<>>, i, j, k, prev, next) /\ end = c[k] /\ Queued(l, c, k, rest, ms)
      /\ rest # <<>> /\ t = Push(l, Head(rest)) /\ p = NewCell(l)
  BY DEF PushStepArgs, AtPush
<1>2. PICK n, u, m : n = Len(c) /\ u = Len(rest) /\ m = Head(rest)
  OBVIOUS
<1>3. /\ Layout(l, c, <<>>) /\ i \in Nat /\ j \in Nat /\ k \in Nat
      /\ i < j /\ j <= k /\ k <= n - 1
      /\ prev = (IF i = 0 THEN 0 ELSE c[i])
      /\ next = (IF j = k THEN c[n] ELSE c[j + 1])
  <2>1. /\ Layout(l, c, <<>>) /\ i \in Nat /\ j \in Nat /\ k \in Nat
        /\ i < j /\ j <= k /\ k <= Len(c) - 1
        /\ prev = (IF i = 0 THEN 0 ELSE c[i])
        /\ next = (IF j = k THEN c[Len(c)] ELSE c[j + 1])
    BY ONLY <1>1 DEF Divided
  <2> QED
    BY ONLY <1>2, <2>1
<1>4. /\ rest \in Seq(Seq(Nat)) /\ ms \in Seq(Seq(Nat)) /\ Len(ms) >= 1
      /\ Len(ms) = ((n - 1) - k) + u
      /\ \A q \in 1..(n - 1) - k : l.data[c[k + q]] = ms[q]
      /\ \A q \in 1..u : rest[q] = ms[((n - 1) - k) + q]
  BY ONLY <1>1, <1>2 DEF Queued
<1>5. /\ n \in Nat /\ n >= 1 /\ c \in Seq(Nat)
      /\ \A q, r \in 1..n : q # r => c[q] # c[r]
  <2>1. Layout(l, c, <<>>)
    BY ONLY <1>3
  <2>2. /\ Len(c) \in Nat /\ Len(c) >= 1 /\ c \in Seq(Nat)
        /\ \A q, r \in 1..Len(c) : q # r => c[q] # c[r]
    BY ONLY <2>1, LayoutFacts
  <2> QED
    BY ONLY <1>2, <2>2
<1>6. u \in Nat /\ u >= 1 /\ m = rest[1] /\ m \in Seq(Nat) /\ Tail(rest) \in Seq(Seq(Nat))
      /\ Len(Tail(rest)) = u - 1 /\ \A q \in 1..u - 1 : Tail(rest)[q] = rest[q + 1]
  <2> DEFINE T == Seq(Nat)
  <2>1. rest \in Seq(T) /\ rest # <<>>
    BY ONLY <1>1, <1>4
  <2> HIDE DEF T
  <2>2. /\ Head(rest) \in T /\ Tail(rest) \in Seq(T) /\ Len(Tail(rest)) = Len(rest) - 1
        /\ Head(rest) = rest[1]
        /\ \A q \in 1..Len(Tail(rest)) : Tail(rest)[q] = rest[q + 1]
    BY ONLY <2>1, HeadTailProperties
  <2>3. Len(rest) \in Nat /\ Len(rest) >= 1
    BY ONLY <2>1, EmptySeq, LenProperties
  <2> QED
    BY ONLY <1>2, <2>2, <2>3 DEF T
<1>7. PICK e, w : e = Append(c, p) /\ w = Tail(rest)
  OBVIOUS
<1>8. /\ Layout(t, e, <<>>) /\ p \in Nat /\ t.tail = p
      /\ Len(l.next) <= Len(t.next) /\ t.data[c[n]] = m
      /\ \A q \in 1..n - 1 : t.data[c[q]] = l.data[c[q]]
  <2>1. PushArgs(l, c, m, p, t)
    BY ONLY <1>1, <1>2, <1>3, <1>6 DEF PushArgs
  <2>2. /\ Layout(t, Append(c, p), <<>>) /\ p \in Nat /\ t.tail = p
        /\ Len(l.next) <= Len(t.next) /\ t.data[c[Len(c)]] = m
        /\ \A q \in 1..Len(c) - 1 : t.data[c[q]] = l.data[c[q]]
    BY ONLY <2>1, PushResult
  <2> QED
    BY ONLY <1>2, <1>7, <2>2
<1>9. e \in Seq(Nat) /\ Len(e) = n + 1 /\ e[n + 1] = p /\ \A q \in 1..n : e[q] = c[q]
  BY ONLY <1>2, <1>5, <1>7, <1>8, AppendProperties
<1>10. /\ \A q \in 1..n : t.next[e[q]] = e[q + 1]
       /\ \A q, r \in 1..n + 1 : q # r => e[q] # e[r]
       /\ t.tail = e[n + 1] /\ t.next[e[n + 1]] = 0
       /\ \A q \in 1..n + 1 : e[q] \in 1..Len(t.next)
  <2>1. /\ \A q \in 1..Len(e) - 1 : t.next[e[q]] = e[q + 1]
        /\ \A q, r \in 1..Len(e) : q # r => e[q] # e[r]
        /\ t.tail = e[Len(e)] /\ t.next[e[Len(e)]] = 0
        /\ \A q \in 1..Len(e) : e[q] \in 1..Len(t.next)
    BY ONLY <1>8, LayoutFacts
  <2>2. (n + 1) - 1 = n
    BY ONLY <1>5
  <2>3. \A q \in 1..n : t.next[e[q]] = e[q + 1]
    BY ONLY <1>9, <2>1, <2>2
  <2>4. \A q, r \in 1..n + 1 : q # r => e[q] # e[r]
    BY ONLY <1>9, <2>1
  <2>5. t.tail = e[n + 1] /\ t.next[e[n + 1]] = 0
    BY ONLY <1>9, <2>1
  <2>6. \A q \in 1..n + 1 : e[q] \in 1..Len(t.next)
    BY ONLY <1>9, <2>1
  <2> QED
    BY ONLY <2>3, <2>4, <2>5, <2>6
<1>11. FollowTail(t, next) = IF j = k THEN e[n + 1] ELSE e[j + 1]
  <2>1. FollowTail(t, next) = IF t.next[next] = t.tail THEN t.tail ELSE next
    BY ONLY TRUE DEF FollowTail
  <2>2. CASE j = k
    <3>1. n \in 1..n
      BY ONLY <1>5
    <3>2. next = e[n] /\ t.next[next] = e[n + 1]
      BY ONLY <1>3, <1>9, <1>10, <2>2, <3>1
    <3> QED
      BY ONLY <1>10, <2>1, <2>2, <3>2
  <2>3. CASE j # k
    <3>1. j + 1 \in 1..n /\ j + 1 \in 1..n + 1 /\ (j + 1) + 1 \in 1..n + 1
          /\ n + 1 \in 1..n + 1 /\ (j + 1) + 1 # n + 1
      BY ONLY <1>3, <1>5, <2>3
    <3>2. next = e[j + 1]
      BY ONLY <1>3, <1>9, <2>3, <3>1
    <3>3. t.next[next] = e[(j + 1) + 1]
      BY ONLY <1>10, <3>1, <3>2
    <3>4. e[(j + 1) + 1] # e[n + 1]
      BY ONLY <1>10, <3>1
    <3> QED
      BY ONLY <1>10, <2>1, <2>3, <3>2, <3>3, <3>4
  <2> QED
    BY ONLY <2>2, <2>3
<1>12. prev = (IF i = 0 THEN 0 ELSE e[i]) /\ end = e[k]
  <2>1. (i # 0 => i \in 1..n) /\ k \in 1..n
    BY ONLY <1>3, <1>5
  <2> QED
    BY ONLY <1>1, <1>3, <1>9, <2>1
<1>13. Divided(t, e, <<>>, i, j, k, prev, FollowTail(t, next))
  <2>1. k <= Len(e) - 1
    BY ONLY <1>3, <1>5, <1>9
  <2> QED
    BY ONLY <1>3, <1>8, <1>9, <1>11, <1>12, <2>1 DEF Divided
<1>14. \A q \in 1..n - k : t.data[e[k + q]] = ms[q]
  <2> TAKE q \in 1..n - k
  <2>1. CASE q = n - k
    <3>1. k + q = n /\ n \in 1..n /\ ((n - 1) - k) + 1 = q /\ 1 \in 1..u
      BY ONLY <1>3, <1>5, <1>6, <2>1
    <3>2. m = ms[q]
      BY ONLY <1>4, <1>6, <3>1
    <3> QED
      BY ONLY <1>8, <1>9, <3>1, <3>2
  <2>2. CASE q # n - k
    <3>1. q \in 1..(n - 1) - k /\ k + q \in 1..n - 1 /\ k + q \in 1..n
      BY ONLY <1>3, <1>5, <2>2, q \in 1..n - k
    <3>2. e[k + q] = c[k + q] /\ t.data[c[k + q]] = l.data[c[k + q]]
      BY ONLY <1>8, <1>9, <3>1
    <3> QED
      BY ONLY <1>4, <3>1, <3>2
  <2> QED
    BY ONLY <2>1, <2>2
<1>15. \A q \in 1..u - 1 : w[q] = ms[(n - k) + q]
  <2> TAKE q \in 1..u - 1
  <2>1. q + 1 \in 1..u /\ ((n - 1) - k) + (q + 1) = (n - k) + q
    BY ONLY <1>3, <1>5, <1>6, q \in 1..u - 1
  <2>2. w[q] = rest[q + 1]
    BY ONLY <1>6, <1>7, q \in 1..u - 1
  <2> QED
    BY ONLY <1>4, <2>1, <2>2
<1>16. Queued(t, e, k, w, ms)
  <2>1. (Len(e) - 1) - k = n - k /\ Len(w) = u - 1
    BY ONLY <1>3, <1>5, <1>6, <1>7, <1>9
  <2>2. Len(ms) = (n - k) + (u - 1)
    BY ONLY <1>3, <1>4, <1>5, <1>6
  <2>3. w \in Seq(Seq(Nat))
    BY ONLY <1>6, <1>7
  <2> QED
    BY ONLY <1>4, <1>14, <1>15, <2>1, <2>2, <2>3 DEF Queued
<1>17. \A q \in 1..k : t.data[c[q]] = l.data[c[q]]
  <2>1. \A q \in 1..k : q \in 1..n - 1
    BY ONLY <1>3, <1>5
  <2> QED
    BY ONLY <1>8, <2>1
<1> QED
  <2>1. AtPush(t, prev, FollowTail(t, next), end, w, ms, e, i, j, k)
    BY ONLY <1>12, <1>13, <1>16 DEF AtPush
  <2> QED
    BY ONLY <1>2, <1>7, <1>8, <1>9, <1>17, <2>1

RelinkStepArgs(l, prev, next, end, rest, ms, c, i, j, k, t, n, cur) ==
  /\ AtPush(l, prev, next, end, rest, ms, c, i, j, k) /\ rest = <<>>
  /\ t = Relinked(l, prev, next, end) /\ n = Len(c)
  /\ cur = IF prev = Null THEN l.head ELSE l.next[prev]

LEMMA RelinkStep ==
  ASSUME NEW l, NEW prev, NEW next, NEW end, NEW rest, NEW ms, NEW c, NEW i, NEW j, NEW k,
         NEW t, NEW n, NEW cur, RelinkStepArgs(l, prev, next, end, rest, ms, c, i, j, k, t, n, cur)
  PROVE  /\ AtFree(t, prev, next, cur, ms, Spliced(c, n, i, j, k), Cutout(c, i, j),
                   i, i + ((n - 1) - k), (n - (j - i)) - 1)
         /\ t.data = l.data /\ Len(t.next) = Len(l.next)
         /\ \A q \in 1..i : Spliced(c, n, i, j, k)[q] = c[q]
         /\ \A q \in 1..k - j : Spliced(c, n, i, j, k)[(i + ((n - 1) - k)) + q] = c[j + q]
<1>1. /\ Divided(l, c, <<>>, i, j, k, prev, next) /\ end = c[k] /\ Queued(l, c, k, rest, ms)
      /\ rest = <<>> /\ t = Relinked(l, prev, next, end) /\ n = Len(c)
      /\ cur = IF prev = Null THEN l.head ELSE l.next[prev]
  BY DEF RelinkStepArgs, AtPush
<1>2. /\ Layout(l, c, <<>>) /\ i \in Nat /\ j \in Nat /\ k \in Nat
      /\ i < j /\ j <= k /\ k <= n - 1
      /\ prev = (IF i = 0 THEN 0 ELSE c[i])
      /\ next = (IF j = k THEN c[n] ELSE c[j + 1])
  BY ONLY <1>1 DEF Divided
<1>3. /\ ms \in Seq(Seq(Nat)) /\ Len(ms) >= 1
      /\ Len(ms) = (n - 1) - k /\ n \in Nat
      /\ \A q \in 1..(n - 1) - k : l.data[c[k + q]] = ms[q]
  <2>1. /\ ms \in Seq(Seq(Nat)) /\ Len(ms) >= 1
        /\ Len(ms) = ((n - 1) - k) + Len(rest)
        /\ \A q \in 1..(n - 1) - k : l.data[c[k + q]] = ms[q]
    BY ONLY <1>1 DEF Queued
  <2>2. Len(rest) = 0
    BY ONLY <1>1
  <2>3. n \in Nat
    BY ONLY <1>1, <1>2, LayoutFacts
  <2>4. Len(ms) = (n - 1) - k
    BY ONLY <1>2, <2>1, <2>2, <2>3
  <2> QED
    BY ONLY <2>1, <2>3, <2>4
<1>4. Places(n, i, j, k)
  BY ONLY <1>2, <1>3 DEF Places
<1>5. PICK e, d, m, s : e = Spliced(c, n, i, j, k) /\ d = Cutout(c, i, j) /\ m = n - (j - i)
                        /\ s = i + ((n - 1) - k)
  OBVIOUS
<1>6. /\ Layout(t, e, d) /\ Len(e) = m /\ Len(d) = j - i
      /\ t.data = l.data /\ Len(t.next) = Len(l.next)
      /\ \A q \in 1..(j - i) - 1 : t.next[d[q]] = d[q + 1]
      /\ t.next[d[j - i]] = next
      /\ d[1] = IF prev = Null THEN l.head ELSE l.next[prev]
  <2>1. RelinkArgs(l, c, n, i, j, k, prev, next, t)
    BY ONLY <1>1, <1>2, <1>4 DEF RelinkArgs, Null
  <2> QED
    BY ONLY <1>5, <2>1, RelinkIs
<1>7. /\ m \in Nat /\ s \in Nat /\ i < s /\ s <= m - 1 /\ (j = k <=> s = m - 1) /\ m - 1 \in Nat
      /\ j - i >= 1
  <2>1. i \in Nat /\ j \in Nat /\ k \in Nat /\ n \in Nat /\ i < j /\ j <= k
    BY ONLY <1>2, <1>3
  <2>2. (n - 1) - k >= 1
    BY ONLY <1>3
  <2>3. m = n - (j - i) /\ s = i + ((n - 1) - k)
    BY ONLY <1>5
  <2> QED
    BY ONLY <2>1, <2>2, <2>3
<1>8. \A q \in 1..m : e[q] = c[From(q, n, i, j, k)]
  <2>1. e = [q \in 1..m |-> c[From(q, n, i, j, k)]]
    BY ONLY <1>5 DEF Spliced
  <2> QED
    BY ONLY <2>1
<1>9. \A q \in 1..i : e[q] = c[q]
  <2>1. \A q \in 1..i : q \in 1..m /\ From(q, n, i, j, k) = q
    BY ONLY <1>2, <1>3, <1>5 DEF From
  <2> QED
    BY ONLY <1>8, <2>1
<1>10. \A q \in 1..(n - 1) - k : e[i + q] = c[k + q]
  <2>1. \A q \in 1..(n - 1) - k : i + q \in 1..m /\ From(i + q, n, i, j, k) = k + q
    BY ONLY <1>2, <1>3, <1>5 DEF From
  <2> QED
    BY ONLY <1>8, <2>1
<1>11. \A q \in 1..k - j : e[s + q] = c[j + q]
  <2>1. \A q \in 1..k - j : s + q \in 1..m /\ From(s + q, n, i, j, k) = j + q
    BY ONLY <1>2, <1>3, <1>5 DEF From
  <2> QED
    BY ONLY <1>8, <2>1
<1>12. e[m] = c[n]
  <2>1. m \in 1..m /\ From(m, n, i, j, k) = n
    BY ONLY <1>2, <1>3, <1>5 DEF From
  <2> QED
    BY ONLY <1>8, <2>1
<1>13. prev = (IF i = 0 THEN 0 ELSE e[i]) /\ next = (IF s = m - 1 THEN e[m] ELSE e[s + 1])
  <2>1. prev = (IF i = 0 THEN 0 ELSE e[i])
    <3>1. i # 0 => i \in 1..i
      BY ONLY <1>2
    <3> QED
      BY ONLY <1>2, <1>9, <3>1
  <2>2. CASE s = m - 1
    BY ONLY <1>2, <1>7, <1>12, <2>1, <2>2
  <2>3. CASE s # m - 1
    <3>1. 1 \in 1..k - j
      BY ONLY <1>2, <1>7, <2>3
    <3> QED
      BY ONLY <1>2, <1>7, <1>11, <2>1, <2>3, <3>1
  <2> QED
    BY ONLY <2>1, <2>2, <2>3
<1>14. Divided(t, e, d, i, s, m - 1, prev, next)
  BY ONLY <1>2, <1>6, <1>7, <1>13 DEF Divided
<1>15. Filled(t, e, i, s, ms)
  <2>1. s - i = (n - 1) - k
    BY ONLY <1>2, <1>3, <1>5
  <2>2. \A q \in 1..(n - 1) - k : t.data[e[i + q]] = ms[q]
    BY ONLY <1>3, <1>6, <1>10
  <2> QED
    BY ONLY <1>3, <2>1, <2>2 DEF Filled
<1>16. AtFree(t, prev, next, cur, ms, e, d, i, s, m - 1)
  BY ONLY <1>1, <1>6, <1>7, <1>14, <1>15 DEF AtFree
<1> QED
  BY ONLY <1>5, <1>6, <1>9, <1>11, <1>16

FreeStepArgs(l, prev, next, cur, ms, c, d, i, j, k, t) ==
  AtFree(l, prev, next, cur, ms, c, d, i, j, k) /\ t = [Free(l, cur) EXCEPT !.size = @ - 1]

LEMMA FreeStep ==
  ASSUME NEW l, NEW prev, NEW next, NEW cur, NEW ms, NEW c, NEW d, NEW i, NEW j, NEW k, NEW t,
         FreeStepArgs(l, prev, next, cur, ms, c, d, i, j, k, t)
  PROVE  /\ l.next[cur] = next => AtRun(t, prev, next, ms, c, i, j, k)
         /\ l.next[cur] # next => AtFree(t, prev, next, l.next[cur], ms, c, Tail(d), i, j, k)
         /\ t.next = l.next /\ t.data = l.data
<1>1. /\ Divided(l, c, d, i, j, k, prev, next) /\ k = Len(c) - 1 /\ Filled(l, c, i, j, ms)
      /\ Len(d) >= 1 /\ cur = d[1] /\ l.next[d[Len(d)]] = next
      /\ \A q \in 1..Len(d) - 1 : l.next[d[q]] = d[q + 1]
      /\ t = [Free(l, cur) EXCEPT !.size = @ - 1]
  BY DEF FreeStepArgs, AtFree
<1>2. PICK m, w : m = Len(d) /\ w = Tail(d)
  OBVIOUS
<1>3. /\ Layout(l, c, d) /\ i \in Nat /\ j \in Nat /\ k \in Nat
      /\ i < j /\ j <= k /\ k <= Len(c) - 1
      /\ prev = (IF i = 0 THEN 0 ELSE c[i])
      /\ next = (IF j = k THEN c[Len(c)] ELSE c[j + 1])
  BY ONLY <1>1 DEF Divided
<1>4. d \in Seq(Nat) /\ m \in Nat /\ m >= 1 /\ Len(c) \in Nat
  BY ONLY <1>1, <1>2, <1>3, LayoutFacts
<1>5. /\ w \in Seq(Nat) /\ Len(w) = m - 1 /\ \A q \in 1..m - 1 : w[q] = d[q + 1]
  BY ONLY <1>2, <1>4, TailIs
<1>6. Layout(t, c, w) /\ t.next = l.next /\ t.data = l.data
  <2>1. FreeArgs(l, c, d, t)
    BY ONLY <1>1, <1>3 DEF FreeArgs
  <2> QED
    BY ONLY <1>2, <2>1, FreeIs
<1>7. Divided(t, c, w, i, j, k, prev, next)
  BY ONLY <1>3, <1>6 DEF Divided
<1>8. Filled(t, c, i, j, ms)
  BY ONLY <1>1, <1>6 DEF Filled
<1>9. CASE m = 1
  <2>1. l.next[cur] = next
    BY ONLY <1>1, <1>2, <1>9
  <2>2. w = <<>>
    BY ONLY <1>5, <1>9, EmptySeq
  <2>3. AtRun(t, prev, next, ms, c, i, j, k)
    BY ONLY <1>1, <1>7, <1>8, <2>2 DEF AtRun
  <2> QED
    BY ONLY <1>6, <2>1, <2>3
<1>10. CASE m # 1
  <2>1. 1 \in 1..m - 1 /\ 1 + 1 = 2 /\ 2 \in 1..m /\ m - 1 \in 1..m - 1 /\ (m - 1) + 1 = m
    BY ONLY <1>4, <1>10
  <2>2. l.next[cur] = d[2]
    BY ONLY <1>1, <1>2, <2>1
  <2>3. d[2] # next
    <3>1. Apart(c, d)
      BY ONLY <1>3 DEF Layout
    <3>2. Len(c) \in 1..Len(c) /\ (j # k => j + 1 \in 1..Len(c))
      BY ONLY <1>3, <1>4
    <3> QED
      BY ONLY <1>2, <1>3, <2>1, <3>1, <3>2 DEF Apart
  <2>4. w[1] = d[2] /\ Len(w) >= 1 /\ t.next[w[Len(w)]] = next
    <3>1. w[1] = d[2] /\ w[m - 1] = d[m]
      BY ONLY <1>5, <2>1
    <3>2. m - 1 >= 1
      BY ONLY <1>4, <1>10
    <3> QED
      BY ONLY <1>1, <1>2, <1>5, <1>6, <3>1, <3>2
  <2>5. \A q \in 1..Len(w) - 1 : t.next[w[q]] = w[q + 1]
    <3> TAKE q \in 1..Len(w) - 1
    <3>1. q \in 1..m - 1 /\ q + 1 \in 1..m - 1
      BY ONLY <1>4, <1>5, q \in 1..Len(w) - 1
    <3>2. w[q] = d[q + 1] /\ w[q + 1] = d[(q + 1) + 1]
      BY ONLY <1>5, <3>1
    <3>3. l.next[d[q + 1]] = d[(q + 1) + 1]
      BY ONLY <1>1, <1>2, <3>1
    <3> QED
      BY ONLY <1>6, <3>2, <3>3
  <2>6. AtFree(t, prev, next, d[2], ms, c, w, i, j, k)
    BY ONLY <1>1, <1>7, <1>8, <2>4, <2>5 DEF AtFree
  <2> QED
    BY ONLY <1>2, <1>6, <2>2, <2>3, <2>6
<1> QED
  BY ONLY <1>9, <1>10

-----------------------------------------------------------------------------
(* The inductive invariant of the list *)

LEMMA DividedBounds ==
  ASSUME NEW l, NEW c, NEW d, NEW i, NEW j, NEW k, NEW prev, NEW next,
         Divided(l, c, d, i, j, k, prev, next)
  PROVE  prev \in Cells(l) \cup {Null} /\ next \in Cells(l) /\ Cells(l) = 1..Len(l.next)
<1>1. /\ Layout(l, c, d) /\ i \in Nat /\ j \in Nat /\ k \in Nat
      /\ i < j /\ j <= k /\ k <= Len(c) - 1
      /\ prev = (IF i = 0 THEN 0 ELSE c[i])
      /\ next = (IF j = k THEN c[Len(c)] ELSE c[j + 1])
  BY DEF Divided
<1>2. l \in Heap /\ Len(c) \in Nat /\ \A q \in 1..Len(c) : c[q] \in 1..Len(l.next)
  BY ONLY <1>1, LayoutFacts
<1>3. Cells(l) = 1..Len(l.next)
  BY ONLY <1>2 DEF Heap, Cells
<1>4. (i # 0 => i \in 1..Len(c)) /\ Len(c) \in 1..Len(c) /\ (j # k => j + 1 \in 1..Len(c))
  BY ONLY <1>1, <1>2
<1> QED
  BY ONLY <1>1, <1>2, <1>3, <1>4 DEF Null

\* What a list in its stage can be divided into, and the types.
Fixed ==
  /\ stage \in {"idle", "ready", "push", "free", "run", "delete"}
  /\ queue \in Seq(Entry) /\ \A q \in DOMAIN queue : RegionsFit(queue[q])
  /\ out \in Seq(Seq(Nat)) /\ todo \in Seq(Seq(Nat)) /\ mutations \in 0..MaxMutations
  /\ M2_prev \in Cells(kl) \cup {Null} /\ M2_next \in Cells(kl) \cup {Null}
  /\ last \in Cells(kl) \cup {Null} /\ it \in Cells(kl) \cup {Null}
AtStage ==
  /\ stage = "idle" => kl = EmptyList
  /\ stage = "ready" => \E c, i, j, k : AtReady(kl, M2_prev, M2_next, c, i, j, k)
  /\ stage = "push" =>
       \E c, i, j, k : AtPush(kl, M2_prev, M2_next, last, todo, MessagesOf(out), c, i, j, k)
  /\ stage = "free" =>
       \E c, d, i, j, k : AtFree(kl, M2_prev, M2_next, it, MessagesOf(out), c, d, i, j, k)
  /\ stage = "run" => \E c, i, j, k : AtRun(kl, M2_prev, M2_next, MessagesOf(out), c, i, j, k)
  /\ stage = "delete" => \E c : Layout(kl, c, <<>>)
  /\ stage \in {"push", "free", "run"} => out # <<>>
ListInv == Fixed /\ AtStage

LEMMA InitGivesListInv ==
  ASSUME ListInit PROVE ListInv
<1>1. /\ stage = "idle" /\ queue = InitialQueue /\ kl = EmptyList
      /\ M2_prev = Null /\ M2_next = Null /\ out = <<>> /\ todo = <<>>
      /\ last = Null /\ it = Null /\ mutations = 0
  BY DEF ListInit
<1>2. queue \in Seq(Entry) /\ \A q \in DOMAIN queue : RegionsFit(queue[q])
  BY ONLY <1>1, InitialQueueAssumption
<1>3. out \in Seq(Seq(Nat)) /\ todo \in Seq(Seq(Nat))
  BY ONLY <1>1
<1>4. mutations \in 0..MaxMutations
  BY ONLY <1>1, ListBoundsAssumption
<1>5. Fixed
  BY ONLY <1>1, <1>2, <1>3, <1>4 DEF Fixed
<1>6. AtStage
  BY ONLY <1>1 DEF AtStage
<1> QED
  BY ONLY <1>5, <1>6 DEF ListInv

\* The list is that of an entry of the queue, message by message.
LEMMA FuzzOneLoads ==
  ASSUME ListInv, FuzzOne
  PROVE  \E e, c, i, j, k : /\ e \in ToSet(queue) /\ Fits(e) /\ k = RegionCount(e)
                            /\ AtReady(kl', M2_prev', M2_next', c, i, j, k)
                            /\ \A q \in 1..k : kl'.data[c[q]] = construct_kl_messages(e)[q]
<1>1. PICK e \in ToSet(queue) :
        /\ RegionCount(e) > 0
        /\ \E start \in 0..(RegionCount(e) - 1) :
           \E cnt \in 1..(RegionCount(e) - start) :
             LET l == PushAll(EmptyList, construct_kl_messages(e))
                 b == Boundary(l, start, cnt)
             IN  kl' = l /\ M2_prev' = b.prev /\ M2_next' = b.next
  BY DEF FuzzOne
<1>20. PICK start \in 0..(RegionCount(e) - 1) :
         \E cnt \in 1..(RegionCount(e) - start) :
           LET l == PushAll(EmptyList, construct_kl_messages(e))
               b == Boundary(l, start, cnt)
           IN  kl' = l /\ M2_prev' = b.prev /\ M2_next' = b.next
  BY ONLY <1>1
<1>21. PICK cnt \in 1..(RegionCount(e) - start) :
           LET l == PushAll(EmptyList, construct_kl_messages(e))
               b == Boundary(l, start, cnt)
           IN  kl' = l /\ M2_prev' = b.prev /\ M2_next' = b.next
  BY ONLY <1>20
<1>2. PICK b : /\ kl' = PushAll(EmptyList, construct_kl_messages(e))
               /\ b = Boundary(kl', start, cnt) /\ M2_prev' = b.prev /\ M2_next' = b.next
  BY ONLY <1>21
<1>3. stage = "idle"
  BY DEF FuzzOne
<1>4. Fits(e) /\ kl = EmptyList
  <2>1. queue \in Seq(Entry) /\ \A q \in DOMAIN queue : RegionsFit(queue[q])
    BY DEF ListInv, Fixed
  <2>2. PICK q \in DOMAIN queue : e = queue[q]
    BY ONLY <1>1 DEF ToSet
  <2>3. e \in Entry
    BY ONLY <2>1, <2>2
  <2>4. kl = EmptyList
    BY <1>3 DEF ListInv, AtStage
  <2> QED
    BY ONLY <2>1, <2>2, <2>3, <2>4 DEF Fits
<1>5. PICK l, ms, n : l = kl' /\ ms = construct_kl_messages(e) /\ n = RegionCount(e)
  OBVIOUS
<1>6. ms \in Seq(Seq(Nat)) /\ Len(ms) = n /\ n \in Nat
  BY ONLY <1>4, <1>5, ConstructIs, OffsetIs
<1>7. PICK c : /\ Layout(l, c, <<>>) /\ Len(c) = Len(ms) + 1
               /\ \A q \in 1..Len(ms) : l.data[c[q]] = ms[q]
  <2>1. l = PushAll(EmptyList, ms) /\ ms \in Seq(Seq(Nat))
    BY ONLY <1>2, <1>5, <1>6
  <2>2. \E c : Holding(l, c, ms)
    BY ONLY <2>1, PushAllIs
  <2> QED
    BY ONLY <2>2 DEF Holding
<1>8. AtReady(l, M2_prev', M2_next', c, start, start + cnt, Len(c) - 1)
  <2>1. start \in Nat /\ cnt \in Nat /\ cnt >= 1 /\ start + cnt <= Len(c) - 1
    BY ONLY <1>5, <1>6, <1>7, start \in 0..(RegionCount(e) - 1), cnt \in 1..(RegionCount(e) - start)
  <2>2. ChooseArgs(l, c, start, cnt, b)
    BY ONLY <1>2, <1>5, <1>7, <2>1 DEF ChooseArgs
  <2>3. AtReady(l, b.prev, b.next, c, start, start + cnt, Len(c) - 1)
    BY ONLY <2>2, ChooseStep
  <2> QED
    BY ONLY <1>2, <2>3
<1>9. Len(c) - 1 = n
  BY ONLY <1>6, <1>7
<1>10. AtReady(kl', M2_prev', M2_next', c, start, start + cnt, RegionCount(e))
  BY ONLY <1>5, <1>8, <1>9
<1>11. \A q \in 1..RegionCount(e) : kl'.data[c[q]] = construct_kl_messages(e)[q]
  BY ONLY <1>5, <1>6, <1>7
<1> QED
  BY ONLY <1>1, <1>4, <1>10, <1>11

LEMMA FuzzOneKeeps ==
  ASSUME ListInv, FuzzOne PROVE ListInv'
<1>1. PICK c, i, j, k : AtReady(kl', M2_prev', M2_next', c, i, j, k)
  BY ONLY ListInv, FuzzOne, FuzzOneLoads
<1>2. PICK l, prev, next : l = kl' /\ prev = M2_prev' /\ next = M2_next'
  OBVIOUS
<1>3. /\ stage = "idle" /\ stage' = "ready" /\ queue' = queue /\ out' = out /\ todo' = todo
      /\ last' = last /\ it' = it /\ mutations' = mutations
  BY DEF FuzzOne
<1>4. kl = EmptyList
  BY <1>3 DEF ListInv, AtStage
<1>5. Divided(l, c, <<>>, i, j, k, prev, next)
  BY ONLY <1>1, <1>2 DEF AtReady
<1>6. Layout(l, c, <<>>)
  BY ONLY <1>5 DEF Divided
<1>7. Len(c) \in Nat /\ Len(c) >= 1 /\ Len(l.next) \in Nat /\ \A q \in 1..Len(c) : c[q] \in 1..Len(l.next)
  BY ONLY <1>6, LayoutFacts
<1>9. AtStage'
  <2>1. \E c0, i0, j0, k0 : AtReady(kl', M2_prev', M2_next', c0, i0, j0, k0)
    BY ONLY <1>1
  <2> QED
    BY ONLY <1>3, <2>1 DEF AtStage
<1>10. /\ M2_prev' \in Cells(kl') \cup {Null} /\ M2_next' \in Cells(kl') \cup {Null}
       /\ Cells(kl') = 1..Len(kl'.next)
  BY ONLY <1>2, <1>5, DividedBounds
<1>11. last \in Cells(kl') \cup {Null} /\ it \in Cells(kl') \cup {Null}
  <2>3. 1 \in 1..Len(l.next)
    <3>1. 1 \in 1..Len(c)
      BY ONLY <1>7
    <3> QED
      BY ONLY <1>7, <3>1
  <2>4. Cells(kl) = {1}
    <3>1. kl.next = <<0>>
      BY ONLY <1>4 DEF EmptyList, Null
    <3> QED
      BY ONLY <3>1 DEF Cells
  <2>5. last \in Cells(kl) \cup {Null} /\ it \in Cells(kl) \cup {Null}
    BY DEF ListInv, Fixed
  <2> QED
    BY ONLY <1>2, <1>10, <2>3, <2>4, <2>5
<1>12. Fixed'
  <2>1. /\ queue \in Seq(Entry) /\ \A q \in DOMAIN queue : RegionsFit(queue[q])
        /\ out \in Seq(Seq(Nat)) /\ todo \in Seq(Seq(Nat)) /\ mutations \in 0..MaxMutations
    BY DEF ListInv, Fixed
  <2> QED
    BY ONLY <1>3, <1>10, <1>11, <2>1 DEF Fixed
<1> QED
  BY ONLY <1>9, <1>12 DEF ListInv

LEMMA BeginSpliceKeeps ==
  ASSUME ListInv, BeginSplice PROVE ListInv'
<1>1. /\ stage = "ready" /\ mutations < MaxMutations /\ mutations' = mutations + 1
      /\ todo' = MessagesOf(out') /\ last' = LastMessage(kl) /\ stage' = "push"
      /\ queue' = queue /\ kl' = kl /\ M2_prev' = M2_prev /\ M2_next' = M2_next /\ it' = it
  BY DEF BeginSplice
<1>2. /\ queue \in Seq(Entry) /\ \A q \in DOMAIN queue : RegionsFit(queue[q])
      /\ mutations \in 0..MaxMutations /\ mutations \in Nat
      /\ M2_prev \in Cells(kl) \cup {Null} /\ M2_next \in Cells(kl) \cup {Null}
      /\ it \in Cells(kl) \cup {Null}
  BY DEF ListInv, Fixed
<1>3. out' \in Seq(Seq(Nat)) /\ out' # <<>>
  <2>1. PICK r \in 1..MaxRegions : out' = [k \in 1..r |-> <<10 * (mutations + 1) + k>>]
    BY DEF BeginSplice
  <2>2. r \in Nat /\ r >= 1
    BY ONLY <2>1, ListBoundsAssumption
  <2>3. \A k \in 1..r : <<10 * (mutations + 1) + k>> \in Seq(Nat)
    BY ONLY <1>2, <2>2
  <2> DEFINE T == Seq(Nat)
  <2>4. out' \in [1..r -> T]
    BY ONLY <2>1, <2>3
  <2> HIDE DEF T
  <2>5. out' \in Seq(T) /\ Len(out') = r
    BY ONLY <2>2, <2>4
  <2>6. out' # <<>>
    BY ONLY <2>2, <2>5
  <2> QED
    BY ONLY <2>5, <2>6 DEF T
<1>4. PICK c, i, j, k : AtReady(kl, M2_prev, M2_next, c, i, j, k)
  BY <1>1 DEF ListInv, AtStage
<1>5. AtPush(kl, M2_prev, M2_next, LastMessage(kl), MessagesOf(out'), MessagesOf(out'), c, i, j, k)
  <2>1. PICK l, prev, next, r : l = kl /\ prev = M2_prev /\ next = M2_next /\ r = out'
    OBVIOUS
  <2>2. BeginArgs(l, prev, next, c, i, j, k, r)
    BY ONLY <1>3, <1>4, <2>1 DEF BeginArgs
  <2>3. AtPush(l, prev, next, LastMessage(l), MessagesOf(r), MessagesOf(r), c, i, j, k)
    BY ONLY <2>2, BeginStep
  <2> QED
    BY ONLY <2>1, <2>3
<1>6. AtStage'
  <2>1. \E c0, i0, j0, k0 :
          AtPush(kl', M2_prev', M2_next', last', todo', MessagesOf(out'), c0, i0, j0, k0)
    BY ONLY <1>1, <1>5
  <2> QED
    BY ONLY <1>1, <1>3, <2>1 DEF AtStage
<1>7. todo' \in Seq(Seq(Nat))
  BY ONLY <1>1, <1>3, MessagesOfIs
<1>8. last' \in Cells(kl)
  <2>1. PICK l, prev, next : l = kl /\ prev = M2_prev /\ next = M2_next
    OBVIOUS
  <2>2. Divided(l, c, <<>>, i, j, k, prev, next) /\ LastMessage(l) = c[k]
    BY ONLY <1>5, <2>1 DEF AtPush
  <2>3. Cells(l) = 1..Len(l.next)
    BY ONLY <2>2, DividedBounds
  <2>4. Layout(l, c, <<>>) /\ i \in Nat /\ j \in Nat /\ k \in Nat
        /\ i < j /\ j <= k /\ k <= Len(c) - 1
    BY ONLY <2>2 DEF Divided
  <2>5. Len(c) \in Nat /\ \A q \in 1..Len(c) : c[q] \in 1..Len(l.next)
    BY ONLY <2>4, LayoutFacts
  <2>6. k \in 1..Len(c)
    BY ONLY <2>4, <2>5
  <2> QED
    BY ONLY <1>1, <2>1, <2>2, <2>3, <2>5, <2>6
<1>9. mutations' \in 0..MaxMutations
  BY ONLY <1>1, <1>2, ListBoundsAssumption
<1>10. Fixed'
  BY ONLY <1>1, <1>2, <1>3, <1>7, <1>8, <1>9 DEF Fixed
<1> QED
  BY ONLY <1>6, <1>10 DEF ListInv

LEMMA PushMessageKeeps ==
  ASSUME ListInv, PushMessage PROVE ListInv'
<1>1. /\ stage = "push" /\ todo # <<>> /\ kl' = Push(kl, Head(todo)) /\ todo' = Tail(todo)
      /\ M2_next' = FollowTail(kl', M2_next) /\ stage' = stage
      /\ queue' = queue /\ M2_prev' = M2_prev /\ out' = out /\ last' = last /\ it' = it
      /\ mutations' = mutations
  BY DEF PushMessage
<1>2. /\ queue \in Seq(Entry) /\ (\A q \in DOMAIN queue : RegionsFit(queue[q]))
      /\ mutations \in 0..MaxMutations /\ out \in Seq(Seq(Nat))
      /\ M2_prev \in Cells(kl) \cup {Null} /\ M2_next \in Cells(kl) \cup {Null}
      /\ last \in Cells(kl) \cup {Null} /\ it \in Cells(kl) \cup {Null}
  BY DEF ListInv, Fixed
<1>3. out # <<>> /\ \E c, i, j, k : AtPush(kl, M2_prev, M2_next, last, todo, MessagesOf(out), c, i, j, k)
  BY <1>1 DEF ListInv, AtStage
<1>4. PICK c, i, j, k : AtPush(kl, M2_prev, M2_next, last, todo, MessagesOf(out), c, i, j, k)
  BY ONLY <1>3
<1>5. PICK l, prev, next, end, rest, ms, t, p :
        /\ l = kl /\ prev = M2_prev /\ next = M2_next /\ end = last /\ rest = todo
        /\ ms = MessagesOf(out) /\ t = kl' /\ p = NewCell(l)
  OBVIOUS
<1>6. PushStepArgs(l, prev, next, end, rest, ms, c, i, j, k, t, p)
  BY ONLY <1>1, <1>4, <1>5 DEF PushStepArgs
<1>7. /\ AtPush(t, prev, FollowTail(t, next), end, Tail(rest), ms, Append(c, p), i, j, k)
      /\ Len(l.next) <= Len(t.next)
  BY ONLY <1>6, PushStep
<1>8. AtPush(kl', M2_prev', M2_next', last', todo', MessagesOf(out'), Append(c, p), i, j, k)
  BY ONLY <1>1, <1>5, <1>7
<1>9. AtStage'
  <2>1. \E c0, i0, j0, k0 :
          AtPush(kl', M2_prev', M2_next', last', todo', MessagesOf(out'), c0, i0, j0, k0)
    BY ONLY <1>8
  <2> QED
    BY ONLY <1>1, <1>3, <2>1 DEF AtStage
<1>10. PICK e : e = Append(c, p)
  OBVIOUS
<1>11. Divided(t, e, <<>>, i, j, k, prev, FollowTail(t, next)) /\ Divided(l, c, <<>>, i, j, k, prev, next)
       /\ Tail(rest) \in Seq(Seq(Nat))
  BY ONLY <1>6, <1>7, <1>10 DEF AtPush, PushStepArgs, Queued
<1>12. FollowTail(t, next) \in Cells(t) /\ Cells(t) = 1..Len(t.next) /\ Cells(l) = 1..Len(l.next)
  <2>1. PICK x : x = FollowTail(t, next)
    OBVIOUS
  <2>2. Divided(t, e, <<>>, i, j, k, prev, x)
    BY ONLY <1>11, <2>1
  <2>3. x \in Cells(t) /\ Cells(t) = 1..Len(t.next)
    BY ONLY <2>2, DividedBounds
  <2>4. Cells(l) = 1..Len(l.next)
    BY ONLY <1>11, DividedBounds
  <2> QED
    BY ONLY <2>1, <2>3, <2>4
<1>13. Cells(kl) \subseteq Cells(kl') /\ M2_next' \in Cells(kl')
  <2>1. Len(l.next) \in Nat /\ Len(t.next) \in Nat
    <3>1. Layout(l, c, <<>>) /\ Layout(t, e, <<>>)
      BY ONLY <1>11 DEF Divided
    <3> QED
      BY ONLY <3>1, LayoutFacts
  <2>2. \A x \in 1..Len(l.next) : x \in 1..Len(t.next)
    BY ONLY <1>7, <2>1
  <2> QED
    BY ONLY <1>1, <1>5, <1>12, <2>2
<1>14. todo' \in Seq(Seq(Nat))
  BY ONLY <1>1, <1>5, <1>11
<1>15. Fixed'
  BY ONLY <1>1, <1>2, <1>13, <1>14 DEF Fixed
<1> QED
  BY ONLY <1>9, <1>15 DEF ListInv

LEMMA RelinkKeeps ==
  ASSUME ListInv, Relink PROVE ListInv'
<1>1. /\ stage = "push" /\ todo = <<>> /\ kl' = Relinked(kl, M2_prev, M2_next, last)
      /\ it' = (IF M2_prev = Null THEN kl.head ELSE kl.next[M2_prev]) /\ stage' = "free"
      /\ queue' = queue /\ M2_prev' = M2_prev /\ M2_next' = M2_next /\ out' = out
      /\ todo' = todo /\ last' = last /\ mutations' = mutations
  BY DEF Relink
<1>2. /\ queue \in Seq(Entry) /\ (\A q \in DOMAIN queue : RegionsFit(queue[q]))
      /\ mutations \in 0..MaxMutations /\ out \in Seq(Seq(Nat)) /\ todo \in Seq(Seq(Nat))
      /\ M2_prev \in Cells(kl) \cup {Null} /\ M2_next \in Cells(kl) \cup {Null}
      /\ last \in Cells(kl) \cup {Null}
  BY DEF ListInv, Fixed
<1>3. out # <<>> /\ \E c, i, j, k : AtPush(kl, M2_prev, M2_next, last, todo, MessagesOf(out), c, i, j, k)
  BY <1>1 DEF ListInv, AtStage
<1>4. PICK c, i, j, k : AtPush(kl, M2_prev, M2_next, last, todo, MessagesOf(out), c, i, j, k)
  BY ONLY <1>3
<1>5. PICK l, prev, next, end, rest, ms, t, n, cur :
        /\ l = kl /\ prev = M2_prev /\ next = M2_next /\ end = last /\ rest = todo
        /\ ms = MessagesOf(out) /\ t = kl' /\ n = Len(c) /\ cur = it'
  OBVIOUS
<1>6. RelinkStepArgs(l, prev, next, end, rest, ms, c, i, j, k, t, n, cur)
  BY ONLY <1>1, <1>4, <1>5 DEF RelinkStepArgs
<1>7. PICK e, d, i1, j1, k1 :
        AtFree(t, prev, next, cur, ms, e, d, i1, j1, k1) /\ Len(t.next) = Len(l.next)
  BY ONLY <1>6, RelinkStep
<1>8. AtStage'
  <2>1. AtFree(kl', M2_prev', M2_next', it', MessagesOf(out'), e, d, i1, j1, k1)
    BY ONLY <1>1, <1>5, <1>7
  <2> QED
    BY ONLY <1>1, <1>3, <2>1 DEF AtStage
<1>9. Divided(t, e, d, i1, j1, k1, prev, next) /\ Divided(l, c, <<>>, i, j, k, prev, next)
      /\ cur = d[1] /\ Len(d) >= 1
  BY ONLY <1>6, <1>7 DEF AtPush, AtFree, RelinkStepArgs
<1>10. Cells(t) = 1..Len(t.next) /\ Cells(l) = 1..Len(l.next)
  BY ONLY <1>9, DividedBounds
<1>11. it' \in Cells(kl') /\ Cells(kl') = Cells(kl)
  <2>1. Layout(t, e, d)
    BY ONLY <1>9 DEF Divided
  <2>2. Len(d) \in Nat /\ \A q \in 1..Len(d) : d[q] \in 1..Len(t.next)
    BY ONLY <2>1, LayoutFacts
  <2>3. d[1] \in 1..Len(t.next)
    BY ONLY <1>9, <2>2
  <2> QED
    BY ONLY <1>5, <1>7, <1>9, <1>10, <2>3
<1>12. Fixed'
  BY ONLY <1>1, <1>2, <1>11 DEF Fixed
<1> QED
  BY ONLY <1>8, <1>12 DEF ListInv

LEMMA FreeOldKeeps ==
  ASSUME ListInv, FreeOld PROVE ListInv'
<1>1. /\ stage = "free" /\ kl' = [Free(kl, it) EXCEPT !.size = @ - 1]
      /\ it' = kl.next[it] /\ stage' = (IF it' = M2_next THEN "run" ELSE "free")
      /\ queue' = queue /\ M2_prev' = M2_prev /\ M2_next' = M2_next /\ out' = out
      /\ todo' = todo /\ last' = last /\ mutations' = mutations
  BY DEF FreeOld
<1>2. /\ queue \in Seq(Entry) /\ (\A q \in DOMAIN queue : RegionsFit(queue[q]))
      /\ mutations \in 0..MaxMutations /\ out \in Seq(Seq(Nat)) /\ todo \in Seq(Seq(Nat))
      /\ M2_prev \in Cells(kl) \cup {Null} /\ M2_next \in Cells(kl) \cup {Null}
      /\ last \in Cells(kl) \cup {Null}
  BY DEF ListInv, Fixed
<1>3. out # <<>> /\ \E c, d, i, j, k : AtFree(kl, M2_prev, M2_next, it, MessagesOf(out), c, d, i, j, k)
  BY <1>1 DEF ListInv, AtStage
<1>4. PICK c, d, i, j, k : AtFree(kl, M2_prev, M2_next, it, MessagesOf(out), c, d, i, j, k)
  BY ONLY <1>3
<1>5. PICK l, prev, next, ms, t, cur :
        /\ l = kl /\ prev = M2_prev /\ next = M2_next /\ ms = MessagesOf(out) /\ t = kl' /\ cur = it
  OBVIOUS
<1>6. FreeStepArgs(l, prev, next, cur, ms, c, d, i, j, k, t)
  BY ONLY <1>1, <1>4, <1>5 DEF FreeStepArgs
<1>7. /\ l.next[cur] = next => AtRun(t, prev, next, ms, c, i, j, k)
      /\ l.next[cur] # next => AtFree(t, prev, next, l.next[cur], ms, c, Tail(d), i, j, k)
      /\ t.next = l.next
  BY ONLY <1>6, FreeStep
<1>8. AtStage'
  <2>1. CASE it' = M2_next
    <3>1. AtRun(kl', M2_prev', M2_next', MessagesOf(out'), c, i, j, k) /\ stage' = "run"
      BY ONLY <1>1, <1>5, <1>7, <2>1
    <3> QED
      BY ONLY <1>1, <1>3, <3>1 DEF AtStage
  <2>2. CASE it' # M2_next
    <3>1. AtFree(kl', M2_prev', M2_next', it', MessagesOf(out'), c, Tail(d), i, j, k) /\ stage' = "free"
      BY ONLY <1>1, <1>5, <1>7, <2>2
    <3> QED
      BY ONLY <1>1, <1>3, <3>1 DEF AtStage
  <2> QED
    BY ONLY <2>1, <2>2
<1>9. it' \in Cells(kl') \cup {Null} /\ Cells(kl') = Cells(kl)
  <2>1. Divided(l, c, d, i, j, k, prev, next) /\ cur = d[1] /\ Len(d) >= 1
    BY ONLY <1>6 DEF AtFree, FreeStepArgs
  <2>2. Layout(l, c, d)
    BY ONLY <2>1 DEF Divided
  <2>3. Len(d) \in Nat /\ \A q \in 1..Len(d) : d[q] \in 1..Len(l.next)
    BY ONLY <2>2, LayoutFacts
  <2>4. d[1] \in 1..Len(l.next)
    BY ONLY <2>1, <2>3
  <2>5. l.next[d[1]] \in 0..Len(l.next) /\ Len(l.next) \in Nat
    <3>1. \A x \in 1..Len(l.next) : l.next[x] \in 0..Len(l.next)
      BY ONLY <2>2 DEF Layout, Sane
    <3>2. Len(l.next) \in Nat
      BY ONLY <2>2, LayoutFacts
    <3> QED
      BY ONLY <2>4, <3>1, <3>2
  <2>6. Cells(l) = 1..Len(l.next)
    BY ONLY <2>1, DividedBounds
  <2>7. Cells(t) = Cells(l)
    BY ONLY <1>7 DEF Cells
  <2>8. l.next[d[1]] \in Cells(l) \cup {0}
    BY ONLY <2>5, <2>6
  <2> QED
    BY ONLY <1>1, <1>5, <2>1, <2>7, <2>8 DEF Null
<1>10. stage' \in {"idle", "ready", "push", "free", "run", "delete"}
  BY ONLY <1>1
<1>11. Fixed'
  BY ONLY <1>1, <1>2, <1>9, <1>10 DEF Fixed
<1> QED
  BY ONLY <1>8, <1>11 DEF ListInv

LEMMA MessagesIs ==
  ASSUME NEW l, NEW c, NEW d, Layout(l, c, d)
  PROVE  /\ Messages(l) \in Seq(Seq(Nat)) /\ Len(Messages(l)) = Len(c) - 1
         /\ \A q \in 1..Len(c) - 1 : Messages(l)[q] = l.data[c[q]]
<1>1. /\ Linked(l) = [r \in 1..Len(c) - 1 |-> c[r]]
      /\ Len(Linked(l)) = Len(c) - 1 /\ Linked(l) \in Seq(Nat)
  BY LinkedIs
<1>2. PICK m, n : m = Linked(l) /\ n = Len(c) - 1
  OBVIOUS
<1>3. n \in Nat /\ Len(c) \in Nat /\ l \in Heap /\ \A q \in 1..Len(c) : c[q] \in 1..Len(l.next)
  <2>1. Len(c) \in Nat /\ Len(c) >= 1 /\ l \in Heap /\ \A q \in 1..Len(c) : c[q] \in 1..Len(l.next)
    BY LayoutFacts
  <2> QED
    BY ONLY <1>2, <2>1
<1>4. DOMAIN m = 1..n /\ \A q \in 1..n : m[q] = c[q]
  BY ONLY <1>1, <1>2
<1>5. Messages(l) = [q \in 1..n |-> l.data[m[q]]]
  BY ONLY <1>2, <1>4 DEF Messages, Data
<1> DEFINE T == Seq(Nat)
<1>6. \A x \in 1..Len(l.next) : l.data[x] \in T
  <2>1. l.data \in Seq(T) /\ Len(l.data) = Len(l.next)
    BY <1>3 DEF Heap, Layout, Sane
  <2> HIDE DEF T
  <2> QED
    BY ONLY <2>1, ElementOfSeq
<1> HIDE DEF T
<1>7. \A q \in 1..n : l.data[m[q]] \in T
  <2>1. \A q \in 1..n : q \in 1..Len(c)
    BY ONLY <1>2, <1>3
  <2> QED
    BY ONLY <1>3, <1>4, <1>6, <2>1
<1>8. Messages(l) \in [1..n -> T]
  BY ONLY <1>5, <1>7
<1>9. Messages(l) \in Seq(T) /\ Len(Messages(l)) = n
  BY ONLY <1>3, <1>8
<1>10. Messages(l) \in Seq(Seq(Nat))
  BY ONLY <1>9 DEF T
<1>11. \A q \in 1..n : Messages(l)[q] = l.data[c[q]]
  BY ONLY <1>4, <1>5
<1> QED
  BY ONLY <1>2, <1>9, <1>10, <1>11

\* An entry that is saved fits.
LEMMA NewEntryFits ==
  ASSUME NEW c, Layout(kl, c, <<>>), NEW sent \in 1..kl.size,
         NEW null \in SUBSET (1..sent), null # 1..sent,
         NEW e, e = without_null_regions(NewEntry(sent), null),
         NEW ms, ms = SubSeq(Messages(kl), 1, sent)
  PROVE  /\ Fits(e) /\ e.file = FlattenSeq(ms) /\ e.regions # <<>> /\ RegionCount(e) >= 1
         /\ ms \in Seq(Seq(Nat)) /\ sent \in 0..Len(Messages(kl))
<1> DEFINE T == Seq(Nat)
<1>1. Messages(kl) \in Seq(T) /\ Len(Messages(kl)) = Len(c) - 1
  BY MessagesIs
<1>2. kl.size = Len(c) - 1 /\ Len(c) \in Nat
  <2>1. kl.size = (Len(c) - 1) + Len(<<>>) /\ Len(c) \in Nat
    BY LayoutFacts
  <2> QED
    BY ONLY <2>1
<1> HIDE DEF T
<1>3. sent \in 0..Len(Messages(kl))
  BY ONLY <1>1, <1>2, sent \in 1..kl.size
<1>4. ms \in Seq(T) /\ Len(ms) = sent
  BY ONLY <1>1, <1>3, ms = SubSeq(Messages(kl), 1, sent), SeqFacts
<1>5. ms \in Seq(Seq(Nat))
  BY ONLY <1>4 DEF T
<1>6. SavedArgs(ms, null, e)
  <2>1. NewEntry(sent) = [file |-> FlattenSeq(ms), regions |-> convert_kl_messages_to_regions(ms)]
    BY ONLY ms = SubSeq(Messages(kl), 1, sent) DEF NewEntry
  <2> QED
    BY ONLY <1>4, <1>5, <2>1, e = without_null_regions(NewEntry(sent), null),
            null \in SUBSET (1..sent), null # 1..sent DEF SavedArgs
<1> QED
  BY ONLY <1>3, <1>5, <1>6, SavedIs

LEMMA RunAndSaveKeeps ==
  ASSUME ListInv, RunAndSave PROVE ListInv'
<1>1. /\ stage = "run" /\ stage' = "ready"
      /\ kl' = kl /\ M2_prev' = M2_prev /\ M2_next' = M2_next /\ out' = out
      /\ todo' = todo /\ last' = last /\ it' = it /\ mutations' = mutations
  BY DEF RunAndSave
<1>2. /\ queue \in Seq(Entry) /\ (\A q \in DOMAIN queue : RegionsFit(queue[q]))
      /\ mutations \in 0..MaxMutations /\ out \in Seq(Seq(Nat)) /\ todo \in Seq(Seq(Nat))
      /\ M2_prev \in Cells(kl) \cup {Null} /\ M2_next \in Cells(kl) \cup {Null}
      /\ last \in Cells(kl) \cup {Null} /\ it \in Cells(kl) \cup {Null}
  BY DEF ListInv, Fixed
<1>3. \E c, i, j, k : AtRun(kl, M2_prev, M2_next, MessagesOf(out), c, i, j, k)
  BY <1>1 DEF ListInv, AtStage
<1>4. PICK c, i, j, k : AtRun(kl, M2_prev, M2_next, MessagesOf(out), c, i, j, k)
  BY ONLY <1>3
<1>5. AtReady(kl, M2_prev, M2_next, c, i, j, k) /\ Layout(kl, c, <<>>)
  BY ONLY <1>4 DEF AtRun, AtReady, Divided
<1>6. AtStage'
  <2>1. \E c0, i0, j0, k0 : AtReady(kl', M2_prev', M2_next', c0, i0, j0, k0)
    BY ONLY <1>1, <1>5
  <2> QED
    BY ONLY <1>1, <2>1 DEF AtStage
<1>7. queue' \in Seq(Entry) /\ \A q \in DOMAIN queue' : RegionsFit(queue'[q])
  <2>1. CASE UNCHANGED queue
    BY ONLY <1>2, <2>1
  <2>2. CASE ~UNCHANGED queue
    <3>1. PICK sent \in 1..kl.size : \E null \in SUBSET (1..sent) :
            null # 1..sent /\ queue' = Append(queue, without_null_regions(NewEntry(sent), null))
      BY <2>2 DEF RunAndSave
    <3>2. PICK null \in SUBSET (1..sent) :
            null # 1..sent /\ queue' = Append(queue, without_null_regions(NewEntry(sent), null))
      BY ONLY <3>1
    <3>3. PICK e, ms : e = without_null_regions(NewEntry(sent), null) /\ ms = SubSeq(Messages(kl), 1, sent)
      OBVIOUS
    <3>4. Fits(e)
      BY ONLY <1>5, <3>2, <3>3, NewEntryFits
    <3>5. e \in Entry /\ RegionsFit(e) /\ queue' = Append(queue, e)
      BY ONLY <3>2, <3>3, <3>4 DEF Fits
    <3>6. PICK m : m = Len(queue)
      OBVIOUS
    <3>7. m \in Nat /\ DOMAIN queue = 1..m
      BY ONLY <1>2, <3>6, LenProperties
    <3>8. queue' \in Seq(Entry) /\ Len(queue') = m + 1 /\ queue'[m + 1] = e
          /\ \A q \in 1..m : queue'[q] = queue[q]
      BY ONLY <1>2, <3>5, <3>6, AppendProperties
    <3>9. \A q \in DOMAIN queue' : q \in 1..m \/ q = m + 1
      <4>1. DOMAIN queue' = 1..m + 1
        BY ONLY <3>8, LenProperties
      <4> QED
        BY ONLY <3>7, <4>1
    <3> QED
      BY ONLY <1>2, <3>5, <3>7, <3>8, <3>9
  <2> QED
    BY ONLY <2>1, <2>2
<1>8. Fixed'
  BY ONLY <1>1, <1>2, <1>7 DEF Fixed
<1> QED
  BY ONLY <1>6, <1>8 DEF ListInv

LEMMA AbandonKeeps ==
  ASSUME ListInv, Abandon PROVE ListInv'
<1>1. /\ stage = "ready" /\ stage' = "delete" /\ queue' = queue
      /\ kl' = kl /\ M2_prev' = M2_prev /\ M2_next' = M2_next /\ out' = out
      /\ todo' = todo /\ last' = last /\ it' = it /\ mutations' = mutations
  BY DEF Abandon
<1>2. \E c, i, j, k : AtReady(kl, M2_prev, M2_next, c, i, j, k)
  BY <1>1 DEF ListInv, AtStage
<1>3. PICK c : Layout(kl, c, <<>>)
  BY ONLY <1>2 DEF AtReady, Divided
<1>4. AtStage'
  BY ONLY <1>1, <1>3 DEF AtStage
<1>5. Fixed
  BY DEF ListInv
<1>6. Fixed'
  BY ONLY <1>1, <1>5 DEF Fixed
<1> QED
  BY ONLY <1>4, <1>6 DEF ListInv

LEMMA DeleteMessageKeeps ==
  ASSUME ListInv, DeleteMessage PROVE ListInv'
<1>1. /\ stage = "delete" /\ kl.next[kl.head] # Null /\ kl' = Shift(kl)
      /\ stage' = stage /\ queue' = queue
      /\ M2_prev' = M2_prev /\ M2_next' = M2_next /\ out' = out
      /\ todo' = todo /\ last' = last /\ it' = it /\ mutations' = mutations
  BY DEF DeleteMessage
<1>2. PICK c : Layout(kl, c, <<>>)
  BY <1>1 DEF ListInv, AtStage
<1>3. PICK l, t : l = kl /\ t = kl'
  OBVIOUS
<1>4. Len(c) > 1
  <2>1. Len(c) \in Nat /\ Len(c) >= 1 /\ l.head = c[1] /\ l.next[c[Len(c)]] = 0
    BY ONLY <1>2, <1>3, LayoutFacts
  <2>2. Len(c) # 1
    BY ONLY <1>1, <1>3, <2>1 DEF Null
  <2> QED
    BY ONLY <2>1, <2>2
<1>5. Layout(t, Tail(c), <<>>) /\ t.next = l.next
  <2>1. ShiftArgs(l, c, t)
    BY ONLY <1>1, <1>2, <1>3, <1>4 DEF ShiftArgs
  <2> QED
    BY ONLY <2>1, ShiftIs
<1>6. AtStage'
  BY ONLY <1>1, <1>3, <1>5 DEF AtStage
<1>7. Cells(kl') = Cells(kl)
  BY ONLY <1>3, <1>5 DEF Cells
<1>8. Fixed
  BY DEF ListInv
<1>9. Fixed'
  BY ONLY <1>1, <1>7, <1>8 DEF Fixed
<1> QED
  BY ONLY <1>6, <1>9 DEF ListInv

LEMMA DestroyKeeps ==
  ASSUME ListInv, Destroy PROVE ListInv'
<1>1. /\ kl' = EmptyList /\ stage' = "idle" /\ M2_prev' = Null /\ M2_next' = Null
      /\ last' = Null /\ it' = Null /\ out' = <<>>
      /\ queue' = queue /\ todo' = todo /\ mutations' = mutations
  BY DEF Destroy
<1>2. AtStage'
  BY ONLY <1>1 DEF AtStage
<1>3. Fixed
  BY DEF ListInv
<1>4. out' \in Seq(Seq(Nat))
  BY ONLY <1>1
<1>5. Fixed'
  BY ONLY <1>1, <1>3, <1>4 DEF Fixed
<1> QED
  BY ONLY <1>2, <1>5 DEF ListInv

LEMMA ListNextKeeps ==
  ASSUME ListInv, [ListNext]_list_vars PROVE ListInv'
<1>1. CASE UNCHANGED list_vars
  <2>1. Fixed /\ AtStage
    BY DEF ListInv
  <2>2. /\ stage' = stage /\ queue' = queue /\ kl' = kl /\ M2_prev' = M2_prev /\ M2_next' = M2_next
        /\ out' = out /\ todo' = todo /\ last' = last /\ it' = it /\ mutations' = mutations
    BY ONLY <1>1 DEF list_vars
  <2>3. Fixed'
    BY ONLY <2>1, <2>2 DEF Fixed
  <2>4. AtStage'
    BY ONLY <2>1, <2>2 DEF AtStage
  <2> QED
    BY ONLY <2>3, <2>4 DEF ListInv
<1>2. CASE ListNext
  BY <1>2, FuzzOneKeeps, BeginSpliceKeeps, PushMessageKeeps, RelinkKeeps, FreeOldKeeps,
     RunAndSaveKeeps, AbandonKeeps, DeleteMessageKeeps, DestroyKeeps DEF ListNext
<1> QED
  BY <1>1, <1>2

THEOREM ListInvariant == ListSpec => []ListInv
<1>1. ListInit => ListInv
  BY InitGivesListInv
<1>2. ListInv /\ [ListNext]_list_vars => ListInv'
  BY ListNextKeeps
<1> QED
  BY <1>1, <1>2, PTL DEF ListSpec

-----------------------------------------------------------------------------
(* Every cell is accounted for *)

LEMMA ConcatHas ==
  ASSUME NEW s \in Seq(Nat), NEW t \in Seq(Nat), Distinct(s), Distinct(t), Apart(s, t),
         NEW u, u = s \o t
  PROVE  /\ u \in Seq(Nat) /\ Distinct(u)
         /\ \A x : Has(u, x) <=> Has(s, x) \/ Has(t, x)
<1>1. PICK m, n : m = Len(s) /\ n = Len(t)
  OBVIOUS
<1>2. m \in Nat /\ n \in Nat
  BY ONLY <1>1, s \in Seq(Nat), t \in Seq(Nat), LenProperties
<1>3. /\ u \in Seq(Nat) /\ Len(u) = m + n
      /\ \A i \in 1..m + n : u[i] = IF i <= m THEN s[i] ELSE t[i - m]
  BY ONLY <1>1, s \in Seq(Nat), t \in Seq(Nat), u = s \o t, ConcatProperties
<1>4. Distinct(u)
  <2>1. /\ \A i, j \in 1..m : i # j => s[i] # s[j]
        /\ \A i, j \in 1..n : i # j => t[i] # t[j]
        /\ \A i \in 1..m, j \in 1..n : s[i] # t[j]
    BY ONLY <1>1, Distinct(s), Distinct(t), Apart(s, t) DEF Distinct, Apart
  <2>8. \A i, j \in 1..m + n : i # j => u[i] # u[j]
   <3> TAKE i, j \in 1..m + n
   <3> HAVE i # j
   <3>2. CASE i <= m /\ j <= m
    <4>1. i \in 1..m /\ j \in 1..m
      BY ONLY <1>2, <3>2, i \in 1..m + n, j \in 1..m + n
    <4>2. u[i] = s[i] /\ u[j] = s[j]
      BY ONLY <1>3, <3>2, i \in 1..m + n, j \in 1..m + n
    <4> QED
      BY ONLY <2>1, <4>1, <4>2, i # j
   <3>3. CASE i <= m /\ ~(j <= m)
    <4>1. i \in 1..m /\ j - m \in 1..n
      BY ONLY <1>2, <3>3, i \in 1..m + n, j \in 1..m + n
    <4> QED
      BY ONLY <1>3, <2>1, <3>3, <4>1, i \in 1..m + n, j \in 1..m + n
   <3>4. CASE ~(i <= m) /\ j <= m
    <4>1. j \in 1..m /\ i - m \in 1..n
      BY ONLY <1>2, <3>4, i \in 1..m + n, j \in 1..m + n
    <4> QED
      BY ONLY <1>3, <2>1, <3>4, <4>1, i \in 1..m + n, j \in 1..m + n
   <3>5. CASE ~(i <= m) /\ ~(j <= m)
    <4>1. j - m \in 1..n /\ i - m \in 1..n /\ i - m # j - m
      BY ONLY <1>2, <3>5, i \in 1..m + n, j \in 1..m + n, i # j
    <4> QED
      BY ONLY <1>3, <2>1, <3>5, <4>1, i \in 1..m + n, j \in 1..m + n
   <3> QED
    BY ONLY <3>2, <3>3, <3>4, <3>5
  <2> QED
    BY ONLY <1>3, <2>8 DEF Distinct
<1>5. \A x : Has(u, x) <=> Has(s, x) \/ Has(t, x)
  <2> TAKE x
  <2>1. ASSUME Has(u, x) PROVE Has(s, x) \/ Has(t, x)
    <3>1. PICK i \in 1..m + n : u[i] = x
      BY ONLY <1>3, <2>1 DEF Has
    <3>2. CASE i <= m
      BY ONLY <1>1, <1>2, <1>3, <3>1, <3>2 DEF Has
    <3>3. CASE ~(i <= m)
      <4>1. i - m \in 1..n /\ t[i - m] = x
        BY ONLY <1>2, <1>3, <3>1, <3>3
      <4> QED
        BY ONLY <1>1, <4>1 DEF Has
    <3> QED
      BY ONLY <3>2, <3>3
  <2>2. ASSUME Has(s, x) PROVE Has(u, x)
    <3>1. PICK i \in 1..m : s[i] = x
      BY ONLY <1>1, <2>2 DEF Has
    <3>2. i \in 1..m + n /\ u[i] = x
      BY ONLY <1>2, <1>3, <3>1
    <3> QED
      BY ONLY <1>3, <3>2 DEF Has
  <2>3. ASSUME Has(t, x) PROVE Has(u, x)
    <3>1. PICK i \in 1..n : t[i] = x
      BY ONLY <1>1, <2>3 DEF Has
    <3>2. m + i \in 1..m + n /\ ~(m + i <= m) /\ (m + i) - m = i
      BY ONLY <1>2, <3>1
    <3>3. u[m + i] = x
      BY ONLY <1>3, <3>1, <3>2
    <3> QED
      BY ONLY <1>3, <3>2, <3>3 DEF Has
  <2> QED
    BY ONLY <2>1, <2>2, <2>3
<1> QED
  BY ONLY <1>3, <1>4, <1>5

\* The walk from the head with the tail behind it is all cells of the list.
LEMMA WalkIsChain ==
  ASSUME NEW l, NEW c, NEW d, Layout(l, c, d)
  PROVE  Linked(l) \o <<l.tail>> = c
<1>1. PICK n, s, t : n = Len(c) /\ s = Linked(l) /\ t = <<l.tail>>
  OBVIOUS
<1>2. /\ s = [r \in 1..n - 1 |-> c[r]] /\ Len(s) = n - 1 /\ s \in Seq(Nat)
  BY ONLY <1>1, Layout(l, c, d), LinkedIs
<1>3. c \in Seq(Nat) /\ n \in Nat /\ n >= 1 /\ l.tail = c[n] /\ l \in Heap
  BY ONLY <1>1, Layout(l, c, d), LayoutFacts
<1>4. t \in Seq(Nat) /\ Len(t) = 1 /\ t[1] = c[n]
  <2>1. l.tail \in Nat
    BY ONLY <1>3 DEF Heap
  <2> QED
    BY ONLY <1>1, <1>3, <2>1
<1>5. PICK u : u = s \o t
  OBVIOUS
<1>6. /\ u \in Seq(Nat) /\ Len(u) = (n - 1) + 1
      /\ \A i \in 1..(n - 1) + 1 : u[i] = IF i <= n - 1 THEN s[i] ELSE t[i - (n - 1)]
  <2>1. /\ u \in Seq(Nat) /\ Len(u) = Len(s) + Len(t)
        /\ \A i \in 1..Len(s) + Len(t) : u[i] = IF i <= Len(s) THEN s[i] ELSE t[i - Len(s)]
    <3>1. s \in Seq(Nat) /\ t \in Seq(Nat)
      BY ONLY <1>2, <1>4
    <3> QED
      BY ONLY <1>5, <3>1, ConcatProperties
  <2> QED
    BY ONLY <1>2, <1>4, <2>1
<1>7. (n - 1) + 1 = n
  BY ONLY <1>3
<1>8. \A i \in 1..n : u[i] = c[i]
  <2> TAKE i \in 1..n
  <2>1. CASE i <= n - 1
    BY ONLY <1>2, <1>3, <1>6, <1>7, <2>1, i \in 1..n
  <2>2. CASE ~(i <= n - 1)
    <3>1. i = n /\ i - (n - 1) = 1
      BY ONLY <1>3, <2>2, i \in 1..n
    <3> QED
      BY ONLY <1>4, <1>6, <1>7, <2>2, <3>1, i \in 1..n
  <2> QED
    BY ONLY <2>1, <2>2
<1>9. u = c
  BY ONLY <1>1, <1>3, <1>6, <1>7, <1>8, SeqEqual
<1> QED
  BY ONLY <1>1, <1>5, <1>9

LEMMA AllCells ==
  ASSUME NEW l, NEW c, NEW d, Layout(l, c, d),
         NEW all, all = Linked(l) \o <<l.tail>> \o d \o l.pool
  PROVE  IsInjective(all) /\ ToSet(all) = Cells(l)
<1>1. all = c \o d \o l.pool
  BY ONLY all = Linked(l) \o <<l.tail>> \o d \o l.pool, Layout(l, c, d), WalkIsChain
<1>2. PICK u, p : u = c \o d /\ p = l.pool
  OBVIOUS
<1>3. /\ c \in Seq(Nat) /\ d \in Seq(Nat) /\ Distinct(c) /\ Distinct(d) /\ Apart(c, d)
      /\ p \in Seq(Nat) /\ Distinct(p) /\ Apart(c, p) /\ Apart(d, p) /\ l \in Heap
  BY ONLY <1>2, Layout(l, c, d) DEF Layout, Sane, Chain, Heap
<1>4. /\ u \in Seq(Nat) /\ Distinct(u)
      /\ \A x : Has(u, x) <=> Has(c, x) \/ Has(d, x)
  BY ONLY <1>2, <1>3, ConcatHas
<1>5. Apart(u, p)
  <2> SUFFICES \A i \in 1..Len(u), j \in 1..Len(p) : u[i] # p[j]
    BY DEF Apart
  <2> TAKE i \in 1..Len(u), j \in 1..Len(p)
  <2> SUFFICES ASSUME u[i] = p[j] PROVE FALSE
    OBVIOUS
  <2>1. Has(u, p[j])
    BY ONLY u[i] = p[j], i \in 1..Len(u) DEF Has
  <2>2. Has(c, p[j]) \/ Has(d, p[j])
    BY ONLY <1>4, <2>1
  <2> QED
    BY ONLY <1>3, <2>2, j \in 1..Len(p) DEF Has, Apart
<1>6. /\ all \in Seq(Nat) /\ Distinct(all)
      /\ \A x : Has(all, x) <=> Has(u, x) \/ Has(p, x)
  <2>1. all = u \o p
    BY ONLY <1>1, <1>2
  <2> QED
    BY ONLY <1>3, <1>4, <1>5, <2>1, ConcatHas
<1>7. DOMAIN all = 1..Len(all)
  BY ONLY <1>6, LenProperties
<1>8. IsInjective(all)
  BY ONLY <1>6, <1>7 DEF IsInjective, Distinct
<1>9. Cells(l) = 1..Len(l.next)
  BY ONLY <1>3, LenProperties DEF Cells, Heap
<1>10. \A x : Has(all, x) <=> x \in Cells(l)
  <2>1. \A x \in 1..Len(l.next) : Has(c, x) \/ Has(d, x) \/ Has(p, x)
    BY ONLY <1>2, Layout(l, c, d) DEF Layout
  <2>2. \A x : Has(c, x) => x \in 1..Len(l.next)
    BY ONLY Layout(l, c, d) DEF Layout, Chain, Has
  <2>3. \A x : Has(d, x) => x \in 1..Len(l.next)
    BY ONLY Layout(l, c, d) DEF Layout, Has
  <2>4. \A x : Has(p, x) => x \in 1..Len(l.next)
    BY ONLY <1>2, Layout(l, c, d) DEF Layout, Has
  <2> QED
    BY ONLY <1>4, <1>6, <1>9, <2>1, <2>2, <2>3, <2>4
<1>11. ToSet(all) = {x \in Nat : Has(all, x)}
  BY ONLY <1>6, <1>7 DEF ToSet, Has
<1>12. Cells(l) \subseteq Nat
  BY ONLY <1>9
<1> QED
  BY ONLY <1>8, <1>10, <1>11, <1>12

\* The loop that frees the old M2 still walks over the cells d.
LEMMA DetachedIs ==
  ASSUME NEW l, NEW prev, NEW next, NEW cur, NEW ms, NEW c, NEW d, NEW i, NEW j, NEW k,
         AtFree(l, prev, next, cur, ms, c, d, i, j, k)
  PROVE  Between(l, cur, next) = d
<1>1. PICK m, e : m = Len(d) /\ e = Append(d, next)
  OBVIOUS
<1>2. /\ Divided(l, c, d, i, j, k, prev, next) /\ m >= 1 /\ cur = d[1] /\ l.next[d[m]] = next
      /\ \A q \in 1..m - 1 : l.next[d[q]] = d[q + 1]
  BY ONLY <1>1, AtFree(l, prev, next, cur, ms, c, d, i, j, k) DEF AtFree
<1>3. /\ Layout(l, c, d) /\ i \in Nat /\ j \in Nat /\ k \in Nat /\ j <= k /\ k <= Len(c) - 1
      /\ next = (IF j = k THEN c[Len(c)] ELSE c[j + 1])
  BY ONLY <1>2 DEF Divided
<1>4. /\ c \in Seq(Nat) /\ d \in Seq(Nat) /\ Len(c) \in Nat /\ m \in Nat /\ Len(l.next) \in Nat
      /\ (\A q \in 1..Len(c) : c[q] \in 1..Len(l.next))
      /\ (\A q \in 1..m : d[q] \in 1..Len(l.next))
  BY ONLY <1>1, <1>3, LayoutFacts
<1>5. Sane(l) /\ Distinct(d) /\ Apart(c, d)
  BY ONLY <1>3 DEF Layout
<1>6. PICK z \in 1..Len(c) : next = c[z]
  <2>1. (j = k => Len(c) \in 1..Len(c)) /\ (j # k => j + 1 \in 1..Len(c))
    BY ONLY <1>3, <1>4
  <2> QED
    BY ONLY <1>3, <2>1
<1>7. next \in 1..Len(l.next) /\ next \in Nat /\ \A q \in 1..m : d[q] # next
  <2>1. next \in 1..Len(l.next)
    BY ONLY <1>4, <1>6
  <2>2. \A q \in 1..m : d[q] # next
    BY ONLY <1>1, <1>5, <1>6 DEF Apart
  <2> QED
    BY ONLY <1>4, <2>1, <2>2
<1>8. /\ e \in Seq(Nat) /\ Len(e) = m + 1 /\ e[m + 1] = next
      /\ \A q \in 1..m : e[q] = d[q]
  BY ONLY <1>1, <1>4, <1>7, AppendProperties
<1>9. \A q \in 1..m + 1 : q = m + 1 \/ q \in 1..m
  BY ONLY <1>4
<1>10. \A q, r \in 1..m + 1 : q # r => e[q] # e[r]
  <2>1. \A q, r \in 1..m : q # r => d[q] # d[r]
    BY ONLY <1>1, <1>5 DEF Distinct
  <2> QED
    BY ONLY <1>7, <1>8, <1>9, <2>1
<1>11. \A q \in 1..m + 1 : e[q] \in 1..Len(l.next)
  BY ONLY <1>4, <1>7, <1>8, <1>9
<1>12. \A q \in 1..m : l.next[e[q]] = e[q + 1]
  <2> TAKE q \in 1..m
  <2>1. CASE q = m
    BY ONLY <1>2, <1>8, <2>1, q \in 1..m
  <2>2. CASE q # m
    <3>1. q \in 1..m - 1 /\ q + 1 \in 1..m
      BY ONLY <1>4, <2>2, q \in 1..m
    <3> QED
      BY ONLY <1>2, <1>8, <3>1, q \in 1..m
  <2> QED
    BY ONLY <2>1, <2>2
<1>13. Chain(l, e)
  <2>1. (m + 1) - 1 = m
    BY ONLY <1>4
  <2>2. Distinct(e)
    BY ONLY <1>8, <1>10 DEF Distinct
  <2> QED
    BY ONLY <1>8, <1>11, <1>12, <2>1, <2>2 DEF Chain
<1>14. Stretch(l, e, 1, m + 1)
  <2>1. 1 \in 1..m + 1 /\ m + 1 \in 1..m + 1
    BY ONLY <1>4
  <2> QED
    BY ONLY <1>5, <1>8, <1>13, <2>1 DEF Stretch
<1>15. Between(l, e[1], e[m + 1]) = [r \in 1..(m + 1) - 1 |-> e[1 + (r - 1)]]
  BY ONLY <1>14, BetweenIs
<1>16. e[1] = cur /\ e[m + 1] = next
  <2>1. 1 \in 1..m
    BY ONLY <1>2, <1>4
  <2> QED
    BY ONLY <1>2, <1>8, <2>1
<1>17. [r \in 1..(m + 1) - 1 |-> e[1 + (r - 1)]] = d
  <2>1. (m + 1) - 1 = m /\ \A r \in 1..m : 1 + (r - 1) = r
    BY ONLY <1>4
  <2>2. PICK f : f = [r \in 1..(m + 1) - 1 |-> e[1 + (r - 1)]]
    OBVIOUS
  <2>3. DOMAIN f = 1..m /\ \A r \in 1..m : f[r] = d[r]
    BY ONLY <1>8, <2>1, <2>2
  <2>4. f = [r \in 1..m |-> f[r]]
    BY ONLY <2>2, <2>1
  <2>5. d = [r \in 1..m |-> d[r]]
    BY ONLY <1>1, <1>4, LenProperties
  <2> QED
    BY ONLY <2>2, <2>3, <2>4, <2>5
<1> QED
  BY ONLY <1>15, <1>16, <1>17

InParts(l, c, d, prev, next) == \E i, j, k : Divided(l, c, d, i, j, k, prev, next)

\* In every stage the heap is a list, the cells still to be freed, and the pool.
LEMMA StageLayout ==
  ASSUME ListInv
  PROVE  \E c, d : /\ Layout(kl, c, d) /\ Detached = d
                   /\ Loaded => InParts(kl, c, d, M2_prev, M2_next)
<1>1. stage \in {"idle", "ready", "push", "free", "run", "delete"} /\ AtStage
  BY DEF ListInv, Fixed
<1>2. CASE stage = "idle"
  <2>1. kl = EmptyList
    BY ONLY <1>1, <1>2 DEF AtStage
  <2>2. Layout(kl, <<1>>, <<>>)
    BY ONLY <2>1, EmptyLayout
  <2>3. Detached = <<>> /\ ~Loaded
    BY ONLY <1>2 DEF Detached, Loaded
  <2> QED
    BY ONLY <2>2, <2>3
<1>3. CASE stage = "ready"
  <2>1. PICK c, i, j, k : AtReady(kl, M2_prev, M2_next, c, i, j, k)
    BY ONLY <1>1, <1>3 DEF AtStage
  <2>2. Divided(kl, c, <<>>, i, j, k, M2_prev, M2_next)
    BY ONLY <2>1 DEF AtReady
  <2>3. Layout(kl, c, <<>>)
    BY ONLY <2>2 DEF Divided
  <2>4. Detached = <<>>
    BY ONLY <1>3 DEF Detached
  <2>5. InParts(kl, c, <<>>, M2_prev, M2_next)
    BY ONLY <2>2 DEF InParts
  <2> QED
    BY ONLY <2>3, <2>4, <2>5
<1>4. CASE stage = "push"
  <2>1. PICK c, i, j, k : AtPush(kl, M2_prev, M2_next, last, todo, MessagesOf(out), c, i, j, k)
    BY ONLY <1>1, <1>4 DEF AtStage
  <2>2. Divided(kl, c, <<>>, i, j, k, M2_prev, M2_next)
    BY ONLY <2>1 DEF AtPush
  <2>3. Layout(kl, c, <<>>)
    BY ONLY <2>2 DEF Divided
  <2>4. Detached = <<>>
    BY ONLY <1>4 DEF Detached
  <2>5. InParts(kl, c, <<>>, M2_prev, M2_next)
    BY ONLY <2>2 DEF InParts
  <2> QED
    BY ONLY <2>3, <2>4, <2>5
<1>5. CASE stage = "free"
  <2>1. PICK c, d, i, j, k : AtFree(kl, M2_prev, M2_next, it, MessagesOf(out), c, d, i, j, k)
    BY ONLY <1>1, <1>5 DEF AtStage
  <2>2. Divided(kl, c, d, i, j, k, M2_prev, M2_next)
    BY ONLY <2>1 DEF AtFree
  <2>3. Layout(kl, c, d)
    BY ONLY <2>2 DEF Divided
  <2>4. PICK l, prev, next, cur, ms : /\ l = kl /\ prev = M2_prev /\ next = M2_next /\ cur = it
                                      /\ ms = MessagesOf(out)
    OBVIOUS
  <2>5. AtFree(l, prev, next, cur, ms, c, d, i, j, k)
    BY ONLY <2>1, <2>4
  <2>6. Between(l, cur, next) = d
    BY ONLY <2>5, DetachedIs
  <2>7. Detached = d
    BY ONLY <1>5, <2>4, <2>6 DEF Detached
  <2>8. InParts(kl, c, d, M2_prev, M2_next)
    BY ONLY <2>2 DEF InParts
  <2> QED
    BY ONLY <2>3, <2>7, <2>8
<1>6. CASE stage = "run"
  <2>1. PICK c, i, j, k : AtRun(kl, M2_prev, M2_next, MessagesOf(out), c, i, j, k)
    BY ONLY <1>1, <1>6 DEF AtStage
  <2>2. Divided(kl, c, <<>>, i, j, k, M2_prev, M2_next)
    BY ONLY <2>1 DEF AtRun
  <2>3. Layout(kl, c, <<>>)
    BY ONLY <2>2 DEF Divided
  <2>4. Detached = <<>>
    BY ONLY <1>6 DEF Detached
  <2>5. InParts(kl, c, <<>>, M2_prev, M2_next)
    BY ONLY <2>2 DEF InParts
  <2> QED
    BY ONLY <2>3, <2>4, <2>5
<1>7. CASE stage = "delete"
  <2>1. PICK c : Layout(kl, c, <<>>)
    BY ONLY <1>1, <1>7 DEF AtStage
  <2>2. Detached = <<>> /\ ~Loaded
    BY ONLY <1>7 DEF Detached, Loaded
  <2> QED
    BY ONLY <2>1, <2>2
<1> QED
  BY ONLY <1>1, <1>2, <1>3, <1>4, <1>5, <1>6, <1>7

LEMMA SoundInParts ==
  ASSUME NEW l, NEW c, NEW d, NEW prev, NEW next, InParts(l, c, d, prev, next)
  PROVE  /\ next \in ToSet(Linked(l)) \cup {l.tail}
         /\ prev \in ToSet(Linked(l)) \cup {Null}
<1>1. PICK i, j, k : Divided(l, c, d, i, j, k, prev, next)
  BY ONLY InParts(l, c, d, prev, next) DEF InParts
<1>2. PICK n, s : n = Len(c) /\ s = Linked(l)
  OBVIOUS
<1>3. /\ Layout(l, c, d) /\ i \in Nat /\ j \in Nat /\ k \in Nat /\ i < j /\ j <= k /\ k <= n - 1
      /\ prev = (IF i = 0 THEN 0 ELSE c[i])
      /\ next = (IF j = k THEN c[n] ELSE c[j + 1])
  BY ONLY <1>1, <1>2 DEF Divided
<1>4. n \in Nat /\ l.tail = c[n]
  BY ONLY <1>2, <1>3, LayoutFacts
<1>5. s = [r \in 1..n - 1 |-> c[r]]
  BY ONLY <1>2, <1>3, LinkedIs
<1>6. \A r \in 1..n - 1 : c[r] \in ToSet(s)
  BY ONLY <1>5 DEF ToSet
<1>7. (i # 0 => i \in 1..n - 1) /\ (j # k => j + 1 \in 1..n - 1)
  BY ONLY <1>3, <1>4
<1> QED
  BY ONLY <1>2, <1>3, <1>4, <1>6, <1>7 DEF Null

LEMMA TypedAndSound ==
  ASSUME ListInv PROVE ListHolds
<1>1. PICK c, d : /\ Layout(kl, c, d) /\ Detached = d
                  /\ Loaded => InParts(kl, c, d, M2_prev, M2_next)
  BY ONLY ListInv, StageLayout
<1>2. PICK l, n : l = kl /\ n = Len(c)
  OBVIOUS
<1>3. Layout(l, c, d)
  BY ONLY <1>1, <1>2
<1>4. /\ l \in Heap /\ n \in Nat /\ n >= 1 /\ Len(l.next) \in Nat /\ Len(d) \in Nat
      /\ l.head = c[1] /\ l.tail = c[n] /\ l.next[c[n]] = 0
      /\ (\A q \in 1..n : c[q] \in 1..Len(l.next))
      /\ l.size = (n - 1) + Len(d)
  BY ONLY <1>2, <1>3, LayoutFacts
<1>5. \A q \in 1..n - 1 : l.next[c[q]] = c[q + 1]
  <2>1. \A q \in 1..Len(c) - 1 : l.next[c[q]] = c[q + 1]
    BY ONLY <1>3 DEF Layout, Chain
  <2> QED
    BY ONLY <1>2, <2>1
<1>6. /\ Len(l.data) = Len(l.next) /\ \A x \in 1..Len(l.next) : l.next[x] \in 0..Len(l.next)
      /\ \A q \in 1..Len(l.pool) : l.pool[q] \in 1..Len(l.next)
  BY ONLY <1>3 DEF Layout, Sane
<1>7. Cells(l) = 1..Len(l.next) /\ DOMAIN l.next = DOMAIN l.data
  BY ONLY <1>4, <1>6, LenProperties DEF Cells, Heap
<1>8. ListTypeOK
  <2>1. \A x \in Cells(l) : l.next[x] \in Cells(l) \cup {Null}
    BY ONLY <1>4, <1>6, <1>7 DEF Null
  <2>2. l.head \in Cells(l) /\ l.tail \in Cells(l) /\ l.size \in Nat
    <3>1. 1 \in 1..n /\ n \in 1..n
      BY ONLY <1>4
    <3> QED
      BY ONLY <1>4, <1>7, <3>1 DEF Heap
  <2>3. l.pool \in Seq(Cells(l))
    <3>1. l.pool \in Seq(Nat)
      BY ONLY <1>4 DEF Heap
    <3>2. \A q \in 1..Len(l.pool) : l.pool[q] \in Cells(l)
      BY ONLY <1>6, <1>7
    <3> QED
      BY ONLY <3>1, <3>2, ElementOfSeq, LenProperties, SeqDef
  <2> QED
    BY ONLY <1>2, <1>7, <2>1, <2>2, <2>3, ListInv DEF ListInv, Fixed, ListTypeOK
<1>9. CellsAccountedFor
  <2>1. PICK all : all = Linked(l) \o <<l.tail>> \o d \o l.pool
    OBVIOUS
  <2>2. IsInjective(all) /\ ToSet(all) = Cells(l)
    BY ONLY <1>3, <2>1, AllCells
  <2> QED
    BY ONLY <1>1, <1>2, <2>1, <2>2 DEF CellsAccountedFor
<1>10. ListIsSound
  <2>1. PICK s : s = Linked(l)
    OBVIOUS
  <2>2. s = [r \in 1..n - 1 |-> c[r]] /\ Len(s) = n - 1 /\ s \in Seq(Nat)
    BY ONLY <1>2, <1>3, <2>1, LinkedIs
  <2>3. l.next[l.tail] = Null
    BY ONLY <1>4 DEF Null
  <2>4. s # <<>> => l.next[Last(s)] = l.tail
    <3>1. HAVE s # <<>>
    <3>2. Len(s) # 0
      BY ONLY <2>2, <3>1, EmptySeq
    <3>3. n - 1 \in 1..n - 1 /\ (n - 1) + 1 = n
      BY ONLY <1>4, <2>2, <3>2
    <3>4. Last(s) = c[n - 1]
      BY ONLY <2>2, <3>3 DEF Last
    <3> QED
      BY ONLY <1>4, <1>5, <3>3, <3>4
  <2>5. l.size = Len(s) + Len(d)
    BY ONLY <1>4, <2>2
  <2>6. Loaded => /\ M2_next \in ToSet(Linked(l)) \cup {l.tail}
                  /\ M2_prev \in ToSet(Linked(l)) \cup {Null}
    BY ONLY <1>1, <1>2, SoundInParts
  <2> QED
    BY ONLY <1>1, <1>2, <2>1, <2>3, <2>4, <2>5, <2>6 DEF ListIsSound
<1> QED
  BY ONLY <1>8, <1>9, <1>10 DEF ListHolds

\* The cells and the list through every splice of common_fuzz_stuff.
THEOREM ListAlwaysHolds == ListSpec => []ListHolds
<1>1. ListSpec => []ListInv
  BY ListInvariant
<1>2. ListInv => ListHolds
  BY TypedAndSound
<1> QED
  BY <1>1, <1>2, PTL

-----------------------------------------------------------------------------
(* The three parts *)

LEMMA SegmentFacts ==
  ASSUME NEW c \in Seq(Nat), NEW p \in Nat, NEW q \in Nat, 1 <= p, p <= q, q <= Len(c) + 1
  PROVE  /\ Segment(c, p, q) \in Seq(Nat) /\ Len(Segment(c, p, q)) = q - p
         /\ \A r \in 1..q - p : Segment(c, p, q)[r] = c[p + (r - 1)]
<1>1. PICK m, n : m = q - p /\ n = Len(c)
  OBVIOUS
<1>2. n \in Nat /\ m \in Nat /\ p + m = q /\ q <= n + 1
  BY ONLY <1>1, c \in Seq(Nat), p \in Nat, q \in Nat, p <= q, q <= Len(c) + 1, LenProperties
<1>3. \A r \in 1..m : c[p + (r - 1)] \in Nat
  <2> TAKE r \in 1..m
  <2>1. p + (r - 1) \in 1..n
    BY ONLY <1>2, r \in 1..m, p \in Nat, 1 <= p
  <2> QED
    BY ONLY <1>1, <2>1, c \in Seq(Nat), ElementOfSeq
<1>4. PICK f : f = [r \in 1..m |-> c[p + (r - 1)]]
  OBVIOUS
<1>5. f \in Seq(Nat) /\ Len(f) = m /\ \A r \in 1..m : f[r] = c[p + (r - 1)]
  BY ONLY <1>2, <1>3, <1>4
<1>6. Segment(c, p, q) = f
  BY ONLY <1>1, <1>4 DEF Segment
<1> QED
  BY ONLY <1>1, <1>5, <1>6

LEMMA SegmentEnd ==
  ASSUME NEW c \in Seq(Nat), NEW p \in Nat, NEW q \in Nat, 1 <= p, p <= q, q <= Len(c)
  PROVE  Append(Segment(c, p, q), c[q]) = Segment(c, p, q + 1)
<1>1. PICK s, t, m, n : s = Segment(c, p, q) /\ t = Segment(c, p, q + 1) /\ m = q - p /\ n = Len(c)
  OBVIOUS
<1>2. n \in Nat /\ m \in Nat /\ q <= n /\ q <= n + 1 /\ (q + 1) - p = m + 1 /\ p + m = q
      /\ q + 1 <= n + 1 /\ q + 1 \in Nat /\ p <= q + 1
  BY ONLY <1>1, c \in Seq(Nat), p \in Nat, q \in Nat, p <= q, q <= Len(c), LenProperties
<1>3. s \in Seq(Nat) /\ Len(s) = m /\ \A r \in 1..m : s[r] = c[p + (r - 1)]
  <2>1. /\ Segment(c, p, q) \in Seq(Nat) /\ Len(Segment(c, p, q)) = q - p
        /\ \A r \in 1..q - p : Segment(c, p, q)[r] = c[p + (r - 1)]
    <3>1. q <= Len(c) + 1
      BY ONLY <1>1, <1>2
    <3> QED
      BY ONLY <3>1, c \in Seq(Nat), p \in Nat, q \in Nat, 1 <= p, p <= q, SegmentFacts
  <2> QED
    BY ONLY <1>1, <2>1
<1>4. t \in Seq(Nat) /\ Len(t) = m + 1 /\ \A r \in 1..m + 1 : t[r] = c[p + (r - 1)]
  <2>1. /\ Segment(c, p, q + 1) \in Seq(Nat) /\ Len(Segment(c, p, q + 1)) = (q + 1) - p
        /\ \A r \in 1..(q + 1) - p : Segment(c, p, q + 1)[r] = c[p + (r - 1)]
    <3>1. q + 1 <= Len(c) + 1 /\ q + 1 \in Nat /\ p <= q + 1
      BY ONLY <1>1, <1>2
    <3> QED
      BY ONLY <3>1, c \in Seq(Nat), p \in Nat, 1 <= p, SegmentFacts
  <2> QED
    BY ONLY <1>1, <1>2, <2>1
<1>5. c[q] \in Nat
  <2>1. q \in 1..n
    BY ONLY <1>2, p \in Nat, q \in Nat, 1 <= p, p <= q
  <2> QED
    BY ONLY <1>1, <2>1, c \in Seq(Nat), ElementOfSeq
<1>6. PICK u : u = Append(s, c[q])
  OBVIOUS
<1>7. u \in Seq(Nat) /\ Len(u) = m + 1 /\ u[m + 1] = c[q] /\ \A r \in 1..m : u[r] = s[r]
  BY ONLY <1>3, <1>5, <1>6, AppendProperties
<1>8. \A r \in 1..m + 1 : u[r] = t[r]
  <2> TAKE r \in 1..m + 1
  <2>1. CASE r = m + 1
    <3>1. p + (r - 1) = q
      BY ONLY <1>2, <2>1, p \in Nat, q \in Nat
    <3> QED
      BY ONLY <1>4, <1>7, <2>1, <3>1, r \in 1..m + 1
  <2>2. CASE r # m + 1
    <3>1. r \in 1..m
      BY ONLY <1>2, <2>2, r \in 1..m + 1
    <3> QED
      BY ONLY <1>3, <1>4, <1>7, <3>1, r \in 1..m + 1
  <2> QED
    BY ONLY <2>1, <2>2
<1>9. u = t
  BY ONLY <1>4, <1>7, <1>8, SeqEqual
<1> QED
  BY ONLY <1>1, <1>6, <1>9

First(l, prev) == IF prev = Null THEN l.head ELSE l.next[prev]
Through(l, a, b) == Append(Between(l, a, b), b)

\* The cells of M1, M2 and M3, between their boundaries, and while messages
\* are pushed behind the last of M3.
LEMMA PartsAre ==
  ASSUME NEW l, NEW c, NEW d, NEW i, NEW j, NEW k, NEW prev, NEW next,
         Divided(l, c, d, i, j, k, prev, next)
  PROVE  /\ (IF prev = Null THEN <<>> ELSE Through(l, l.head, prev)) = Segment(c, 1, i + 1)
         /\ next = l.tail <=> j = k \/ j = Len(c) - 1
         /\ k = Len(c) - 1 \/ j # k => Between(l, First(l, prev), next) = Segment(c, i + 1, j + 1)
         /\ k = Len(c) - 1 => Between(l, next, l.tail) = Segment(c, j + 1, k + 1)
         /\ j = k => Through(l, First(l, prev), c[k]) = Segment(c, i + 1, j + 1)
         /\ j # k => Through(l, next, c[k]) = Segment(c, j + 1, k + 1)
<1>1. PICK n : n = Len(c)
  OBVIOUS
<1>2. /\ Layout(l, c, d) /\ i \in Nat /\ j \in Nat /\ k \in Nat /\ i < j /\ j <= k /\ k <= n - 1
      /\ prev = (IF i = 0 THEN 0 ELSE c[i])
      /\ next = (IF j = k THEN c[n] ELSE c[j + 1])
  BY ONLY <1>1, Divided(l, c, d, i, j, k, prev, next) DEF Divided
<1>3. c \in Seq(Nat) /\ n \in Nat /\ n >= 1 /\ l.head = c[1] /\ l.tail = c[n]
  BY ONLY <1>1, <1>2, LayoutFacts
<1>4. \A q \in 1..n : c[q] # 0
  <2>1. \A q \in 1..Len(c) : c[q] \in 1..Len(l.next)
    BY ONLY <1>2 DEF Layout, Chain
  <2>2. Len(l.next) \in Nat
    BY ONLY <1>2, LayoutFacts
  <2> QED
    BY ONLY <1>1, <2>1, <2>2
<1>5. \A q \in 1..n - 1 : l.next[c[q]] = c[q + 1]
  <2>1. \A q \in 1..Len(c) - 1 : l.next[c[q]] = c[q + 1]
    BY ONLY <1>2 DEF Layout, Chain
  <2> QED
    BY ONLY <1>1, <2>1
<1>6. \A q, r \in 1..n : q # r => c[q] # c[r]
  BY ONLY <1>1, <1>2 DEF Layout, Chain, Distinct
<1>7. ASSUME NEW p \in 1..n, NEW q \in p..n
      PROVE  Between(l, c[p], c[q]) = Segment(c, p, q) /\ Through(l, c[p], c[q]) = Segment(c, p, q + 1)
  <2>1. Portion(l, c, d, p, q)
    BY ONLY <1>1, <1>2, p \in 1..n, q \in p..n DEF Portion
  <2>2. Between(l, c[p], c[q]) = Segment(c, p, q)
    BY ONLY <2>1, BetweenCells
  <2>3. p \in Nat /\ q \in Nat /\ 1 <= p /\ p <= q /\ q <= Len(c)
    BY ONLY <1>1, <1>3, p \in 1..n, q \in p..n
  <2>4. Append(Segment(c, p, q), c[q]) = Segment(c, p, q + 1)
    BY ONLY <1>3, <2>3, SegmentEnd
  <2> QED
    BY ONLY <2>2, <2>4 DEF Through
<1>8. First(l, prev) = c[i + 1]
  <2>1. CASE i = 0
    BY ONLY <1>2, <1>3, <2>1 DEF First, Null
  <2>2. CASE i # 0
    <3>1. i \in 1..n /\ i \in 1..n - 1
      BY ONLY <1>2, <1>3, <2>2
    <3> QED
      BY ONLY <1>2, <1>4, <1>5, <2>2, <3>1 DEF First, Null
  <2> QED
    BY ONLY <2>1, <2>2
<1>9. (IF prev = Null THEN <<>> ELSE Through(l, l.head, prev)) = Segment(c, 1, i + 1)
  <2>1. CASE i = 0
    <3>1. prev = Null
      BY ONLY <1>2, <2>1 DEF Null
    <3>2. Segment(c, 1, i + 1) \in Seq(Nat) /\ Len(Segment(c, 1, i + 1)) = (i + 1) - 1
      <4>1. 1 \in Nat /\ i + 1 \in Nat /\ 1 <= 1 /\ 1 <= i + 1 /\ i + 1 <= Len(c) + 1
        BY ONLY <1>1, <1>2, <1>3
      <4> QED
        BY ONLY <1>3, <4>1, SegmentFacts
    <3>3. Segment(c, 1, i + 1) = <<>>
      <4>1. Len(Segment(c, 1, i + 1)) = 0
        BY ONLY <2>1, <3>2
      <4> QED
        BY ONLY <3>2, <4>1, EmptySeq
    <3> QED
      BY ONLY <3>1, <3>3
  <2>2. CASE i # 0
    <3>1. i \in 1..n /\ 1 \in 1..n
      BY ONLY <1>2, <1>3, <2>2
    <3>2. prev = c[i] /\ prev # Null
      BY ONLY <1>2, <1>4, <2>2, <3>1 DEF Null
    <3> QED
      BY ONLY <1>3, <1>7, <3>1, <3>2
  <2> QED
    BY ONLY <2>1, <2>2
<1>10. next = l.tail <=> j = k \/ j = n - 1
  <2>1. CASE j = k
    BY ONLY <1>2, <1>3, <2>1
  <2>2. CASE j # k
    <3>1. j + 1 \in 1..n /\ n \in 1..n /\ j + 1 # n /\ j # n - 1
      BY ONLY <1>2, <1>3, <2>2
    <3> QED
      BY ONLY <1>2, <1>3, <1>6, <2>2, <3>1
  <2> QED
    BY ONLY <2>1, <2>2
<1>11. i + 1 \in 1..n /\ j + 1 \in (i + 1)..n /\ j + 1 \in 1..n /\ k \in (i + 1)..n /\ n \in (j + 1)..n
  BY ONLY <1>2, <1>3
<1>12. k = n - 1 \/ j # k => Between(l, First(l, prev), next) = Segment(c, i + 1, j + 1)
  <2>1. HAVE k = n - 1 \/ j # k
  <2>2. next = c[j + 1]
    <3>1. CASE j = k
      <4>1. j + 1 = n
        BY ONLY <1>3, <2>1, <3>1
      <4> QED
        BY ONLY <1>2, <3>1, <4>1
    <3>2. CASE j # k
      BY ONLY <1>2, <3>2
    <3> QED
      BY ONLY <3>1, <3>2
  <2> QED
    BY ONLY <1>7, <1>8, <1>11, <2>2
<1>13. k = n - 1 => Between(l, next, l.tail) = Segment(c, j + 1, k + 1)
  <2>1. HAVE k = n - 1
  <2>2. next = c[j + 1] /\ k + 1 = n
    <3>1. CASE j = k
      <4>1. j + 1 = n /\ k + 1 = n
        BY ONLY <1>3, <2>1, <3>1
      <4> QED
        BY ONLY <1>2, <3>1, <4>1
    <3>2. CASE j # k
      BY ONLY <1>2, <1>3, <2>1, <3>2
    <3> QED
      BY ONLY <3>1, <3>2
  <2>3. Between(l, c[j + 1], c[n]) = Segment(c, j + 1, n)
    BY ONLY <1>7, <1>11
  <2> QED
    BY ONLY <1>3, <2>2, <2>3
<1>14. j = k => Through(l, First(l, prev), c[k]) = Segment(c, i + 1, j + 1)
  BY ONLY <1>7, <1>8, <1>11
<1>15. j # k => Through(l, next, c[k]) = Segment(c, j + 1, k + 1)
  <2>1. HAVE j # k
  <2>2. next = c[j + 1] /\ k \in (j + 1)..n
    BY ONLY <1>2, <1>3, <2>1
  <2> QED
    BY ONLY <1>7, <1>11, <2>2
<1> QED
  BY ONLY <1>1, <1>9, <1>10, <1>12, <1>13, <1>14, <1>15

\* The messages of the cells c from the p-th up to the one before the q-th.
Piece(l, c, d, p, q) ==
  Layout(l, c, d) /\ p \in Nat /\ q \in Nat /\ 1 <= p /\ p <= q /\ q <= Len(c) + 1

LEMMA PieceIs ==
  ASSUME NEW l, NEW c, NEW d, NEW p, NEW q, Piece(l, c, d, p, q)
  PROVE  /\ Data(l, Segment(c, p, q)) \in Seq(Seq(Nat)) /\ Len(Data(l, Segment(c, p, q))) = q - p
         /\ \A r \in 1..q - p : Data(l, Segment(c, p, q))[r] = l.data[c[p + (r - 1)]]
<1>1. Layout(l, c, d) /\ p \in Nat /\ q \in Nat /\ 1 <= p /\ p <= q /\ q <= Len(c) + 1
  BY DEF Piece
<1>2. /\ l \in Heap /\ c \in Seq(Nat) /\ Len(c) \in Nat
      /\ \A r \in 1..Len(c) : c[r] \in 1..Len(l.next)
  BY ONLY <1>1, LayoutFacts
<1>3. /\ Segment(c, p, q) \in Seq(Nat) /\ Len(Segment(c, p, q)) = q - p
      /\ \A r \in 1..q - p : Segment(c, p, q)[r] = c[p + (r - 1)]
  BY ONLY <1>1, <1>2, SegmentFacts
<1>4. PICK n, s, a : n = q - p /\ s = Segment(c, p, q) /\ a = Data(l, s)
  OBVIOUS
<1>5. n \in Nat /\ p + n = q
  BY ONLY <1>1, <1>4
<1>6. DOMAIN s = 1..n /\ \A r \in 1..n : s[r] = c[p + (r - 1)]
  BY ONLY <1>3, <1>4, LenProperties
<1>7. a = [r \in 1..n |-> l.data[s[r]]]
  BY ONLY <1>4, <1>6 DEF Data
<1> DEFINE T == Seq(Nat)
<1>8. \A x \in 1..Len(l.next) : l.data[x] \in T
  <2>1. l.data \in Seq(T) /\ Len(l.data) = Len(l.next)
    BY <1>1, <1>2 DEF Heap, Layout, Sane
  <2> HIDE DEF T
  <2> QED
    BY ONLY <2>1, ElementOfSeq
<1> HIDE DEF T
<1>9. \A r \in 1..n : l.data[s[r]] \in T
  <2> TAKE r \in 1..n
  <2>1. p + (r - 1) \in 1..Len(c)
    BY ONLY <1>1, <1>2, <1>5, r \in 1..n
  <2> QED
    BY ONLY <1>2, <1>6, <1>8, <2>1, r \in 1..n
<1>10. a \in [1..n -> T]
  BY ONLY <1>7, <1>9
<1>11. a \in Seq(T) /\ Len(a) = n
  BY ONLY <1>5, <1>10
<1>12. a \in Seq(Seq(Nat))
  BY ONLY <1>11 DEF T
<1>13. \A r \in 1..n : a[r] = l.data[c[p + (r - 1)]]
  BY ONLY <1>6, <1>7
<1> QED
  BY ONLY <1>4, <1>11, <1>12, <1>13

Cells1(l, prev) == IF prev = Null THEN <<>> ELSE Through(l, l.head, prev)
Cells2(st, l, prev, next, end) ==
  IF st = "push" /\ next = l.tail THEN Through(l, First(l, prev), end)
                                  ELSE Between(l, First(l, prev), next)
Cells3(st, l, prev, next, end) ==
  IF st = "push" /\ next = l.tail THEN <<>>
  ELSE IF st = "push" THEN Through(l, next, end)
  ELSE Between(l, next, l.tail)
Shown(st, l, prev, next, end) ==
  << Data(l, Cells1(l, prev)), Data(l, Cells2(st, l, prev, next, end)),
     Data(l, Cells3(st, l, prev, next, end)) >>

Split(l, c, i, j, k) ==
  << Data(l, Segment(c, 1, i + 1)), Data(l, Segment(c, i + 1, j + 1)),
     Data(l, Segment(c, j + 1, k + 1)) >>

InStage(st, l, prev, next, end, c, d, i, j, k) ==
  /\ Divided(l, c, d, i, j, k, prev, next)
  /\ (st = "push" /\ end = c[k]) \/ (st # "push" /\ k = Len(c) - 1)

LEMMA ShownIs ==
  ASSUME NEW st, NEW l, NEW prev, NEW next, NEW end, NEW c, NEW d, NEW i, NEW j, NEW k,
         InStage(st, l, prev, next, end, c, d, i, j, k)
  PROVE  /\ Cells1(l, prev) = Segment(c, 1, i + 1)
         /\ Cells2(st, l, prev, next, end) = Segment(c, i + 1, j + 1)
         /\ Cells3(st, l, prev, next, end) = Segment(c, j + 1, k + 1)
         /\ Shown(st, l, prev, next, end) = Split(l, c, i, j, k)
<1>1. Divided(l, c, d, i, j, k, prev, next)
  BY DEF InStage
<1>2. \/ st = "push" /\ end = c[k]
      \/ st # "push" /\ k = Len(c) - 1
  BY DEF InStage
<1>3. /\ (IF prev = Null THEN <<>> ELSE Through(l, l.head, prev)) = Segment(c, 1, i + 1)
      /\ next = l.tail <=> j = k \/ j = Len(c) - 1
      /\ k = Len(c) - 1 \/ j # k => Between(l, First(l, prev), next) = Segment(c, i + 1, j + 1)
      /\ k = Len(c) - 1 => Between(l, next, l.tail) = Segment(c, j + 1, k + 1)
      /\ j = k => Through(l, First(l, prev), c[k]) = Segment(c, i + 1, j + 1)
      /\ j # k => Through(l, next, c[k]) = Segment(c, j + 1, k + 1)
  BY ONLY <1>1, PartsAre
<1>4. /\ Layout(l, c, d) /\ i \in Nat /\ j \in Nat /\ k \in Nat /\ i < j /\ j <= k
      /\ k <= Len(c) - 1
  BY ONLY <1>1 DEF Divided
<1>5. c \in Seq(Nat) /\ Len(c) \in Nat
  BY ONLY <1>4, LayoutFacts
<1>6. j = Len(c) - 1 => j = k
  BY ONLY <1>4, <1>5
<1>7. Cells1(l, prev) = Segment(c, 1, i + 1)
  BY ONLY <1>3 DEF Cells1
<1>8. Cells2(st, l, prev, next, end) = Segment(c, i + 1, j + 1)
  BY ONLY <1>2, <1>3, <1>6 DEF Cells2
<1>9. j = k => Segment(c, j + 1, k + 1) = <<>>
  <2>1. HAVE j = k
  <2>2. k + 1 \in Nat /\ j + 1 \in Nat /\ 1 <= j + 1 /\ j + 1 <= k + 1 /\ k + 1 <= Len(c) + 1
    BY ONLY <1>4, <1>5
  <2>3. Segment(c, j + 1, k + 1) \in Seq(Nat) /\ Len(Segment(c, j + 1, k + 1)) = (k + 1) - (j + 1)
    BY ONLY <1>5, <2>2, SegmentFacts
  <2>4. Len(Segment(c, j + 1, k + 1)) = 0
    BY ONLY <1>4, <2>1, <2>3
  <2> QED
    BY ONLY <2>3, <2>4, EmptySeq
<1>10. Cells3(st, l, prev, next, end) = Segment(c, j + 1, k + 1)
  BY ONLY <1>2, <1>3, <1>6, <1>9 DEF Cells3
<1> QED
  BY ONLY <1>7, <1>8, <1>10 DEF Shown, Split

\* While the target runs, M2 is the buffer that common_fuzz_stuff got.
LEMMA SentIs ==
  ASSUME ListInv PROVE BufferIsSent
<1> SUFFICES ASSUME stage = "run" PROVE FlattenSeq(Data(kl, M2Cells)) = FlattenSeq(out)
  BY DEF BufferIsSent
<1>1. out # <<>> /\ out \in Seq(Seq(Nat))
      /\ \E c, i, j, k : AtRun(kl, M2_prev, M2_next, MessagesOf(out), c, i, j, k)
  BY DEF ListInv, Fixed, AtStage
<1>2. PICK c, i, j, k : AtRun(kl, M2_prev, M2_next, MessagesOf(out), c, i, j, k)
  BY ONLY <1>1
<1>3. PICK l, prev, next, end, ms : /\ l = kl /\ prev = M2_prev /\ next = M2_next /\ end = last
                                    /\ ms = MessagesOf(out)
  OBVIOUS
<1>4. /\ Divided(l, c, <<>>, i, j, k, prev, next) /\ k = Len(c) - 1
      /\ ms \in Seq(Seq(Nat)) /\ Len(ms) = j - i
      /\ \A q \in 1..j - i : l.data[c[i + q]] = ms[q]
  BY ONLY <1>2, <1>3 DEF AtRun, Filled
<1>5. InStage("run", l, prev, next, end, c, <<>>, i, j, k)
  BY ONLY <1>4 DEF InStage
<1>6. Cells2("run", l, prev, next, end) = Segment(c, i + 1, j + 1)
  BY ONLY <1>5, ShownIs
<1>7. M2Cells = Segment(c, i + 1, j + 1)
  BY ONLY <1>3, <1>6, stage = "run" DEF M2Cells, Cells2, FirstOfM2, First
<1>8. /\ Layout(l, c, <<>>) /\ i \in Nat /\ j \in Nat /\ i < j /\ j <= k /\ k \in Nat
  BY ONLY <1>4 DEF Divided
<1>9. Len(c) \in Nat
  BY ONLY <1>8, LayoutFacts
<1>10. PICK p, z : p = i + 1 /\ z = j + 1
  OBVIOUS
<1>11. Piece(l, c, <<>>, p, z)
  BY ONLY <1>4, <1>8, <1>9, <1>10 DEF Piece
<1>12. PICK a : a = Data(l, Segment(c, p, z))
  OBVIOUS
<1>13. a \in Seq(Seq(Nat)) /\ Len(a) = z - p /\ \A r \in 1..z - p : a[r] = l.data[c[p + (r - 1)]]
  BY ONLY <1>11, <1>12, PieceIs
<1>14. a = ms
  <2>1. z - p = j - i /\ \A r \in 1..j - i : p + (r - 1) = i + r
    BY ONLY <1>8, <1>10
  <2>2. Len(a) = Len(ms) /\ \A r \in 1..Len(a) : a[r] = ms[r]
    BY ONLY <1>4, <1>13, <2>1
  <2> DEFINE T == Seq(Nat)
  <2>3. a \in Seq(T) /\ ms \in Seq(T)
    BY ONLY <1>4, <1>13
  <2> HIDE DEF T
  <2> QED
    BY ONLY <2>2, <2>3, SeqEqual
<1>15. FlattenSeq(ms) = FlattenSeq(out)
  BY ONLY <1>1, <1>3, MessagesOfIs
<1> QED
  BY ONLY <1>3, <1>7, <1>10, <1>12, <1>14, <1>15

\* When the target is run, M2 is the mutated buffer to the last byte.
THEOREM BufferAlwaysSent == ListSpec => []BufferIsSent
<1>1. ListSpec => []ListInv
  BY ListInvariant
<1>2. ListInv => BufferIsSent
  BY SentIs
<1> QED
  BY <1>1, <1>2, PTL

\* Pieces of two lists with the same messages.
SamePiece(l, c, d, p, q, t, e, f, p1, q1) ==
  /\ Piece(l, c, d, p, q) /\ Piece(t, e, f, p1, q1) /\ q - p = q1 - p1
  /\ \A r \in 1..q - p : l.data[c[p + (r - 1)]] = t.data[e[p1 + (r - 1)]]

LEMMA PiecesAgree ==
  ASSUME NEW l, NEW c, NEW d, NEW p, NEW q, NEW t, NEW e, NEW f, NEW p1, NEW q1,
         SamePiece(l, c, d, p, q, t, e, f, p1, q1)
  PROVE  Data(l, Segment(c, p, q)) = Data(t, Segment(e, p1, q1))
<1>1. /\ Piece(l, c, d, p, q) /\ Piece(t, e, f, p1, q1) /\ q - p = q1 - p1
      /\ \A r \in 1..q - p : l.data[c[p + (r - 1)]] = t.data[e[p1 + (r - 1)]]
  BY DEF SamePiece
<1>2. PICK a, b : a = Data(l, Segment(c, p, q)) /\ b = Data(t, Segment(e, p1, q1))
  OBVIOUS
<1>3. /\ a \in Seq(Seq(Nat)) /\ Len(a) = q - p
      /\ \A r \in 1..q - p : a[r] = l.data[c[p + (r - 1)]]
  BY ONLY <1>1, <1>2, PieceIs
<1>4. /\ b \in Seq(Seq(Nat)) /\ Len(b) = q1 - p1
      /\ \A r \in 1..q1 - p1 : b[r] = t.data[e[p1 + (r - 1)]]
  BY ONLY <1>1, <1>2, PieceIs
<1> DEFINE T == Seq(Nat)
<1>5. a \in Seq(T) /\ b \in Seq(T)
  BY ONLY <1>3, <1>4
<1> HIDE DEF T
<1>6. Len(a) = Len(b) /\ \A r \in 1..Len(a) : a[r] = b[r]
  BY ONLY <1>1, <1>3, <1>4
<1>7. a = b
  BY ONLY <1>5, <1>6, SeqEqual
<1> QED
  BY ONLY <1>2, <1>7

Cut(l, c, d, i, j, k) ==
  /\ Layout(l, c, d) /\ i \in Nat /\ j \in Nat /\ k \in Nat /\ i < j /\ j <= k
  /\ k <= Len(c) - 1

LEMMA CutPieces ==
  ASSUME NEW l, NEW c, NEW d, NEW i, NEW j, NEW k, Cut(l, c, d, i, j, k)
  PROVE  /\ Piece(l, c, d, 1, i + 1) /\ Piece(l, c, d, i + 1, j + 1)
         /\ Piece(l, c, d, j + 1, k + 1)
<1>1. /\ Layout(l, c, d) /\ i \in Nat /\ j \in Nat /\ k \in Nat /\ i < j /\ j <= k
      /\ k <= Len(c) - 1
  BY DEF Cut
<1>2. Len(c) \in Nat
  BY ONLY <1>1, LayoutFacts
<1> QED
  BY ONLY <1>1, <1>2 DEF Piece

LEMMA ThreeConcat ==
  ASSUME NEW S, NEW a \in Seq(S), NEW b \in Seq(S), NEW c \in Seq(S), NEW u, u = a \o b \o c
  PROVE  /\ u \in Seq(S) /\ Len(u) = Len(a) + Len(b) + Len(c)
         /\ \A q \in 1..Len(u) :
              u[q] = IF q <= Len(a) THEN a[q]
                     ELSE IF q <= Len(a) + Len(b) THEN b[q - Len(a)]
                     ELSE c[q - (Len(a) + Len(b))]
<1>1. PICK v, m, n, o : v = a \o b /\ m = Len(a) /\ n = Len(b) /\ o = Len(c)
  OBVIOUS
<1>2. m \in Nat /\ n \in Nat /\ o \in Nat
  BY ONLY <1>1, a \in Seq(S), b \in Seq(S), c \in Seq(S), LenProperties
<1>3. /\ v \in Seq(S) /\ Len(v) = m + n
      /\ \A q \in 1..m + n : v[q] = IF q <= m THEN a[q] ELSE b[q - m]
  BY ONLY <1>1, a \in Seq(S), b \in Seq(S), ConcatProperties
<1>4. u = v \o c
  BY ONLY <1>1, u = a \o b \o c
<1>5. /\ u \in Seq(S) /\ Len(u) = Len(v) + o
      /\ \A q \in 1..Len(v) + o : u[q] = IF q <= Len(v) THEN v[q] ELSE c[q - Len(v)]
  BY ONLY <1>1, <1>3, <1>4, c \in Seq(S), ConcatProperties
<1>6. \A q \in 1..m + n + o : q <= m + n => q \in 1..m + n
  BY ONLY <1>2
<1>7. \A q \in 1..m + n + o :
        u[q] = IF q <= m THEN a[q] ELSE IF q <= m + n THEN b[q - m] ELSE c[q - (m + n)]
  <2> TAKE q \in 1..m + n + o
  <2>1. u[q] = IF q <= m + n THEN v[q] ELSE c[q - (m + n)]
    BY ONLY <1>3, <1>5, q \in 1..m + n + o
  <2>2. CASE q <= m + n
    BY ONLY <1>3, <1>6, <2>1, <2>2, q \in 1..m + n + o
  <2>3. CASE ~(q <= m + n)
    <3>1. ~(q <= m)
      BY ONLY <1>2, <2>3, q \in 1..m + n + o
    <3> QED
      BY ONLY <2>1, <2>3, <3>1
  <2> QED
    BY ONLY <2>2, <2>3
<1> QED
  BY ONLY <1>1, <1>2, <1>3, <1>5, <1>7

Entire(p) == p[1] \o p[2] \o p[3]

\* The parts are the messages of the first k cells.
LEMMA WholeIs ==
  ASSUME NEW l, NEW c, NEW d, NEW i, NEW j, NEW k, Cut(l, c, d, i, j, k)
  PROVE  /\ Entire(Split(l, c, i, j, k)) \in Seq(Seq(Nat)) /\ Len(Entire(Split(l, c, i, j, k))) = k
         /\ \A q \in 1..k : Entire(Split(l, c, i, j, k))[q] = l.data[c[q]]
<1>20. PICK p, w : p = Split(l, c, i, j, k) /\ w = Entire(p)
  OBVIOUS
<1>1. /\ i \in Nat /\ j \in Nat /\ k \in Nat /\ i < j /\ j <= k
  BY DEF Cut
<1>2. PICK m, n, o : m = i + 1 /\ n = j + 1 /\ o = k + 1
  OBVIOUS
<1>3. Piece(l, c, d, 1, m) /\ Piece(l, c, d, m, n) /\ Piece(l, c, d, n, o)
  BY ONLY Cut(l, c, d, i, j, k), <1>2, CutPieces
<1>4. PICK x, y, z : /\ x = Data(l, Segment(c, 1, m)) /\ y = Data(l, Segment(c, m, n))
                     /\ z = Data(l, Segment(c, n, o))
  OBVIOUS
<1> DEFINE T == Seq(Nat)
<1>5. /\ x \in Seq(T) /\ Len(x) = m - 1
      /\ \A r \in 1..m - 1 : x[r] = l.data[c[1 + (r - 1)]]
  <2>1. PICK u : u = 1
    OBVIOUS
  <2>2. Piece(l, c, d, u, m) /\ x = Data(l, Segment(c, u, m))
    BY ONLY <1>3, <1>4, <2>1
  <2>3. /\ x \in Seq(T) /\ Len(x) = m - u
        /\ \A r \in 1..m - u : x[r] = l.data[c[u + (r - 1)]]
    BY ONLY <2>2, PieceIs
  <2> QED
    BY ONLY <2>1, <2>3
<1>6. /\ y \in Seq(T) /\ Len(y) = n - m
      /\ \A r \in 1..n - m : y[r] = l.data[c[m + (r - 1)]]
  BY ONLY <1>3, <1>4, PieceIs
<1>7. /\ z \in Seq(T) /\ Len(z) = o - n
      /\ \A r \in 1..o - n : z[r] = l.data[c[n + (r - 1)]]
  BY ONLY <1>3, <1>4, PieceIs
<1> HIDE DEF T
<1>8. p[1] = x /\ p[2] = y /\ p[3] = z
  BY ONLY <1>2, <1>4, <1>20 DEF Split
<1>9. w = x \o y \o z
  BY ONLY <1>8, <1>20 DEF Entire
<1>10. /\ w \in Seq(T) /\ Len(w) = Len(x) + Len(y) + Len(z)
       /\ \A q \in 1..Len(w) :
            w[q] = IF q <= Len(x) THEN x[q]
                   ELSE IF q <= Len(x) + Len(y) THEN y[q - Len(x)]
                   ELSE z[q - (Len(x) + Len(y))]
  <2>1. x \in Seq(T) /\ y \in Seq(T) /\ z \in Seq(T)
    BY ONLY <1>5, <1>6, <1>7
  <2> QED
    BY ONLY <1>9, <2>1, ThreeConcat
<1>11. Len(x) = i /\ Len(y) = j - i /\ Len(z) = k - j
  BY ONLY <1>1, <1>2, <1>5, <1>6, <1>7
<1>12. Len(w) = k /\ Len(x) + Len(y) = j
  BY ONLY <1>1, <1>10, <1>11
<1>13. \A q \in 1..k : w[q] = l.data[c[q]]
  <2> TAKE q \in 1..k
  <2>1. w[q] = IF q <= i THEN x[q] ELSE IF q <= j THEN y[q - i] ELSE z[q - j]
    BY ONLY <1>10, <1>11, <1>12, q \in 1..k
  <2>2. CASE q <= i
    <3>1. q \in 1..m - 1 /\ 1 + (q - 1) = q
      BY ONLY <1>1, <1>2, <2>2, q \in 1..k
    <3> QED
      BY ONLY <1>5, <2>1, <2>2, <3>1
  <2>3. CASE ~(q <= i) /\ q <= j
    <3>1. q - i \in 1..n - m /\ m + ((q - i) - 1) = q
      BY ONLY <1>1, <1>2, <2>3, q \in 1..k
    <3> QED
      BY ONLY <1>6, <2>1, <2>3, <3>1
  <2>4. CASE ~(q <= i) /\ ~(q <= j)
    <3>1. q - j \in 1..o - n /\ n + ((q - j) - 1) = q
      BY ONLY <1>1, <1>2, <2>4, q \in 1..k
    <3> QED
      BY ONLY <1>7, <2>1, <2>4, <3>1
  <2> QED
    BY ONLY <2>2, <2>3, <2>4
<1>14. w \in Seq(Seq(Nat))
  BY ONLY <1>10 DEF T
<1> QED
  BY ONLY <1>12, <1>13, <1>14, <1>20

LEMMA DividedCut ==
  ASSUME NEW l, NEW c, NEW d, NEW i, NEW j, NEW k, NEW prev, NEW next,
         Divided(l, c, d, i, j, k, prev, next)
  PROVE  Cut(l, c, d, i, j, k)
BY DEF Divided, Cut

LEMMA MiddleIs ==
  ASSUME NEW l, NEW c, NEW d, NEW i, NEW j, NEW k, Cut(l, c, d, i, j, k)
  PROVE  Len(Split(l, c, i, j, k)[2]) = j - i
<1>1. PICK m, n : m = i + 1 /\ n = j + 1
  OBVIOUS
<1>2. Piece(l, c, d, m, n)
  BY ONLY Cut(l, c, d, i, j, k), <1>1, CutPieces
<1>3. Len(Data(l, Segment(c, m, n))) = n - m
  BY ONLY <1>2, PieceIs
<1>4. i \in Nat /\ j \in Nat
  BY ONLY Cut(l, c, d, i, j, k) DEF Cut
<1>5. Split(l, c, i, j, k)[2] = Data(l, Segment(c, m, n))
  BY ONLY <1>1 DEF Split
<1> QED
  BY ONLY <1>1, <1>3, <1>4, <1>5

SameCut(l, c, d, t, e, f, i, j, k) ==
  /\ Cut(l, c, d, i, j, k) /\ Cut(t, e, f, i, j, k)
  /\ \A q \in 1..k : l.data[c[q]] = t.data[e[q]]

LEMMA SplitsAgree ==
  ASSUME NEW l, NEW c, NEW d, NEW t, NEW e, NEW f, NEW i, NEW j, NEW k,
         SameCut(l, c, d, t, e, f, i, j, k)
  PROVE  Split(l, c, i, j, k) = Split(t, e, i, j, k)
<1>1. Cut(l, c, d, i, j, k) /\ Cut(t, e, f, i, j, k)
  BY DEF SameCut
<1>2. \A q \in 1..k : l.data[c[q]] = t.data[e[q]]
  BY DEF SameCut
<1>3. i \in Nat /\ j \in Nat /\ k \in Nat /\ i < j /\ j <= k
  BY ONLY <1>1 DEF Cut
<1>4. PICK a, m, n, o : a = 1 /\ m = i + 1 /\ n = j + 1 /\ o = k + 1
  OBVIOUS
<1>5. /\ Piece(l, c, d, a, m) /\ Piece(l, c, d, m, n) /\ Piece(l, c, d, n, o)
      /\ Piece(t, e, f, a, m) /\ Piece(t, e, f, m, n) /\ Piece(t, e, f, n, o)
  BY ONLY <1>1, <1>4, CutPieces
<1>6. Data(l, Segment(c, a, m)) = Data(t, Segment(e, a, m))
  <2>1. \A r \in 1..m - a : a + (r - 1) \in 1..k
    BY ONLY <1>3, <1>4
  <2>2. \A r \in 1..m - a : l.data[c[a + (r - 1)]] = t.data[e[a + (r - 1)]]
    BY ONLY <1>2, <2>1
  <2>3. SamePiece(l, c, d, a, m, t, e, f, a, m)
    BY ONLY <1>5, <2>2 DEF SamePiece
  <2> QED
    BY ONLY <2>3, PiecesAgree
<1>7. Data(l, Segment(c, m, n)) = Data(t, Segment(e, m, n))
  <2>1. \A r \in 1..n - m : m + (r - 1) \in 1..k
    BY ONLY <1>3, <1>4
  <2>2. \A r \in 1..n - m : l.data[c[m + (r - 1)]] = t.data[e[m + (r - 1)]]
    BY ONLY <1>2, <2>1
  <2>3. SamePiece(l, c, d, m, n, t, e, f, m, n)
    BY ONLY <1>5, <2>2 DEF SamePiece
  <2> QED
    BY ONLY <2>3, PiecesAgree
<1>8. Data(l, Segment(c, n, o)) = Data(t, Segment(e, n, o))
  <2>1. \A r \in 1..o - n : n + (r - 1) \in 1..k
    BY ONLY <1>3, <1>4
  <2>2. \A r \in 1..o - n : l.data[c[n + (r - 1)]] = t.data[e[n + (r - 1)]]
    BY ONLY <1>2, <2>1
  <2>3. SamePiece(l, c, d, n, o, t, e, f, n, o)
    BY ONLY <1>5, <2>2 DEF SamePiece
  <2> QED
    BY ONLY <2>3, PiecesAgree
<1> QED
  BY ONLY <1>4, <1>6, <1>7, <1>8 DEF Split

LEMMA PushSplit ==
  ASSUME NEW l, NEW prev, NEW next, NEW end, NEW rest, NEW ms, NEW c, NEW i, NEW j, NEW k,
         NEW t, NEW p, PushStepArgs(l, prev, next, end, rest, ms, c, i, j, k, t, p)
  PROVE  Split(l, c, i, j, k) = Split(t, Append(c, p), i, j, k)
<1>1. PICK e : e = Append(c, p)
  OBVIOUS
<1>2. /\ AtPush(t, prev, FollowTail(t, next), end, Tail(rest), ms, Append(c, p), i, j, k)
      /\ \A q \in 1..Len(c) : Append(c, p)[q] = c[q]
      /\ \A q \in 1..k : t.data[c[q]] = l.data[c[q]]
  BY PushStep
<1>3. AtPush(l, prev, next, end, rest, ms, c, i, j, k)
  BY DEF PushStepArgs
<1>4. Divided(t, e, <<>>, i, j, k, prev, FollowTail(t, next)) /\ Divided(l, c, <<>>, i, j, k, prev, next)
  BY ONLY <1>1, <1>2, <1>3 DEF AtPush
<1>5. Cut(t, e, <<>>, i, j, k) /\ Cut(l, c, <<>>, i, j, k)
  BY ONLY <1>4, DividedCut
<1>6. k \in Nat /\ k <= Len(c) - 1 /\ Layout(l, c, <<>>)
  BY ONLY <1>5 DEF Cut
<1>7. Len(c) \in Nat
  BY ONLY <1>6, LayoutFacts
<1>8. \A q \in 1..k : l.data[c[q]] = t.data[e[q]]
  <2>1. \A q \in 1..k : q \in 1..Len(c)
    BY ONLY <1>6, <1>7
  <2>2. \A q \in 1..Len(c) : e[q] = c[q]
    BY ONLY <1>1, <1>2
  <2> QED
    BY ONLY <1>2, <2>1, <2>2
<1>9. SameCut(l, c, <<>>, t, e, <<>>, i, j, k)
  BY ONLY <1>5, <1>8 DEF SameCut
<1> QED
  BY ONLY <1>1, <1>9, SplitsAgree

LEMMA RelinkSplit ==
  ASSUME NEW l, NEW prev, NEW next, NEW end, NEW rest, NEW ms, NEW c, NEW i, NEW j, NEW k,
         NEW t, NEW n, NEW cur, RelinkStepArgs(l, prev, next, end, rest, ms, c, i, j, k, t, n, cur),
         NEW e, e = Spliced(c, n, i, j, k), NEW i1, i1 = i + ((n - 1) - k),
         NEW k1, k1 = (n - (j - i)) - 1
  PROVE  /\ Split(t, e, i, i1, k1)[1] = Split(l, c, i, j, k)[1]
         /\ Split(t, e, i, i1, k1)[3] = Split(l, c, i, j, k)[3]
         /\ Len(Split(t, e, i, i1, k1)[2]) = Len(ms)
<1>1. /\ AtFree(t, prev, next, cur, ms, e, Cutout(c, i, j), i, i1, k1)
      /\ t.data = l.data
      /\ \A q \in 1..i : e[q] = c[q]
      /\ \A q \in 1..k - j : e[(i + ((n - 1) - k)) + q] = c[j + q]
  BY RelinkStep
<1>2. AtPush(l, prev, next, end, rest, ms, c, i, j, k) /\ n = Len(c)
  BY DEF RelinkStepArgs
<1>3. PICK d : d = Cutout(c, i, j)
  OBVIOUS
<1>4. Divided(t, e, d, i, i1, k1, prev, next) /\ Divided(l, c, <<>>, i, j, k, prev, next)
      /\ Len(ms) = i1 - i
  BY ONLY <1>1, <1>2, <1>3 DEF AtPush, AtFree, Filled
<1>5. Cut(t, e, d, i, i1, k1) /\ Cut(l, c, <<>>, i, j, k)
  BY ONLY <1>4, DividedCut
<1>6. i \in Nat /\ j \in Nat /\ k \in Nat /\ i < j /\ j <= k /\ i1 \in Nat /\ k1 \in Nat /\ i1 <= k1
  BY ONLY <1>5 DEF Cut
<1>7. n \in Nat
  <2>1. Layout(l, c, <<>>)
    BY ONLY <1>5 DEF Cut
  <2> QED
    BY ONLY <1>2, <2>1, LayoutFacts
<1>8. PICK a, m, o, o1, z, z1 : /\ a = 1 /\ m = i + 1 /\ o = j + 1 /\ o1 = i1 + 1
                                /\ z = k + 1 /\ z1 = k1 + 1
  OBVIOUS
<1>9. /\ Piece(l, c, <<>>, a, m) /\ Piece(l, c, <<>>, o, z)
      /\ Piece(t, e, d, a, m) /\ Piece(t, e, d, o1, z1)
  BY ONLY <1>5, <1>8, CutPieces
<1>10. Data(l, Segment(c, a, m)) = Data(t, Segment(e, a, m))
  <2>1. \A r \in 1..m - a : a + (r - 1) \in 1..i
    BY ONLY <1>6, <1>8
  <2>2. \A r \in 1..m - a : l.data[c[a + (r - 1)]] = t.data[e[a + (r - 1)]]
    BY ONLY <1>1, <2>1
  <2>3. SamePiece(l, c, <<>>, a, m, t, e, d, a, m)
    BY ONLY <1>9, <2>2 DEF SamePiece
  <2> QED
    BY ONLY <2>3, PiecesAgree
<1>11. Data(l, Segment(c, o, z)) = Data(t, Segment(e, o1, z1))
  <2>1. z - o = k - j /\ z1 - o1 = k - j
    BY ONLY <1>6, <1>7, <1>8, i1 = i + ((n - 1) - k), k1 = (n - (j - i)) - 1
  <2>2. \A r \in 1..k - j : o + (r - 1) = j + r /\ o1 + (r - 1) = (i + ((n - 1) - k)) + r
    BY ONLY <1>6, <1>7, <1>8, i1 = i + ((n - 1) - k)
  <2>3. \A r \in 1..k - j : l.data[c[j + r]] = t.data[e[(i + ((n - 1) - k)) + r]]
    BY ONLY <1>1
  <2>4. \A r \in 1..z - o : l.data[c[o + (r - 1)]] = t.data[e[o1 + (r - 1)]]
    BY ONLY <2>1, <2>2, <2>3
  <2>5. SamePiece(l, c, <<>>, o, z, t, e, d, o1, z1)
    BY ONLY <1>9, <2>1, <2>4 DEF SamePiece
  <2> QED
    BY ONLY <2>5, PiecesAgree
<1>12. Len(Split(t, e, i, i1, k1)[2]) = i1 - i
  BY ONLY <1>5, MiddleIs
<1>13. Split(t, e, i, i1, k1)[1] = Split(l, c, i, j, k)[1]
  BY ONLY <1>8, <1>10 DEF Split
<1>14. Split(t, e, i, i1, k1)[3] = Split(l, c, i, j, k)[3]
  BY ONLY <1>8, <1>11 DEF Split
<1> QED
  BY ONLY <1>4, <1>12, <1>13, <1>14

-----------------------------------------------------------------------------
(* The refinement of MessageSeq *)

LoadedParts == IF Loaded THEN << Data(kl, M1Cells), Data(kl, M2Cells), Data(kl, M3Cells) >>
               ELSE <<>>
Corpus == [k \in DOMAIN queue |-> construct_kl_messages(queue[k])]

LEMMA LoadedIs ==
  LoadedParts = IF Loaded THEN Shown(stage, kl, M2_prev, M2_next, last) ELSE <<>>
<1>1. M1Cells = Cells1(kl, M2_prev)
  BY DEF M1Cells, Cells1, Through
<1>2. M2Cells = Cells2(stage, kl, M2_prev, M2_next, last)
  BY DEF M2Cells, Cells2, Through, FirstOfM2, First
<1>3. M3Cells = Cells3(stage, kl, M2_prev, M2_next, last)
  BY DEF M3Cells, Cells3, Through
<1> QED
  BY ONLY <1>1, <1>2, <1>3 DEF LoadedParts, Shown

LEMMA NextLoadedIs ==
  LoadedParts' = IF Loaded' THEN Shown(stage', kl', M2_prev', M2_next', last') ELSE <<>>
<1>1. M1Cells' = Cells1(kl', M2_prev')
  BY DEF M1Cells, Cells1, Through
<1>2. M2Cells' = Cells2(stage', kl', M2_prev', M2_next', last')
  BY DEF M2Cells, Cells2, Through, FirstOfM2, First
<1>3. M3Cells' = Cells3(stage', kl', M2_prev', M2_next', last')
  BY DEF M3Cells, Cells3, Through
<1> QED
  BY ONLY <1>1, <1>2, <1>3 DEF LoadedParts, Shown

\* What is shown, from the place in the code; the same after a step.
LEMMA PartsNow ==
  ASSUME Loaded, NEW c, NEW d, NEW i, NEW j, NEW k,
         InStage(stage, kl, M2_prev, M2_next, last, c, d, i, j, k)
  PROVE  LoadedParts = Split(kl, c, i, j, k)
<1>1. PICK st, l, prev, next, end : /\ st = stage /\ l = kl /\ prev = M2_prev /\ next = M2_next
                                    /\ end = last
  OBVIOUS
<1>2. InStage(st, l, prev, next, end, c, d, i, j, k)
  BY ONLY <1>1, InStage(stage, kl, M2_prev, M2_next, last, c, d, i, j, k)
<1>3. Shown(st, l, prev, next, end) = Split(l, c, i, j, k)
  BY ONLY <1>2, ShownIs
<1> QED
  BY ONLY <1>1, <1>3, Loaded, LoadedIs

LEMMA PartsNext ==
  ASSUME Loaded', NEW c, NEW d, NEW i, NEW j, NEW k,
         InStage(stage', kl', M2_prev', M2_next', last', c, d, i, j, k)
  PROVE  LoadedParts' = Split(kl', c, i, j, k)
<1>1. PICK st, l, prev, next, end : /\ st = stage' /\ l = kl' /\ prev = M2_prev' /\ next = M2_next'
                                    /\ end = last'
  OBVIOUS
<1>2. InStage(st, l, prev, next, end, c, d, i, j, k)
  BY ONLY <1>1, InStage(stage', kl', M2_prev', M2_next', last', c, d, i, j, k)
<1>3. Shown(st, l, prev, next, end) = Split(l, c, i, j, k)
  BY ONLY <1>2, ShownIs
<1> QED
  BY ONLY <1>1, <1>3, Loaded', NextLoadedIs

LEMMA SplitIsFull ==
  ASSUME NEW l, NEW c, NEW i, NEW j, NEW k PROVE Split(l, c, i, j, k) # <<>>
BY DEF Split

\* Where the places in the code meet InStage.
LEMMA PlacesIn ==
  ASSUME NEW l, NEW prev, NEW next, NEW end, NEW rest, NEW cur, NEW ms,
         NEW c, NEW d, NEW i, NEW j, NEW k
  PROVE  /\ AtReady(l, prev, next, c, i, j, k) => InStage("ready", l, prev, next, end, c, <<>>, i, j, k)
         /\ AtPush(l, prev, next, end, rest, ms, c, i, j, k) =>
              InStage("push", l, prev, next, end, c, <<>>, i, j, k)
         /\ AtFree(l, prev, next, cur, ms, c, d, i, j, k) =>
              InStage("free", l, prev, next, end, c, d, i, j, k)
         /\ AtRun(l, prev, next, ms, c, i, j, k) =>
              InStage("run", l, prev, next, end, c, <<>>, i, j, k)
BY DEF AtReady, AtPush, AtFree, AtRun, InStage

-----------------------------------------------------------------------------
LEMMA LoadStep ==
  ASSUME ListInv, FuzzOne PROVE ThreeParts!Load
<1>1. stage = "idle" /\ stage' = "ready" /\ queue' = queue
  BY DEF FuzzOne
<1>2. LoadedParts = <<>> /\ Corpus' = Corpus
  BY ONLY <1>1 DEF LoadedParts, Loaded, Corpus
<1>3. PICK e, c, i, j, k : /\ e \in ToSet(queue) /\ Fits(e) /\ k = RegionCount(e)
                           /\ AtReady(kl', M2_prev', M2_next', c, i, j, k)
                           /\ \A q \in 1..k : kl'.data[c[q]] = construct_kl_messages(e)[q]
  BY ONLY ListInv, FuzzOne, FuzzOneLoads
<1>4. PICK l, p, ms : l = kl' /\ p = LoadedParts' /\ ms = construct_kl_messages(e)
  OBVIOUS
<1>5. p = Split(l, c, i, j, k)
  <2>1. InStage(stage', kl', M2_prev', M2_next', last', c, <<>>, i, j, k)
    BY ONLY <1>1, <1>3, PlacesIn
  <2>2. Loaded'
    BY ONLY <1>1 DEF Loaded
  <2> QED
    BY ONLY <1>4, <2>1, <2>2, PartsNext
<1>6. Cut(l, c, <<>>, i, j, k)
  BY ONLY <1>3, <1>4 DEF AtReady, Divided, Cut
<1>7. p # <<>>
  BY ONLY <1>5, SplitIsFull
<1>8. p[2] # <<>>
  <2>1. Len(p[2]) = j - i /\ i \in Nat /\ j \in Nat /\ i < j
    <3>1. Len(Split(l, c, i, j, k)[2]) = j - i
      BY ONLY <1>6, MiddleIs
    <3> QED
      BY ONLY <1>5, <1>6, <3>1 DEF Cut
  <2>2. Len(p[2]) # 0
    BY ONLY <2>1
  <2> QED
    BY ONLY <2>2
<1>9. Entire(p) = ms
  <2>1. PICK w : w = Entire(p)
    OBVIOUS
  <2>2. /\ w \in Seq(Seq(Nat)) /\ Len(w) = k /\ \A q \in 1..k : w[q] = l.data[c[q]]
    <3>1. w = Entire(Split(l, c, i, j, k))
      BY ONLY <1>5, <2>1
    <3> QED
      BY ONLY <1>6, <3>1, WholeIs
  <2>3. ms \in Seq(Seq(Nat)) /\ Len(ms) = k
    BY ONLY <1>3, <1>4, ConstructIs
  <2>4. \A q \in 1..k : w[q] = ms[q]
    BY ONLY <1>3, <1>4, <2>2
  <2> DEFINE T == Seq(Nat)
  <2>5. w \in Seq(T) /\ ms \in Seq(T)
    BY ONLY <2>2, <2>3
  <2> HIDE DEF T
  <2>6. w = ms
    BY ONLY <2>2, <2>3, <2>4, <2>5, SeqEqual
  <2> QED
    BY ONLY <2>1, <2>6
<1>10. ms \in ToSet(Corpus)
  <2>1. PICK q \in DOMAIN queue : e = queue[q]
    BY ONLY <1>3 DEF ToSet
  <2>2. DOMAIN Corpus = DOMAIN queue /\ Corpus[q] = ms
    BY ONLY <1>4, <2>1 DEF Corpus
  <2> QED
    BY ONLY <2>1, <2>2 DEF ToSet
<1>11. p[1] \o p[2] \o p[3] \in ToSet(Corpus)
  BY ONLY <1>9, <1>10 DEF Entire
<1>12. /\ LoadedParts = <<>> /\ LoadedParts' # <<>> /\ LoadedParts'[2] # <<>>
       /\ LoadedParts'[1] \o LoadedParts'[2] \o LoadedParts'[3] \in ToSet(Corpus)
       /\ Corpus' = Corpus
  BY ONLY <1>2, <1>4, <1>7, <1>8, <1>11
<1> QED
  BY ONLY <1>12 DEF ThreeParts!Load, ThreeParts!Whole, ThreeParts!ToSet, ToSet, LoadedParts, Corpus

LEMMA SplicesStay ==
  ASSUME ListInv, BeginSplice \/ PushMessage \/ FreeOld
  PROVE  LoadedParts' = LoadedParts /\ Corpus' = Corpus
<1>1. Corpus' = Corpus
  <2>1. queue' = queue
    BY DEF BeginSplice, PushMessage, FreeOld
  <2> QED
    BY ONLY <2>1 DEF Corpus
<1>2. CASE BeginSplice
  <2>1. /\ stage = "ready" /\ last' = LastMessage(kl) /\ stage' = "push"
        /\ kl' = kl /\ M2_prev' = M2_prev /\ M2_next' = M2_next
    BY ONLY <1>2 DEF BeginSplice
  <2>2. PICK c, i, j, k : AtReady(kl, M2_prev, M2_next, c, i, j, k)
    BY ONLY <2>1, ListInv DEF ListInv, AtStage
  <2>3. PICK l, prev, next, end : l = kl /\ prev = M2_prev /\ next = M2_next /\ end = last'
    OBVIOUS
  <2>4. Divided(l, c, <<>>, i, j, k, prev, next) /\ k = Len(c) - 1
    BY ONLY <2>2, <2>3 DEF AtReady
  <2>5. end = c[k]
    <3>1. Layout(l, c, <<>>) /\ i \in Nat /\ j \in Nat /\ k \in Nat /\ i < j /\ j <= k
      BY ONLY <2>4 DEF Divided
    <3>2. Len(c) \in Nat
      BY ONLY <3>1, LayoutFacts
    <3>3. Len(c) > 1
      BY ONLY <2>4, <3>1, <3>2
    <3>4. LastMessage(l) = c[Len(c) - 1]
      BY ONLY <3>1, <3>3, LinkedIs
    <3> QED
      BY ONLY <2>1, <2>3, <2>4, <3>4
  <2>6. InStage(stage', kl', M2_prev', M2_next', last', c, <<>>, i, j, k)
    BY ONLY <2>1, <2>3, <2>4, <2>5 DEF InStage
  <2>7. InStage(stage, kl, M2_prev, M2_next, last, c, <<>>, i, j, k)
    BY ONLY <2>1, <2>2, PlacesIn
  <2>8. Loaded /\ Loaded'
    BY ONLY <2>1 DEF Loaded
  <2>9. LoadedParts = Split(kl, c, i, j, k)
    BY ONLY <2>7, <2>8, PartsNow
  <2>10. LoadedParts' = Split(kl', c, i, j, k)
    BY ONLY <2>6, <2>8, PartsNext
  <2> QED
    BY ONLY <1>1, <2>1, <2>9, <2>10
<1>3. CASE PushMessage
  <2>1. /\ stage = "push" /\ todo # <<>> /\ kl' = Push(kl, Head(todo)) /\ todo' = Tail(todo)
        /\ M2_next' = FollowTail(kl', M2_next) /\ stage' = stage
        /\ M2_prev' = M2_prev /\ out' = out /\ last' = last
    BY ONLY <1>3 DEF PushMessage
  <2>2. PICK c, i, j, k : AtPush(kl, M2_prev, M2_next, last, todo, MessagesOf(out), c, i, j, k)
    BY ONLY <2>1, ListInv DEF ListInv, AtStage
  <2>3. PICK l, prev, next, end, rest, ms, t, p :
          /\ l = kl /\ prev = M2_prev /\ next = M2_next /\ end = last /\ rest = todo
          /\ ms = MessagesOf(out) /\ t = kl' /\ p = NewCell(l)
    OBVIOUS
  <2>4. PushStepArgs(l, prev, next, end, rest, ms, c, i, j, k, t, p)
    BY ONLY <2>1, <2>2, <2>3 DEF PushStepArgs
  <2>5. AtPush(t, prev, FollowTail(t, next), end, Tail(rest), ms, Append(c, p), i, j, k)
    BY ONLY <2>4, PushStep
  <2>6. AtPush(kl', M2_prev', M2_next', last', todo', ms, Append(c, p), i, j, k)
    BY ONLY <2>1, <2>3, <2>5
  <2>7. Split(l, c, i, j, k) = Split(t, Append(c, p), i, j, k)
    BY ONLY <2>4, PushSplit
  <2>8. InStage(stage', kl', M2_prev', M2_next', last', Append(c, p), <<>>, i, j, k)
    BY ONLY <2>1, <2>6, PlacesIn
  <2>9. InStage(stage, kl, M2_prev, M2_next, last, c, <<>>, i, j, k)
    BY ONLY <2>1, <2>2, PlacesIn
  <2>10. Loaded /\ Loaded'
    BY ONLY <2>1 DEF Loaded
  <2>11. LoadedParts = Split(kl, c, i, j, k)
    BY ONLY <2>9, <2>10, PartsNow
  <2>12. LoadedParts' = Split(kl', Append(c, p), i, j, k)
    BY ONLY <2>8, <2>10, PartsNext
  <2> QED
    BY ONLY <1>1, <2>3, <2>7, <2>11, <2>12
<1>4. CASE FreeOld
  <2>1. /\ stage = "free" /\ kl' = [Free(kl, it) EXCEPT !.size = @ - 1]
        /\ it' = kl.next[it] /\ stage' = (IF it' = M2_next THEN "run" ELSE "free")
        /\ M2_prev' = M2_prev /\ M2_next' = M2_next /\ out' = out
    BY ONLY <1>4 DEF FreeOld
  <2>2. PICK c, d, i, j, k : AtFree(kl, M2_prev, M2_next, it, MessagesOf(out), c, d, i, j, k)
    BY ONLY <2>1, ListInv DEF ListInv, AtStage
  <2>3. PICK l, prev, next, ms, t, cur :
          /\ l = kl /\ prev = M2_prev /\ next = M2_next /\ ms = MessagesOf(out) /\ t = kl' /\ cur = it
    OBVIOUS
  <2>4. FreeStepArgs(l, prev, next, cur, ms, c, d, i, j, k, t)
    BY ONLY <2>1, <2>2, <2>3 DEF FreeStepArgs
  <2>5. /\ l.next[cur] = next => AtRun(t, prev, next, ms, c, i, j, k)
        /\ l.next[cur] # next => AtFree(t, prev, next, l.next[cur], ms, c, Tail(d), i, j, k)
        /\ t.data = l.data
    BY ONLY <2>4, FreeStep
  <2>6. \E f : InStage(stage', kl', M2_prev', M2_next', last', c, f, i, j, k)
    <3>1. CASE l.next[cur] = next
      <4>1. stage' = "run" /\ AtRun(t, prev, next, ms, c, i, j, k)
        BY ONLY <2>1, <2>3, <2>5, <3>1
      <4>2. InStage(stage', t, prev, next, last', c, <<>>, i, j, k)
        BY ONLY <4>1, PlacesIn
      <4> QED
        BY ONLY <2>1, <2>3, <4>2
    <3>2. CASE l.next[cur] # next
      <4>1. stage' = "free" /\ AtFree(t, prev, next, l.next[cur], ms, c, Tail(d), i, j, k)
        BY ONLY <2>1, <2>3, <2>5, <3>2
      <4>2. InStage(stage', t, prev, next, last', c, Tail(d), i, j, k)
        BY ONLY <4>1, PlacesIn
      <4> QED
        BY ONLY <2>1, <2>3, <4>2
    <3> QED
      BY ONLY <3>1, <3>2
  <2>7. PICK f : InStage(stage', kl', M2_prev', M2_next', last', c, f, i, j, k)
    BY ONLY <2>6
  <2>8. InStage(stage, kl, M2_prev, M2_next, last, c, d, i, j, k)
    BY ONLY <2>1, <2>2, PlacesIn
  <2>9. Loaded /\ Loaded'
    BY ONLY <2>1 DEF Loaded
  <2>10. LoadedParts = Split(kl, c, i, j, k)
    BY ONLY <2>8, <2>9, PartsNow
  <2>11. LoadedParts' = Split(kl', c, i, j, k)
    BY ONLY <2>7, <2>9, PartsNext
  <2>12. Split(t, c, i, j, k) = Split(l, c, i, j, k)
    BY ONLY <2>5 DEF Split, Data
  <2> QED
    BY ONLY <1>1, <2>3, <2>10, <2>11, <2>12
<1> QED
  BY ONLY <1>2, <1>3, <1>4, BeginSplice \/ PushMessage \/ FreeOld

LEMMA PrefixOf ==
  ASSUME NEW a \in Seq(Nat), NEW b \in Seq(Nat), NEW o \in 0..Len(a), Len(a) <= Len(b),
         \A q \in 1..Len(a) : a[q] = b[q], NEW s, s = SubSeq(a, 1, o)
  PROVE  Len(s) <= Len(b) /\ SubSeq(s, 1, Len(s)) = SubSeq(b, 1, Len(s))
<1>1. Len(a) \in Nat /\ Len(b) \in Nat /\ o \in Nat /\ o <= Len(a) /\ o <= Len(b)
  BY ONLY a \in Seq(Nat), b \in Seq(Nat), o \in 0..Len(a), Len(a) <= Len(b), LenProperties
<1>2. s \in Seq(Nat) /\ Len(s) = o /\ \A q \in 1..o : s[q] = a[q]
  BY ONLY a \in Seq(Nat), o \in 0..Len(a), s = SubSeq(a, 1, o), SeqFacts
<1>3. PICK u, v : u = SubSeq(s, 1, o) /\ v = SubSeq(b, 1, o)
  OBVIOUS
<1>4. u \in Seq(Nat) /\ Len(u) = o /\ \A q \in 1..o : u[q] = s[q]
  <2>1. o \in 0..Len(s)
    BY ONLY <1>1, <1>2
  <2> QED
    BY ONLY <1>2, <1>3, <2>1, SeqFacts
<1>5. v \in Seq(Nat) /\ Len(v) = o /\ \A q \in 1..o : v[q] = b[q]
  <2>1. o \in 0..Len(b)
    BY ONLY <1>1
  <2> QED
    BY ONLY b \in Seq(Nat), <1>3, <2>1, SeqFacts
<1>6. \A q \in 1..o : u[q] = v[q]
  <2>1. \A q \in 1..o : q \in 1..Len(a)
    BY ONLY <1>1
  <2> QED
    BY ONLY <1>2, <1>4, <1>5, <2>1, \A q \in 1..Len(a) : a[q] = b[q]
<1>7. u = v
  BY ONLY <1>4, <1>5, <1>6, SeqEqual
<1> QED
  BY ONLY <1>1, <1>2, <1>3, <1>7

LEMMA AppendFront ==
  ASSUME NEW S, NEW s \in Seq(S), NEW x \in S, NEW t, t = Append(s, x)
  PROVE  /\ t # <<>> /\ t[Len(t)] = x /\ SubSeq(t, 1, Len(t) - 1) = s
<1>1. PICK n : n = Len(s)
  OBVIOUS
<1>2. n \in Nat
  BY ONLY <1>1, s \in Seq(S), LenProperties
<1>3. t \in Seq(S) /\ Len(t) = n + 1 /\ t[n + 1] = x /\ \A q \in 1..n : t[q] = s[q]
  BY ONLY <1>1, s \in Seq(S), x \in S, t = Append(s, x), AppendProperties
<1>4. t # <<>>
  BY ONLY <1>2, <1>3
<1>5. PICK u : u = SubSeq(t, 1, n)
  OBVIOUS
<1>6. u \in Seq(S) /\ Len(u) = n /\ \A q \in 1..n : u[q] = t[q]
  <2>1. n \in 0..Len(t)
    BY ONLY <1>2, <1>3
  <2> QED
    BY ONLY <1>3, <1>5, <2>1, SeqFacts
<1>7. u = s
  BY ONLY <1>1, <1>3, <1>6, s \in Seq(S), SeqEqual
<1>8. Len(t) - 1 = n
  BY ONLY <1>2, <1>3
<1> QED
  BY ONLY <1>3, <1>4, <1>5, <1>7, <1>8

\* The corpus grows by what construct_kl_messages reads of the new entry.
GrowArgs(q0, e, q1, s, t) ==
  /\ q0 \in Seq(Entry) /\ (\A q \in DOMAIN q0 : RegionsFit(q0[q]))
  /\ Fits(e) /\ q1 = Append(q0, e)
  /\ s = [k \in DOMAIN q0 |-> construct_kl_messages(q0[k])]
  /\ t = [k \in DOMAIN q1 |-> construct_kl_messages(q1[k])]

LEMMA CorpusGrows ==
  ASSUME NEW q0, NEW e, NEW q1, NEW s, NEW t, GrowArgs(q0, e, q1, s, t)
  PROVE  /\ t # <<>> /\ t[Len(t)] = construct_kl_messages(e) /\ SubSeq(t, 1, Len(t) - 1) = s
<1>0. /\ q0 \in Seq(Entry) /\ \A q \in DOMAIN q0 : RegionsFit(q0[q])
      /\ Fits(e) /\ q1 = Append(q0, e)
  BY DEF GrowArgs
<1>15. /\ s = [k \in DOMAIN q0 |-> construct_kl_messages(q0[k])]
        /\ t = [k \in DOMAIN q1 |-> construct_kl_messages(q1[k])]
  BY DEF GrowArgs
<1>1. PICK n, x : n = Len(q0) /\ x = construct_kl_messages(e)
  OBVIOUS
<1>2. n \in Nat /\ DOMAIN q0 = 1..n
  BY ONLY <1>1, <1>0, LenProperties
<1>3. e \in Entry
  BY ONLY <1>0 DEF Fits
<1>4. q1 \in Seq(Entry) /\ Len(q1) = n + 1 /\ q1[n + 1] = e /\ \A q \in 1..n : q1[q] = q0[q]
  BY ONLY <1>1, <1>3, <1>0, AppendProperties
<1>5. DOMAIN q1 = 1..n + 1
  BY ONLY <1>4, LenProperties
<1> DEFINE T == Seq(Seq(Nat))
<1>6. \A q \in 1..n : construct_kl_messages(q0[q]) \in T
  <2> TAKE q \in 1..n
  <2>1. q0[q] \in Entry
    BY ONLY <1>1, <1>2, <1>0, q \in 1..n, ElementOfSeq
  <2>2. Fits(q0[q])
    BY ONLY <1>2, <2>1, q \in 1..n, <1>0 DEF Fits
  <2>3. PICK z, ms : z = q0[q] /\ ms = construct_kl_messages(z)
    OBVIOUS
  <2>4. ms \in T
    BY ONLY <2>2, <2>3, ConstructIs
  <2> QED
    BY ONLY <2>3, <2>4
<1>7. x \in T
  BY ONLY <1>1, <1>0, ConstructIs
<1> HIDE DEF T
<1>8. s \in [1..n -> T] /\ t \in [1..n + 1 -> T]
  <2>1. s \in [1..n -> T]
    BY ONLY <1>2, <1>6, <1>15
  <2>2. \A q \in 1..n + 1 : q \in 1..n \/ q = n + 1
    BY ONLY <1>2
  <2>3. \A q \in 1..n + 1 : construct_kl_messages(q1[q]) \in T
    BY ONLY <1>1, <1>4, <1>6, <1>7, <2>2
  <2>4. t \in [1..n + 1 -> T]
    BY ONLY <1>5, <2>3, <1>15
  <2> QED
    BY ONLY <2>1, <2>4
<1>9. s \in Seq(T) /\ Len(s) = n /\ t \in Seq(T) /\ Len(t) = n + 1
  BY ONLY <1>2, <1>8
<1>10. PICK u : u = Append(s, x)
  OBVIOUS
<1>11. u \in Seq(T) /\ Len(u) = n + 1 /\ u[n + 1] = x /\ \A q \in 1..n : u[q] = s[q]
  BY ONLY <1>7, <1>9, <1>10, AppendProperties
<1>12. \A q \in 1..n + 1 : t[q] = u[q]
  <2> TAKE q \in 1..n + 1
  <2>1. t[q] = construct_kl_messages(q1[q])
    BY ONLY <1>5, q \in 1..n + 1, <1>15
  <2>2. CASE q = n + 1
    BY ONLY <1>1, <1>4, <1>11, <2>1, <2>2
  <2>3. CASE q # n + 1
    <3>1. q \in 1..n
      BY ONLY <1>2, <2>3, q \in 1..n + 1
    <3>2. s[q] = construct_kl_messages(q0[q])
      BY ONLY <1>2, <3>1, <1>15
    <3> QED
      BY ONLY <1>4, <1>11, <2>1, <3>1, <3>2
  <2> QED
    BY ONLY <2>2, <2>3
<1>13. t = u
  BY ONLY <1>9, <1>11, <1>12, SeqEqual
<1>14. t = Append(s, x)
  BY ONLY <1>10, <1>13
<1> QED
  BY ONLY <1>1, <1>7, <1>9, <1>14, AppendFront

LEMMA SaveStep ==
  ASSUME ListInv, RunAndSave
  PROVE  ThreeParts!Save \/ (LoadedParts' = LoadedParts /\ Corpus' = Corpus)
<1>1. /\ stage = "run" /\ stage' = "ready" /\ kl' = kl /\ M2_prev' = M2_prev
      /\ M2_next' = M2_next /\ last' = last
  BY DEF RunAndSave
<1>2. queue \in Seq(Entry) /\ \A q \in DOMAIN queue : RegionsFit(queue[q])
  BY DEF ListInv, Fixed
<1>3. PICK c, i, j, k : AtRun(kl, M2_prev, M2_next, MessagesOf(out), c, i, j, k)
  BY ONLY <1>1, ListInv DEF ListInv, AtStage
<1>4. Divided(kl, c, <<>>, i, j, k, M2_prev, M2_next) /\ k = Len(c) - 1
  BY ONLY <1>3 DEF AtRun
<1>5. LoadedParts = Split(kl, c, i, j, k) /\ LoadedParts' = LoadedParts
  <2>1. InStage(stage, kl, M2_prev, M2_next, last, c, <<>>, i, j, k)
    BY ONLY <1>1, <1>4 DEF InStage
  <2>2. InStage(stage', kl', M2_prev', M2_next', last', c, <<>>, i, j, k)
    BY ONLY <1>1, <1>4 DEF InStage
  <2>3. Loaded /\ Loaded'
    BY ONLY <1>1 DEF Loaded
  <2>4. LoadedParts = Split(kl, c, i, j, k)
    BY ONLY <2>1, <2>3, PartsNow
  <2>5. LoadedParts' = Split(kl', c, i, j, k)
    BY ONLY <2>2, <2>3, PartsNext
  <2> QED
    BY ONLY <1>1, <2>4, <2>5
<1>6. CASE UNCHANGED queue
  BY ONLY <1>5, <1>6 DEF Corpus
<1>7. CASE ~UNCHANGED queue
  <2>1. PICK sent \in 1..kl.size : \E null \in SUBSET (1..sent) :
          null # 1..sent /\ queue' = Append(queue, without_null_regions(NewEntry(sent), null))
    BY <1>7 DEF RunAndSave
  <2>2. PICK null \in SUBSET (1..sent) :
          null # 1..sent /\ queue' = Append(queue, without_null_regions(NewEntry(sent), null))
    BY ONLY <2>1
  <2>3. PICK e, ms : e = without_null_regions(NewEntry(sent), null) /\ ms = SubSeq(Messages(kl), 1, sent)
    OBVIOUS
  <2>4. Cut(kl, c, <<>>, i, j, k) /\ Layout(kl, c, <<>>)
    BY ONLY <1>4 DEF Divided, Cut
  <2>5. /\ Fits(e) /\ e.file = FlattenSeq(ms) /\ RegionCount(e) >= 1
        /\ ms \in Seq(Seq(Nat)) /\ sent \in 0..Len(Messages(kl))
    BY ONLY <2>2, <2>3, <2>4, NewEntryFits
  <2>6. PICK x, m, a, b, o : /\ x = construct_kl_messages(e) /\ m = Messages(kl) /\ a = FlattenSeq(ms)
                             /\ b = FlattenSeq(m) /\ o = Offset(e)[RegionCount(e)]
    OBVIOUS
  <2>7. m \in Seq(Seq(Nat)) /\ Len(m) = Len(c) - 1 /\ \A q \in 1..Len(c) - 1 : m[q] = kl.data[c[q]]
    BY ONLY <2>4, <2>6, MessagesIs
  <2>8. Entire(LoadedParts) = m
    <3>1. PICK w : w = Entire(Split(kl, c, i, j, k))
      OBVIOUS
    <3>2. w \in Seq(Seq(Nat)) /\ Len(w) = k /\ \A q \in 1..k : w[q] = kl.data[c[q]]
      BY ONLY <2>4, <3>1, WholeIs
    <3> DEFINE T == Seq(Nat)
    <3>3. w \in Seq(T) /\ m \in Seq(T)
      BY ONLY <2>7, <3>2
    <3> HIDE DEF T
    <3>4. Len(w) = Len(m) /\ \A q \in 1..Len(w) : w[q] = m[q]
      BY ONLY <1>4, <2>7, <3>2
    <3>5. w = m
      BY ONLY <3>3, <3>4, SeqEqual
    <3> QED
      BY ONLY <1>5, <3>1, <3>5
  <2>9. a \in Seq(Nat) /\ Len(a) <= Len(b) /\ \A q \in 1..Len(a) : a[q] = b[q]
    <3>1. m \in Seq(Seq(Nat)) /\ sent \in 0..Len(m)
      BY ONLY <2>5, <2>6, <2>7
    <3>2. /\ FlattenSeq(SubSeq(m, 1, sent)) \in Seq(Nat)
          /\ Len(FlattenSeq(SubSeq(m, 1, sent))) <= Len(FlattenSeq(m))
          /\ \A q \in 1..Len(FlattenSeq(SubSeq(m, 1, sent))) :
               FlattenSeq(SubSeq(m, 1, sent))[q] = FlattenSeq(m)[q]
      BY ONLY <3>1, FlatFront
    <3>3. a = FlattenSeq(SubSeq(m, 1, sent))
      BY ONLY <2>3, <2>6
    <3> QED
      BY ONLY <2>6, <3>2, <3>3
  <2>10. b \in Seq(Nat)
    BY ONLY <2>6, <2>7, FlatTyped
  <2>11. x \in Seq(Seq(Nat)) /\ Len(x) = RegionCount(e) /\ FlattenSeq(x) = SubSeq(a, 1, o)
    BY ONLY <2>5, <2>6, ConstructIs
  <2>12. o \in 0..Len(a) /\ RegionCount(e) \in Nat
    <3>1. /\ RegionCount(e) \in Nat
          /\ \A z \in 0..RegionCount(e) : Offset(e)[z] \in 0..Len(e.file)
      BY ONLY <2>5, OffsetIs
    <3>2. RegionCount(e) \in 0..RegionCount(e)
      BY ONLY <3>1
    <3> QED
      BY ONLY <2>5, <2>6, <3>1, <3>2
  <2>13. PICK f : f = FlattenSeq(x)
    OBVIOUS
  <2>14. Len(f) <= Len(b) /\ SubSeq(f, 1, Len(f)) = SubSeq(b, 1, Len(f))
    <3>1. f = SubSeq(a, 1, o)
      BY ONLY <2>11, <2>13
    <3> QED
      BY ONLY <2>9, <2>10, <2>12, <3>1, PrefixOf
  <2>15. IsPrefix(f, b)
    BY ONLY <2>14 DEF IsPrefix
  <2>16. x # <<>>
    <3>1. Len(x) # 0
      BY ONLY <2>5, <2>11, <2>12
    <3> QED
      BY ONLY <3>1
  <2>17. PICK s, t, q1 : s = Corpus /\ t = Corpus' /\ q1 = queue'
    OBVIOUS
  <2>18. t # <<>> /\ t[Len(t)] = x /\ SubSeq(t, 1, Len(t) - 1) = s
    <3>1. q1 = Append(queue, e)
      BY ONLY <2>2, <2>3, <2>17
    <3>2. s = [z \in DOMAIN queue |-> construct_kl_messages(queue[z])]
      BY ONLY <2>17 DEF Corpus
    <3>3. t = [z \in DOMAIN q1 |-> construct_kl_messages(q1[z])]
      BY ONLY <2>17 DEF Corpus
    <3>4. GrowArgs(queue, e, q1, s, t)
      BY ONLY <1>2, <2>5, <3>1, <3>2, <3>3 DEF GrowArgs
    <3>5. t # <<>> /\ t[Len(t)] = construct_kl_messages(e) /\ SubSeq(t, 1, Len(t) - 1) = s
      BY ONLY <3>4, CorpusGrows
    <3> QED
      BY ONLY <2>6, <3>5
  <2>19. Front(t) = s /\ Last(t) = x
    BY ONLY <2>18 DEF Front, Last
  <2>20. b = FlattenSeq(Entire(LoadedParts)) /\ f = FlattenSeq(Last(t))
    BY ONLY <2>6, <2>8, <2>13, <2>19
  <2>21. LoadedParts # <<>>
    BY ONLY <1>5, SplitIsFull
  <2>22. /\ LoadedParts # <<>> /\ LoadedParts' = LoadedParts /\ Corpus' # <<>>
         /\ Front(Corpus') = Corpus /\ Last(Corpus') # <<>>
         /\ IsPrefix(FlattenSeq(Last(Corpus')), FlattenSeq(Entire(LoadedParts)))
    BY ONLY <1>5, <2>15, <2>16, <2>17, <2>18, <2>19, <2>20, <2>21
  <2>23. ThreeParts!Save
    <3>1. \A z : ThreeParts!FlattenSeq(z) = FlattenSeq(z)
      BY DEF ThreeParts!FlattenSeq, FlattenSeq
    <3>2. \A y, z : ThreeParts!IsPrefix(y, z) = IsPrefix(y, z)
      BY DEF ThreeParts!IsPrefix, IsPrefix
    <3>3. \A z : ThreeParts!Front(z) = Front(z) /\ ThreeParts!Last(z) = Last(z)
      BY DEF ThreeParts!Front, ThreeParts!Last, Front, Last
    <3>4. \A z : ThreeParts!Whole(z) = Entire(z)
      BY DEF ThreeParts!Whole, Entire
    <3> QED
      BY ONLY <2>22, <3>1, <3>2, <3>3, <3>4 DEF ThreeParts!Save, LoadedParts, Corpus
  <2> QED
    BY ONLY <2>23
<1> QED
  BY ONLY <1>6, <1>7

LEMMA MutateStep ==
  ASSUME ListInv, Relink PROVE ThreeParts!Mutate
<1>1. /\ stage = "push" /\ todo = <<>> /\ kl' = Relinked(kl, M2_prev, M2_next, last)
      /\ it' = (IF M2_prev = Null THEN kl.head ELSE kl.next[M2_prev]) /\ stage' = "free"
      /\ queue' = queue /\ M2_prev' = M2_prev /\ M2_next' = M2_next /\ last' = last
  BY DEF Relink
<1>2. out # <<>> /\ out \in Seq(Seq(Nat))
      /\ \E c, i, j, k : AtPush(kl, M2_prev, M2_next, last, todo, MessagesOf(out), c, i, j, k)
  BY <1>1 DEF ListInv, Fixed, AtStage
<1>3. PICK c, i, j, k : AtPush(kl, M2_prev, M2_next, last, todo, MessagesOf(out), c, i, j, k)
  BY ONLY <1>2
<1>4. PICK l, prev, next, end, rest, ms, t, n, cur :
        /\ l = kl /\ prev = M2_prev /\ next = M2_next /\ end = last /\ rest = todo
        /\ ms = MessagesOf(out) /\ t = kl' /\ n = Len(c) /\ cur = it'
  OBVIOUS
<1>5. RelinkStepArgs(l, prev, next, end, rest, ms, c, i, j, k, t, n, cur)
  BY ONLY <1>1, <1>3, <1>4 DEF RelinkStepArgs
<1>6. PICK e, d, i1, k1 : /\ e = Spliced(c, n, i, j, k) /\ d = Cutout(c, i, j)
                          /\ i1 = i + ((n - 1) - k) /\ k1 = (n - (j - i)) - 1
  OBVIOUS
<1>7. AtFree(t, prev, next, cur, ms, e, d, i, i1, k1)
  BY ONLY <1>5, <1>6, RelinkStep
<1>8. /\ Split(t, e, i, i1, k1)[1] = Split(l, c, i, j, k)[1]
      /\ Split(t, e, i, i1, k1)[3] = Split(l, c, i, j, k)[3]
      /\ Len(Split(t, e, i, i1, k1)[2]) = Len(ms)
  BY ONLY <1>5, <1>6, RelinkSplit
<1>9. Loaded /\ Loaded'
  BY ONLY <1>1 DEF Loaded
<1>10. LoadedParts = Split(l, c, i, j, k)
  <2>1. InStage(stage, kl, M2_prev, M2_next, last, c, <<>>, i, j, k)
    BY ONLY <1>1, <1>3, PlacesIn
  <2> QED
    BY ONLY <1>4, <1>9, <2>1, PartsNow
<1>11. LoadedParts' = Split(t, e, i, i1, k1)
  <2>1. InStage("free", t, prev, next, end, e, d, i, i1, k1)
    BY ONLY <1>7, PlacesIn
  <2>2. InStage(stage', kl', M2_prev', M2_next', last', e, d, i, i1, k1)
    BY ONLY <1>1, <1>4, <2>1
  <2> QED
    BY ONLY <1>4, <1>9, <2>2, PartsNext
<1>12. Len(ms) \in 1..max_seed_region_count + 1
  BY ONLY <1>2, <1>4, MessagesOfIs
<1>13. LoadedParts # <<>> /\ LoadedParts' # <<>>
  BY ONLY <1>10, <1>11, SplitIsFull
<1>14. Corpus' = Corpus
  BY ONLY <1>1 DEF Corpus
<1>15. /\ LoadedParts'[1] = LoadedParts[1] /\ LoadedParts'[3] = LoadedParts[3]
       /\ Len(LoadedParts'[2]) \in 1..max_seed_region_count + 1
  BY ONLY <1>8, <1>10, <1>11, <1>12
<1> QED
  BY ONLY <1>13, <1>14, <1>15 DEF ThreeParts!Mutate, LoadedParts, Corpus

LEMMA UnloadStep ==
  ASSUME ListInv, Abandon PROVE ThreeParts!Unload
<1>1. stage = "ready" /\ stage' = "delete" /\ queue' = queue
  BY DEF Abandon
<1>2. PICK c, i, j, k : AtReady(kl, M2_prev, M2_next, c, i, j, k)
  BY ONLY <1>1, ListInv DEF ListInv, AtStage
<1>3. InStage(stage, kl, M2_prev, M2_next, last, c, <<>>, i, j, k)
  BY ONLY <1>1, <1>2, PlacesIn
<1>4. LoadedParts = Split(kl, c, i, j, k)
  BY ONLY <1>1, <1>3, PartsNow DEF Loaded
<1>5. LoadedParts # <<>> /\ LoadedParts' = <<>> /\ Corpus' = Corpus
  <2>1. LoadedParts # <<>>
    BY ONLY <1>4, SplitIsFull
  <2>2. LoadedParts' = <<>>
    BY ONLY <1>1 DEF LoadedParts, Loaded
  <2>3. Corpus' = Corpus
    BY ONLY <1>1 DEF Corpus
  <2> QED
    BY ONLY <2>1, <2>2, <2>3
<1> QED
  BY ONLY <1>5 DEF ThreeParts!Unload, LoadedParts, Corpus

LEMMA OthersStay ==
  ASSUME DeleteMessage \/ Destroy \/ UNCHANGED list_vars
  PROVE  LoadedParts' = LoadedParts /\ Corpus' = Corpus
<1>1. CASE DeleteMessage
  BY ONLY <1>1 DEF DeleteMessage, LoadedParts, Loaded, Corpus
<1>2. CASE Destroy
  BY ONLY <1>2 DEF Destroy, LoadedParts, Loaded, Corpus
<1>3. CASE UNCHANGED list_vars
  <2>1. /\ stage' = stage /\ queue' = queue /\ kl' = kl /\ M2_prev' = M2_prev
        /\ M2_next' = M2_next /\ last' = last
    BY ONLY <1>3 DEF list_vars
  <2>2. Loaded' = Loaded
    BY ONLY <2>1 DEF Loaded
  <2>3. LoadedParts' = LoadedParts
    BY ONLY <2>1, <2>2, LoadedIs, NextLoadedIs
  <2> QED
    BY ONLY <2>1, <2>3 DEF Corpus
<1> QED
  BY <1>1, <1>2, <1>3

\* Every step of the list is a step of the three parts, or changes none of them.
LEMMA ListStepMaps ==
  ASSUME ListInv, [ListNext]_list_vars
  PROVE  \/ ThreeParts!Load \/ ThreeParts!Mutate \/ ThreeParts!Save \/ ThreeParts!Unload
         \/ UNCHANGED ThreeParts!vars
<1>1. ASSUME LoadedParts' = LoadedParts, Corpus' = Corpus
      PROVE  UNCHANGED ThreeParts!vars
  BY ONLY <1>1 DEF ThreeParts!vars, LoadedParts, Corpus
<1>2. CASE FuzzOne
  BY ONLY <1>2, ListInv, LoadStep
<1>3. CASE BeginSplice \/ PushMessage \/ FreeOld
  BY ONLY <1>1, <1>3, ListInv, SplicesStay
<1>4. CASE Relink
  BY ONLY <1>4, ListInv, MutateStep
<1>5. CASE RunAndSave
  BY ONLY <1>1, <1>5, ListInv, SaveStep
<1>6. CASE Abandon
  BY ONLY <1>6, ListInv, UnloadStep
<1>7. CASE DeleteMessage \/ Destroy \/ UNCHANGED list_vars
  BY ONLY <1>1, <1>7, OthersStay
<1> QED
  BY ONLY <1>2, <1>3, <1>4, <1>5, <1>6, <1>7, [ListNext]_list_vars DEF ListNext

\* The heap of cells with its splices is a sequence in three parts.
THEOREM ListImplementsMessageSeq == ListSpec => ImplementsMessageSeq
<1>1. ListInit => ThreeParts!Init
  <2> SUFFICES ASSUME ListInit PROVE ThreeParts!Init
    OBVIOUS
  <2>1. stage = "idle"
    BY DEF ListInit
  <2> QED
    BY ONLY <2>1 DEF ThreeParts!Init, Loaded
<1>2. ListInv /\ [ListNext]_list_vars =>
        [ThreeParts!Load \/ ThreeParts!Mutate \/ ThreeParts!Save \/ ThreeParts!Unload]_(ThreeParts!vars)
  BY ListStepMaps
<1>3. ListSpec => []ListInv
  BY ListInvariant
<1> QED
  BY <1>1, <1>2, <1>3, PTL DEF ListSpec, ImplementsMessageSeq, ThreeParts!Spec
=============================================================================
