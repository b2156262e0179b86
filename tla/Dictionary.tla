----------------------------- MODULE Dictionary -----------------------------
(***************************************************************************)
(* The automatic dictionary of afl-fuzz: the tokens the first bit-flip     *)
(* stage collects.  A token is a sequence of bytes, an entry of a_extras   *)
(* also counts how often the token was met.                                *)
(***************************************************************************)
EXTENDS Words

CONSTANTS
  extras,           \* the user's tokens, sorted by length (load_extras)
  USE_AUTO_EXTRAS,  \* entries the stages use and save_auto keeps
  MAX_AUTO_EXTRAS   \* entries the table holds

ASSUME DictionaryAssumption ==
  /\ USE_AUTO_EXTRAS \in Nat \ {0} /\ MAX_AUTO_EXTRAS \in Nat \ {0}
  /\ extras \in Seq(Seq(Byte))
  /\ \A i, j \in DOMAIN extras : i < j => Len(extras[i]) <= Len(extras[j])

AutoExtra == [data : Seq(Byte), hit_cnt : Nat]

tolower(b) == IF b \in 65..90 THEN b + 32 ELSE b
memcmp_nocase(m1, m2) == [k \in DOMAIN m1 |-> tolower(m1[k])] # [k \in DOMAIN m2 |-> tolower(m2[k])]

Smaller(a, b) == IF a < b THEN a ELSE b

\* qsort leaves entries that compare equal in any order
Sorted(s, key) ==
  {t \in {[i \in DOMAIN s |-> s[p[i]]] : p \in Bijection(DOMAIN s, DOMAIN s)} :
     \A i, j \in DOMAIN s : i < j => key[t[i]] <= key[t[j]]}

\* sort_a_extras: all by use count, then the first USE_AUTO_EXTRAS by length
sort_a_extras(a) ==
  UNION {LET n == Smaller(USE_AUTO_EXTRAS, Len(a))
         IN {top \o SubSeq(byUse, n + 1, Len(a)) :
               top \in Sorted(SubSeq(byUse, 1, n), [e \in ToSet(a) |-> Len(e.data)])} :
         byUse \in Sorted(a, [e \in ToSet(a) |-> -e.hit_cnt])}

\* maybe_add_auto rejects runs of one byte, interesting values and the user's
\* tokens.  A two-byte value with the top bit set is compared as u16 with s16
\* and is never found equal.
Rejected(mem) ==
  \/ \A i \in DOMAIN mem : mem[i] = mem[1]
  \/ /\ Len(mem) = 2
     /\ \/ mem \in interesting_16 /\ mem[2] < 128
        \/ Reverse(mem) \in interesting_16
  \/ /\ Len(mem) = 4
     /\ mem \in interesting_32 \/ Reverse(mem) \in interesting_32
  \/ \E i \in DOMAIN extras : Len(extras[i]) = Len(mem) /\ ~memcmp_nocase(extras[i], mem)

Known(a, mem) == {i \in DOMAIN a : Len(a[i].data) = Len(mem) /\ ~memcmp_nocase(a[i].data, mem)}

Evictable == (MAX_AUTO_EXTRAS \div 2) .. (MAX_AUTO_EXTRAS \div 2) + ((MAX_AUTO_EXTRAS + 1) \div 2) - 1

\* the tables that maybe_add_auto(mem) may leave
maybe_add_auto(a, mem) ==
  LET new == [data |-> mem, hit_cnt |-> 0]
  IN IF Rejected(mem) THEN {a}
     ELSE IF Known(a, mem) # {}
       THEN sort_a_extras([a EXCEPT ![Min(Known(a, mem))].hit_cnt = @ + 1])
     ELSE IF Len(a) < MAX_AUTO_EXTRAS THEN sort_a_extras(Append(a, new))
     ELSE UNION {sort_a_extras([a EXCEPT ![i + 1] = new]) : i \in Evictable}
=============================================================================
