----------------------------- MODULE LinkedList -----------------------------
(***************************************************************************)
(* The list of src/klist.h as a value: a heap of cells with a pool of      *)
(* freed ones.  Cells are numbered in the order they are allocated, Null   *)
(* is the null pointer.  The list runs from head to tail; the tail is a    *)
(* cell without data that becomes the next element when one is pushed.     *)
(* kmp_free leaves the cell as it is, so freed cells keep stale pointers.  *)
(*                                                                         *)
(* The operators named Slip... are faulty variants of the definition that  *)
(* follows them; no definition uses them (see the README).                 *)
(***************************************************************************)
EXTENDS Naturals, Sequences, FiniteSets, SequencesExt

Null == 0
NoData == <<>>

Cells(l) == DOMAIN l.next

(* kmp_alloc takes the cell freed last, or gets a zeroed one.  The cell is  *)
(* NewCell(l) of the list before.                                           *)
NewCell(l) == IF l.pool = <<>> THEN Len(l.next) + 1 ELSE Last(l.pool)

Alloc(l) == IF l.pool = <<>>
            THEN [l EXCEPT !.next = Append(@, Null), !.data = Append(@, NoData)]
            ELSE [l EXCEPT !.pool = Front(@)]

Free(l, c) == [l EXCEPT !.pool = Append(@, c)]

(* kl_init: one cell is both head and tail. *)
EmptyList == [next |-> <<Null>>, data |-> <<NoData>>, pool |-> <<>>,
              head |-> 1, tail |-> 1, size |-> 0]

(* kl_pushp and the assignment through the pointer it returns. *)
Push(l, m) ==
  LET p == NewCell(l)
      q == l.tail
      a == Alloc(l)
  IN  [a EXCEPT !.next = [@ EXCEPT ![p] = Null, ![q] = p],
                !.data[q] = m, !.tail = p, !.size = @ + 1]

(* kl_shift of a list that is not empty, without the data it returns. *)
Shift(l) == [Free(l, l.head) EXCEPT !.head = l.next[@], !.size = @ - 1]

PushAll(l, ms) ==
  LET pushed[k \in 0..Len(ms)] == IF k = 0 THEN l ELSE Push(pushed[k - 1], ms[k])
  IN  pushed[Len(ms)]

(* The cells from a up to, and without, b, or up to the null pointer.       *)
Between(l, a, b) ==
  LET step == [c \in Cells(l) \cup {Null} |->
                 IF c = b \/ c = Null THEN Null ELSE l.next[c]]
      walk[n \in 0..Len(l.next)] == IF n = 0 THEN a ELSE step[walk[n - 1]]
      steps == Cardinality({n \in 1..Len(l.next) : walk[n - 1] \notin {b, Null}})
  IN  [n \in 1..steps |-> walk[n - 1]]

Linked(l) == Between(l, l.head, l.tail)

(* get_last_message of a list that is not empty. *)
LastMessage(l) == Last(Linked(l))

Data(l, cells) == [k \in DOMAIN cells |-> l.data[cells[k]]]
Messages(l) == Data(l, Linked(l))
=============================================================================
