----------------------------- MODULE TailQueue ------------------------------
(***************************************************************************)
(* The tail queue macros of queue.h that aesdsocket.c uses, at the level   *)
(* of their pointers.  The head and every element have two links: `next'   *)
(* is tqh_first of the head and tqe_next of an element, `prev' is tqh_last *)
(* and tqe_prev.  The latter are addresses of a `next' link; the address   *)
(* is the name of the element, or HEAD, that the link is in.               *)
(***************************************************************************)
EXTENDS Naturals, Sequences

CONSTANTS
  HEAD,   \* the head of the queue
  NONE    \* NULL

\* A queue of which the elements may become members.
TAILQ_INIT(Elems) ==
  LET unset == [x \in Elems \union {HEAD} |-> NONE]
  IN  [next |-> unset, prev |-> [unset EXCEPT ![HEAD] = HEAD]]

TAILQ_FIRST(q) == q.next[HEAD]

TAILQ_NEXT(q, elm) == q.next[elm]

TAILQ_INSERT_TAIL(q, elm) ==
  LET last == q.prev[HEAD]
  IN  [next |-> [q.next EXCEPT ![elm] = NONE, ![last] = elm],
       prev |-> [q.prev EXCEPT ![elm] = last, ![HEAD] = elm]]

TAILQ_REMOVE_KeepsLast(q, elm) ==
  LET next == q.next[elm]
      prev == q.prev[elm]
  IN  [next |-> [q.next EXCEPT ![prev] = next],
       prev |-> IF next = NONE THEN q.prev ELSE [q.prev EXCEPT ![next] = prev]]

\* The links of elm itself stay as they were.
TAILQ_REMOVE(q, elm) ==
  LET next == q.next[elm]
      prev == q.prev[elm]
  IN  [next |-> [q.next EXCEPT ![prev] = next],
       prev |-> [q.prev EXCEPT ![IF next # NONE THEN next ELSE HEAD] = prev]]

\* The memory of elm goes back to the heap, its links with it.
Unlink(q, elm) ==
  [next |-> [q.next EXCEPT ![elm] = NONE], prev |-> [q.prev EXCEPT ![elm] = NONE]]

\* What the links point to.
Linked(q) == {q.next[x] : x \in DOMAIN q.next} \ {NONE}

\* The elements s but for elm, which is one of them, in the same order.
Without(s, elm) ==
  LET k == CHOOSE k \in DOMAIN s : s[k] = elm
  IN  [i \in 1 .. Len(s) - 1 |-> s[IF i < k THEN i ELSE i + 1]]

\* The links are those of a queue with the elements s, in this order: both
\* directions agree, and tqh_last is where the next insertion has to write.
Represents(q, s) ==
  /\ TAILQ_FIRST(q) = IF s = << >> THEN NONE ELSE s[1]
  /\ q.prev[HEAD] = IF s = << >> THEN HEAD ELSE s[Len(s)]
  /\ \A i \in DOMAIN s :
       /\ q.next[s[i]] = IF i = Len(s) THEN NONE ELSE s[i + 1]
       /\ q.prev[s[i]] = IF i = 1 THEN HEAD ELSE s[i - 1]

=============================================================================
