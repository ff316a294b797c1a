----------------------------- MODULE RingLemmas -----------------------------
(***************************************************************************)
(* Facts about the operators of CircularBuffer, for every ring, whoever    *)
(* holds it: what nextPtr, add_entry and the three loops over the ring     *)
(* return.  The proofs about the circular buffer on its own and about the  *)
(* driver both rest on them.                                               *)
(*                                                                         *)
(* The library's induction theorems take a predicate, which the provers    *)
(* cannot instantiate; InductiveSet below takes a set, which they can.     *)
(***************************************************************************)
EXTENDS CircularBuffer, WellFoundedInduction, SequenceTheorems, TLAPS

(***************************************************************************)
(* Induction, and functions defined by tail recursion.                     *)
(***************************************************************************)

\* The order of the naturals as a set of pairs.
Less == {ss \in Nat \X Nat : ss[1] < ss[2]}

\* The order is well-founded.
LEMMA LessWellFounded == IsWellFoundedOn(Less, Nat)
  BY NatLessThanWellFounded DEF OpToRel, Less

\* A nonempty set of naturals has a least element.
LEMMA LeastNatural ==
  ASSUME NEW T, T \subseteq Nat, T # {}
  PROVE  \E m \in T : \A k \in T : m <= k
  <1>1. PICK m \in T : \A k \in T : ~(<<k, m>> \in Less)
    BY LessWellFounded, WFMin
  <1>2. \A k \in T : ~(k < m)
    BY <1>1 DEF Less
  <1> QED
    BY <1>2

\* Induction over the naturals, for a set instead of a predicate.
LEMMA InductiveSet ==
  ASSUME NEW S, 0 \in S, \A n \in Nat : n \in S => n + 1 \in S
  PROVE  \A n \in Nat : n \in S
  <1> DEFINE T == Nat \ S
  <1> SUFFICES ASSUME T # {} PROVE FALSE
    OBVIOUS
  <1>1. PICK m \in T : \A k \in T : m <= k
    BY LeastNatural
  <1>2. m # 0 /\ m - 1 \in Nat
    OBVIOUS
  <1>3. m - 1 \in S
    BY <1>1, <1>2
  <1>4. (m - 1) + 1 = m
    OBVIOUS
  <1> QED
    BY <1>2, <1>3, <1>4

\* f is the loop that from x stops with v[x] or goes on from nx[x].
Loop(f, D, stop, v, nx) ==
  f = [x \in D |-> IF x \in stop THEN v[x] ELSE f[nx[x]]]

\* A loop whose measure m decreases with every round is a function: the
\* recursive definition that describes it has a solution.
LEMMA TailRecursion ==
  ASSUME NEW D, NEW N \in Nat, NEW m \in [D -> 0 .. N], NEW stop, NEW v, NEW nx,
         \A x \in D : x \notin stop => nx[x] \in D /\ m[nx[x]] < m[x]
  PROVE  \E f : Loop(f, D, stop, v, nx)
  <1> DEFINE Good(f, n) ==
               \A x \in D : m[x] < n => f[x] = IF x \in stop THEN v[x] ELSE f[nx[x]]
             S == {n \in Nat : \E f : f = [x \in D |-> f[x]] /\ Good(f, n)}
  <1>1. 0 \in S
    <2>1. LET f == [x \in D |-> 0] IN f = [x \in D |-> f[x]] /\ Good(f, 0)
      OBVIOUS
    <2> QED
      BY <2>1
  <1>2. ASSUME NEW n \in Nat, n \in S PROVE n + 1 \in S
    <2>1. PICK f : Good(f, n)
      BY <1>2
    <2> DEFINE g == [x \in D |-> IF x \in stop THEN v[x] ELSE f[nx[x]]]
    <2>2. ASSUME NEW x \in D, m[x] < n + 1
          PROVE  g[x] = IF x \in stop THEN v[x] ELSE g[nx[x]]
      <3>1. CASE x \in stop
        BY <3>1
      <3>2. CASE x \notin stop
        <4>1. nx[x] \in D /\ m[nx[x]] < n
          BY <3>2, <2>2
        <4>2. f[nx[x]] = g[nx[x]]
          BY <4>1, <2>1
        <4> QED
          BY <3>2, <4>2
      <3> QED
        BY <3>1, <3>2
    <2>3. g = [x \in D |-> g[x]]
      OBVIOUS
    <2> HIDE DEF g
    <2> QED
      BY <2>2, <2>3
  <1>3. N + 1 \in S
    <2> HIDE DEF S
    <2> QED
      BY <1>1, <1>2, InductiveSet
  <1>4. PICK f : f = [x \in D |-> f[x]] /\ Good(f, N + 1)
    BY <1>3
  <1>5. \A x \in D : m[x] < N + 1
    OBVIOUS
  <1>6. f = [x \in D |-> IF x \in stop THEN v[x] ELSE f[nx[x]]]
    BY <1>4, <1>5
  <1> QED
    BY <1>6 DEF Loop

-----------------------------------------------------------------------------
(***************************************************************************)
(* Offsets, slots and add_entry.                                           *)
(***************************************************************************)

\* The part of a ring that decides which slots are live.
Offsets(b) ==
  /\ b.in_offs \in Slots
  /\ b.out_offs \in Slots
  /\ b.full \in BOOLEAN
  /\ b.full => b.in_offs = b.out_offs

\* nextPtr of an index of the entry array is an index of the entry array.
LEMMA NextPtrInRange ==
  ASSUME NEW i \in Slots
  PROVE  nextPtr(i) \in Slots
  BY MaxOpsAssumption DEF Slots, nextPtr

\* The number of live entries, and the slots they occupy.
LEMMA CountInRange ==
  ASSUME NEW b, Offsets(b)
  PROVE  /\ Count(b) \in 0 .. MaxOps
         /\ Count(b) = 0 <=> IsEmpty(b)
         /\ Count(b) = MaxOps <=> b.full
         /\ \A k \in 0 .. MaxOps - 1 : SlotOf(b, k) \in Slots
  BY MaxOpsAssumption DEF Offsets, Count, IsEmpty, SlotOf, Slots

\* The offsets that add_entry leaves behind.
LEMMA AddOffsets ==
  ASSUME NEW b, NEW e, Offsets(b)
  PROVE  LET c == add_entry(b, e)
         IN  /\ Offsets(c)
             /\ c.in_offs = nextPtr(b.in_offs)
             /\ b.full => c.full /\ c.out_offs = nextPtr(b.in_offs)
             /\ ~b.full => /\ c.out_offs = b.out_offs
                           /\ c.full <=> nextPtr(b.in_offs) = b.out_offs
             /\ c.entry = [b.entry EXCEPT ![b.in_offs] = e]
             /\ c.cb_size = (b.cb_size + (e.size - rm_buf_size(b))) % 2^IntBits
  <1> DEFINE c == add_entry(b, e)
  <1>1. /\ c.in_offs = nextPtr(b.in_offs)
        /\ c.out_offs = IF b.full THEN nextPtr(b.in_offs) ELSE b.out_offs
        /\ c.full = (b.full \/ nextPtr(b.in_offs) = b.out_offs)
        /\ c.entry = [b.entry EXCEPT ![b.in_offs] = e]
        /\ c.cb_size = (b.cb_size + (e.size - rm_buf_size(b))) % 2^IntBits
    BY DEF add_entry
  <1> HIDE DEF c
  <1>2. nextPtr(b.in_offs) \in Slots
    BY NextPtrInRange DEF Offsets
  <1>3. c.full \in BOOLEAN
    BY <1>1
  <1>4. c.in_offs \in Slots /\ c.out_offs \in Slots
    BY <1>1, <1>2 DEF Offsets
  <1>5. c.full => c.in_offs = c.out_offs
    BY <1>1 DEF Offsets
  <1>6. b.full => c.full /\ c.out_offs = nextPtr(b.in_offs)
    BY <1>1
  <1>7. ~b.full => /\ c.out_offs = b.out_offs
                   /\ c.full <=> nextPtr(b.in_offs) = b.out_offs
    BY <1>1 DEF Offsets
  <1>8. Offsets(c)
    BY <1>3, <1>4, <1>5 DEF Offsets
  <1> QED
    BY <1>1, <1>6, <1>7, <1>8 DEF c

\* The slot that add_entry writes holds the newest entry after the call.
LEMMA AddToRoom ==
  ASSUME NEW b, NEW e, Offsets(b), ~b.full
  PROVE  LET c == add_entry(b, e)
         IN  /\ Count(c) = Count(b) + 1
             /\ SlotOf(b, Count(b)) = b.in_offs
             /\ \A k \in 0 .. MaxOps - 1 : SlotOf(c, k) = SlotOf(b, k)
             /\ \A k \in 0 .. Count(b) - 1 : SlotOf(b, k) # b.in_offs
  <1> DEFINE c == add_entry(b, e)
  <1>1. /\ c.in_offs = nextPtr(b.in_offs)
        /\ c.out_offs = b.out_offs
        /\ c.full <=> nextPtr(b.in_offs) = b.out_offs
        /\ Offsets(c)
    BY AddOffsets
  <1> HIDE DEF c
  <1>2. /\ Count(c) = Count(b) + 1
        /\ SlotOf(b, Count(b)) = b.in_offs
        /\ \A k \in 0 .. MaxOps - 1 : SlotOf(c, k) = SlotOf(b, k)
        /\ \A k \in 0 .. Count(b) - 1 : SlotOf(b, k) # b.in_offs
    BY <1>1, MaxOpsAssumption DEF Offsets, Count, SlotOf, Slots, nextPtr
  <1> QED
    BY <1>2 DEF c

\* In a full ring the oldest entry is the one that add_entry overwrites.
LEMMA AddToFull ==
  ASSUME NEW b, NEW e, Offsets(b), b.full
  PROVE  LET c == add_entry(b, e)
         IN  /\ Count(c) = MaxOps
             /\ Count(b) = MaxOps
             /\ SlotOf(b, 0) = b.in_offs
             /\ SlotOf(c, MaxOps - 1) = b.in_offs
             /\ \A k \in 0 .. MaxOps - 2 :
                  /\ SlotOf(c, k) = SlotOf(b, k + 1)
                  /\ SlotOf(b, k + 1) # b.in_offs
  <1> DEFINE c == add_entry(b, e)
  <1>1. /\ c.in_offs = nextPtr(b.in_offs)
        /\ c.out_offs = nextPtr(b.in_offs)
        /\ c.full
        /\ Offsets(c)
    BY AddOffsets
  <1> HIDE DEF c
  <1>2. /\ Count(c) = MaxOps
        /\ Count(b) = MaxOps
        /\ SlotOf(b, 0) = b.in_offs
        /\ SlotOf(c, MaxOps - 1) = b.in_offs
        /\ \A k \in 0 .. MaxOps - 2 :
             /\ SlotOf(c, k) = SlotOf(b, k + 1)
             /\ SlotOf(b, k + 1) # b.in_offs
    BY <1>1, MaxOpsAssumption DEF Offsets, Count, SlotOf, Slots, nextPtr
  <1> QED
    BY <1>2 DEF c

\* Contents is a sequence with one element per live entry.
LEMMA ContentsIsSeq ==
  ASSUME NEW E, NEW b, Offsets(b), b.entry \in [Slots -> E]
  PROVE  /\ Contents(b) \in Seq(E)
         /\ Len(Contents(b)) = Count(b)
         /\ \A k \in 1 .. Count(b) : Contents(b)[k] = b.entry[SlotOf(b, k - 1)]
  <1>1. Count(b) \in Nat
    BY CountInRange, MaxOpsAssumption
  <1>2. \A k \in 1 .. Count(b) : SlotOf(b, k - 1) \in Slots
    BY CountInRange, MaxOpsAssumption
  <1> QED
    BY <1>1, <1>2 DEF Contents

\* Adding to a ring with room appends to its contents.
LEMMA ContentsAddToRoom ==
  ASSUME NEW E, NEW b, NEW e \in E, Offsets(b), ~b.full,
         b.entry \in [Slots -> E]
  PROVE  Contents(add_entry(b, e)) = Append(Contents(b), e)
  <1> DEFINE c == add_entry(b, e)
             n == Count(b)
             s == Contents(c)
             t == Append(Contents(b), e)
  <1>1. /\ Count(c) = n + 1
        /\ SlotOf(b, n) = b.in_offs
        /\ \A k \in 0 .. MaxOps - 1 : SlotOf(c, k) = SlotOf(b, k)
        /\ \A k \in 0 .. n - 1 : SlotOf(b, k) # b.in_offs
    BY AddToRoom
  <1>2. Offsets(c) /\ c.entry = [b.entry EXCEPT ![b.in_offs] = e]
    BY AddOffsets
  <1>3. n \in 0 .. MaxOps - 1 /\ \A k \in 0 .. MaxOps - 1 : SlotOf(b, k) \in Slots
    BY CountInRange, MaxOpsAssumption
  <1>4. /\ Contents(b) \in Seq(E)
        /\ Len(Contents(b)) = n
        /\ \A k \in 1 .. n : Contents(b)[k] = b.entry[SlotOf(b, k - 1)]
    BY ContentsIsSeq
  <1>5. c.entry \in [Slots -> E]
    BY <1>2
  <1> HIDE DEF c, n
  <1>6. /\ s \in Seq(E)
        /\ Len(s) = n + 1
        /\ \A k \in 1 .. n + 1 : s[k] = c.entry[SlotOf(c, k - 1)]
    BY <1>1, <1>2, <1>5, ContentsIsSeq
  <1>7. /\ t \in Seq(E)
        /\ Len(t) = n + 1
        /\ \A k \in 1 .. n : t[k] = Contents(b)[k]
        /\ t[n + 1] = e
    BY <1>4, AppendProperties
  <1>8. ASSUME NEW k \in 1 .. n + 1
        PROVE  s[k] = t[k]
    <2>1. /\ k - 1 \in 0 .. MaxOps - 1
          /\ SlotOf(c, k - 1) = SlotOf(b, k - 1)
          /\ SlotOf(b, k - 1) \in Slots
      BY <1>1, <1>3, MaxOpsAssumption
    <2>2. CASE k = n + 1
      <3>1. k - 1 = n
        BY <2>2, <1>3
      <3> QED
        BY <3>1, <2>1, <2>2, <1>1, <1>2, <1>6, <1>7
    <2>3. CASE k # n + 1
      <3>1. k - 1 \in 0 .. n - 1 /\ k \in 1 .. n
        BY <2>3, <1>3
      <3>2. c.entry[SlotOf(b, k - 1)] = b.entry[SlotOf(b, k - 1)]
        BY <2>1, <3>1, <1>1, <1>2
      <3> QED
        BY <2>1, <3>1, <3>2, <1>4, <1>6, <1>7
    <2> QED
      BY <2>2, <2>3
  <1> HIDE DEF s, t
  <1>9. s = t
    BY <1>6, <1>7, <1>8, SeqEqual
  <1> QED
    BY <1>9 DEF s, t, c

\* Adding to a full ring drops the oldest entry and appends the new one.
LEMMA ContentsAddToFull ==
  ASSUME NEW E, NEW b, NEW e \in E, Offsets(b), b.full,
         b.entry \in [Slots -> E]
  PROVE  Contents(add_entry(b, e)) = Append(Tail(Contents(b)), e)
  <1> DEFINE c == add_entry(b, e)
             s == Contents(c)
             r == Tail(Contents(b))
             t == Append(r, e)
  <1>1. /\ Count(c) = MaxOps
        /\ Count(b) = MaxOps
        /\ SlotOf(c, MaxOps - 1) = b.in_offs
        /\ \A k \in 0 .. MaxOps - 2 :
             /\ SlotOf(c, k) = SlotOf(b, k + 1)
             /\ SlotOf(b, k + 1) # b.in_offs
    BY AddToFull
  <1>2. /\ Offsets(c)
        /\ c.entry = [b.entry EXCEPT ![b.in_offs] = e]
        /\ b.in_offs \in Slots
    BY AddOffsets DEF Offsets
  <1>3. \A k \in 0 .. MaxOps - 1 : SlotOf(b, k) \in Slots
    BY CountInRange
  <1>4. /\ Contents(b) \in Seq(E)
        /\ Len(Contents(b)) = MaxOps
        /\ \A k \in 1 .. MaxOps : Contents(b)[k] = b.entry[SlotOf(b, k - 1)]
    BY <1>1, ContentsIsSeq
  <1>5. c.entry \in [Slots -> E]
    BY <1>2
  <1> HIDE DEF c
  <1>6. /\ s \in Seq(E)
        /\ Len(s) = MaxOps
        /\ \A k \in 1 .. MaxOps : s[k] = c.entry[SlotOf(c, k - 1)]
    <2>1. /\ s \in Seq(E)
          /\ Len(s) = Count(c)
          /\ \A k \in 1 .. Count(c) : s[k] = c.entry[SlotOf(c, k - 1)]
      BY <1>2, <1>5, ContentsIsSeq
    <2> QED
      BY <1>1, <2>1
  <1>7. Contents(b) # << >>
    BY <1>4, MaxOpsAssumption
  <1>8. /\ r \in Seq(E)
        /\ Len(r) = MaxOps - 1
        /\ \A k \in 1 .. MaxOps - 1 : r[k] = Contents(b)[k + 1]
    BY <1>4, <1>7, HeadTailProperties
  <1> HIDE DEF r
  <1>9. /\ t \in Seq(E)
        /\ Len(t) = MaxOps
        /\ \A k \in 1 .. MaxOps - 1 : t[k] = r[k]
        /\ t[MaxOps] = e
    <2>1. (MaxOps - 1) + 1 = MaxOps
      BY MaxOpsAssumption
    <2> QED
      BY <1>8, <2>1, AppendProperties
  <1>10. ASSUME NEW k \in 1 .. MaxOps
         PROVE  s[k] = t[k]
    <2>1. CASE k = MaxOps
      BY <2>1, <1>1, <1>2, <1>6, <1>9
    <2>2. CASE k # MaxOps
      <3>1. /\ k - 1 \in 0 .. MaxOps - 2
            /\ (k - 1) + 1 = k
            /\ (k + 1) - 1 = k
            /\ k \in 0 .. MaxOps - 1
            /\ k \in 1 .. MaxOps - 1
            /\ k + 1 \in 1 .. MaxOps
        BY <2>2, MaxOpsAssumption
      <3>2. SlotOf(c, k - 1) = SlotOf(b, k) /\ SlotOf(b, k) # b.in_offs
        BY <3>1, <1>1
      <3>3. s[k] = b.entry[SlotOf(b, k)]
        BY <3>1, <3>2, <1>2, <1>3, <1>6
      <3>4. t[k] = b.entry[SlotOf(b, k)]
        BY <3>1, <1>4, <1>8, <1>9
      <3> QED
        BY <3>3, <3>4
    <2> QED
      BY <2>1, <2>2
  <1> HIDE DEF s, t
  <1>11. s = t
    BY <1>6, <1>9, <1>10, SeqEqual
  <1> QED
    BY <1>11 DEF s, t, r, c

-----------------------------------------------------------------------------
(***************************************************************************)
(* Walking over the ring: the slots in the order of the loops, the steps   *)
(* that are left, and the bytes that are behind.                           *)
(***************************************************************************)

\* The sizes of the entries are numbers.
Sized(b) == \A i \in Slots : b.entry[i].size \in Nat

\* nextPtr goes from each live slot to the next and from the last to in_offs,
\* where the loops over the ring stop.
LEMMA NextSlot ==
  ASSUME NEW b, Offsets(b), ~IsEmpty(b)
  PROVE  /\ SlotOf(b, 0) = b.out_offs
         /\ nextPtr(SlotOf(b, Count(b) - 1)) = b.in_offs
         /\ \A k \in 0 .. Count(b) - 2 :
              /\ nextPtr(SlotOf(b, k)) = SlotOf(b, k + 1)
              /\ nextPtr(SlotOf(b, k)) # b.in_offs
  BY MaxOpsAssumption DEF Offsets, Count, IsEmpty, SlotOf, Slots, nextPtr

\* The steps that a loop over the ring has left at slot i.
Left(b, i) ==
  IF b.in_offs > i THEN b.in_offs - i - 1 ELSE b.in_offs - i - 1 + MaxOps

\* Every round of a loop over the ring leaves one round fewer.
LEMMA LeftDecreases ==
  ASSUME NEW b, b.in_offs \in Slots, NEW i \in Slots
  PROVE  /\ Left(b, i) \in 0 .. MaxOps - 1
         /\ nextPtr(i) # b.in_offs => Left(b, nextPtr(i)) < Left(b, i)
  BY MaxOpsAssumption DEF Left, Slots, nextPtr

\* The value of an int is an integer.
LEMMA AsIntIsInt ==
  ASSUME NEW x \in Int
  PROVE  AsInt(x) \in Int
  BY PowersAssumption DEF AsInt

\* What an int holds of a value below 2^IntBits, and that it holds the same
\* of values that differ by 2^IntBits.
LEMMA AsIntOfSmall ==
  ASSUME NEW x \in 0 .. 2^IntBits - 1
  PROVE  /\ AsInt(x) = IF x < 2^(IntBits - 1) THEN x ELSE x - 2^IntBits
         /\ AsInt(x - 2^IntBits) = AsInt(x)
  <1> DEFINE M == 2^IntBits
  <1>1. M \in Nat \ {0} /\ x \in 0 .. M - 1
    BY PowersAssumption
  <1>2. x % M = x /\ (x - M) % M = x
    <2> HIDE DEF M
    <2> QED
      BY <1>1
  <1> QED
    BY <1>2, PowersAssumption DEF AsInt

\* pre[k] is the number of bytes in the k oldest entries.
Prefix(b, pre) ==
  /\ pre \in [0 .. Count(b) -> Nat]
  /\ pre[0] = 0
  /\ \A k \in 0 .. Count(b) - 1 : pre[k + 1] = pre[k] + b.entry[SlotOf(b, k)].size

\* What is known of the k-th live slot.
LEMMA LiveSlot ==
  ASSUME NEW b, Offsets(b), Sized(b), NEW pre, Prefix(b, pre), NEW k \in 0 .. Count(b) - 1
  PROVE  /\ Count(b) \in Nat
         /\ SlotOf(b, k) \in Slots
         /\ b.entry[SlotOf(b, k)].size \in Nat
         /\ pre[k] \in Nat /\ pre[k + 1] \in Nat
         /\ pre[k + 1] = pre[k] + b.entry[SlotOf(b, k)].size
         /\ ~IsEmpty(b)
  <1>1. Count(b) \in 0 .. MaxOps /\ k \in 0 .. MaxOps - 1
    BY CountInRange, MaxOpsAssumption
  <1>2. SlotOf(b, k) \in Slots
    BY <1>1, CountInRange
  <1>3. ~IsEmpty(b)
    BY <1>1, CountInRange
  <1>4. k \in 0 .. Count(b) /\ k + 1 \in 0 .. Count(b)
    BY <1>1
  <1>5. b.entry[SlotOf(b, k)].size \in Nat
    BY <1>2 DEF Sized
  <1>6. pre[k] \in Nat /\ pre[k + 1] \in Nat
    BY <1>4 DEF Prefix
  <1>7. pre[k + 1] = pre[k] + b.entry[SlotOf(b, k)].size
    BY DEF Prefix
  <1> QED
    BY <1>1, <1>2, <1>3, <1>5, <1>6, <1>7

\* The sizes of the entries have sums.
LEMMA PrefixExists ==
  ASSUME NEW b, Offsets(b), Sized(b)
  PROVE  \E pre : Prefix(b, pre)
  <1> DEFINE n == Count(b)
             size(k) == b.entry[SlotOf(b, k)].size
             Sums(pre, m) == /\ pre \in [0 .. n -> Nat]
                             /\ pre[0] = 0
                             /\ \A k \in 0 .. n - 1 : k < m => pre[k + 1] = pre[k] + size(k)
             S == {m \in Nat : \E pre : Sums(pre, m)}
  <1>1. n \in Nat /\ \A k \in 0 .. n - 1 : size(k) \in Nat
    <2>1. \A k \in 0 .. n - 1 : k \in 0 .. MaxOps - 1
      BY CountInRange, MaxOpsAssumption
    <2> QED
      BY <2>1, CountInRange DEF Sized
  <1> HIDE DEF n, size
  <1>2. 0 \in S
    <2> DEFINE pre == [k \in 0 .. n |-> 0]
    <2>1. Sums(pre, 0)
      BY <1>1
    <2> HIDE DEF pre
    <2> QED
      BY <2>1
  <1>3. ASSUME NEW m \in Nat, m \in S PROVE m + 1 \in S
    <2>1. PICK f : Sums(f, m)
      BY <1>3
    <2> DEFINE g == [k \in 0 .. n |-> IF k = m + 1 THEN f[m] + size(m) ELSE f[k]]
    <2>2. CASE m \in 0 .. n - 1
      <3>1. f[m] \in Nat /\ size(m) \in Nat
        BY <1>1, <2>1, <2>2
      <3>2. g \in [0 .. n -> Nat] /\ g[0] = 0
        BY <1>1, <2>1, <3>1
      <3>3. ASSUME NEW k \in 0 .. n - 1, k < m + 1
            PROVE  g[k + 1] = g[k] + size(k)
        <4>1. k \in 0 .. n /\ k + 1 \in 0 .. n /\ k # m + 1 /\ g[k] = f[k]
          BY <3>3, <1>1, <2>2
        <4>2. CASE k = m
          BY <4>1, <4>2
        <4>3. CASE k # m
          <5>1. k < m /\ k + 1 # m + 1
            BY <3>3, <4>3
          <5>2. g[k + 1] = f[k + 1]
            BY <4>1, <5>1
          <5>3. f[k + 1] = f[k] + size(k)
            BY <5>1, <2>1
          <5> QED
            BY <4>1, <5>2, <5>3
        <4> QED
          BY <4>2, <4>3
      <3>4. Sums(g, m + 1)
        <4> HIDE DEF g
        <4> QED
          BY <3>2, <3>3
      <3> HIDE DEF g, Sums
      <3> QED
        BY <3>4
    <2>3. CASE m \notin 0 .. n - 1
      <3>1. Sums(f, m + 1)
        BY <1>1, <2>1, <2>3
      <3> HIDE DEF Sums
      <3> QED
        BY <3>1
    <2> QED
      BY <2>2, <2>3
  <1>4. n \in S
    <2> HIDE DEF S
    <2> QED
      BY <1>1, <1>2, <1>3, InductiveSet
  <1>5. PICK pre : Sums(pre, n)
    BY <1>4
  <1>6. Prefix(b, pre)
    BY <1>1, <1>5 DEF Prefix, n, size
  <1> QED
    BY <1>6

\* An offset before the last byte lies in one of the entries.
LEMMA PrefixCovers ==
  ASSUME NEW b, Offsets(b), Sized(b), NEW pre, Prefix(b, pre),
         NEW off \in Nat, off < pre[Count(b)]
  PROVE  \E k \in 0 .. Count(b) - 1 : pre[k] <= off /\ off < pre[k + 1]
  <1> DEFINE T == {k \in Nat : k <= Count(b) /\ off < pre[k]}
  <1>1. Count(b) \in Nat
    BY CountInRange
  <1>2. PICK m \in T : \A k \in T : m <= k
    <2>1. Count(b) \in T
      BY <1>1
    <2> HIDE DEF T
    <2> QED
      BY <2>1, LeastNatural DEF T
  <1>3. m # 0
    BY DEF Prefix
  <1>4. m - 1 \in 0 .. Count(b) - 1 /\ m - 1 \notin T /\ (m - 1) + 1 = m
    BY <1>1, <1>2, <1>3
  <1>5. pre[m - 1] \in Nat
    BY <1>4, LiveSlot
  <1>6. pre[m - 1] <= off /\ off < pre[(m - 1) + 1]
    BY <1>1, <1>4, <1>5
  <1> QED
    BY <1>4, <1>6

\* The prefixes grow.
LEMMA PrefixMonotone ==
  ASSUME NEW b, Offsets(b), Sized(b), NEW pre, Prefix(b, pre),
         NEW j \in 0 .. Count(b), NEW n \in 0 .. Count(b), j <= n
  PROVE  pre[j] <= pre[n]
  <1> DEFINE S == {k \in Nat : k \in 0 .. Count(b) /\ j <= k => pre[j] <= pre[k]}
  <1>1. Count(b) \in Nat /\ \A k \in 0 .. Count(b) : pre[k] \in Nat
    BY CountInRange DEF Prefix
  <1>2. 0 \in S
    BY <1>1
  <1>3. ASSUME NEW k \in Nat, k \in S PROVE k + 1 \in S
    <2>1. CASE k + 1 \in 0 .. Count(b) /\ j <= k
      <3>1. /\ k \in 0 .. Count(b) - 1 /\ k \in 0 .. Count(b)
            /\ pre[j] <= pre[k]
        BY <1>1, <1>3, <2>1
      <3>2. pre[k + 1] = pre[k] + b.entry[SlotOf(b, k)].size
            /\ b.entry[SlotOf(b, k)].size \in Nat
        BY <3>1, LiveSlot
      <3> QED
        BY <1>1, <3>1, <3>2
    <2>2. CASE ~(k + 1 \in 0 .. Count(b) /\ j <= k)
      BY <1>1, <2>2
    <2> QED
      BY <2>1, <2>2
  <1>4. n \in S
    <2> HIDE DEF S
    <2> QED
      BY <1>1, <1>2, <1>3, InductiveSet
  <1> QED
    BY <1>4

-----------------------------------------------------------------------------
(***************************************************************************)
(* aesd_circular_buffer_find_entry_offset_for_fpos.                        *)
(***************************************************************************)

\* The loop of the search: its variables, and the function it computes.
FindAt == [i : Slots, char_pos : Int]

FindWalk(b) ==
  CHOOSE walk :
    walk = [at \in FindAt |->
              IF at.char_pos >= 0 /\ b.entry[at.i].size > at.char_pos
              THEN [found |-> TRUE, slot |-> at.i, rel |-> at.char_pos]
              ELSE IF nextPtr(at.i) = b.in_offs
                   THEN NotFound
                   ELSE walk[[i |-> nextPtr(at.i),
                              char_pos |-> AsInt(at.char_pos - b.entry[at.i].size)]]]

\* find_entry starts the loop at the oldest entry.
LEMMA FindIsWalk ==
  ASSUME NEW b, NEW off
  PROVE  find_entry(b, off) =
           IF IsEmpty(b) THEN NotFound
           ELSE FindWalk(b)[[i |-> b.out_offs, char_pos |-> AsInt(off)]]
  BY DEF find_entry, FindWalk, FindAt

\* One round of the search.
LEMMA FindWalkEquation ==
  ASSUME NEW b, Offsets(b), Sized(b), NEW i \in Slots, NEW p \in Int
  PROVE  FindWalk(b)[[i |-> i, char_pos |-> p]] =
           IF p >= 0 /\ b.entry[i].size > p
           THEN [found |-> TRUE, slot |-> i, rel |-> p]
           ELSE IF nextPtr(i) = b.in_offs
                THEN NotFound
                ELSE FindWalk(b)[[i |-> nextPtr(i),
                                  char_pos |-> AsInt(p - b.entry[i].size)]]
  <1> DEFINE found(at) == at.char_pos >= 0 /\ b.entry[at.i].size > at.char_pos
             last(at) == nextPtr(at.i) = b.in_offs
             step(at) == [i |-> nextPtr(at.i), char_pos |-> AsInt(at.char_pos - b.entry[at.i].size)]
             here(at) == [found |-> TRUE, slot |-> at.i, rel |-> at.char_pos]
             stop == {at \in FindAt : found(at) \/ last(at)}
             v == [at \in FindAt |-> IF found(at) THEN here(at) ELSE NotFound]
             nx == [at \in FindAt |-> step(at)]
             m == [at \in FindAt |-> Left(b, at.i)]
             W(f) == [at \in FindAt |->
                        IF found(at) THEN here(at)
                        ELSE IF last(at) THEN NotFound ELSE f[step(at)]]
  <1>1. b.in_offs \in Slots /\ MaxOps \in Nat /\ MaxOps - 1 \in Nat
    BY MaxOpsAssumption DEF Offsets
  <1>2. m \in [FindAt -> 0 .. MaxOps - 1]
    BY <1>1, LeftDecreases DEF FindAt
  <1>3. ASSUME NEW at \in FindAt
        PROVE  step(at) \in FindAt
    BY <1>3, NextPtrInRange, AsIntIsInt DEF FindAt, Sized
  <1>4. ASSUME NEW at \in FindAt, at \notin stop
        PROVE  nx[at] \in FindAt /\ m[nx[at]] < m[at]
    <2>1. nx[at] \in FindAt /\ nx[at].i = nextPtr(at.i)
      BY <1>3
    <2>2. at.i \in Slots /\ nextPtr(at.i) # b.in_offs
      BY <1>4 DEF FindAt
    <2> QED
      BY <2>1, <2>2, <1>1, LeftDecreases
  <1>5. \E f : Loop(f, FindAt, stop, v, nx)
    <2> HIDE DEF stop, v, nx, m
    <2> QED
      BY <1>1, <1>2, <1>4, TailRecursion
  <1>6. \E f : f = W(f)
    BY <1>5 DEF Loop
  <1>7. FindWalk(b) = CHOOSE f : f = W(f)
    BY DEF FindWalk
  <1>8. FindWalk(b) = W(FindWalk(b))
    <2> HIDE DEF W
    <2> QED
      BY <1>6, <1>7
  <1>9. [i |-> i, char_pos |-> p] \in FindAt
    BY DEF FindAt
  <1> HIDE DEF FindAt
  <1> QED
    BY <1>8, <1>9

\* The search gets to the k-th entry when the offset is not before it.
LEMMA FindReaches ==
  ASSUME NEW b, Offsets(b), Sized(b), NEW pre, Prefix(b, pre),
         NEW off \in 0 .. 2^IntBits - 1, NEW n \in 0 .. Count(b) - 1, pre[n] <= off
  PROVE  find_entry(b, off) =
           FindWalk(b)[[i |-> SlotOf(b, n), char_pos |-> AsInt(off - pre[n])]]
  <1> DEFINE At(k) == FindWalk(b)[[i |-> SlotOf(b, k), char_pos |-> AsInt(off - pre[k])]]
             S == {k \in Nat : k \in 0 .. Count(b) - 1 /\ pre[k] <= off => find_entry(b, off) = At(k)}
  <1>0. ~IsEmpty(b) /\ Count(b) \in Nat
    BY LiveSlot
  <1>1. 0 \in S
    <2>1. SlotOf(b, 0) = b.out_offs
      BY <1>0, NextSlot
    <2>2. off - pre[0] = off
      BY PowersAssumption DEF Prefix
    <2> QED
      BY <2>1, <2>2, <1>0, FindIsWalk
  <1>2. ASSUME NEW k \in Nat, k \in S PROVE k + 1 \in S
    <2> SUFFICES ASSUME k + 1 \in 0 .. Count(b) - 1, pre[k + 1] <= off
                 PROVE  find_entry(b, off) = At(k + 1)
      OBVIOUS
    <2> DEFINE i == SlotOf(b, k)
               size == b.entry[i].size
               x == off - pre[k]
               y == off - pre[k + 1]
               M == 2^IntBits
    <2>1. k \in 0 .. Count(b) - 1 /\ k \in 0 .. Count(b) - 2
      BY <1>0
    <2>2. /\ i \in Slots
          /\ size \in Nat
          /\ pre[k] \in Nat /\ pre[k + 1] \in Nat
          /\ pre[k + 1] = pre[k] + size
      BY <2>1, LiveSlot
    <2>3. M \in Nat /\ off \in 0 .. M - 1
      BY PowersAssumption
    <2> HIDE DEF M, size
    <2>4. x \in 0 .. M - 1 /\ y \in 0 .. M - 1 /\ y = x - size /\ size <= x /\ pre[k] <= off
      BY <2>2, <2>3
    <2> HIDE DEF x, y
    <2>5. find_entry(b, off) = At(k)
      BY <1>2, <2>1, <2>4
    <2>6. AsInt(x) \in {x, x - M} /\ AsInt(y - M) = AsInt(y)
      BY <2>4, AsIntOfSmall DEF M
    <2>7. ~(AsInt(x) >= 0 /\ size > AsInt(x))
      BY <2>2, <2>3, <2>4, <2>6
    <2>8. AsInt(AsInt(x) - size) = AsInt(y)
      <3>1. AsInt(x) - size \in {y, y - M}
        BY <2>2, <2>3, <2>4, <2>6
      <3> QED
        BY <3>1, <2>6
    <2>9. nextPtr(i) # b.in_offs /\ nextPtr(i) = SlotOf(b, k + 1)
      BY <1>0, <2>1, NextSlot
    <2>10. AsInt(x) \in Int
      BY <2>3, <2>4, <2>6
    <2> HIDE DEF i
    <2>11. FindWalk(b)[[i |-> i, char_pos |-> AsInt(x)]] =
             FindWalk(b)[[i |-> nextPtr(i), char_pos |-> AsInt(AsInt(x) - size)]]
      BY <2>2, <2>7, <2>9, <2>10, FindWalkEquation DEF size
    <2> QED
      BY <2>5, <2>8, <2>9, <2>11 DEF x, y, i
  <1>3. n \in S
    <2> HIDE DEF S
    <2> QED
      BY <1>1, <1>2, <1>0, InductiveSet
  <1> QED
    BY <1>3

\* The search returns the entry that holds the byte at the offset, provided
\* that the size of the entry fits into an int.
LEMMA FindHit ==
  ASSUME NEW b, Offsets(b), Sized(b), NEW pre, Prefix(b, pre),
         NEW off \in 0 .. 2^IntBits - 1, NEW k \in 0 .. Count(b) - 1,
         pre[k] <= off, off < pre[k + 1],
         b.entry[SlotOf(b, k)].size <= 2^(IntBits - 1)
  PROVE  find_entry(b, off) =
           [found |-> TRUE, slot |-> SlotOf(b, k), rel |-> off - pre[k]]
  <1> DEFINE i == SlotOf(b, k)
             size == b.entry[i].size
             x == off - pre[k]
  <1>1. /\ i \in Slots /\ size \in Nat
        /\ pre[k] \in Nat /\ pre[k + 1] \in Nat
        /\ pre[k + 1] = pre[k] + size
    BY LiveSlot
  <1>2. off \in Nat /\ 2^IntBits \in Nat /\ 2^(IntBits - 1) \in Nat
        /\ size <= 2^(IntBits - 1) /\ 2^(IntBits - 1) <= 2^IntBits
    BY PowersAssumption
  <1> HIDE DEF size
  <1>3. x \in 0 .. 2^IntBits - 1 /\ x < size /\ x < 2^(IntBits - 1)
    BY <1>1, <1>2
  <1> HIDE DEF x
  <1>4. AsInt(x) = x
    BY <1>3, AsIntOfSmall
  <1>5. find_entry(b, off) = FindWalk(b)[[i |-> i, char_pos |-> x]]
    BY <1>4, FindReaches DEF x
  <1> HIDE DEF i
  <1>6. FindWalk(b)[[i |-> i, char_pos |-> x]] = [found |-> TRUE, slot |-> i, rel |-> x]
    <2>1. x \in Int /\ x >= 0
      BY <1>3, <1>2
    <2> QED
      BY <1>1, <1>3, <2>1, FindWalkEquation DEF size
  <1> QED
    BY <1>5, <1>6 DEF i, x

\* The search finds nothing at and beyond the last byte.
LEMMA FindMiss ==
  ASSUME NEW b, Offsets(b), Sized(b), NEW pre, Prefix(b, pre),
         NEW off \in 0 .. 2^IntBits - 1, pre[Count(b)] <= off
  PROVE  find_entry(b, off) = NotFound
  <1>0. Count(b) \in Nat
    BY CountInRange
  <1>1. CASE IsEmpty(b)
    BY <1>1, FindIsWalk
  <1>2. CASE ~IsEmpty(b)
    <2> DEFINE k == Count(b) - 1
               i == SlotOf(b, k)
               size == b.entry[i].size
               x == off - pre[k]
               M == 2^IntBits
    <2>1. k \in 0 .. Count(b) - 1 /\ k + 1 = Count(b)
      BY <1>0, <1>2, CountInRange
    <2>2. /\ i \in Slots /\ size \in Nat
          /\ pre[k] \in Nat /\ pre[k + 1] \in Nat
          /\ pre[k + 1] = pre[k] + size
      BY <2>1, LiveSlot
    <2>3. nextPtr(i) = b.in_offs
      BY <1>2, NextSlot
    <2>4. M \in Nat /\ off \in 0 .. M - 1
      BY PowersAssumption
    <2> HIDE DEF k, size, M
    <2>5. x \in 0 .. M - 1 /\ size <= x /\ pre[k] <= off
      BY <2>1, <2>2, <2>4
    <2> HIDE DEF x
    <2>6. AsInt(x) \in {x, x - M}
      BY <2>5, AsIntOfSmall DEF M
    <2>7. ~(AsInt(x) >= 0 /\ size > AsInt(x)) /\ AsInt(x) \in Int
      BY <2>2, <2>4, <2>5, <2>6
    <2>8. find_entry(b, off) = FindWalk(b)[[i |-> i, char_pos |-> AsInt(x)]]
      BY <2>1, <2>5, FindReaches DEF x
    <2> HIDE DEF i
    <2> QED
      BY <2>2, <2>3, <2>7, <2>8, FindWalkEquation DEF size
  <1> QED
    BY <1>1, <1>2

\* Whatever offset is looked up, an entry that is found is one of the array,
\* and the offset in it is one of its bytes.
LEMMA FindInRange ==
  ASSUME NEW b, Offsets(b), Sized(b), NEW off \in Int
  PROVE  LET r == find_entry(b, off)
         IN  /\ r.found \in BOOLEAN
             /\ r.found => /\ r.slot \in Slots
                           /\ r.rel \in 0 .. b.entry[r.slot].size - 1
  <1> DEFINE InRange(r) == /\ r.found \in BOOLEAN
                           /\ r.found => /\ r.slot \in Slots
                                         /\ r.rel \in 0 .. b.entry[r.slot].size - 1
             At(i, p) == FindWalk(b)[[i |-> i, char_pos |-> p]]
             S == {n \in Nat : \A i \in Slots, p \in Int : Left(b, i) < n => InRange(At(i, p))}
  <1>0. b.in_offs \in Slots /\ b.out_offs \in Slots /\ MaxOps \in Nat
    BY MaxOpsAssumption DEF Offsets
  <1>1. InRange(NotFound)
    BY DEF NotFound
  <1>2. 0 \in S
    BY <1>0, LeftDecreases
  <1>3. ASSUME NEW n \in Nat, n \in S PROVE n + 1 \in S
    <2> SUFFICES ASSUME NEW i \in Slots, NEW p \in Int, Left(b, i) < n + 1
                 PROVE  InRange(At(i, p))
      OBVIOUS
    <2> DEFINE size == b.entry[i].size
    <2>1. size \in Nat
      BY DEF Sized
    <2>2. At(i, p) = IF p >= 0 /\ size > p
                     THEN [found |-> TRUE, slot |-> i, rel |-> p]
                     ELSE IF nextPtr(i) = b.in_offs THEN NotFound
                          ELSE At(nextPtr(i), AsInt(p - size))
      BY FindWalkEquation
    <2>3. CASE p >= 0 /\ size > p
      <3>1. At(i, p) = [found |-> TRUE, slot |-> i, rel |-> p]
        BY <2>2, <2>3
      <3>2. p \in 0 .. b.entry[i].size - 1
        BY <2>1, <2>3
      <3> HIDE DEF At
      <3> QED
        BY <3>1, <3>2
    <2>4. CASE ~(p >= 0 /\ size > p) /\ nextPtr(i) = b.in_offs
      <3>1. At(i, p) = NotFound
        BY <2>2, <2>4
      <3> HIDE DEF At, InRange
      <3> QED
        BY <3>1, <1>1
    <2>5. CASE ~(p >= 0 /\ size > p) /\ nextPtr(i) # b.in_offs
      <3> DEFINE q == AsInt(p - size)
      <3>1. At(i, p) = At(nextPtr(i), q)
        BY <2>2, <2>5
      <3>2. nextPtr(i) \in Slots /\ q \in Int
        BY <2>1, NextPtrInRange, AsIntIsInt
      <3>3. Left(b, nextPtr(i)) < n
        BY <1>0, <2>5, <3>2, LeftDecreases
      <3> HIDE DEF At, InRange, q
      <3> QED
        BY <1>3, <3>1, <3>2, <3>3
    <2> QED
      BY <2>3, <2>4, <2>5
  <1>4. MaxOps \in S
    <2> HIDE DEF S
    <2> QED
      BY <1>0, <1>2, <1>3, InductiveSet
  <1>5. CASE IsEmpty(b)
    <2>1. find_entry(b, off) = NotFound
      BY <1>5, FindIsWalk
    <2> QED
      BY <1>1, <2>1
  <1>6. CASE ~IsEmpty(b)
    <2> DEFINE p == AsInt(off)
    <2>1. find_entry(b, off) = At(b.out_offs, p)
      BY <1>6, FindIsWalk
    <2>2. p \in Int /\ Left(b, b.out_offs) < MaxOps
      BY <1>0, AsIntIsInt, LeftDecreases
    <2> HIDE DEF p, At, InRange
    <2>3. InRange(At(b.out_offs, p))
      BY <1>0, <1>4, <2>2
    <2> QED
      BY <2>1, <2>3 DEF InRange
  <1> QED
    BY <1>5, <1>6

-----------------------------------------------------------------------------
(***************************************************************************)
(* aesd_adjust_file_offset.                                                *)
(***************************************************************************)

\* The loop of the seek.
SeekAt == [i : Slots, cmd_num : Nat, fpos : Nat]

SeekWalk(b, cmd, off) ==
  CHOOSE walk :
    walk = [at \in SeekAt |->
              IF at.cmd_num = cmd
              THEN IF b.entry[at.i].size >= off
                   THEN [ok |-> TRUE, fpos |-> at.fpos + off]
                   ELSE SeekFailed
              ELSE IF nextPtr(at.i) = b.in_offs
                   THEN SeekFailed
                   ELSE walk[[i |-> nextPtr(at.i), cmd_num |-> at.cmd_num + 1,
                              fpos |-> at.fpos + b.entry[at.i].size]]]

\* adjust_file_offset starts the loop at the oldest entry.
LEMMA SeekIsWalk ==
  ASSUME NEW b, NEW cmd, NEW off
  PROVE  adjust_file_offset(b, cmd, off) =
           IF IsEmpty(b) THEN [ok |-> TRUE, fpos |-> 0]
           ELSE SeekWalk(b, cmd, off)[[i |-> b.out_offs, cmd_num |-> 0, fpos |-> 0]]
  BY DEF adjust_file_offset, SeekWalk, SeekAt

\* One round of the seek.
LEMMA SeekWalkEquation ==
  ASSUME NEW b, Offsets(b), Sized(b), NEW cmd \in Nat, NEW off \in Nat,
         NEW i \in Slots, NEW c \in Nat, NEW p \in Nat
  PROVE  SeekWalk(b, cmd, off)[[i |-> i, cmd_num |-> c, fpos |-> p]] =
           IF c = cmd
           THEN IF b.entry[i].size >= off
                THEN [ok |-> TRUE, fpos |-> p + off] ELSE SeekFailed
           ELSE IF nextPtr(i) = b.in_offs
                THEN SeekFailed
                ELSE SeekWalk(b, cmd, off)[[i |-> nextPtr(i), cmd_num |-> c + 1,
                                            fpos |-> p + b.entry[i].size]]
  <1> DEFINE found(at) == at.cmd_num = cmd
             last(at) == nextPtr(at.i) = b.in_offs
             step(at) == [i |-> nextPtr(at.i), cmd_num |-> at.cmd_num + 1,
                          fpos |-> at.fpos + b.entry[at.i].size]
             here(at) == IF b.entry[at.i].size >= off
                         THEN [ok |-> TRUE, fpos |-> at.fpos + off] ELSE SeekFailed
             stop == {at \in SeekAt : found(at) \/ last(at)}
             v == [at \in SeekAt |-> IF found(at) THEN here(at) ELSE SeekFailed]
             nx == [at \in SeekAt |-> step(at)]
             m == [at \in SeekAt |-> Left(b, at.i)]
             W(f) == [at \in SeekAt |->
                        IF found(at) THEN here(at)
                        ELSE IF last(at) THEN SeekFailed ELSE f[step(at)]]
  <1>1. b.in_offs \in Slots /\ MaxOps \in Nat /\ MaxOps - 1 \in Nat
    BY MaxOpsAssumption DEF Offsets
  <1>2. m \in [SeekAt -> 0 .. MaxOps - 1]
    BY <1>1, LeftDecreases DEF SeekAt
  <1>3. ASSUME NEW at \in SeekAt
        PROVE  step(at) \in SeekAt
    BY <1>3, NextPtrInRange DEF SeekAt, Sized
  <1>4. ASSUME NEW at \in SeekAt, at \notin stop
        PROVE  nx[at] \in SeekAt /\ m[nx[at]] < m[at]
    <2>1. nx[at] \in SeekAt /\ nx[at].i = nextPtr(at.i)
      BY <1>3
    <2>2. at.i \in Slots /\ nextPtr(at.i) # b.in_offs
      BY <1>4 DEF SeekAt
    <2> QED
      BY <2>1, <2>2, <1>1, LeftDecreases
  <1>5. \E f : Loop(f, SeekAt, stop, v, nx)
    <2> HIDE DEF stop, v, nx, m
    <2> QED
      BY <1>1, <1>2, <1>4, TailRecursion
  <1>6. \E f : f = W(f)
    BY <1>5 DEF Loop
  <1>7. SeekWalk(b, cmd, off) = CHOOSE f : f = W(f)
    BY DEF SeekWalk
  <1>8. SeekWalk(b, cmd, off) = W(SeekWalk(b, cmd, off))
    <2> HIDE DEF W
    <2> QED
      BY <1>6, <1>7
  <1>9. [i |-> i, cmd_num |-> c, fpos |-> p] \in SeekAt
    BY DEF SeekAt
  <1> HIDE DEF SeekAt
  <1> QED
    BY <1>8, <1>9

\* The seek gets to the n-th entry when the command is not an older one.
LEMMA SeekReaches ==
  ASSUME NEW b, Offsets(b), Sized(b), NEW pre, Prefix(b, pre), NEW cmd \in Nat, NEW off \in Nat,
         NEW n \in 0 .. Count(b) - 1, n <= cmd
  PROVE  adjust_file_offset(b, cmd, off) =
           SeekWalk(b, cmd, off)[[i |-> SlotOf(b, n), cmd_num |-> n, fpos |-> pre[n]]]
  <1> DEFINE At(k) == SeekWalk(b, cmd, off)[[i |-> SlotOf(b, k), cmd_num |-> k, fpos |-> pre[k]]]
             S == {k \in Nat : k \in 0 .. Count(b) - 1 /\ k <= cmd
                                 => adjust_file_offset(b, cmd, off) = At(k)}
  <1>0. ~IsEmpty(b) /\ Count(b) \in Nat
    BY LiveSlot
  <1>1. 0 \in S
    <2>1. SlotOf(b, 0) = b.out_offs
      BY <1>0, NextSlot
    <2>2. pre[0] = 0
      BY DEF Prefix
    <2> QED
      BY <2>1, <2>2, <1>0, SeekIsWalk
  <1>2. ASSUME NEW k \in Nat, k \in S PROVE k + 1 \in S
    <2> SUFFICES ASSUME k + 1 \in 0 .. Count(b) - 1, k + 1 <= cmd
                 PROVE  adjust_file_offset(b, cmd, off) = At(k + 1)
      OBVIOUS
    <2>1. k \in 0 .. Count(b) - 1 /\ k \in 0 .. Count(b) - 2 /\ k <= cmd /\ k # cmd
      BY <1>0
    <2>2. /\ SlotOf(b, k) \in Slots
          /\ pre[k] \in Nat
          /\ pre[k + 1] = pre[k] + b.entry[SlotOf(b, k)].size
      BY <2>1, LiveSlot
    <2>3. nextPtr(SlotOf(b, k)) # b.in_offs /\ nextPtr(SlotOf(b, k)) = SlotOf(b, k + 1)
      BY <1>0, <2>1, NextSlot
    <2> DEFINE i == SlotOf(b, k)
               p == pre[k]
    <2>4. i \in Slots /\ p \in Nat
      BY <2>2
    <2> HIDE DEF i, p
    <2>5. SeekWalk(b, cmd, off)[[i |-> i, cmd_num |-> k, fpos |-> p]] =
            IF k = cmd
            THEN IF b.entry[i].size >= off
                 THEN [ok |-> TRUE, fpos |-> p + off] ELSE SeekFailed
            ELSE IF nextPtr(i) = b.in_offs
                 THEN SeekFailed
                 ELSE SeekWalk(b, cmd, off)[[i |-> nextPtr(i), cmd_num |-> k + 1,
                                             fpos |-> p + b.entry[i].size]]
      BY <2>4, SeekWalkEquation
    <2>6. At(k) = At(k + 1)
      BY <2>1, <2>2, <2>3, <2>5 DEF i, p
    <2> QED
      BY <1>2, <2>1, <2>6
  <1>3. n \in S
    <2> HIDE DEF S
    <2> QED
      BY <1>1, <1>2, <1>0, InductiveSet
  <1> QED
    BY <1>3

\* A seek to an offset of a live write stores the position of that byte; no
\* other seek is accepted unless the ring is empty.
LEMMA SeekResult ==
  ASSUME NEW b, Offsets(b), Sized(b), NEW pre, Prefix(b, pre), NEW cmd \in Nat, NEW off \in Nat
  PROVE  adjust_file_offset(b, cmd, off) =
           IF IsEmpty(b) THEN [ok |-> TRUE, fpos |-> 0]
           ELSE IF cmd < Count(b) /\ b.entry[SlotOf(b, cmd)].size >= off
                THEN [ok |-> TRUE, fpos |-> pre[cmd] + off]
                ELSE SeekFailed
  <1>0. Count(b) \in Nat /\ (Count(b) = 0 <=> IsEmpty(b))
    BY CountInRange
  <1>1. CASE IsEmpty(b)
    BY <1>1, SeekIsWalk
  <1>2. CASE ~IsEmpty(b) /\ cmd < Count(b)
    <2>1. cmd \in 0 .. Count(b) - 1
      BY <1>0, <1>2
    <2>2. SlotOf(b, cmd) \in Slots /\ pre[cmd] \in Nat
      BY <2>1, LiveSlot
    <2>3. adjust_file_offset(b, cmd, off) =
            SeekWalk(b, cmd, off)[[i |-> SlotOf(b, cmd), cmd_num |-> cmd, fpos |-> pre[cmd]]]
      BY <2>1, SeekReaches
    <2> DEFINE i == SlotOf(b, cmd)
               p == pre[cmd]
               c == cmd
    <2>4. i \in Slots /\ p \in Nat /\ c \in Nat
      BY <2>2
    <2> HIDE DEF i, p, c
    <2>5. SeekWalk(b, cmd, off)[[i |-> i, cmd_num |-> c, fpos |-> p]] =
            IF c = cmd
            THEN IF b.entry[i].size >= off
                 THEN [ok |-> TRUE, fpos |-> p + off] ELSE SeekFailed
            ELSE IF nextPtr(i) = b.in_offs
                 THEN SeekFailed
                 ELSE SeekWalk(b, cmd, off)[[i |-> nextPtr(i), cmd_num |-> c + 1,
                                             fpos |-> p + b.entry[i].size]]
      BY <2>4, SeekWalkEquation
    <2> QED
      BY <1>2, <2>3, <2>5 DEF i, p, c
  <1>3. CASE ~IsEmpty(b) /\ cmd >= Count(b)
    <2> DEFINE k == Count(b) - 1
    <2>1. k \in 0 .. Count(b) - 1 /\ k <= cmd /\ k # cmd /\ k \in Nat
      BY <1>0, <1>3
    <2>2. SlotOf(b, k) \in Slots /\ pre[k] \in Nat
      BY <2>1, LiveSlot
    <2>3. nextPtr(SlotOf(b, k)) = b.in_offs
      BY <1>3, NextSlot
    <2> HIDE DEF k
    <2>4. adjust_file_offset(b, cmd, off) =
            SeekWalk(b, cmd, off)[[i |-> SlotOf(b, k), cmd_num |-> k, fpos |-> pre[k]]]
      BY <2>1, SeekReaches
    <2> DEFINE i == SlotOf(b, k)
               p == pre[k]
    <2>5. i \in Slots /\ p \in Nat /\ k \in Nat
      BY <2>1, <2>2
    <2> HIDE DEF i, p
    <2>6. SeekWalk(b, cmd, off)[[i |-> i, cmd_num |-> k, fpos |-> p]] =
            IF k = cmd
            THEN IF b.entry[i].size >= off
                 THEN [ok |-> TRUE, fpos |-> p + off] ELSE SeekFailed
            ELSE IF nextPtr(i) = b.in_offs
                 THEN SeekFailed
                 ELSE SeekWalk(b, cmd, off)[[i |-> nextPtr(i), cmd_num |-> k + 1,
                                             fpos |-> p + b.entry[i].size]]
      BY <2>5, SeekWalkEquation
    <2>7. adjust_file_offset(b, cmd, off) = SeekFailed
      BY <2>1, <2>3, <2>4, <2>6 DEF i, p
    <2> QED
      BY <1>0, <1>3, <2>7
  <1> QED
    BY <1>0, <1>1, <1>2, <1>3

-----------------------------------------------------------------------------
(***************************************************************************)
(* cleanup_circulat_buffers.                                               *)
(***************************************************************************)

\* The loop of the cleanup.
CleanAt(b) == [i : Slots, freed : Seq(EntryPtrs(b))]

CleanWalk(b) ==
  CHOOSE walk :
    walk = [at \in CleanAt(b) |->
              IF nextPtr(at.i) = b.in_offs
              THEN Append(at.freed, b.entry[at.i].buffptr)
              ELSE walk[[i |-> nextPtr(at.i),
                         freed |-> Append(at.freed, b.entry[at.i].buffptr)]]]

\* cleanup starts the loop at the oldest entry.
LEMMA CleanupIsWalk ==
  ASSUME NEW b
  PROVE  cleanup(b) = IF IsEmpty(b) THEN << >>
                      ELSE CleanWalk(b)[[i |-> b.out_offs, freed |-> << >>]]
  BY DEF cleanup, CleanWalk, CleanAt

\* One round of the cleanup.
LEMMA CleanWalkEquation ==
  ASSUME NEW b, Offsets(b), NEW i \in Slots, NEW s \in Seq(EntryPtrs(b))
  PROVE  CleanWalk(b)[[i |-> i, freed |-> s]] =
           IF nextPtr(i) = b.in_offs
           THEN Append(s, b.entry[i].buffptr)
           ELSE CleanWalk(b)[[i |-> nextPtr(i), freed |-> Append(s, b.entry[i].buffptr)]]
  <1> DEFINE D == CleanAt(b)
             done(at) == Append(at.freed, b.entry[at.i].buffptr)
             last(at) == nextPtr(at.i) = b.in_offs
             step(at) == [i |-> nextPtr(at.i), freed |-> done(at)]
             stop == {at \in D : last(at)}
             v == [at \in D |-> done(at)]
             nx == [at \in D |-> step(at)]
             m == [at \in D |-> Left(b, at.i)]
             W(f) == [at \in D |-> IF last(at) THEN done(at) ELSE f[step(at)]]
  <1>1. b.in_offs \in Slots /\ MaxOps \in Nat /\ MaxOps - 1 \in Nat
    BY MaxOpsAssumption DEF Offsets
  <1>2. m \in [D -> 0 .. MaxOps - 1]
    BY <1>1, LeftDecreases DEF CleanAt
  <1>3. ASSUME NEW at \in D
        PROVE  step(at) \in D
    <2>1. b.entry[at.i].buffptr \in EntryPtrs(b)
      BY DEF EntryPtrs, CleanAt
    <2>2. done(at) \in Seq(EntryPtrs(b))
      BY <2>1, AppendProperties DEF CleanAt
    <2> HIDE DEF done
    <2> QED
      BY <1>3, <2>2, NextPtrInRange DEF CleanAt
  <1>4. ASSUME NEW at \in D, at \notin stop
        PROVE  nx[at] \in D /\ m[nx[at]] < m[at]
    <2>1. nx[at] \in D /\ nx[at].i = nextPtr(at.i)
      BY <1>3
    <2>2. at.i \in Slots /\ nextPtr(at.i) # b.in_offs
      BY <1>4 DEF CleanAt
    <2> QED
      BY <2>1, <2>2, <1>1, LeftDecreases
  <1>5. \E f : Loop(f, D, stop, v, nx)
    <2> HIDE DEF stop, v, nx, m, D
    <2> QED
      BY <1>1, <1>2, <1>4, TailRecursion
  <1>6. \E f : f = W(f)
    BY <1>5 DEF Loop
  <1>7. CleanWalk(b) = CHOOSE f : f = W(f)
    BY DEF CleanWalk
  <1>8. CleanWalk(b) = W(CleanWalk(b))
    <2> HIDE DEF W
    <2> QED
      BY <1>6, <1>7
  <1>9. [i |-> i, freed |-> s] \in D
    BY DEF CleanAt
  <1> HIDE DEF D
  <1> QED
    BY <1>8, <1>9

\* The pointers of the n oldest entries.
FirstPtrs(b, n) == [k \in 1 .. n |-> b.entry[SlotOf(b, k - 1)].buffptr]

\* Freeing the next entry appends its pointer to those freed before.
LEMMA FirstPtrsGrows ==
  ASSUME NEW b, Offsets(b), NEW n \in 0 .. Count(b) - 1
  PROVE  /\ FirstPtrs(b, n) \in Seq(EntryPtrs(b))
         /\ FirstPtrs(b, n + 1) = Append(FirstPtrs(b, n), b.entry[SlotOf(b, n)].buffptr)
  <1> DEFINE P == EntryPtrs(b)
             s == FirstPtrs(b, n)
             t == FirstPtrs(b, n + 1)
             x == b.entry[SlotOf(b, n)].buffptr
             u == Append(s, x)
  <1>1. n \in Nat /\ \A k \in 1 .. n + 1 : SlotOf(b, k - 1) \in Slots
    BY CountInRange, MaxOpsAssumption
  <1>2. \A k \in 1 .. n + 1 : b.entry[SlotOf(b, k - 1)].buffptr \in P
    BY <1>1 DEF EntryPtrs
  <1>3. s \in Seq(P) /\ Len(s) = n /\ t \in Seq(P) /\ Len(t) = n + 1
    BY <1>1, <1>2 DEF FirstPtrs
  <1>4. x \in P
    BY <1>1, <1>2
  <1>5. /\ u \in Seq(P) /\ Len(u) = n + 1
        /\ \A k \in 1 .. n : u[k] = s[k]
        /\ u[n + 1] = x
    BY <1>3, <1>4, AppendProperties
  <1>6. \A k \in 1 .. n + 1 : t[k] = u[k]
    <2>1. \A k \in 1 .. n : s[k] = t[k]
      BY <1>1 DEF FirstPtrs
    <2>2. t[n + 1] = x
      BY <1>1 DEF FirstPtrs
    <2> HIDE DEF s, t, u, x
    <2> QED
      BY <1>1, <1>5, <2>1, <2>2
  <1>7. t = u
    <2> HIDE DEF s, t, u, x, P
    <2> QED
      BY <1>3, <1>5, <1>6, SeqEqual
  <1> QED
    BY <1>3, <1>7

\* The cleanup frees the pointers of the live entries, oldest first.
LEMMA CleanupResult ==
  ASSUME NEW b, Offsets(b)
  PROVE  cleanup(b) = FirstPtrs(b, Count(b))
  <1>0. Count(b) \in Nat /\ (Count(b) = 0 <=> IsEmpty(b))
    BY CountInRange
  <1>1. CASE IsEmpty(b)
    <2>1. FirstPtrs(b, 0) = << >>
      BY DEF FirstPtrs
    <2> QED
      BY <1>0, <1>1, <2>1, CleanupIsWalk
  <1>2. CASE ~IsEmpty(b)
    <2> DEFINE At(k) == CleanWalk(b)[[i |-> SlotOf(b, k), freed |-> FirstPtrs(b, k)]]
               S == {k \in Nat : k \in 0 .. Count(b) - 1 => cleanup(b) = At(k)}
               last == Count(b) - 1
    <2>1. 0 \in S
      <3>1. SlotOf(b, 0) = b.out_offs
        BY <1>2, NextSlot
      <3>2. FirstPtrs(b, 0) = << >>
        BY DEF FirstPtrs
      <3> QED
        BY <3>1, <3>2, <1>2, CleanupIsWalk
    <2>2. \A k \in 0 .. Count(b) - 1 :
            /\ SlotOf(b, k) \in Slots
            /\ FirstPtrs(b, k) \in Seq(EntryPtrs(b))
            /\ FirstPtrs(b, k + 1) = Append(FirstPtrs(b, k), b.entry[SlotOf(b, k)].buffptr)
      <3>1. \A k \in 0 .. Count(b) - 1 : k \in 0 .. MaxOps - 1
        BY CountInRange, MaxOpsAssumption
      <3> QED
        BY <3>1, CountInRange, FirstPtrsGrows
    <2>3. ASSUME NEW k \in Nat, k \in S PROVE k + 1 \in S
      <3> SUFFICES ASSUME k + 1 \in 0 .. Count(b) - 1
                   PROVE  cleanup(b) = At(k + 1)
        OBVIOUS
      <3>1. k \in 0 .. Count(b) - 1 /\ k \in 0 .. Count(b) - 2
        BY <1>0
      <3>2. nextPtr(SlotOf(b, k)) # b.in_offs /\ nextPtr(SlotOf(b, k)) = SlotOf(b, k + 1)
        BY <1>2, <3>1, NextSlot
      <3> DEFINE i == SlotOf(b, k)
                 s == FirstPtrs(b, k)
      <3>3. i \in Slots /\ s \in Seq(EntryPtrs(b))
        BY <2>2, <3>1
      <3> HIDE DEF i, s
      <3>4. CleanWalk(b)[[i |-> i, freed |-> s]] =
              IF nextPtr(i) = b.in_offs
              THEN Append(s, b.entry[i].buffptr)
              ELSE CleanWalk(b)[[i |-> nextPtr(i), freed |-> Append(s, b.entry[i].buffptr)]]
        BY <3>3, CleanWalkEquation
      <3>5. At(k) = At(k + 1)
        BY <2>2, <3>1, <3>2, <3>4 DEF i, s
      <3> QED
        BY <2>3, <3>1, <3>5
    <2>4. last \in Nat /\ last \in 0 .. Count(b) - 1 /\ last + 1 = Count(b)
      BY <1>0, <1>2
    <2>5. last \in S
      <3> HIDE DEF S, last
      <3> QED
        BY <2>1, <2>3, <2>4, InductiveSet
    <2>6. cleanup(b) = At(last)
      BY <2>4, <2>5
    <2>7. nextPtr(SlotOf(b, last)) = b.in_offs
      BY <1>2, NextSlot
    <2>8. At(last) = FirstPtrs(b, last + 1)
      <3> HIDE DEF last
      <3> QED
        BY <2>2, <2>4, <2>7, CleanWalkEquation
    <2> QED
      BY <2>4, <2>6, <2>8
  <1> QED
    BY <1>1, <1>2

-----------------------------------------------------------------------------
(***************************************************************************)
(* cb_size.                                                                *)
(***************************************************************************)

\* Quotient and remainder.
LEMMA ModBasic ==
  ASSUME NEW N \in Nat \ {0}, NEW z \in Int
  PROVE z % N \in 0 .. N - 1 /\ z = N * (z \div N) + (z % N) /\ z \div N \in Int
  OBVIOUS

\* Zero is the only multiple of N between -N and N.
LEMMA NoMultiple ==
  ASSUME NEW N \in Nat \ {0}, NEW q \in Int, -N < N * q, N * q < N
  PROVE q = 0
  <1>1. CASE q >= 1
    <2>1. N * q >= N
      BY <1>1
    <2> QED
      BY <2>1
  <1>2. CASE q <= -1
    <2>1. N * q <= -N
      BY <1>2
    <2> QED
      BY <2>1
  <1> QED
    BY <1>1, <1>2

\* The remainder is the only number below N that differs by a multiple of N.
LEMMA ModUnique ==
  ASSUME NEW N \in Nat \ {0}, NEW z \in Int, NEW k \in Int, NEW r \in 0 .. N - 1, z = N * k + r
  PROVE z % N = r
  <1> DEFINE q == z \div N
             s == z % N
  <1>1. s \in 0 .. N - 1 /\ z = N * q + s /\ q \in Int
    BY ModBasic
  <1> HIDE DEF q, s
  <1>2. N * (k - q) = s - r
    BY <1>1
  <1>3. k - q = 0
    BY <1>1, <1>2, NoMultiple
  <1> QED
    BY <1>1, <1>2, <1>3 DEF s

\* A multiple of N more or less does not change the remainder.
LEMMA ModShift ==
  ASSUME NEW N \in Nat \ {0}, NEW z \in Int, NEW k \in Int
  PROVE (z + N * k) % N = z % N
  <1> DEFINE q == z \div N
             s == z % N
  <1>1. s \in 0 .. N - 1 /\ z = N * q + s /\ q \in Int
    BY ModBasic
  <1> HIDE DEF q, s
  <1>2. z + N * k = N * (q + k) + s /\ q + k \in Int /\ z + N * k \in Int
    BY <1>1
  <1>3. (z + N * k) % N = s
    BY <1>1, <1>2, ModUnique
  <1> QED
    BY <1>3 DEF s

\* The update of cb_size: the int that holds the size of the entry that goes
\* and the wrap of the uint32_t both vanish modulo 2^IntBits.
LEMMA ModOfDifference ==
  ASSUME NEW x \in Int, NEW d \in Int, NEW y \in Int
  PROVE ((x % 2^IntBits) + (d - AsInt(y))) % 2^IntBits = (x + d - y) % 2^IntBits
  <1> DEFINE N == 2^IntBits
             a == x \div N
             b == y \div N
             r == x % N
             s == y % N
  <1>1. N \in Nat \ {0}
    BY PowersAssumption
  <1>2. AsInt(y) = s \/ AsInt(y) = s - N
    BY DEF AsInt
  <1> HIDE DEF N
  <1>3. r \in Int /\ x = N * a + r /\ a \in Int /\ s \in Int /\ y = N * b + s /\ b \in Int
    BY <1>1, ModBasic
  <1> HIDE DEF a, b, r, s
  <1>4. PICK k \in Int : r + (d - AsInt(y)) = (x + d - y) + N * k
    <2>1. CASE AsInt(y) = s
      <3>1. r + (d - AsInt(y)) = (x + d - y) + N * (b - a) /\ b - a \in Int
        BY <1>1, <1>3, <2>1
      <3> QED
        BY <3>1
    <2>2. CASE AsInt(y) = s - N
      <3>1. r + (d - AsInt(y)) = (x + d - y) + N * (b - a + 1) /\ b - a + 1 \in Int
        BY <1>1, <1>3, <2>2
      <3> QED
        BY <3>1
    <2> QED
      BY <1>2, <2>1, <2>2
  <1> DEFINE z == x + d - y
  <1>5. z \in Int /\ r + (d - AsInt(y)) = z + N * k
    BY <1>4
  <1>6. (z + N * k) % N = z % N
    <2> HIDE DEF z
    <2> QED
      BY <1>1, <1>4, <1>5, ModShift
  <1> QED
    BY <1>5, <1>6 DEF N, r

\* Zero is an int.
LEMMA AsIntOfZero == AsInt(0) = 0
  BY PowersAssumption DEF AsInt

\* A remainder is no larger than the number.
LEMMA ModAtMost ==
  ASSUME NEW N \in Nat \ {0}, NEW x \in Nat
  PROVE  x % N \in 0 .. N - 1 /\ x % N <= x
  <1> DEFINE q == x \div N
             r == x % N
  <1>1. r \in 0 .. N - 1 /\ x = N * q + r /\ q \in Int
    BY ModBasic
  <1> HIDE DEF q, r
  <1>2. q >= 0
    <2>1. CASE q <= -1
      <3>1. N * q <= -N
        BY <1>1, <2>1
      <3> QED
        BY <1>1, <3>1
    <2> QED
      BY <1>1, <2>1
  <1>3. N * q >= 0
    BY <1>1, <1>2
  <1> QED
    BY <1>1, <1>3 DEF r

\* A number below 2^IntBits is its own remainder.
LEMMA ModOfSmall ==
  ASSUME NEW x \in Nat, x < 2^IntBits
  PROVE  x % 2^IntBits = x
  BY PowersAssumption

\* cb_size is the number of bytes in the live entries, modulo 2^IntBits.
CbExact(b) == \E pre : Prefix(b, pre) /\ b.cb_size = pre[Count(b)] % 2^IntBits

\* An empty ring with cb_size 0 is exact.
LEMMA CbExactOfEmpty ==
  ASSUME NEW b, Offsets(b), IsEmpty(b), b.cb_size = 0
  PROVE  CbExact(b)
  <1> DEFINE pre == [k \in 0 .. 0 |-> 0]
  <1>1. Count(b) = 0
    BY CountInRange
  <1>2. Prefix(b, pre)
    BY <1>1 DEF Prefix
  <1>3. pre[Count(b)] % 2^IntBits = 0
    BY <1>1, PowersAssumption
  <1> HIDE DEF pre
  <1> QED
    BY <1>2, <1>3 DEF CbExact

\* add_entry keeps cb_size exact, and the ring sized.
LEMMA CbExactAdd ==
  ASSUME NEW b, Offsets(b), Sized(b), CbExact(b), DOMAIN b.entry = Slots,
         NEW e, e.size \in Nat
  PROVE  /\ Sized(add_entry(b, e))
         /\ CbExact(add_entry(b, e))
  <1> DEFINE c == add_entry(b, e)
             n == Count(b)
  <1>1. PICK pre : Prefix(b, pre) /\ b.cb_size = pre[n] % 2^IntBits
    BY DEF CbExact
  <1>2. /\ Offsets(c)
        /\ c.entry = [b.entry EXCEPT ![b.in_offs] = e]
        /\ c.cb_size = (b.cb_size + (e.size - rm_buf_size(b))) % 2^IntBits
        /\ b.in_offs \in Slots
    BY AddOffsets DEF Offsets
  <1>3. Sized(c)
    BY <1>2 DEF Sized
  <1>4. n \in 0 .. MaxOps /\ n \in Nat
    BY CountInRange, MaxOpsAssumption
  <1>5. /\ \A k \in 0 .. n : pre[k] \in Nat
        /\ pre[0] = 0
        /\ \A k \in 0 .. n - 1 : pre[k + 1] = pre[k] + b.entry[SlotOf(b, k)].size
    BY <1>1 DEF Prefix
  <1>6. \A k \in 0 .. MaxOps - 1 : SlotOf(b, k) \in Slots /\ SlotOf(c, k) \in Slots
    BY <1>2, CountInRange
  <1>7. \A i \in Slots : c.entry[i] = IF i = b.in_offs THEN e ELSE b.entry[i]
    BY <1>2
  <1>8. CASE ~b.full
    <2>1. /\ Count(c) = n + 1
          /\ SlotOf(b, n) = b.in_offs
          /\ \A k \in 0 .. MaxOps - 1 : SlotOf(c, k) = SlotOf(b, k)
          /\ \A k \in 0 .. n - 1 : SlotOf(b, k) # b.in_offs
      BY <1>8, AddToRoom
    <2>2. n + 1 \in 0 .. MaxOps /\ rm_buf_size(b) = 0
      BY <1>2, <1>8, <2>1, CountInRange DEF rm_buf_size
    <2> DEFINE new == [k \in 0 .. n + 1 |-> IF k = n + 1 THEN pre[n] + e.size ELSE pre[k]]
    <2> HIDE DEF c, n
    <2>3. new \in [0 .. n + 1 -> Nat] /\ new[0] = 0
      BY <1>4, <1>5
    <2>4. ASSUME NEW k \in 0 .. n
          PROVE  new[k + 1] = new[k] + c.entry[SlotOf(c, k)].size
      <3>1. /\ k \in 0 .. MaxOps - 1
            /\ SlotOf(c, k) = SlotOf(b, k) /\ SlotOf(b, k) \in Slots
        BY <1>4, <1>6, <2>1, <2>2, MaxOpsAssumption
      <3>2. new[k] = pre[k]
        BY <1>4
      <3>3. CASE k = n
        <4>1. c.entry[SlotOf(c, k)] = e
          BY <1>7, <2>1, <3>1, <3>3
        <4> QED
          BY <1>4, <3>2, <3>3, <4>1
      <3>4. CASE k # n
        <4>1. k \in 0 .. n - 1 /\ k + 1 \in 0 .. n + 1 /\ k + 1 # n + 1
          BY <1>4, <3>4
        <4>2. c.entry[SlotOf(c, k)] = b.entry[SlotOf(b, k)]
          BY <1>7, <2>1, <3>1, <4>1
        <4> QED
          BY <1>5, <3>2, <4>1, <4>2
      <3> QED
        BY <3>3, <3>4
    <2>5. new[n + 1] = pre[n] + e.size /\ (n + 1) - 1 = n
      BY <1>4
    <2> HIDE DEF new
    <2>6. Prefix(c, new)
      BY <2>1, <2>3, <2>4, <2>5 DEF Prefix
    <2>7. c.cb_size = new[Count(c)] % 2^IntBits
      <3> DEFINE x == pre[n]
                 d == e.size
      <3>1. b.cb_size = x % 2^IntBits /\ x \in Nat /\ d \in Nat
        BY <1>1, <1>4, <1>5
      <3>2. c.cb_size = ((x % 2^IntBits) + (d - 0)) % 2^IntBits /\ new[Count(c)] = x + d
        BY <1>2, <2>1, <2>2, <2>5, <3>1
      <3> HIDE DEF x, d
      <3>3. ((x % 2^IntBits) + (d - AsInt(0))) % 2^IntBits = (x + d - 0) % 2^IntBits
        BY <3>1, ModOfDifference
      <3>4. AsInt(0) = 0 /\ x + d - 0 = x + d
        BY <3>1, AsIntOfZero
      <3> QED
        BY <3>2, <3>3, <3>4
    <2>8. CbExact(c)
      BY <2>6, <2>7 DEF CbExact
    <2> QED
      BY <1>3, <2>8 DEF c
  <1>9. CASE b.full
    <2>1. /\ Count(c) = MaxOps
          /\ n = MaxOps
          /\ SlotOf(b, 0) = b.in_offs
          /\ SlotOf(c, MaxOps - 1) = b.in_offs
          /\ \A k \in 0 .. MaxOps - 2 :
               /\ SlotOf(c, k) = SlotOf(b, k + 1)
               /\ SlotOf(b, k + 1) # b.in_offs
      BY <1>9, AddToFull
    <2>2. rm_buf_size(b) = AsInt(pre[1]) /\ pre[1] \in Nat
      <3>1. 0 \in 0 .. n - 1 /\ 0 + 1 = 1 /\ 1 \in 0 .. n
        BY <2>1, MaxOpsAssumption
      <3>2. pre[1] = b.entry[b.in_offs].size
        <4>1. pre[1] = pre[0] + b.entry[SlotOf(b, 0)].size
          BY <1>5, <3>1
        <4>2. b.entry[b.in_offs].size \in Nat
          BY <1>2 DEF Sized
        <4> QED
          BY <1>5, <2>1, <4>1, <4>2
      <3>3. b.in_offs = b.out_offs
        BY <1>9 DEF Offsets
      <3> QED
        BY <1>5, <1>9, <3>1, <3>2, <3>3 DEF rm_buf_size
    <2> DEFINE N == MaxOps
               new == [k \in 0 .. N |->
                         IF k = N THEN pre[N] - pre[1] + e.size ELSE pre[k + 1] - pre[1]]
    <2>3. N \in Nat \ {0} /\ n = N
      BY <2>1, MaxOpsAssumption
    <2>4. \A k \in 1 .. N : pre[k] \in Nat /\ pre[1] <= pre[k]
      <3>1. \A k \in 1 .. N : k \in 0 .. Count(b) /\ 1 \in 0 .. Count(b) /\ 1 <= k
        BY <2>3
      <3> QED
        BY <1>1, <1>5, <3>1, PrefixMonotone
    <2> HIDE DEF c, n
    <2>5. ASSUME NEW k \in 0 .. N - 2
          PROVE  /\ k + 1 \in 0 .. N - 1
                 /\ c.entry[SlotOf(c, k)] = b.entry[SlotOf(b, k + 1)]
                 /\ b.entry[SlotOf(b, k + 1)].size \in Nat
                 /\ pre[k + 2] = pre[k + 1] + b.entry[SlotOf(b, k + 1)].size
      <3>1. k + 1 \in 0 .. N - 1 /\ (k + 1) + 1 = k + 2
        BY <2>3
      <3>2. SlotOf(c, k) = SlotOf(b, k + 1) /\ SlotOf(b, k + 1) # b.in_offs
            /\ SlotOf(b, k + 1) \in Slots
        BY <1>6, <2>1, <2>3, <3>1
      <3> QED
        BY <1>5, <1>7, <2>3, <3>1, <3>2 DEF Sized
    <2>6. new[0] = 0
      BY <2>2, <2>3, <2>4
    <2>7. new \in [0 .. N -> Nat]
      <3>1. ASSUME NEW k \in 0 .. N PROVE new[k] \in Nat
        <4>1. CASE k = N
          BY <2>2, <2>3, <2>4, <4>1
        <4>2. CASE k # N
          <5>1. k + 1 \in 1 .. N
            BY <2>3, <4>2
          <5> QED
            BY <2>2, <2>4, <4>2, <5>1
        <4> QED
          BY <4>1, <4>2
      <3> QED
        BY <3>1
    <2>8. ASSUME NEW k \in 0 .. N - 1
          PROVE  new[k + 1] = new[k] + c.entry[SlotOf(c, k)].size
      <3>1. k # N /\ k \in 0 .. N /\ k + 1 \in 0 .. N /\ k + 1 \in 1 .. N
        BY <2>3
      <3>2. new[k] = pre[k + 1] - pre[1] /\ pre[k + 1] \in Nat
        BY <2>4, <3>1
      <3>3. CASE k = N - 1
        <4>1. c.entry[SlotOf(c, k)] = e
          BY <1>2, <1>7, <2>1, <3>3
        <4>2. new[k + 1] = pre[N] - pre[1] + e.size /\ k + 1 = N
          BY <2>3, <3>3, <3>1
        <4> HIDE DEF new, N
        <4> QED
          BY <2>2, <3>2, <4>1, <4>2
      <3>4. CASE k # N - 1
        <4>1. k \in 0 .. N - 2 /\ k + 1 # N /\ (k + 1) + 1 = k + 2 /\ k + 2 \in 1 .. N
          BY <2>3, <3>1, <3>4
        <4>2. new[k + 1] = pre[k + 2] - pre[1]
          BY <3>1, <4>1
        <4> HIDE DEF new, N
        <4> QED
          BY <2>2, <2>5, <3>2, <4>1, <4>2
      <3> QED
        BY <3>3, <3>4
    <2>9. new[N] = pre[N] - pre[1] + e.size
      BY <2>3
    <2> HIDE DEF new
    <2>10. Prefix(c, new)
      BY <2>1, <2>6, <2>7, <2>8 DEF Prefix
    <2>11. c.cb_size = new[Count(c)] % 2^IntBits
      <3> DEFINE x == pre[N]
                 y == pre[1]
                 d == e.size
      <3>1. x \in Nat /\ y \in Nat /\ d \in Nat /\ b.cb_size = x % 2^IntBits
        BY <1>1, <2>2, <2>3, <2>4
      <3>2. /\ c.cb_size = ((x % 2^IntBits) + (d - AsInt(y))) % 2^IntBits
            /\ new[Count(c)] = x - y + d
        BY <1>2, <2>1, <2>2, <2>9, <3>1
      <3> HIDE DEF x, y, d
      <3>3. ((x % 2^IntBits) + (d - AsInt(y))) % 2^IntBits = (x + d - y) % 2^IntBits
        BY <3>1, ModOfDifference
      <3>4. x + d - y = x - y + d
        BY <3>1
      <3> QED
        BY <3>2, <3>3, <3>4
    <2>12. CbExact(c)
      BY <2>10, <2>11 DEF CbExact
    <2> QED
      BY <1>3, <2>12 DEF c
  <1> QED
    BY <1>8, <1>9 DEF Offsets

=============================================================================
