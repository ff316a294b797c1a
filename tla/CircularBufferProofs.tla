------------------------ MODULE CircularBufferProofs ------------------------
(***************************************************************************)
(* Proofs about the circular buffer, for every number of slots, every set  *)
(* of sizes and every number of additions.                                 *)
(***************************************************************************)
EXTENDS CircularBufferSpec, RingLemmas

\* The initial ring satisfies the inductive invariant.
LEMMA InitRingInv == Init => RingInv
  <1> SUFFICES ASSUME Init PROVE RingInv
    OBVIOUS
  <1>1. 0 \in Slots
    BY MaxOpsAssumption DEF Slots
  <1>2. buffer = EmptyRing /\ start = [i \in Slots |-> 0] /\ total = 0
    BY DEF Init
  <1>3. TypeOK
    BY <1>1, <1>2, PowersAssumption DEF TypeOK, Ring, EmptyRing, NoEntry
  <1>4. IsEmpty(buffer) /\ Count(buffer) = 0 /\ ~buffer.full
    BY <1>2 DEF IsEmpty, Count, EmptyRing
  <1>5. buffer.cb_size = 0
    BY <1>2 DEF EmptyRing
  <1>6. FullMeansMet /\ CbSizeExact
    BY <1>4, <1>5, PowersAssumption DEF FullMeansMet, CbSizeExact, Held
  <1>7. WindowIsTail
    BY <1>4 DEF WindowIsTail, Live
  <1>8. StartsInStream
    BY <1>2 DEF StartsInStream
  <1>9. EntriesAdded
    BY <1>2 DEF EntriesAdded, EmptyRing
  <1> QED
    BY <1>3, <1>6, <1>7, <1>8, <1>9 DEF RingInv

\* add_entry preserves the inductive invariant: the two cases of the code,
\* a ring with room and a full ring, move the window in different ways.
LEMMA AddRingInv ==
  ASSUME RingInv, NEW e \in Entry, Add(e)
  PROVE  RingInv'
  <1> DEFINE b == buffer
             c == add_entry(buffer, e)
             n == Count(buffer)
  <1>1. buffer' = c
    BY DEF Add
  <1>2. e.size \in Nat /\ e \in [buffptr : Ptrs \union {NULL}, size : Nat]
    BY EntryAssumption DEF Entry
  <1>3. b \in Ring /\ start \in [Slots -> Nat] /\ total \in Nat
    BY DEF RingInv, TypeOK
  <1>4. Offsets(b)
    BY <1>3 DEF Offsets, RingInv, FullMeansMet, Ring
  <1>5. /\ Offsets(c)
        /\ c.entry = [b.entry EXCEPT ![b.in_offs] = e]
        /\ c.cb_size = (b.cb_size + (e.size - rm_buf_size(b))) % 2^IntBits
    BY <1>4, AddOffsets
  <1>6. /\ start' = [start EXCEPT ![b.in_offs] = total]
        /\ total' = total + e.size
        /\ total' \in Nat
    BY <1>2, <1>3 DEF Add
  <1>7. start' \in [Slots -> Nat]
    BY <1>3, <1>6
  <1>8. /\ c.entry \in [Slots -> [buffptr : Ptrs \union {NULL}, size : Nat]]
        /\ c = [entry |-> c.entry, in_offs |-> c.in_offs,
                out_offs |-> c.out_offs, full |-> c.full, cb_size |-> c.cb_size]
    BY <1>2, <1>3, <1>5 DEF Ring, add_entry
  <1>9. /\ n \in 0 .. MaxOps
        /\ n = 0 <=> IsEmpty(b)
        /\ \A k \in 0 .. MaxOps - 1 : SlotOf(b, k) \in Slots
    BY <1>4, CountInRange
  <1>10. b.in_offs \in Slots /\ b.out_offs \in Slots
    BY <1>4 DEF Offsets
  <1>11. /\ b.entry \in [Slots -> [buffptr : Ptrs \union {NULL}, size : Nat]]
    BY <1>3 DEF Ring
  <1>12. \A k \in 0 .. n - 1 :
           start[SlotOf(b, k)] + b.entry[SlotOf(b, k)].size =
             IF k = n - 1 THEN total ELSE start[SlotOf(b, k + 1)]
    BY DEF RingInv, WindowIsTail, Live
  <1> DEFINE held == IF IsEmpty(b) THEN 0 ELSE total - start[b.out_offs]
             after == IF IsEmpty(c) THEN 0 ELSE total' - start'[c.out_offs]
  <1>13. b.cb_size = held % 2^IntBits /\ held \in Int
    BY <1>3, <1>10 DEF RingInv, CbSizeExact, Held
  <1>14. SlotOf(b, 0) = b.out_offs
    BY <1>10, MaxOpsAssumption DEF SlotOf, Slots
  <1>15. SlotOf(c, 0) = c.out_offs
    BY <1>5, MaxOpsAssumption DEF SlotOf, Slots, Offsets
  <1>16. Count(c) \in 1 .. MaxOps => ~IsEmpty(c)
    BY <1>5, CountInRange
  <1>17. WindowIsTail' <=>
           \A k \in 0 .. Count(c) - 1 :
             start'[SlotOf(c, k)] + c.entry[SlotOf(c, k)].size =
               IF k = Count(c) - 1 THEN total' ELSE start'[SlotOf(c, k + 1)]
    BY <1>1 DEF WindowIsTail, Live
  <1>18. CbSizeExact' <=> c.cb_size = after % 2^IntBits
    BY <1>1 DEF CbSizeExact, Held
  <1>19. StartsInStream'
    BY <1>2, <1>3, <1>6, <1>10 DEF RingInv, StartsInStream
  <1>20. EntriesAdded'
    <2>1. \A i \in Slots : b.entry[i] \in Entry \union {NoEntry}
      BY DEF RingInv, EntriesAdded
    <2>2. \A i \in Slots : c.entry[i] \in Entry \union {NoEntry}
      <3> HIDE DEF c
      <3> QED
        BY <1>5, <1>11, <2>1
    <2> QED
      BY <1>1, <2>2 DEF EntriesAdded
  <1>21. c.cb_size \in 0 .. 2^IntBits - 1
    <2> DEFINE x == b.cb_size + (e.size - rm_buf_size(b))
    <2>1. b.cb_size \in Int /\ rm_buf_size(b) \in Int
      BY <1>3, <1>10, <1>11, AsIntIsInt DEF Ring, rm_buf_size
    <2>2. x \in Int /\ c.cb_size = x % 2^IntBits /\ 2^IntBits \in Nat \ {0}
      BY <1>2, <1>5, <2>1, PowersAssumption
    <2> HIDE DEF x, c
    <2> QED
      BY <2>2, ModBasic
  <1> HIDE DEF c, b, n
  <1>22. CASE ~b.full
    <2>1. /\ Count(c) = n + 1
          /\ SlotOf(b, n) = b.in_offs
          /\ \A k \in 0 .. MaxOps - 1 : SlotOf(c, k) = SlotOf(b, k)
          /\ \A k \in 0 .. n - 1 : SlotOf(b, k) # b.in_offs
      BY <1>4, <1>22, AddToRoom DEF b, c, n
    <2>2. n \in 0 .. MaxOps - 1
      BY <1>5, <1>9, <2>1, CountInRange, MaxOpsAssumption
    <2>3. rm_buf_size(b) = 0
      BY <1>22 DEF rm_buf_size
    <2>4. WindowIsTail'
      <3> SUFFICES ASSUME NEW k \in 0 .. n
                   PROVE  start'[SlotOf(c, k)] + c.entry[SlotOf(c, k)].size =
                            IF k = n THEN total' ELSE start'[SlotOf(c, k + 1)]
        BY <1>9, <1>17, <2>1
      <3>1. CASE k = n
        BY <3>1, <1>2, <1>3, <1>5, <1>6, <1>10, <1>11, <2>1, <2>2
      <3>2. CASE k < n
        <4>1. k \in 0 .. n - 1 /\ k + 1 \in 0 .. MaxOps - 1 /\ k \in 0 .. MaxOps - 1
          BY <3>2, <1>9, <2>2, MaxOpsAssumption
        <4>2. /\ SlotOf(c, k) = SlotOf(b, k)
              /\ SlotOf(b, k) \in Slots
              /\ SlotOf(b, k) # b.in_offs
              /\ SlotOf(c, k + 1) = SlotOf(b, k + 1)
              /\ SlotOf(b, k + 1) \in Slots
          BY <4>1, <2>1, <1>9
        <4>3. /\ start'[SlotOf(c, k)] = start[SlotOf(b, k)]
              /\ c.entry[SlotOf(c, k)] = b.entry[SlotOf(b, k)]
          BY <4>2, <1>3, <1>5, <1>6, <1>11
        <4>4. start'[SlotOf(b, k + 1)] =
                IF k = n - 1 THEN total ELSE start[SlotOf(b, k + 1)]
          <5>1. CASE k = n - 1
            BY <5>1, <2>1, <1>3, <1>6, <1>9, <1>10
          <5>2. CASE k # n - 1
            <6>1. k + 1 \in 0 .. n - 1
              BY <5>2, <4>1, <1>9
            <6>2. SlotOf(b, k + 1) # b.in_offs
              BY <6>1, <2>1
            <6> QED
              BY <5>2, <6>2, <4>2, <1>3, <1>6
          <5> QED
            BY <5>1, <5>2
        <4> QED
          BY <4>1, <4>2, <4>3, <4>4, <1>12, <1>9, <3>2
      <3> QED
        BY <3>1, <3>2, <1>9
    <2>5. after = held + e.size
      <3>1. ~IsEmpty(c) /\ c.out_offs = b.out_offs
        <4>1. 0 \in 0 .. MaxOps - 1
          BY MaxOpsAssumption
        <4> QED
          BY <4>1, <1>14, <1>15, <1>16, <1>9, <2>1, <2>2, MaxOpsAssumption
             DEF b, c, n
      <3>2. CASE IsEmpty(b)
        <4>1. b.out_offs = b.in_offs
          BY <3>2 DEF IsEmpty
        <4> QED
          BY <3>1, <3>2, <4>1, <1>2, <1>3, <1>6, <1>10
      <3>3. CASE ~IsEmpty(b)
        <4>1. b.out_offs # b.in_offs
          BY <3>3, <1>22 DEF IsEmpty
        <4> QED
          BY <3>1, <3>3, <4>1, <1>2, <1>3, <1>6, <1>10
      <3> QED
        BY <3>2, <3>3
    <2> HIDE DEF held, after
    <2>6. CbSizeExact'
      <3> DEFINE d == e.size
      <3>1. c.cb_size = ((held % 2^IntBits) + (d - AsInt(0))) % 2^IntBits
        BY <1>5, <1>13, <2>3, AsIntOfZero
      <3>2. d \in Int /\ held \in Int
        BY <1>2, <1>13
      <3> HIDE DEF d
      <3>3. c.cb_size = (held + d - 0) % 2^IntBits
        BY <3>1, <3>2, ModOfDifference
      <3>4. held + d - 0 = after
        BY <2>5, <3>2 DEF d
      <3> QED
        BY <1>18, <3>3, <3>4
    <2> QED
      BY <1>1, <1>5, <1>6, <1>7, <1>8, <1>19, <1>20, <1>21, <2>4, <2>6
         DEF RingInv, TypeOK, Ring, FullMeansMet, Offsets
  <1>23. CASE b.full
    <2>1. /\ Count(c) = MaxOps
          /\ n = MaxOps
          /\ SlotOf(b, 0) = b.in_offs
          /\ SlotOf(c, MaxOps - 1) = b.in_offs
          /\ \A k \in 0 .. MaxOps - 2 :
               /\ SlotOf(c, k) = SlotOf(b, k + 1)
               /\ SlotOf(b, k + 1) # b.in_offs
      BY <1>4, <1>23, AddToFull DEF b, c, n
    <2>2. b.in_offs = b.out_offs /\ rm_buf_size(b) = AsInt(b.entry[b.out_offs].size)
      BY <1>4, <1>23 DEF Offsets, rm_buf_size
    <2>3. WindowIsTail'
      <3> SUFFICES ASSUME NEW k \in 0 .. MaxOps - 1
                   PROVE  start'[SlotOf(c, k)] + c.entry[SlotOf(c, k)].size =
                            IF k = MaxOps - 1 THEN total'
                            ELSE start'[SlotOf(c, k + 1)]
        BY <1>17, <2>1
      <3>1. CASE k = MaxOps - 1
        BY <3>1, <1>2, <1>3, <1>5, <1>6, <1>10, <1>11, <2>1
      <3>2. CASE k < MaxOps - 1
        <4>1. k \in 0 .. MaxOps - 2 /\ k + 1 \in 0 .. n - 1
          BY <3>2, <2>1, MaxOpsAssumption
        <4>2. /\ SlotOf(c, k) = SlotOf(b, k + 1)
              /\ SlotOf(b, k + 1) \in Slots
              /\ SlotOf(b, k + 1) # b.in_offs
          BY <4>1, <2>1, <1>9
        <4>3. /\ start'[SlotOf(c, k)] = start[SlotOf(b, k + 1)]
              /\ c.entry[SlotOf(c, k)] = b.entry[SlotOf(b, k + 1)]
          BY <4>2, <1>3, <1>5, <1>6, <1>11
        <4>4. start'[SlotOf(c, k + 1)] =
                IF k + 1 = n - 1 THEN total ELSE start[SlotOf(b, k + 2)]
          <5>1. CASE k + 1 = n - 1
            BY <5>1, <2>1, <1>3, <1>6, <1>10
          <5>2. CASE k + 1 # n - 1
            <6>1. k + 1 \in 0 .. MaxOps - 2 /\ k + 2 \in 0 .. MaxOps - 1
              BY <5>2, <4>1, <2>1, MaxOpsAssumption
            <6>2. /\ SlotOf(c, k + 1) = SlotOf(b, k + 2)
                  /\ SlotOf(b, k + 2) # b.in_offs
                  /\ SlotOf(b, k + 2) \in Slots
              <7>1. (k + 1) + 1 = k + 2
                OBVIOUS
              <7> QED
                BY <6>1, <7>1, <2>1, <1>9
            <6> QED
              BY <5>2, <6>2, <1>3, <1>6
          <5> QED
            BY <5>1, <5>2
        <4>5. start[SlotOf(b, k + 1)] + b.entry[SlotOf(b, k + 1)].size =
                IF k + 1 = n - 1 THEN total ELSE start[SlotOf(b, k + 2)]
          <5>1. (k + 1) + 1 = k + 2
            OBVIOUS
          <5> QED
            BY <4>1, <5>1, <1>12
        <4> QED
          BY <4>3, <4>4, <4>5, <3>2, MaxOpsAssumption
      <3> QED
        BY <3>1, <3>2, MaxOpsAssumption
    <2>4. after = held + e.size - b.entry[b.out_offs].size
      <3>1. ~IsEmpty(b) /\ ~IsEmpty(c)
        BY <1>16, <1>23, <2>1, MaxOpsAssumption DEF IsEmpty
      <3>2. held = total - start[b.out_offs] /\ after = total' - start'[c.out_offs]
        BY <3>1
      <3> HIDE DEF held, after
      <3>3. CASE MaxOps = 1
        <4>1. SlotOf(c, 0) = b.in_offs
          BY <3>3, <2>1
        <4>2. start[b.out_offs] + b.entry[b.out_offs].size = total
          <5>1. 0 \in 0 .. n - 1 /\ 0 = n - 1
            BY <3>3, <2>1
          <5> QED
            BY <5>1, <1>12, <1>14
        <4>3. b.entry[b.out_offs].size \in Nat /\ start[b.out_offs] \in Nat
          BY <1>3, <1>10, <1>11
        <4>4. start'[c.out_offs] = total
          BY <4>1, <1>15, <1>6, <1>10, <1>3
        <4> QED
          BY <3>2, <4>2, <4>3, <4>4, <1>2, <1>3, <1>6
      <3>4. CASE MaxOps # 1
        <4>1. 0 \in 0 .. MaxOps - 2 /\ 0 \in 0 .. n - 1 /\ 0 # n - 1 /\ 1 \in 0 .. MaxOps - 1
          BY <3>4, <2>1, MaxOpsAssumption
        <4>2. /\ SlotOf(c, 0) = SlotOf(b, 1)
              /\ SlotOf(b, 1) # b.in_offs
              /\ SlotOf(b, 1) \in Slots
          <5>1. 0 + 1 = 1
            OBVIOUS
          <5> QED
            BY <4>1, <5>1, <2>1, <1>9
        <4>3. start[b.out_offs] + b.entry[b.out_offs].size = start[SlotOf(b, 1)]
          <5>1. 0 + 1 = 1
            OBVIOUS
          <5> QED
            BY <4>1, <5>1, <1>12, <1>14
        <4>4. /\ b.entry[b.out_offs].size \in Nat
              /\ start[b.out_offs] \in Nat
              /\ start[SlotOf(b, 1)] \in Nat
          BY <1>3, <1>10, <1>11, <4>2
        <4>5. start'[c.out_offs] = start[SlotOf(b, 1)]
          BY <4>2, <1>15, <1>6, <1>3
        <4> QED
          BY <3>2, <4>3, <4>4, <4>5, <1>2, <1>3, <1>6
      <3> QED
        BY <3>3, <3>4
    <2> HIDE DEF held, after
    <2>5. CbSizeExact'
      <3> DEFINE d == e.size
                 y == b.entry[b.out_offs].size
      <3>1. c.cb_size = ((held % 2^IntBits) + (d - AsInt(y))) % 2^IntBits
        BY <1>5, <1>13, <2>2
      <3>2. d \in Int /\ y \in Int /\ held \in Int
        BY <1>2, <1>10, <1>11, <1>13
      <3> HIDE DEF d, y
      <3>3. c.cb_size = (held + d - y) % 2^IntBits
        BY <3>1, <3>2, ModOfDifference
      <3>4. held + d - y = after
        BY <2>4, <3>2 DEF d, y
      <3> QED
        BY <1>18, <3>3, <3>4
    <2> QED
      BY <1>1, <1>5, <1>6, <1>7, <1>8, <1>19, <1>20, <1>21, <2>3, <2>5
         DEF RingInv, TypeOK, Ring, FullMeansMet, Offsets
  <1> QED
    BY <1>22, <1>23

\* Every reachable ring satisfies the inductive invariant.
THEOREM RingInvariant == Spec => []RingInv
  <1>1. RingInv /\ UNCHANGED vars => RingInv'
    BY DEF RingInv, TypeOK, FullMeansMet, EntriesAdded, StartsInStream,
           WindowIsTail, CbSizeExact, Held, Live, vars
  <1>2. RingInv /\ [Next]_vars => RingInv'
    BY <1>1, AddRingInv DEF Next
  <1> QED
    BY InitRingInv, <1>2, PTL DEF Spec

\* The offsets of aesd_circular_buffer stay indices of its entry array and
\* cb_size a uint32_t, for every number of slots and every width.
THEOREM TypeCorrect == Spec => []TypeOK
  BY RingInvariant, PTL DEF RingInv

\* The live slots always hold the newest entries in the order add_entry
\* received them.
THEOREM WindowTheorem == Spec => []WindowIsTail
  BY RingInvariant, PTL DEF RingInv

\* The running total that add_entry keeps in cb_size, on which aesd_llseek
\* relies for SEEK_END, counts the bytes of the ring modulo 2^IntBits after
\* any number of overwrites, also when sizes do not fit the int they pass
\* through or their sum does not fit the uint32_t.
THEOREM CbSizeTheorem == Spec => []CbSizeExact
  BY RingInvariant, PTL DEF RingInv

-----------------------------------------------------------------------------
\* The bytes before the k-th live entry, counted from the oldest one, are
\* the distance between the two in the stream.
LEMMA StreamPositions ==
  ASSUME RingInv, ~IsEmpty(buffer), NEW pre, Prefix(buffer, pre)
  PROVE  /\ \A k \in Live : start[SlotOf(buffer, k)] = start[buffer.out_offs] + pre[k]
         /\ Held = pre[Count(buffer)]
  <1> DEFINE n == Count(buffer)
             out == buffer.out_offs
             At(k) == start[SlotOf(buffer, k)]
             S == {k \in Nat : k \in 0 .. n - 1 => At(k) = start[out] + pre[k]}
  <1>1. Offsets(buffer) /\ Sized(buffer)
    BY DEF RingInv, TypeOK, FullMeansMet, Ring, Offsets, Sized
  <1>2. n \in Nat /\ n - 1 \in 0 .. n - 1
    BY <1>1, CountInRange
  <1>3. out \in Slots /\ start[out] \in Nat /\ SlotOf(buffer, 0) = out
    BY <1>1, NextSlot DEF RingInv, TypeOK, Offsets
  <1>4. \A k \in 0 .. n - 1 :
          /\ pre[k] \in Nat
          /\ pre[k + 1] = pre[k] + buffer.entry[SlotOf(buffer, k)].size
          /\ buffer.entry[SlotOf(buffer, k)].size \in Nat
    BY <1>1, LiveSlot
  <1>5. \A k \in 0 .. n - 1 :
          At(k) + buffer.entry[SlotOf(buffer, k)].size =
            IF k = n - 1 THEN total ELSE At(k + 1)
    BY DEF RingInv, WindowIsTail, Live
  <1>6. 0 \in S
    BY <1>3 DEF Prefix
  <1> HIDE DEF n, At
  <1>7. ASSUME NEW k \in Nat, k \in S PROVE k + 1 \in S
    <2> SUFFICES ASSUME k + 1 \in 0 .. n - 1
                 PROVE  At(k + 1) = start[out] + pre[k + 1]
      OBVIOUS
    <2>1. k \in 0 .. n - 1 /\ k # n - 1
      BY <1>2
    <2>2. At(k) = start[out] + pre[k]
      BY <1>7, <2>1
    <2>3. At(k) + buffer.entry[SlotOf(buffer, k)].size = At(k + 1)
      BY <1>5, <2>1
    <2> QED
      BY <1>3, <1>4, <2>1, <2>2, <2>3
  <1>8. \A k \in Nat : k \in S
    <2> HIDE DEF S
    <2> QED
      BY <1>6, <1>7, InductiveSet
  <1>9. \A k \in 0 .. n - 1 : At(k) = start[out] + pre[k]
    BY <1>2, <1>8
  <1>10. total = start[out] + pre[n]
    <2> DEFINE m == n - 1
               last == buffer.entry[SlotOf(buffer, m)].size
    <2>1. m \in 0 .. n - 1 /\ m = n - 1 /\ m + 1 = n
      BY <1>2
    <2>2. At(m) + last = total
      BY <1>5, <2>1
    <2>3. At(m) = start[out] + pre[m]
      BY <1>9, <2>1
    <2>4. pre[m] \in Nat /\ pre[m + 1] = pre[m] + last /\ last \in Nat
      BY <1>4, <2>1
    <2> HIDE DEF m, last
    <2>5. pre[n] = pre[m] + last
      BY <2>1, <2>4
    <2> QED
      BY <1>3, <2>2, <2>3, <2>4, <2>5
  <1>11. Held = total - start[out]
    BY DEF Held
  <1>12. pre[n] \in Nat
    BY <1>2 DEF Prefix, n
  <1> QED
    BY <1>3, <1>9, <1>10, <1>11, <1>12 DEF n, At, Live

\* A ring that satisfies the invariant answers every lookup correctly.
LEMMA FindAgrees ==
  ASSUME RingInv, NEW off \in SmallOffsets
  PROVE  FindAgreesWithStream(off)
  <1> DEFINE r == find_entry(buffer, off)
             n == Count(buffer)
  <1>1. Offsets(buffer) /\ Sized(buffer)
    BY DEF RingInv, TypeOK, FullMeansMet, Ring, Offsets, Sized
  <1>2. PICK pre : Prefix(buffer, pre)
    BY <1>1, PrefixExists
  <1>3. n \in Nat /\ (n = 0 <=> IsEmpty(buffer)) /\ pre[n] \in Nat
    BY <1>1, <1>2, CountInRange DEF Prefix
  <1>4. Held = pre[n]
    <2>1. CASE IsEmpty(buffer)
      BY <1>2, <1>3, <2>1 DEF Held, Prefix
    <2>2. CASE ~IsEmpty(buffer)
      BY <1>2, <2>2, StreamPositions
    <2> QED
      BY <2>1, <2>2
  <1>5. off \in Nat /\ off \in 0 .. 2^IntBits - 1
    BY PowersAssumption DEF SmallOffsets
  <1>6. CASE pre[n] <= off
    <2>1. r = NotFound
      BY <1>1, <1>2, <1>5, <1>6, FindMiss
    <2> HIDE DEF r
    <2>2. r.found = FALSE
      BY <2>1 DEF NotFound
    <2>3. ~(off < Held)
      BY <1>3, <1>4, <1>5, <1>6
    <2> QED
      BY <2>2, <2>3 DEF FindAgreesWithStream, r
  <1>7. CASE off < pre[n]
    <2>1. PICK k \in 0 .. n - 1 : pre[k] <= off /\ off < pre[k + 1]
      BY <1>1, <1>2, <1>5, <1>7, PrefixCovers
    <2> DEFINE i == SlotOf(buffer, k)
               size == buffer.entry[i].size
    <2>2. /\ i \in Slots /\ size \in Nat
          /\ pre[k] \in Nat /\ pre[k + 1] = pre[k] + size
          /\ ~IsEmpty(buffer)
      BY <1>1, <1>2, LiveSlot
    <2>3. size <= 2^(IntBits - 1)
      <3>1. buffer.entry[i] \in Entry \union {NoEntry}
        BY <2>2 DEF RingInv, EntriesAdded
      <3>2. CASE buffer.entry[i] \in Entry
        BY <3>2, EntryAssumption DEF Entry
      <3>3. CASE buffer.entry[i] = NoEntry
        BY <3>3, PowersAssumption DEF NoEntry
      <3> QED
        BY <3>1, <3>2, <3>3
    <2>4. r = [found |-> TRUE, slot |-> i, rel |-> off - pre[k]]
      BY <1>1, <1>2, <1>5, <2>1, <2>3, FindHit
    <2>5. start[i] = start[buffer.out_offs] + pre[k] /\ k \in Live
      BY <1>2, <2>1, <2>2, StreamPositions DEF Live
    <2>6. start[buffer.out_offs] \in Nat
      BY <1>1 DEF RingInv, TypeOK, Offsets
    <2> HIDE DEF i, size, r
    <2>7. r.found /\ r.slot = i /\ r.rel = off - pre[k]
      BY <2>4
    <2>8. off < Held
      BY <1>4, <1>7
    <2>9. r.slot \in {SlotOf(buffer, j) : j \in Live}
      BY <2>5, <2>7 DEF i
    <2>10. r.rel \in 0 .. buffer.entry[r.slot].size - 1
      BY <1>5, <2>1, <2>2, <2>7 DEF size
    <2>11. start[r.slot] + r.rel = start[buffer.out_offs] + off
      BY <1>5, <2>2, <2>5, <2>6, <2>7
    <2> QED
      BY <2>7, <2>8, <2>9, <2>10, <2>11 DEF FindAgreesWithStream, r
  <1> QED
    BY <1>3, <1>5, <1>6, <1>7

\* A ring that satisfies the invariant answers every seek correctly.
LEMMA SeekAgrees ==
  ASSUME RingInv, NEW cmd \in Nat, NEW off \in Nat
  PROVE  SeekAgreesWithStream(cmd, off)
  <1> DEFINE r == adjust_file_offset(buffer, cmd, off)
             i == SlotOf(buffer, cmd)
  <1>1. Offsets(buffer) /\ Sized(buffer)
    BY DEF RingInv, TypeOK, FullMeansMet, Ring, Offsets, Sized
  <1>2. PICK pre : Prefix(buffer, pre)
    BY <1>1, PrefixExists
  <1>3. r = IF IsEmpty(buffer) THEN [ok |-> TRUE, fpos |-> 0]
            ELSE IF cmd < Count(buffer) /\ buffer.entry[i].size >= off
                 THEN [ok |-> TRUE, fpos |-> pre[cmd] + off]
                 ELSE SeekFailed
    BY <1>1, <1>2, SeekResult
  <1>4. CASE IsEmpty(buffer)
    <2>1. cmd \notin Live
      BY <1>1, <1>4, CountInRange DEF Live
    <2> QED
      BY <1>4, <2>1 DEF SeekAgreesWithStream
  <1>5. CASE ~IsEmpty(buffer)
    <2>1. Count(buffer) \in Nat /\ (cmd \in Live <=> cmd < Count(buffer))
      BY <1>1, CountInRange DEF Live
    <2>2. CASE cmd \in Live /\ buffer.entry[i].size >= off
      <3>1. start[i] = start[buffer.out_offs] + pre[cmd]
        BY <1>2, <1>5, <2>2, StreamPositions
      <3>2. start[buffer.out_offs] \in Nat /\ pre[cmd] \in Nat
        BY <1>1, <1>2, <2>2, LiveSlot DEF RingInv, TypeOK, Offsets, Live
      <3>3. buffer.entry[i].size \in Nat
        BY <1>1, <1>2, <2>2, LiveSlot DEF Live
      <3> HIDE DEF i, r
      <3>4. r.ok = TRUE /\ r.fpos = pre[cmd] + off
        BY <1>3, <1>5, <2>1, <2>2
      <3>5. r.fpos = start[i] - start[buffer.out_offs] + off
        BY <3>1, <3>2, <3>4
      <3> QED
        BY <1>5, <2>2, <3>3, <3>4, <3>5 DEF SeekAgreesWithStream, i, r
    <2>3. CASE ~(cmd \in Live /\ buffer.entry[i].size >= off)
      <3> HIDE DEF r
      <3>1. r.ok = FALSE
        BY <1>3, <1>5, <2>1, <2>3 DEF SeekFailed
      <3>2. ~(cmd \in Live /\ off < buffer.entry[i].size)
        <4>1. cmd \in Live => buffer.entry[i].size \in Nat
          BY <1>1, <1>2, LiveSlot DEF Live
        <4> QED
          BY <2>3, <4>1
      <3> QED
        BY <1>5, <3>1, <3>2 DEF SeekAgreesWithStream, r
    <2> QED
      BY <2>2, <2>3
  <1> QED
    BY <1>4, <1>5

\* aesd_circular_buffer_find_entry_offset_for_fpos finds the entry and the
\* byte of every offset that an int can tell apart, and nothing beyond the
\* last byte, in every ring that calls of add_entry produce.
THEOREM FindTheorem == Spec => []FindCorrect
  <1>1. RingInv => FindCorrect
    BY FindAgrees DEF FindCorrect
  <1> QED
    BY <1>1, RingInvariant, PTL

\* aesd_adjust_file_offset accepts every seek to a byte of a live write and,
\* in a non-empty ring, refuses what names no live write or goes beyond the
\* end of one; the position it stores is that of the named byte.
THEOREM SeekTheorem == Spec => []SeekCorrect
  <1>1. RingInv => SeekCorrect
    <2>1. SeekCmds \subseteq Nat /\ SeekOffsets \subseteq Nat
      BY MaxOpsAssumption, EntryAssumption DEF SeekCmds, SeekOffsets
    <2> QED
      BY <2>1, SeekAgrees DEF SeekCorrect
  <1> QED
    BY <1>1, RingInvariant, PTL

\* cleanup_circulat_buffers frees the buffer of every live entry once, in
\* the order of the writes, and no other pointer.
THEOREM CleanupTheorem == Spec => []CleanupFreesWindow
  <1>1. RingInv => CleanupFreesWindow
    <2> SUFFICES ASSUME RingInv PROVE CleanupFreesWindow
      OBVIOUS
    <2>1. Offsets(buffer)
      BY DEF RingInv, TypeOK, FullMeansMet, Ring, Offsets
    <2> QED
      BY <2>1, CleanupResult DEF CleanupFreesWindow, FirstPtrs
  <1> QED
    BY <1>1, RingInvariant, PTL

-----------------------------------------------------------------------------
\* The ring implements the log of the last MaxOps entries: whatever the
\* offsets, a call of add_entry appends to what a reader sees and drops the
\* oldest entry exactly when MaxOps entries are held.
THEOREM RingImplementsLog == Spec => LogSpec
  <1> DEFINE E == [buffptr : Ptrs \union {NULL}, size : Nat]
  <1>1. Init => Log!Init
    <2> SUFFICES ASSUME Init PROVE Contents(buffer) = << >>
      BY DEF Log!Init
    <2>1. Count(buffer) = 0
      BY DEF Init, EmptyRing, Count
    <2> QED
      BY <2>1 DEF Contents
  <1>2. ASSUME RingInv, [Next]_vars
        PROVE  [Log!Next]_(Contents(buffer))
    <2>1. CASE UNCHANGED vars
      BY <2>1 DEF vars, Contents, Count, SlotOf
    <2>2. ASSUME NEW e \in Entry, Add(e)
          PROVE  Log!Add(e)
      <3>1. buffer' = add_entry(buffer, e)
        BY <2>2 DEF Add
      <3>2. Offsets(buffer) /\ buffer.entry \in [Slots -> E]
        BY <1>2 DEF Offsets, RingInv, TypeOK, FullMeansMet, Ring
      <3>3. e \in E
        BY EntryAssumption DEF Entry
      <3> HIDE DEF E
      <3>4. Len(Contents(buffer)) = MaxOps <=> buffer.full
        BY <3>2, ContentsIsSeq, CountInRange
      <3>5. Contents(buffer)' = Contents(add_entry(buffer, e))
        BY <3>1 DEF Contents, Count, SlotOf
      <3>6. CASE ~buffer.full
        <4>1. Contents(add_entry(buffer, e)) = Append(Contents(buffer), e)
          BY <3>2, <3>3, <3>6, ContentsAddToRoom
        <4> QED
          BY <3>4, <3>5, <3>6, <4>1 DEF Log!Add
      <3>7. CASE buffer.full
        <4>1. Contents(add_entry(buffer, e)) = Append(Tail(Contents(buffer)), e)
          BY <3>2, <3>3, <3>7, ContentsAddToFull
        <4> QED
          BY <3>4, <3>5, <3>7, <4>1 DEF Log!Add
      <3> QED
        BY <3>6, <3>7
    <2> QED
      BY <1>2, <2>1, <2>2 DEF Next, Log!Next
  <1> QED
    BY <1>1, <1>2, RingInvariant, PTL DEF Spec, LogSpec, Log!Spec

=============================================================================
