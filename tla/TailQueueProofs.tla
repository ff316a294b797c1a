-------------------------- MODULE TailQueueProofs ---------------------------
(***************************************************************************)
(* TAILQ_INSERT_TAIL and TAILQ_REMOVE maintain the links of a queue, for   *)
(* queues of any length.                                                   *)
(***************************************************************************)
EXTENDS TailQueue, TLAPS

\* The links of a queue whose elements are taken from Elems.
Links(Elems) ==
  [next : [Elems \union {HEAD} -> Elems \union {NONE}],
   prev : [Elems \union {HEAD} -> Elems \union {HEAD, NONE}]]

Distinct(s) == \A i, j \in DOMAIN s : s[i] = s[j] => i = j

-----------------------------------------------------------------------------
\* TAILQ_INIT makes the links of an empty queue.
THEOREM InitRepresents ==
  ASSUME NEW Elems, HEAD \notin Elems, NONE \notin Elems, HEAD # NONE
  PROVE  /\ TAILQ_INIT(Elems) \in Links(Elems)
         /\ Represents(TAILQ_INIT(Elems), << >>)
BY DEF TAILQ_INIT, Links, Represents, TAILQ_FIRST

\* TAILQ_INSERT_TAIL of an element that is not in the queue puts it at the
\* end: the old last element and tqh_last point to it, the others are as
\* they were.
THEOREM InsertTailRepresents ==
  ASSUME NEW Elems, HEAD \notin Elems, NONE \notin Elems, HEAD # NONE,
         NEW q \in Links(Elems), NEW s \in Seq(Elems), Distinct(s), Represents(q, s),
         NEW elm \in Elems, \A i \in DOMAIN s : s[i] # elm
  PROVE  /\ TAILQ_INSERT_TAIL(q, elm) \in Links(Elems)
         /\ Distinct(Append(s, elm))
         /\ Represents(TAILQ_INSERT_TAIL(q, elm), Append(s, elm))
<1> DEFINE p == TAILQ_INSERT_TAIL(q, elm)
           t == Append(s, elm)
           last == q.prev[HEAD]
           n == Len(s)
<1>1. /\ n \in Nat /\ DOMAIN s = 1 .. n /\ \A i \in 1 .. n : s[i] \in Elems
      /\ Len(t) = n + 1 /\ t[n + 1] = elm /\ \A i \in 1 .. n : t[i] = s[i]
      /\ t \in Seq(Elems) /\ t # << >> /\ DOMAIN t = 1 .. n + 1
      /\ s = << >> <=> n = 0
      OBVIOUS
<1>2. last = IF n = 0 THEN HEAD ELSE s[n]
      BY <1>1 DEF Represents
<1>3. last \in Elems \union {HEAD} /\ last # elm
      BY <1>1, <1>2
<1>4. /\ p.next = [q.next EXCEPT ![elm] = NONE, ![last] = elm]
      /\ p.prev = [q.prev EXCEPT ![elm] = last, ![HEAD] = elm]
      BY DEF TAILQ_INSERT_TAIL
<1>5. p \in Links(Elems)
      BY <1>3 DEF TAILQ_INSERT_TAIL, Links
<1>6. Distinct(t)
      BY <1>1 DEF Distinct
<1>7. /\ p.next[elm] = NONE /\ p.next[last] = elm
      /\ p.prev[elm] = last /\ p.prev[HEAD] = elm
      /\ \A x \in Elems \union {HEAD} : x \notin {elm, last} => p.next[x] = q.next[x]
      /\ \A x \in Elems : x # elm => p.prev[x] = q.prev[x]
      BY <1>3, <1>4 DEF Links
<1> HIDE DEF p, t, last, n
<1>8. p.next[HEAD] = t[1]
  <2>1. CASE n = 0
        BY <1>1, <1>2, <1>7, <2>1
  <2>2. CASE n # 0
    <3>1. last # HEAD /\ HEAD # elm
          BY <1>1, <1>2, <2>2
    <3>2. p.next[HEAD] = q.next[HEAD]
          BY <1>7, <3>1
    <3>3. q.next[HEAD] = s[1] /\ t[1] = s[1]
          BY <1>1, <2>2 DEF Represents, TAILQ_FIRST
    <3> QED BY <3>2, <3>3
  <2> QED BY <2>1, <2>2
<1>9. ASSUME NEW i \in 1 .. n + 1
      PROVE  /\ p.next[t[i]] = IF i = n + 1 THEN NONE ELSE t[i + 1]
             /\ p.prev[t[i]] = IF i = 1 THEN HEAD ELSE t[i - 1]
  <2>1. CASE i = n + 1
        BY <1>1, <1>2, <1>7, <2>1
  <2>2. CASE i # n + 1
    <3>1. i \in 1 .. n /\ t[i] = s[i] /\ s[i] \in Elems /\ s[i] # elm
          BY <1>1, <2>2
    <3>2. /\ q.next[s[i]] = IF i = n THEN NONE ELSE s[i + 1]
          /\ q.prev[s[i]] = IF i = 1 THEN HEAD ELSE s[i - 1]
          BY <1>1, <3>1 DEF Represents, n
    <3>3. p.prev[s[i]] = q.prev[s[i]]
          BY <1>7, <3>1
    <3>4. CASE i = n
          BY <1>1, <1>2, <1>7, <3>1, <3>2, <3>3, <3>4
    <3>5. CASE i # n
      <4>1. s[i] # last
            BY <1>1, <1>2, <3>1, <3>5 DEF Distinct
      <4>2. p.next[s[i]] = q.next[s[i]]
            BY <1>7, <3>1, <4>1
      <4> QED BY <1>1, <3>1, <3>2, <3>3, <3>5, <4>2
    <3> QED BY <3>4, <3>5
  <2> QED BY <2>1, <2>2
<1>10. Represents(p, t)
  BY <1>1, <1>7, <1>8, <1>9 DEF Represents, TAILQ_FIRST
<1> QED BY <1>5, <1>6, <1>10 DEF p, t

-----------------------------------------------------------------------------
\* Where an element of a queue is, and what is left when it is taken out.
LEMMA WithoutElement ==
  ASSUME NEW Elems, NEW s \in Seq(Elems), Distinct(s), NEW k \in DOMAIN s
  PROVE  Without(s, s[k]) = [i \in 1 .. Len(s) - 1 |-> s[IF i < k THEN i ELSE i + 1]]
<1>1. (CHOOSE j \in DOMAIN s : s[j] = s[k]) = k
      BY DEF Distinct
<1> QED BY <1>1 DEF Without

LEMMA WithoutRange ==
  ASSUME NEW Elems, NEW s \in Seq(Elems), Distinct(s), NEW k \in DOMAIN s
  PROVE  LET t == Without(s, s[k])
         IN  {t[i] : i \in DOMAIN t} = {s[i] : i \in DOMAIN s} \ {s[k]}
<1> DEFINE t == Without(s, s[k])
           n == Len(s)
           at(i) == IF i < k THEN i ELSE i + 1
<1>1. /\ n \in Nat /\ DOMAIN s = 1 .. n /\ k \in 1 .. n
      /\ \A i, j \in 1 .. n : s[i] = s[j] => i = j
      BY DEF Distinct
<1>2. t = [i \in 1 .. n - 1 |-> s[at(i)]]
      BY WithoutElement
<1>3. \A i \in 1 .. n - 1 : at(i) \in 1 .. n /\ at(i) # k
      BY <1>1
<1>4. \A j \in 1 .. n : j # k => \E i \in 1 .. n - 1 : at(i) = j
  <2> SUFFICES ASSUME NEW j \in 1 .. n, j # k
               PROVE  \E i \in 1 .. n - 1 : at(i) = j
      OBVIOUS
  <2>1. CASE j < k
        BY <1>1, <2>1
  <2>2. CASE j > k
    <3>1. j - 1 \in 1 .. n - 1 /\ at(j - 1) = j
          BY <1>1, <2>2
    <3> QED BY <3>1
  <2> QED BY <1>1, <2>1, <2>2
<1> HIDE DEF t, n, at
<1>5. DOMAIN t = 1 .. n - 1 /\ \A i \in 1 .. n - 1 : t[i] = s[at(i)]
      BY <1>2
<1>6. \A i \in 1 .. n - 1 : t[i] \in {s[j] : j \in 1 .. n} \ {s[k]}
      BY <1>1, <1>3, <1>5
<1>7. \A j \in 1 .. n : s[j] # s[k] => \E i \in 1 .. n - 1 : s[j] = t[i]
      BY <1>1, <1>4, <1>5
<1>8. {t[i] : i \in DOMAIN t} \subseteq {s[i] : i \in DOMAIN s} \ {s[k]}
      BY <1>1, <1>5, <1>6
<1>9. {s[i] : i \in DOMAIN s} \ {s[k]} \subseteq {t[i] : i \in DOMAIN t}
      BY <1>1, <1>5, <1>7
<1> QED BY <1>8, <1>9 DEF t

\* TAILQ_REMOVE of an element of the queue, the first, the last or the only
\* one too, connects its neighbours and leaves no link to it.
THEOREM RemoveRepresents ==
  ASSUME NEW Elems, HEAD \notin Elems, NONE \notin Elems, HEAD # NONE,
         NEW q \in Links(Elems), NEW s \in Seq(Elems), Distinct(s), Represents(q, s),
         NEW k \in DOMAIN s
  PROVE  LET p == Unlink(TAILQ_REMOVE(q, s[k]), s[k])
             t == Without(s, s[k])
         IN  /\ p \in Links(Elems)
             /\ t \in Seq(Elems)
             /\ Distinct(t)
             /\ \A i \in DOMAIN t : t[i] # s[k]
             /\ Represents(p, t)
<1> DEFINE elm == s[k]
           p == Unlink(TAILQ_REMOVE(q, elm), elm)
           t == Without(s, elm)
           n == Len(s)
           nx == q.next[elm]
           pv == q.prev[elm]
           at(i) == IF i < k THEN i ELSE i + 1
<1>1. /\ n \in Nat /\ DOMAIN s = 1 .. n /\ k \in 1 .. n
      /\ \A i \in 1 .. n : s[i] \in Elems
      /\ elm \in Elems /\ elm # HEAD
      OBVIOUS
<1>2. /\ nx = IF k = n THEN NONE ELSE s[k + 1]
      /\ pv = IF k = 1 THEN HEAD ELSE s[k - 1]
      BY <1>1 DEF Represents
<1>3. nx # elm /\ pv # elm /\ nx \in Elems \union {NONE} /\ pv \in Elems \union {HEAD}
      BY <1>1, <1>2 DEF Distinct
<1>4. p \in Links(Elems)
      BY <1>1, <1>3 DEF Unlink, TAILQ_REMOVE, Links
<1>5. /\ \A x \in Elems \union {HEAD} :
           x # elm => p.next[x] = IF x = pv THEN nx ELSE q.next[x]
      /\ \A x \in Elems \union {HEAD} :
           x # elm => p.prev[x] = IF x = (IF nx # NONE THEN nx ELSE HEAD) THEN pv ELSE q.prev[x]
      BY <1>1, <1>3 DEF Unlink, TAILQ_REMOVE, Links
<1>6. t = [i \in 1 .. n - 1 |-> s[at(i)]]
      BY WithoutElement
<1>7. \A i \in 1 .. n - 1 : at(i) \in 1 .. n /\ at(i) # k
      BY <1>1
<1>8. q.next[HEAD] = s[1] /\ q.prev[HEAD] = s[n]
  <2>1. s # << >>
        BY <1>1
  <2> QED BY <2>1 DEF Represents, TAILQ_FIRST
<1>9. \A i \in 1 .. n : /\ q.next[s[i]] = IF i = n THEN NONE ELSE s[i + 1]
                        /\ q.prev[s[i]] = IF i = 1 THEN HEAD ELSE s[i - 1]
      BY <1>1 DEF Represents
<1>10. \A i, j \in 1 .. n : s[i] = s[j] => i = j
      BY <1>1 DEF Distinct
<1> HIDE DEF p, t, n, nx, pv
<1>11. \A i \in 1 .. n - 1 : s[at(i)] \in Elems
      BY <1>1, <1>7
<1> HIDE DEF at
<1>12. /\ n - 1 \in Nat /\ t \in Seq(Elems) /\ Len(t) = n - 1 /\ DOMAIN t = 1 .. n - 1
       /\ \A i \in 1 .. n - 1 : t[i] = s[at(i)] /\ t[i] \in Elems
      BY <1>1, <1>6, <1>11
<1>13. t = << >> <=> n = 1
      BY <1>1, <1>12
<1>14. \A i \in 1 .. n - 1 : t[i] # elm
      BY <1>1, <1>7, <1>10, <1>12
<1>15. Distinct(t)
  <2> SUFFICES ASSUME NEW i \in 1 .. n - 1, NEW j \in 1 .. n - 1, t[i] = t[j]
               PROVE  i = j
      BY <1>12 DEF Distinct
  <2>1. at(i) = at(j)
        BY <1>7, <1>10, <1>12
  <2> QED BY <1>1, <2>1 DEF at
<1> USE DEF at
<1> HIDE DEF elm
<1>16. p.next[HEAD] = IF t = << >> THEN NONE ELSE t[1]
  <2>1. CASE k = 1
        BY <1>1, <1>2, <1>5, <1>12, <1>13, <2>1
  <2>2. CASE k # 1
    <3>1. HEAD # pv /\ HEAD # elm
          BY <1>1, <1>2, <2>2
    <3>2. p.next[HEAD] = s[1]
          BY <1>5, <1>8, <3>1
    <3> QED BY <1>1, <1>12, <1>13, <2>2, <3>2
  <2> QED BY <2>1, <2>2
<1>17. p.prev[HEAD] = IF t = << >> THEN HEAD ELSE t[n - 1]
  <2>1. CASE k = n
    <3>1. p.prev[HEAD] = pv
          BY <1>1, <1>2, <1>5, <2>1
    <3> QED BY <1>1, <1>2, <1>12, <1>13, <2>1, <3>1
  <2>2. CASE k # n
    <3>1. nx # NONE /\ nx # HEAD
          BY <1>1, <1>2, <2>2
    <3>2. p.prev[HEAD] = s[n]
          BY <1>1, <1>5, <1>8, <3>1
    <3> QED BY <1>1, <1>12, <1>13, <2>2, <3>2
  <2> QED BY <2>1, <2>2
<1>18. ASSUME NEW i \in 1 .. n - 1
       PROVE  p.next[t[i]] = IF i = n - 1 THEN NONE ELSE t[i + 1]
  <2>1. p.next[t[i]] = IF t[i] = pv THEN nx ELSE q.next[t[i]]
        BY <1>5, <1>12, <1>14
  <2>2. t[i] = s[at(i)] /\ at(i) \in 1 .. n
        BY <1>7, <1>12
  <2>3. CASE i = k - 1
    <3>1. t[i] = pv
          BY <1>1, <1>2, <2>2, <2>3
    <3> QED BY <1>1, <1>2, <1>12, <1>13, <2>1, <2>3, <3>1
  <2>4. CASE i # k - 1
    <3>1. t[i] # pv
          BY <1>1, <1>2, <1>10, <2>2, <2>4
    <3>2. p.next[t[i]] = IF at(i) = n THEN NONE ELSE s[at(i) + 1]
          BY <1>9, <2>1, <2>2, <3>1
    <3> QED BY <1>1, <1>12, <1>13, <2>4, <3>2
  <2> QED BY <2>3, <2>4
<1>19. ASSUME NEW i \in 1 .. n - 1
       PROVE  p.prev[t[i]] = IF i = 1 THEN HEAD ELSE t[i - 1]
  <2>1. p.prev[t[i]] = IF t[i] = (IF nx # NONE THEN nx ELSE HEAD) THEN pv ELSE q.prev[t[i]]
        BY <1>5, <1>12, <1>14
  <2>2. t[i] = s[at(i)] /\ at(i) \in 1 .. n /\ t[i] \in Elems
        BY <1>7, <1>12
  <2>3. CASE i = k
    <3>1. t[i] = nx /\ nx # NONE
          BY <1>1, <1>2, <2>2, <2>3
    <3> QED BY <1>1, <1>2, <1>12, <1>13, <2>1, <2>3, <3>1
  <2>4. CASE i # k
    <3>1. t[i] # (IF nx # NONE THEN nx ELSE HEAD)
          BY <1>1, <1>2, <1>10, <2>2, <2>4
    <3>2. p.prev[t[i]] = IF at(i) = 1 THEN HEAD ELSE s[at(i) - 1]
          BY <1>9, <2>1, <2>2, <3>1
    <3> QED BY <1>1, <1>12, <1>13, <2>4, <3>2
  <2> QED BY <2>3, <2>4
<1>20. Represents(p, t)
  BY <1>12, <1>13, <1>16, <1>17, <1>18, <1>19 DEF Represents, TAILQ_FIRST
<1> QED BY <1>4, <1>12, <1>14, <1>15, <1>20 DEF p, t, elm

=============================================================================
