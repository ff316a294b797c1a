------------------------- MODULE AesdPacketsProofs --------------------------
(***************************************************************************)
(* The properties of AesdPackets, for any number of connections, whatever  *)
(* their clients send and however reads split it: what the answers contain *)
(* and what the device stores.                                             *)
(***************************************************************************)
EXTENDS AesdPackets, SequenceTheorems, WellFoundedInduction, TLAPS

-----------------------------------------------------------------------------
(***************************************************************************)
(* Induction for a set instead of a predicate, as in RingLemmas.           *)
(***************************************************************************)
LEMMA Induction ==
  ASSUME NEW S, 0 \in S, \A n \in Nat : n \in S => n + 1 \in S
  PROVE  \A n \in Nat : n \in S
  <1> DEFINE R == {ss \in Nat \X Nat : ss[1] < ss[2]}
             T == Nat \ S
  <1> SUFFICES ASSUME T # {} PROVE FALSE
    OBVIOUS
  <1>1. IsWellFoundedOn(R, Nat)
    BY NatLessThanWellFounded DEF OpToRel
  <1>2. PICK m \in T : \A k \in T : ~(<<k, m>> \in R)
    <2> HIDE DEF R
    <2> QED
      BY <1>1, WFMin
  <1>3. m # 0 /\ m - 1 \in Nat /\ (m - 1) + 1 = m /\ <<m - 1, m>> \in R
    OBVIOUS
  <1>4. m - 1 \in S
    BY <1>2, <1>3
  <1> QED
    BY <1>3, <1>4

-----------------------------------------------------------------------------
(***************************************************************************)
(* The contents of the device and the offsets of the writes in them.       *)
(***************************************************************************)

\* Names that the provers leave alone.
Strings == Seq(Bytes)
Cat(s, t) == s \o t

LEMMA CatProperties ==
  ASSUME NEW s \in Strings, NEW t \in Strings
  PROVE  /\ Cat(s, t) \in Strings
         /\ Len(s) \in Nat /\ Len(t) \in Nat /\ Len(Cat(s, t)) = Len(s) + Len(t)
         /\ \A i \in 1 .. Len(s) : Cat(s, t)[i] = s[i]
         /\ \A i \in 1 .. Len(t) : Cat(s, t)[Len(s) + i] = t[i]
  <1>1. Len(s) \in Nat /\ Len(t) \in Nat
    BY LenProperties DEF Strings
  <1>2. /\ s \o t \in Strings /\ Len(s \o t) = Len(s) + Len(t)
        /\ \A i \in 1 .. Len(s) + Len(t) :
             (s \o t)[i] = IF i <= Len(s) THEN s[i] ELSE t[i - Len(s)]
    BY ConcatProperties DEF Strings
  <1> DEFINE u == s \o t
  <1> HIDE DEF u
  <1>3. /\ u \in Strings /\ Len(u) = Len(s) + Len(t)
        /\ \A i \in 1 .. Len(s) + Len(t) : u[i] = IF i <= Len(s) THEN s[i] ELSE t[i - Len(s)]
    BY <1>2 DEF u
  <1>4. \A i \in 1 .. Len(s) : u[i] = s[i]
    BY <1>1, <1>3
  <1>5. ASSUME NEW i \in 1 .. Len(t) PROVE u[Len(s) + i] = t[i]
    <2>1. Len(s) + i \in 1 .. Len(s) + Len(t) /\ ~(Len(s) + i <= Len(s)) /\ (Len(s) + i) - Len(s) = i
      BY <1>1
    <2> QED
      BY <1>3, <2>1
  <1>6. u = Cat(s, t)
    BY DEF u, Cat
  <1> QED
    BY <1>1, <1>3, <1>4, <1>5, <1>6

LEMMA CatLength ==
  ASSUME NEW s \in Strings, NEW t \in Strings, NEW u, u = Cat(s, t)
  PROVE  /\ Len(s) \in Nat /\ Len(t) \in Nat /\ Len(u) \in Nat /\ Len(u) = Len(s) + Len(t)
         /\ \A i \in 1 .. Len(s) : u[i] = s[i]
         /\ \A i \in 1 .. Len(t) : Len(s) + i \in 1 .. Len(u) /\ u[Len(s) + i] = t[i]
  <1>1. /\ Len(s) \in Nat /\ Len(t) \in Nat /\ Len(u) = Len(s) + Len(t)
    BY CatProperties
  <1>2. \A i \in 1 .. Len(s) : u[i] = s[i]
    BY CatProperties
  <1>3. \A i \in 1 .. Len(t) : u[Len(s) + i] = t[i]
    BY CatProperties
  <1>4. \A i \in 1 .. Len(t) : Len(s) + i \in 1 .. Len(u)
    BY <1>1
  <1> QED
    BY <1>1, <1>2, <1>3, <1>4

\* f[n] is the concatenation of the first n elements of s, for n up to N.
Flat(s, N, f) ==
  /\ f \in [0 .. N -> Strings]
  /\ f[0] = << >>
  /\ \A n \in 1 .. N : f[n] = Cat(f[n - 1], s[n])

LEMMA FlatExtends ==
  ASSUME NEW s, NEW n \in Nat, NEW f, Flat(s, n, f), s[n + 1] \in Strings
  PROVE  \E g : Flat(s, n + 1, g) /\ g[n + 1] = Cat(f[n], s[n + 1])
  <1> DEFINE g == [i \in 0 .. n + 1 |-> IF i <= n THEN f[i] ELSE Cat(f[n], s[n + 1])]
  <1>1. f \in [0 .. n -> Strings] /\ f[0] = << >> /\ \A i \in 1 .. n : f[i] = Cat(f[i - 1], s[i])
    BY DEF Flat
  <1>2. Cat(f[n], s[n + 1]) \in Strings
    BY <1>1, CatProperties
  <1>3. /\ g \in [0 .. n + 1 -> Strings] /\ g[n + 1] = Cat(f[n], s[n + 1])
        /\ \A i \in 0 .. n : g[i] = f[i]
    BY <1>1, <1>2
  <1> HIDE DEF g
  <1>4. ASSUME NEW i \in 1 .. n + 1 PROVE g[i] = Cat(g[i - 1], s[i])
    <2>1. CASE i = n + 1
      BY <1>3, <2>1
    <2>2. CASE i # n + 1
      <3>1. i \in 1 .. n /\ i \in 0 .. n /\ i - 1 \in 0 .. n
        BY <2>2
      <3> QED
        BY <1>1, <1>3, <3>1
    <2> QED
      BY <2>1, <2>2
  <1>5. Flat(s, n + 1, g)
    BY <1>1, <1>3, <1>4 DEF Flat
  <1> QED
    BY <1>3, <1>5

LEMMA FlatExists ==
  ASSUME NEW s, NEW N \in Nat, \A i \in 1 .. N : s[i] \in Strings
  PROVE  \E f : Flat(s, N, f)
  <1> DEFINE S == {n \in Nat : n <= N => \E f : Flat(s, n, f)}
  <1>1. 0 \in S
    <2> DEFINE f == [i \in 0 .. 0 |-> << >>]
    <2>1. << >> \in Strings
      BY EmptySeq DEF Strings
    <2>2. Flat(s, 0, f)
      BY <2>1 DEF Flat
    <2> QED
      BY <2>2
  <1>2. ASSUME NEW n \in Nat, n \in S PROVE n + 1 \in S
    <2>1. CASE n + 1 <= N
      <3>1. PICK f : Flat(s, n, f)
        BY <1>2, <2>1
      <3>2. s[n + 1] \in Strings
        BY <2>1
      <3>3. \E g : Flat(s, n + 1, g)
        BY <3>1, <3>2, FlatExtends
      <3> QED
        BY <3>3
    <2>2. CASE ~(n + 1 <= N)
      BY <2>2
    <2> QED
      BY <2>1, <2>2
  <1>3. \A n \in Nat : n \in S
    <2> HIDE DEF S
    <2> QED
      BY <1>1, <1>2, Induction
  <1> QED
    BY <1>3

\* The recursive definition in FlattenSeq.
Flatten(s, N, h) == h = [i \in 1 .. N |-> IF i = 1 THEN s[i] ELSE Cat(h[i - 1], s[i])]

LEMMA FlattenUnique ==
  ASSUME NEW s, NEW N \in Nat, N # 0, s[1] \in Strings, NEW f, Flat(s, N, f),
         NEW h, Flatten(s, N, h)
  PROVE  h[N] = f[N]
  <1> DEFINE S == {n \in Nat : n + 1 <= N => h[n + 1] = f[n + 1]}
  <1>1. f[0] = << >> /\ \A n \in 1 .. N : f[n] = Cat(f[n - 1], s[n])
    BY DEF Flat
  <1>2. \A i \in 1 .. N : h[i] = IF i = 1 THEN s[i] ELSE Cat(h[i - 1], s[i])
    BY DEF Flatten
  <1>3. f[1] = s[1]
    <2>1. f[1] = Cat(<< >>, s[1])
      BY <1>1
    <2>2. << >> \o s[1] = s[1]
      BY ConcatEmptySeq DEF Strings
    <2> QED
      BY <2>1, <2>2 DEF Cat
  <1>4. 0 \in S
    BY <1>2, <1>3
  <1>5. ASSUME NEW n \in Nat, n \in S PROVE n + 1 \in S
    <2>1. CASE (n + 1) + 1 <= N
      <3> DEFINE m == (n + 1) + 1
      <3>1. m \in 1 .. N /\ m # 1 /\ m - 1 = n + 1
        BY <2>1
      <3>2. h[m - 1] = f[m - 1]
        BY <1>5, <2>1, <3>1
      <3> HIDE DEF m
      <3>3. h[m] = Cat(h[m - 1], s[m]) /\ f[m] = Cat(f[m - 1], s[m])
        BY <1>1, <1>2, <3>1
      <3>4. h[m] = f[m]
        BY <3>2, <3>3
      <3> QED
        BY <3>4 DEF m
    <2>2. CASE ~((n + 1) + 1 <= N)
      BY <2>2
    <2> QED
      BY <2>1, <2>2
  <1>6. \A n \in Nat : n \in S
    <2> HIDE DEF S
    <2> QED
      BY <1>4, <1>5, Induction
  <1>7. N - 1 \in Nat /\ (N - 1) + 1 = N /\ N <= N
    OBVIOUS
  <1>8. N - 1 \in S
    BY <1>6, <1>7
  <1> QED
    BY <1>7, <1>8

\* FlattenSeq is the concatenation of all elements.
LEMMA FlattenIsFlat ==
  ASSUME NEW s \in Seq(Strings), NEW f, Flat(s, Len(s), f)
  PROVE  FlattenSeq(s) = f[Len(s)]
  <1>1. Len(s) \in Nat /\ \A i \in 1 .. Len(s) : s[i] \in Strings
    BY LenProperties, ElementOfSeq
  <1>2. CASE Len(s) = 0
    <2>1. s = << >>
      BY <1>2, EmptySeq
    <2>2. FlattenSeq(s) = << >>
      BY <1>2, <2>1 DEF FlattenSeq
    <2> QED
      BY <1>2, <2>2 DEF Flat
  <1>3. CASE Len(s) # 0
    <2> DEFINE N == Len(s)
               g == [i \in 1 .. N |-> f[i]]
               h == CHOOSE h : Flatten(s, N, h)
    <2>1. FlattenSeq(s) = h[N]
      BY <1>3 DEF FlattenSeq, Flatten, Cat
    <2>2. 1 \in 1 .. N /\ s[1] \in Strings
      BY <1>1, <1>3
    <2>3. Flatten(s, N, g)
      <3> HIDE DEF N
      <3>1. /\ f[0] = << >> /\ \A n \in 1 .. N : f[n] = Cat(f[n - 1], s[n])
            /\ N \in Nat
        BY <1>1 DEF Flat, N
      <3>2. f[1] = s[1]
        <4>1. f[1] = Cat(<< >>, s[1])
          BY <2>2, <3>1
        <4>2. << >> \o s[1] = s[1]
          BY <2>2, ConcatEmptySeq DEF Strings
        <4> QED
          BY <4>1, <4>2 DEF Cat
      <3>3. \A i \in 1 .. N : i # 1 => i - 1 \in 1 .. N
        BY <3>1
      <3>4. \A i \in 1 .. N : f[i] = IF i = 1 THEN s[i] ELSE Cat(g[i - 1], s[i])
        BY <3>1, <3>2, <3>3
      <3>5. \A i \in 1 .. N : g[i] = f[i]
        OBVIOUS
      <3>6. g = [i \in 1 .. N |-> g[i]]
        OBVIOUS
      <3> HIDE DEF g
      <3> QED
        BY <3>4, <3>5, <3>6 DEF Flatten
    <2> HIDE DEF g
    <2>4. Flatten(s, N, h)
      BY <2>3
    <2> HIDE DEF h
    <2>5. h[N] = f[N]
      BY <1>1, <1>3, <2>2, <2>4, FlattenUnique
    <2> QED
      BY <2>1, <2>5
  <1> QED
    BY <1>2, <1>3

\* The concatenations get longer, each the beginning of the next.
Begins(s, t) == Len(s) <= Len(t) /\ \A i \in 1 .. Len(s) : t[i] = s[i]

LEMMA BeginsTransitive ==
  ASSUME NEW s, NEW t, NEW u, Len(s) \in Nat, Len(t) \in Nat, Len(u) \in Nat,
         Begins(s, t), Begins(t, u)
  PROVE  Begins(s, u)
BY DEF Begins

LEMMA FlatGrows ==
  ASSUME NEW s, NEW N \in Nat, \A i \in 1 .. N : s[i] \in Strings,
         NEW f, Flat(s, N, f), NEW k \in 0 .. N
  PROVE  Begins(f[k], f[N])
  <1> DEFINE S == {d \in Nat : k + d <= N => Begins(f[k], f[k + d])}
  <1>1. f \in [0 .. N -> Strings] /\ \A n \in 1 .. N : f[n] = Cat(f[n - 1], s[n])
    BY DEF Flat
  <1>2. \A n \in 0 .. N : Len(f[n]) \in Nat
    BY <1>1, CatProperties
  <1>3. 0 \in S
    BY <1>2 DEF Begins
  <1>4. ASSUME NEW d \in Nat, d \in S PROVE d + 1 \in S
    <2>1. CASE k + (d + 1) <= N
      <3> DEFINE n == k + (d + 1)
      <3>1. n \in 1 .. N /\ n - 1 = k + d /\ n - 1 \in 0 .. N /\ k \in 0 .. N /\ k + d <= N
        BY <2>1
      <3>2. Begins(f[k], f[n - 1])
        BY <1>4, <3>1
      <3> HIDE DEF n
      <3>3. f[n] = Cat(f[n - 1], s[n]) /\ f[n - 1] \in Strings /\ s[n] \in Strings
        BY <1>1, <3>1
      <3>4. Begins(f[n - 1], f[n]) /\ Len(f[n]) \in Nat
        <4> DEFINE a == f[n - 1]
                   b == s[n]
                   c == f[n]
        <4> HIDE DEF a, b, c
        <4>0. a \in Strings /\ b \in Strings /\ c = Cat(a, b)
          BY <3>3 DEF a, b, c
        <4>1. Len(a) \in Nat /\ Len(b) \in Nat /\ Len(c) = Len(a) + Len(b) /\ Len(c) \in Nat
          BY <4>0, CatLength
        <4>2. \A i \in 1 .. Len(a) : c[i] = a[i]
          BY <4>0, CatLength
        <4>3. Begins(a, c)
          BY <4>1, <4>2 DEF Begins
        <4> QED
          BY <4>1, <4>3 DEF a, c
      <3>5. Len(f[n - 1]) \in Nat /\ Len(f[k]) \in Nat
        BY <1>2, <3>1
      <3>6. Begins(f[k], f[n])
        BY <3>2, <3>4, <3>5, BeginsTransitive
      <3> QED
        BY <3>6 DEF n
    <2>2. CASE ~(k + (d + 1) <= N)
      BY <2>2
    <2> QED
      BY <2>1, <2>2
  <1>5. \A d \in Nat : d \in S
    <2> HIDE DEF S
    <2> QED
      BY <1>3, <1>4, Induction
  <1>6. N - k \in Nat /\ k + (N - k) = N
    OBVIOUS
  <1>7. N - k \in S
    BY <1>5, <1>6
  <1> QED
    BY <1>6, <1>7

\* Appending to the log appends to the contents.
LEMMA FlattenAppend ==
  ASSUME NEW s \in Seq(Strings), NEW x \in Strings
  PROVE  FlattenSeq(Append(s, x)) = Cat(FlattenSeq(s), x)
  <1> DEFINE N == Len(s)
             t == Append(s, x)
  <1>1. /\ N \in Nat /\ t \in Seq(Strings) /\ Len(t) = N + 1 /\ t[N + 1] = x
        /\ \A i \in 1 .. N : t[i] = s[i] /\ s[i] \in Strings
    BY AppendProperties, LenProperties, ElementOfSeq
  <1> HIDE DEF t, N
  <1>2. PICK f : Flat(s, N, f)
    BY <1>1, FlatExists
  <1>3. Flat(t, N, f)
    BY <1>1, <1>2 DEF Flat
  <1>4. PICK g : Flat(t, N + 1, g) /\ g[N + 1] = Cat(f[N], x)
    BY <1>1, <1>3, FlatExtends
  <1>5. FlattenSeq(s) = f[N]
    BY <1>2, FlattenIsFlat DEF N
  <1>6. FlattenSeq(t) = g[N + 1]
    BY <1>1, <1>4, FlattenIsFlat
  <1> QED
    BY <1>4, <1>5, <1>6 DEF t

\* The recursive definition in Offset of AesdDevice.
Sums(s, N, h) == h = [n \in 0 .. N |-> IF n = 0 THEN 0 ELSE h[n - 1] + Len(s[n])]

LEMMA SumsOfFlat ==
  ASSUME NEW s, NEW N \in Nat, \A i \in 1 .. N : s[i] \in Strings, NEW f, Flat(s, N, f)
  PROVE  Sums(s, N, [n \in 0 .. N |-> Len(f[n])])
  <1> DEFINE pre == [n \in 0 .. N |-> Len(f[n])]
  <1>1. f \in [0 .. N -> Strings] /\ f[0] = << >> /\ \A n \in 1 .. N : f[n] = Cat(f[n - 1], s[n])
    BY DEF Flat
  <1>2. \A n \in 0 .. N : pre[n] = Len(f[n])
    OBVIOUS
  <1>3. pre = [n \in 0 .. N |-> pre[n]]
    OBVIOUS
  <1> HIDE DEF pre
  <1>4. ASSUME NEW n \in 0 .. N PROVE pre[n] = IF n = 0 THEN 0 ELSE pre[n - 1] + Len(s[n])
    <2>1. CASE n = 0
      <3>1. Len(f[0]) = 0
        BY <1>1, EmptySeq
      <3> QED
        BY <1>2, <2>1, <3>1
    <2>2. CASE n # 0
      <3>1. n \in 1 .. N /\ n - 1 \in 0 .. N
        BY <2>2
      <3>2. f[n] = Cat(f[n - 1], s[n]) /\ f[n - 1] \in Strings /\ s[n] \in Strings
        BY <1>1, <3>1
      <3>3. Len(f[n]) = Len(f[n - 1]) + Len(s[n])
        <4> DEFINE a == f[n - 1]
                   b == s[n]
                   c == f[n]
        <4>1. a \in Strings /\ b \in Strings /\ c = Cat(a, b)
          BY <3>2
        <4> HIDE DEF a, b, c
        <4>2. Len(c) = Len(a) + Len(b)
          BY <4>1, CatLength
        <4> QED
          BY <4>2 DEF a, b, c
      <3> QED
        BY <1>2, <2>2, <3>1, <3>3
    <2> QED
      BY <2>1, <2>2
  <1>5. Sums(s, N, pre)
    BY <1>3, <1>4 DEF Sums
  <1> QED
    BY <1>5 DEF pre

LEMMA SumsUnique ==
  ASSUME NEW s, NEW N \in Nat, NEW g, NEW h, Sums(s, N, g), Sums(s, N, h)
  PROVE  \A k \in 0 .. N : h[k] = g[k]
  <1> DEFINE S == {k \in Nat : k <= N => h[k] = g[k]}
  <1>1. /\ \A n \in 0 .. N : g[n] = IF n = 0 THEN 0 ELSE g[n - 1] + Len(s[n])
        /\ \A n \in 0 .. N : h[n] = IF n = 0 THEN 0 ELSE h[n - 1] + Len(s[n])
    BY DEF Sums
  <1>2. 0 \in S
    BY <1>1
  <1>3. ASSUME NEW k \in Nat, k \in S PROVE k + 1 \in S
    <2>1. CASE k + 1 <= N
      <3>1. k + 1 \in 0 .. N /\ k + 1 # 0 /\ (k + 1) - 1 = k
        BY <2>1
      <3>2. h[k] = g[k]
        BY <1>3, <2>1
      <3>3. g[k + 1] = g[(k + 1) - 1] + Len(s[k + 1]) /\ h[k + 1] = h[(k + 1) - 1] + Len(s[k + 1])
        BY <1>1, <3>1
      <3>4. h[k + 1] = g[k + 1]
        BY <3>1, <3>2, <3>3
      <3> QED
        BY <3>4
    <2>2. CASE ~(k + 1 <= N)
      BY <2>2
    <2> QED
      BY <2>1, <2>2
  <1>4. \A k \in Nat : k \in S
    <2> HIDE DEF S
    <2> QED
      BY <1>2, <1>3, Induction
  <1> QED
    BY <1>4

\* Offset adds up the lengths of the writes.
LEMMA OffsetIsLength ==
  ASSUME log \in Seq(Strings), NEW f, Flat(log, Len(log), f)
  PROVE  \A k \in 0 .. Len(log) : Dev!Offset(k) = Len(f[k])
  <1> DEFINE N == Len(log)
             sum == CHOOSE h : Sums(log, N, h)
             pre == [n \in 0 .. N |-> Len(f[n])]
  <1>1. \A k \in 0 .. N : Dev!Offset(k) = sum[k]
    BY DEF Dev!Offset, Sums
  <1>2. N \in Nat /\ \A i \in 1 .. N : log[i] \in Strings
    BY LenProperties, ElementOfSeq
  <1>3. Sums(log, N, pre)
    BY <1>2, SumsOfFlat
  <1>4. \A k \in 0 .. N : pre[k] = Len(f[k])
    OBVIOUS
  <1> HIDE DEF pre
  <1>5. Sums(log, N, sum)
    BY <1>3
  <1> HIDE DEF sum
  <1>6. \A k \in 0 .. N : sum[k] = pre[k]
    BY <1>2, <1>3, <1>5, SumsUnique
  <1> QED
    BY <1>1, <1>4, <1>6

\* Where the writes are in the contents.
LEMMA ContentsPieces ==
  ASSUME log \in Seq(Strings)
  PROVE  /\ Contents \in Strings /\ Len(Contents) \in Nat
         /\ Dev!Size = Len(Contents)
         /\ \A k \in 0 .. Len(log) : Dev!Offset(k) \in 0 .. Len(Contents)
         /\ \A k \in 1 .. Len(log) :
              /\ Dev!Offset(k) = Dev!Offset(k - 1) + Len(log[k])
              /\ \A i \in 1 .. Len(log[k]) : Contents[Dev!Offset(k - 1) + i] = log[k][i]
  <1> DEFINE N == Len(log)
  <1>1. N \in Nat /\ \A i \in 1 .. N : log[i] \in Strings
    BY LenProperties, ElementOfSeq
  <1>2. PICK f : Flat(log, N, f)
    BY <1>1, FlatExists
  <1>3. Contents = f[N]
    BY <1>2, FlattenIsFlat DEF Contents
  <1>4. \A k \in 0 .. N : Dev!Offset(k) = Len(f[k])
    BY <1>2, OffsetIsLength
  <1>5. Dev!Size = Dev!Offset(N)
    BY DEF Dev!Size
  <1> HIDE DEF N
  <1>6. f \in [0 .. N -> Strings] /\ \A n \in 1 .. N : f[n] = Cat(f[n - 1], log[n])
    BY <1>2 DEF Flat
  <1>7. \A n \in 0 .. N : f[n] \in Strings /\ Len(f[n]) \in Nat
    BY <1>6, CatProperties
  <1>8. Contents \in Strings /\ Len(Contents) \in Nat /\ Dev!Size = Len(Contents)
    BY <1>1, <1>3, <1>4, <1>5, <1>7
  <1>9. \A k \in 0 .. N : Begins(f[k], Contents)
    BY <1>1, <1>2, <1>3, FlatGrows
  <1>10. \A k \in 0 .. N : Dev!Offset(k) \in 0 .. Len(Contents)
    BY <1>4, <1>7, <1>8, <1>9 DEF Begins
  <1>11. ASSUME NEW k \in 1 .. N
         PROVE  /\ Dev!Offset(k) = Dev!Offset(k - 1) + Len(log[k])
                /\ \A i \in 1 .. Len(log[k]) : Contents[Dev!Offset(k - 1) + i] = log[k][i]
    <2>1. k - 1 \in 0 .. N /\ k \in 0 .. N
      BY <1>1
    <2>2. f[k - 1] \in Strings /\ log[k] \in Strings /\ f[k] = Cat(f[k - 1], log[k])
      BY <1>1, <1>6, <2>1
    <2> DEFINE a == f[k - 1]
               b == log[k]
               c == f[k]
    <2>3. a \in Strings /\ b \in Strings /\ c = Cat(a, b) /\ Begins(c, Contents)
          /\ Dev!Offset(k) = Len(c) /\ Dev!Offset(k - 1) = Len(a)
      BY <1>4, <1>9, <2>1, <2>2
    <2> HIDE DEF a, b, c
    <2>4. Len(c) = Len(a) + Len(b)
      BY <2>3, CatLength
    <2>5. \A i \in 1 .. Len(b) : Len(a) + i \in 1 .. Len(c) /\ c[Len(a) + i] = b[i]
      BY <2>3, CatLength
    <2>6. \A i \in 1 .. Len(b) : Contents[Len(a) + i] = b[i]
      BY <2>3, <2>5 DEF Begins
    <2> QED
      BY <2>3, <2>4, <2>6 DEF a, b, c
  <1> QED
    BY <1>8, <1>10, <1>11 DEF N

-----------------------------------------------------------------------------
(***************************************************************************)
(* Types.                                                                  *)
(***************************************************************************)

PCs == {"read", "scan", "rewind", "answer", "send", "done"}

Shapes ==
  /\ log \in Seq(Strings) /\ Len(log) <= Capacity
  /\ pending = << >>
  /\ pos \in [Conns -> Nat]
  /\ reply \in [Conns -> Strings]
  /\ peer \in [Conns -> {"connected", "closed", "reset"}]
  /\ stream \in [Conns -> Streams]
  /\ unread \in [Conns -> Strings]
  /\ pc \in [Conns -> PCs]
  /\ buff \in [Conns -> Strings]
  /\ len \in [Conns -> Nat]
  /\ serving \in [Conns -> {"none", "process_packet", "seek_and_read"}]
  /\ answer \in [Conns -> Strings]
  /\ from \in [Conns -> Nat]
  /\ overwritten \in [Conns -> BOOLEAN]
  /\ overrun \in BOOLEAN

LEMMA EmptyString == << >> \in Strings /\ Len(<< >>) = 0
BY EmptySeq DEF Strings

LEMMA StringProperties ==
  ASSUME NEW s \in Strings
  PROVE  /\ Len(s) \in Nat /\ DOMAIN s = 1 .. Len(s)
         /\ \A i \in 1 .. Len(s) : s[i] \in Bytes
         /\ s # << >> => Len(s) # 0
  BY LenProperties, ElementOfSeq, EmptySeq DEF Strings

LEMMA StreamsAreStrings == Streams \subseteq Strings
  <1> SUFFICES ASSUME NEW s \in Streams PROVE s \in Strings
    OBVIOUS
  <1>1. s \in Seq(Range(s))
    BY AesdPacketsAssumption
  <1>2. Range(s) \subseteq Bytes
    BY DEF Bytes
  <1> QED
    BY <1>1, <1>2, SeqMonotonic DEF Strings

LEMMA SpecialBytes == {Newline, NUL, Command, Mangled} \subseteq Bytes /\ Junk \subseteq Bytes
BY DEF Bytes

\* A piece of a string.
LEMMA SubString ==
  ASSUME NEW s \in Strings, NEW m \in Nat, NEW n \in Nat, m <= n, n <= Len(s)
  PROVE  /\ SubSeq(s, m + 1, n) \in Strings
         /\ Len(SubSeq(s, m + 1, n)) = n - m
         /\ \A i \in 1 .. n - m : SubSeq(s, m + 1, n)[i] = s[m + i]
  <1>1. \A i \in m + 1 .. n : s[i] \in Bytes
    BY StringProperties
  <1>2. m + 1 \in Int /\ n \in Int
    OBVIOUS
  <1>3. /\ SubSeq(s, m + 1, n) \in Seq(Bytes)
        /\ Len(SubSeq(s, m + 1, n)) = IF m + 1 <= n THEN n - (m + 1) + 1 ELSE 0
        /\ \A i \in 1 .. n - (m + 1) + 1 : SubSeq(s, m + 1, n)[i] = s[(m + 1) + i - 1]
    BY <1>1, <1>2, SubSeqProperties
  <1> DEFINE t == SubSeq(s, m + 1, n)
  <1> HIDE DEF t
  <1>4. /\ t \in Seq(Bytes)
        /\ Len(t) = IF m + 1 <= n THEN n - (m + 1) + 1 ELSE 0
        /\ \A i \in 1 .. n - (m + 1) + 1 : t[i] = s[(m + 1) + i - 1]
    BY <1>3 DEF t
  <1>5. n - (m + 1) + 1 = n - m /\ \A i \in 1 .. n - m : (m + 1) + i - 1 = m + i
    OBVIOUS
  <1>6. Len(t) = n - m /\ \A i \in 1 .. n - m : t[i] = s[m + i]
    BY <1>4, <1>5
  <1> QED
    BY <1>4, <1>6 DEF t, Strings

\* The first n bytes of a string.
LEMMA StringHead ==
  ASSUME NEW s \in Strings, NEW n \in Nat, n <= Len(s)
  PROVE  /\ SubSeq(s, 1, n) \in Strings
         /\ Len(SubSeq(s, 1, n)) = n
         /\ \A i \in 1 .. n : SubSeq(s, 1, n)[i] = s[i]
  <1>1. 0 \in Nat /\ 0 <= n /\ 0 + 1 = 1 /\ n - 0 = n /\ \A i \in 1 .. n : 0 + i = i
    OBVIOUS
  <1> DEFINE z == 0
  <1>2. z \in Nat /\ z <= n /\ z + 1 = 1 /\ n - z = n /\ \A i \in 1 .. n : z + i = i
    BY <1>1
  <1> HIDE DEF z
  <1>3. /\ SubSeq(s, z + 1, n) \in Strings
        /\ Len(SubSeq(s, z + 1, n)) = n - z
        /\ \A i \in 1 .. n - z : SubSeq(s, z + 1, n)[i] = s[z + i]
    BY <1>2, SubString
  <1> QED
    BY <1>2, <1>3

\* What is behind the bytes that read has written.
LEMMA FillIsString ==
  ASSUME NEW c, NEW n \in Nat, NEW rest \in Fill(c, n)
  PROVE  /\ rest \in Strings /\ Len(rest) = n
         /\ buff[c] = << >> => \A i \in 1 .. n : rest[i] = NUL
  <1>1. rest \in [1 .. n -> Bytes]
    BY SpecialBytes DEF Fill
  <1>2. rest \in Strings /\ Len(rest) = n
    BY <1>1, SeqDef, LenProperties DEF Strings
  <1>3. buff[c] = << >> => \A i \in 1 .. n : rest[i] = NUL
    BY DEF Fill
  <1> QED
    BY <1>2, <1>3

\* The buffer and the rest of the stream after a read of n bytes.
LEMMA ReceiveStrings ==
  ASSUME Shapes, NEW c \in Conns, NEW n \in 1 .. MAX_BUF_SIZE, n <= Len(unread[c]),
         NEW rest \in Fill(c, MAX_BUF_SIZE - n),
         buff' = [buff EXCEPT ![c] = @ \o SubSeq(unread[c], 1, n) \o rest],
         unread' = [unread EXCEPT ![c] = SubSeq(@, n + 1, Len(@))]
  PROVE  /\ buff' \in [Conns -> Strings] /\ unread' \in [Conns -> Strings]
         /\ Len(buff'[c]) = Len(buff[c]) + MAX_BUF_SIZE
         /\ \A i \in 1 .. Len(buff[c]) : buff'[c][i] = buff[c][i]
         /\ \A i \in 1 .. n : buff'[c][Len(buff[c]) + i] = unread[c][i]
         /\ buff[c] = << >> => \A i \in n + 1 .. MAX_BUF_SIZE : buff'[c][i] = NUL
         /\ Len(unread'[c]) = Len(unread[c]) - n
         /\ \A i \in 1 .. Len(unread[c]) - n : unread'[c][i] = unread[c][n + i]
  <1> DEFINE b == buff[c]
             u == unread[c]
             data == SubSeq(u, 1, n)
             left == SubSeq(u, n + 1, Len(u))
             bd == Cat(b, data)
             all == Cat(bd, rest)
  <1>1. b \in Strings /\ u \in Strings /\ Len(u) \in Nat /\ MAX_BUF_SIZE \in Nat /\ Len(b) \in Nat
    BY StringProperties, AesdPacketsAssumption DEF Shapes
  <1>2. buff' = [buff EXCEPT ![c] = all] /\ unread' = [unread EXCEPT ![c] = left]
    BY DEF Cat
  <1>3. buff \in [Conns -> Strings] /\ unread \in [Conns -> Strings]
    BY DEF Shapes
  <1> HIDE DEF b, u
  <1>4. data \in Strings /\ Len(data) = n /\ \A i \in 1 .. n : data[i] = u[i]
    <2>1. 0 \in Nat /\ n \in Nat /\ 0 <= n /\ n <= Len(u) /\ 0 + 1 = 1 /\ n - 0 = n
      BY <1>1 DEF u
    <2>2. /\ SubSeq(u, 0 + 1, n) \in Strings
          /\ Len(SubSeq(u, 0 + 1, n)) = n - 0
          /\ \A i \in 1 .. n - 0 : SubSeq(u, 0 + 1, n)[i] = u[0 + i]
      BY <1>1, <2>1, SubString
    <2> QED
      BY <2>1, <2>2
  <1>5. left \in Strings /\ Len(left) = Len(u) - n /\ \A i \in 1 .. Len(u) - n : left[i] = u[n + i]
    <2>1. n \in Nat /\ n <= Len(u) /\ Len(u) <= Len(u)
      BY <1>1 DEF u
    <2> QED
      BY <1>1, <2>1, SubString
  <1>6. /\ rest \in Strings /\ Len(rest) = MAX_BUF_SIZE - n
        /\ b = << >> => \A i \in 1 .. MAX_BUF_SIZE - n : rest[i] = NUL
    <2>1. MAX_BUF_SIZE - n \in Nat
      BY <1>1
    <2> QED
      BY <2>1, FillIsString DEF b
  <1> HIDE DEF data, left
  <1>7. /\ bd \in Strings /\ Len(bd) = Len(b) + n
        /\ \A i \in 1 .. Len(b) : bd[i] = b[i]
        /\ \A i \in 1 .. n : bd[Len(b) + i] = data[i]
    BY <1>1, <1>4, CatProperties
  <1> HIDE DEF bd
  <1>8. /\ all \in Strings /\ Len(all) = Len(bd) + Len(rest)
        /\ \A i \in 1 .. Len(bd) : all[i] = bd[i]
        /\ \A i \in 1 .. Len(rest) : all[Len(bd) + i] = rest[i]
    BY <1>6, <1>7, CatProperties
  <1> HIDE DEF all
  <1>9. /\ Len(all) = Len(b) + MAX_BUF_SIZE
        /\ \A i \in 1 .. Len(b) : all[i] = b[i]
    BY <1>1, <1>6, <1>7, <1>8
  <1>10. ASSUME NEW i \in 1 .. n PROVE all[Len(b) + i] = u[i]
    <2>1. Len(b) + i \in 1 .. Len(bd)
      BY <1>1, <1>7
    <2> QED
      BY <1>4, <1>7, <1>8, <2>1
  <1>11. ASSUME b = << >>, NEW i \in n + 1 .. MAX_BUF_SIZE PROVE all[i] = NUL
    <2>1. Len(b) = 0
      BY <1>11, EmptyString
    <2> DEFINE j == i - n
    <2>2. j \in 1 .. MAX_BUF_SIZE - n /\ Len(bd) + j = i /\ j \in 1 .. Len(rest)
      BY <1>1, <1>6, <1>7, <2>1
    <2> HIDE DEF j
    <2> QED
      BY <1>6, <1>8, <1>11, <2>2
  <1>12. buff'[c] = all /\ unread'[c] = left
    BY <1>2, <1>3
  <1>13. buff' \in [Conns -> Strings] /\ unread' \in [Conns -> Strings]
    BY <1>2, <1>3, <1>5, <1>8
  <1> QED
    BY <1>5, <1>9, <1>10, <1>11, <1>12, <1>13 DEF b, u

LEMMA AfterStrtokIsString ==
  ASSUME NEW b \in Strings
  PROVE  AfterStrtok(b) \in Strings /\ Len(AfterStrtok(b)) = Len(b)
  <1>1. Len(b) \in Nat /\ DOMAIN b = 1 .. Len(b) /\ \A i \in 1 .. Len(b) : b[i] \in Bytes
    BY StringProperties
  <1>2. AfterStrtok(b) \in [1 .. Len(b) -> Bytes]
    BY <1>1, SpecialBytes DEF AfterStrtok
  <1> QED
    BY <1>1, <1>2, SeqDef, LenProperties DEF Strings

LEMMA InitShapes == Init => Shapes
  <1> SUFFICES ASSUME Init PROVE Shapes
    OBVIOUS
  <1>1. log = << >> /\ log \in Seq(Strings) /\ Len(log) = 0 /\ Capacity \in Nat
    BY EmptySeq, AesdPacketsAssumption DEF Init, Dev!Init
  <1>2. /\ pending = << >> /\ pos \in [Conns -> Nat] /\ reply \in [Conns -> Strings]
    BY EmptyString DEF Init, Dev!Init
  <1>3. unread \in [Conns -> Strings] /\ stream \in [Conns -> Streams]
    BY StreamsAreStrings DEF Init
  <1>4. /\ buff \in [Conns -> Strings] /\ answer \in [Conns -> Strings]
        /\ len \in [Conns -> Nat] /\ from \in [Conns -> Nat]
    BY EmptyString DEF Init
  <1>5. overwritten \in [Conns -> BOOLEAN]
    BY DEF Init
  <1>6. /\ peer \in [Conns -> {"connected", "closed", "reset"}] /\ pc \in [Conns -> PCs]
        /\ serving \in [Conns -> {"none", "process_packet", "seek_and_read"}]
        /\ overrun \in BOOLEAN
    BY DEF Init, PCs
  <1> QED
    BY <1>1, <1>2, <1>3, <1>4, <1>5, <1>6 DEF Shapes

\* What the calls of the device do to its variables.
LEMMA WriteFacts ==
  ASSUME Shapes, NEW c \in Conns, NEW n \in Newlines(c), Dev!Write(c, SubSeq(buff[c], 1, n))
  PROVE  LET data == SubSeq(buff[c], 1, n)
         IN  /\ n \in 1 .. Len(buff[c]) /\ buff[c][n] = Newline
             /\ data \in Strings /\ Len(data) = n /\ \A i \in 1 .. n : data[i] = buff[c][i]
             /\ log' = Append(IF Len(log) = Capacity THEN Tail(log) ELSE log, data)
             /\ pending' = << >>
             /\ pos' = [pos EXCEPT ![c] = @ + n]
             /\ reply' = reply
  <1> DEFINE data == SubSeq(buff[c], 1, n)
  <1>1. buff[c] \in Strings /\ len[c] \in Nat /\ pending = << >>
    BY DEF Shapes
  <1>2. n \in 1 .. Len(buff[c]) /\ buff[c][n] = Newline /\ Len(buff[c]) \in Nat
    BY <1>1, StringProperties DEF Newlines
  <1>3. data \in Strings /\ Len(data) = n /\ \A i \in 1 .. n : data[i] = buff[c][i]
    <2>1. 0 \in Nat /\ n \in Nat /\ 0 <= n /\ n <= Len(buff[c]) /\ 0 + 1 = 1 /\ n - 0 = n
      BY <1>2
    <2>2. /\ SubSeq(buff[c], 0 + 1, n) \in Strings
          /\ Len(SubSeq(buff[c], 0 + 1, n)) = n - 0
          /\ \A i \in 1 .. n - 0 : SubSeq(buff[c], 0 + 1, n)[i] = buff[c][0 + i]
      BY <1>1, <2>1, SubString
    <2> QED
      BY <2>1, <2>2
  <1>4. pending \o data = data
    BY <1>1, <1>3, ConcatEmptySeq DEF Strings
  <1> HIDE DEF data
  <1>5. Dev!Complete(data)
    <2>1. n \in DOMAIN data /\ data[n] = Newline
      BY <1>2, <1>3, StringProperties
    <2> QED
      BY <2>1 DEF Dev!Complete
  <1>6. Dev!Write(c, data)
    BY DEF data
  <1>7. /\ log' = Append(IF Len(log) = Capacity THEN Tail(log) ELSE log, data)
        /\ pending' = << >>
        /\ pos' = [pos EXCEPT ![c] = @ + Len(data)]
        /\ reply' = reply
    BY <1>4, <1>5, <1>6 DEF Dev!Write
  <1> QED
    BY <1>2, <1>3, <1>7 DEF data

LEMMA WriteLog ==
  ASSUME log \in Seq(Strings), Len(log) <= Capacity, NEW data \in Strings,
         log' = Append(IF Len(log) = Capacity THEN Tail(log) ELSE log, data)
  PROVE  /\ log' \in Seq(Strings) /\ Len(log') <= Capacity
         /\ Len(log') \in Nat /\ log'[Len(log')] = data
         /\ Len(log) # Capacity => Contents' = Cat(Contents, data)
  <1>1. Capacity \in Nat \ {0} /\ Len(log) \in Nat
    BY AesdPacketsAssumption, LenProperties
  <1>2. CASE Len(log) = Capacity
    <2>1. log # << >>
      BY <1>1, <1>2, EmptySeq
    <2>2. Tail(log) \in Seq(Strings) /\ Len(Tail(log)) = Len(log) - 1
      BY <2>1, HeadTailProperties
    <2>3. log' = Append(Tail(log), data)
      BY <1>2
    <2> QED
      BY <1>1, <1>2, <2>2, <2>3, AppendProperties
  <1>3. CASE Len(log) # Capacity
    <2>1. log' = Append(log, data)
      BY <1>3
    <2>2. /\ Append(log, data) \in Seq(Strings) /\ Len(Append(log, data)) = Len(log) + 1
          /\ Append(log, data)[Len(log) + 1] = data
      BY AppendProperties
    <2>3. Contents' = Cat(Contents, data)
      BY <2>1, FlattenAppend DEF Contents
    <2> QED
      BY <1>1, <1>3, <2>1, <2>2, <2>3
  <1> QED
    BY <1>2, <1>3

LEMMA RewindFacts ==
  ASSUME Shapes, NEW c \in Conns, Dev!Seek(c, 0, 0)
  PROVE  pos' = [pos EXCEPT ![c] = 0] /\ UNCHANGED << log, pending, reply >>
BY DEF Dev!Seek

LEMMA SeekToFacts ==
  ASSUME Shapes, NEW c \in Conns, Dev!SeekTo(c, seekto[1], seekto[2])
  PROVE  /\ pos' \in [Conns -> Nat]
         /\ pos'[c] \in 0 .. Len(Contents)
         /\ \A d \in Conns : d # c => pos'[d] = pos[d]
         /\ UNCHANGED << log, pending, reply >>
  <1> DEFINE cmd == seekto[1]
             offset == seekto[2]
             to == IF log = << >> THEN 0 ELSE Dev!Offset(cmd) + offset
  <1>1. /\ pos' = [pos EXCEPT ![c] = to]
        /\ UNCHANGED << log, pending, reply >>
        /\ \/ log = << >>
           \/ /\ cmd < Len(log)
              /\ offset < Len(log[cmd + 1]) \/ offset = Len(log[cmd + 1])
    BY DEF Dev!SeekTo, Dev!SeekAccepted, Dev!Within
  <1>2. log \in Seq(Strings) /\ Len(Contents) \in Nat
    BY ContentsPieces DEF Shapes
  <1>3. to \in 0 .. Len(Contents)
    <2>1. CASE log = << >>
      BY <1>2, <2>1
    <2>2. CASE log # << >>
      <3>1. cmd \in Nat /\ offset \in Nat /\ Len(log) \in Nat
        BY <1>2, AesdPacketsAssumption, LenProperties
      <3> DEFINE k == cmd + 1
      <3>2. k \in 1 .. Len(log) /\ k - 1 = cmd /\ k - 1 \in 0 .. Len(log) /\ k \in 0 .. Len(log)
        BY <1>1, <2>2, <3>1
      <3>3. offset < Len(log[k]) \/ offset = Len(log[k])
        BY <1>1, <2>2
      <3> HIDE DEF k, cmd, offset
      <3>4. log[k] \in Strings
        BY <1>2, <3>2, ElementOfSeq
      <3>5. /\ Dev!Offset(k) = Dev!Offset(k - 1) + Len(log[k])
            /\ Dev!Offset(k) \in 0 .. Len(Contents) /\ Dev!Offset(k - 1) \in 0 .. Len(Contents)
        BY <1>2, <3>2, ContentsPieces
      <3>6. Len(log[k]) \in Nat
        BY <3>4, StringProperties
      <3>7. Dev!Offset(k - 1) + offset \in 0 .. Len(Contents)
        BY <1>2, <3>1, <3>3, <3>5, <3>6
      <3> QED
        BY <2>2, <3>2, <3>7
    <2> QED
      BY <2>1, <2>2
  <1> HIDE DEF to
  <1> QED
    BY <1>1, <1>2, <1>3 DEF Shapes

-----------------------------------------------------------------------------
(***************************************************************************)
(* The inductive invariant.                                                *)
(***************************************************************************)

\* a is what is in s from position m to position n.
IsPiece(a, s, m, n) ==
  /\ m <= n /\ n <= Len(s)
  /\ Len(a) = n - m
  /\ \A i \in 1 .. n - m : a[i] = s[m + i]

\* The thread reads the stream in order.
UnreadIsRest(c) ==
  \E k \in 0 .. Len(stream[c]) : IsPiece(unread[c], stream[c], k, Len(stream[c]))

\* The scan is inside the buffer, which holds whole reads.
BufferShape(c) ==
  /\ Len(buff[c]) % MAX_BUF_SIZE = 0
  /\ buff[c] # << >> => MAX_BUF_SIZE <= Len(buff[c])
  /\ len[c] <= Len(buff[c])

\* The first m bytes of the first read came from the client, zeroes follow.
FirstBytes(c, m) ==
  /\ m <= Len(stream[c])
  /\ \A i \in 1 .. m : buff[c][i] = stream[c][i]
  /\ \A i \in m + 1 .. MAX_BUF_SIZE : buff[c][i] = NUL

\* Nobody overwrites them unless the client began with a seek command.
FirstRead(c) ==
  /\ buff[c] = << >> /\ pc[c] # "done" => unread[c] \in {stream[c], << >>}
  /\ buff[c] # << >> /\ stream[c][1] # Command => \E m \in 0 .. MAX_BUF_SIZE : FirstBytes(c, m)

BufferInv(c) == UnreadIsRest(c) /\ BufferShape(c) /\ FirstRead(c)

\* What was sent, and what has been read to be sent next, is what the device
\* holds between where the answer began and the position.
AnswerInv(c) ==
  /\ pc[c] # "send" => reply[c] = << >>
  /\ Answering(c) /\ ~overwritten[c]
       => IsPiece(Cat(answer[c], reply[c]), Contents, from[c], pos[c])

PacketInv == Shapes /\ \A c \in Conns : BufferInv(c) /\ AnswerInv(c)

-----------------------------------------------------------------------------
LEMMA PieceIsSubSeq ==
  ASSUME NEW a \in Strings, NEW s \in Strings, NEW m \in Nat, NEW n \in Nat, IsPiece(a, s, m, n)
  PROVE  a = SubSeq(s, m + 1, n)
  <1> DEFINE t == SubSeq(s, m + 1, n)
  <1>1. t \in Strings /\ Len(t) = n - m /\ \A i \in 1 .. n - m : t[i] = s[m + i]
    BY SubString DEF IsPiece
  <1> HIDE DEF t
  <1>2. Len(a) = Len(t) /\ \A i \in 1 .. Len(a) : a[i] = t[i]
    BY <1>1 DEF IsPiece
  <1>3. a = t
    BY <1>1, <1>2, SeqEqual DEF Strings
  <1> QED
    BY <1>3 DEF t

LEMMA SubSeqIsPiece ==
  ASSUME NEW s \in Strings, NEW m \in Nat, NEW n \in Nat, m <= n, n <= Len(s)
  PROVE  SubSeq(s, m + 1, n) \in Strings /\ IsPiece(SubSeq(s, m + 1, n), s, m, n)
BY SubString DEF IsPiece

LEMMA PieceEmpty ==
  ASSUME NEW s \in Strings, NEW m \in 0 .. Len(s)
  PROVE  IsPiece(<< >>, s, m, m)
BY EmptyString, StringProperties DEF IsPiece

LEMMA PieceCat ==
  ASSUME NEW a \in Strings, NEW b \in Strings, NEW s \in Strings,
         NEW m \in Nat, NEW n \in Nat, NEW k \in Nat,
         IsPiece(a, s, m, n), IsPiece(b, s, n, k)
  PROVE  IsPiece(Cat(a, b), s, m, k)
  <1> DEFINE u == Cat(a, b)
  <1>1. /\ Len(u) = Len(a) + Len(b) /\ Len(a) \in Nat /\ Len(b) \in Nat
        /\ \A i \in 1 .. Len(a) : u[i] = a[i]
        /\ \A i \in 1 .. Len(b) : u[Len(a) + i] = b[i]
    BY CatProperties
  <1> HIDE DEF u
  <1>2. /\ m <= n /\ n <= k /\ k <= Len(s) /\ Len(a) = n - m /\ Len(b) = k - n
        /\ \A i \in 1 .. n - m : a[i] = s[m + i]
        /\ \A i \in 1 .. k - n : b[i] = s[n + i]
    BY DEF IsPiece
  <1>3. Len(u) = k - m /\ m <= k
    BY <1>1, <1>2
  <1>4. ASSUME NEW i \in 1 .. k - m PROVE u[i] = s[m + i]
    <2>1. CASE i <= n - m
      BY <1>1, <1>2, <2>1
    <2>2. CASE ~(i <= n - m)
      <3> DEFINE j == i - (n - m)
      <3>1. j \in 1 .. k - n /\ j \in 1 .. Len(b) /\ Len(a) + j = i /\ n + j = m + i
        BY <1>2, <2>2
      <3> HIDE DEF j
      <3>2. u[Len(a) + j] = b[j] /\ b[j] = s[n + j]
        BY <1>1, <1>2, <3>1
      <3> QED
        BY <3>1, <3>2
    <2> QED
      BY <2>1, <2>2
  <1>5. IsPiece(u, s, m, k)
    BY <1>2, <1>3, <1>4 DEF IsPiece
  <1> QED
    BY <1>5 DEF u

\* What the device appends does not change what it held.
LEMMA PieceGrows ==
  ASSUME NEW a, NEW s \in Strings, NEW t \in Strings, NEW m \in Nat, NEW n \in Nat,
         IsPiece(a, s, m, n)
  PROVE  IsPiece(a, Cat(s, t), m, n)
  <1> DEFINE u == Cat(s, t)
  <1>1. /\ Len(u) = Len(s) + Len(t) /\ Len(s) \in Nat /\ Len(t) \in Nat
        /\ \A i \in 1 .. Len(s) : u[i] = s[i]
    BY CatProperties
  <1> HIDE DEF u
  <1>2. /\ m <= n /\ n <= Len(s) /\ Len(a) = n - m
        /\ \A i \in 1 .. n - m : a[i] = s[m + i]
    BY DEF IsPiece
  <1>3. \A i \in 1 .. n - m : m + i \in 1 .. Len(s)
    BY <1>1, <1>2
  <1>4. n <= Len(u) /\ \A i \in 1 .. n - m : a[i] = u[m + i]
    BY <1>1, <1>2, <1>3
  <1>5. IsPiece(a, u, m, n)
    BY <1>2, <1>4 DEF IsPiece
  <1> QED
    BY <1>5 DEF u

LEMMA CatEmpty ==
  ASSUME NEW s \in Strings
  PROVE  Cat(s, << >>) = s /\ Cat(<< >>, s) = s
BY ConcatEmptySeq DEF Strings, Cat

\* A read moves the position over what it returns.
LEMMA ReadFacts ==
  ASSUME Shapes, NEW c \in Conns, Dev!Read(c)
  PROVE  /\ pos' \in [Conns -> Nat] /\ reply' \in [Conns -> Strings]
         /\ \A d \in Conns : d # c => pos'[d] = pos[d] /\ reply'[d] = reply[d]
         /\ IsPiece(reply'[c], Contents, pos[c], pos'[c])
         /\ UNCHANGED << log, pending >>
  <1>1. PICK k \in 1 .. Len(log) :
          /\ Dev!Offset(k - 1) <= pos[c] /\ pos[c] < Dev!Offset(k)
          /\ reply' = [reply EXCEPT ![c] =
                         SubSeq(log[k], pos[c] - Dev!Offset(k - 1) + 1, Len(log[k]))]
          /\ pos' = [pos EXCEPT ![c] = Dev!Offset(k)]
          /\ UNCHANGED << log, pending >>
    BY DEF Dev!Read
  <1>2. log \in Seq(Strings) /\ Len(log) \in Nat /\ pos[c] \in Nat /\ pos \in [Conns -> Nat]
        /\ reply \in [Conns -> Strings]
    BY LenProperties DEF Shapes
  <1> DEFINE w == log[k]
             base == Dev!Offset(k - 1)
             to == Dev!Offset(k)
             m == pos[c] - base
             r == SubSeq(w, m + 1, Len(w))
  <1>3. /\ w \in Strings /\ Contents \in Strings /\ Len(Contents) \in Nat
        /\ to \in 0 .. Len(Contents) /\ base \in 0 .. Len(Contents) /\ to = base + Len(w)
        /\ \A i \in 1 .. Len(w) : Contents[base + i] = w[i]
    <2>1. k \in 0 .. Len(log) /\ k - 1 \in 0 .. Len(log)
      BY <1>2
    <2> QED
      BY <1>2, <2>1, ContentsPieces, ElementOfSeq
  <1>4. /\ base <= pos[c] /\ pos[c] < to
        /\ reply' = [reply EXCEPT ![c] = r] /\ pos' = [pos EXCEPT ![c] = to]
    BY <1>1
  <1> HIDE DEF w, base, to
  <1>5. Len(w) \in Nat
    BY <1>3, StringProperties
  <1>6. m \in Nat /\ m <= Len(w) /\ Len(w) <= Len(w)
    BY <1>2, <1>3, <1>4, <1>5
  <1> HIDE DEF m
  <1>7. r \in Strings /\ Len(r) = Len(w) - m /\ \A i \in 1 .. Len(w) - m : r[i] = w[m + i]
    BY <1>3, <1>5, <1>6, SubString
  <1> HIDE DEF r
  <1>8. /\ m \in Nat /\ base \in Nat /\ to \in Nat /\ Len(w) \in Nat /\ pos[c] \in Nat
        /\ m = pos[c] - base /\ Len(w) - m = to - pos[c]
    BY <1>2, <1>3, <1>5, <1>6 DEF m
  <1>9. ASSUME NEW i \in 1 .. to - pos[c] PROVE r[i] = Contents[pos[c] + i]
    <2> DEFINE p == pos[c]
               l == Len(w)
    <2>1. m + i \in 1 .. l /\ base + (m + i) = p + i /\ i \in 1 .. l - m
      <3>1. /\ m \in Nat /\ base \in Nat /\ to \in Nat /\ l \in Nat /\ p \in Nat
            /\ m = p - base /\ l - m = to - p /\ i \in 1 .. to - p
        BY <1>8
      <3> HIDE DEF p, l
      <3> QED
        BY <3>1
    <2>2. r[i] = w[m + i] /\ Contents[base + (m + i)] = w[m + i]
      BY <1>3, <1>7, <2>1
    <2> QED
      BY <2>1, <2>2
  <1>10. IsPiece(r, Contents, pos[c], to)
    <2>1. pos[c] <= to /\ to <= Len(Contents) /\ Len(r) = to - pos[c]
      BY <1>2, <1>3, <1>4, <1>7, <1>8
    <2> QED
      BY <1>9, <2>1 DEF IsPiece
  <1>11. /\ pos'[c] = to /\ reply'[c] = r
         /\ \A d \in Conns : d # c => pos'[d] = pos[d] /\ reply'[d] = reply[d]
         /\ pos' \in [Conns -> Nat] /\ reply' \in [Conns -> Strings]
    BY <1>2, <1>3, <1>4, <1>7
  <1> QED
    BY <1>1, <1>10, <1>11

\* One more read keeps the length of the buffer a multiple.
LEMMA ModAdd ==
  ASSUME NEW a \in Nat, NEW M \in Nat \ {0}, a % M = 0
  PROVE  (a + M) % M = 0
  <1> DEFINE q == a \div M
  <1>1. a = M * q /\ q \in Nat
    BY SMTT(20)
  <1> HIDE DEF q
  <1>2. a + M = M * (q + 1) + 0
    BY <1>1
  <1>3. \A b \in Nat, r \in 0 .. M - 1, p \in Nat : b = M * p + r => r = b % M
    BY SMTT(20)
  <1>4. a + M \in Nat /\ 0 \in 0 .. M - 1 /\ q + 1 \in Nat
    BY <1>1
  <1> QED
    BY <1>2, <1>3, <1>4

-----------------------------------------------------------------------------
(***************************************************************************)
(* What an action does not touch.                                          *)
(***************************************************************************)
LEMMA BufferKept ==
  ASSUME NEW d \in Conns, BufferInv(d), pc[d] = "done" => pc'[d] = "done",
         stream'[d] = stream[d], unread'[d] = unread[d], buff'[d] = buff[d], len'[d] = len[d]
  PROVE  BufferInv(d)'
BY DEF BufferInv, UnreadIsRest, BufferShape, FirstRead, FirstBytes, IsPiece

LEMMA AnswerKept ==
  ASSUME NEW d \in Conns, AnswerInv(d), log' = log, pc'[d] = pc[d], reply'[d] = reply[d],
         answer'[d] = answer[d], from'[d] = from[d], overwritten'[d] = overwritten[d],
         pos'[d] = pos[d]
  PROVE  AnswerInv(d)'
  <1>1. Contents' = Contents
    BY DEF Contents
  <1> QED
    BY <1>1 DEF AnswerInv, Answering, IsPiece

LEMMA NoAnswer ==
  ASSUME NEW d \in Conns, pc'[d] \notin {"answer", "send"}, reply'[d] = << >>
  PROVE  AnswerInv(d)'
BY DEF AnswerInv, Answering

-----------------------------------------------------------------------------
(***************************************************************************)
(* Every step preserves the types ...                                      *)
(***************************************************************************)
LEMMA ReceiveShapes ==
  ASSUME PacketInv, NEW c \in Conns, Leave(c) \/ Receive(c) \/ ReceiveError(c) \/ ReceiveEnd(c)
                                       \/ ScanEnd(c)
  PROVE  Shapes'
  <1> USE DEF PacketInv, Shapes, device, client, history, Goto, PCs
  <1>1. CASE Leave(c)
    <2>1. peer' \in [Conns -> {"connected", "closed", "reset"}] /\ unread' \in [Conns -> Strings]
      <3>1. CASE peer' = [peer EXCEPT ![c] = "closed"] /\ unread' = unread
        BY <3>1
      <3>2. CASE peer' = [peer EXCEPT ![c] = "reset"] /\ unread' = [unread EXCEPT ![c] = << >>]
        BY <3>2, EmptyString
      <3> QED
        BY <1>1, <3>1, <3>2 DEF Leave
    <2> QED
      BY <1>1, <2>1 DEF Leave
  <1>2. CASE Receive(c)
    <2>1. PICK n \in 1 .. MAX_BUF_SIZE :
            /\ n <= Len(unread[c])
            /\ \E rest \in Fill(c, MAX_BUF_SIZE - n) :
                 buff' = [buff EXCEPT ![c] = @ \o SubSeq(unread[c], 1, n) \o rest]
            /\ unread' = [unread EXCEPT ![c] = SubSeq(@, n + 1, Len(@))]
      BY <1>2 DEF Receive
    <2>2. PICK rest \in Fill(c, MAX_BUF_SIZE - n) :
            buff' = [buff EXCEPT ![c] = @ \o SubSeq(unread[c], 1, n) \o rest]
      BY <2>1
    <2> QED
      BY <1>2, <2>1, <2>2, ReceiveStrings DEF Receive
  <1>3. CASE ReceiveError(c)
    <2>1. PICK rest \in Fill(c, MAX_BUF_SIZE) : buff' = [buff EXCEPT ![c] = @ \o rest]
      BY <1>3 DEF ReceiveError
    <2>2. buff[c] \o rest \in Strings
      BY <2>1, FillIsString, CatProperties, AesdPacketsAssumption DEF Cat
    <2> QED
      BY <1>3, <2>1, <2>2 DEF ReceiveError
  <1>4. CASE ReceiveEnd(c)
    BY <1>4, EmptyString DEF ReceiveEnd, Cleanup
  <1>5. CASE ScanEnd(c)
    BY <1>5, StringProperties DEF ScanEnd
  <1> QED
    BY <1>1, <1>2, <1>3, <1>4, <1>5

LEMMA ServeShapes ==
  ASSUME PacketInv, NEW c \in Conns, WritePacket(c) \/ Rewind(c) \/ SeekCommand(c)
  PROVE  Shapes'
  <1> USE DEF PacketInv, Shapes, device, client, history, Goto, PCs
  <1>1. CASE WritePacket(c)
    <2>1. PICK n \in Newlines(c) :
            /\ len' = [len EXCEPT ![c] = n]
            /\ \/ /\ Dev!Write(c, SubSeq(buff[c], 1, n))
                  /\ overwritten' = [d \in Conns |-> overwritten[d]
                                       \/ (Answering(d) /\ Len(log) = Capacity)]
               \/ UNCHANGED << device, overwritten >>
      BY <1>1 DEF WritePacket
    <2>2. n \in Nat
      BY StringProperties DEF Newlines
    <2>3. /\ log' \in Seq(Strings) /\ Len(log') <= Capacity /\ pending' = << >>
          /\ pos' \in [Conns -> Nat] /\ reply' \in [Conns -> Strings]
      <3>1. CASE Dev!Write(c, SubSeq(buff[c], 1, n))
        <4>1. /\ pending' = << >> /\ reply' = reply /\ pos' = [pos EXCEPT ![c] = @ + n]
              /\ SubSeq(buff[c], 1, n) \in Strings
              /\ log' = Append(IF Len(log) = Capacity THEN Tail(log) ELSE log, SubSeq(buff[c], 1, n))
          BY <3>1, WriteFacts
        <4>2. log' \in Seq(Strings) /\ Len(log') <= Capacity
          BY <4>1, WriteLog
        <4> QED
          BY <2>2, <4>1, <4>2
      <3>2. CASE UNCHANGED device
        BY <3>2
      <3> QED
        BY <2>1, <3>1, <3>2
    <2>4. overwritten' \in [Conns -> BOOLEAN]
      <3>1. CASE UNCHANGED overwritten
        BY <3>1
      <3>2. CASE overwritten' = [d \in Conns |-> overwritten[d]
                                    \/ (Answering(d) /\ Len(log) = Capacity)]
        BY <3>2, Zenon
      <3> QED
        BY <2>1, <3>1, <3>2
    <2> QED
      BY <1>1, <2>1, <2>2, <2>3, <2>4 DEF WritePacket
  <1>2. CASE Rewind(c)
    <2>1. pos' = [pos EXCEPT ![c] = 0] /\ UNCHANGED << log, pending, reply >>
      BY <1>2, RewindFacts DEF Rewind
    <2> QED
      BY <1>2, <2>1, EmptyString DEF Rewind, AnswerFrom
  <1>3. CASE SeekCommand(c)
    <2>1. PICK n \in Newlines(c) : len' = [len EXCEPT ![c] = n]
      BY <1>3 DEF SeekCommand
    <2>2. n \in Nat
      BY StringProperties DEF Newlines
    <2>3. AfterStrtok(buff[c]) \in Strings
      BY AfterStrtokIsString
    <2>4. CASE UNCHANGED << device, serving, history, pc >>
      BY <1>3, <2>1, <2>2, <2>3, <2>4 DEF SeekCommand
    <2>5. CASE /\ Dev!SeekTo(c, seekto[1], seekto[2])
               /\ serving' = [serving EXCEPT ![c] = "seek_and_read"]
               /\ AnswerFrom(c, pos'[c])
               /\ pc' = [pc EXCEPT ![c] = "answer"]
      <3>1. pos' \in [Conns -> Nat] /\ UNCHANGED << log, pending, reply >>
        BY <2>5, SeekToFacts
      <3> QED
        BY <1>3, <2>1, <2>2, <2>3, <2>5, <3>1, EmptyString DEF SeekCommand, AnswerFrom
    <2> QED
      BY <1>3, <2>4, <2>5 DEF SeekCommand
  <1> QED
    BY <1>1, <1>2, <1>3

LEMMA AnswerShapes ==
  ASSUME PacketInv, NEW c \in Conns, ReadDevice(c) \/ AnswerEnd(c) \/ SendReply(c) \/ SendFails(c)
  PROVE  Shapes'
  <1> USE DEF PacketInv, Shapes, device, client, history, Goto, PCs
  <1>1. CASE ReadDevice(c)
    <2>1. /\ pos' \in [Conns -> Nat] /\ reply' \in [Conns -> Strings]
          /\ UNCHANGED << log, pending >>
      BY <1>1, ReadFacts DEF ReadDevice
    <2>2. overrun' \in BOOLEAN
      BY <1>1 DEF ReadDevice
    <2> QED
      BY <1>1, <2>1, <2>2 DEF ReadDevice
  <1>2. CASE AnswerEnd(c)
    BY <1>2, EmptyString DEF AnswerEnd, AnswerFrom
  <1>3. CASE SendReply(c)
    <2>1. answer[c] \o reply[c] \in Strings
      BY CatProperties DEF Cat
    <2> QED
      BY <1>3, <2>1, EmptyString DEF SendReply, Dev!ReadReturns
  <1>4. CASE SendFails(c)
    <2>1. /\ reply' \in [Conns -> Strings] /\ UNCHANGED << log, pending, pos >>
      BY <1>4, EmptyString DEF SendFails, Dev!ReadReturns
    <2>2. /\ buff' \in [Conns -> Strings] /\ len' \in [Conns -> Nat] /\ pc' \in [Conns -> PCs]
      <3>1. CASE Cleanup(c)
        BY <3>1, EmptyString DEF Cleanup
      <3>2. CASE pc' = [pc EXCEPT ![c] = "scan"] /\ UNCHANGED << buff, len >>
        BY <3>2
      <3> QED
        BY <1>4, <3>1, <3>2 DEF SendFails
    <2>3. /\ answer' \in [Conns -> Strings] /\ from' \in [Conns -> Nat]
          /\ overwritten' \in [Conns -> BOOLEAN]
      BY <1>4, EmptyString DEF SendFails, AnswerFrom
    <2> QED
      BY <1>4, <2>1, <2>2, <2>3 DEF SendFails
  <1> QED
    BY <1>1, <1>2, <1>3, <1>4

-----------------------------------------------------------------------------
(***************************************************************************)
(* ... what is known of the buffers ...                                    *)
(***************************************************************************)

\* The bytes of an emptied buffer.
LEMMA CleanupBuffer ==
  ASSUME PacketInv, NEW c \in Conns, Cleanup(c), UNCHANGED << stream, unread >>
  PROVE  \A d \in Conns : BufferInv(d)'
  <1> SUFFICES ASSUME NEW d \in Conns PROVE BufferInv(d)'
    OBVIOUS
  <1>1. BufferInv(d)
    BY DEF PacketInv
  <1>2. CASE d # c
    BY <1>1, <1>2, BufferKept DEF Cleanup, Goto, PacketInv, Shapes
  <1>3. CASE d = c
    <2>1. buff'[d] = << >> /\ len'[d] = 0 /\ pc'[d] = "done" /\ unread'[d] = unread[d]
          /\ stream'[d] = stream[d]
      BY <1>3 DEF Cleanup, Goto, PacketInv, Shapes
    <2>2. UnreadIsRest(d)'
      BY <1>1, <2>1 DEF BufferInv, UnreadIsRest
    <2>3. 0 % MAX_BUF_SIZE = 0
      BY AesdPacketsAssumption
    <2>4. BufferShape(d)' /\ FirstRead(d)'
      BY <2>1, <2>3, EmptyString DEF BufferShape, FirstRead
    <2> QED
      BY <2>2, <2>4 DEF BufferInv
  <1> QED
    BY <1>2, <1>3

\* A read appends MAX_BUF_SIZE bytes, the first read to nothing.
LEMMA GrowBuffer ==
  ASSUME PacketInv, NEW c \in Conns, pc[c] # "done",
         buff' \in [Conns -> Strings], Len(buff'[c]) = Len(buff[c]) + MAX_BUF_SIZE,
         \A i \in 1 .. Len(buff[c]) : buff'[c][i] = buff[c][i],
         len'[c] = len[c], stream'[c] = stream[c],
         NEW m \in 0 .. MAX_BUF_SIZE,
         buff[c] = << >> => FirstBytes(c, m)'
  PROVE  (BufferShape(c) /\ FirstRead(c))'
  <1> DEFINE M == MAX_BUF_SIZE
             n == Len(buff[c])
  <1>1. /\ M \in Nat \ {0} /\ buff[c] \in Strings /\ n \in Nat /\ len[c] \in Nat
        /\ buff'[c] # << >>
    BY AesdPacketsAssumption, StringProperties, EmptyString DEF PacketInv, Shapes
  <1>2. BufferShape(c) /\ FirstRead(c)
    BY DEF PacketInv, BufferInv
  <1>3. (n + M) % M = 0
    <2>1. n % M = 0
      BY <1>2 DEF BufferShape
    <2> HIDE DEF n, M
    <2> QED
      BY <1>1, <2>1, ModAdd
  <1>4. BufferShape(c)'
    <2>1. len[c] <= n
      BY <1>2 DEF BufferShape
    <2> DEFINE l == len[c]
    <2>2. l <= n + M /\ M <= n + M
      <3>1. l \in Nat /\ n \in Nat /\ M \in Nat /\ l <= n
        BY <1>1, <2>1
      <3> HIDE DEF l, n, M
      <3> QED
        BY <3>1
    <2>3. Len(buff'[c]) = n + M /\ len'[c] = l
      OBVIOUS
    <2>4. Len(buff'[c]) % M = 0 /\ M <= Len(buff'[c]) /\ len'[c] <= Len(buff'[c])
      <3> HIDE DEF l, n, M
      <3> QED
        BY <1>3, <2>2, <2>3
    <2> QED
      BY <2>4 DEF BufferShape
  <1>5. ASSUME stream[c][1] # Command PROVE \E k \in 0 .. M : FirstBytes(c, k)'
    <2>1. CASE buff[c] = << >>
      BY <2>1
    <2>2. CASE buff[c] # << >>
      <3>1. PICK k \in 0 .. M : FirstBytes(c, k)
        BY <1>2, <1>5, <2>2 DEF FirstRead
      <3>2. M <= n
        BY <1>2, <2>2 DEF BufferShape
      <3>3. \A i \in 1 .. M : i \in 1 .. n
        BY <1>1, <3>2
      <3>4. \A i \in 1 .. M : buff'[c][i] = buff[c][i]
        BY <3>3
      <3> HIDE DEF M, n
      <3>5. \A i \in 1 .. k : i \in 1 .. M
        BY <1>1
      <3>6. \A i \in k + 1 .. M : i \in 1 .. M
        BY <1>1
      <3>7. FirstBytes(c, k)'
        BY <3>1, <3>4, <3>5, <3>6 DEF FirstBytes, M
      <3> QED
        BY <3>7
    <2> QED
      BY <2>1, <2>2
  <1>6. FirstRead(c)'
    BY <1>1, <1>5 DEF FirstRead
  <1> QED
    BY <1>4, <1>6

LEMMA ReceiveBuffer ==
  ASSUME PacketInv, NEW c \in Conns, Receive(c)
  PROVE  BufferInv(c)'
  <1>1. PICK n \in 1 .. MAX_BUF_SIZE :
          /\ n <= Len(unread[c])
          /\ \E rest \in Fill(c, MAX_BUF_SIZE - n) :
               buff' = [buff EXCEPT ![c] = @ \o SubSeq(unread[c], 1, n) \o rest]
          /\ unread' = [unread EXCEPT ![c] = SubSeq(@, n + 1, Len(@))]
    BY DEF Receive
  <1>2. PICK rest \in Fill(c, MAX_BUF_SIZE - n) :
          buff' = [buff EXCEPT ![c] = @ \o SubSeq(unread[c], 1, n) \o rest]
    BY <1>1
  <1>3. /\ buff' \in [Conns -> Strings]
        /\ Len(buff'[c]) = Len(buff[c]) + MAX_BUF_SIZE
        /\ \A i \in 1 .. Len(buff[c]) : buff'[c][i] = buff[c][i]
        /\ \A i \in 1 .. n : buff'[c][Len(buff[c]) + i] = unread[c][i]
        /\ buff[c] = << >> => \A i \in n + 1 .. MAX_BUF_SIZE : buff'[c][i] = NUL
        /\ Len(unread'[c]) = Len(unread[c]) - n
        /\ \A i \in 1 .. Len(unread[c]) - n : unread'[c][i] = unread[c][n + i]
    BY <1>1, <1>2, ReceiveStrings DEF PacketInv
  <1>4. /\ pc[c] = "read" /\ len'[c] = len[c] /\ stream'[c] = stream[c]
        /\ stream[c] \in Strings /\ unread[c] \in Strings
        /\ MAX_BUF_SIZE \in Nat \ {0}
        /\ UnreadIsRest(c) /\ FirstRead(c)
    BY StreamsAreStrings, AesdPacketsAssumption
    DEF Receive, At, PacketInv, Shapes, BufferInv
  <1>5. Len(stream[c]) \in Nat /\ Len(unread[c]) \in Nat
    BY <1>4, StringProperties
  <1>6. UnreadIsRest(c)'
    <2>1. PICK k \in 0 .. Len(stream[c]) : IsPiece(unread[c], stream[c], k, Len(stream[c]))
      BY <1>4 DEF UnreadIsRest
    <2> DEFINE L == Len(stream[c])
               u == unread[c]
               v == unread'[c]
               s == stream[c]
    <2>a. Len(u) = L - k /\ \A i \in 1 .. L - k : u[i] = s[k + i]
      BY <2>1 DEF IsPiece
    <2>b. L \in Nat /\ k \in 0 .. L /\ n \in Nat /\ n >= 1 /\ n <= Len(u) /\ Len(u) \in Nat
      BY <1>1, <1>4, <1>5
    <2>c. Len(v) = Len(u) - n /\ \A i \in 1 .. Len(u) - n : v[i] = u[n + i]
      BY <1>3
    <2>2. /\ Len(u) = L - k /\ \A i \in 1 .. L - k : u[i] = s[k + i]
          /\ L \in Nat /\ k \in 0 .. L /\ n \in Nat /\ n >= 1 /\ n <= Len(u) /\ Len(u) \in Nat
          /\ Len(v) = Len(u) - n /\ \A i \in 1 .. Len(u) - n : v[i] = u[n + i]
      BY <2>a, <2>b, <2>c
    <2>3. L = Len(s) /\ s = stream'[c]
      BY <1>4
    <2> HIDE DEF L, u, v, s
    <2>4. k + n \in 0 .. L /\ Len(v) = L - (k + n) /\ k + n <= L /\ L <= L
      BY <2>2
    <2>5. ASSUME NEW i \in 1 .. L - (k + n) PROVE v[i] = s[(k + n) + i]
      <3>1. i \in 1 .. Len(u) - n /\ n + i \in 1 .. L - k /\ k + (n + i) = (k + n) + i
        BY <2>2
      <3>2. v[i] = u[n + i] /\ u[n + i] = s[k + (n + i)]
        BY <2>2, <3>1
      <3> QED
        BY <3>1, <3>2
    <2>6. IsPiece(v, s, k + n, L)
      BY <2>3, <2>4, <2>5 DEF IsPiece
    <2> QED
      BY <2>3, <2>4, <2>6 DEF UnreadIsRest, v, L, s
  <1>7. buff[c] = << >> => FirstBytes(c, n)'
    <2> SUFFICES ASSUME buff[c] = << >> PROVE FirstBytes(c, n)'
      OBVIOUS
    <2>1. Len(buff[c]) = 0
      BY EmptyString
    <2>2. unread[c] = stream[c]
      <3>1. unread[c] # << >>
        BY <1>1, EmptyString
      <3> QED
        BY <1>4, <3>1 DEF FirstRead
    <2>3. \A i \in 1 .. n : Len(buff[c]) + i = i
      BY <2>1
    <2>4. \A i \in 1 .. n : buff'[c][i] = stream[c][i]
      BY <1>3, <2>2, <2>3
    <2>5. n <= Len(stream[c]) /\ \A i \in n + 1 .. MAX_BUF_SIZE : buff'[c][i] = NUL
      BY <1>1, <1>3, <2>2
    <2> QED
      BY <1>4, <2>4, <2>5 DEF FirstBytes
  <1>8. n \in 0 .. MAX_BUF_SIZE /\ pc[c] # "done"
    BY <1>4
  <1>9. (BufferShape(c) /\ FirstRead(c))'
    BY <1>3, <1>4, <1>7, <1>8, GrowBuffer
  <1> QED
    BY <1>6, <1>9 DEF BufferInv

LEMMA ReceiveErrorBuffer ==
  ASSUME PacketInv, NEW c \in Conns, ReceiveError(c)
  PROVE  BufferInv(c)'
  <1>1. PICK rest \in Fill(c, MAX_BUF_SIZE) : buff' = [buff EXCEPT ![c] = Cat(@, rest)]
    BY DEF ReceiveError, Cat
  <1>2. /\ pc[c] = "read" /\ len'[c] = len[c] /\ stream'[c] = stream[c] /\ unread'[c] = unread[c]
        /\ buff \in [Conns -> Strings] /\ buff[c] \in Strings
        /\ MAX_BUF_SIZE \in Nat \ {0} /\ MAX_BUF_SIZE \in Nat
        /\ UnreadIsRest(c) /\ stream[c] \in Strings
    BY AesdPacketsAssumption, StreamsAreStrings
    DEF ReceiveError, At, PacketInv, Shapes, BufferInv
  <1>3. /\ rest \in Strings /\ Len(rest) = MAX_BUF_SIZE
        /\ buff[c] = << >> => \A i \in 1 .. MAX_BUF_SIZE : rest[i] = NUL
    BY <1>2, FillIsString
  <1>4. buff'[c] = Cat(buff[c], rest)
    BY <1>1, <1>2
  <1>5. /\ Cat(buff[c], rest) \in Strings
        /\ Len(buff'[c]) = Len(buff[c]) + MAX_BUF_SIZE
        /\ \A i \in 1 .. Len(buff[c]) : buff'[c][i] = buff[c][i]
    <2> DEFINE a == buff[c]
               z == buff'[c]
    <2>1. a \in Strings /\ rest \in Strings /\ z = Cat(a, rest)
      BY <1>2, <1>3, <1>4
    <2> HIDE DEF a, z
    <2>2. Cat(a, rest) \in Strings
      BY <2>1, CatProperties
    <2>3. Len(z) = Len(a) + Len(rest) /\ \A i \in 1 .. Len(a) : z[i] = a[i]
      BY <2>1, CatLength
    <2> QED
      BY <1>3, <2>2, <2>3 DEF a, z
  <1>6. buff' \in [Conns -> Strings]
    BY <1>1, <1>2, <1>5
  <1>7. buff[c] = << >> => FirstBytes(c, 0)'
    <2> SUFFICES ASSUME buff[c] = << >> PROVE FirstBytes(c, 0)'
      OBVIOUS
    <2>1. buff'[c] = rest
      BY <1>3, <1>4, CatEmpty
    <2>2. 0 <= Len(stream[c])
      BY <1>2, StringProperties
    <2> QED
      BY <1>2, <1>3, <2>1, <2>2 DEF FirstBytes
  <1>8. 0 \in 0 .. MAX_BUF_SIZE /\ pc[c] # "done"
    BY <1>2
  <1>9. (BufferShape(c) /\ FirstRead(c))'
    BY <1>2, <1>5, <1>6, <1>7, <1>8, GrowBuffer
  <1>10. UnreadIsRest(c)'
    BY <1>2 DEF UnreadIsRest
  <1> QED
    BY <1>9, <1>10 DEF BufferInv

\* A command in the buffer was sent by the client as the first thing.
LEMMA CommandWasSent ==
  ASSUME PacketInv, NEW c \in Conns, buff[c] # << >>, IsCommand(c)
  PROVE  stream[c][1] = Command
  <1> SUFFICES ASSUME stream[c][1] # Command PROVE FALSE
    OBVIOUS
  <1>1. PICK m \in 0 .. MAX_BUF_SIZE : FirstBytes(c, m)
    BY DEF PacketInv, BufferInv, FirstRead
  <1>2. MAX_BUF_SIZE \in Nat \ {0} /\ NUL # Command
    BY AesdPacketsAssumption
  <1>3. CASE m = 0
    BY <1>1, <1>2, <1>3 DEF FirstBytes, IsCommand
  <1>4. CASE m # 0
    BY <1>1, <1>2, <1>4 DEF FirstBytes, IsCommand
  <1> QED
    BY <1>3, <1>4

LEMMA SeekCommandBuffer ==
  ASSUME PacketInv, NEW c \in Conns, SeekCommand(c)
  PROVE  BufferInv(c)'
  <1>1. PICK n \in Newlines(c) : IsCommand(c) /\ len' = [len EXCEPT ![c] = n]
    BY DEF SeekCommand
  <1>2. /\ buff' = [buff EXCEPT ![c] = AfterStrtok(@)] /\ UNCHANGED << stream, unread >>
        /\ buff \in [Conns -> Strings] /\ buff[c] \in Strings /\ len \in [Conns -> Nat]
        /\ len[c] \in Nat
        /\ BufferInv(c)
    BY DEF SeekCommand, client, PacketInv, Shapes
  <1>3. n \in Nat /\ n <= Len(buff[c]) /\ n # 0 /\ Len(buff[c]) \in Nat
    BY <1>2, StringProperties DEF Newlines
  <1>4. buff[c] # << >>
    BY <1>3, EmptyString
  <1>5. /\ buff'[c] = AfterStrtok(buff[c]) /\ Len(buff'[c]) = Len(buff[c]) /\ len'[c] = n
        /\ stream'[c] = stream[c] /\ unread'[c] = unread[c]
    BY <1>1, <1>2, AfterStrtokIsString
  <1>6. BufferShape(c)'
    BY <1>2, <1>3, <1>4, <1>5 DEF BufferInv, BufferShape
  <1>7. stream[c][1] = Command
    BY <1>1, <1>4, CommandWasSent
  <1>8. buff'[c] # << >>
    BY <1>3, <1>5, EmptyString
  <1>9. FirstRead(c)'
    BY <1>5, <1>7, <1>8 DEF FirstRead
  <1>10. UnreadIsRest(c)'
    BY <1>2, <1>5 DEF BufferInv, UnreadIsRest
  <1> QED
    BY <1>6, <1>9, <1>10 DEF BufferInv

\* The scan moves on to the next newline or to the end.
LEMMA ScanBuffer ==
  ASSUME PacketInv, NEW c \in Conns, pc[c] # "done", UNCHANGED << stream, unread, buff >>,
         len'[c] \in Nat, len'[c] <= Len(buff[c])
  PROVE  BufferInv(c)'
BY DEF PacketInv, BufferInv, UnreadIsRest, BufferShape, FirstRead, FirstBytes, IsPiece

LEMMA LeaveBuffer ==
  ASSUME PacketInv, NEW c \in Conns, Leave(c)
  PROVE  BufferInv(c)'
  <1>1. /\ stream'[c] = stream[c] /\ buff'[c] = buff[c] /\ len'[c] = len[c] /\ pc'[c] = pc[c]
        /\ unread'[c] = unread[c] \/ unread'[c] = << >>
        /\ BufferInv(c) /\ stream[c] \in Strings
    BY StreamsAreStrings DEF Leave, PacketInv, Shapes
  <1>2. CASE unread'[c] = unread[c]
    BY <1>1, <1>2, BufferKept
  <1>3. CASE unread'[c] = << >>
    <2>1. Len(stream[c]) \in 0 .. Len(stream[c])
      BY <1>1, StringProperties
    <2>2. IsPiece(<< >>, stream[c], Len(stream[c]), Len(stream[c]))
      BY <1>1, <2>1, PieceEmpty
    <2>3. UnreadIsRest(c)'
      BY <1>1, <1>3, <2>1, <2>2 DEF UnreadIsRest
    <2>4. (BufferShape(c) /\ FirstRead(c))'
      BY <1>1, <1>3 DEF BufferInv, BufferShape, FirstRead, FirstBytes
    <2> QED
      BY <2>3, <2>4 DEF BufferInv
  <1> QED
    BY <1>1, <1>2, <1>3

LEMMA NextBuffer ==
  ASSUME PacketInv, NEW c \in Conns, Leave(c) \/ Thread(c)
  PROVE  \A d \in Conns : BufferInv(d)'
  <1> SUFFICES ASSUME NEW d \in Conns PROVE BufferInv(d)'
    OBVIOUS
  <1>0. Shapes /\ BufferInv(d)
    BY DEF PacketInv
  <1>1. CASE Rewind(c) \/ ReadDevice(c) \/ AnswerEnd(c) \/ SendReply(c)
    <2>1. UNCHANGED << stream, unread, buff, len >>
      BY <1>1 DEF Rewind, ReadDevice, AnswerEnd, SendReply, client
    <2>2. pc[d] = "done" => pc'[d] = "done"
      BY <1>0, <1>1 DEF Rewind, ReadDevice, AnswerEnd, SendReply, At, Goto, Shapes
    <2> QED
      BY <1>0, <2>1, <2>2, BufferKept
  <1>2. CASE ReceiveEnd(c)
    BY <1>2, CleanupBuffer DEF ReceiveEnd, client
  <1>3. CASE SendFails(c)
    <2>1. CASE Cleanup(c)
      BY <1>3, <2>1, CleanupBuffer DEF SendFails, client
    <2>2. CASE pc[c] = "send" /\ Goto(c, "scan") /\ UNCHANGED << stream, unread, buff, len >>
      <3>1. pc[d] = "done" => pc'[d] = "done"
        BY <1>0, <2>2 DEF Goto, Shapes
      <3> QED
        BY <1>0, <2>2, <3>1, BufferKept
    <2> QED
      BY <1>3, <2>1, <2>2 DEF SendFails, At, client
  <1>4. CASE d = c /\ (Leave(c) \/ Receive(c) \/ ReceiveError(c) \/ SeekCommand(c))
    BY <1>4, LeaveBuffer, ReceiveBuffer, ReceiveErrorBuffer, SeekCommandBuffer
  <1>5. CASE d = c /\ ScanEnd(c)
    <2>1. len'[c] = Len(buff[c]) /\ Len(buff[c]) \in Nat
      BY <1>0, <1>5, StringProperties DEF ScanEnd, Shapes
    <2> QED
      BY <1>5, <2>1, ScanBuffer DEF ScanEnd, At, client
  <1>6. CASE d = c /\ WritePacket(c)
    <2>1. PICK n \in Newlines(c) : len' = [len EXCEPT ![c] = n]
      BY <1>6 DEF WritePacket
    <2>2. n \in Nat /\ n <= Len(buff[c]) /\ len'[c] = n
      BY <1>0, <2>1, StringProperties DEF Newlines, Shapes
    <2> QED
      BY <1>6, <2>2, ScanBuffer DEF WritePacket, At, client
  <1>7. CASE d # c /\ (Leave(c) \/ Receive(c) \/ ReceiveError(c) \/ ScanEnd(c)
                         \/ WritePacket(c) \/ SeekCommand(c))
    <2>1. /\ stream'[d] = stream[d] /\ unread'[d] = unread[d] /\ buff'[d] = buff[d]
          /\ len'[d] = len[d] /\ pc'[d] = pc[d]
      <3> USE <1>0, <1>7 DEF Shapes, Goto, client
      <3>1. CASE Leave(c)
        BY <3>1 DEF Leave
      <3>2. CASE Receive(c)
        BY <3>2 DEF Receive
      <3>3. CASE ReceiveError(c)
        BY <3>3 DEF ReceiveError
      <3>4. CASE ScanEnd(c)
        BY <3>4 DEF ScanEnd
      <3>5. CASE WritePacket(c)
        BY <3>5 DEF WritePacket
      <3>6. CASE SeekCommand(c)
        BY <3>6 DEF SeekCommand
      <3> QED
        BY <3>1, <3>2, <3>3, <3>4, <3>5, <3>6
    <2> QED
      BY <1>0, <2>1, BufferKept
  <1> QED
    BY <1>1, <1>2, <1>3, <1>4, <1>5, <1>6, <1>7 DEF Thread

-----------------------------------------------------------------------------
(***************************************************************************)
(* ... and what is known of the answers.                                   *)
(***************************************************************************)

\* An answer begins with nothing.
LEMMA AnswerBegins ==
  ASSUME NEW d \in Conns, Contents' \in Strings, pc'[d] = "answer", reply'[d] = << >>,
         answer'[d] = << >>, from'[d] = pos'[d], pos'[d] \in 0 .. Len(Contents')
  PROVE  AnswerInv(d)'
  <1>1. Cat(<< >>, << >>) = << >>
    BY EmptyString, CatEmpty
  <1>2. IsPiece(<< >>, Contents', pos'[d], pos'[d])
    BY PieceEmpty
  <1>3. IsPiece(Cat(answer'[d], reply'[d]), Contents', from'[d], pos'[d])
    BY <1>1, <1>2
  <1> QED
    BY <1>3 DEF AnswerInv

\* A thread that has left its answer has nothing more to send.
LEMMA NoAnswerSteps ==
  ASSUME PacketInv, NEW c \in Conns,
         Receive(c) \/ ReceiveError(c) \/ ReceiveEnd(c) \/ ScanEnd(c) \/ AnswerEnd(c) \/ SendFails(c)
  PROVE  \A d \in Conns : AnswerInv(d)'
  <1> SUFFICES ASSUME NEW d \in Conns PROVE AnswerInv(d)'
    OBVIOUS
  <1>0. Shapes /\ AnswerInv(d) /\ (pc[d] # "send" => reply[d] = << >>)
    BY DEF PacketInv, AnswerInv
  <1> USE <1>0 DEF Shapes, device, history, Goto, At, AnswerFrom, Cleanup, Dev!ReadReturns
  <1>1. CASE Receive(c)
    <2>1. CASE d = c
      BY <1>1, <2>1, NoAnswer DEF Receive
    <2>2. CASE d # c
      BY <1>1, <2>2, AnswerKept DEF Receive
    <2> QED
      BY <2>1, <2>2
  <1>2. CASE ReceiveError(c)
    <2>1. CASE d = c
      BY <1>2, <2>1, NoAnswer DEF ReceiveError
    <2>2. CASE d # c
      BY <1>2, <2>2, AnswerKept DEF ReceiveError
    <2> QED
      BY <2>1, <2>2
  <1>3. CASE ReceiveEnd(c)
    <2>1. CASE d = c
      BY <1>3, <2>1, NoAnswer DEF ReceiveEnd
    <2>2. CASE d # c
      BY <1>3, <2>2, AnswerKept DEF ReceiveEnd
    <2> QED
      BY <2>1, <2>2
  <1>4. CASE ScanEnd(c)
    <2>1. CASE d = c
      BY <1>4, <2>1, NoAnswer DEF ScanEnd
    <2>2. CASE d # c
      BY <1>4, <2>2, AnswerKept DEF ScanEnd
    <2> QED
      BY <2>1, <2>2
  <1>5. CASE AnswerEnd(c)
    <2>1. CASE d = c
      BY <1>5, <2>1, NoAnswer DEF AnswerEnd
    <2>2. CASE d # c
      BY <1>5, <2>2, AnswerKept DEF AnswerEnd
    <2> QED
      BY <2>1, <2>2
  <1>6. CASE SendFails(c)
    <2>0. pc' = [pc EXCEPT ![c] = "done"] \/ pc' = [pc EXCEPT ![c] = "scan"]
      BY <1>6 DEF SendFails
    <2>1. CASE d = c
      <3>1. pc'[d] \notin {"answer", "send"}
        BY <2>0, <2>1
      <3>2. reply'[d] = << >>
        BY <1>6, <2>1 DEF SendFails
      <3> QED
        BY <3>1, <3>2, NoAnswer
    <2>2. CASE d # c
      <3>1. pc'[d] = pc[d]
        BY <2>0, <2>2
      <3>2. /\ reply'[d] = reply[d] /\ log' = log /\ pos'[d] = pos[d] /\ answer'[d] = answer[d]
            /\ from'[d] = from[d] /\ overwritten'[d] = overwritten[d]
        BY <1>6, <2>2 DEF SendFails
      <3> QED
        BY <3>1, <3>2, AnswerKept
    <2> QED
      BY <2>1, <2>2
  <1> QED
    BY <1>1, <1>2, <1>3, <1>4, <1>5, <1>6

\* What one thread writes, another finds behind what it has read; if the
\* device drops a packet for it, that is recorded.
LEMMA WriteAnswer ==
  ASSUME PacketInv, NEW c \in Conns, WritePacket(c)
  PROVE  \A d \in Conns : AnswerInv(d)'
  <1> SUFFICES ASSUME NEW d \in Conns PROVE AnswerInv(d)'
    OBVIOUS
  <1>0. Shapes /\ AnswerInv(d) /\ (pc[d] # "send" => reply[d] = << >>)
    BY DEF PacketInv, AnswerInv
  <1>1. PICK n \in Newlines(c) :
          \/ /\ Dev!Write(c, SubSeq(buff[c], 1, n))
             /\ overwritten' = [e \in Conns |-> overwritten[e]
                                  \/ (Answering(e) /\ Len(log) = Capacity)]
          \/ UNCHANGED << device, overwritten >>
    BY DEF WritePacket
  <1>2. /\ pc[c] = "scan" /\ pc' = [pc EXCEPT ![c] = "rewind"] /\ UNCHANGED << answer, from >>
        /\ pc'[c] = "rewind"
    BY <1>0 DEF WritePacket, At, Goto, Shapes
  <1>3. CASE UNCHANGED << device, overwritten >>
    <2>1. CASE d = c
      BY <1>0, <1>2, <1>3, <2>1, NoAnswer DEF device
    <2>2. CASE d # c
      BY <1>0, <1>2, <1>3, <2>2, AnswerKept DEF device, Shapes
    <2> QED
      BY <2>1, <2>2
  <1>4. CASE /\ Dev!Write(c, SubSeq(buff[c], 1, n))
             /\ overwritten' = [e \in Conns |-> overwritten[e]
                                  \/ (Answering(e) /\ Len(log) = Capacity)]
    <2> DEFINE data == SubSeq(buff[c], 1, n)
    <2>1. /\ data \in Strings /\ reply' = reply /\ pos' = [pos EXCEPT ![c] = @ + n]
          /\ log' = Append(IF Len(log) = Capacity THEN Tail(log) ELSE log, data)
      BY <1>0, <1>4, WriteFacts
    <2> HIDE DEF data
    <2>2. Len(log) # Capacity => Contents' = Cat(Contents, data)
      BY <1>0, <2>1, WriteLog DEF Shapes
    <2>3. CASE d = c
      BY <1>0, <1>2, <2>1, <2>3, NoAnswer
    <2>4. CASE d # c
      <3>1. pc'[d] = pc[d] /\ reply'[d] = reply[d] /\ pos'[d] = pos[d]
            /\ answer'[d] = answer[d] /\ from'[d] = from[d]
        BY <1>0, <1>2, <2>1, <2>4 DEF Shapes
      <3>2. ASSUME Answering(d)', ~overwritten'[d]
            PROVE  IsPiece(Cat(answer'[d], reply'[d]), Contents', from'[d], pos'[d])
        <4>1. Answering(d)
          BY <3>1, <3>2 DEF Answering
        <4>2. ~overwritten[d] /\ Len(log) # Capacity
          BY <1>4, <3>2, <4>1, Zenon
        <4>3. IsPiece(Cat(answer[d], reply[d]), Contents, from[d], pos[d])
          BY <1>0, <4>1, <4>2 DEF AnswerInv
        <4>4. Contents \in Strings /\ from[d] \in Nat /\ pos[d] \in Nat
          BY <1>0, ContentsPieces DEF Shapes
        <4>5. IsPiece(Cat(answer[d], reply[d]), Cat(Contents, data), from[d], pos[d])
          BY <2>1, <4>3, <4>4, PieceGrows
        <4> QED
          BY <2>2, <3>1, <4>2, <4>5
      <3>3. pc'[d] # "send" => reply'[d] = << >>
        BY <1>0, <3>1
      <3> QED
        BY <3>2, <3>3 DEF AnswerInv
    <2> QED
      BY <2>3, <2>4
  <1> QED
    BY <1>1, <1>3, <1>4

LEMMA SeekAnswer ==
  ASSUME PacketInv, NEW c \in Conns, Rewind(c) \/ SeekCommand(c)
  PROVE  \A d \in Conns : AnswerInv(d)'
  <1> SUFFICES ASSUME NEW d \in Conns PROVE AnswerInv(d)'
    OBVIOUS
  <1>0. Shapes /\ AnswerInv(d) /\ (pc[d] # "send" => reply[d] = << >>)
    BY DEF PacketInv, AnswerInv
  <1>1. Contents \in Strings /\ Len(Contents) \in Nat
    BY <1>0, ContentsPieces DEF Shapes
  <1>2. CASE Rewind(c)
    <2>1. /\ pos' = [pos EXCEPT ![c] = 0] /\ log' = log /\ reply' = reply
          /\ AnswerFrom(c, 0) /\ pc[c] = "rewind" /\ pc' = [pc EXCEPT ![c] = "answer"]
      BY <1>0, <1>2, RewindFacts DEF Rewind, At, Goto
    <2>2. Contents' = Contents
      BY <2>1 DEF Contents
    <2>3. CASE d = c
      <3>1. /\ pos'[d] = 0 /\ from'[d] = 0 /\ answer'[d] = << >> /\ reply'[d] = << >>
            /\ pc'[d] = "answer"
        BY <1>0, <2>1, <2>3 DEF AnswerFrom, Shapes
      <3>2. pos'[d] \in 0 .. Len(Contents')
        BY <1>1, <2>2, <3>1
      <3> QED
        BY <1>1, <2>2, <3>1, <3>2, AnswerBegins
    <2>4. CASE d # c
      BY <1>0, <2>1, <2>4, AnswerKept DEF AnswerFrom, Shapes
    <2> QED
      BY <2>3, <2>4
  <1>3. CASE SeekCommand(c)
    <2>1. CASE UNCHANGED << device, history, pc >>
      BY <1>0, <2>1, AnswerKept DEF device, history
    <2>2. CASE /\ Dev!SeekTo(c, seekto[1], seekto[2])
               /\ AnswerFrom(c, pos'[c])
               /\ pc[c] = "scan" /\ pc' = [pc EXCEPT ![c] = "answer"]
      <3>1. /\ pos'[c] \in 0 .. Len(Contents)
            /\ \A e \in Conns : e # c => pos'[e] = pos[e]
            /\ log' = log /\ reply' = reply
        BY <1>0, <2>2, SeekToFacts
      <3>2. Contents' = Contents
        BY <3>1 DEF Contents
      <3>3. CASE d = c
        <4>1. /\ from'[d] = pos'[d] /\ answer'[d] = << >> /\ reply'[d] = << >>
              /\ pc'[d] = "answer"
          BY <1>0, <2>2, <3>1, <3>3 DEF AnswerFrom, Shapes
        <4> QED
          BY <1>1, <3>1, <3>2, <3>3, <4>1, AnswerBegins
      <3>4. CASE d # c
        <4>1. /\ pc'[d] = pc[d] /\ answer'[d] = answer[d] /\ from'[d] = from[d]
              /\ overwritten'[d] = overwritten[d]
          BY <1>0, <2>2, <3>4 DEF AnswerFrom, Shapes
        <4> QED
          BY <1>0, <3>1, <3>4, <4>1, AnswerKept
      <3> QED
        BY <3>3, <3>4
    <2> QED
      BY <1>3, <2>1, <2>2 DEF SeekCommand, At, Goto
  <1> QED
    BY <1>2, <1>3

\* What a read of the device returns comes next after what was sent.
LEMMA SendAnswer ==
  ASSUME PacketInv, NEW c \in Conns, ReadDevice(c) \/ SendReply(c)
  PROVE  \A d \in Conns : AnswerInv(d)'
  <1> SUFFICES ASSUME NEW d \in Conns PROVE AnswerInv(d)'
    OBVIOUS
  <1>0. Shapes /\ AnswerInv(d) /\ (pc[d] # "send" => reply[d] = << >>)
    BY DEF PacketInv, AnswerInv
  <1>1. /\ Contents \in Strings /\ answer[d] \in Strings /\ reply[d] \in Strings
        /\ from[d] \in Nat /\ pos[d] \in Nat
    BY <1>0, ContentsPieces DEF Shapes
  <1>2. CASE ReadDevice(c)
    <2>1. /\ pos' \in [Conns -> Nat] /\ reply' \in [Conns -> Strings]
          /\ \A e \in Conns : e # c => pos'[e] = pos[e] /\ reply'[e] = reply[e]
          /\ IsPiece(reply'[c], Contents, pos[c], pos'[c])
          /\ log' = log
      BY <1>0, <1>2, ReadFacts DEF ReadDevice
    <2>2. /\ pc[c] = "answer" /\ pc' = [pc EXCEPT ![c] = "send"]
          /\ UNCHANGED << answer, from, overwritten >>
      BY <1>2 DEF ReadDevice, At, Goto, history
    <2>3. CASE d = c
      <3>1. pc'[d] = "send"
        BY <1>0, <2>2, <2>3 DEF Shapes
      <3>2. ASSUME ~overwritten[d]
            PROVE  IsPiece(Cat(answer'[d], reply'[d]), Contents', from'[d], pos'[d])
        <4>1. reply[d] = << >> /\ Answering(d)
          BY <1>0, <2>2, <2>3 DEF Answering
        <4>2. IsPiece(answer[d], Contents, from[d], pos[d])
          <5>1. Cat(answer[d], << >>) = answer[d]
            BY <1>1, CatEmpty
          <5>2. IsPiece(Cat(answer[d], << >>), Contents, from[d], pos[d])
            BY <1>0, <3>2, <4>1 DEF AnswerInv
          <5> QED
            BY <5>1, <5>2
        <4>3. IsPiece(reply'[d], Contents, pos[d], pos'[d]) /\ reply'[d] \in Strings /\ pos'[d] \in Nat
          BY <2>1, <2>3
        <4> DEFINE r == reply'[d]
                   p == pos'[d]
        <4> HIDE DEF r, p
        <4>4. IsPiece(Cat(answer[d], r), Contents, from[d], p)
          BY <1>1, <4>2, <4>3, PieceCat DEF r, p
        <4>5. Contents' = Contents
          BY <2>1 DEF Contents
        <4> QED
          BY <2>2, <4>4, <4>5 DEF r, p
      <3> QED
        BY <2>2, <3>1, <3>2 DEF AnswerInv
    <2>4. CASE d # c
      <3>1. pc'[d] = pc[d]
        BY <1>0, <2>2, <2>4 DEF Shapes
      <3> QED
        BY <1>0, <2>1, <2>2, <2>4, <3>1, AnswerKept
    <2> QED
      BY <2>3, <2>4
  <1>3. CASE SendReply(c)
    <2>1. /\ pc[c] = "send" /\ pc' = [pc EXCEPT ![c] = "answer"]
          /\ answer' = [answer EXCEPT ![c] = Cat(@, reply[c])]
          /\ reply' = [reply EXCEPT ![c] = << >>]
          /\ UNCHANGED << log, pos, from, overwritten >>
      BY <1>3 DEF SendReply, At, Goto, Dev!ReadReturns, Cat
    <2>2. CASE d = c
      <3>1. pc'[d] = "answer" /\ answer'[d] = Cat(answer[d], reply[d]) /\ reply'[d] = << >>
        BY <1>0, <2>1, <2>2 DEF Shapes
      <3>2. Cat(Cat(answer[d], reply[d]), << >>) = Cat(answer[d], reply[d])
        <4>1. Cat(answer[d], reply[d]) \in Strings
          BY <1>1, CatProperties
        <4> DEFINE z == Cat(answer[d], reply[d])
        <4> HIDE DEF z
        <4>2. z \in Strings
          BY <4>1 DEF z
        <4>3. Cat(z, << >>) = z
          BY <4>2, CatEmpty
        <4> QED
          BY <4>3 DEF z
      <3>3. Contents' = Contents
        BY <2>1 DEF Contents
      <3>4. Cat(answer'[d], reply'[d]) = Cat(answer[d], reply[d])
        BY <3>1, <3>2
      <3>5. Answering(d)
        BY <2>1, <2>2 DEF Answering
      <3>6. ASSUME ~overwritten'[d]
            PROVE  IsPiece(Cat(answer'[d], reply'[d]), Contents', from'[d], pos'[d])
        <4>1. IsPiece(Cat(answer[d], reply[d]), Contents, from[d], pos[d])
          BY <1>0, <2>1, <3>5, <3>6 DEF AnswerInv
        <4> QED
          BY <2>1, <3>3, <3>4, <4>1
      <3> QED
        BY <3>1, <3>6 DEF AnswerInv
    <2>3. CASE d # c
      <3>1. pc'[d] = pc[d] /\ answer'[d] = answer[d] /\ reply'[d] = reply[d]
        BY <1>0, <2>1, <2>3 DEF Shapes
      <3> QED
        BY <1>0, <2>1, <3>1, AnswerKept
    <2> QED
      BY <2>2, <2>3
  <1> QED
    BY <1>2, <1>3

LEMMA NextAnswer ==
  ASSUME PacketInv, NEW c \in Conns, Leave(c) \/ Thread(c)
  PROVE  \A d \in Conns : AnswerInv(d)'
  <1>1. CASE Leave(c)
    <2> SUFFICES ASSUME NEW d \in Conns PROVE AnswerInv(d)'
      OBVIOUS
    <2>1. AnswerInv(d)
      BY DEF PacketInv
    <2>2. UNCHANGED << log, pos, reply, pc, answer, from, overwritten >>
      BY <1>1 DEF Leave, device, history
    <2> QED
      BY <2>1, <2>2, AnswerKept
  <1>2. CASE Receive(c) \/ ReceiveError(c) \/ ReceiveEnd(c) \/ ScanEnd(c) \/ AnswerEnd(c) \/ SendFails(c)
    BY <1>2, NoAnswerSteps
  <1>3. CASE WritePacket(c)
    BY <1>3, WriteAnswer
  <1>4. CASE Rewind(c) \/ SeekCommand(c)
    BY <1>4, SeekAnswer
  <1>5. CASE ReadDevice(c) \/ SendReply(c)
    BY <1>5, SendAnswer
  <1> QED
    BY <1>1, <1>2, <1>3, <1>4, <1>5 DEF Thread

-----------------------------------------------------------------------------
LEMMA InitPacketInv == Init => PacketInv
  <1> SUFFICES ASSUME Init PROVE PacketInv
    OBVIOUS
  <1>1. Shapes
    BY InitShapes
  <1> SUFFICES ASSUME NEW c \in Conns PROVE BufferInv(c) /\ AnswerInv(c)
    BY <1>1 DEF PacketInv
  <1>2. /\ buff[c] = << >> /\ unread[c] = stream[c] /\ len[c] = 0 /\ pc[c] = "read"
        /\ reply[c] = << >> /\ stream[c] \in Strings
    BY StreamsAreStrings DEF Init, Dev!Init
  <1>3. UnreadIsRest(c)
    <2>1. Len(stream[c]) \in Nat
      BY <1>2, StringProperties
    <2>2. IsPiece(unread[c], stream[c], 0, Len(stream[c]))
      BY <1>2, <2>1 DEF IsPiece
    <2> QED
      BY <2>1, <2>2 DEF UnreadIsRest
  <1>4. BufferShape(c)
    <2>1. 0 % MAX_BUF_SIZE = 0
      BY AesdPacketsAssumption
    <2> QED
      BY <1>2, <2>1, EmptyString DEF BufferShape
  <1>5. FirstRead(c)
    BY <1>2 DEF FirstRead
  <1>6. AnswerInv(c)
    BY <1>2 DEF AnswerInv, Answering
  <1> QED
    BY <1>3, <1>4, <1>5, <1>6 DEF BufferInv

LEMMA NextPacketInv == PacketInv /\ [Next]_vars => PacketInv'
  <1> SUFFICES ASSUME PacketInv, [Next]_vars PROVE PacketInv'
    OBVIOUS
  <1>1. CASE UNCHANGED vars
    <2>1. UNCHANGED << log, pending, pos, reply, peer, stream, unread, pc, buff, len, serving,
                       answer, from, overwritten, overrun >>
      BY <1>1 DEF vars, device, client, history
    <2>2. Shapes'
      BY <2>1 DEF PacketInv, Shapes
    <2>3. ASSUME NEW c \in Conns PROVE BufferInv(c)' /\ AnswerInv(c)'
      <3>1. BufferInv(c) /\ AnswerInv(c)
        BY DEF PacketInv
      <3> QED
        BY <2>1, <3>1, BufferKept, AnswerKept
    <2> QED
      BY <2>2, <2>3 DEF PacketInv
  <1>2. ASSUME NEW c \in Conns, Leave(c) \/ Thread(c) PROVE PacketInv'
    <2>1. Shapes'
      BY <1>2, ReceiveShapes, ServeShapes, AnswerShapes DEF Thread
    <2>2. \A d \in Conns : BufferInv(d)'
      BY <1>2, NextBuffer
    <2>3. \A d \in Conns : AnswerInv(d)'
      BY <1>2, NextAnswer
    <2> QED
      BY <2>1, <2>2, <2>3 DEF PacketInv
  <1> QED
    BY <1>1, <1>2 DEF Next, Done

\* The invariant that the theorems below rest on: the thread reads the
\* stream in order, the first read of a connection is the beginning of the
\* stream with zeroes behind it, and an answer in progress is a gapless
\* piece of the device's contents, unless the device has dropped a packet.
THEOREM PacketInvariant == Spec => []PacketInv
BY InitPacketInv, NextPacketInv, PTL DEF Spec

-----------------------------------------------------------------------------
(***************************************************************************)
(* What follows from it.                                                   *)
(***************************************************************************)
LEMMA ReverseProperties ==
  ASSUME NEW s \in Strings
  PROVE  /\ Reverse(s) \in Strings /\ Len(Reverse(s)) = Len(s)
         /\ \A i \in 1 .. Len(s) : Reverse(s)[i] = s[(Len(s) - i) + 1]
  <1> DEFINE l == Len(s)
  <1>1. l \in Nat /\ \A i \in 1 .. l : s[i] \in Bytes
    BY StringProperties
  <1>2. Reverse(s) = [i \in 1 .. l |-> s[(l - i) + 1]]
    BY DEF Reverse
  <1> HIDE DEF l
  <1>3. \A i \in 1 .. l : (l - i) + 1 \in 1 .. l
    BY <1>1
  <1>4. Reverse(s) \in [1 .. l -> Bytes]
    BY <1>1, <1>2, <1>3
  <1>5. Reverse(s) \in Strings /\ Len(Reverse(s)) = l
    BY <1>1, <1>4, SeqDef, LenProperties DEF Strings
  <1> QED
    BY <1>2, <1>5 DEF l

LEMMA PieceIsSuffix ==
  ASSUME NEW a \in Strings, NEW s \in Strings, NEW k \in 0 .. Len(s), IsPiece(a, s, k, Len(s))
  PROVE  IsSuffix(a, s)
  <1> DEFINE L == Len(s)
             l == Len(a)
             ra == Reverse(a)
             rs == Reverse(s)
             pa == SubSeq(ra, 1, l)
             ps == SubSeq(rs, 1, l)
  <1>1. /\ L \in Nat /\ l \in Nat /\ k \in 0 .. L /\ l = L - k
        /\ \A i \in 1 .. L - k : a[i] = s[k + i]
    BY StringProperties DEF IsPiece
  <1>2. /\ ra \in Strings /\ Len(ra) = l /\ \A i \in 1 .. l : ra[i] = a[(l - i) + 1]
        /\ rs \in Strings /\ Len(rs) = L /\ \A i \in 1 .. L : rs[i] = s[(L - i) + 1]
    BY ReverseProperties
  <1> HIDE DEF L, l, ra, rs
  <1>3. ASSUME NEW i \in 1 .. l PROVE ra[i] = rs[i]
    <2> DEFINE j == (l - i) + 1
    <2>1. j \in 1 .. L - k /\ k + j = (L - i) + 1 /\ i \in 1 .. L
      BY <1>1
    <2>2. ra[i] = a[j]
      BY <1>2
    <2> HIDE DEF j
    <2> QED
      BY <1>1, <1>2, <2>1, <2>2
  <1>4. /\ pa \in Strings /\ Len(pa) = l /\ \A i \in 1 .. l : pa[i] = ra[i]
        /\ ps \in Strings /\ Len(ps) = l /\ \A i \in 1 .. l : ps[i] = rs[i]
    <2>1. l \in Nat /\ l <= Len(ra) /\ l <= Len(rs)
      BY <1>1, <1>2
    <2>2. /\ SubSeq(ra, 1, l) \in Strings /\ Len(SubSeq(ra, 1, l)) = l
          /\ \A i \in 1 .. l : SubSeq(ra, 1, l)[i] = ra[i]
      BY <1>2, <2>1, StringHead
    <2>3. /\ SubSeq(rs, 1, l) \in Strings /\ Len(SubSeq(rs, 1, l)) = l
          /\ \A i \in 1 .. l : SubSeq(rs, 1, l)[i] = rs[i]
      BY <1>2, <2>1, StringHead
    <2> QED
      BY <2>1, <2>2, <2>3
  <1> HIDE DEF pa, ps
  <1>5. pa = ps
    BY <1>3, <1>4, SeqEqual DEF Strings
  <1>6. l <= L
    BY <1>1
  <1>7. IsPrefix(ra, rs)
    BY <1>2, <1>5, <1>6 DEF IsPrefix, pa, ps
  <1> QED
    BY <1>7 DEF IsSuffix, ra, rs

LEMMA PacketInvTypes == PacketInv => TypeOK
  <1> SUFFICES ASSUME PacketInv PROVE TypeOK
    OBVIOUS
  <1>1. Shapes /\ \A c \in Conns : BufferInv(c)
    BY DEF PacketInv
  <1>2. ASSUME NEW c \in Conns PROVE IsSuffix(unread[c], stream[c])
    <2>1. unread[c] \in Strings /\ stream[c] \in Strings
      BY <1>1, StreamsAreStrings DEF Shapes
    <2>2. PICK k \in 0 .. Len(stream[c]) : IsPiece(unread[c], stream[c], k, Len(stream[c]))
      BY <1>1 DEF BufferInv, UnreadIsRest
    <2> QED
      BY <2>1, <2>2, PieceIsSuffix
  <1>3. ASSUME NEW c \in Conns PROVE len[c] \in 0 .. Len(buff[c])
    <2>1. Len(buff[c]) \in Nat /\ len[c] \in Nat
      BY <1>1, StringProperties DEF Shapes
    <2>2. len[c] <= Len(buff[c])
      BY <1>1 DEF BufferInv, BufferShape
    <2> QED
      BY <2>1, <2>2
  <1> QED
    BY <1>1, <1>2, <1>3 DEF Shapes, TypeOK, PCs, Strings

\* TypeOK for every number of connections: whatever arrives and however it
\* is split, the scan stays inside the buffer that realloc has made, and
\* what is unread is always the end of what the client sent.
THEOREM PacketTypes == Spec => []TypeOK
BY PacketInvariant, PacketInvTypes, PTL

LEMMA PacketInvAnswers == PacketInv => AnswersAreContents
  <1> SUFFICES ASSUME PacketInv, NEW c \in Conns, Answering(c), ~overwritten[c]
               PROVE  answer[c] \o reply[c] = SubSeq(Contents, from[c] + 1, pos[c])
    BY DEF AnswersAreContents
  <1>1. IsPiece(Cat(answer[c], reply[c]), Contents, from[c], pos[c])
    BY DEF PacketInv, AnswerInv
  <1>2. /\ answer[c] \in Strings /\ reply[c] \in Strings /\ Contents \in Strings
        /\ from[c] \in Nat /\ pos[c] \in Nat
    BY ContentsPieces DEF PacketInv, Shapes
  <1>3. Cat(answer[c], reply[c]) \in Strings
    BY <1>2, CatProperties
  <1>4. Cat(answer[c], reply[c]) = SubSeq(Contents, from[c] + 1, pos[c])
    BY <1>1, <1>2, <1>3, PieceIsSubSeq
  <1> QED
    BY <1>4 DEF Cat

\* AnswersAreContents for every number of connections: process_packet and
\* seek_and_read send a gapless piece of what the device holds, beginning
\* where they have put the position, although other threads write to the
\* device between their reads.
THEOREM AnswersTheorem == Spec => []AnswersAreContents
BY PacketInvariant, PacketInvAnswers, PTL

\* The steps by which a thread moves between these places.
LEMMA PlacesOfSteps ==
  ASSUME Shapes, Next, NEW c \in Conns
  PROVE  /\ pc[c] = "answer" /\ pc'[c] = "scan" => AnswerEnd(c)
         /\ pc[c] = "scan" /\ pc'[c] = "rewind" => WritePacket(c)
  <1> SUFFICES ASSUME NEW d \in Conns, Leave(d) \/ Thread(d),
                      \/ pc[c] = "answer" /\ pc'[c] = "scan"
                      \/ pc[c] = "scan" /\ pc'[c] = "rewind"
               PROVE  /\ pc[c] = "answer" => d = c /\ AnswerEnd(d)
                      /\ pc[c] = "scan" => d = c /\ WritePacket(d)
    <2>1. CASE Done
      BY <2>1 DEF Done, vars
    <2>2. CASE \E d \in Conns : Leave(d) \/ Thread(d)
      BY <2>2
    <2> QED
      BY <2>1, <2>2 DEF Next
  <1> USE DEF Shapes, At, Goto, PCs
  <1>1. CASE Leave(d)
    BY <1>1 DEF Leave
  <1>2. CASE Receive(d)
    BY <1>2 DEF Receive
  <1>3. CASE ReceiveError(d)
    BY <1>3 DEF ReceiveError
  <1>4. CASE ReceiveEnd(d)
    BY <1>4 DEF ReceiveEnd, Cleanup
  <1>5. CASE ScanEnd(d)
    BY <1>5 DEF ScanEnd
  <1>6. CASE WritePacket(d)
    <2>1. pc[d] = "scan" /\ pc' = [pc EXCEPT ![d] = "rewind"]
      BY <1>6 DEF WritePacket
    <2> QED
      BY <1>6, <2>1
  <1>7. CASE Rewind(d)
    BY <1>7 DEF Rewind
  <1>8. CASE SeekCommand(d)
    <2>1. pc[d] = "scan" /\ (pc' = [pc EXCEPT ![d] = "answer"] \/ pc' = pc)
      BY <1>8 DEF SeekCommand
    <2> QED
      BY <2>1
  <1>9. CASE ReadDevice(d)
    BY <1>9 DEF ReadDevice
  <1>10. CASE AnswerEnd(d)
    <2>1. pc[d] = "answer" /\ pc' = [pc EXCEPT ![d] = "scan"]
      BY <1>10 DEF AnswerEnd
    <2> QED
      BY <1>10, <2>1
  <1>11. CASE SendReply(d)
    BY <1>11 DEF SendReply
  <1>12. CASE SendFails(d)
    BY <1>12 DEF SendFails, Cleanup
  <1> QED
    BY <1>1, <1>2, <1>3, <1>4, <1>5, <1>6, <1>7, <1>8, <1>9, <1>10, <1>11, <1>12 DEF Thread

\* AnswersAreComplete for every number of connections: when read of the
\* device returns 0 and the answer ends, its client has been sent all that
\* the device holds from the position where the answer began.
THEOREM CompleteTheorem == Spec => AnswersAreComplete
  <1>1. ASSUME PacketInv, Next, NEW c \in Conns, pc[c] = "answer", pc'[c] = "scan", ~overwritten[c]
        PROVE  answer[c] = SubSeq(Contents, from[c] + 1, Len(Contents))
    <2>1. Shapes /\ AnswerInv(c)
      BY <1>1 DEF PacketInv
    <2>2. AnswerEnd(c)
      BY <1>1, <2>1, PlacesOfSteps
    <2>3. /\ Contents \in Strings /\ Len(Contents) \in Nat /\ Dev!Size = Len(Contents)
          /\ answer[c] \in Strings /\ from[c] \in Nat /\ pos[c] \in Nat
      BY <2>1, ContentsPieces DEF Shapes
    <2>4. IsPiece(Cat(answer[c], << >>), Contents, from[c], pos[c])
      BY <1>1, <2>1 DEF AnswerInv, Answering
    <2>5. Cat(answer[c], << >>) = answer[c]
      BY <2>3, CatEmpty
    <2>6. IsPiece(answer[c], Contents, from[c], pos[c])
      BY <2>4, <2>5
    <2>7. pos[c] = Len(Contents)
      BY <2>2, <2>3, <2>6 DEF AnswerEnd, IsPiece
    <2>8. answer[c] = SubSeq(Contents, from[c] + 1, pos[c])
      BY <2>3, <2>6, PieceIsSubSeq
    <2> QED
      BY <2>7, <2>8
  <1>2. PacketInv /\ [Next]_vars
          => [\A c \in Conns :
                pc[c] = "answer" /\ pc'[c] = "scan" /\ ~overwritten[c]
                  => answer[c] = SubSeq(Contents, from[c] + 1, Len(Contents))]_vars
    BY <1>1
  <1> QED
    BY <1>2, PacketInvariant, PTL DEF Spec, AnswersAreComplete

\* StoredAsSent for every number of connections and every stream: the first
\* packet that process_packet writes, if it ends within one read, is the
\* beginning of its client's stream.
THEOREM StoredTheorem == Spec => StoredAsSent
  <1>1. ASSUME PacketInv, Next, NEW c \in Conns, pc[c] = "scan", pc'[c] = "rewind", log' # log,
               len'[c] <= MAX_BUF_SIZE, stream[c][1] # Command
        PROVE  Last(log') = SubSeq(stream[c], 1, len'[c])
    <2>1. Shapes /\ BufferInv(c)
      BY <1>1 DEF PacketInv
    <2>2. WritePacket(c)
      BY <1>1, <2>1, PlacesOfSteps
    <2>3. PICK n \in Newlines(c) :
            len' = [len EXCEPT ![c] = n] /\ Dev!Write(c, SubSeq(buff[c], 1, n))
      BY <1>1, <2>2 DEF WritePacket, device
    <2> DEFINE data == SubSeq(buff[c], 1, n)
    <2>4. /\ n \in 1 .. Len(buff[c]) /\ buff[c][n] = Newline
          /\ data \in Strings /\ Len(data) = n /\ \A i \in 1 .. n : data[i] = buff[c][i]
          /\ log' = Append(IF Len(log) = Capacity THEN Tail(log) ELSE log, data)
      BY <2>1, <2>3, WriteFacts
    <2> HIDE DEF data
    <2>5. Last(log') = data
      BY <2>1, <2>4, WriteLog DEF Shapes, Last
    <2>6. /\ len'[c] = n /\ buff[c] \in Strings /\ stream[c] \in Strings
          /\ MAX_BUF_SIZE \in Nat /\ Newline # NUL
      BY <2>1, <2>3, StreamsAreStrings, AesdPacketsAssumption DEF Shapes
    <2>7. buff[c] # << >> /\ n \in Nat /\ n >= 1 /\ n <= MAX_BUF_SIZE
      BY <1>1, <2>4, <2>6, EmptyString, StringProperties
    <2>8. PICK m \in 0 .. MAX_BUF_SIZE : FirstBytes(c, m)
      BY <1>1, <2>1, <2>7 DEF BufferInv, FirstRead
    <2>9. n <= m
      <3> SUFFICES ASSUME ~(n <= m) PROVE FALSE
        OBVIOUS
      <3>1. n \in m + 1 .. MAX_BUF_SIZE
        BY <2>6, <2>7
      <3>2. buff[c][n] = NUL
        BY <2>8, <3>1 DEF FirstBytes
      <3> QED
        BY <2>4, <2>6, <3>2
    <2>10. \A i \in 1 .. n : data[i] = stream[c][i]
      <3>1. \A i \in 1 .. n : i \in 1 .. m
        BY <2>6, <2>7, <2>9
      <3>2. \A i \in 1 .. m : buff[c][i] = stream[c][i]
        BY <2>8 DEF FirstBytes
      <3> QED
        BY <2>4, <3>1, <3>2
    <2>11. IsPiece(data, stream[c], 0, n)
      <3>1. m <= Len(stream[c]) /\ Len(stream[c]) \in Nat
        BY <2>6, <2>8, StringProperties DEF FirstBytes
      <3> DEFINE s == stream[c]
      <3>2. /\ \A i \in 1 .. n : data[i] = s[i]
            /\ m <= Len(s) /\ Len(s) \in Nat /\ Len(data) = n /\ n \in Nat /\ m \in Nat /\ n <= m
        BY <2>4, <2>6, <2>7, <2>9, <2>10, <3>1
      <3> HIDE DEF s
      <3>3. n - 0 = n /\ \A i \in 1 .. n : 0 + i = i
        BY <3>2
      <3>4. 0 <= n /\ n <= Len(s)
        BY <3>2
      <3>5. IsPiece(data, s, 0, n)
        BY <3>2, <3>3, <3>4 DEF IsPiece
      <3> QED
        BY <3>5 DEF s
    <2>12. data = SubSeq(stream[c], 0 + 1, n)
      BY <2>4, <2>6, <2>7, <2>11, PieceIsSubSeq
    <2> QED
      BY <2>5, <2>6, <2>12
  <1>2. PacketInv /\ [Next]_vars
          => [\A c \in Conns :
                pc[c] = "scan" /\ pc'[c] = "rewind" /\ log' # log
                    /\ len'[c] <= MAX_BUF_SIZE /\ stream[c][1] # Command
                  => Last(log') = SubSeq(stream[c], 1, len'[c])]_vars
    BY <1>1
  <1> QED
    BY <1>2, PacketInvariant, PTL DEF Spec, StoredAsSent

=============================================================================
