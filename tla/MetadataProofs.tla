-------------------------- MODULE MetadataProofs --------------------------
(***************************************************************************)
(* Proofs about Metadata: whatever bytes come with an upload, what is      *)
(* stored splits into the same pairs, sorted by name, and packing them in  *)
(* place stays within the buffer.                                          *)
(***************************************************************************)
EXTENDS Metadata, FiniteSetTheorems, SequenceTheorems, TLAPS

-----------------------------------------------------------------------------
(* Numbers and recursion                                                   *)

\* Induction over numbers: a set of them has a least one, as the intervals up to
\* them are well-founded.
LEMMA LeastNumber ==
    ASSUME NEW B \in SUBSET Nat, B # {}
    PROVE  \E n \in B : \A m \in B : n <= m
<1> DEFINE T == {0 .. n : n \in B}
           W == StrictSubsetOrdering(Nat)
<1>1. IsWellFoundedOn(W, FiniteSubsetsOf(Nat))
  BY FS_StrictSubsetOrderingWellFounded
<1>2. T \subseteq FiniteSubsetsOf(Nat) /\ T # {}
  <2>1. \A n \in Nat : IsFiniteSet(0 .. n)
    BY FS_Interval
  <2>2. \A n \in B : 0 .. n \in SUBSET Nat /\ IsFiniteSet(0 .. n)
    BY <2>1
  <2>3. \A x \in T : x \in FiniteSubsetsOf(Nat)
    BY <2>2 DEF FiniteSubsetsOf
  <2> QED
    BY <2>3
<1>3. PICK x \in T : \A y \in T : <<y, x>> \notin W
  BY <1>1, <1>2, WFMin
<1>4. PICK n \in B : x = 0 .. n
  OBVIOUS
<1>5. ASSUME NEW m \in B, m < n PROVE FALSE
  <2>1. 0 .. m \subseteq 0 .. n /\ 0 .. m # 0 .. n /\ 0 .. m \in SUBSET Nat /\ 0 .. n \in SUBSET Nat
    BY <1>5
  <2>2. <<0 .. m, 0 .. n>> \in W
    BY <2>1 DEF StrictSubsetOrdering
  <2> QED
    BY <1>3, <1>4, <2>2
<1> QED
  BY <1>5

\* The same as an induction up to a bound.
LEMMA Induction ==
    ASSUME NEW N \in Nat, NEW B \in SUBSET (0 .. N),
           0 \in B, \A n \in 0 .. N - 1 : n \in B => n + 1 \in B
    PROVE  B = 0 .. N
<1> DEFINE Bad == (0 .. N) \ B
<1> SUFFICES ASSUME Bad # {} PROVE FALSE
  OBVIOUS
<1>1. Bad \in SUBSET Nat
  OBVIOUS
<1>2. PICK n \in Bad : \A m \in Bad : n <= m
  BY <1>1, LeastNumber
<1>3. n # 0 /\ n - 1 \in 0 .. N - 1 /\ (n - 1) + 1 = n
  OBVIOUS
<1>4. n - 1 \in B
  BY <1>2, <1>3
<1> QED
  BY <1>3, <1>4

\* A recursion over numbers has a solution: each step is one of a set of states.
Solves(f, N, S, base, step) ==
    /\ f \in [0 .. N -> S]
    /\ f[0] = base
    /\ \A n \in 1 .. N : f[n] = step[<<n, f[n - 1]>>]

LEMMA Recursion ==
    ASSUME NEW S, NEW N \in Nat, NEW base \in S, NEW step \in [(1 .. N) \X S -> S]
    PROVE  \E f : Solves(f, N, S, base, step)
<1> USE DEF Solves
<1> DEFINE Sol(n, f) == Solves(f, n, S, base, step)
           B == {n \in 0 .. N : \E f : Sol(n, f)}
<1>1. 0 \in B
  <2> DEFINE f == [k \in 0 .. 0 |-> base]
  <2>1. Sol(0, f) /\ 0 \in 0 .. N
    OBVIOUS
  <2> HIDE DEF Sol, f
  <2> QED
    BY <2>1
<1>2. ASSUME NEW n \in 0 .. N - 1, n \in B PROVE n + 1 \in B
  <2>1. PICK f : Sol(n, f)
    BY <1>2
  <2> DEFINE g == [k \in 0 .. n + 1 |-> IF k = n + 1 THEN step[<<n + 1, f[n]>>] ELSE f[k]]
  <2>2. n \in Nat /\ n + 1 \in 1 .. N /\ f[n] \in S
    BY <2>1
  <2>3. step[<<n + 1, f[n]>>] \in S
    BY <2>2
  <2>4. g \in [0 .. n + 1 -> S] /\ g[0] = base
    BY <2>1, <2>2, <2>3
  <2>5. ASSUME NEW k \in 1 .. n + 1 PROVE g[k] = step[<<k, g[k - 1]>>]
    <3>1. k - 1 \in 0 .. n + 1 /\ k - 1 # n + 1 /\ g[k - 1] = f[k - 1]
      BY <2>2
    <3>2. CASE k = n + 1
      <4>1. k - 1 = n
        BY <2>2, <3>2
      <4> QED
        BY <3>1, <3>2, <4>1
    <3>3. CASE k # n + 1
      <4>1. k \in 1 .. n
        BY <2>2, <3>3
      <4> QED
        BY <2>1, <2>2, <3>1, <3>3, <4>1
    <3> QED
      BY <3>2, <3>3
  <2>6. Sol(n + 1, g)
    BY <2>4, <2>5
  <2>7. n + 1 \in 0 .. N
    BY <2>2
  <2> HIDE DEF Sol, g
  <2> QED
    BY <2>6, <2>7
<1>3. N \in B
  <2> HIDE DEF B
  <2>1. B = 0 .. N
    <3>1. B \in SUBSET (0 .. N)
      BY DEF B
    <3> QED
      BY <1>1, <1>2, <3>1, Induction
  <2> QED
    BY <2>1
<1> QED
  BY <1>3

\* What keeps to the steps is a solution.
LEMMA RecursionIn ==
    ASSUME NEW S, NEW N \in Nat, NEW base \in S, NEW step \in [(1 .. N) \X S -> S], NEW f,
           f = [n \in 0 .. N |-> f[n]], f[0] = base,
           \A n \in 1 .. N : f[n - 1] \in S => f[n] = step[<<n, f[n - 1]>>]
    PROVE  Solves(f, N, S, base, step)
<1> DEFINE B == {n \in 0 .. N : f[n] \in S}
<1>1. 0 \in B /\ B \in SUBSET (0 .. N)
  OBVIOUS
<1>2. ASSUME NEW n \in 0 .. N - 1, n \in B PROVE n + 1 \in B
  <2>1. n + 1 \in 1 .. N /\ (n + 1) - 1 = n /\ f[n] \in S
    BY <1>2
  <2>2. f[n + 1] = step[<<n + 1, f[n]>>]
    BY <2>1
  <2> QED
    BY <2>1, <2>2
<1>3. B = 0 .. N
  <2> HIDE DEF B
  <2> QED
    BY <1>1, <1>2, Induction
<1>4. f \in [0 .. N -> S]
  BY <1>3
<1>5. \A n \in 1 .. N : f[n] = step[<<n, f[n - 1]>>]
  <2> TAKE n \in 1 .. N
  <2>1. n - 1 \in 0 .. N
    OBVIOUS
  <2> QED
    BY <1>4, <2>1
<1> QED
  BY <1>4, <1>5 DEF Solves

-----------------------------------------------------------------------------
\* strchr
LEMMA FirstFacts ==
    ASSUME NEW s \in Seq(Char), NEW c
    PROVE  /\ First(s, c) \in 1 .. Len(s) + 1
           /\ First(s, c) <= Len(s) => s[First(s, c)] = c
           /\ \A i \in 1 .. First(s, c) - 1 : s[i] # c
<1> DEFINE B == {n \in 1 .. Len(s) : s[n] = c} \cup {Len(s) + 1}
           P(n) == /\ n <= Len(s) => s[n] = c
                   /\ \A i \in 1 .. n - 1 : s[i] # c
<1>1. Len(s) \in Nat
  OBVIOUS
<1>2. B \in SUBSET Nat /\ B # {}
  BY <1>1
<1>3. PICK n \in B : \A m \in B : n <= m
  BY <1>2, LeastNumber
<1>4. n \in 1 .. Len(s) + 1 /\ P(n)
  <2>1. n \in 1 .. Len(s) + 1 /\ (n <= Len(s) => s[n] = c)
    BY <1>1
  <2>2. ASSUME NEW i \in 1 .. n - 1, s[i] = c PROVE FALSE
    <3>1. i \in B /\ i < n /\ i \in Nat
      BY <1>1, <2>1, <2>2
    <3> QED
      BY <1>1, <1>3, <2>1, <3>1
  <2> QED
    BY <2>1, <2>2
<1>5. First(s, c) = CHOOSE m \in 1 .. Len(s) + 1 : P(m)
  BY DEF First
<1> HIDE DEF P
<1>6. First(s, c) \in 1 .. Len(s) + 1 /\ P(First(s, c))
  BY <1>4, <1>5
<1> QED
  BY <1>6 DEF P

\* ... is at the only place that can be first.
LEMMA FirstIs ==
    ASSUME NEW s \in Seq(Char), NEW c, NEW n \in 1 .. Len(s) + 1,
           n <= Len(s) => s[n] = c, \A i \in 1 .. n - 1 : s[i] # c
    PROVE  First(s, c) = n
<1> DEFINE m == First(s, c)
<1>1. /\ m \in 1 .. Len(s) + 1
      /\ m <= Len(s) => s[m] = c
      /\ \A i \in 1 .. m - 1 : s[i] # c
  BY FirstFacts
<1> HIDE DEF m
<1>2. Len(s) \in Nat
  OBVIOUS
<1>3. ~(m < n)
  <2> SUFFICES ASSUME m < n PROVE FALSE
    OBVIOUS
  <2>1. m \in 1 .. n - 1 /\ m <= Len(s)
    BY <1>1, <1>2
  <2> QED
    BY <1>1, <2>1
<1>4. ~(n < m)
  <2> SUFFICES ASSUME n < m PROVE FALSE
    OBVIOUS
  <2>1. n \in 1 .. m - 1 /\ n <= Len(s)
    BY <1>1, <1>2
  <2> QED
    BY <1>1, <2>1
<1> QED
  BY <1>1, <1>2, <1>3, <1>4 DEF m

\* What the string functions see: everything up to the terminator.
LEMMA TextFacts ==
    ASSUME NEW s \in Seq(Char)
    PROVE  /\ Text(s) \in Seq(Char) /\ Len(Text(s)) = First(s, NUL) - 1
           /\ Len(Text(s)) <= Len(s)
           /\ \A i \in 1 .. Len(Text(s)) : Text(s)[i] = s[i] /\ s[i] # NUL
<1>1. /\ First(s, NUL) \in 1 .. Len(s) + 1
      /\ \A i \in 1 .. First(s, NUL) - 1 : s[i] # NUL
  BY FirstFacts
<1> DEFINE n == First(s, NUL)
<1> HIDE DEF n
<1>2. n \in 1 .. Len(s) + 1 /\ n - 1 \in 0 .. Len(s) /\ Len(s) \in Nat
  BY <1>1 DEF n
<1>3. /\ SubSeq(s, 1, n - 1) \in Seq(Char) /\ Len(SubSeq(s, 1, n - 1)) = n - 1
      /\ \A i \in 1 .. n - 1 : SubSeq(s, 1, n - 1)[i] = s[i]
  BY <1>2
<1>4. Text(s) = SubSeq(s, 1, n - 1)
  BY DEF Text, n
<1> QED
  BY <1>1, <1>2, <1>3, <1>4 DEF n

-----------------------------------------------------------------------------
(* splitEx                                                                 *)

\* A character is taken into the last row or begins the next one.
Taken(before, c) ==
    IF c = RS THEN Append(before, <<>>) ELSE [before EXCEPT ![Len(before)] = Append(@, c)]

SomeRows == Seq(Seq(Char)) \ {<<>>}

LEMMA TakenRows ==
    ASSUME NEW b \in SomeRows, NEW c \in Char
    PROVE  /\ Taken(b, c) \in SomeRows /\ Len(b) \in Nat \ {0}
           /\ c = RS => /\ Len(Taken(b, c)) = Len(b) + 1
                        /\ Taken(b, c)[Len(b) + 1] = <<>>
                        /\ \A k \in 1 .. Len(b) : Taken(b, c)[k] = b[k]
           /\ c # RS => /\ Len(Taken(b, c)) = Len(b)
                        /\ Taken(b, c)[Len(b)] = Append(b[Len(b)], c)
                        /\ \A k \in 1 .. Len(b) - 1 : Taken(b, c)[k] = b[k]
<1> DEFINE S == Seq(Char)
<1>1. <<>> \in S /\ \A s \in S : Append(s, c) \in S
  OBVIOUS
<1>2. b \in Seq(S) /\ b # <<>>
  BY DEF SomeRows
<1> HIDE DEF S
<1>3. Len(b) \in Nat \ {0} /\ b[Len(b)] \in S
  BY <1>2
<1>4. CASE c = RS
  <2>1. Taken(b, c) = Append(b, <<>>)
    BY <1>4 DEF Taken
  <2>2. /\ Append(b, <<>>) \in Seq(S) /\ Len(Append(b, <<>>)) = Len(b) + 1
        /\ Append(b, <<>>)[Len(b) + 1] = <<>>
        /\ \A k \in 1 .. Len(b) : Append(b, <<>>)[k] = b[k]
    BY <1>1, <1>2
  <2>3. Append(b, <<>>) # <<>>
    BY <1>3, <2>2
  <2> QED
    BY <1>3, <1>4, <2>1, <2>2, <2>3 DEF SomeRows, S
<1>5. CASE c # RS
  <2> DEFINE r == [b EXCEPT ![Len(b)] = Append(@, c)]
  <2>1. Taken(b, c) = r
    BY <1>5 DEF Taken
  <2>2. /\ r \in Seq(S) /\ Len(r) = Len(b)
        /\ r[Len(b)] = Append(b[Len(b)], c)
        /\ \A k \in 1 .. Len(b) - 1 : r[k] = b[k]
    <3>1. Append(b[Len(b)], c) \in S
      BY <1>1, <1>3
    <3>2. Len(b) \in 1 .. Len(b)
      BY <1>3
    <3> DEFINE e == Append(b[Len(b)], c)
    <3>3. r = [b EXCEPT ![Len(b)] = e]
      OBVIOUS
    <3> HIDE DEF r, e
    <3>4. /\ r \in Seq(S) /\ Len(r) = Len(b)
          /\ \A j \in 1 .. Len(b) : r[j] = IF j = Len(b) THEN e ELSE b[j]
      <4>1. e \in S
        BY <3>1 DEF e
      <4> QED
        BY <1>2, <3>2, <3>3, <4>1, ExceptSeq
    <3>5. r[Len(b)] = e /\ \A k \in 1 .. Len(b) - 1 : r[k] = b[k]
      BY <1>3, <3>2, <3>4
    <3> QED
      BY <3>4, <3>5 DEF e
  <2> HIDE DEF r
  <2>3. r # <<>>
    BY <1>3, <2>2
  <2> QED
    BY <1>3, <1>5, <2>1, <2>2, <2>3 DEF SomeRows, S
<1> QED
  BY <1>4, <1>5

LEMMA RowsStep ==
    ASSUME NEW text \in Seq(Char)
    PROVE  \E f \in [0 .. Len(text) -> SomeRows] :
             /\ Rows(text) = f[Len(text)] /\ f[0] = << <<>> >>
             /\ \A n \in 1 .. Len(text) : f[n] = Taken(f[n - 1], text[n])
<1> DEFINE N == Len(text)
           base == << <<>> >>
           Eq(f) == f = [n \in 0 .. N |->
                          IF n = 0 THEN base
                          ELSE LET before == f[n - 1]
                               IN  IF text[n] = RS THEN Append(before, <<>>)
                                   ELSE [before EXCEPT ![Len(before)] = Append(@, text[n])]]
           rows == CHOOSE f : Eq(f)
           step == [z \in (1 .. N) \X SomeRows |-> Taken(z[2], text[z[1]])]
<1>1. Rows(text) = rows[N]
  BY DEF Rows
<1>2. N \in Nat /\ \A n \in 1 .. N : text[n] \in Char
  OBVIOUS
<1>3. base \in SomeRows
  <2>1. <<>> \in Seq(Char)
    OBVIOUS
  <2> DEFINE S == Seq(Char)
  <2> HIDE DEF S
  <2>2. << <<>> >> \in Seq(S) /\ << <<>> >> # <<>>
    BY <2>1 DEF S
  <2> QED
    BY <2>2 DEF SomeRows, S
<1>4. step \in [(1 .. N) \X SomeRows -> SomeRows]
  <2>1. \A z \in (1 .. N) \X SomeRows : Taken(z[2], text[z[1]]) \in SomeRows
    BY <1>2, TakenRows
  <2> QED
    BY <2>1
<1> HIDE DEF step
<1>5. \A f : Eq(f) <=> f = [n \in 0 .. N |-> IF n = 0 THEN base ELSE Taken(f[n - 1], text[n])]
  BY DEF Taken
<1> HIDE DEF Eq, N, base
<1>6. PICK g : Solves(g, N, SomeRows, base, step)
  BY <1>2, <1>3, <1>4, Recursion
<1>7. Eq(g)
  <2>1. ASSUME NEW n \in 1 .. N PROVE g[n] = Taken(g[n - 1], text[n])
    <3>1. n - 1 \in 0 .. N
      BY <1>2
    <3>2. <<n, g[n - 1]>> \in (1 .. N) \X SomeRows
      BY <1>6, <3>1 DEF Solves
    <3> QED
      BY <1>6, <3>2 DEF step, Solves
  <2>2. \A n \in 0 .. N : g[n] = IF n = 0 THEN base ELSE Taken(g[n - 1], text[n])
    BY <1>2, <1>6, <2>1 DEF Solves
  <2>3. g = [n \in 0 .. N |-> g[n]]
    BY <1>6 DEF Solves
  <2>4. g = [n \in 0 .. N |-> IF n = 0 THEN base ELSE Taken(g[n - 1], text[n])]
    BY <2>2, <2>3
  <2> QED
    BY <1>5, <2>4
<1>8. rows = [n \in 0 .. N |-> IF n = 0 THEN base ELSE Taken(rows[n - 1], text[n])]
  <2>1. Eq(rows)
    BY <1>7
  <2> HIDE DEF rows
  <2> QED
    BY <1>5, <2>1
<1> HIDE DEF rows
<1>9. Solves(rows, N, SomeRows, base, step)
  <2>1. \A n \in 0 .. N : rows[n] = IF n = 0 THEN base ELSE Taken(rows[n - 1], text[n])
    BY <1>8
  <2>2. rows[0] = base
    BY <1>2, <2>1
  <2>3. ASSUME NEW n \in 1 .. N, rows[n - 1] \in SomeRows PROVE rows[n] = step[<<n, rows[n - 1]>>]
    <3>1. rows[n] = Taken(rows[n - 1], text[n])
      BY <1>2, <2>1
    <3> QED
      BY <2>3, <3>1 DEF step
  <2>4. rows = [n \in 0 .. N |-> rows[n]]
    BY <1>8
  <2> QED
    BY <1>2, <1>3, <1>4, <2>2, <2>3, <2>4, RecursionIn
<1>10. \A n \in 1 .. N : rows[n] = Taken(rows[n - 1], text[n])
  <2> TAKE n \in 1 .. N
  <2>1. n - 1 \in 0 .. N
    BY <1>2
  <2>2. rows[n - 1] \in SomeRows
    BY <1>9, <2>1 DEF Solves
  <2> QED
    BY <1>9, <2>2 DEF Solves, step
<1> QED
  BY <1>1, <1>9, <1>10 DEF N, base, Solves

-----------------------------------------------------------------------------
(* fdfs_split_metadata_ex and fdfs_pack_metadata                           *)

MetaData == [name : Seq(Char), value : Seq(Char)]

\* The smaller of a length and its maximum.
LEMMA MinOfTwo ==
    ASSUME NEW a \in Nat, NEW b \in Nat
    PROVE  Min({a, b}) = IF a <= b THEN a ELSE b
<1> DEFINE m == IF a <= b THEN a ELSE b
<1>1. m \in {a, b} /\ \A y \in {a, b} : m <= y
  OBVIOUS
<1>2. \A x \in {a, b} : (\A y \in {a, b} : x <= y) => x = m
  OBVIOUS
<1> HIDE DEF m
<1> QED
  BY <1>1, <1>2 DEF Min, m

LEMMA PairFacts ==
    ASSUME NEW row \in Seq(Char), HasField(row)
    PROVE  LET n == First(row, FS)
               m == Pair(row)
           IN  /\ n \in 1 .. Len(row) /\ row[n] = FS /\ m \in MetaData
               /\ Len(m.name) <= MaxName /\ Len(m.name) <= n - 1
               /\ Len(m.value) <= MaxValue /\ Len(m.value) <= Len(row) - n
               /\ n - 1 <= MaxName => Len(m.name) = n - 1
               /\ Len(row) - n <= MaxValue => Len(m.value) = Len(row) - n
               /\ \A i \in 1 .. Len(m.name) : m.name[i] = row[i] /\ row[i] # FS
               /\ \A i \in 1 .. Len(m.value) : m.value[i] = row[n + i]
<1> DEFINE n == First(row, FS)
           a == Min({n - 1, MaxName})
           b == Min({Len(row), n + MaxValue})
           s == SubSeq(row, 1, a)
           t == SubSeq(row, n + 1, b)
<1>1. /\ n \in 1 .. Len(row) /\ row[n] = FS /\ Len(row) \in Nat
      /\ \A i \in 1 .. n - 1 : row[i] # FS
  BY FirstFacts DEF HasField
<1>2. Pair(row) = [name |-> s, value |-> t]
  BY DEF Pair
<1> HIDE DEF n
<1>3. /\ n - 1 \in Nat /\ MaxName \in Nat /\ MaxValue \in Nat /\ n + MaxValue \in Nat
  BY <1>1, MetadataAssumption
<1>4. /\ a = IF n - 1 <= MaxName THEN n - 1 ELSE MaxName
      /\ b = IF Len(row) <= n + MaxValue THEN Len(row) ELSE n + MaxValue
  BY <1>1, <1>3, MinOfTwo
<1> HIDE DEF a, b
<1>5. a \in 0 .. Len(row) /\ a <= n - 1 /\ a <= MaxName /\ b \in n .. Len(row) /\ b <= n + MaxValue
  BY <1>1, <1>3, <1>4
<1>6. s \in Seq(Char) /\ Len(s) = a /\ \A i \in 1 .. a : s[i] = row[i]
  BY <1>5
<1>7. t \in Seq(Char) /\ Len(t) = b - n /\ \A i \in 1 .. b - n : t[i] = row[n + i]
  <2>1. \A i \in n + 1 .. b : row[i] \in Char
    BY <1>1, <1>5
  <2>2. /\ t \in Seq(Char)
        /\ Len(t) = IF n + 1 <= b THEN b - (n + 1) + 1 ELSE 0
        /\ \A i \in 1 .. b - (n + 1) + 1 : t[i] = row[(n + 1) + i - 1]
    BY <1>1, <1>5, <2>1, SubSeqProperties
  <2> HIDE DEF t
  <2>3. n \in Nat /\ b \in Nat /\ n <= b
    BY <1>1, <1>5
  <2>4. b - (n + 1) + 1 = b - n /\ (n + 1 <= b \/ b - n = 0)
    BY <2>3
  <2>5. Len(t) = b - n
    BY <2>2, <2>3, <2>4
  <2>6. ASSUME NEW i \in 1 .. b - n PROVE t[i] = row[n + i]
    <3>1. i \in 1 .. b - (n + 1) + 1 /\ (n + 1) + i - 1 = n + i
      BY <2>3, <2>4
    <3> QED
      BY <2>2, <3>1
  <2> QED
    BY <2>2, <2>5, <2>6
<1> HIDE DEF s, t
<1>8. Pair(row).name = s /\ Pair(row).value = t /\ Pair(row) \in MetaData
  BY <1>2, <1>6, <1>7 DEF MetaData
<1>9. /\ b - n <= Len(row) - n /\ b - n <= MaxValue
      /\ n - 1 <= MaxName => a = n - 1
      /\ Len(row) - n <= MaxValue => b - n = Len(row) - n
  BY <1>1, <1>3, <1>4, <1>5
<1>10. \A i \in 1 .. a : row[i] # FS
  BY <1>1, <1>5
<1> QED
  BY <1>1, <1>5, <1>6, <1>7, <1>8, <1>9, <1>10 DEF n

LEMMA RowFacts ==
    ASSUME NEW m \in MetaData
    PROVE  /\ m.name \in Seq(Char) /\ m.value \in Seq(Char)
           /\ Row(m) \in Seq(Char) /\ Len(Row(m)) = Len(m.name) + 1 + Len(m.value)
           /\ \A i \in 1 .. Len(m.name) : Row(m)[i] = m.name[i]
           /\ Row(m)[Len(m.name) + 1] = FS
           /\ \A i \in 1 .. Len(m.value) : Row(m)[Len(m.name) + 1 + i] = m.value[i]
<1>1. m.name \in Seq(Char) /\ m.value \in Seq(Char) /\ Len(m.name) \in Nat /\ Len(m.value) \in Nat
  BY DEF MetaData
<1> DEFINE s == m.name
           t == m.value
           l == s \o <<FS>>
           r == l \o t
<1>2. Row(m) = r
  BY DEF Row
<1>3. <<FS>> \in Seq(Char) /\ Len(<<FS>>) = 1 /\ <<FS>>[1] = FS
  BY DEF Char
<1>4. /\ l \in Seq(Char) /\ Len(l) = Len(s) + 1
      /\ \A i \in 1 .. Len(s) : l[i] = s[i]
      /\ l[Len(s) + 1] = FS
  <2> HIDE DEF s, t
  <2>1. s \in Seq(Char) /\ Len(s) \in Nat
    BY <1>1 DEF s
  <2> QED
    BY <1>3, <2>1
<1> HIDE DEF s, t, l
<1>5. s \in Seq(Char) /\ t \in Seq(Char) /\ Len(s) \in Nat /\ Len(t) \in Nat
  BY <1>1 DEF s, t
<1>6. /\ r \in Seq(Char) /\ Len(r) = Len(l) + Len(t)
      /\ \A i \in 1 .. Len(l) + Len(t) : r[i] = IF i <= Len(l) THEN l[i] ELSE t[i - Len(l)]
  BY <1>4, <1>5, ConcatProperties
<1> HIDE DEF r
<1>7. \A i \in 1 .. Len(s) + 1 : r[i] = l[i]
  BY <1>4, <1>5, <1>6, SMTT(30)
<1>8. ASSUME NEW i \in 1 .. Len(t) PROVE r[Len(s) + 1 + i] = t[i]
  <2>1. /\ Len(s) + 1 + i \in 1 .. Len(l) + Len(t) /\ ~(Len(s) + 1 + i <= Len(l))
        /\ (Len(s) + 1 + i) - Len(l) = i
    BY <1>4, <1>5
  <2> QED
    BY <1>6, <2>1
<1>9. \A i \in 1 .. Len(s) : r[i] = s[i]
  BY <1>4, <1>5, <1>7
<1>10. r[Len(s) + 1] = FS
  BY <1>4, <1>5, <1>7
<1>11. Len(r) = Len(s) + 1 + Len(t)
  BY <1>4, <1>5, <1>6
<1> QED
  BY <1>2, <1>5, <1>6, <1>8, <1>9, <1>10, <1>11 DEF s, t

\* A pair that was cut to its maximum comes out of its row again.
LEMMA PairOfRow ==
    ASSUME NEW m \in MetaData, Len(m.name) <= MaxName, Len(m.value) <= MaxValue,
           \A i \in 1 .. Len(m.name) : m.name[i] # FS
    PROVE  HasField(Row(m)) /\ Pair(Row(m)) = m /\ First(Row(m), FS) = Len(m.name) + 1
<1> DEFINE r == Row(m)
           s == m.name
           t == m.value
           n == Len(s) + 1
<1>1. /\ s \in Seq(Char) /\ t \in Seq(Char)
      /\ r \in Seq(Char) /\ Len(r) = Len(s) + 1 + Len(t)
      /\ \A i \in 1 .. Len(s) : r[i] = s[i]
      /\ r[Len(s) + 1] = FS
      /\ \A i \in 1 .. Len(t) : r[Len(s) + 1 + i] = t[i]
  BY RowFacts
<1>2. Len(s) <= MaxName /\ Len(t) <= MaxValue /\ \A i \in 1 .. Len(s) : s[i] # FS
  OBVIOUS
<1> HIDE DEF r, s, t
<1>3. Len(s) \in Nat /\ Len(t) \in Nat /\ Len(r) \in Nat
  BY <1>1
<1>4. First(r, FS) = n
  <2>1. n \in 1 .. Len(r) + 1 /\ r[n] = FS
    BY <1>1, <1>3
  <2>2. \A i \in 1 .. n - 1 : r[i] # FS
    BY <1>1, <1>2, <1>3
  <2> HIDE DEF n
  <2> QED
    BY <1>1, <2>1, <2>2, FirstIs
<1>5. HasField(r)
  <2>1. n <= Len(r)
    BY <1>1, <1>3
  <2> QED
    BY <1>4, <2>1 DEF HasField
<1> DEFINE p == Pair(r)
<1>6. /\ p \in MetaData /\ Len(p.name) = Len(s) /\ Len(p.value) = Len(t)
      /\ \A i \in 1 .. Len(p.name) : p.name[i] = r[i]
      /\ \A i \in 1 .. Len(p.value) : p.value[i] = r[n + i]
  <2> HIDE DEF n
  <2>1. /\ p \in MetaData
        /\ n - 1 <= MaxName => Len(p.name) = n - 1
        /\ Len(r) - n <= MaxValue => Len(p.value) = Len(r) - n
        /\ \A i \in 1 .. Len(p.name) : p.name[i] = r[i]
        /\ \A i \in 1 .. Len(p.value) : p.value[i] = r[n + i]
    BY <1>1, <1>4, <1>5, PairFacts
  <2> HIDE DEF p
  <2>2. n - 1 = Len(s) /\ Len(r) - n = Len(t)
    BY <1>1, <1>3 DEF n
  <2> QED
    BY <1>2, <2>1, <2>2
<1> HIDE DEF p
<1>7. p.name \in Seq(Char) /\ p.value \in Seq(Char)
  BY <1>6 DEF MetaData
<1>8. p.name = s
  <2>1. \A i \in 1 .. Len(p.name) : p.name[i] = s[i]
    BY <1>1, <1>6
  <2> QED
    BY <1>1, <1>6, <1>7, <2>1, SeqEqual
<1>9. p.value = t
  <2>1. \A i \in 1 .. Len(p.value) : p.value[i] = t[i]
    BY <1>1, <1>6
  <2> QED
    BY <1>1, <1>6, <1>7, <2>1, SeqEqual
<1>10. p = m
  BY <1>6, <1>8, <1>9 DEF MetaData, s, t
<1> QED
  BY <1>4, <1>5, <1>10 DEF r, p, n, s

\* A row is picked when it has a field separator.
Picked(list, row) == IF HasField(row) THEN Append(list, Pair(row)) ELSE list

LEMMA PickedFacts ==
    ASSUME NEW list \in Seq(MetaData), NEW row \in Seq(Char)
    PROVE  /\ Picked(list, row) \in Seq(MetaData)
           /\ ~HasField(row) => Picked(list, row) = list
           /\ HasField(row) => /\ Len(Picked(list, row)) = Len(list) + 1
                               /\ Picked(list, row)[Len(list) + 1] = Pair(row)
                               /\ \A k \in 1 .. Len(list) : Picked(list, row)[k] = list[k]
<1>1. CASE HasField(row)
  <2>1. Pair(row) \in MetaData
    BY <1>1, PairFacts
  <2> QED
    BY <1>1, <2>1 DEF Picked
<1>2. CASE ~HasField(row)
  BY <1>2 DEF Picked
<1> QED
  BY <1>1, <1>2

\* The list of pairs grows row by row.
LEMMA PairsStep ==
    ASSUME NEW rows \in Seq(Seq(Char))
    PROVE  \E f \in [0 .. Len(rows) -> Seq(MetaData)] :
             /\ Pairs(rows) = f[Len(rows)] /\ f[0] = <<>>
             /\ \A k \in 1 .. Len(rows) : f[k] = Picked(f[k - 1], rows[k])
<1> DEFINE N == Len(rows)
           Eq(f) == f = [k \in 0 .. N |-> IF k = 0 THEN <<>> ELSE IF HasField(rows[k]) THEN Append(f[k - 1], Pair(rows[k])) ELSE f[k - 1]]
           sol  == CHOOSE f : Eq(f)
           step == [z \in (1 .. N) \X Seq(MetaData) |-> Picked(z[2], rows[z[1]])]
<1>1. Pairs(rows) = sol[N]
  BY DEF Pairs
<1>2. N \in Nat /\ \A k \in 1 .. N : rows[k] \in Seq(Char)
  OBVIOUS
<1>3. <<>> \in Seq(MetaData)
  OBVIOUS
<1>4. step \in [(1 .. N) \X Seq(MetaData) -> Seq(MetaData)]
  <2>1. \A z \in (1 .. N) \X Seq(MetaData) : Picked(z[2], rows[z[1]]) \in Seq(MetaData)
    BY <1>2, PickedFacts
  <2> QED
    BY <2>1
<1> HIDE DEF step
<1>5. \A f : Eq(f) <=> f = [k \in 0 .. N |-> IF k = 0 THEN <<>> ELSE Picked(f[k - 1], rows[k])]
  BY DEF Picked
<1> HIDE DEF Eq, N
<1>6. PICK g : Solves(g, N, Seq(MetaData), <<>>, step)
  BY <1>2, <1>3, <1>4, Recursion
<1>7. Eq(g)
  <2>1. ASSUME NEW k \in 1 .. N PROVE g[k] = Picked(g[k - 1], rows[k])
    <3>1. k - 1 \in 0 .. N
      BY <1>2
    <3>2. <<k, g[k - 1]>> \in (1 .. N) \X Seq(MetaData)
      BY <1>6, <3>1 DEF Solves
    <3> QED
      BY <1>6, <3>2 DEF step, Solves
  <2>2. \A k \in 0 .. N : g[k] = IF k = 0 THEN <<>> ELSE Picked(g[k - 1], rows[k])
    BY <1>2, <1>6, <2>1 DEF Solves
  <2>3. g = [k \in 0 .. N |-> g[k]]
    BY <1>6 DEF Solves
  <2>4. g = [k \in 0 .. N |-> IF k = 0 THEN <<>> ELSE Picked(g[k - 1], rows[k])]
    BY <2>2, <2>3
  <2> QED
    BY <1>5, <2>4
<1>8. sol = [k \in 0 .. N |-> IF k = 0 THEN <<>> ELSE Picked(sol[k - 1], rows[k])]
  <2>1. Eq(sol)
    BY <1>7
  <2> HIDE DEF sol
  <2> QED
    BY <1>5, <2>1
<1> HIDE DEF sol
<1>9. Solves(sol, N, Seq(MetaData), <<>>, step)
  <2>1. \A k \in 0 .. N : sol[k] = IF k = 0 THEN <<>> ELSE Picked(sol[k - 1], rows[k])
    BY <1>8
  <2>2. sol[0] = <<>>
    BY <1>2, <2>1
  <2>3. ASSUME NEW k \in 1 .. N, sol[k - 1] \in Seq(MetaData) PROVE sol[k] = step[<<k, sol[k - 1]>>]
    <3>1. sol[k] = Picked(sol[k - 1], rows[k])
      BY <1>2, <2>1
    <3> QED
      BY <2>3, <3>1 DEF step
  <2>4. sol = [k \in 0 .. N |-> sol[k]]
    BY <1>8
  <2> QED
    BY <1>2, <1>3, <1>4, <2>2, <2>3, <2>4, RecursionIn
<1>10. \A k \in 1 .. N : sol[k] = Picked(sol[k - 1], rows[k])
  <2> TAKE k \in 1 .. N
  <2>1. k - 1 \in 0 .. N
    BY <1>2
  <2>2. sol[k - 1] \in Seq(MetaData)
    BY <1>9, <2>1 DEF Solves
  <2> QED
    BY <1>9, <2>2 DEF Solves, step
<1> QED
  BY <1>1, <1>9, <1>10 DEF N, Solves

\* A packed pair comes behind those before it.
Behind(s, m) == s \o Row(m) \o <<RS>>

LEMMA BehindFacts ==
    ASSUME NEW s \in Seq(Char), NEW m \in MetaData
    PROVE  /\ Behind(s, m) \in Seq(Char) /\ Len(Behind(s, m)) = Len(s) + Len(Row(m)) + 1
           /\ \A i \in 1 .. Len(s) : Behind(s, m)[i] = s[i]
           /\ \A i \in 1 .. Len(Row(m)) : Behind(s, m)[Len(s) + i] = Row(m)[i]
           /\ Behind(s, m)[Len(s) + Len(Row(m)) + 1] = RS
<1> DEFINE r == Row(m)
           l == s \o r
           b == l \o <<RS>>
<1>1. Behind(s, m) = b
  BY DEF Behind
<1>2. r \in Seq(Char) /\ Len(r) \in Nat /\ Len(s) \in Nat
  <2>1. r \in Seq(Char)
    BY RowFacts
  <2> HIDE DEF r
  <2> QED
    BY <2>1
<1>3. <<RS>> \in Seq(Char) /\ Len(<<RS>>) = 1 /\ <<RS>>[1] = RS
  BY DEF Char
<1> HIDE DEF r
<1>4. /\ l \in Seq(Char) /\ Len(l) = Len(s) + Len(r)
      /\ \A i \in 1 .. Len(s) + Len(r) : l[i] = IF i <= Len(s) THEN s[i] ELSE r[i - Len(s)]
  BY <1>2, ConcatProperties
<1> HIDE DEF l
<1>5. /\ b \in Seq(Char) /\ Len(b) = Len(l) + 1
      /\ \A i \in 1 .. Len(l) : b[i] = l[i]
      /\ b[Len(l) + 1] = RS
  BY <1>3, <1>4
<1> HIDE DEF b
<1>6. \A i \in 1 .. Len(s) : b[i] = s[i]
  BY <1>2, <1>4, <1>5
<1>7. ASSUME NEW i \in 1 .. Len(r) PROVE b[Len(s) + i] = r[i]
  <2>1. Len(s) + i \in 1 .. Len(l) /\ ~(Len(s) + i <= Len(s)) /\ (Len(s) + i) - Len(s) = i
    BY <1>2, <1>4
  <2> QED
    BY <1>4, <1>5, <2>1
<1> QED
  BY <1>1, <1>2, <1>4, <1>5, <1>6, <1>7 DEF r

\* The packed pairs grow pair by pair.
LEMMA JoinedStep ==
    ASSUME NEW list \in Seq(MetaData)
    PROVE  \E f \in [0 .. Len(list) -> Seq(Char)] :
             /\ Joined(list) = f[Len(list)] /\ f[0] = <<>>
             /\ \A k \in 1 .. Len(list) : f[k] = Behind(f[k - 1], list[k])
<1> DEFINE N == Len(list)
           Eq(f) == f = [k \in 0 .. N |-> IF k = 0 THEN <<>> ELSE f[k - 1] \o Row(list[k]) \o <<RS>>]
           sol  == CHOOSE f : Eq(f)
           step == [z \in (1 .. N) \X Seq(Char) |-> Behind(z[2], list[z[1]])]
<1>1. Joined(list) = sol[N]
  BY DEF Joined
<1>2. N \in Nat /\ \A k \in 1 .. N : list[k] \in MetaData
  OBVIOUS
<1>3. <<>> \in Seq(Char)
  OBVIOUS
<1>4. step \in [(1 .. N) \X Seq(Char) -> Seq(Char)]
  <2>1. \A z \in (1 .. N) \X Seq(Char) : Behind(z[2], list[z[1]]) \in Seq(Char)
    BY <1>2, BehindFacts
  <2> QED
    BY <2>1
<1> HIDE DEF step
<1>5. \A f : Eq(f) <=> f = [k \in 0 .. N |-> IF k = 0 THEN <<>> ELSE Behind(f[k - 1], list[k])]
  BY DEF Behind
<1> HIDE DEF Eq, N
<1>6. PICK g : Solves(g, N, Seq(Char), <<>>, step)
  BY <1>2, <1>3, <1>4, Recursion
<1>7. Eq(g)
  <2>1. ASSUME NEW k \in 1 .. N PROVE g[k] = Behind(g[k - 1], list[k])
    <3>1. k - 1 \in 0 .. N
      BY <1>2
    <3>2. <<k, g[k - 1]>> \in (1 .. N) \X Seq(Char)
      BY <1>6, <3>1 DEF Solves
    <3> QED
      BY <1>6, <3>2 DEF step, Solves
  <2>2. \A k \in 0 .. N : g[k] = IF k = 0 THEN <<>> ELSE Behind(g[k - 1], list[k])
    BY <1>2, <1>6, <2>1 DEF Solves
  <2>3. g = [k \in 0 .. N |-> g[k]]
    BY <1>6 DEF Solves
  <2>4. g = [k \in 0 .. N |-> IF k = 0 THEN <<>> ELSE Behind(g[k - 1], list[k])]
    BY <2>2, <2>3
  <2> QED
    BY <1>5, <2>4
<1>8. sol = [k \in 0 .. N |-> IF k = 0 THEN <<>> ELSE Behind(sol[k - 1], list[k])]
  <2>1. Eq(sol)
    BY <1>7
  <2> HIDE DEF sol
  <2> QED
    BY <1>5, <2>1
<1> HIDE DEF sol
<1>9. Solves(sol, N, Seq(Char), <<>>, step)
  <2>1. \A k \in 0 .. N : sol[k] = IF k = 0 THEN <<>> ELSE Behind(sol[k - 1], list[k])
    BY <1>8
  <2>2. sol[0] = <<>>
    BY <1>2, <2>1
  <2>3. ASSUME NEW k \in 1 .. N, sol[k - 1] \in Seq(Char) PROVE sol[k] = step[<<k, sol[k - 1]>>]
    <3>1. sol[k] = Behind(sol[k - 1], list[k])
      BY <1>2, <2>1
    <3> QED
      BY <2>3, <3>1 DEF step
  <2>4. sol = [k \in 0 .. N |-> sol[k]]
    BY <1>8
  <2> QED
    BY <1>2, <1>3, <1>4, <2>2, <2>3, <2>4, RecursionIn
<1>10. \A k \in 1 .. N : sol[k] = Behind(sol[k - 1], list[k])
  <2> TAKE k \in 1 .. N
  <2>1. k - 1 \in 0 .. N
    BY <1>2
  <2>2. sol[k - 1] \in Seq(Char)
    BY <1>9, <2>1 DEF Solves
  <2> QED
    BY <1>9, <2>2 DEF Solves, step
<1> QED
  BY <1>1, <1>9, <1>10 DEF N, Solves

-----------------------------------------------------------------------------
(* What rows are made of                                                   *)

\* The characters of the rows, and their places: those of the characters and one
\* behind each row.
RowChars(rows) == UNION {Range(rows[k]) : k \in 1 .. Len(rows)}
Places(rows) ==
    {z \in Nat \X Nat : z[1] \in 1 .. Len(rows) /\ z[2] \in 1 .. Len(rows[z[1]]) + 1}

LEMMA TakenChars ==
    ASSUME NEW b \in SomeRows, NEW c \in Char
    PROVE  RowChars(Taken(b, c)) = RowChars(b) \cup ({c} \ {RS})
<1> DEFINE r == Taken(b, c)
           n == Len(b)
<1>1. /\ n \in Nat \ {0} /\ r \in SomeRows
      /\ c = RS => Len(r) = n + 1 /\ r[n + 1] = <<>> /\ \A k \in 1 .. n : r[k] = b[k]
      /\ c # RS => Len(r) = n /\ r[n] = Append(b[n], c) /\ \A k \in 1 .. n - 1 : r[k] = b[k]
  BY TakenRows
<1> HIDE DEF r, n
<1>2. CASE c = RS
  <2>1. Range(<<>>) = {}
    BY DEF Range
  <2>2. 1 .. n + 1 = (1 .. n) \cup {n + 1}
    BY <1>1
  <2>3. RowChars(r) = RowChars(b)
    <3>1. ASSUME NEW x \in RowChars(r) PROVE x \in RowChars(b)
      <4>1. PICK k \in 1 .. n + 1 : x \in Range(r[k])
        BY <1>1, <1>2 DEF RowChars
      <4>2. k \in 1 .. n
        BY <1>1, <1>2, <2>1, <2>2, <4>1
      <4> QED
        BY <1>1, <1>2, <4>1, <4>2 DEF RowChars, n
    <3>2. ASSUME NEW x \in RowChars(b) PROVE x \in RowChars(r)
      <4>1. PICK k \in 1 .. n : x \in Range(b[k])
        BY DEF RowChars, n
      <4>2. k \in 1 .. Len(r) /\ x \in Range(r[k])
        BY <1>1, <1>2, <2>2, <4>1
      <4> QED
        BY <4>2 DEF RowChars
    <3> QED
      BY <3>1, <3>2
  <2> QED
    BY <1>2, <2>3 DEF r
<1>3. CASE c # RS
  <2>1. b[n] \in Seq(Char)
    BY <1>1 DEF SomeRows, n
  <2>2. Range(r[n]) = Range(b[n]) \cup {c}
    <3> DEFINE s == b[n]
    <3> HIDE DEF s
    <3>1. s \in Seq(Char)
      BY <2>1 DEF s
    <3>2. Range(Append(s, c)) = Range(s) \cup {c}
      <4>1. /\ DOMAIN s = 1 .. Len(s) /\ Len(s) \in Nat
            /\ DOMAIN Append(s, c) = 1 .. Len(s) + 1
            /\ Append(s, c)[Len(s) + 1] = c
            /\ \A i \in 1 .. Len(s) : Append(s, c)[i] = s[i]
        BY <3>1
      <4>2. 1 .. Len(s) + 1 = (1 .. Len(s)) \cup {Len(s) + 1}
        BY <4>1
      <4> QED
        BY <4>1, <4>2 DEF Range
    <3> QED
      BY <1>1, <1>3, <3>2 DEF s
  <2>3. 1 .. n = (1 .. n - 1) \cup {n}
    BY <1>1
  <2>4. ASSUME NEW x \in RowChars(r) PROVE x \in RowChars(b) \cup {c}
    <3>1. PICK k \in 1 .. n : x \in Range(r[k])
      BY <1>1, <1>3 DEF RowChars
    <3>2. x \in Range(b[k]) \/ x = c
      BY <1>1, <1>3, <2>2, <2>3, <3>1
    <3> QED
      BY <3>1, <3>2 DEF RowChars, n
  <2>5. ASSUME NEW x \in RowChars(b) \cup {c} PROVE x \in RowChars(r)
    <3>1. CASE x = c
      <4>1. n \in 1 .. Len(r) /\ x \in Range(r[n])
        BY <1>1, <1>3, <2>2, <3>1
      <4> QED
        BY <4>1 DEF RowChars
    <3>2. CASE x \in RowChars(b)
      <4>1. PICK k \in 1 .. n : x \in Range(b[k])
        BY <3>2 DEF RowChars, n
      <4>2. k \in 1 .. Len(r) /\ x \in Range(r[k])
        BY <1>1, <1>3, <2>2, <2>3, <4>1
      <4> QED
        BY <4>2 DEF RowChars
    <3> QED
      BY <3>1, <3>2
  <2> QED
    BY <1>3, <2>4, <2>5 DEF r
<1> QED
  BY <1>2, <1>3

LEMMA TakenPlaces ==
    ASSUME NEW b \in SomeRows, NEW c \in Char, IsFiniteSet(Places(b))
    PROVE  /\ IsFiniteSet(Places(Taken(b, c)))
           /\ Cardinality(Places(Taken(b, c))) = Cardinality(Places(b)) + 1
<1> DEFINE r == Taken(b, c)
           n == Len(b)
           new == IF c = RS THEN <<n + 1, 1>> ELSE <<n, Len(b[n]) + 2>>
<1>1. /\ n \in Nat \ {0} /\ r \in SomeRows
      /\ c = RS => Len(r) = n + 1 /\ r[n + 1] = <<>> /\ \A k \in 1 .. n : r[k] = b[k]
      /\ c # RS => Len(r) = n /\ r[n] = Append(b[n], c) /\ \A k \in 1 .. n - 1 : r[k] = b[k]
  BY TakenRows
<1> HIDE DEF r, n
<1>2. \A k \in 1 .. n : Len(b[k]) \in Nat
  <2>1. \A k \in 1 .. n : b[k] \in Seq(Char)
    BY <1>1 DEF SomeRows, n
  <2> QED
    BY <2>1
<1>3. Places(b) = {z \in Nat \X Nat : z[1] \in 1 .. n /\ z[2] \in 1 .. Len(b[z[1]]) + 1}
  BY DEF Places, n
<1>4. Places(r) = Places(b) \cup {new} /\ new \notin Places(b)
  <2>1. CASE c = RS
    <3>1. Len(r[n + 1]) = 0
      BY <1>1, <2>1
    <3>2. new = <<n + 1, 1>> /\ new \in Nat \X Nat /\ new[1] = n + 1 /\ new[2] = 1
      BY <1>1, <2>1
    <3>3. new \notin Places(b)
      BY <1>1, <1>3, <3>2
    <3>4. ASSUME NEW z \in Nat \X Nat PROVE z \in Places(r) <=> z \in Places(b) \/ z = new
      <4>1. z = <<z[1], z[2]>>
        OBVIOUS
      <4>2. z \in Places(r) <=> z[1] \in 1 .. n + 1 /\ z[2] \in 1 .. Len(r[z[1]]) + 1
        BY <1>1, <2>1 DEF Places
      <4>3. CASE z[1] = n + 1
        <5>1. z \in Places(r) <=> z[2] = 1
          BY <1>1, <3>1, <4>2, <4>3
        <5>2. z \notin Places(b)
          BY <1>1, <1>3, <4>3
        <5> QED
          BY <3>2, <4>1, <4>3, <5>1, <5>2
      <4>4. CASE z[1] # n + 1
        <5>1. z \in Places(r) <=> z \in Places(b)
          BY <1>1, <1>3, <2>1, <4>2, <4>4
        <5> QED
          BY <3>2, <4>4, <5>1
      <4> QED
        BY <4>3, <4>4
    <3> QED
      BY <3>2, <3>3, <3>4 DEF Places
  <2>2. CASE c # RS
    <3>1. Len(r[n]) = Len(b[n]) + 1 /\ Len(b[n]) \in Nat
      <4>1. n \in 1 .. n
        BY <1>1
      <4>2. b[n] \in Seq(Char)
        BY <1>1, <4>1 DEF SomeRows, n
      <4> QED
        BY <1>1, <2>2, <4>2
    <3>2. new = <<n, Len(b[n]) + 2>> /\ new \in Nat \X Nat /\ new[1] = n /\ new[2] = Len(b[n]) + 2
      BY <1>1, <2>2, <3>1
    <3>3. new \notin Places(b)
      BY <1>1, <1>3, <3>1, <3>2
    <3>4. ASSUME NEW z \in Nat \X Nat PROVE z \in Places(r) <=> z \in Places(b) \/ z = new
      <4>1. z = <<z[1], z[2]>>
        OBVIOUS
      <4>2. z \in Places(r) <=> z[1] \in 1 .. n /\ z[2] \in 1 .. Len(r[z[1]]) + 1
        BY <1>1, <2>2 DEF Places
      <4>3. CASE z[1] = n
        <5>1. z \in Places(r) <=> z[2] \in 1 .. Len(b[n]) + 2
          BY <1>1, <3>1, <4>2, <4>3
        <5>2. z \in Places(b) <=> z[2] \in 1 .. Len(b[n]) + 1
          BY <1>1, <1>3, <4>3
        <5> QED
          BY <3>1, <3>2, <4>1, <4>3, <5>1, <5>2
      <4>4. CASE z[1] # n
        <5>1. z[1] \in 1 .. n => r[z[1]] = b[z[1]]
          BY <1>1, <2>2, <4>4
        <5> QED
          BY <1>3, <3>2, <4>2, <4>4, <5>1
      <4> QED
        BY <4>3, <4>4
    <3> QED
      BY <3>2, <3>3, <3>4 DEF Places
  <2> QED
    BY <2>1, <2>2
<1> HIDE DEF new
<1> QED
  BY <1>4, FS_AddElement DEF r

\* splitEx loses nothing but the separators, and each character or separator
\* makes room for itself.
LEMMA RowsShape ==
    ASSUME NEW text \in Seq(Char)
    PROVE  /\ Rows(text) \in SomeRows
           /\ RowChars(Rows(text)) = Range(text) \ {RS}
           /\ IsFiniteSet(Places(Rows(text))) /\ Cardinality(Places(Rows(text))) = Len(text) + 1
<1>1. PICK f \in [0 .. Len(text) -> SomeRows] :
        /\ Rows(text) = f[Len(text)] /\ f[0] = << <<>> >>
        /\ \A n \in 1 .. Len(text) : f[n] = Taken(f[n - 1], text[n])
  BY RowsStep
<1> DEFINE N == Len(text)
           B == {n \in 0 .. N :
                   /\ RowChars(f[n]) = {text[j] : j \in 1 .. n} \ {RS}
                   /\ IsFiniteSet(Places(f[n])) /\ Cardinality(Places(f[n])) = n + 1}
<1>2. N \in Nat /\ DOMAIN text = 1 .. N /\ \A n \in 1 .. N : text[n] \in Char
  OBVIOUS
<1>3. 0 \in B
  <2> DEFINE r == << <<>> >>
  <2>1. Len(r) = 1 /\ r[1] = <<>> /\ Len(<<>>) = 0 /\ DOMAIN <<>> = {}
    OBVIOUS
  <2> HIDE DEF r
  <2>2. RowChars(r) = {}
    BY <2>1 DEF RowChars, Range
  <2>3. Places(r) = {<<1, 1>>}
    BY <2>1 DEF Places
  <2>4. IsFiniteSet(Places(r)) /\ Cardinality(Places(r)) = 1
    BY <2>3, FS_Singleton
  <2>5. {text[j] : j \in 1 .. 0} = {}
    OBVIOUS
  <2> QED
    BY <1>1, <1>2, <2>2, <2>4, <2>5 DEF r
<1>4. ASSUME NEW n \in 0 .. N - 1, n \in B PROVE n + 1 \in B
  <2>1. n + 1 \in 1 .. N /\ (n + 1) - 1 = n /\ f[n] \in SomeRows /\ text[n + 1] \in Char /\ n \in Nat
    BY <1>1, <1>2
  <2>2. f[n + 1] = Taken(f[n], text[n + 1])
    BY <1>1, <2>1
  <2>3. /\ IsFiniteSet(Places(f[n + 1])) /\ Cardinality(Places(f[n + 1])) = (n + 1) + 1
    BY <1>4, <2>1, <2>2, TakenPlaces
  <2>4. RowChars(f[n + 1]) = {text[j] : j \in 1 .. n + 1} \ {RS}
    <3>1. 1 .. n + 1 = (1 .. n) \cup {n + 1}
      BY <2>1
    <3>2. {text[j] : j \in 1 .. n + 1} = {text[j] : j \in 1 .. n} \cup {text[n + 1]}
      BY <3>1
    <3> QED
      BY <1>4, <2>1, <2>2, <3>2, TakenChars
  <2> QED
    BY <2>1, <2>3, <2>4
<1>5. N \in B
  <2>1. B \in SUBSET (0 .. N)
    OBVIOUS
  <2> HIDE DEF B, N
  <2>2. B = 0 .. N
    BY <1>2, <1>3, <1>4, <2>1, Induction
  <2> QED
    BY <1>2, <2>2
<1>6. {text[j] : j \in 1 .. N} = Range(text)
  BY <1>2 DEF Range
<1> QED
  BY <1>1, <1>2, <1>5, <1>6

\* Every pair is that of a row, no two of the same one, and no row with a field
\* separator is left out.
LEMMA PairsShape ==
    ASSUME NEW rows \in Seq(Seq(Char))
    PROVE  /\ Pairs(rows) \in Seq(MetaData)
           /\ \E j \in [1 .. Len(Pairs(rows)) -> 1 .. Len(rows)] :
                /\ \A k \in 1 .. Len(Pairs(rows)) :
                     HasField(rows[j[k]]) /\ Pairs(rows)[k] = Pair(rows[j[k]])
                /\ \A k, l \in 1 .. Len(Pairs(rows)) : j[k] = j[l] => k = l
           /\ (\A k \in 1 .. Len(rows) : HasField(rows[k])) =>
                /\ Len(Pairs(rows)) = Len(rows)
                /\ \A k \in 1 .. Len(rows) : Pairs(rows)[k] = Pair(rows[k])
           /\ Len(Pairs(rows)) = 0 => \A k \in 1 .. Len(rows) : ~HasField(rows[k])
<1>1. PICK f \in [0 .. Len(rows) -> Seq(MetaData)] :
        /\ Pairs(rows) = f[Len(rows)] /\ f[0] = <<>>
        /\ \A k \in 1 .. Len(rows) : f[k] = Picked(f[k - 1], rows[k])
  BY PairsStep
<1> DEFINE N == Len(rows)
           From(n, j) == /\ j \in [1 .. Len(f[n]) -> 1 .. n]
                         /\ \A k \in 1 .. Len(f[n]) :
                              HasField(rows[j[k]]) /\ f[n][k] = Pair(rows[j[k]])
                         /\ \A k, l \in 1 .. Len(f[n]) : j[k] = j[l] => k = l
           All(n)  == (\A k \in 1 .. n : HasField(rows[k])) =>
                         Len(f[n]) = n /\ \A k \in 1 .. n : f[n][k] = Pair(rows[k])
           None(n) == Len(f[n]) = 0 => \A k \in 1 .. n : ~HasField(rows[k])
           B == {n \in 0 .. N : (\E j : From(n, j)) /\ All(n) /\ None(n)}
<1>2. N \in Nat /\ \A k \in 1 .. N : rows[k] \in Seq(Char)
  <2> DEFINE S == Seq(Char)
  <2> HIDE DEF S
  <2>1. rows \in Seq(S)
    BY DEF S
  <2> QED
    BY <2>1 DEF S
<1>3. 0 \in B
  <2>1. Len(f[0]) = 0 /\ 0 \in 0 .. N
    BY <1>1, <1>2
  <2> DEFINE j == [k \in 1 .. 0 |-> k]
  <2>2. From(0, j)
    BY <2>1
  <2>3. All(0) /\ None(0)
    BY <2>1
  <2> HIDE DEF From, All, None, j
  <2> QED
    BY <2>1, <2>2, <2>3
<1>4. ASSUME NEW n \in 0 .. N - 1, n \in B PROVE n + 1 \in B
  <2>1. /\ n + 1 \in 1 .. N /\ n + 1 \in 0 .. N /\ (n + 1) - 1 = n /\ n \in Nat
        /\ f[n] \in Seq(MetaData) /\ rows[n + 1] \in Seq(Char)
    <3>1. n + 1 \in 1 .. N /\ n + 1 \in 0 .. N /\ (n + 1) - 1 = n /\ n \in Nat /\ n \in 0 .. N
      BY <1>2
    <3>2. f[n] \in Seq(MetaData)
      BY <1>1, <3>1
    <3> QED
      BY <1>2, <3>1, <3>2
  <2>2. f[n + 1] = Picked(f[n], rows[n + 1])
    BY <1>1, <2>1
  <2>3. PICK j : From(n, j)
    BY <1>4
  <2>4. All(n) /\ None(n)
    BY <1>4
  <2>5. Len(f[n]) \in Nat /\ 1 .. n + 1 = (1 .. n) \cup {n + 1}
    BY <2>1
  <2>6. CASE ~HasField(rows[n + 1])
    <3>1. f[n + 1] = f[n]
      BY <2>1, <2>2, <2>6, PickedFacts
    <3>2. From(n + 1, j)
      BY <2>3, <2>5, <3>1
    <3>3. All(n + 1) /\ None(n + 1)
      BY <2>1, <2>4, <2>5, <2>6, <3>1
    <3> HIDE DEF From, All, None
    <3> QED
      BY <2>1, <3>2, <3>3
  <2>7. CASE HasField(rows[n + 1])
    <3> DEFINE m == Len(f[n])
               i == [k \in 1 .. m + 1 |-> IF k = m + 1 THEN n + 1 ELSE j[k]]
    <3>1. /\ Len(f[n + 1]) = m + 1 /\ f[n + 1][m + 1] = Pair(rows[n + 1])
          /\ \A k \in 1 .. m : f[n + 1][k] = f[n][k]
      <4> DEFINE g == f[n]
                 r == rows[n + 1]
      <4>1. g \in Seq(MetaData) /\ r \in Seq(Char) /\ HasField(r) /\ f[n + 1] = Picked(g, r)
        BY <2>1, <2>2, <2>7
      <4> HIDE DEF g, r
      <4>2. /\ Len(Picked(g, r)) = Len(g) + 1 /\ Picked(g, r)[Len(g) + 1] = Pair(r)
            /\ \A k \in 1 .. Len(g) : Picked(g, r)[k] = g[k]
        BY <4>1, PickedFacts
      <4> QED
        BY <4>1, <4>2 DEF g, r
    <3>2. m \in Nat /\ 1 .. m + 1 = (1 .. m) \cup {m + 1} /\ m + 1 \notin 1 .. m
      BY <2>5
    <3>3. /\ j \in [1 .. m -> 1 .. n]
          /\ \A k \in 1 .. m : HasField(rows[j[k]]) /\ f[n][k] = Pair(rows[j[k]])
          /\ \A k, l \in 1 .. m : j[k] = j[l] => k = l
      BY <2>3
    <3>4. All(n + 1)
      <4> SUFFICES ASSUME \A k \in 1 .. n + 1 : HasField(rows[k])
                   PROVE  Len(f[n + 1]) = n + 1 /\ \A k \in 1 .. n + 1 : f[n + 1][k] = Pair(rows[k])
        OBVIOUS
      <4>1. m = n /\ \A k \in 1 .. n : f[n][k] = Pair(rows[k])
        BY <2>4, <2>5
      <4> HIDE DEF m
      <4> QED
        BY <2>5, <3>1, <4>1
    <3>5. None(n + 1)
      BY <3>1, <3>2
    <3> HIDE DEF m
    <3>6. /\ i \in [1 .. m + 1 -> 1 .. n + 1]
          /\ i[m + 1] = n + 1 /\ \A k \in 1 .. m : i[k] = j[k] /\ i[k] \in 1 .. n
      BY <2>5, <3>2, <3>3
    <3> HIDE DEF i
    <3>7. \A k \in 1 .. m + 1 : HasField(rows[i[k]]) /\ f[n + 1][k] = Pair(rows[i[k]])
      BY <2>7, <3>1, <3>2, <3>3, <3>6
    <3>8. \A k, l \in 1 .. m + 1 : i[k] = i[l] => k = l
      <4>1. n + 1 \notin 1 .. n
        BY <2>1
      <4> QED
        BY <3>2, <3>3, <3>6, <4>1, SMTT(30)
    <3>9. From(n + 1, i)
      BY <3>1, <3>6, <3>7, <3>8
    <3> HIDE DEF From, All, None
    <3> QED
      BY <2>1, <3>4, <3>5, <3>9
  <2> QED
    BY <2>6, <2>7
<1>5. N \in B
  <2>1. B \in SUBSET (0 .. N)
    OBVIOUS
  <2> HIDE DEF B, N
  <2>2. B = 0 .. N
    BY <1>2, <1>3, <1>4, <2>1, Induction
  <2> QED
    BY <1>2, <2>2
<1>6. (\E j : From(N, j)) /\ All(N) /\ None(N)
  <2> HIDE DEF From, All, None
  <2> QED
    BY <1>5
<1> DEFINE p == Pairs(rows)
<1>7. p = f[N] /\ p \in Seq(MetaData)
  BY <1>1, <1>2
<1> HIDE DEF p, N
<1>8. PICK j : /\ j \in [1 .. Len(p) -> 1 .. N]
               /\ \A k \in 1 .. Len(p) : HasField(rows[j[k]]) /\ p[k] = Pair(rows[j[k]])
               /\ \A k, l \in 1 .. Len(p) : j[k] = j[l] => k = l
  BY <1>6, <1>7
<1>9. (\A k \in 1 .. N : HasField(rows[k])) =>
        Len(p) = N /\ \A k \in 1 .. N : p[k] = Pair(rows[k])
  BY <1>6, <1>7
<1>10. Len(p) = 0 => \A k \in 1 .. N : ~HasField(rows[k])
  BY <1>6, <1>7
<1> HIDE DEF From, All, None
<1> QED
  BY <1>7, <1>8, <1>9, <1>10 DEF p, N

PairRows(list) == [k \in 1 .. Len(list) |-> Row(list[k])]

LEMMA PairRowsFacts ==
    ASSUME NEW list \in Seq(MetaData)
    PROVE  /\ PairRows(list) \in Seq(Seq(Char)) /\ Len(PairRows(list)) = Len(list)
           /\ \A k \in 1 .. Len(list) : /\ list[k] \in MetaData /\ PairRows(list)[k] = Row(list[k])
                                        /\ Row(list[k]) \in Seq(Char) /\ Len(Row(list[k])) \in Nat
<1> DEFINE S == Seq(Char)
<1>1. Len(list) \in Nat /\ \A k \in 1 .. Len(list) : list[k] \in MetaData
  OBVIOUS
<1>2. \A k \in 1 .. Len(list) : Row(list[k]) \in S
  BY <1>1, RowFacts
<1>3. \A s \in S : Len(s) \in Nat
  OBVIOUS
<1> HIDE DEF S
<1>4. PairRows(list) \in Seq(S) /\ Len(PairRows(list)) = Len(list)
  BY <1>1, <1>2 DEF PairRows
<1> QED
  BY <1>1, <1>2, <1>3, <1>4 DEF S, PairRows

\* A packed pair takes no more room than its row, and as much when nothing of it
\* was cut.
LEMMA RowOfPair ==
    ASSUME NEW row \in Seq(Char), HasField(row)
    PROVE  /\ Len(Row(Pair(row))) <= Len(row) /\ Len(Row(Pair(row))) \in Nat
           /\ First(row, FS) - 1 <= MaxName /\ Len(row) - First(row, FS) <= MaxValue =>
                Len(Row(Pair(row))) = Len(row)
<1> DEFINE n == First(row, FS)
           m == Pair(row)
           a == Len(m.name)
           b == Len(m.value)
<1>1. /\ n \in 1 .. Len(row) /\ m \in MetaData
      /\ a <= n - 1 /\ b <= Len(row) - n
      /\ n - 1 <= MaxName => a = n - 1
      /\ Len(row) - n <= MaxValue => b = Len(row) - n
  BY PairFacts
<1>2. Len(Row(m)) = a + 1 + b /\ Len(Row(m)) \in Nat
  <2>1. Row(m) \in Seq(Char) /\ Len(Row(m)) = a + 1 + b
    BY <1>1, RowFacts
  <2> HIDE DEF m, a, b
  <2> QED
    BY <2>1
<1>3. a \in Nat /\ b \in Nat /\ Len(row) \in Nat
  <2>1. m.name \in Seq(Char) /\ m.value \in Seq(Char)
    BY <1>1 DEF MetaData
  <2> HIDE DEF m
  <2> QED
    BY <2>1
<1> HIDE DEF n, m, a, b
<1> QED
  BY <1>1, <1>2, <1>3 DEF n, m

\* So the pairs fit where the rows were.
LEMMA PairsFit ==
    ASSUME NEW rows \in Seq(Seq(Char)), IsFiniteSet(Places(rows))
    PROVE  LET pairs == PairRows(Pairs(rows))
           IN  /\ IsFiniteSet(Places(pairs))
               /\ Cardinality(Places(pairs)) <= Cardinality(Places(rows))
               /\ (\A k \in 1 .. Len(rows) :
                     /\ HasField(rows[k]) /\ First(rows[k], FS) - 1 <= MaxName
                     /\ Len(rows[k]) - First(rows[k], FS) <= MaxValue) =>
                    Cardinality(Places(pairs)) = Cardinality(Places(rows))
<1> DEFINE L == Pairs(rows)
           R == PairRows(L)
<1>1. L \in Seq(MetaData) /\ Len(L) \in Nat
  <2>1. L \in Seq(MetaData)
    BY PairsShape
  <2> HIDE DEF L
  <2> QED
    BY <2>1
<1>2. PICK j \in [1 .. Len(L) -> 1 .. Len(rows)] :
        /\ \A k \in 1 .. Len(L) : HasField(rows[j[k]]) /\ L[k] = Pair(rows[j[k]])
        /\ \A k, l \in 1 .. Len(L) : j[k] = j[l] => k = l
  BY PairsShape
<1>3. Len(rows) \in Nat /\ \A k \in 1 .. Len(rows) : rows[k] \in Seq(Char) /\ Len(rows[k]) \in Nat
  <2> DEFINE S == Seq(Char)
  <2>1. \A s \in S : Len(s) \in Nat
    OBVIOUS
  <2> HIDE DEF S
  <2>2. rows \in Seq(S)
    BY DEF S
  <2>3. Len(rows) \in Nat /\ \A k \in 1 .. Len(rows) : rows[k] \in S
    BY <2>2
  <2> QED
    BY <2>1, <2>3 DEF S
<1>4. /\ Len(R) = Len(L)
      /\ \A k \in 1 .. Len(L) : R[k] = Row(L[k])
  BY <1>1, PairRowsFacts
<1> HIDE DEF L, R
<1>5. ASSUME NEW k \in 1 .. Len(L)
      PROVE  j[k] \in 1 .. Len(rows) /\ Len(R[k]) <= Len(rows[j[k]]) /\ Len(R[k]) \in Nat
  <2>1. /\ j[k] \in 1 .. Len(rows) /\ rows[j[k]] \in Seq(Char) /\ HasField(rows[j[k]])
        /\ R[k] = Row(Pair(rows[j[k]]))
    BY <1>2, <1>3, <1>4
  <2> QED
    BY <2>1, RowOfPair
<1> DEFINE g == [z \in Places(R) |-> <<j[z[1]], z[2]>>]
<1>6. g \in Injection(Places(R), Places(rows))
  <2>1. \A z \in Places(R) : /\ z = <<z[1], z[2]>> /\ z[1] \in 1 .. Len(L)
                             /\ z[2] \in 1 .. Len(R[z[1]]) + 1 /\ z[2] \in Nat
    BY <1>4 DEF Places
  <2>2. ASSUME NEW z \in Places(R) PROVE <<j[z[1]], z[2]>> \in Places(rows)
    <3> DEFINE k == z[1]
    <3>1. k \in 1 .. Len(L) /\ z[2] \in 1 .. Len(R[k]) + 1 /\ z[2] \in Nat
      BY <2>1
    <3>2. j[k] \in 1 .. Len(rows) /\ Len(R[k]) <= Len(rows[j[k]]) /\ Len(R[k]) \in Nat
          /\ Len(rows[j[k]]) \in Nat
      BY <1>3, <1>5, <3>1
    <3>3. z[2] \in 1 .. Len(rows[j[k]]) + 1 /\ j[k] \in Nat
      BY <1>3, <3>1, <3>2, SMTT(30)
    <3> HIDE DEF k
    <3>4. <<j[k], z[2]>> \in Places(rows)
      BY <3>1, <3>2, <3>3 DEF Places
    <3> QED
      BY <3>4 DEF k
  <2>3. ASSUME NEW y \in Places(R), NEW z \in Places(R), g[y] = g[z] PROVE y = z
    <3>1. j[y[1]] = j[z[1]] /\ y[2] = z[2]
      BY <2>3
    <3>2. y[1] = z[1]
      BY <1>2, <2>1, <3>1
    <3> QED
      BY <2>1, <3>1, <3>2
  <2>4. g \in [Places(R) -> Places(rows)]
    BY <2>2
  <2> HIDE DEF g
  <2> QED
    BY <2>3, <2>4 DEF Injection, IsInjective
<1>7. IsFiniteSet(Places(R)) /\ Cardinality(Places(R)) <= Cardinality(Places(rows))
  <2> HIDE DEF g
  <2> QED
    BY <1>6, FS_Injection
<1>8. ASSUME \A k \in 1 .. Len(rows) :
                /\ HasField(rows[k]) /\ First(rows[k], FS) - 1 <= MaxName
                /\ Len(rows[k]) - First(rows[k], FS) <= MaxValue
      PROVE  Places(R) = Places(rows)
  <2>1. Len(L) = Len(rows) /\ \A k \in 1 .. Len(rows) : L[k] = Pair(rows[k])
    BY <1>8, PairsShape DEF L
  <2>2. \A k \in 1 .. Len(rows) : Len(R[k]) = Len(rows[k])
    BY <1>3, <1>4, <1>8, <2>1, RowOfPair
  <2> QED
    BY <1>4, <2>1, <2>2 DEF Places
<1> QED
  BY <1>7, <1>8 DEF L, R

\* Any order of the pairs takes the same room.
LEMMA ReorderedPairs ==
    ASSUME NEW list \in Seq(MetaData), NEW l \in Reorderings(list),
           IsFiniteSet(Places(PairRows(list)))
    PROVE  /\ l \in Seq(MetaData) /\ Len(l) = Len(list)
           /\ \A k \in 1 .. Len(l) : \E i \in 1 .. Len(list) : l[k] = list[i]
           /\ IsFiniteSet(Places(PairRows(l)))
           /\ Cardinality(Places(PairRows(l))) = Cardinality(Places(PairRows(list)))
<1> DEFINE D == 1 .. Len(list)
           R == PairRows(list)
           Q == PairRows(l)
<1>1. DOMAIN list = D /\ Len(list) \in Nat /\ \A k \in D : list[k] \in MetaData
  OBVIOUS
<1>2. PICK p \in Bijection(D, D) : l = [k \in D |-> list[p[k]]]
  BY <1>1 DEF Reorderings
<1>3. /\ \A k \in D : p[k] \in D
      /\ \A j, k \in D : p[j] = p[k] => j = k
      /\ \A m \in D : \E k \in D : p[k] = m
  BY DEF Bijection, Injection, IsInjective, Surjection
<1>4. l \in Seq(MetaData) /\ Len(l) = Len(list) /\ \A k \in D : l[k] = list[p[k]]
  BY <1>1, <1>2, <1>3
<1>5. /\ Len(R) = Len(list) /\ Len(Q) = Len(list)
      /\ \A k \in D : R[k] = Row(list[k]) /\ Q[k] = Row(l[k])
  BY <1>4, PairRowsFacts
<1> HIDE DEF R, Q
<1>6. \A k \in D : Q[k] = R[p[k]]
  BY <1>3, <1>4, <1>5
<1> DEFINE g == [z \in Places(Q) |-> <<p[z[1]], z[2]>>]
<1>7. \A z \in Places(Q) : /\ z = <<z[1], z[2]>> /\ z[1] \in D
                           /\ z[2] \in 1 .. Len(Q[z[1]]) + 1 /\ z[2] \in Nat
  BY <1>5 DEF Places
<1>8. ASSUME NEW z \in Places(Q) PROVE <<p[z[1]], z[2]>> \in Places(R)
  <2>1. z[1] \in D
    BY <1>7
  <2>2. p[z[1]] \in D
    BY <1>3, <2>1
  <2>3. Q[z[1]] = R[p[z[1]]]
    BY <1>6, <2>1
  <2>4. p[z[1]] \in Nat
    BY <2>2
  <2> QED
    BY <1>5, <1>7, <2>2, <2>3, <2>4 DEF Places
<1>9. g \in Injection(Places(Q), Places(R))
  <2>1. ASSUME NEW y \in Places(Q), NEW z \in Places(Q), g[y] = g[z] PROVE y = z
    <3>1. p[y[1]] = p[z[1]] /\ y[2] = z[2]
      BY <2>1
    <3>2. y[1] \in D /\ z[1] \in D
      BY <1>7
    <3>3. y[1] = z[1]
      <4> HIDE DEF D
      <4> QED
        BY <1>3, <3>1, <3>2
    <3> QED
      BY <1>7, <3>1, <3>3
  <2>2. g \in [Places(Q) -> Places(R)]
    BY <1>8
  <2> HIDE DEF g
  <2> QED
    BY <2>1, <2>2 DEF Injection, IsInjective
<1>10. g \in Surjection(Places(Q), Places(R))
  <2>1. ASSUME NEW z \in Places(R) PROVE \E y \in Places(Q) : g[y] = z
    <3>1. /\ z = <<z[1], z[2]>> /\ z[1] \in D
          /\ z[2] \in 1 .. Len(R[z[1]]) + 1 /\ z[2] \in Nat
      BY <1>5 DEF Places
    <3>2. PICK k \in D : p[k] = z[1]
      BY <1>3, <3>1
    <3>3. k \in Nat /\ Q[k] = R[z[1]]
      BY <1>1, <1>6, <3>2
    <3>4. <<k, z[2]>> \in Places(Q)
      BY <1>5, <3>1, <3>3 DEF Places
    <3>5. g[<<k, z[2]>>] = z
      BY <3>1, <3>2, <3>4
    <3> HIDE DEF g
    <3> QED
      BY <3>4, <3>5
  <2>2. g \in [Places(Q) -> Places(R)]
    BY <1>8
  <2> HIDE DEF g
  <2> QED
    BY <2>1, <2>2 DEF Surjection
<1>11. IsFiniteSet(Places(Q)) /\ Cardinality(Places(Q)) = Cardinality(Places(R))
  <2>1. IsFiniteSet(Places(R))
    BY DEF R
  <2> HIDE DEF g
  <2> QED
    BY <1>9, <1>10, <2>1, FS_Injection
<1>12. \A k \in 1 .. Len(l) : \E i \in 1 .. Len(list) : l[k] = list[i]
  BY <1>3, <1>4
<1> QED
  BY <1>4, <1>11, <1>12 DEF R, Q

\* The packed pairs are as long as the places they take, and each ends with a
\* separator; there is no terminator in them if there is none in the pairs.
LEMMA JoinedShape ==
    ASSUME NEW list \in Seq(MetaData)
    PROVE  /\ Joined(list) \in Seq(Char)
           /\ IsFiniteSet(Places(PairRows(list)))
           /\ Cardinality(Places(PairRows(list))) = Len(Joined(list))
           /\ (\A k \in 1 .. Len(list) : NUL \notin Range(Row(list[k]))) =>
                NUL \notin Range(Joined(list))
           /\ Len(list) = 0 => Len(Joined(list)) = 0
           /\ Len(list) # 0 => Len(Joined(list)) # 0 /\ Joined(list)[Len(Joined(list))] = RS
<1>1. PICK f \in [0 .. Len(list) -> Seq(Char)] :
        /\ Joined(list) = f[Len(list)] /\ f[0] = <<>>
        /\ \A k \in 1 .. Len(list) : f[k] = Behind(f[k - 1], list[k])
  BY JoinedStep
<1> DEFINE N == Len(list)
           R == PairRows(list)
           To(n) == {z \in Nat \X Nat : z[1] \in 1 .. n /\ z[2] \in 1 .. Len(R[z[1]]) + 1}
           Clean(n) == (\A k \in 1 .. N : NUL \notin Range(R[k])) => NUL \notin Range(f[n])
           B == {n \in 0 .. N :
                   /\ IsFiniteSet(To(n)) /\ Cardinality(To(n)) = Len(f[n])
                   /\ Clean(n)
                   /\ n = 0 => Len(f[n]) = 0
                   /\ n # 0 => Len(f[n]) # 0 /\ f[n][Len(f[n])] = RS}
<1>2. /\ N \in Nat /\ Len(R) = N
      /\ \A k \in 1 .. N : /\ list[k] \in MetaData /\ R[k] = Row(list[k])
                           /\ R[k] \in Seq(Char) /\ Len(R[k]) \in Nat
  BY PairRowsFacts
<1> HIDE DEF R
<1>3. 0 \in B
  <2>1. Len(<<>>) = 0 /\ Range(<<>>) = {}
    BY DEF Range
  <2>2. To(0) = {}
    OBVIOUS
  <2>3. IsFiniteSet(To(0)) /\ Cardinality(To(0)) = 0
    BY <2>2, FS_EmptySet
  <2> HIDE DEF To
  <2> QED
    BY <1>1, <1>2, <2>1, <2>3
<1>4. ASSUME NEW n \in 0 .. N - 1, n \in B PROVE n + 1 \in B
  <2>1. n + 1 \in 1 .. N /\ n + 1 \in 0 .. N /\ n \in 0 .. N /\ (n + 1) - 1 = n /\ n \in Nat
    BY <1>2
  <2> DEFINE s == f[n]
             m == list[n + 1]
             r == Row(m)
             b == Behind(s, m)
             X == {z \in Nat \X Nat : z[1] = n + 1 /\ z[2] \in 1 .. Len(R[n + 1]) + 1}
  <2>2. s \in Seq(Char) /\ m \in MetaData /\ r = R[n + 1] /\ f[n + 1] = b
    BY <1>1, <1>2, <2>1
  <2>3. Len(s) \in Nat /\ Len(r) \in Nat
    <3> HIDE DEF s, r, m
    <3>1. Len(s) \in Nat
      BY <2>2
    <3> QED
      BY <1>2, <2>1, <2>2, <3>1
  <2>4. /\ b \in Seq(Char) /\ Len(b) = Len(s) + Len(r) + 1
        /\ \A i \in 1 .. Len(s) : b[i] = s[i]
        /\ \A i \in 1 .. Len(r) : b[Len(s) + i] = r[i]
        /\ b[Len(s) + Len(r) + 1] = RS
    <3> HIDE DEF s, m
    <3> QED
      BY <2>2, BehindFacts
  <2>5. /\ IsFiniteSet(To(n)) /\ Cardinality(To(n)) = Len(s) /\ Clean(n)
    BY <1>4
  <2> HIDE DEF s, m, r, b
  <2>6. IsFiniteSet(X) /\ Cardinality(X) = Len(r) + 1
    <3> DEFINE I == 1 .. Len(r) + 1
               h == [i \in I |-> <<n + 1, i>>]
    <3>1. IsFiniteSet(I) /\ Cardinality(I) = Len(r) + 1
      <4>1. /\ IsFiniteSet(I)
            /\ Cardinality(I) = IF 1 > Len(r) + 1 THEN 0 ELSE (Len(r) + 1) - 1 + 1
        BY <2>3, FS_Interval
      <4> QED
        BY <2>3, <4>1
    <3>2. \A z \in X : z = <<n + 1, z[2]>> /\ z[2] \in I
      BY <2>2
    <3>3. \A i \in I : <<n + 1, i>> \in X
      BY <2>1, <2>2, <2>3
    <3> HIDE DEF X, I
    <3>4. h \in Bijection(I, X)
      <4>1. h \in [I -> X]
        BY <3>3
      <4>2. \A i, j \in I : h[i] = h[j] => i = j
        OBVIOUS
      <4>3. \A z \in X : \E i \in I : h[i] = z
        BY <3>2
      <4> HIDE DEF h
      <4> QED
        BY <4>1, <4>2, <4>3 DEF Bijection, Injection, IsInjective, Surjection
    <3>5. ExistsBijection(I, X)
      BY <3>4 DEF ExistsBijection
    <3> QED
      BY <3>1, <3>5, FS_Bijection
  <2>7. To(n + 1) = To(n) \cup X /\ To(n) \cap X = {}
    <3>1. 1 .. n + 1 = (1 .. n) \cup {n + 1} /\ n + 1 \notin 1 .. n
      BY <2>1
    <3> QED
      BY <3>1
  <2>8. IsFiniteSet(To(n + 1)) /\ Cardinality(To(n + 1)) = Len(b)
    <3> HIDE DEF To, X
    <3>1. Cardinality({}) = 0
      BY FS_EmptySet
    <3>2. /\ IsFiniteSet(To(n) \cup X)
          /\ Cardinality(To(n) \cup X) = Cardinality(To(n)) + Cardinality(X) - Cardinality(To(n) \cap X)
      BY <2>5, <2>6, FS_Union
    <3>3. Cardinality(To(n) \cup X) = Len(s) + (Len(r) + 1) - 0
      BY <2>5, <2>6, <2>7, <3>1, <3>2
    <3>4. To(n + 1) = To(n) \cup X
      BY <2>7
    <3>5. Len(s) + (Len(r) + 1) - 0 = Len(b)
      BY <2>3, <2>4
    <3> QED
      BY <3>2, <3>3, <3>4, <3>5
  <2>9. Clean(n + 1)
    <3> SUFFICES ASSUME \A k \in 1 .. N : NUL \notin Range(R[k]) PROVE NUL \notin Range(b)
      BY <2>2
    <3>1. NUL \notin Range(s) /\ NUL \notin Range(r)
      BY <2>1, <2>2, <2>5 DEF s
    <3>2. DOMAIN b = 1 .. Len(b) /\ DOMAIN s = 1 .. Len(s) /\ DOMAIN r = 1 .. Len(r)
      <4>1. r \in Seq(Char)
        BY <1>2, <2>1, <2>2
      <4> QED
        BY <2>2, <2>4, <4>1
    <3>3. ASSUME NEW i \in 1 .. Len(b) PROVE b[i] # NUL
      <4>1. CASE i <= Len(s)
        <5>1. i \in 1 .. Len(s)
          BY <2>3, <4>1
        <5> QED
          BY <2>4, <3>1, <3>2, <5>1 DEF Range
      <4>2. CASE i = Len(s) + Len(r) + 1
        BY <2>4, <4>2 DEF RS, NUL
      <4>3. CASE i > Len(s) /\ i # Len(s) + Len(r) + 1
        <5>1. i - Len(s) \in 1 .. Len(r) /\ Len(s) + (i - Len(s)) = i
          BY <2>3, <2>4, <4>3
        <5> QED
          BY <2>4, <3>1, <3>2, <5>1 DEF Range
      <4> QED
        BY <2>3, <2>4, <4>1, <4>2, <4>3
    <3> QED
      BY <3>2, <3>3 DEF Range
  <2>10. Len(b) # 0 /\ b[Len(b)] = RS /\ n + 1 # 0
    BY <2>1, <2>3, <2>4
  <2> HIDE DEF To, Clean
  <2> QED
    BY <2>1, <2>2, <2>8, <2>9, <2>10
<1>5. N \in B
  <2>1. B \in SUBSET (0 .. N)
    OBVIOUS
  <2> HIDE DEF B, N
  <2>2. B = 0 .. N
    BY <1>2, <1>3, <1>4, <2>1, Induction
  <2> QED
    BY <1>2, <2>2
<1>6. To(N) = Places(R)
  BY <1>2 DEF Places
<1>7. f[N] \in Seq(Char) /\ Joined(list) = f[N]
  BY <1>1, <1>2
<1>8. (\A k \in 1 .. Len(list) : NUL \notin Range(Row(list[k]))) => \A k \in 1 .. N : NUL \notin Range(R[k])
  BY <1>2
<1>9. /\ IsFiniteSet(To(N)) /\ Cardinality(To(N)) = Len(f[N])
      /\ Clean(N)
      /\ N = 0 => Len(f[N]) = 0
      /\ N # 0 => Len(f[N]) # 0 /\ f[N][Len(f[N])] = RS
  <2> HIDE DEF To, Clean
  <2> QED
    BY <1>5
<1> HIDE DEF To
<1> QED
  BY <1>6, <1>7, <1>8, <1>9 DEF R

\* Where the packed pairs are: the k-th behind the first k - 1.
LEMMA JoinedAt ==
    ASSUME NEW list \in Seq(MetaData)
    PROVE  \E pos \in [0 .. Len(list) -> Nat] :
             /\ pos[0] = 0 /\ pos[Len(list)] = Len(Joined(list))
             /\ \A k \in 1 .. Len(list) :
                  /\ pos[k] = pos[k - 1] + Len(Row(list[k])) + 1
                  /\ pos[k] <= Len(Joined(list))
                  /\ \A i \in 1 .. Len(Row(list[k])) : Joined(list)[pos[k - 1] + i] = Row(list[k])[i]
                  /\ Joined(list)[pos[k]] = RS
<1>1. PICK f \in [0 .. Len(list) -> Seq(Char)] :
        /\ Joined(list) = f[Len(list)] /\ f[0] = <<>>
        /\ \A k \in 1 .. Len(list) : f[k] = Behind(f[k - 1], list[k])
  BY JoinedStep
<1> DEFINE N == Len(list)
           B == {n \in 0 .. N : \A k \in 0 .. n :
                   Len(f[k]) <= Len(f[n]) /\ \A x \in 1 .. Len(f[k]) : f[n][x] = f[k][x]}
           pos == [k \in 0 .. N |-> Len(f[k])]
<1>2. N \in Nat /\ \A k \in 1 .. N : list[k] \in MetaData
  OBVIOUS
<1>3. \A n \in 0 .. N : f[n] \in Seq(Char) /\ Len(f[n]) \in Nat
  BY <1>1
<1>4. \A k \in 1 .. N : k - 1 \in 0 .. N /\ k \in 0 .. N
  BY <1>2
<1> HIDE DEF N
<1>5. ASSUME NEW k \in 1 .. N
      PROVE  /\ Len(f[k]) = Len(f[k - 1]) + Len(Row(list[k])) + 1
             /\ \A x \in 1 .. Len(f[k - 1]) : f[k][x] = f[k - 1][x]
             /\ \A i \in 1 .. Len(Row(list[k])) : f[k][Len(f[k - 1]) + i] = Row(list[k])[i]
             /\ f[k][Len(f[k])] = RS
             /\ Len(Row(list[k])) \in Nat
  <2> DEFINE s == f[k - 1]
             m == list[k]
  <2>1. s \in Seq(Char) /\ m \in MetaData /\ f[k] = Behind(s, m)
    BY <1>1, <1>2, <1>3, <1>4 DEF N
  <2> HIDE DEF s, m
  <2>2. /\ Len(Behind(s, m)) = Len(s) + Len(Row(m)) + 1
        /\ \A i \in 1 .. Len(s) : Behind(s, m)[i] = s[i]
        /\ \A i \in 1 .. Len(Row(m)) : Behind(s, m)[Len(s) + i] = Row(m)[i]
        /\ Behind(s, m)[Len(s) + Len(Row(m)) + 1] = RS
    BY <2>1, BehindFacts
  <2>3. Len(Row(m)) \in Nat
    <3>1. Row(m) \in Seq(Char)
      BY <2>1, RowFacts
    <3> QED
      BY <3>1
  <2> QED
    BY <2>1, <2>2, <2>3 DEF s, m
\* Those in front stay as they are.
<1>6. B = 0 .. N
  <2>1. 0 \in B
    <3>1. \A k \in 0 .. 0 : k = 0
      OBVIOUS
    <3>2. 0 \in 0 .. N /\ Len(f[0]) <= Len(f[0])
      BY <1>2, <1>3
    <3> QED
      BY <3>1, <3>2
  <2>2. ASSUME NEW n \in 0 .. N - 1, n \in B PROVE n + 1 \in B
    <3>1. n + 1 \in 1 .. N /\ n + 1 \in 0 .. N /\ n \in 0 .. N /\ (n + 1) - 1 = n /\ n \in Nat
      BY <1>2
    <3>2. /\ Len(f[n]) <= Len(f[n + 1]) /\ Len(f[n]) \in Nat /\ Len(f[n + 1]) \in Nat
          /\ \A x \in 1 .. Len(f[n]) : f[n + 1][x] = f[n][x]
      <4> DEFINE k == n + 1
                 a == Len(f[k - 1])
                 b == Len(f[k])
                 c == Len(Row(list[k]))
      <4>1. k \in 1 .. N /\ k - 1 = n
        BY <3>1
      <4> HIDE DEF k
      <4>2. a \in Nat /\ b \in Nat
        BY <1>3, <1>4, <4>1
      <4>3. b = a + c + 1 /\ c \in Nat /\ \A x \in 1 .. a : f[k][x] = f[k - 1][x]
        BY <1>5, <4>1
      <4>4. a <= b
        <5> HIDE DEF a, b, c
        <5> QED
          BY <4>2, <4>3
      <4> QED
        BY <4>1, <4>2, <4>3, <4>4 DEF k
    <3>3. ASSUME NEW k \in 0 .. n + 1
          PROVE  Len(f[k]) <= Len(f[n + 1]) /\ \A x \in 1 .. Len(f[k]) : f[n + 1][x] = f[k][x]
      <4>1. CASE k = n + 1
        BY <3>2, <4>1
      <4>2. CASE k # n + 1
        <5>1. k \in 0 .. n /\ k \in 0 .. N
          BY <3>1, <4>2
        <5>2. Len(f[k]) <= Len(f[n]) /\ Len(f[k]) \in Nat /\ \A x \in 1 .. Len(f[k]) : f[n][x] = f[k][x]
          BY <1>3, <2>2, <5>1
        <5> QED
          BY <3>2, <5>2
      <4> QED
        BY <4>1, <4>2
    <3> QED
      BY <3>1, <3>3
  <2>3. B \in SUBSET (0 .. N)
    OBVIOUS
  <2> HIDE DEF B
  <2> QED
    BY <1>2, <2>1, <2>2, <2>3, Induction
<1>7. \A k \in 0 .. N : Len(f[k]) <= Len(f[N]) /\ \A x \in 1 .. Len(f[k]) : f[N][x] = f[k][x]
  <2>1. N \in B
    BY <1>2, <1>6
  <2> QED
    BY <2>1
<1>8. pos \in [0 .. N -> Nat] /\ pos[0] = 0 /\ pos[N] = Len(Joined(list))
  <2>1. Len(<<>>) = 0 /\ 0 \in 0 .. N /\ N \in 0 .. N
    BY <1>2
  <2> QED
    BY <1>1, <1>3, <2>1 DEF N
<1>9. ASSUME NEW k \in 1 .. N
      PROVE  /\ pos[k] = pos[k - 1] + Len(Row(list[k])) + 1
             /\ pos[k] <= Len(Joined(list))
             /\ \A i \in 1 .. Len(Row(list[k])) : Joined(list)[pos[k - 1] + i] = Row(list[k])[i]
             /\ Joined(list)[pos[k]] = RS
  <2>1. pos[k] = Len(f[k]) /\ pos[k - 1] = Len(f[k - 1]) /\ Len(f[k]) \in Nat /\ Len(f[k - 1]) \in Nat
    BY <1>3, <1>4
  <2>2. /\ Len(f[k]) <= Len(Joined(list))
        /\ \A x \in 1 .. Len(f[k]) : Joined(list)[x] = f[k][x]
    BY <1>1, <1>4, <1>7 DEF N
  <2> DEFINE a == Len(f[k - 1])
             b == Len(f[k])
             c == Len(Row(list[k]))
  <2>3. a \in Nat /\ b \in Nat /\ c \in Nat /\ b = a + c + 1
    BY <1>5, <2>1
  <2>4. b \in 1 .. b /\ \A i \in 1 .. c : a + i \in 1 .. b
    <3> HIDE DEF a, b, c
    <3> QED
      BY <2>3
  <2>5. \A i \in 1 .. c : Joined(list)[a + i] = Row(list[k])[i]
    BY <1>5, <2>2, <2>4
  <2>6. Joined(list)[b] = RS
    BY <1>5, <2>2, <2>4
  <2> HIDE DEF pos
  <2> QED
    BY <2>1, <2>2, <2>3, <2>5, <2>6
<1> HIDE DEF pos
<1> QED
  BY <1>8, <1>9 DEF N

\* Splitting the packed pairs gives the rows that were packed.
LEMMA RowsOfJoined ==
    ASSUME NEW list \in Seq(MetaData), NEW text \in Seq(Char), Len(list) # 0,
           \A k \in 1 .. Len(list) : RS \notin Range(Row(list[k])),
           Len(text) = Len(Joined(list)) - 1,
           \A i \in 1 .. Len(text) : text[i] = Joined(list)[i]
    PROVE  Rows(text) = PairRows(list)
<1>1. PICK pos \in [0 .. Len(list) -> Nat] :
             /\ pos[0] = 0 /\ pos[Len(list)] = Len(Joined(list))
             /\ \A k \in 1 .. Len(list) :
                  /\ pos[k] = pos[k - 1] + Len(Row(list[k])) + 1
                  /\ pos[k] <= Len(Joined(list))
                  /\ \A i \in 1 .. Len(Row(list[k])) : Joined(list)[pos[k - 1] + i] = Row(list[k])[i]
                  /\ Joined(list)[pos[k]] = RS
  BY JoinedAt
<1>2. PICK g \in [0 .. Len(text) -> SomeRows] :
        /\ Rows(text) = g[Len(text)] /\ g[0] = << <<>> >>
        /\ \A n \in 1 .. Len(text) : g[n] = Taken(g[n - 1], text[n])
  BY RowsStep
<1> DEFINE N == Len(text)
           M == Len(list)
           R == PairRows(list)
           \* k - 1 rows are complete, and of the next one there are i characters.
           Is(r, k, i) == /\ Len(r) = k /\ \A l \in 1 .. k - 1 : r[l] = R[l]
                          /\ Len(r[k]) = i /\ \A x \in 1 .. i : r[k][x] = R[k][x]
           B == {n \in 0 .. N : \A k \in 1 .. M : \A i \in 0 .. Len(R[k]) :
                                  pos[k - 1] + i = n => Is(g[n], k, i)}
<1>3. /\ R \in Seq(Seq(Char)) /\ Len(R) = M /\ M \in Nat \ {0} /\ N \in Nat
      /\ \A k \in 1 .. M : R[k] = Row(list[k]) /\ R[k] \in Seq(Char) /\ Len(R[k]) \in Nat
  BY PairRowsFacts
<1>4. \A k \in 1 .. M : /\ pos[k] = pos[k - 1] + Len(R[k]) + 1 /\ pos[k] <= N + 1
                        /\ pos[k - 1] \in Nat /\ pos[k] \in Nat
  <2>1. \A k \in 1 .. M : k - 1 \in 0 .. M /\ k \in 0 .. M
    BY <1>3
  <2>2. Len(Joined(list)) = N + 1
    <3>1. Joined(list) \in Seq(Char)
      BY JoinedShape
    <3>2. Len(Joined(list)) \in Nat
      BY <3>1
    <3> QED
      BY <1>3, <3>2
  <2> QED
    BY <1>1, <1>3, <2>1, <2>2
<1>5. ASSUME NEW k \in 1 .. M, NEW i \in 1 .. Len(R[k])
      PROVE  /\ pos[k - 1] + i \in 1 .. N /\ text[pos[k - 1] + i] = R[k][i]
             /\ R[k][i] # RS /\ R[k][i] \in Char
  <2>1. pos[k - 1] + i \in 1 .. N
    <3> DEFINE a == pos[k - 1]
               b == pos[k]
               c == Len(R[k])
    <3>1. a \in Nat /\ b \in Nat /\ c \in Nat /\ i \in 1 .. c /\ b = a + c + 1 /\ b <= N + 1
      BY <1>3, <1>4
    <3> HIDE DEF a, b, c
    <3>2. a + i \in 1 .. N
      BY <1>3, <3>1
    <3> QED
      BY <3>2 DEF a
  <2>2. Joined(list)[pos[k - 1] + i] = R[k][i]
    BY <1>1, <1>3
  <2>3. DOMAIN R[k] = 1 .. Len(R[k]) /\ R[k][i] \in Char
    BY <1>3
  <2>4. RS \notin Range(R[k])
    BY <1>3
  <2>5. R[k][i] # RS
    BY <2>3, <2>4 DEF Range
  <2> QED
    BY <2>1, <2>2, <2>3, <2>5
<1>6. ASSUME NEW k \in 1 .. M, k # M PROVE pos[k] \in 1 .. N /\ text[pos[k]] = RS
  <2>1. k + 1 \in 1 .. M /\ (k + 1) - 1 = k
    BY <1>3, <1>6
  <2>2. pos[k + 1] = pos[k] + Len(R[k + 1]) + 1 /\ pos[k + 1] <= N + 1 /\ Len(R[k + 1]) \in Nat
    BY <1>3, <1>4, <2>1
  <2>3. pos[k] \in Nat /\ 1 <= pos[k]
    <3> DEFINE a == pos[k - 1]
               b == pos[k]
               c == Len(R[k])
    <3>1. a \in Nat /\ b \in Nat /\ c \in Nat /\ b = a + c + 1
      BY <1>3, <1>4
    <3> HIDE DEF a, b, c
    <3>2. 1 <= b
      BY <3>1
    <3> QED
      BY <3>1, <3>2 DEF b
  <2>4. pos[k] \in 1 .. N
    BY <1>3, <2>2, <2>3
  <2> QED
    BY <1>1, <2>4
<1> HIDE DEF R, N, M
<1>7. 0 \in B
  <2> DEFINE r == << <<>> >>
  <2>1. Len(r) = 1 /\ r[1] = <<>> /\ Len(<<>>) = 0
    OBVIOUS
  <2> HIDE DEF r
  <2>2. ASSUME NEW k \in 1 .. M, NEW i \in 0 .. Len(R[k]), pos[k - 1] + i = 0
        PROVE  k = 1 /\ i = 0
    <3>1. i = 0 /\ pos[k - 1] = 0
      <4> DEFINE a == pos[k - 1]
      <4>1. a \in Nat /\ i \in Nat /\ a + i = 0
        BY <1>3, <1>4, <2>2, SMTT(30)
      <4> HIDE DEF a
      <4>2. a = 0 /\ i = 0
        BY <4>1
      <4> QED
        BY <4>2 DEF a
    <3>2. ASSUME k # 1 PROVE FALSE
      <4>1. k - 1 \in 1 .. M
        BY <1>3, <3>2
      <4>2. 1 <= pos[k - 1]
        <5> DEFINE j == k - 1
                   a == pos[j - 1]
                   b == pos[j]
                   c == Len(R[j])
        <5> HIDE DEF j
        <5>1. a \in Nat /\ b \in Nat /\ c \in Nat /\ b = a + c + 1
          BY <1>3, <1>4, <4>1 DEF j
        <5>2. 1 <= b
          <6> HIDE DEF a, b, c
          <6> QED
            BY <5>1
        <5> QED
          BY <5>2 DEF j
      <4> QED
        BY <3>1, <4>2
    <3> QED
      BY <3>1, <3>2
  <2>3. Is(r, 1, 0)
    BY <2>1
  <2>4. g[0] = r /\ 0 \in 0 .. N
    BY <1>2, <1>3 DEF r
  <2> HIDE DEF Is
  <2> QED
    BY <2>2, <2>3, <2>4
<1>8. ASSUME NEW n \in 0 .. N - 1, n \in B PROVE n + 1 \in B
  <2>1. n + 1 \in 1 .. N /\ n + 1 \in 0 .. N /\ n \in 0 .. N /\ (n + 1) - 1 = n /\ n \in Nat
    BY <1>3
  <2> DEFINE b == g[n]
             c == text[n + 1]
             r == g[n + 1]
  <2>2. b \in SomeRows /\ c \in Char /\ r = Taken(b, c)
    <3>1. b \in SomeRows
      BY <1>2, <2>1 DEF N
    <3>2. c \in Char
      BY <2>1 DEF N
    <3>3. g[n + 1] = Taken(g[(n + 1) - 1], text[n + 1])
      BY <1>2, <2>1 DEF N
    <3> QED
      BY <2>1, <3>1, <3>2, <3>3
  <2>3. \A k \in 1 .. M : \A i \in 0 .. Len(R[k]) : pos[k - 1] + i = n => Is(b, k, i)
    BY <1>8
  <2> HIDE DEF b, c, r
  <2>4. /\ r \in SomeRows /\ Len(b) \in Nat \ {0}
        /\ c = RS => /\ Len(r) = Len(b) + 1 /\ r[Len(b) + 1] = <<>>
                     /\ \A k \in 1 .. Len(b) : r[k] = b[k]
        /\ c # RS => /\ Len(r) = Len(b) /\ r[Len(b)] = Append(b[Len(b)], c)
                     /\ \A k \in 1 .. Len(b) - 1 : r[k] = b[k]
    BY <2>2, TakenRows
  <2>5. \A k \in 1 .. Len(b) : b[k] \in Seq(Char)
    BY <2>2 DEF SomeRows
  <2>6. ASSUME NEW k \in 1 .. M, NEW i \in 0 .. Len(R[k]), pos[k - 1] + i = n + 1
        PROVE  Is(r, k, i)
    <3>0. k \in Nat \ {0} /\ i \in Nat /\ Len(R[k]) \in Nat /\ pos[k - 1] \in Nat
      <4>1. Len(R[k]) \in Nat /\ pos[k - 1] \in Nat
        BY <1>3, <1>4
      <4> QED
        BY <1>3, <4>1
    <3>1. CASE i # 0
      <4>1. i \in 1 .. Len(R[k]) /\ i - 1 \in 0 .. Len(R[k]) /\ pos[k - 1] + (i - 1) = n
        <5> DEFINE a == pos[k - 1]
                   d == Len(R[k])
        <5>1. a \in Nat /\ d \in Nat /\ i \in 0 .. d /\ a + i = n + 1
          BY <2>6, <3>0
        <5> HIDE DEF a, d
        <5>2. i \in 1 .. d /\ i - 1 \in 0 .. d /\ a + (i - 1) = n
          BY <2>1, <3>1, <5>1
        <5> QED
          BY <5>2 DEF a, d
      <4>2. Is(b, k, i - 1)
        BY <2>3, <4>1
      <4>3. c = R[k][i] /\ c # RS
        BY <1>5, <2>6, <4>1, SMTT(30) DEF c
      <4>4. /\ Len(b) = k /\ k \in 1 .. Len(b) /\ Len(b[k]) = i - 1
            /\ \A l \in 1 .. k - 1 : b[l] = R[l]
            /\ \A x \in 1 .. i - 1 : b[k][x] = R[k][x]
        BY <3>0, <4>2
      <4>5. /\ Len(r) = k /\ r[k] = Append(b[k], c)
            /\ \A l \in 1 .. k - 1 : r[l] = R[l]
        BY <2>4, <4>3, <4>4
      <4>6. /\ Len(r[k]) = i /\ r[k][i] = R[k][i]
            /\ \A x \in 1 .. i - 1 : r[k][x] = R[k][x]
        <5> DEFINE s == b[k]
        <5>1. s \in Seq(Char) /\ Len(s) = i - 1
          BY <2>5, <4>4
        <5> HIDE DEF s
        <5>2. /\ Len(Append(s, c)) = Len(s) + 1 /\ Append(s, c)[Len(s) + 1] = c
              /\ \A x \in 1 .. Len(s) : Append(s, c)[x] = s[x]
          BY <2>2, <5>1
        <5>3. Len(s) + 1 = i
          BY <3>0, <5>1
        <5> QED
          BY <4>3, <4>4, <4>5, <5>1, <5>2, <5>3 DEF s
      <4>7. \A x \in 1 .. i : r[k][x] = R[k][x]
        <5>1. \A x \in 1 .. i : x \in 1 .. i - 1 \/ x = i
          BY <3>0
        <5> QED
          BY <4>6, <5>1
      <4> QED
        BY <4>5, <4>6, <4>7
    <3>2. CASE i = 0
      <4>1. k # 1
        BY <1>1, <2>1, <2>6, <3>2
      <4> DEFINE j == k - 1
      <4>2. j \in 1 .. M /\ j # M /\ j + 1 = k /\ j \in Nat
        BY <1>3, <3>0, <4>1
      <4>3. pos[j] = n + 1
        BY <2>6, <3>0, <3>2
      <4>4. pos[j - 1] + Len(R[j]) = n /\ Len(R[j]) \in 0 .. Len(R[j]) /\ Len(R[j]) \in Nat
        <5> HIDE DEF j
        <5> DEFINE a == pos[j - 1]
                   d == Len(R[j])
                   e == pos[j]
        <5>1. a \in Nat /\ d \in Nat /\ e = n + 1 /\ e = a + d + 1
          BY <1>3, <1>4, <4>2, <4>3
        <5> HIDE DEF a, d, e
        <5>2. a + d = n /\ d \in 0 .. d /\ d \in Nat
          BY <2>1, <5>1
        <5> QED
          BY <5>2 DEF a, d
      <4> HIDE DEF j
      <4>5. Is(b, j, Len(R[j]))
        BY <2>3, <4>2, <4>4
      <4>6. c = RS
        BY <1>6, <4>2, <4>3 DEF c
      <4>7. /\ Len(b) = j /\ Len(b[j]) = Len(R[j]) /\ j \in 1 .. Len(b)
            /\ \A l \in 1 .. j - 1 : b[l] = R[l]
            /\ \A x \in 1 .. Len(R[j]) : b[j][x] = R[j][x]
        BY <4>2, <4>5
      <4>8. b[j] = R[j]
        <5>1. b[j] \in Seq(Char) /\ R[j] \in Seq(Char)
          BY <1>3, <2>5, <4>2, <4>7
        <5> QED
          BY <4>7, <5>1, SeqEqual
      <4>9. Len(r) = k /\ r[k] = <<>> /\ \A l \in 1 .. j : r[l] = b[l]
        BY <2>4, <4>2, <4>6, <4>7
      <4>10. \A l \in 1 .. j : r[l] = R[l]
        <5>1. \A l \in 1 .. j : l \in 1 .. j - 1 \/ l = j
          BY <4>2
        <5> QED
          BY <4>7, <4>8, <4>9, <5>1
      <4>11. k - 1 = j /\ Len(<<>>) = 0
        BY DEF j
      <4> QED
        BY <3>2, <4>9, <4>10, <4>11
    <3> QED
      BY <3>1, <3>2
  <2> HIDE DEF Is
  <2> QED
    BY <2>1, <2>6 DEF r
<1>9. B = 0 .. N
  <2>1. B \in SUBSET (0 .. N)
    OBVIOUS
  <2> HIDE DEF B
  <2> QED
    BY <1>3, <1>7, <1>8, <2>1, Induction
<1>10. Is(g[N], M, Len(R[M]))
  <2>1. M \in 1 .. M /\ N \in 0 .. N /\ Len(R[M]) \in 0 .. Len(R[M])
    BY <1>3
  <2>2. pos[M - 1] + Len(R[M]) = N
    <3>1. pos[M] = N + 1
      <4>1. Joined(list) \in Seq(Char)
        BY JoinedShape
      <4>2. Len(Joined(list)) \in Nat
        BY <4>1
      <4> QED
        BY <1>1, <1>3, <4>2 DEF N, M
    <3> DEFINE a == pos[M - 1]
               d == Len(R[M])
               e == pos[M]
    <3>2. a \in Nat /\ d \in Nat /\ e = N + 1 /\ e = a + d + 1
      BY <1>3, <1>4, <2>1, <3>1
    <3> HIDE DEF a, d, e
    <3>3. a + d = N
      BY <1>3, <3>2
    <3> QED
      BY <3>3 DEF a, d
  <2>3. N \in B
    BY <1>9, <2>1
  <2> HIDE DEF Is
  <2> QED
    BY <2>1, <2>2, <2>3
<1>11. g[N] = R
  <2> DEFINE r == g[N]
  <2>1. r \in Seq(Seq(Char))
    <3>1. N \in 0 .. N
      BY <1>3
    <3>2. g[N] \in SomeRows
      BY <1>2, <3>1 DEF N
    <3> QED
      BY <3>2 DEF SomeRows
  <2>2. /\ Len(r) = M /\ (\A l \in 1 .. M - 1 : r[l] = R[l])
        /\ Len(r[M]) = Len(R[M]) /\ \A x \in 1 .. Len(R[M]) : r[M][x] = R[M][x]
    BY <1>10
  <2> HIDE DEF r
  <2>3. r[M] = R[M]
    <3>1. r[M] \in Seq(Char) /\ R[M] \in Seq(Char)
      BY <1>3, <2>1, <2>2
    <3> QED
      BY <2>2, <3>1, SeqEqual
  <2>4. \A l \in 1 .. M : r[l] = R[l]
    <3>1. \A l \in 1 .. M : l \in 1 .. M - 1 \/ l = M
      BY <1>3
    <3> QED
      BY <2>2, <2>3, <3>1
  <2>5. r = R
    <3> DEFINE S == Seq(Char)
    <3>1. r \in Seq(S) /\ R \in Seq(S)
      BY <1>3, <2>1
    <3> HIDE DEF S
    <3> QED
      BY <1>3, <2>2, <2>4, <3>1, SeqEqual
  <2> QED
    BY <2>5 DEF r
<1> QED
  BY <1>2, <1>11 DEF N, R

-----------------------------------------------------------------------------
(* The round trip                                                          *)

\* A pair that splitting leaves: cut, and without what ends it.
Sound(m) ==
    /\ m \in MetaData /\ Len(m.name) <= MaxName /\ Len(m.value) <= MaxValue
    /\ \A i \in 1 .. Len(m.name) : m.name[i] \notin {NUL, RS, FS}
    /\ \A i \in 1 .. Len(m.value) : m.value[i] \notin {NUL, RS}

\* A row has a field when the field separator is in it.
LEMMA FieldInRow ==
    ASSUME NEW row \in Seq(Char)
    PROVE  HasField(row) <=> FS \in Range(row)
<1> DEFINE n == First(row, FS)
<1>1. /\ n \in 1 .. Len(row) + 1 /\ (n <= Len(row) => row[n] = FS)
      /\ \A i \in 1 .. n - 1 : row[i] # FS
  BY FirstFacts
<1>2. DOMAIN row = 1 .. Len(row) /\ Len(row) \in Nat /\ (HasField(row) <=> n <= Len(row))
  BY DEF HasField
<1> HIDE DEF n
<1>3. ASSUME n <= Len(row) PROVE FS \in Range(row)
  <2>1. n \in DOMAIN row
    BY <1>1, <1>2, <1>3
  <2> QED
    BY <1>1, <1>3, <2>1 DEF Range
<1>4. ASSUME FS \in Range(row) PROVE n <= Len(row)
  <2>1. PICK i \in DOMAIN row : row[i] = FS
    BY <1>4 DEF Range
  <2>2. i \in Nat /\ i <= Len(row) /\ i \notin 1 .. n - 1 /\ 1 <= i
    BY <1>1, <1>2, <2>1
  <2> QED
    BY <1>1, <1>2, <2>2
<1> QED
  BY <1>2, <1>3, <1>4

\* The row of such a pair has nothing that splits it, and is that pair again.
LEMMA SoundRow ==
    ASSUME NEW m, Sound(m)
    PROVE  /\ m \in MetaData /\ NUL \notin Range(Row(m)) /\ RS \notin Range(Row(m))
           /\ HasField(Row(m)) /\ Pair(Row(m)) = m /\ First(Row(m), FS) = Len(m.name) + 1
           /\ Row(m) \in Seq(Char) /\ Len(Row(m)) = Len(m.name) + 1 + Len(m.value)
<1> DEFINE a == m.name
           b == m.value
           r == Row(m)
<1>1. m \in MetaData /\ Len(a) <= MaxName /\ Len(b) <= MaxValue
  BY DEF Sound
<1>2. /\ a \in Seq(Char) /\ b \in Seq(Char)
      /\ r \in Seq(Char) /\ Len(r) = Len(a) + 1 + Len(b)
      /\ \A i \in 1 .. Len(a) : r[i] = a[i]
      /\ r[Len(a) + 1] = FS
      /\ \A i \in 1 .. Len(b) : r[Len(a) + 1 + i] = b[i]
  BY <1>1, RowFacts
<1>3. /\ \A i \in 1 .. Len(a) : a[i] \notin {NUL, RS, FS}
      /\ \A i \in 1 .. Len(b) : b[i] \notin {NUL, RS}
  BY DEF Sound
<1>4. HasField(Row(m)) /\ Pair(Row(m)) = m /\ First(Row(m), FS) = Len(m.name) + 1
  BY <1>1, <1>3, PairOfRow
<1> HIDE DEF a, b, r
<1>5. FS \notin {NUL, RS}
  BY DEF FS, NUL, RS
<1>6. ASSUME NEW i \in DOMAIN r PROVE r[i] \notin {NUL, RS}
  <2>1. i \in 1 .. Len(r) /\ Len(a) \in Nat /\ Len(b) \in Nat /\ i \in Nat
    BY <1>2
  <2>2. CASE i \in 1 .. Len(a)
    BY <1>2, <1>3, <2>2
  <2>3. CASE i = Len(a) + 1
    BY <1>2, <1>5, <2>3
  <2>4. CASE i \notin 1 .. Len(a) /\ i # Len(a) + 1
    <3> DEFINE la == Len(a)
               lb == Len(b)
               k == i - la - 1
    <3>1. k \in 1 .. Len(b) /\ Len(a) + 1 + k = i
      <4>1. la \in Nat /\ lb \in Nat /\ i \in 1 .. la + 1 + lb /\ i \notin 1 .. la /\ i # la + 1
        BY <1>2, <2>1, <2>4
      <4> HIDE DEF la, lb
      <4>2. k \in 1 .. lb /\ la + 1 + k = i
        BY <4>1
      <4> QED
        BY <4>2 DEF la, lb
    <3> HIDE DEF k
    <3>2. r[Len(a) + 1 + k] = b[k]
      BY <1>2, <3>1
    <3> QED
      BY <1>3, <3>1, <3>2
  <2> QED
    BY <2>2, <2>3, <2>4
<1>7. NUL \notin Range(r) /\ RS \notin Range(r)
  BY <1>6 DEF Range
<1> QED
  BY <1>1, <1>2, <1>4, <1>7 DEF a, b, r

\* What the pair of a row is when its row comes from a text.
LEMMA SoundPair ==
    ASSUME NEW row \in Seq(Char), HasField(row), NUL \notin Range(row), RS \notin Range(row)
    PROVE  Sound(Pair(row))
<1> DEFINE n == First(row, FS)
           m == Pair(row)
           a == m.name
           b == m.value
<1>1. /\ n \in 1 .. Len(row) /\ m \in MetaData
      /\ Len(a) <= MaxName /\ Len(a) <= n - 1
      /\ Len(b) <= MaxValue /\ Len(b) <= Len(row) - n
      /\ \A i \in 1 .. Len(a) : a[i] = row[i] /\ row[i] # FS
      /\ \A i \in 1 .. Len(b) : b[i] = row[n + i]
  BY PairFacts
<1>2. Len(a) \in Nat /\ Len(b) \in Nat
  <2>1. a \in Seq(Char) /\ b \in Seq(Char)
    BY <1>1, RowFacts
  <2> HIDE DEF a, b
  <2> QED
    BY <2>1
<1>3. \A i \in 1 .. Len(row) : row[i] \notin {NUL, RS}
  BY DEF Range
<1> HIDE DEF n, a, b
<1>4. n \in Nat /\ Len(row) \in Nat
  BY <1>1
<1>5. \A i \in 1 .. Len(a) : i \in 1 .. Len(row)
  BY <1>1, <1>2, <1>4
<1>6. \A i \in 1 .. Len(b) : n + i \in 1 .. Len(row)
  BY <1>1, <1>2, <1>4
<1>7. /\ \A i \in 1 .. Len(a) : a[i] \notin {NUL, RS, FS}
      /\ \A i \in 1 .. Len(b) : b[i] \notin {NUL, RS}
  BY <1>1, <1>3, <1>5, <1>6
<1> QED
  BY <1>1, <1>7 DEF a, b, Sound

\* What splitting a buffer gives, and when it gives nothing.
LEMMA SplitFacts ==
    ASSUME NEW buff \in Seq(Char)
    PROVE  /\ Split(buff) \in Seq(MetaData)
           /\ \A k \in 1 .. Len(Split(buff)) : Sound(Split(buff)[k])
           /\ Len(Split(buff)) = 0 <=> FS \notin Range(Text(buff))
<1> DEFINE text == Text(buff)
           rows == Rows(text)
           list == Split(buff)
<1>1. /\ text \in Seq(Char) /\ Len(text) <= Len(buff)
      /\ \A i \in 1 .. Len(text) : text[i] = buff[i] /\ buff[i] # NUL
  BY TextFacts
<1>2. rows \in Seq(Seq(Char)) /\ RowChars(rows) = Range(text) \ {RS}
  BY <1>1, RowsShape DEF SomeRows
<1>3. list = Pairs(rows)
  BY DEF Split
<1>4. /\ list \in Seq(MetaData)
      /\ Len(list) = 0 => \A k \in 1 .. Len(rows) : ~HasField(rows[k])
  BY <1>2, <1>3, PairsShape
<1>5. PICK j \in [1 .. Len(list) -> 1 .. Len(rows)] :
        \A k \in 1 .. Len(list) : HasField(rows[j[k]]) /\ list[k] = Pair(rows[j[k]])
  BY <1>2, <1>3, PairsShape
<1>6. NUL \notin Range(text)
  <2>1. DOMAIN text = 1 .. Len(text)
    BY <1>1
  <2> QED
    BY <1>1, <2>1 DEF Range
<1> HIDE DEF text, rows, list
<1>7. ASSUME NEW k \in 1 .. Len(rows)
      PROVE  /\ rows[k] \in Seq(Char) /\ NUL \notin Range(rows[k]) /\ RS \notin Range(rows[k])
             /\ HasField(rows[k]) <=> FS \in Range(rows[k])
             /\ Range(rows[k]) \subseteq RowChars(rows)
  <2>1. rows[k] \in Seq(Char)
    BY <1>2
  <2>2. Range(rows[k]) \subseteq RowChars(rows)
    BY DEF RowChars
  <2> QED
    BY <1>2, <1>6, <2>1, <2>2, FieldInRow
<1>8. ASSUME NEW k \in 1 .. Len(list) PROVE Sound(list[k])
  <2>1. j[k] \in 1 .. Len(rows) /\ HasField(rows[j[k]]) /\ list[k] = Pair(rows[j[k]])
    BY <1>5
  <2> QED
    BY <1>7, <2>1, SoundPair
<1>9. ASSUME Len(list) = 0, FS \in Range(text) PROVE FALSE
  <2>1. FS \in RowChars(rows)
    <3>1. FS # RS
      BY DEF FS, RS
    <3> QED
      BY <1>2, <1>9, <3>1
  <2>2. PICK k \in 1 .. Len(rows) : FS \in Range(rows[k])
    BY <2>1 DEF RowChars
  <2> QED
    BY <1>4, <1>7, <1>9, <2>2
<1>10. ASSUME Len(list) # 0, FS \notin Range(text) PROVE FALSE
  <2>1. 1 \in 1 .. Len(list)
    BY <1>4, <1>10
  <2>2. j[1] \in 1 .. Len(rows) /\ HasField(rows[j[1]])
    BY <1>5, <2>1
  <2>3. FS \in RowChars(rows)
    BY <1>7, <2>2
  <2> QED
    BY <1>2, <1>10, <2>3
<1> QED
  BY <1>4, <1>8, <1>9, <1>10 DEF list, text

\* The terminator of the upload is not in the text.
LEMMA TextOfTerminated ==
    ASSUME NEW s \in Seq(Char)
    PROVE  Append(s, NUL) \in Seq(Char) /\ Text(Append(s, NUL)) = Text(s)
<1> DEFINE b == Append(s, NUL)
           n == First(s, NUL)
<1>1. NUL \in Char
  BY DEF Char
<1>2. /\ b \in Seq(Char) /\ Len(b) = Len(s) + 1 /\ Len(s) \in Nat
      /\ b[Len(s) + 1] = NUL /\ \A i \in 1 .. Len(s) : b[i] = s[i]
  <2> HIDE DEF NUL, Char
  <2> QED
    BY <1>1
<1>3. /\ n \in 1 .. Len(s) + 1 /\ (n <= Len(s) => s[n] = NUL)
      /\ \A i \in 1 .. n - 1 : s[i] # NUL
  BY FirstFacts
<1> HIDE DEF b, n
<1>4. n \in 1 .. Len(b) + 1 /\ b[n] = NUL
  <2>1. CASE n <= Len(s)
    BY <1>2, <1>3, <2>1
  <2>2. CASE n = Len(s) + 1
    BY <1>2, <1>3, <2>2
  <2> QED
    BY <1>2, <1>3, <2>1, <2>2
<1>5. \A i \in 1 .. n - 1 : b[i] # NUL /\ b[i] = s[i]
  BY <1>2, <1>3
<1>6. First(b, NUL) = n
  BY <1>2, <1>4, <1>5, FirstIs
<1>7. /\ Text(s) \in Seq(Char) /\ Len(Text(s)) = n - 1
      /\ \A i \in 1 .. Len(Text(s)) : Text(s)[i] = s[i]
  BY TextFacts DEF n
<1>8. /\ Text(b) \in Seq(Char) /\ Len(Text(b)) = n - 1
      /\ \A i \in 1 .. Len(Text(b)) : Text(b)[i] = b[i]
  BY <1>2, <1>6, TextFacts
<1>9. \A i \in 1 .. Len(Text(b)) : Text(b)[i] = Text(s)[i]
  BY <1>5, <1>7, <1>8
<1>10. Text(b) = Text(s)
  BY <1>7, <1>8, <1>9, SeqEqual
<1> QED
  BY <1>2, <1>10 DEF b

\* Packing puts the terminator in the place of the last separator.
LEMMA PackFacts ==
    ASSUME NEW list \in Seq(MetaData)
    PROVE  /\ Pack(list) \in Seq(Char) /\ Len(Pack(list)) = Len(Joined(list))
           /\ \A i \in 1 .. Len(Joined(list)) :
                Pack(list)[i] = IF i = Len(Joined(list)) THEN NUL ELSE Joined(list)[i]
<1> DEFINE p == Joined(list)
           q == Pack(list)
<1>1. p \in Seq(Char)
  BY JoinedShape
<1>2. NUL \in Char
  BY DEF Char
<1>3. q = [i \in DOMAIN p |-> IF i = Len(p) THEN NUL ELSE p[i]]
  BY DEF Pack
<1> HIDE DEF p, q, NUL, Char
<1>4. DOMAIN p = 1 .. Len(p) /\ Len(p) \in Nat /\ \A i \in 1 .. Len(p) : p[i] \in Char
  BY <1>1
<1>5. q = [i \in 1 .. Len(p) |-> IF i = Len(p) THEN NUL ELSE p[i]]
  BY <1>3, <1>4
<1>6. q \in [1 .. Len(p) -> Char]
  BY <1>2, <1>4, <1>5
<1>7. q \in Seq(Char) /\ Len(q) = Len(p)
  BY <1>4, <1>6
<1> QED
  BY <1>5, <1>7 DEF p, q

\* Who splits what was packed finds the pairs again.
LEMMA PackedSplits ==
    ASSUME NEW list \in Seq(MetaData), Len(list) # 0,
           \A k \in 1 .. Len(list) : Sound(list[k]),
           NEW s \in Seq(Char), Len(Joined(list)) - 1 <= Len(s),
           \A i \in 1 .. Len(Joined(list)) - 1 : s[i] = Joined(list)[i],
           Len(Joined(list)) <= Len(s) => s[Len(Joined(list))] = NUL
    PROVE  /\ Len(Text(s)) = Len(Joined(list)) - 1
           /\ Rows(Text(s)) = PairRows(list)
           /\ Split(s) = list
<1> DEFINE p == Joined(list)
           text == Text(s)
           rows == PairRows(list)
<1>1. \A k \in 1 .. Len(list) :
        /\ list[k] \in MetaData /\ NUL \notin Range(Row(list[k])) /\ RS \notin Range(Row(list[k]))
        /\ HasField(Row(list[k])) /\ Pair(Row(list[k])) = list[k]
  BY SoundRow
<1>2. p \in Seq(Char) /\ NUL \notin Range(p) /\ Len(p) # 0
  BY <1>1, JoinedShape
<1>3. /\ text \in Seq(Char) /\ Len(text) = First(s, NUL) - 1
      /\ \A i \in 1 .. Len(text) : text[i] = s[i]
  BY TextFacts
<1>4. /\ Len(p) - 1 <= Len(s) /\ \A i \in 1 .. Len(p) - 1 : s[i] = p[i]
      /\ Len(p) <= Len(s) => s[Len(p)] = NUL
  OBVIOUS
<1> HIDE DEF p, text, rows
<1>5. Len(p) \in Nat \ {0} /\ Len(s) \in Nat /\ DOMAIN p = 1 .. Len(p)
  BY <1>2
<1>6. First(s, NUL) = Len(p)
  <2>1. Len(p) \in 1 .. Len(s) + 1
    BY <1>4, <1>5
  <2>2. \A i \in 1 .. Len(p) - 1 : s[i] # NUL
    <3>1. \A i \in 1 .. Len(p) - 1 : i \in DOMAIN p
      BY <1>5
    <3> QED
      BY <1>2, <1>4, <3>1 DEF Range
  <2> QED
    BY <1>4, <2>1, <2>2, FirstIs
<1>7. Len(text) = Len(p) - 1 /\ \A i \in 1 .. Len(text) : text[i] = p[i]
  BY <1>3, <1>4, <1>6
<1>8. Rows(text) = rows
  BY <1>1, <1>3, <1>7, RowsOfJoined DEF p, rows
<1>9. /\ rows \in Seq(Seq(Char)) /\ Len(rows) = Len(list)
      /\ \A k \in 1 .. Len(list) : rows[k] = Row(list[k])
  BY PairRowsFacts DEF rows
<1>10. /\ Pairs(rows) \in Seq(MetaData) /\ Len(Pairs(rows)) = Len(list)
       /\ \A k \in 1 .. Len(list) : Pairs(rows)[k] = list[k]
  <2>1. \A k \in 1 .. Len(rows) : HasField(rows[k])
    BY <1>1, <1>9
  <2>2. /\ Pairs(rows) \in Seq(MetaData) /\ Len(Pairs(rows)) = Len(rows)
        /\ \A k \in 1 .. Len(rows) : Pairs(rows)[k] = Pair(rows[k])
    BY <1>9, <2>1, PairsShape
  <2> QED
    BY <1>1, <1>9, <2>2
<1>11. Pairs(rows) = list
  BY <1>10, SeqEqual
<1>12. Split(s) = list
  BY <1>8, <1>11 DEF Split, text
<1> QED
  BY <1>7, <1>8, <1>12 DEF p, text, rows

\* What is packed fits where it was, and fills it when nothing was left out.
LEMMA PackedFits ==
    ASSUME NEW s \in Seq(Char), NEW l \in Reorderings(Split(s))
    PROVE  /\ l \in Seq(MetaData) /\ Len(l) = Len(Split(s))
           /\ \A k \in 1 .. Len(l) : Sound(l[k])
           /\ Len(Joined(l)) \in Nat /\ Len(Joined(l)) <= Len(s) + 1
           /\ WellFormed(s) => Len(l) # 0 /\ Len(Joined(l)) = Len(s) + 1
<1> DEFINE text == Text(s)
           rows == Rows(text)
           list == Split(s)
           size(r) == Cardinality(Places(r))
<1>1. /\ list \in Seq(MetaData) /\ list = Pairs(rows)
      /\ \A k \in 1 .. Len(list) : Sound(list[k])
  BY SplitFacts DEF Split
<1>2. text \in Seq(Char) /\ Len(text) \in Nat /\ Len(text) <= Len(s) /\ Len(s) \in Nat
  <2>1. text \in Seq(Char) /\ Len(text) <= Len(s)
    BY TextFacts
  <2> QED
    BY <2>1
<1>3. /\ rows \in Seq(Seq(Char)) /\ rows # <<>>
      /\ IsFiniteSet(Places(rows)) /\ size(rows) = Len(text) + 1
  BY <1>2, RowsShape DEF SomeRows
<1> HIDE DEF text, rows
<1>4. /\ IsFiniteSet(Places(PairRows(list))) /\ size(PairRows(list)) <= size(rows)
      /\ (\A k \in 1 .. Len(rows) :
            /\ HasField(rows[k]) /\ First(rows[k], FS) - 1 <= MaxName
            /\ Len(rows[k]) - First(rows[k], FS) <= MaxValue) =>
           size(PairRows(list)) = size(rows)
  BY <1>1, <1>3, PairsFit
<1>5. /\ l \in Seq(MetaData) /\ Len(l) = Len(list)
      /\ \A k \in 1 .. Len(l) : \E i \in 1 .. Len(list) : l[k] = list[i]
      /\ IsFiniteSet(Places(PairRows(l))) /\ size(PairRows(l)) = size(PairRows(list))
  BY <1>1, <1>4, ReorderedPairs
<1>6. Joined(l) \in Seq(Char) /\ size(PairRows(l)) = Len(Joined(l))
  BY <1>5, JoinedShape
<1>7. Len(Joined(l)) \in Nat
  BY <1>6
<1>8. Len(Joined(l)) <= Len(s) + 1
  <2> DEFINE a == Len(Joined(l))
  <2>1. a <= Len(text) + 1 /\ a \in Nat
    BY <1>3, <1>4, <1>5, <1>6, <1>7
  <2> HIDE DEF a
  <2>2. a <= Len(s) + 1
    BY <1>2, <2>1
  <2> QED
    BY <2>2 DEF a
<1>9. ASSUME WellFormed(s) PROVE Len(l) # 0 /\ Len(Joined(l)) = Len(s) + 1
  <2>1. text = s /\ rows = Rows(s)
    BY <1>9 DEF WellFormed, text, rows
  <2>2. \A k \in 1 .. Len(rows) :
          /\ HasField(rows[k]) /\ First(rows[k], FS) - 1 <= MaxName
          /\ Len(rows[k]) - First(rows[k], FS) <= MaxValue
    <3>1. DOMAIN rows = 1 .. Len(rows)
      BY <1>3
    <3> QED
      BY <1>9, <2>1, <3>1 DEF WellFormed, HasField
  <2>3. Len(Joined(l)) = Len(s) + 1
    BY <1>3, <1>4, <1>5, <1>6, <2>1, <2>2
  <2>4. Len(list) # 0
    <3>1. Len(list) = 0 => \A k \in 1 .. Len(rows) : ~HasField(rows[k])
      BY <1>1, <1>3, PairsShape
    <3>2. 1 \in 1 .. Len(rows)
      <4> DEFINE S == Seq(Char)
      <4>1. rows \in Seq(S) /\ rows # <<>>
        BY <1>3
      <4> HIDE DEF S
      <4> QED
        BY <4>1
    <3> QED
      BY <2>2, <3>1, <3>2
  <2> QED
    BY <1>5, <2>3, <2>4
<1>10. ASSUME NEW k \in 1 .. Len(l) PROVE Sound(l[k])
  BY <1>1, <1>5
<1> QED
  BY <1>5, <1>7, <1>8, <1>9, <1>10

\* Of well-formed metadata the stored bytes are well formed.
LEMMA WellFormedPacked ==
    ASSUME NEW list \in Seq(MetaData), Len(list) # 0,
           \A k \in 1 .. Len(list) : Sound(list[k]),
           NEW s \in Seq(Char), Len(Joined(list)) - 1 = Len(s),
           \A i \in 1 .. Len(s) : s[i] = Joined(list)[i]
    PROVE  WellFormed(s)
<1> DEFINE N == Len(Joined(list))
           rows == PairRows(list)
<1>1. N \in Nat /\ Len(s) \in Nat
  <2>1. Joined(list) \in Seq(Char)
    BY JoinedShape
  <2> QED
    BY <2>1
<1>2. N - 1 <= Len(s) /\ (\A i \in 1 .. N - 1 : s[i] = Joined(list)[i]) /\ ~(N <= Len(s))
  BY <1>1
<1>3. Len(Text(s)) = N - 1 /\ Rows(Text(s)) = rows
  BY <1>2, PackedSplits
<1>4. Text(s) = s
  <2>1. Text(s) \in Seq(Char) /\ \A i \in 1 .. Len(Text(s)) : Text(s)[i] = s[i]
    BY TextFacts
  <2>2. Len(Text(s)) = Len(s)
    BY <1>3
  <2> QED
    BY <2>1, <2>2, SeqEqual
<1>5. /\ rows \in Seq(Seq(Char)) /\ Len(rows) = Len(list)
      /\ \A k \in 1 .. Len(list) : rows[k] = Row(list[k])
  BY PairRowsFacts
<1> HIDE DEF rows
<1>6. ASSUME NEW k \in DOMAIN rows
      PROVE  LET n == First(rows[k], FS)
             IN  n <= Len(rows[k]) /\ n - 1 <= MaxName /\ Len(rows[k]) - n <= MaxValue
  <2> DEFINE m == list[k]
             a == Len(m.name)
             b == Len(m.value)
  <2>1. k \in 1 .. Len(list) /\ rows[k] = Row(m)
    BY <1>5
  <2>2. Sound(m)
    BY <2>1
  <2> HIDE DEF m
  <2>3. m \in MetaData /\ First(Row(m), FS) = a + 1 /\ Len(Row(m)) = a + 1 + b
    BY <2>2, SoundRow
  <2>4. a <= MaxName /\ b <= MaxValue
    BY <2>2 DEF Sound
  <2>5. a \in Nat /\ b \in Nat
    <3>1. m.name \in Seq(Char) /\ m.value \in Seq(Char)
      BY <2>3, RowFacts
    <3> QED
      BY <3>1
  <2> HIDE DEF a, b
  <2>6. MaxName \in Nat /\ MaxValue \in Nat
    BY MetadataAssumption
  <2>7. a + 1 <= a + 1 + b /\ (a + 1) - 1 <= MaxName /\ (a + 1 + b) - (a + 1) <= MaxValue
    BY <2>4, <2>5, <2>6
  <2> QED
    BY <2>1, <2>3, <2>7
<1>7. Rows(s) = rows
  BY <1>3, <1>4
<1> QED
  BY <1>4, <1>6, <1>7 DEF WellFormed

-----------------------------------------------------------------------------
(* The steps                                                               *)

LEMMA InitMeta == Init => MetaInv
<1> SUFFICES ASSUME Init PROVE MetaInv
  OBVIOUS
<1>1. PICK n \in 1 .. MaxBytes : given \in [1 .. n -> Char]
  BY DEF Init
<1>2. given \in Seq(Char) /\ Len(given) \in Nat
  <2>1. n \in Nat
    BY <1>1, MetadataAssumption
  <2> QED
    BY <1>1, <2>1
<1>3. /\ pc = "split" /\ meta_buff = Append(given, NUL) /\ meta_list = <<>> /\ file = <<>>
  BY DEF Init
<1>4. meta_buff \in Seq(Char) /\ Len(meta_buff) = Len(given) + 1
  <2>1. NUL \in Char
    BY DEF Char
  <2> HIDE DEF NUL, Char
  <2> QED
    BY <1>2, <1>3, <2>1
<1>5. file \in Seq(Char) /\ meta_list \in Seq([name : Seq(Char), value : Seq(Char)])
      /\ DOMAIN meta_list = {}
  BY <1>3
<1>6. MetadataTypeOK
  BY <1>2, <1>3, <1>4, <1>5 DEF MetadataTypeOK
<1>7. MetadataIsSorted
  BY <1>3 DEF MetadataIsSorted
<1> QED
  BY <1>3, <1>6, <1>7 DEF MetaInv

\* Splitting: the list is that of what came.
LEMMA SplitBufferMeta == MetaInv /\ SplitBuffer => MetaInv'
<1> SUFFICES ASSUME MetaInv, SplitBuffer PROVE MetaInv'
  OBVIOUS
<1>1. /\ pc = "split" /\ meta_buff = Append(given, NUL) /\ MetadataTypeOK
      /\ meta_list' = Split(meta_buff) /\ pc' = "sort" /\ given' = given /\ file' = file
      /\ meta_buff' = [i \in DOMAIN meta_buff |->
                         IF i < First(meta_buff, NUL) /\ meta_buff[i] = RS THEN NUL
                         ELSE meta_buff[i]]
  BY DEF MetaInv, SplitBuffer
<1>2. /\ given \in Seq(Char) /\ meta_buff \in Seq(Char) /\ file \in Seq(Char)
      /\ Len(meta_buff) = Len(given) + 1 /\ Len(given) \in Nat
  BY <1>1 DEF MetadataTypeOK
<1>3. Text(meta_buff) = Text(given)
  BY <1>1, <1>2, TextOfTerminated
<1>4. meta_list' = Split(given)
  BY <1>1, <1>3 DEF Split
<1>5. /\ Split(given) \in Seq(MetaData)
      /\ \A k \in 1 .. Len(Split(given)) : Sound(Split(given)[k])
      /\ Len(Split(given)) = 0 <=> FS \notin Range(Text(given))
  BY <1>2, SplitFacts
<1> DEFINE b == meta_buff'
           n == Len(given)
<1>6. /\ b \in Seq(Char) /\ Len(b) = n + 1
      /\ \A i \in 1 .. n + 1 : b[i] = meta_buff[i] \/ b[i] = NUL
      /\ \A i \in 1 .. n + 1 : meta_buff[i] # RS => b[i] = meta_buff[i]
  <2>1. NUL \in Char
    BY DEF Char
  <2> HIDE DEF NUL, Char, RS
  <2>2. DOMAIN meta_buff = 1 .. n + 1 /\ n + 1 \in Nat /\ \A i \in 1 .. n + 1 : meta_buff[i] \in Char
    BY <1>2
  <2>3. b \in [1 .. n + 1 -> Char]
    BY <1>1, <2>1, <2>2
  <2>4. b \in Seq(Char) /\ Len(b) = n + 1
    BY <2>2, <2>3
  <2> QED
    BY <1>1, <2>2, <2>4
<1>7. ASSUME Split(given) = <<>>
      PROVE  FS \notin Range(Text(SubSeq(b, 1, n)))
  <2> DEFINE c == SubSeq(b, 1, n)
             t == Text(c)
  <2>1. c \in Seq(Char) /\ Len(c) = n /\ \A i \in 1 .. n : c[i] = b[i]
    <3> HIDE DEF b, n
    <3>1. n \in Nat
      BY <1>2 DEF n
    <3> QED
      BY <1>6, <3>1, SubSeqProperties
  <2>2. FS \notin Range(Text(given))
    BY <1>5, <1>7
  <2> HIDE DEF b, c
  <2>3. /\ t \in Seq(Char) /\ Len(t) <= n /\ \A i \in 1 .. Len(t) : t[i] = c[i] /\ c[i] # NUL
    BY <2>1, TextFacts
  <2> HIDE DEF t
  <2>4. ASSUME NEW i \in 1 .. Len(t), t[i] = FS PROVE FALSE
    <3>1. i \in 1 .. n /\ i \in Nat
      BY <1>2, <2>3
    <3>2. b[i] = FS /\ \A j \in 1 .. i : j \in 1 .. Len(t) /\ j \in 1 .. n
      BY <2>1, <2>3, <2>4, <3>1
    <3>3. \A j \in 1 .. i : b[j] # NUL
      BY <2>1, <2>3, <3>2
    <3>4. FS # NUL
      BY DEF FS, NUL
    <3>5. \A j \in 1 .. i : meta_buff[j] = given[j] /\ b[j] = meta_buff[j]
      <4>1. \A j \in 1 .. n : meta_buff[j] = given[j]
        <5> HIDE DEF NUL
        <5> QED
          BY <1>1, <1>2
      <4>2. \A j \in 1 .. i : j \in 1 .. n + 1
        BY <1>2, <3>1
      <4> QED
        BY <1>6, <3>2, <3>3, <4>1, <4>2
    <3>6. \A j \in 1 .. i : given[j] # NUL
      BY <3>3, <3>5
    <3>7. i <= Len(Text(given)) /\ i \in 1 .. Len(Text(given))
      <4>1. /\ First(given, NUL) \in 1 .. Len(given) + 1
            /\ First(given, NUL) <= Len(given) => given[First(given, NUL)] = NUL
        BY <1>2, FirstFacts
      <4>2. Len(Text(given)) = First(given, NUL) - 1
        BY <1>2, TextFacts
      <4> DEFINE f == First(given, NUL)
      <4> HIDE DEF f
      <4>3. f > i
        BY <1>2, <3>1, <3>6, <4>1 DEF f, n
      <4> QED
        BY <1>2, <3>1, <4>1, <4>2, <4>3 DEF f
    <3>8. Text(given)[i] = FS /\ DOMAIN Text(given) = 1 .. Len(Text(given))
      <4>1. /\ Text(given) \in Seq(Char)
            /\ \A j \in 1 .. Len(Text(given)) : Text(given)[j] = given[j]
        BY <1>2, TextFacts
      <4>2. i \in 1 .. i
        BY <3>1
      <4> QED
        BY <3>2, <3>5, <3>7, <4>1, <4>2
    <3> QED
      BY <2>2, <3>7, <3>8 DEF Range
  <2>5. DOMAIN t = 1 .. Len(t)
    BY <2>3
  <2> QED
    BY <2>4, <2>5 DEF Range, t, c
<1>8. /\ meta_list' \in Seq([name : Seq(Char), value : Seq(Char)])
      /\ \A k \in DOMAIN meta_list' :
           Len(meta_list'[k].name) <= MaxName /\ Len(meta_list'[k].value) <= MaxValue
  BY <1>4, <1>5 DEF Sound, MetaData
<1>9. MetadataTypeOK'
  BY <1>1, <1>2, <1>6, <1>8 DEF MetadataTypeOK
<1>10. MetadataIsSorted'
  BY <1>1 DEF MetadataIsSorted
<1> QED
  BY <1>1, <1>4, <1>7, <1>9, <1>10 DEF MetaInv

LEMMA SplitFailsMeta == MetaInv /\ SplitFails => MetaInv'
<1> SUFFICES ASSUME MetaInv, SplitFails PROVE MetaInv'
  OBVIOUS
<1>1. /\ pc' = "failed" /\ given' = given /\ meta_buff' = meta_buff
      /\ meta_list' = meta_list /\ file' = file /\ MetadataTypeOK
  BY DEF MetaInv, SplitFails
<1>2. MetadataTypeOK'
  BY <1>1 DEF MetadataTypeOK
<1>3. MetadataIsSorted'
  BY <1>1 DEF MetadataIsSorted
<1> QED
  BY <1>1, <1>2, <1>3 DEF MetaInv

\* What a sorted list of the pairs is.
LEMMA SortsFacts ==
    ASSUME NEW list, NEW l \in Sorts(list)
    PROVE  l \in Reorderings(list) /\ IsSorted(l, InOrder)
  BY Zenon DEF Sorts

LEMMA SortListMeta == MetaInv /\ SortList => MetaInv'
<1> SUFFICES ASSUME MetaInv, SortList PROVE MetaInv'
  OBVIOUS
<1>1. /\ pc' = "pack" /\ given' = given /\ meta_buff' = meta_buff /\ file' = file
      /\ MetadataTypeOK /\ meta_list = Split(given) /\ meta_list' \in Sorts(Split(given))
      /\ Split(given) = <<>> => FS \notin Range(Text(SubSeq(meta_buff, 1, Len(given))))
  BY DEF MetaInv, SortList
<1>2. given \in Seq(Char)
  BY <1>1 DEF MetadataTypeOK
<1>3. /\ meta_list' \in Seq(MetaData)
      /\ \A k \in 1 .. Len(meta_list') : Sound(meta_list'[k])
  BY <1>1, <1>2, SortsFacts, PackedFits
<1>4. /\ meta_list' \in Seq([name : Seq(Char), value : Seq(Char)])
      /\ \A k \in DOMAIN meta_list' :
           Len(meta_list'[k].name) <= MaxName /\ Len(meta_list'[k].value) <= MaxValue
  BY <1>3 DEF Sound, MetaData
<1>5. MetadataTypeOK'
  BY <1>1, <1>4 DEF MetadataTypeOK
<1>6. MetadataIsSorted'
  BY <1>1 DEF MetadataIsSorted
<1> QED
  BY <1>1, <1>5, <1>6 DEF MetaInv

\* Packing: the room is enough, and of no pairs nothing is written in it.
LEMMA PackListMeta == MetaInv /\ PackList => MetaInv'
<1> SUFFICES ASSUME MetaInv, PackList PROVE MetaInv'
  OBVIOUS
<1> DEFINE p == Pack(meta_list)
           b == meta_buff'
<1>1. /\ pc' = "save" /\ given' = given /\ meta_list' = meta_list /\ file' = file
      /\ b = [i \in DOMAIN meta_buff |-> IF i <= Len(p) THEN p[i] ELSE meta_buff[i]]
      /\ MetadataTypeOK /\ meta_list \in Sorts(Split(given))
      /\ Split(given) = <<>> => FS \notin Range(Text(SubSeq(meta_buff, 1, Len(given))))
  BY DEF MetaInv, PackList
<1>2. /\ given \in Seq(Char) /\ meta_buff \in Seq(Char) /\ file \in Seq(Char)
      /\ Len(meta_buff) = Len(given) + 1 /\ Len(given) \in Nat
      /\ meta_list \in Seq([name : Seq(Char), value : Seq(Char)])
      /\ \A k \in DOMAIN meta_list :
           Len(meta_list[k].name) <= MaxName /\ Len(meta_list[k].value) <= MaxValue
  BY <1>1 DEF MetadataTypeOK
<1>3. /\ meta_list \in Seq(MetaData) /\ Len(meta_list) = Len(Split(given))
      /\ Len(Joined(meta_list)) \in Nat /\ Len(Joined(meta_list)) <= Len(given) + 1
  BY <1>1, <1>2, SortsFacts, PackedFits
<1>4. p \in Seq(Char) /\ Len(p) = Len(Joined(meta_list))
  BY <1>3, PackFacts
<1> HIDE DEF p
<1>5. /\ Len(p) <= Len(meta_buff) /\ Len(p) \in Nat /\ Len(meta_buff) \in Nat
      /\ DOMAIN p = 1 .. Len(p) /\ DOMAIN meta_buff = 1 .. Len(meta_buff)
      /\ \A i \in 1 .. Len(p) : p[i] \in Char /\ i \in 1 .. Len(meta_buff)
      /\ \A i \in 1 .. Len(meta_buff) : meta_buff[i] \in Char
  <2>1. Len(p) <= Len(meta_buff)
    BY <1>2, <1>3, <1>4
  <2> QED
    BY <1>2, <1>4, <2>1
<1>6. b \in Seq(Char) /\ Len(b) = Len(meta_buff)
  <2>1. \A i \in 1 .. Len(meta_buff) : i <= Len(p) => i \in 1 .. Len(p)
    BY <1>5
  <2>2. b \in [1 .. Len(meta_buff) -> Char]
    BY <1>1, <1>5, <2>1
  <2> QED
    BY <1>5, <2>2
<1>7. \A i \in DOMAIN p : b[i] = p[i]
  BY <1>1, <1>5
<1>8. Split(given) = <<>> => b = meta_buff
  <2>1. SUFFICES ASSUME Split(given) = <<>> PROVE b = meta_buff
    OBVIOUS
  <2>2. Len(meta_list) = 0
    BY <1>3, <2>1
  <2>3. Len(p) = 0
    BY <1>3, <1>4, <2>2, JoinedShape
  <2>4. \A i \in 1 .. Len(b) : b[i] = meta_buff[i]
    BY <1>1, <1>5, <1>6, <2>3
  <2> QED
    BY <1>2, <1>6, <2>4, SeqEqual
<1>9. MetadataTypeOK'
  BY <1>1, <1>2, <1>6 DEF MetadataTypeOK
<1>10. MetadataIsSorted'
  BY <1>1 DEF MetadataIsSorted
<1>11. Pack(meta_list') = p
  BY <1>1 DEF p
<1> QED
  BY <1>1, <1>7, <1>8, <1>9, <1>10, <1>11 DEF MetaInv

\* Saving: who splits the file finds the list that was packed.
LEMMA SaveBufferMeta == MetaInv /\ SaveBuffer => MetaInv'
<1> SUFFICES ASSUME MetaInv, SaveBuffer PROVE MetaInv'
  OBVIOUS
<1> DEFINE l == meta_list
           p == Pack(l)
           n == Len(given)
           c == file'
           q == Joined(l)
<1>1. /\ pc' = "saved" /\ given' = given /\ meta_list' = meta_list /\ meta_buff' = meta_buff
      /\ c = SubSeq(meta_buff, 1, n)
      /\ MetadataTypeOK /\ l \in Sorts(Split(given))
      /\ \A i \in DOMAIN p : meta_buff[i] = p[i]
      /\ Split(given) = <<>> => FS \notin Range(Text(SubSeq(meta_buff, 1, n)))
  BY DEF MetaInv, SaveBuffer
<1>2. /\ given \in Seq(Char) /\ meta_buff \in Seq(Char) /\ Len(meta_buff) = n + 1 /\ n \in Nat
  BY <1>1 DEF MetadataTypeOK
<1>3. l \in Reorderings(Split(given)) /\ IsSorted(l, InOrder)
  BY <1>1, SortsFacts
<1>4. /\ l \in Seq(MetaData) /\ Len(l) = Len(Split(given))
      /\ \A k \in 1 .. Len(l) : Sound(l[k])
      /\ Len(q) \in Nat /\ Len(q) <= n + 1
      /\ WellFormed(given) => Len(l) # 0 /\ Len(q) = n + 1
  BY <1>2, <1>3, PackedFits
<1>5. c \in Seq(Char) /\ Len(c) = n /\ \A i \in 1 .. n : c[i] = meta_buff[i]
  <2> HIDE DEF n, c
  <2> QED
    BY <1>1, <1>2, SubSeqProperties
<1>6. /\ p \in Seq(Char) /\ Len(p) = Len(q)
      /\ \A i \in 1 .. Len(q) : p[i] = IF i = Len(q) THEN NUL ELSE q[i]
  BY <1>4, PackFacts
<1> HIDE DEF l, p, n, c, q
<1>7. \A i \in 1 .. Len(q) : meta_buff[i] = IF i = Len(q) THEN NUL ELSE q[i]
  <2>1. DOMAIN p = 1 .. Len(q)
    BY <1>6
  <2> QED
    BY <1>1, <1>6, <2>1
<1>8. \A i \in 1 .. Len(q) - 1 : c[i] = q[i]
  <2>1. \A i \in 1 .. Len(q) - 1 : i \in 1 .. n /\ i \in 1 .. Len(q) /\ i # Len(q)
    BY <1>2, <1>4
  <2> QED
    BY <1>5, <1>7, <2>1
<1>9. Len(q) <= n /\ Len(q) # 0 => c[Len(q)] = NUL
  <2>1. SUFFICES ASSUME Len(q) <= n, Len(q) # 0 PROVE c[Len(q)] = NUL
    OBVIOUS
  <2>2. Len(q) \in 1 .. n /\ Len(q) \in 1 .. Len(q)
    BY <1>2, <1>4, <2>1
  <2> QED
    BY <1>5, <1>7, <2>2
<1>10. Split(c) = l
  <2>1. CASE Len(l) = 0
    <3>1. Split(given) \in Seq(MetaData)
      BY <1>2, SplitFacts
    <3>2. Split(given) = <<>> /\ l = <<>>
      <4> DEFINE d == Split(given)
      <4>1. d \in Seq(MetaData) /\ l \in Seq(MetaData) /\ Len(d) = 0 /\ Len(l) = 0
        BY <1>4, <2>1, <3>1
      <4> HIDE DEF d, MetaData
      <4>2. d = <<>> /\ l = <<>>
        BY <4>1
      <4> QED
        BY <4>2 DEF d
    <3>3. FS \notin Range(Text(c))
      BY <1>1, <3>2
    <3>4. Split(c) \in Seq(MetaData) /\ Len(Split(c)) = 0
      BY <1>5, <3>3, SplitFacts
    <3>5. Split(c) = <<>>
      <4> HIDE DEF MetaData
      <4> QED
        BY <3>4
    <3> QED
      BY <3>2, <3>5
  <2>2. CASE Len(l) # 0
    <3>1. Len(q) # 0
      BY <1>4, <2>2, JoinedShape DEF q
    <3>2. Len(q) - 1 <= Len(c)
      BY <1>2, <1>4, <1>5
    <3>3. Len(q) <= Len(c) => c[Len(q)] = NUL
      BY <1>5, <1>9, <3>1
    <3> QED
      BY <1>4, <1>5, <1>8, <2>2, <3>2, <3>3, PackedSplits DEF q
  <2> QED
    BY <2>1, <2>2
<1>11. WellFormed(given) => WellFormed(c)
  <2>1. SUFFICES ASSUME WellFormed(given) PROVE WellFormed(c)
    OBVIOUS
  <2>2. Len(l) # 0 /\ Len(q) - 1 = Len(c)
    BY <1>2, <1>4, <1>5, <2>1
  <2>3. \A i \in 1 .. Len(c) : c[i] = q[i]
    BY <1>8, <2>2
  <2> QED
    BY <1>4, <1>5, <2>2, <2>3, WellFormedPacked DEF q
<1>12. MetadataTypeOK'
  BY <1>1, <1>5 DEF MetadataTypeOK, c
<1>13. MetadataIsSorted'
  <2>1. Split(file') = l /\ given' = given /\ (WellFormed(given) => WellFormed(file'))
    BY <1>1, <1>10, <1>11 DEF c
  <2> QED
    BY <1>3, <2>1 DEF MetadataIsSorted
<1> QED
  BY <1>1, <1>12, <1>13 DEF MetaInv

LEMMA StepMeta == MetaInv /\ [Next]_vars => MetaInv'
<1> SUFFICES ASSUME MetaInv, [Next]_vars PROVE MetaInv'
  OBVIOUS
<1>1. CASE SplitBuffer
  BY <1>1, SplitBufferMeta
<1>2. CASE SplitFails
  BY <1>2, SplitFailsMeta
<1>3. CASE SortList
  BY <1>3, SortListMeta
<1>4. CASE PackList
  BY <1>4, PackListMeta
<1>5. CASE SaveBuffer
  BY <1>5, SaveBufferMeta
<1>6. CASE UNCHANGED vars
  <2>1. pc' = pc /\ given' = given /\ meta_buff' = meta_buff /\ meta_list' = meta_list /\ file' = file
    BY <1>6 DEF vars
  <2>2. MetadataTypeOK' /\ MetadataIsSorted'
    BY <2>1 DEF MetaInv, MetadataTypeOK, MetadataIsSorted
  <2> QED
    BY <2>1, <2>2 DEF MetaInv
<1> QED
  BY <1>1, <1>2, <1>3, <1>4, <1>5, <1>6 DEF Next

-----------------------------------------------------------------------------
(* The theorems                                                            *)

\* From the first byte to the file, the pairs are those of what came.
THEOREM MetaInvariance == Spec => []MetaInv
<1> QED
  BY InitMeta, StepMeta, PTL DEF Spec

\* The types, and that no name and no value is longer than its array.
THEOREM MetadataTyped == Spec => []MetadataTypeOK
<1>1. MetaInv => MetadataTypeOK
  BY DEF MetaInv
<1> QED
  BY <1>1, MetaInvariance, PTL

\* The round trip through split, sort, pack and the file, of any bytes.
THEOREM StoredMetadataIsSorted == Spec => []MetadataIsSorted
<1>1. MetaInv => MetadataIsSorted
  BY DEF MetaInv
<1> QED
  BY <1>1, MetaInvariance, PTL

\* Packing in place writes at most the byte behind what came.
THEOREM PackingFits == Spec => []PackFits
<1>1. MetaInv => PackFits
  <2> SUFFICES ASSUME MetaInv, pc = "pack" PROVE Len(Pack(meta_list)) <= Len(meta_buff)
    BY DEF PackFits
  <2>1. given \in Seq(Char) /\ Len(meta_buff) = Len(given) + 1 /\ meta_list \in Sorts(Split(given))
    BY DEF MetaInv, MetadataTypeOK
  <2>2. meta_list \in Seq(MetaData) /\ Len(Joined(meta_list)) <= Len(given) + 1
    BY <2>1, SortsFacts, PackedFits
  <2> QED
    BY <2>1, <2>2, PackFacts
<1> QED
  BY <1>1, MetaInvariance, PTL
=============================================================================
