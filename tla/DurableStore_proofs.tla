------------------------ MODULE DurableStore_proofs ------------------------
(***************************************************************************)
(* What a reopened store reads, for any number of commits, merges and      *)
(* crashes.                                                                *)
(***************************************************************************)
EXTENDS DurableStore, SequenceTheorems, WellFoundedInduction, TLAPS

-----------------------------------------------------------------------------
(* Numbers.                                                                *)

\* The least-number principle, from the well-foundedness of < on Nat.
LEMMA LeastNumber ==
    ASSUME NEW T \in SUBSET Nat, T # {}
    PROVE  \E x \in T : \A y \in T : x <= y
<1> DEFINE R == OpToRel(<, Nat)
<1>1. PICK x \in T : \A y \in T : ~ (<<y, x>> \in R)
  BY NatLessThanWellFounded, WFMin
<1>2. ASSUME NEW y \in T PROVE x <= y
  <2>1. ~ (y < x)
    BY <1>1 DEF OpToRel
  <2> QED BY <2>1
<1> QED BY <1>2

\* Induction up to a bound, for a set of numbers.
LEMMA UpTo ==
    ASSUME NEW n \in Nat, NEW T, 0 \in T, \A i \in 0 .. n - 1 : i \in T => i + 1 \in T
    PROVE  \A i \in 0 .. n : i \in T
<1> DEFINE U == {i \in 0 .. n : i \notin T}
<1> SUFFICES ASSUME U # {} PROVE FALSE
  OBVIOUS
<1>1. PICK x \in U : \A y \in U : x <= y
  <2>1. U \in SUBSET Nat
    OBVIOUS
  <2> QED BY <2>1, LeastNumber
<1>2. x \in 0 .. n /\ x \notin T /\ x # 0
  BY <1>1
<1>3. x - 1 \in 0 .. n - 1 /\ x - 1 \in 0 .. n /\ (x - 1) + 1 = x /\ ~(x <= x - 1)
  BY <1>2
<1>4. x - 1 \in T
  BY <1>1, <1>3
<1> QED BY <1>2, <1>3, <1>4

\* The last index of a kind, when there is one.
LEMMA LastIndex ==
    ASSUME NEW n \in Nat, NEW I \in SUBSET (0 .. n), I # {}
    PROVE  \E i \in I : \A j \in I : j <= i
<1> DEFINE U == {n - i : i \in I}
<1>1. U \in SUBSET Nat /\ U # {}
  <2>1. \A i \in I : n - i \in Nat
    OBVIOUS
  <2>2. PICK i \in I : TRUE
    OBVIOUS
  <2>3. n - i \in U
    OBVIOUS
  <2> QED BY <2>1, <2>3
<1>2. PICK u \in U : \A v \in U : u <= v
  BY <1>1, LeastNumber
<1>3. PICK i \in I : u = n - i
  OBVIOUS
<1>4. ASSUME NEW j \in I PROVE j <= i
  <2>1. n - i <= n - j
    BY <1>2, <1>3
  <2> QED BY <2>1
<1> QED BY <1>4

-----------------------------------------------------------------------------
(* The elements of a sequence at some of its indices.                      *)

\* The recursion has a solution.
KeepStep(s, I, f, i) ==
    IF i = 0 THEN <<>> ELSE IF i \in I THEN Append(f[i - 1], s[i]) ELSE f[i - 1]

LEMMA KeepingExists ==
    ASSUME NEW s, NEW I, NEW n \in Nat
    PROVE  \E f : f = [i \in 0 .. n |-> KeepStep(s, I, f, i)]
<1> DEFINE T == {m \in Nat : \E f : f = [i \in 0 .. m |-> KeepStep(s, I, f, i)]}
<1>1. 0 \in T
  <2> DEFINE f == [i \in 0 .. 0 |-> <<>>]
  <2>1. f = [i \in 0 .. 0 |-> KeepStep(s, I, f, i)]
    BY DEF KeepStep
  <2> QED BY <2>1
<1>2. ASSUME NEW m \in Nat, m \in T PROVE m + 1 \in T
  <2>1. PICK f : f = [i \in 0 .. m |-> KeepStep(s, I, f, i)]
    BY <1>2
  <2>2. \A i \in 0 .. m : f[i] = KeepStep(s, I, f, i)
    BY <2>1
  <2> DEFINE g == [i \in 0 .. m + 1 |-> IF i <= m THEN f[i] ELSE KeepStep(s, I, f, i)]
  <2>3. ASSUME NEW i \in 0 .. m + 1 PROVE g[i] = KeepStep(s, I, g, i)
    <3>1. g[i] = KeepStep(s, I, f, i)
      BY <2>2
    <3>2. i # 0 => g[i - 1] = f[i - 1]
      OBVIOUS
    <3>3. KeepStep(s, I, f, i) = KeepStep(s, I, g, i)
      <4> HIDE DEF g
      <4>1. CASE i = 0
        BY <4>1 DEF KeepStep
      <4>2. CASE i # 0
        BY <3>2, <4>2, Zenon DEF KeepStep
      <4> QED BY <4>1, <4>2
    <3> QED BY <3>1, <3>3
  <2>4. g = [i \in 0 .. m + 1 |-> KeepStep(s, I, g, i)]
    <3>1. g = [i \in 0 .. m + 1 |-> g[i]]
      OBVIOUS
    <3> HIDE DEF g
    <3> QED BY <2>3, <3>1
  <2> HIDE DEF g
  <2>5. \E h : h = [i \in 0 .. m + 1 |-> KeepStep(s, I, h, i)]
    BY <2>4
  <2> QED BY <2>5
<1>3. n \in T
  <2>1. \A i \in 0 .. n : i \in T
    BY <1>1, <1>2, UpTo
  <2> QED BY <2>1
<1> QED BY <1>3

LEMMA KeepingSteps ==
    ASSUME NEW s, Len(s) \in Nat, NEW I
    PROVE  \A i \in 0 .. Len(s) : Keeping(s, I)[i] = KeepStep(s, I, Keeping(s, I), i)
<1> DEFINE n == Len(s)
<1>1. Keeping(s, I) = CHOOSE f : f = [i \in 0 .. n |-> KeepStep(s, I, f, i)]
  BY DEF Keeping, KeepStep
<1>2. \E f : f = [i \in 0 .. n |-> KeepStep(s, I, f, i)]
  BY KeepingExists
<1>3. Keeping(s, I) = [i \in 0 .. n |-> KeepStep(s, I, Keeping(s, I), i)]
  <2> DEFINE P(f) == f = [i \in 0 .. n |-> KeepStep(s, I, f, i)]
  <2>1. P(CHOOSE f : P(f))
    BY <1>2
  <2> QED BY <1>1, <2>1
<1> QED BY <1>3

\* t has the elements of s at the indices I, in their order.
Picks(s, I, t) ==
    \E m \in [1 .. Len(t) -> I] :
        /\ \A k \in 1 .. Len(t) : t[k] = s[m[k]]
        /\ \A j, k \in 1 .. Len(t) : j < k => m[j] < m[k]
        /\ \A i \in I : \E k \in 1 .. Len(t) : m[k] = i

LEMMA KeepPicks ==
    ASSUME NEW S, NEW s \in Seq(S), NEW I \in SUBSET (1 .. Len(s))
    PROVE  Keep(s, I) \in Seq(S) /\ Picks(s, I, Keep(s, I))
<1> DEFINE K == Keeping(s, I)
           J(n) == {i \in I : i <= n}
           P(n) == K[n] \in Seq(S) /\ Picks(s, J(n), K[n])
           T == {n \in 0 .. Len(s) : P(n)}
<1>1. /\ Len(s) \in Nat /\ \A i \in 1 .. Len(s) : s[i] \in S
      /\ \A i \in I : i \in Nat /\ i <= Len(s)
  BY LenProperties
<1>2. \A i \in 0 .. Len(s) : K[i] = KeepStep(s, I, K, i)
  BY <1>1, KeepingSteps
<1> HIDE DEF K
<1>3. 0 \in T
  <2>1. K[0] = <<>> /\ 0 \in 0 .. Len(s)
    BY <1>1, <1>2 DEF KeepStep
  <2>2. J(0) = {}
    <3>1. \A i \in I : ~(i <= 0)
      OBVIOUS
    <3> QED BY <3>1
  <2>3. Picks(s, J(0), <<>>)
    <3>1. <<>> \in [1 .. Len(<<>>) -> {}] /\ 1 .. Len(<<>>) = {}
      OBVIOUS
    <3> QED BY <2>2, <3>1 DEF Picks
  <2>4. <<>> \in Seq(S)
    OBVIOUS
  <2> QED BY <2>1, <2>3, <2>4
<1>4. ASSUME NEW n \in 0 .. Len(s) - 1, n \in T PROVE n + 1 \in T
  <2> DEFINE c == Len(K[n])
  <2>1. n \in Nat /\ n + 1 \in 0 .. Len(s) /\ n + 1 \in 1 .. Len(s) /\ (n + 1) - 1 = n /\ n + 1 # 0
    BY <1>1
  <2>2. K[n] \in Seq(S) /\ Picks(s, J(n), K[n]) /\ c \in Nat
    BY <1>4, LenProperties
  <2>3. CASE n + 1 \in I
    <3>1. K[n + 1] = Append(K[n], s[n + 1])
      BY <1>2, <2>1, <2>3 DEF KeepStep
    <3>2. /\ K[n + 1] \in Seq(S) /\ Len(K[n + 1]) = c + 1
          /\ \A k \in 1 .. c : K[n + 1][k] = K[n][k]
          /\ K[n + 1][c + 1] = s[n + 1]
      BY <1>1, <2>1, <2>2, <3>1, AppendProperties
    <3>3. PICK m \in [1 .. c -> J(n)] :
            /\ \A k \in 1 .. c : K[n][k] = s[m[k]]
            /\ \A j, k \in 1 .. c : j < k => m[j] < m[k]
            /\ \A i \in J(n) : \E k \in 1 .. c : m[k] = i
      BY <2>2 DEF Picks
    <3> DEFINE h == [k \in 1 .. c + 1 |-> IF k = c + 1 THEN n + 1 ELSE m[k]]
    <3> HIDE DEF c
    <3>4. \A k \in 1 .. c + 1 : k = c + 1 \/ (k \in 1 .. c /\ k # c + 1)
      BY <2>2
    <3>5. /\ \A i \in J(n + 1) : i = n + 1 \/ i \in J(n)
          /\ \A i \in J(n) : i \in J(n + 1) /\ i \in Nat /\ i < n + 1
          /\ n + 1 \in J(n + 1)
      BY <1>1, <2>1, <2>3
    <3>6. h[c + 1] = n + 1 /\ \A k \in 1 .. c : h[k] = m[k] /\ m[k] \in J(n)
      BY <2>2, <3>4
    <3>7. h \in [1 .. c + 1 -> J(n + 1)]
      <4>1. \A k \in 1 .. c + 1 : h[k] \in J(n + 1)
        BY <3>4, <3>5, <3>6
      <4>2. h = [k \in 1 .. c + 1 |-> h[k]]
        OBVIOUS
      <4> HIDE DEF h, J
      <4> QED BY <4>1, <4>2
    <3> HIDE DEF h
    <3>8. \A k \in 1 .. c + 1 : K[n + 1][k] = s[h[k]]
      BY <3>2, <3>3, <3>4, <3>6
    <3>9. \A j, k \in 1 .. c + 1 : j < k => h[j] < h[k]
      <4> SUFFICES ASSUME NEW j \in 1 .. c + 1, NEW k \in 1 .. c + 1, j < k PROVE h[j] < h[k]
        OBVIOUS
      <4>1. j \in 1 .. c /\ h[j] = m[j] /\ m[j] \in J(n)
        BY <2>2, <3>6
      <4>2. CASE k = c + 1
        BY <3>5, <3>6, <4>1, <4>2
      <4>3. CASE k \in 1 .. c
        BY <3>3, <3>6, <4>1, <4>3
      <4> QED BY <3>4, <4>2, <4>3
    <3>10. \A i \in J(n + 1) : \E k \in 1 .. c + 1 : h[k] = i
      <4> SUFFICES ASSUME NEW i \in J(n + 1) PROVE \E k \in 1 .. c + 1 : h[k] = i
        OBVIOUS
      <4>1. CASE i = n + 1
        BY <2>2, <3>6, <4>1
      <4>2. CASE i \in J(n)
        <5>1. PICK k \in 1 .. c : m[k] = i
          BY <3>3, <4>2
        <5> QED BY <2>2, <3>6, <5>1
      <4> QED BY <3>5, <4>1, <4>2
    <3>11. Picks(s, J(n + 1), K[n + 1])
      BY <3>2, <3>7, <3>8, <3>9, <3>10 DEF Picks
    <3> QED BY <2>1, <3>2, <3>11
  <2>4. CASE n + 1 \notin I
    <3>1. K[n + 1] = K[n]
      BY <1>2, <2>1, <2>4 DEF KeepStep
    <3>2. J(n + 1) = J(n)
      <4>1. \A i \in I : i <= n + 1 <=> i <= n
        BY <1>1, <2>1, <2>4
      <4> QED BY <4>1
    <3> QED BY <2>1, <2>2, <3>1, <3>2
  <2> QED BY <2>3, <2>4
<1>5. Len(s) \in T
  <2> HIDE DEF T
  <2>1. Len(s) \in 0 .. Len(s)
    BY <1>1
  <2> QED BY <1>1, <1>3, <1>4, <2>1, UpTo
<1>6. J(Len(s)) = I
  BY <1>1
<1> QED BY <1>5, <1>6 DEF Keep, K

-----------------------------------------------------------------------------
(* The dataset of a base and a list of transactions.                       *)

Rec == [kind : {"tx", "checkpoint"}, epoch : Nat, dels : SUBSET Quads, adds : SUBSET Quads]
Touches(t, q) == q \in t.dels \cup t.adds

LEMMA DataNone ==
    ASSUME NEW b, NEW s \in Seq(Rec), NEW q \in Quads,
           \A i \in 1 .. Len(s) : ~Touches(s[i], q)
    PROVE  q \in Data(b, s) <=> q \in b
<1>1. DOMAIN s = 1 .. Len(s)
  BY LenProperties
<1>2. {i \in DOMAIN s : q \in s[i].dels \cup s[i].adds} = {}
  BY <1>1 DEF Touches
<1> QED BY <1>2 DEF Data

LEMMA DataLast ==
    ASSUME NEW b, NEW s \in Seq(Rec), NEW q \in Quads, NEW i \in 1 .. Len(s), Touches(s[i], q),
           \A j \in 1 .. Len(s) : j > i => ~Touches(s[j], q)
    PROVE  q \in Data(b, s) <=> q \in s[i].adds
<1> DEFINE I == {j \in DOMAIN s : q \in s[j].dels \cup s[j].adds}
<1>1. DOMAIN s = 1 .. Len(s) /\ Len(s) \in Nat
  BY LenProperties
<1>2. i \in I /\ \A j \in I : j <= i
  BY <1>1 DEF Touches
<1>3. I \in SUBSET Nat
  BY <1>1
<1> HIDE DEF I
<1>4. (CHOOSE k \in I : \A j \in I : j <= k) = i
  <2>1. \A k \in I : (\A j \in I : j <= k) => k = i
    BY <1>2, <1>3
  <2> QED BY <1>2, <2>1
<1>5. I # {}
  BY <1>2
<1> QED BY <1>4, <1>5 DEF Data, I

\* A list either leaves a quad alone or has a last transaction that names it.
LEMMA LastTouch ==
    ASSUME NEW s, Len(s) \in Nat, NEW q
    PROVE  \/ \A i \in 1 .. Len(s) : ~Touches(s[i], q)
           \/ \E i \in 1 .. Len(s) :
                 Touches(s[i], q) /\ \A j \in 1 .. Len(s) : j > i => ~Touches(s[j], q)
<1> DEFINE I == {i \in 1 .. Len(s) : Touches(s[i], q)}
<1>1. CASE I = {}
  BY <1>1
<1>2. CASE I # {}
  <2>1. PICK i \in I : \A j \in I : j <= i
    <3>1. I \in SUBSET (0 .. Len(s))
      OBVIOUS
    <3> QED BY <1>2, <3>1, LastIndex
  <2>2. \A j \in 1 .. Len(s) : j > i => ~Touches(s[j], q)
    BY <2>1
  <2> QED BY <2>1, <2>2
<1> QED BY <1>1, <1>2

LEMMA DataAppend ==
    ASSUME NEW b \in SUBSET Quads, NEW s \in Seq(Rec), NEW t \in Rec
    PROVE  Data(b, Append(s, t)) = (Data(b, s) \ t.dels) \cup t.adds
<1> DEFINE u == Append(s, t)
           n == Len(s)
<1>1. /\ n \in Nat /\ u \in Seq(Rec) /\ Len(u) = n + 1 /\ u[n + 1] = t
      /\ \A i \in 1 .. n : u[i] = s[i]
  BY LenProperties, AppendProperties
<1>2. t.dels \in SUBSET Quads /\ t.adds \in SUBSET Quads
  BY DEF Rec
<1> HIDE DEF u, n
<1>3. \A i \in 1 .. n + 1 : i \in 1 .. n \/ i = n + 1
  BY <1>1
<1>4. ASSUME NEW q \in Quads PROVE q \in Data(b, u) <=> q \in (Data(b, s) \ t.dels) \cup t.adds
  <2>1. CASE Touches(t, q)
    <3>1. n + 1 \in 1 .. Len(u) /\ \A j \in 1 .. Len(u) : ~(j > n + 1)
      BY <1>1
    <3>2. q \in Data(b, u) <=> q \in t.adds
      BY <1>1, <2>1, <3>1, DataLast
    <3> QED BY <2>1, <3>2 DEF Touches
  <2>2. CASE ~Touches(t, q)
    <3>1. CASE \A i \in 1 .. n : ~Touches(s[i], q)
      <4>1. \A i \in 1 .. Len(u) : ~Touches(u[i], q)
        BY <1>1, <1>3, <2>2, <3>1
      <4>2. (q \in Data(b, u) <=> q \in b) /\ (q \in Data(b, s) <=> q \in b)
        BY <1>1, <3>1, <4>1, DataNone DEF n
      <4> QED BY <2>2, <4>2 DEF Touches
    <3>2. ASSUME NEW i \in 1 .. n, Touches(s[i], q), \A j \in 1 .. n : j > i => ~Touches(s[j], q)
          PROVE  q \in Data(b, u) <=> q \in (Data(b, s) \ t.dels) \cup t.adds
      <4>1. i \in 1 .. Len(u) /\ u[i] = s[i] /\ \A j \in 1 .. Len(u) : j > i => ~Touches(u[j], q)
        BY <1>1, <1>3, <2>2, <3>2
      <4>2. (q \in Data(b, u) <=> q \in s[i].adds) /\ (q \in Data(b, s) <=> q \in s[i].adds)
        <5>1. q \in Data(b, u) <=> q \in s[i].adds
          BY <1>1, <3>2, <4>1, DataLast
        <5>2. q \in Data(b, s) <=> q \in s[i].adds
          BY <3>2, DataLast DEF n
        <5> QED BY <5>1, <5>2
      <4> QED BY <2>2, <4>2 DEF Touches
    <3> QED BY <1>1, <3>1, <3>2, LastTouch DEF n
  <2> QED BY <2>1, <2>2
<1>5. Data(b, u) \subseteq Quads /\ Data(b, s) \subseteq Quads
  BY DEF Data
<1> QED BY <1>2, <1>4, <1>5 DEF u

\* y is x after the transaction t.
Leads(x, t, y) == y = (x \ t.dels) \cup t.adds

\* Transactions at the end of a list take its dataset where they take h[0].
LEMMA DataExtend ==
    ASSUME NEW b \in SUBSET Quads, NEW s \in Seq(Rec), NEW t \in Seq(Rec), NEW h,
           Data(b, s) = h[0],
           \A i \in 1 .. Len(t) : Leads(h[i - 1], t[i], h[i])
    PROVE  Data(b, s \o t) = h[Len(t)]
<1> DEFINE n == Len(t)
           U(i) == s \o SubSeq(t, 1, i)
           T == {i \in 0 .. n : Data(b, U(i)) = h[i]}
<1>1. n \in Nat /\ \A i \in 1 .. n : t[i] \in Rec
  BY LenProperties
<1>2. 0 \in T
  <2>1. U(0) = s
    BY SubSeqEmpty, ConcatEmptySeq
  <2>2. 0 \in 0 .. n
    BY <1>1
  <2> HIDE DEF U
  <2> QED BY <2>1, <2>2
<1>3. ASSUME NEW i \in 0 .. n - 1, i \in T PROVE i + 1 \in T
  <2>1. /\ i + 1 \in 1 .. n /\ i + 1 \in 0 .. n /\ (i + 1) - 1 = i /\ 1 \in 1 .. n
    BY <1>1
  <2>2. SubSeq(t, 1, i) \in Seq(Rec)
    BY <1>1, <2>1, SubSeqProperties
  <2>3. SubSeq(t, 1, i + 1) = SubSeq(t, 1, i) \o <<t[i + 1]>>
    <3>1. i + 1 \in 1 .. Len(t)
      BY <2>1
    <3> QED BY <2>1, <3>1, SubSeqRecursiveSecond
  <2>4. U(i) \in Seq(Rec) /\ <<t[i + 1]>> \in Seq(Rec)
    BY <1>1, <2>1, <2>2, ConcatProperties
  <2>5. U(i + 1) = U(i) \o <<t[i + 1]>>
    BY <2>2, <2>3, <2>4, ConcatAssociative
  <2>6. U(i + 1) = Append(U(i), t[i + 1])
    BY <1>1, <2>1, <2>4, <2>5, AppendIsConcat
  <2>7. Data(b, U(i + 1)) = (Data(b, U(i)) \ t[i + 1].dels) \cup t[i + 1].adds
    <3>1. \A u \in Seq(Rec) : \A x \in Rec : Data(b, Append(u, x)) = (Data(b, u) \ x.dels) \cup x.adds
      BY DataAppend
    <3>2. t[i + 1] \in Rec /\ U(i) \in Seq(Rec)
      BY <1>1, <2>1, <2>4
    <3> HIDE DEF U
    <3> QED BY <2>6, <3>1, <3>2
  <2>8. Data(b, U(i + 1)) = h[i + 1]
    <3>1. Leads(h[i], t[i + 1], h[i + 1])
      BY <2>1
    <3> QED BY <1>3, <2>1, <2>7, <3>1 DEF Leads
  <2> QED BY <2>1, <2>8
<1>4. n \in T
  <2> HIDE DEF T
  <2>1. n \in 0 .. n
    BY <1>1
  <2> QED BY <1>1, <1>2, <1>3, <2>1, UpTo
<1>5. U(n) = s \o t
  BY SubSeqFull
<1> QED BY <1>4, <1>5

\* What a list does from some index on, over the dataset of what is before.
LEMMA DataAfter ==
    ASSUME NEW b, NEW s \in Seq(Rec), NEW f \in Nat, NEW k \in 0 .. Len(s),
           \A i \in 1 .. Len(s) : s[i].epoch > f <=> i > k
    PROVE  Data(Data(b, SubSeq(s, 1, k)), After(s, f)) = Data(b, s)
<1> DEFINE n == Len(s)
           p == SubSeq(s, 1, k)
           I == {i \in DOMAIN s : s[i].epoch > f}
           a == After(s, f)
<1>1. n \in Nat /\ DOMAIN s = 1 .. n /\ \A i \in 1 .. n : s[i] \in Rec
  BY LenProperties
<1>2. p \in Seq(Rec) /\ Len(p) = k /\ \A i \in 1 .. k : p[i] = s[i]
  BY <1>1, SubSeqProperties
<1>3. I \in SUBSET (1 .. Len(s)) /\ \A i \in 1 .. n : i \in I <=> i > k
  BY <1>1
<1>4. a \in Seq(Rec) /\ Picks(s, I, a)
  BY <1>3, KeepPicks DEF After
<1>5. PICK m \in [1 .. Len(a) -> I] :
        /\ \A j \in 1 .. Len(a) : a[j] = s[m[j]]
        /\ \A i, j \in 1 .. Len(a) : i < j => m[i] < m[j]
        /\ \A i \in I : \E j \in 1 .. Len(a) : m[j] = i
  BY <1>4 DEF Picks
<1>6. Len(a) \in Nat
  BY <1>4, LenProperties
<1> HIDE DEF n, p, I, a
<1>7. ASSUME NEW q \in Quads PROVE q \in Data(Data(b, p), a) <=> q \in Data(b, s)
  <2>1. CASE \A i \in 1 .. n : ~Touches(s[i], q)
    <3>1. q \in Data(b, s) <=> q \in b
      BY <2>1, DataNone DEF n
    <3>2. q \in Data(b, p) <=> q \in b
      <4>1. \A i \in 1 .. Len(p) : ~Touches(p[i], q)
        BY <1>1, <1>2, <2>1 DEF n
      <4> QED BY <1>2, <4>1, DataNone
    <3>3. q \in Data(Data(b, p), a) <=> q \in Data(b, p)
      <4>1. \A j \in 1 .. Len(a) : ~Touches(a[j], q)
        BY <1>3, <1>5, <2>1 DEF n
      <4> QED BY <1>4, <4>1, DataNone
    <3> QED BY <3>1, <3>2, <3>3
  <2>2. ASSUME NEW i \in 1 .. n, Touches(s[i], q), \A j \in 1 .. n : j > i => ~Touches(s[j], q)
        PROVE  q \in Data(Data(b, p), a) <=> q \in Data(b, s)
    <3>1. q \in Data(b, s) <=> q \in s[i].adds
      BY <2>2, DataLast DEF n
    <3>2. CASE i > k
      <4>1. PICK j \in 1 .. Len(a) : m[j] = i
        BY <1>3, <1>5, <3>2
      <4>2. \A l \in 1 .. Len(a) : l > j => ~Touches(a[l], q)
        <5> SUFFICES ASSUME NEW l \in 1 .. Len(a), l > j PROVE ~Touches(a[l], q)
          OBVIOUS
        <5>1. m[l] > i /\ m[l] \in 1 .. n /\ a[l] = s[m[l]]
          BY <1>3, <1>5, <1>6, <4>1 DEF n
        <5> QED BY <2>2, <5>1
      <4>3. Touches(a[j], q) /\ a[j] = s[i]
        BY <1>5, <2>2, <4>1
      <4> QED BY <1>4, <3>1, <4>2, <4>3, DataLast
    <3>3. CASE ~(i > k)
      <4>1. i \in 1 .. Len(p) /\ p[i] = s[i]
        BY <1>1, <1>2, <3>3 DEF n
      <4>2. \A j \in 1 .. Len(p) : j > i => ~Touches(p[j], q)
        BY <1>1, <1>2, <2>2 DEF n
      <4>3. q \in Data(b, p) <=> q \in s[i].adds
        BY <1>2, <2>2, <4>1, <4>2, DataLast
      <4>4. \A j \in 1 .. Len(a) : ~Touches(a[j], q)
        <5> SUFFICES ASSUME NEW j \in 1 .. Len(a) PROVE ~Touches(a[j], q)
          OBVIOUS
        <5>1. m[j] \in 1 .. n /\ m[j] > k /\ a[j] = s[m[j]]
          BY <1>3, <1>5 DEF n
        <5>2. m[j] > i
          BY <1>1, <3>3, <5>1 DEF n
        <5> QED BY <2>2, <5>1, <5>2
      <4> QED BY <1>4, <3>1, <4>3, <4>4, DataNone
    <3> QED BY <3>2, <3>3
  <2> QED BY <1>1, <2>1, <2>2, LastTouch DEF n
<1>8. Data(Data(b, p), a) \subseteq Quads /\ Data(b, s) \subseteq Quads
  BY DEF Data
<1> QED BY <1>7, <1>8 DEF p, a

-----------------------------------------------------------------------------
(* Types.                                                                  *)

Log == [recs : Seq(Rec), synced : Nat]
Dir == [current : Gens, wal : {0, 1}, base : [Gens -> (SUBSET Quads) \cup {Absent, Partial}]]
Mem == [up : BOOLEAN, gen : Gens, epoch : Nat, base : SUBSET Quads, delta : Seq(Rec),
        wal : {0, 1}, written : Nat, broken : BOOLEAN, poisoned : BOOLEAN,
        retired : SUBSET Gens]
Merging == {"started", "building", "shadow", "staged", "flipped", "pointed", "renamed"}
Merge == [phase : Merging \cup {"idle", "drain"}, f : Nat, data : SUBSET Quads, mark : Nat,
          header : BOOLEAN]
IsSeq(s) == s \in Seq({s[i] : i \in 1 .. Len(s)}) /\ Len(s) \in Nat

TypeInv ==
    /\ env \in Envs
    /\ IsSeq(hist) /\ Len(hist) # 0 /\ hist[Len(hist)] \in SUBSET Quads
    /\ logs \in [{0, 1} -> Log]
    /\ dirs \in Seq(Dir) /\ dirs # <<>>
    /\ mem \in Mem /\ merge \in Merge
    /\ acked \in Nat /\ crashes \in Nat
    /\ ~mem.up => merge = IdleMerge
    /\ merge.phase \in Merging => mem.gen < MaxGen

\* The transaction of a record is the commit of its epoch.
Commits(t) ==
    /\ t.kind = "tx" /\ t.epoch \in 1 .. Len(hist) - 1
    /\ t.dels \subseteq hist[t.epoch] /\ t.adds \cap (hist[t.epoch] \ t.dels) = {}
    /\ t.dels \cup t.adds # {}
    /\ hist[t.epoch + 1] = (hist[t.epoch] \ t.dels) \cup t.adds

\* The handle reads its epoch; what the log has beyond what was recorded is
\* the group in flight; a merge's data is what the handle read at the freeze.
Sorted(s) == \A i, j \in 1 .. Len(s) : i < j => s[i].epoch < s[j].epoch
Written == logs[mem.wal].recs
Pending == Len(hist) - 1 - mem.epoch
Frozen ==
    /\ merge.f <= mem.epoch /\ merge.mark <= mem.epoch /\ merge.f <= merge.mark
    /\ merge.data = hist[merge.f + 1]
    /\ \E k \in 0 .. Len(mem.delta) :
          /\ \A i \in 1 .. Len(mem.delta) : mem.delta[i].epoch > merge.f <=> i > k
          /\ merge.data = Data(mem.base, SubSeq(mem.delta, 1, k))
ReadInv ==
    mem.up =>
        /\ mem.epoch < Len(hist) /\ View = hist[mem.epoch + 1]
        /\ mem.written + Pending = Len(Written)
        /\ \A i \in 1 .. Pending :
              Commits(Written[mem.written + i]) /\ Written[mem.written + i].epoch = mem.epoch + i
        /\ Sorted(mem.delta) /\ \A i \in 1 .. Len(mem.delta) : mem.delta[i].epoch <= mem.epoch
        /\ merge.phase \in Merging => Frozen

LEMMA SubSeqIsSeq ==
    ASSUME NEW s, NEW n \in Nat
    PROVE  IsSeq(Prefix(s, n)) /\ Len(Prefix(s, n)) = n /\ \A i \in 1 .. n : Prefix(s, n)[i] = s[i]
<1> DEFINE S == {s[i] : i \in 1 .. n}
           p == SubSeq(s, 1, n)
<1>1. /\ p \in Seq(S) /\ Len(p) = IF 1 <= n THEN n - 1 + 1 ELSE 0
      /\ \A i \in 1 .. n - 1 + 1 : p[i] = s[1 + i - 1]
  BY SubSeqProperties
<1>2. Len(p) = n /\ n - 1 + 1 = n
  BY <1>1
<1>3. \A i \in 1 .. n : p[i] = s[i]
  <2>1. \A i \in 1 .. n : 1 + i - 1 = i
    OBVIOUS
  <2> QED BY <1>1, <1>2, <2>1
<1>4. {p[i] : i \in 1 .. Len(p)} = S
  BY <1>2, <1>3
<1> QED BY <1>1, <1>2, <1>3, <1>4 DEF IsSeq, Prefix

LEMMA AppendIsSeq ==
    ASSUME NEW s, IsSeq(s), NEW x
    PROVE  /\ IsSeq(Append(s, x)) /\ Len(Append(s, x)) = Len(s) + 1 /\ Len(s) \in Nat
           /\ Append(s, x)[Len(s) + 1] = x
           /\ \A i \in 1 .. Len(s) : Append(s, x)[i] = s[i]
<1> DEFINE S == {s[i] : i \in 1 .. Len(s)} \cup {x}
           u == Append(s, x)
<1>1. s \in Seq(S) /\ x \in S
  BY SeqMonotonic DEF IsSeq
<1>2. /\ u \in Seq(S) /\ Len(u) = Len(s) + 1 /\ u[Len(s) + 1] = x /\ Len(s) \in Nat
      /\ \A i \in 1 .. Len(s) : u[i] = s[i]
  <2> HIDE DEF S
  <2> QED BY <1>1, AppendProperties, LenProperties
<1>3. u \in [1 .. Len(u) -> S] /\ Len(u) \in Nat
  BY <1>2, LenProperties
<1>4. u \in [1 .. Len(u) -> {u[i] : i \in 1 .. Len(u)}]
  BY <1>3
<1>5. IsSeq(u)
  BY <1>3, <1>4, SeqDef DEF IsSeq
<1> QED BY <1>2, <1>5

\* A directory state after the others.
LEMMA ChangedKeeps ==
    ASSUME dirs \in Seq(Dir), dirs # <<>>, NEW d \in Dir
    PROVE  /\ Changed(d) \in Seq(Dir) /\ Changed(d) # <<>>
           /\ Changed(d)[Len(Changed(d))] = d
           /\ Range(Changed(d)) = Range(dirs) \cup {d}
<1>1. Len(dirs) \in Nat \ {0} /\ DOMAIN dirs = 1 .. Len(dirs) /\ dir \in Dir /\ dir \in Range(dirs)
  BY EmptySeq, LenProperties DEF dir, Range
<1>2. CASE d = dir
  BY <1>1, <1>2 DEF Changed, dir
<1>3. CASE d # dir
  <2> DEFINE u == Append(dirs, d)
  <2>1. /\ u \in Seq(Dir) /\ u # <<>> /\ Len(u) = Len(dirs) + 1 /\ u[Len(dirs) + 1] = d
        /\ \A i \in 1 .. Len(dirs) : u[i] = dirs[i]
    BY AppendProperties
  <2>2. DOMAIN u = 1 .. Len(u)
    BY <2>1, LenProperties
  <2>3. Changed(d) = u
    BY <1>3 DEF Changed
  <2> HIDE DEF u
  <2>4. \A i \in 1 .. Len(u) : i \in 1 .. Len(dirs) \/ i = Len(dirs) + 1
    BY <1>1, <2>1
  <2>5. \A i \in 1 .. Len(dirs) : i \in 1 .. Len(u)
    BY <1>1, <2>1
  <2>6. Len(dirs) + 1 \in 1 .. Len(u)
    BY <1>1, <2>1
  <2>7. Range(u) = Range(dirs) \cup {d}
    <3>1. Range(u) \subseteq Range(dirs) \cup {d}
      BY <1>1, <2>1, <2>2, <2>4 DEF Range
    <3>2. Range(dirs) \subseteq Range(u)
      BY <1>1, <2>1, <2>2, <2>5 DEF Range
    <3>3. d \in Range(u)
      BY <2>1, <2>2, <2>6 DEF Range
    <3> QED BY <3>1, <3>2, <3>3
  <2> QED BY <2>1, <2>3, <2>7
<1> QED BY <1>2, <1>3

LEMMA DirIs == ASSUME dirs \in Seq(Dir), dirs # <<>> PROVE dir \in Dir /\ dir \in Range(dirs)
  BY EmptySeq, LenProperties DEF dir, Range

LEMMA OneDir ==
    ASSUME NEW d \in Dir, dirs' = <<d>>
    PROVE  dirs' \in Seq(Dir) /\ dirs' # <<>> /\ dir' = d /\ Range(dirs') = {d}
<1>1. Len(<<d>>) = 1 /\ <<d>>[1] = d /\ <<d>> # <<>> /\ <<d>> \in Seq(Dir) /\ DOMAIN <<d>> = {1}
  OBVIOUS
<1> QED BY <1>1 DEF dir, Range

LEMMA SameTypes ==
    ASSUME env' = env
    PROVE  /\ Quads' = Quads /\ Gens' = Gens /\ MaxGen' = MaxGen /\ Rec' = Rec
           /\ Log' = Log /\ Dir' = Dir /\ Mem' = Mem /\ Merge' = Merge
<1>1. Quads' = Quads /\ Gens' = Gens /\ MaxGen' = MaxGen
  BY DEF Quads, Gens, MaxGen
<1>2. Rec' = Rec
  BY <1>1 DEF Rec
<1> QED BY <1>1, <1>2 DEF Log, Dir, Mem, Merge

LEMMA TypeKept ==
    ASSUME TypeInv, env' = env,
           IsSeq(hist') /\ Len(hist') # 0 /\ hist'[Len(hist')] \in SUBSET Quads,
           logs' \in [{0, 1} -> Log], dirs' \in Seq(Dir) /\ dirs' # <<>>,
           mem' \in Mem, merge' \in Merge, acked' \in Nat, crashes' \in Nat,
           ~mem'.up => merge' = IdleMerge, merge'.phase \in Merging => mem'.gen < MaxGen
    PROVE  TypeInv'
<1>1. Merging' = Merging /\ IdleMerge' = IdleMerge
  BY DEF Merging, IdleMerge
<1>2. IsSeq(hist)'
  BY DEF IsSeq
<1> QED BY <1>1, <1>2, SameTypes DEF TypeInv

LEMMA InitTypes == Init => TypeInv
<1> SUFFICES ASSUME Init PROVE TypeInv
  OBVIOUS
<1>1. PICK B \in SUBSET Quads :
        /\ dirs = <<[current |-> 0, wal |-> 0, base |-> [g \in Gens |-> IF g = 0 THEN B ELSE Absent]]>>
        /\ hist = <<B>>
  BY DEF Init
<1>2. env \in Envs /\ MaxGen \in Nat /\ 0 \in Gens
  BY ConstantsAssumption DEF Init, MaxGen, Gens
<1>3. IsSeq(hist) /\ Len(hist) = 1 /\ hist[1] = B
  <2>1. <<B>> \in Seq({B}) /\ Len(<<B>>) = 1 /\ <<B>>[1] = B
    OBVIOUS
  <2>2. <<B>> = Prefix(<<B>>, 1)
    BY <2>1, SubSeqFull DEF Prefix
  <2>3. IsSeq(Prefix(<<B>>, 1))
    BY SubSeqIsSeq
  <2>4. IsSeq(<<B>>)
    BY <2>2, <2>3, Zenon
  <2>5. hist = <<B>>
    BY <1>1
  <2>6. Len(hist) = 1 /\ hist[1] = B
    BY <2>1, <2>5
  <2>7. IsSeq(hist)
    BY <2>4, <2>5, Zenon
  <2> QED BY <2>6, <2>7
<1>4. logs \in [{0, 1} -> Log]
  <2>1. EmptyLog \in Log
    BY DEF EmptyLog, Log
  <2> QED BY <2>1 DEF Init
<1>5. dirs \in Seq(Dir) /\ dirs # <<>>
  <2> DEFINE d == [current |-> 0, wal |-> 0, base |-> [g \in Gens |-> IF g = 0 THEN B ELSE Absent]]
  <2>1. d \in Dir
    BY <1>2 DEF Dir
  <2> HIDE DEF d
  <2>2. <<d>> \in Seq(Dir) /\ <<d>> # <<>>
    BY <2>1
  <2> QED BY <1>1, <2>2 DEF d
<1>6. mem \in Mem /\ ~mem.up
  BY <1>2 DEF Init, ClosedMem, Mem
<1>7. merge \in Merge /\ merge = IdleMerge /\ merge.phase \notin Merging
  BY DEF Init, IdleMerge, Merge, Merging
<1> QED BY <1>2, <1>3, <1>4, <1>5, <1>6, <1>7 DEF TypeInv, Init

\* What each part of the state is made of.
LEMMA Parts ==
    ASSUME TypeInv
    PROVE  /\ mem.up \in BOOLEAN /\ mem.gen \in Gens /\ mem.epoch \in Nat /\ mem.base \in SUBSET Quads
           /\ mem.delta \in Seq(Rec) /\ mem.wal \in {0, 1} /\ mem.written \in Nat
           /\ stage \in {0, 1} /\ stage # mem.wal
           /\ logs[0] \in Log /\ logs[1] \in Log /\ logs[mem.wal] \in Log /\ logs[stage] \in Log
           /\ Written \in Seq(Rec) /\ Len(Written) \in Nat /\ Len(hist) \in Nat \ {0}
           /\ merge.f \in Nat /\ merge.mark \in Nat /\ merge.data \in SUBSET Quads
           /\ merge.header \in BOOLEAN
           /\ dir \in Dir /\ MaxGen \in Nat /\ MaxEpoch \in Nat
<1>1. mem.wal \in {0, 1} /\ stage \in {0, 1} /\ stage # mem.wal
  BY DEF TypeInv, Mem, stage
<1>2. logs[mem.wal] \in Log /\ Written \in Seq(Rec) /\ Len(Written) \in Nat
  <2>1. logs[mem.wal] \in Log
    BY <1>1 DEF TypeInv
  <2>2. Written \in Seq(Rec)
    BY <2>1 DEF Log, Written
  <2> QED BY <2>1, <2>2, LenProperties
<1>3. dir \in Dir
  BY DirIs DEF TypeInv
<1>4. MaxGen \in Nat /\ MaxEpoch \in Nat
  BY ConstantsAssumption DEF TypeInv, MaxGen, MaxEpoch
<1> QED BY <1>1, <1>2, <1>3, <1>4 DEF TypeInv, Mem, Merge, IsSeq

-----------------------------------------------------------------------------
(* Every step keeps the types.                                             *)

LEMMA PrefixOfLog ==
    ASSUME NEW s \in Seq(Rec), NEW n \in Nat, n <= Len(s)
    PROVE  /\ Prefix(s, n) \in Seq(Rec) /\ Len(Prefix(s, n)) = n
           /\ \A i \in 1 .. n : Prefix(s, n)[i] = s[i]
<1>1. Len(s) \in Nat /\ \A i \in 1 .. Len(s) : s[i] \in Rec
  BY LenProperties
<1>2. \A i \in 1 .. n : s[i] \in Rec
  BY <1>1
<1> QED BY <1>1, <1>2, SubSeqProperties DEF Prefix

LEMMA LastOfPrefix ==
    ASSUME ReadInv, TypeInv, mem.up
    PROVE  /\ IsSeq(Prefix(hist, mem.epoch + 1)) /\ Len(Prefix(hist, mem.epoch + 1)) = mem.epoch + 1
           /\ \A i \in 1 .. mem.epoch + 1 : Prefix(hist, mem.epoch + 1)[i] = hist[i]
           /\ hist[mem.epoch + 1] \in SUBSET Quads
<1>1. mem.epoch + 1 \in Nat /\ View \in SUBSET Quads
  BY Parts DEF View, Data
<1>2. View = hist[mem.epoch + 1]
  BY DEF ReadInv
<1> QED BY <1>1, <1>2, SubSeqIsSeq

LEMMA CutLog ==
    ASSUME TypeInv, NEW i \in {0, 1}, NEW n \in Nat, n <= Len(logs[i].recs)
    PROVE  CutTo(i, n) \in Log
<1>1. logs[i] \in Log
  BY DEF TypeInv
<1>2. Prefix(logs[i].recs, n) \in Seq(Rec)
  BY <1>1, PrefixOfLog DEF Log
<1> QED BY <1>1, <1>2 DEF CutTo, Log

LEMMA TxIsRec ==
    ASSUME NEW e \in Nat, NEW d \in SUBSET Quads, NEW a \in SUBSET Quads
    PROVE  Tx(e, d, a) \in Rec /\ Checkpoint(e) \in Rec
BY DEF Tx, Checkpoint, Rec

LEMMA KeepIsLog ==
    ASSUME NEW s \in Seq(Rec), NEW I, I \subseteq 1 .. Len(s)
    PROVE  Keep(s, I) \in Seq(Rec)
BY KeepPicks

LEMMA StagedIsLog ==
    ASSUME TypeInv, NEW upto
    PROVE  Staged(upto) \in Seq(Rec)
<1> DEFINE I == {i \in DOMAIN mem.delta : merge.mark < mem.delta[i].epoch /\ mem.delta[i].epoch <= upto}
           h == IF merge.header THEN <<>> ELSE <<Checkpoint(merge.f)>>
           s == logs[stage].recs
<1>1. mem.delta \in Seq(Rec) /\ s \in Seq(Rec) /\ merge.f \in Nat
  BY Parts DEF Log
<1>2. Keep(mem.delta, I) \in Seq(Rec)
  <2>1. I \subseteq 1 .. Len(mem.delta)
    BY <1>1, LenProperties
  <2> QED BY <1>1, <2>1, KeepIsLog
<1>3. h \in Seq(Rec)
  <2>1. Checkpoint(merge.f) \in Rec
    BY <1>1, TxIsRec
  <2> QED BY <2>1
<1> HIDE DEF I, h, s
<1>4. s \o h \o Keep(mem.delta, I) \in Seq(Rec)
  BY <1>1, <1>2, <1>3
<1> QED BY <1>1, <1>4 DEF Staged, I, h, s

LEMMA FinishIsLog ==
    ASSUME TypeInv, NEW s \in Seq(Rec)
    PROVE  /\ [recs |-> Append(s, Checkpoint(merge.f)), synced |-> Len(s) + 1] \in Log
           /\ [recs |-> s, synced |-> logs[stage].synced] \in Log
<1>1. logs[stage].synced \in Nat /\ merge.f \in Nat /\ Len(s) \in Nat
  BY Parts, LenProperties DEF Log
<1>2. Append(s, Checkpoint(merge.f)) \in Seq(Rec)
  BY <1>1, TxIsRec, AppendProperties
<1> QED BY <1>1, <1>2 DEF Log

-----------------------------------------------------------------------------
(* What recovery makes of a log.                                           *)

Folded(recs) == {recs[i].epoch : i \in {j \in DOMAIN recs : recs[j].kind = "checkpoint"}}

LEMMA RecsAre ==
    ASSUME NEW s \in Seq(Rec)
    PROVE  /\ Len(s) \in Nat /\ DOMAIN s = 1 .. Len(s)
           /\ \A i \in 1 .. Len(s) : s[i] \in Rec /\ s[i].epoch \in Nat
<1>1. Len(s) \in Nat /\ DOMAIN s = 1 .. Len(s) /\ \A i \in 1 .. Len(s) : s[i] \in Rec
  BY LenProperties
<1>2. \A t \in Rec : t.epoch \in Nat
  BY DEF Rec
<1> QED BY <1>1, <1>2

LEMMA LargestFold ==
    ASSUME NEW s \in Seq(Rec), Folded(s) # {}
    PROVE  \E f \in Folded(s) : \A g \in Folded(s) : g <= f
<1> DEFINE F(n) == {s[i].epoch : i \in {j \in 1 .. n : s[j].kind = "checkpoint"}}
           T == {n \in 0 .. Len(s) : F(n) = {} \/ \E f \in F(n) : \A g \in F(n) : g <= f}
<1>1. Len(s) \in Nat /\ DOMAIN s = 1 .. Len(s) /\ \A i \in 1 .. Len(s) : s[i].epoch \in Nat
  BY RecsAre
<1>2. \A n \in 0 .. Len(s) : F(n) \in SUBSET Nat
  BY <1>1
<1>3. 0 \in T
  <2>1. F(0) = {}
    OBVIOUS
  <2> QED BY <1>1, <2>1
<1>4. ASSUME NEW n \in 0 .. Len(s) - 1, n \in T PROVE n + 1 \in T
  <2>1. n \in 0 .. Len(s) /\ n + 1 \in 0 .. Len(s) /\ n + 1 \in 1 .. Len(s) /\ s[n + 1].epoch \in Nat
    BY <1>1
  <2>2. \A j \in 1 .. n + 1 : j \in 1 .. n \/ j = n + 1
    BY <2>1
  <2>3. 1 .. n \subseteq 1 .. n + 1
    BY <2>1
  <2>4. CASE s[n + 1].kind # "checkpoint"
    <3>1. F(n + 1) = F(n)
      BY <2>2, <2>3, <2>4
    <3> HIDE DEF F
    <3> QED BY <1>4, <2>1, <3>1
  <2>5. CASE s[n + 1].kind = "checkpoint"
    <3>1. n + 1 \in 1 .. n + 1
      BY <2>1
    <3>2. F(n + 1) = F(n) \cup {s[n + 1].epoch}
      BY <2>2, <2>3, <2>5, <3>1
    <3>3. F(n) \in SUBSET Nat
      BY <1>2, <2>1
    <3> DEFINE e == s[n + 1].epoch
    <3>4. e \in Nat
      BY <2>1
    <3> HIDE DEF F, e
    <3>5. CASE F(n) = {}
      BY <2>1, <3>2, <3>4, <3>5 DEF e
    <3>6. CASE F(n) # {}
      <4>1. PICK f \in F(n) : \A g \in F(n) : g <= f
        BY <1>4, <3>6
      <4>2. CASE e <= f
        <5>1. f \in F(n + 1) /\ \A g \in F(n + 1) : g <= f
          BY <3>2, <4>1, <4>2 DEF e
        <5> QED BY <2>1, <5>1
      <4>3. CASE ~(e <= f)
        <5>1. e \in F(n + 1) /\ \A g \in F(n + 1) : g <= e
          BY <3>2, <3>3, <3>4, <4>1, <4>3 DEF e
        <5> QED BY <2>1, <5>1
      <4> QED BY <4>2, <4>3
    <3> QED BY <3>5, <3>6
  <2> QED BY <2>4, <2>5
<1>5. Len(s) \in T
  <2> HIDE DEF T
  <2>1. Len(s) \in 0 .. Len(s)
    BY <1>1
  <2> QED BY <1>1, <1>3, <1>4, <2>1, UpTo
<1>6. F(Len(s)) = Folded(s)
  BY <1>1 DEF Folded
<1> QED BY <1>5, <1>6

LEMMA ReplayIs ==
    ASSUME NEW s \in Seq(Rec)
    PROVE  /\ replay(s).txs = Keep(s, Surviving(s))
           /\ Surviving(s) \in SUBSET (1 .. Len(s))
           /\ replay(s).txs \in Seq(Rec) /\ replay(s).checkpoint \in Nat
           /\ Folded(s) = {} => replay(s).checkpoint = 0
           /\ Folded(s) # {} => /\ replay(s).checkpoint \in Folded(s)
                                /\ \A g \in Folded(s) : g <= replay(s).checkpoint
<1>1. DOMAIN s = 1 .. Len(s) /\ \A i \in 1 .. Len(s) : s[i].epoch \in Nat
  BY RecsAre
<1>2. Surviving(s) \in SUBSET (1 .. Len(s))
  BY <1>1 DEF Surviving
<1>3. replay(s).txs = Keep(s, Surviving(s)) /\ replay(s).txs \in Seq(Rec)
  BY <1>2, KeepIsLog DEF replay
<1>4. Folded(s) \in SUBSET Nat
  BY <1>1 DEF Folded
<1>5. replay(s).checkpoint = IF Folded(s) = {} THEN 0
                             ELSE CHOOSE f \in Folded(s) : \A g \in Folded(s) : g <= f
  BY DEF replay, Folded
<1>6. CASE Folded(s) = {}
  BY <1>2, <1>3, <1>5, <1>6
<1>7. CASE Folded(s) # {}
  BY <1>2, <1>3, <1>4, <1>5, <1>7, LargestFold
<1> QED BY <1>6, <1>7

\* m says which transactions recovery keeps: those that still change something.
AppliedBy(b, s, m) ==
    LET a == Applied(b, s)
    IN  /\ m \in [1 .. Len(a) -> 1 .. Len(s)]
        /\ \A k \in 1 .. Len(a) : a[k] = Effective(b, s, m[k]) /\ a[k].epoch = s[m[k]].epoch
        /\ \A j, k \in 1 .. Len(a) : j < k => m[j] < m[k]
        /\ \A i \in 1 .. Len(s) : Effective(b, s, i).dels \cup Effective(b, s, i).adds # {} =>
                                  \E k \in 1 .. Len(a) : m[k] = i

LEMMA AppliedIs ==
    ASSUME NEW b \in SUBSET Quads, NEW s \in Seq(Rec)
    PROVE  Applied(b, s) \in Seq(Rec) /\ \E m : AppliedBy(b, s, m)
<1> DEFINE n == Len(s)
           e == [i \in DOMAIN s |-> Effective(b, s, i)]
           I == {i \in DOMAIN s : e[i].dels \cup e[i].adds # {}}
           a == Applied(b, s)
<1>1. n \in Nat /\ DOMAIN s = 1 .. n /\ \A i \in 1 .. n : s[i] \in Rec
  BY LenProperties
<1>2. \A i \in 1 .. n : Effective(b, s, i) \in Rec /\ Effective(b, s, i).epoch = s[i].epoch
  BY <1>1 DEF Effective, Rec
<1>3. e \in [1 .. n -> Rec]
  BY <1>1, <1>2
<1>4. e \in Seq(Rec) /\ Len(e) = n
  <2> HIDE DEF e
  <2>1. e \in Seq(Rec)
    BY <1>1, <1>3, SeqDef
  <2>2. DOMAIN e = 1 .. n /\ DOMAIN e = 1 .. Len(e) /\ Len(e) \in Nat
    BY <1>3, <2>1, LenProperties
  <2>3. Len(e) = n
    <3>1. Len(e) <= n
      <4>1. CASE Len(e) = 0
        BY <1>1, <4>1
      <4>2. CASE Len(e) # 0
        <5>1. Len(e) \in 1 .. Len(e)
          BY <2>2, <4>2
        <5> QED BY <1>1, <2>2, <5>1
      <4> QED BY <4>1, <4>2
    <3>2. n <= Len(e)
      <4>1. CASE n = 0
        BY <2>2, <4>1
      <4>2. CASE n # 0
        <5>1. n \in 1 .. n
          BY <1>1, <4>2
        <5> QED BY <1>1, <2>2, <5>1
      <4> QED BY <4>1, <4>2
    <3> QED BY <1>1, <2>2, <3>1, <3>2
  <2> QED BY <2>1, <2>3
<1>5. \A i \in 1 .. n : e[i] = Effective(b, s, i)
  BY <1>1
<1>6. a = Keep(e, I)
  BY DEF Applied
<1> HIDE DEF e, a
<1>7. I \in SUBSET (1 .. Len(e))
  BY <1>1, <1>4
<1> HIDE DEF I, n
<1>8. a \in Seq(Rec) /\ Picks(e, I, a)
  BY <1>4, <1>6, <1>7, KeepPicks
<1>9. PICK m \in [1 .. Len(a) -> I] :
        /\ \A k \in 1 .. Len(a) : a[k] = e[m[k]]
        /\ \A j, k \in 1 .. Len(a) : j < k => m[j] < m[k]
        /\ \A i \in I : \E k \in 1 .. Len(a) : m[k] = i
  BY <1>8 DEF Picks
<1>10. m \in [1 .. Len(a) -> 1 .. n]
  BY <1>4, <1>7, <1>9
<1>11. \A k \in 1 .. Len(a) : a[k] = Effective(b, s, m[k]) /\ a[k].epoch = s[m[k]].epoch
  BY <1>2, <1>5, <1>9, <1>10
<1>12. \A i \in 1 .. n : Effective(b, s, i).dels \cup Effective(b, s, i).adds # {} =>
                         \E k \in 1 .. Len(a) : m[k] = i
  BY <1>1, <1>5, <1>9 DEF I
<1>13. AppliedBy(b, s, m)
  BY <1>9, <1>10, <1>11, <1>12 DEF n, a, AppliedBy
<1> QED BY <1>8, <1>13 DEF a

-----------------------------------------------------------------------------
(* Every step keeps the types, one lemma for the steps of each part.       *)

LEMMA LogsUpdate ==
    ASSUME TypeInv, NEW i \in {0, 1}, NEW l \in Log
    PROVE  [logs EXCEPT ![i] = l] \in [{0, 1} -> Log]
BY DEF TypeInv

LEMMA MergeIdle == ASSUME NEW p \in Merging \cup {"idle", "drain"}
                   PROVE  /\ [IdleMerge EXCEPT !.phase = p] \in Merge
                          /\ [IdleMerge EXCEPT !.phase = p].phase = p
                          /\ IdleMerge \in Merge /\ IdleMerge.phase = "idle"
BY DEF IdleMerge, Merge

LEMMA MergePhase == ASSUME TypeInv, NEW p \in Merging \cup {"idle", "drain"}
                    PROVE  /\ [merge EXCEPT !.phase = p] \in Merge
                           /\ [merge EXCEPT !.phase = p].phase = p
BY DEF TypeInv, Merge

LEMMA PhasesAre ==
    /\ {"started", "building", "shadow", "staged", "flipped", "pointed", "renamed", "idle", "drain"}
          = Merging \cup {"idle", "drain"}
    /\ "idle" \notin Merging /\ "drain" \notin Merging
BY DEF Merging

LEMMA TypeGroups ==
    ASSUME TypeInv, ReadInv, env' = env
    PROVE  /\ \A dels, adds \in SUBSET Quads : WriteTx(dels, adds) => TypeInv'
           /\ \A strict \in BOOLEAN : GroupDone(strict) => TypeInv'
           /\ GroupFails => TypeInv'
           /\ GroupStuck => TypeInv'
<1> USE Parts
<1>1. ASSUME NEW dels \in SUBSET Quads, NEW adds \in SUBSET Quads, WriteTx(dels, adds)
      PROVE  TypeInv'
  <2> DEFINE after == (hist[Len(hist)] \ dels) \cup adds
             l == [logs[mem.wal] EXCEPT !.recs = Append(@, Tx(Len(hist), dels, adds))]
  <2>1. hist' = Append(hist, after) /\ logs' = [logs EXCEPT ![mem.wal] = l]
    BY <1>1 DEF WriteTx
  <2>2. after \in SUBSET Quads
    BY DEF TypeInv
  <2>3. l \in Log
    <3>1. Tx(Len(hist), dels, adds) \in Rec
      BY TxIsRec
    <3>2. Append(Written, Tx(Len(hist), dels, adds)) \in Seq(Rec)
      BY <3>1, AppendProperties
    <3> QED BY <3>2 DEF Written, Log
  <2> HIDE DEF after, l
  <2>4. IsSeq(Append(hist, after)) /\ Len(Append(hist, after)) = Len(hist) + 1
        /\ Append(hist, after)[Len(hist) + 1] = after
    BY AppendIsSeq DEF TypeInv
  <2>5. IsSeq(hist') /\ Len(hist') = Len(hist) + 1 /\ hist'[Len(hist')] = after
    BY <2>1, <2>4, Zenon
  <2>6. logs' \in [{0, 1} -> Log]
    BY <2>1, <2>3, LogsUpdate
  <2>7. UNCHANGED <<dirs, mem, merge, acked, crashes>>
    BY <1>1 DEF WriteTx
  <2>8. Len(hist') # 0 /\ hist'[Len(hist')] \in SUBSET Quads
    BY <2>2, <2>5
  <2> QED BY <2>5, <2>6, <2>7, <2>8, TypeKept DEF TypeInv
<1>2. ASSUME NEW strict \in BOOLEAN, GroupDone(strict) PROVE TypeInv'
  <2>1. /\ UNCHANGED <<dirs, merge, hist, crashes>>
        /\ mem' = [mem EXCEPT !.epoch = Len(hist) - 1, !.written = Len(Written),
                              !.delta = @ \o SubSeq(Written, mem.written + 1, Len(Written))]
        /\ logs' = [logs EXCEPT ![mem.wal].synced = IF strict THEN Len(Written) ELSE @]
        /\ acked' = IF strict THEN Len(hist) - 1 ELSE acked
    BY <1>2 DEF GroupDone, Written
  <2>2. mem.delta \o SubSeq(Written, mem.written + 1, Len(Written)) \in Seq(Rec)
    <3>1. mem.written + 1 \in 1 .. Len(Written) + 1 /\ \A i \in 1 .. Len(Written) : Written[i] \in Rec
      <4>1. mem.written <= Len(Written)
        BY <1>2 DEF ReadInv, Pending, GroupDone, CanCommit, InFlight
      <4> QED BY <4>1, RecsAre
    <3>2. SubSeq(Written, mem.written + 1, Len(Written)) \in Seq(Rec)
      BY <3>1, SubSeqProperties
    <3> QED BY <3>2, ConcatProperties
  <2>3. mem' \in Mem /\ mem'.up = mem.up /\ mem'.gen = mem.gen
    <3> DEFINE e == Len(hist) - 1
               w == Len(Written)
               dd == mem.delta \o SubSeq(Written, mem.written + 1, Len(Written))
    <3>1. mem' = [mem EXCEPT !.epoch = e, !.written = w, !.delta = dd]
      BY <2>1
    <3>2. e \in Nat /\ w \in Nat /\ dd \in Seq(Rec) /\ mem \in Mem
      BY <2>2 DEF TypeInv
    <3> HIDE DEF e, w, dd
    <3> QED BY <3>1, <3>2 DEF Mem
  <2>4. logs' \in [{0, 1} -> Log]
    <3> DEFINE n == IF strict THEN Len(Written) ELSE logs[mem.wal].synced
               l == [logs[mem.wal] EXCEPT !.synced = n]
    <3>1. n \in Nat
      BY DEF Log
    <3>2. logs' = [logs EXCEPT ![mem.wal] = l]
      BY <2>1
    <3> HIDE DEF n
    <3>3. l \in Log
      BY <3>1 DEF Log
    <3> HIDE DEF l
    <3> QED BY <3>2, <3>3, LogsUpdate
  <2>5. acked' \in Nat
    BY <2>1 DEF TypeInv
  <2> QED BY <2>1, <2>3, <2>4, <2>5, TypeKept DEF TypeInv
<1>3. ASSUME GroupFails PROVE TypeInv'
  <2>1. /\ UNCHANGED <<dirs, mem, merge, acked, crashes>> /\ mem.up
        /\ hist' = Prefix(hist, mem.epoch + 1)
        /\ logs' = [logs EXCEPT ![mem.wal].recs = Prefix(@, mem.written)]
    BY <1>3 DEF GroupFails, CanCommit
  <2>2. IsSeq(hist') /\ Len(hist') = mem.epoch + 1 /\ hist'[Len(hist')] \in SUBSET Quads
    <3>1. mem.epoch + 1 \in 1 .. mem.epoch + 1
      OBVIOUS
    <3> QED BY <2>1, <3>1, LastOfPrefix
  <2>3. logs' \in [{0, 1} -> Log]
    <3> DEFINE l == [logs[mem.wal] EXCEPT !.recs = Prefix(@, mem.written)]
    <3>1. mem.written <= Len(Written)
      BY <1>3 DEF ReadInv, Pending, GroupFails, CanCommit, InFlight
    <3>2. Prefix(Written, mem.written) \in Seq(Rec)
      BY <3>1, PrefixOfLog
    <3>3. l \in Log /\ logs' = [logs EXCEPT ![mem.wal] = l]
      BY <2>1, <3>2 DEF Log, Written
    <3> HIDE DEF l
    <3> QED BY <3>3, LogsUpdate
  <2>4. Len(hist') # 0
    BY <2>2
  <2> QED BY <2>1, <2>2, <2>3, <2>4, TypeKept DEF TypeInv
<1>4. ASSUME GroupStuck PROVE TypeInv'
  <2>1. UNCHANGED <<dirs, logs, merge, hist, acked, crashes>> /\ mem' = [mem EXCEPT !.broken = TRUE]
    BY <1>4 DEF GroupStuck
  <2>2. mem' \in Mem /\ mem'.up = mem.up /\ mem'.gen = mem.gen
    BY <2>1 DEF TypeInv, Mem
  <2>3. mem.up
    BY <1>4 DEF GroupStuck, CanCommit
  <2> QED BY <2>1, <2>2, <2>3, TypeKept DEF TypeInv
<1> QED BY <1>1, <1>2, <1>3, <1>4

LEMMA TypeBuild ==
    ASSUME TypeInv, ReadInv, env' = env
    PROVE  /\ MergeStart => TypeInv'
           /\ BuildBegin => TypeInv'
           /\ BuildDone => TypeInv'
           /\ ShadowPass => TypeInv'
           /\ SwapTail => TypeInv'
<1> USE Parts
<1>1. ASSUME MergeStart PROVE TypeInv'
  <2>1. /\ UNCHANGED <<dirs, mem, hist, acked, crashes>> /\ mem.gen < MaxGen /\ mem.up
        /\ logs' = [logs EXCEPT ![mem.wal].synced = Len(Written)]
        /\ merge' = [IdleMerge EXCEPT !.phase = "started", !.f = mem.epoch,
                                      !.data = View, !.mark = mem.epoch]
    BY <1>1 DEF MergeStart, Written
  <2>2. merge' \in Merge
    <3>1. View \in SUBSET Quads
      BY DEF View, Data
    <3> QED BY <2>1, <3>1 DEF IdleMerge, Merge, Merging
  <2>3. logs' \in [{0, 1} -> Log]
    <3> DEFINE l == [logs[mem.wal] EXCEPT !.synced = Len(Written)]
    <3>1. l \in Log /\ logs' = [logs EXCEPT ![mem.wal] = l]
      BY <2>1 DEF Log
    <3> HIDE DEF l
    <3> QED BY <3>1, LogsUpdate
  <2> QED BY <2>1, <2>2, <2>3, TypeKept DEF TypeInv
<1>2. ASSUME BuildBegin PROVE TypeInv'
  <2> DEFINE d == [dir EXCEPT !.base[new_gen] = Partial]
  <2>1. /\ UNCHANGED <<logs, mem, hist, acked, crashes>> /\ merge.phase = "started"
        /\ merge' = [merge EXCEPT !.phase = "building"] /\ dirs' = Changed(d)
    BY <1>2 DEF BuildBegin
  <2>2. merge' \in Merge
    BY <2>1, MergePhase, PhasesAre
  <2>3. d \in Dir
    BY DEF Dir
  <2>4. dirs' \in Seq(Dir) /\ dirs' # <<>>
    BY <2>1, <2>3, ChangedKeeps DEF TypeInv
  <2>5. mem.gen < MaxGen /\ mem.up
    BY <2>1 DEF TypeInv, Merging, IdleMerge
  <2> QED BY <2>1, <2>2, <2>4, <2>5, TypeKept DEF TypeInv
<1>3. ASSUME BuildDone PROVE TypeInv'
  <2> DEFINE d == [dir EXCEPT !.base[new_gen] = merge.data]
  <2>1. /\ UNCHANGED <<mem, hist, acked, crashes>> /\ merge.phase = "building"
        /\ merge' = [merge EXCEPT !.phase = "shadow"] /\ dirs' = <<d>>
        /\ logs' = [logs EXCEPT ![stage] = EmptyLog]
    BY <1>3 DEF BuildDone
  <2>2. merge' \in Merge
    BY <2>1, MergePhase, PhasesAre
  <2>3. d \in Dir
    BY DEF Dir
  <2>4. dirs' \in Seq(Dir) /\ dirs' # <<>>
    BY <2>1, <2>3, OneDir
  <2>5. mem.gen < MaxGen /\ mem.up
    BY <2>1 DEF TypeInv, Merging, IdleMerge
  <2>6. logs' \in [{0, 1} -> Log]
    <3>1. EmptyLog \in Log
      BY DEF EmptyLog, Log
    <3> QED BY <2>1, <3>1, LogsUpdate
  <2> QED BY <2>1, <2>2, <2>4, <2>5, <2>6, TypeKept DEF TypeInv
<1>4. ASSUME ShadowPass PROVE TypeInv'
  <2>1. /\ UNCHANGED <<dirs, mem, hist, acked, crashes>> /\ merge.phase = "shadow"
        /\ merge' = [merge EXCEPT !.mark = mem.epoch, !.header = TRUE]
        /\ logs' = [logs EXCEPT ![stage].recs = Staged(mem.epoch)]
    BY <1>4 DEF ShadowPass
  <2>2. merge' \in Merge /\ merge'.phase = merge.phase
    BY <2>1 DEF TypeInv, Merge
  <2>3. mem.gen < MaxGen /\ mem.up
    BY <2>1 DEF TypeInv, Merging, IdleMerge
  <2>4. logs' \in [{0, 1} -> Log]
    <3> DEFINE l == [logs[stage] EXCEPT !.recs = Staged(mem.epoch)]
    <3>1. Staged(mem.epoch) \in Seq(Rec)
      BY StagedIsLog
    <3>2. l \in Log /\ logs' = [logs EXCEPT ![stage] = l]
      BY <2>1, <3>1 DEF Log
    <3> HIDE DEF l
    <3> QED BY <3>2, LogsUpdate
  <2> QED BY <2>1, <2>2, <2>3, <2>4, TypeKept DEF TypeInv
<1>5. ASSUME SwapTail PROVE TypeInv'
  <2> DEFINE h == merge.header \/ mem.epoch > merge.mark
             l == finish(Staged(mem.epoch), ~h)
  <2>1. /\ UNCHANGED <<dirs, mem, hist, acked, crashes>> /\ merge.phase = "shadow"
        /\ merge' = [merge EXCEPT !.phase = "staged", !.mark = mem.epoch, !.header = TRUE]
        /\ logs' = [logs EXCEPT ![stage] = l]
    BY <1>5 DEF SwapTail
  <2>2. merge' \in Merge
    BY <2>1 DEF TypeInv, Merge, Merging
  <2>3. mem.gen < MaxGen /\ mem.up
    BY <2>1 DEF TypeInv, Merging, IdleMerge
  <2>4. l \in Log
    <3>1. Staged(mem.epoch) \in Seq(Rec)
      BY StagedIsLog
    <3> DEFINE s == Staged(mem.epoch)
    <3>2. /\ [recs |-> Append(s, Checkpoint(merge.f)), synced |-> Len(s) + 1] \in Log
          /\ [recs |-> s, synced |-> logs[stage].synced] \in Log
      BY <3>1, FinishIsLog
    <3> HIDE DEF h, s
    <3> QED BY <3>2 DEF finish, s
  <2>5. logs' \in [{0, 1} -> Log]
    <3> HIDE DEF l
    <3> QED BY <2>1, <2>4, LogsUpdate
  <2> QED BY <2>1, <2>2, <2>3, <2>5, TypeKept DEF TypeInv
<1> QED BY <1>1, <1>2, <1>3, <1>4, <1>5

\* A merge runs in an open handle.
LEMMA MergeIsUp ==
    ASSUME TypeInv, merge.phase # "idle"
    PROVE  mem.up
BY DEF TypeInv, IdleMerge

LEMMA AfterIsLog ==
    ASSUME NEW s \in Seq(Rec), NEW f
    PROVE  After(s, f) \in Seq(Rec)
<1> DEFINE I == {i \in DOMAIN s : s[i].epoch > f}
<1>1. I \subseteq 1 .. Len(s)
  BY LenProperties
<1> HIDE DEF I
<1>2. Keep(s, I) \in Seq(Rec)
  BY <1>1, KeepIsLog
<1> QED BY <1>2 DEF After, I

LEMMA TypeSwap ==
    ASSUME TypeInv, ReadInv, env' = env
    PROVE  /\ Flip => TypeInv'
           /\ FlipSync => TypeInv'
           /\ FlipFails => TypeInv'
           /\ Rename => TypeInv'
           /\ Activate => TypeInv'
           /\ ActivateFails => TypeInv'
           /\ EndDrain => TypeInv'
           /\ MergeAbort => TypeInv'
<1> USE Parts
<1>1. ASSUME Flip PROVE TypeInv'
  <2> DEFINE d == [dir EXCEPT !.current = new_gen]
  <2>1. /\ UNCHANGED <<logs, mem, hist, acked, crashes>> /\ merge.phase = "staged"
        /\ merge' = [merge EXCEPT !.phase = "flipped"] /\ dirs' = Changed(d)
    BY <1>1 DEF Flip
  <2>2. merge' \in Merge
    BY <2>1, MergePhase, PhasesAre
  <2>3. mem.gen < MaxGen /\ mem.up
    BY <2>1, MergeIsUp DEF TypeInv, Merging
  <2>4. d \in Dir
    <3>1. new_gen \in Gens
      BY <2>3 DEF new_gen, Gens
    <3> QED BY <3>1 DEF Dir
  <2>5. dirs' \in Seq(Dir) /\ dirs' # <<>>
    BY <2>1, <2>4, ChangedKeeps DEF TypeInv
  <2> QED BY <2>1, <2>2, <2>3, <2>5, TypeKept DEF TypeInv
<1>2. ASSUME FlipSync PROVE TypeInv'
  <2>1. /\ UNCHANGED <<logs, mem, hist, acked, crashes>> /\ merge.phase = "flipped"
        /\ merge' = [merge EXCEPT !.phase = "pointed"] /\ dirs' = <<dir>>
    BY <1>2 DEF FlipSync
  <2>2. merge' \in Merge
    BY <2>1, MergePhase, PhasesAre
  <2>3. mem.gen < MaxGen /\ mem.up
    BY <2>1, MergeIsUp DEF TypeInv, Merging
  <2>4. dirs' \in Seq(Dir) /\ dirs' # <<>>
    BY <2>1, OneDir
  <2> QED BY <2>1, <2>2, <2>3, <2>4, TypeKept DEF TypeInv
<1>3. ASSUME FlipFails PROVE TypeInv'
  <2>1. /\ UNCHANGED <<dirs, logs, mem, hist, acked, crashes>> /\ merge.phase = "flipped"
        /\ merge' = [IdleMerge EXCEPT !.phase = "drain"]
    BY <1>3 DEF FlipFails
  <2>2. merge' \in Merge /\ merge'.phase \notin Merging
    BY <2>1, MergeIdle, PhasesAre
  <2>3. mem.up
    BY <2>1, MergeIsUp
  <2> QED BY <2>1, <2>2, <2>3, TypeKept DEF TypeInv
<1>4. ASSUME Rename PROVE TypeInv'
  <2> DEFINE d == [dir EXCEPT !.wal = stage]
  <2>1. /\ UNCHANGED <<logs, mem, hist, acked, crashes>> /\ merge.phase = "pointed"
        /\ merge' = [merge EXCEPT !.phase = "renamed"] /\ dirs' = Changed(d)
    BY <1>4 DEF Rename
  <2>2. merge' \in Merge
    BY <2>1, MergePhase, PhasesAre
  <2>3. mem.gen < MaxGen /\ mem.up
    BY <2>1, MergeIsUp DEF TypeInv, Merging
  <2>4. d \in Dir
    BY DEF Dir
  <2>5. dirs' \in Seq(Dir) /\ dirs' # <<>>
    BY <2>1, <2>4, ChangedKeeps DEF TypeInv
  <2> QED BY <2>1, <2>2, <2>3, <2>5, TypeKept DEF TypeInv
<1>5. ASSUME Activate PROVE TypeInv'
  <2>1. /\ UNCHANGED <<logs, acked, crashes>> /\ merge.phase = "renamed" /\ dirs' = <<dir>>
        /\ merge' = [IdleMerge EXCEPT !.phase = "drain"]
        /\ hist' = Prefix(hist, mem.epoch + 1)
    BY <1>5 DEF Activate
  <2>2. merge' \in Merge /\ merge'.phase \notin Merging
    BY <2>1, MergeIdle, PhasesAre
  <2>3. mem.up /\ mem.gen < MaxGen
    BY <2>1, MergeIsUp DEF TypeInv, Merging
  <2>4. IsSeq(hist') /\ Len(hist') = mem.epoch + 1 /\ hist'[Len(hist')] \in SUBSET Quads
    <3>1. mem.epoch + 1 \in 1 .. mem.epoch + 1
      OBVIOUS
    <3> QED BY <2>1, <2>3, <3>1, LastOfPrefix
  <2>5. dirs' \in Seq(Dir) /\ dirs' # <<>>
    BY <2>1, OneDir
  <2>6. mem' \in Mem /\ mem'.up
    <3> DEFINE n == Len(logs[stage].recs)
               g == new_gen
               dd == After(mem.delta, merge.f)
               r == mem.retired \cup {mem.gen}
    <3>1. mem' = [mem EXCEPT !.wal = stage, !.written = n, !.broken = FALSE, !.gen = g,
                             !.base = merge.data, !.delta = dd, !.retired = r]
      BY <1>5 DEF Activate
    <3>2. n \in Nat
      <4>1. logs[stage].recs \in Seq(Rec)
        BY DEF Log
      <4> QED BY <4>1, LenProperties
    <3>3. g \in Gens
      BY <2>3 DEF new_gen, Gens
    <3>4. dd \in Seq(Rec)
      BY AfterIsLog
    <3>5. r \in SUBSET Gens /\ mem \in Mem
      BY DEF TypeInv, Mem
    <3> HIDE DEF n, g, dd, r
    <3> QED BY <2>3, <3>1, <3>2, <3>3, <3>4, <3>5 DEF Mem
  <2>7. Len(hist') # 0
    BY <2>4
  <2> QED BY <2>1, <2>2, <2>4, <2>5, <2>6, <2>7, TypeKept DEF TypeInv
<1>6. ASSUME ActivateFails PROVE TypeInv'
  <2>1. /\ UNCHANGED <<dirs, logs, hist, acked, crashes>> /\ merge.phase # "idle"
        /\ merge' = [IdleMerge EXCEPT !.phase = "drain"]
        /\ mem' = [mem EXCEPT !.poisoned = TRUE]
    BY <1>6 DEF ActivateFails
  <2>2. merge' \in Merge /\ merge'.phase \notin Merging
    BY <2>1, MergeIdle, PhasesAre
  <2>3. mem' \in Mem /\ mem'.up
    BY <2>1, MergeIsUp DEF TypeInv, Mem
  <2> QED BY <2>1, <2>2, <2>3, TypeKept DEF TypeInv
<1>7. ASSUME EndDrain PROVE TypeInv'
  <2>1. UNCHANGED <<dirs, logs, mem, hist, acked, crashes>> /\ merge' = IdleMerge
    BY <1>7 DEF EndDrain
  <2>2. merge' \in Merge /\ merge'.phase \notin Merging
    BY <2>1, MergeIdle, PhasesAre
  <2> QED BY <2>1, <2>2, TypeKept DEF TypeInv
<1>8. ASSUME MergeAbort PROVE TypeInv'
  <2> DEFINE p == IF merge.phase = "staged" THEN "drain" ELSE "idle"
  <2>1. /\ UNCHANGED <<dirs, logs, mem, hist, acked, crashes>> /\ merge.phase # "idle"
        /\ merge' = [IdleMerge EXCEPT !.phase = p]
    BY <1>8 DEF MergeAbort
  <2>2. p \in Merging \cup {"idle", "drain"} /\ p \notin Merging
    BY PhasesAre
  <2> HIDE DEF p
  <2>3. merge' \in Merge /\ merge'.phase \notin Merging
    BY <2>1, <2>2, MergeIdle
  <2>4. mem.up
    BY <2>1, MergeIsUp
  <2> QED BY <2>1, <2>3, <2>4, TypeKept DEF TypeInv
<1> QED BY <1>1, <1>2, <1>3, <1>4, <1>5, <1>6, <1>7, <1>8

\* What an open reads of the directory.
Base == dir.base[dir.current]
Live == logs[dir.wal].recs
Delta == Applied(Base, replay(Live).txs)
LastEpoch == LET t == replay(Live).txs IN IF t = <<>> THEN 0 ELSE t[Len(t)].epoch
OpenEpoch == IF LastEpoch > replay(Live).checkpoint THEN LastEpoch ELSE replay(Live).checkpoint
Clean == [dir EXCEPT !.base = [g \in Gens |-> IF g = dir.current THEN Base ELSE Absent]]

LEMMA OpenIs ==
    ASSUME TypeInv, Open
    PROVE  /\ ~mem.up /\ UNCHANGED <<merge, acked, crashes>>
           /\ Opens(dir) /\ Base \in SUBSET Quads
           /\ Live \in Seq(Rec) /\ Len(Live) \in Nat
           /\ Delta \in Seq(Rec) /\ OpenEpoch \in Nat /\ Clean \in Dir
           /\ mem' = [ClosedMem EXCEPT !.up = TRUE, !.gen = dir.current, !.epoch = OpenEpoch,
                                       !.base = Base, !.delta = Delta, !.wal = dir.wal,
                                       !.written = Len(Live)]
           /\ dirs' = Changed(Clean)
           /\ logs' = [logs EXCEPT ![1 - dir.wal] =
                          IF \E d \in Range(dirs) : d.wal # dir.wal THEN @ ELSE EmptyLog]
           /\ hist' = Append(Prefix(hist, OpenEpoch), Data(Base, Delta))
           /\ replay(Live).txs # <<>> =>
                 LastEpoch = replay(Live).txs[Len(replay(Live).txs)].epoch
           /\ LastEpoch \in Nat /\ LastEpoch <= OpenEpoch
<1>1. dir \in Dir /\ dir.wal \in {0, 1} /\ dir.current \in Gens
  BY Parts DEF Dir
<1>2. ~mem.up /\ UNCHANGED <<merge, acked, crashes>> /\ Opens(dir)
  BY DEF Open
<1>3. Base \in SUBSET Quads
  BY <1>1, <1>2 DEF Opens, Built, Base, Dir
<1>4. Live \in Seq(Rec) /\ Len(Live) \in Nat
  <2>1. logs[dir.wal] \in Log
    BY <1>1 DEF TypeInv
  <2>2. Live \in Seq(Rec)
    BY <2>1 DEF Log, Live
  <2> QED BY <2>2, LenProperties
<1> DEFINE t == replay(Live).txs
<1>5. t \in Seq(Rec) /\ replay(Live).checkpoint \in Nat
  BY <1>4, ReplayIs
<1>6. Delta \in Seq(Rec)
  BY <1>3, <1>5, AppliedIs DEF Delta
<1>7. LastEpoch \in Nat
  <2>1. CASE t = <<>>
    BY <2>1 DEF LastEpoch
  <2>2. CASE t # <<>>
    <3> HIDE DEF t
    <3>1. Len(t) \in 1 .. Len(t)
      BY <1>5, <2>2, EmptySeq, LenProperties
    <3>2. t[Len(t)].epoch \in Nat
      BY <1>5, <3>1, RecsAre
    <3> QED BY <2>2, <3>2 DEF LastEpoch, t
  <2> QED BY <2>1, <2>2
<1>8. OpenEpoch \in Nat /\ LastEpoch <= OpenEpoch
  BY <1>5, <1>7 DEF OpenEpoch
<1>9. Clean \in Dir
  BY <1>1, <1>3 DEF Clean, Dir
<1>10. t # <<>> => LastEpoch = t[Len(t)].epoch
  BY DEF LastEpoch
<1>11. /\ mem' = [ClosedMem EXCEPT !.up = TRUE, !.gen = dir.current, !.epoch = OpenEpoch,
                                       !.base = Base, !.delta = Delta, !.wal = dir.wal,
                                       !.written = Len(Live)]
       /\ dirs' = Changed(Clean)
       /\ logs' = [logs EXCEPT ![1 - dir.wal] =
                          IF \E d \in Range(dirs) : d.wal # dir.wal THEN @ ELSE EmptyLog]
       /\ hist' = Append(Prefix(hist, OpenEpoch), Data(Base, Delta))
  BY Zenon DEF Open, OpenEpoch, LastEpoch, Delta, Base, Live, Clean
<1> QED BY <1>2, <1>3, <1>4, <1>6, <1>7, <1>8, <1>9, <1>10, <1>11

LEMMA TypeCrash ==
    ASSUME TypeInv, ReadInv, env' = env
    PROVE  /\ \A g \in Gens : Sweep(g) => TypeInv'
           /\ Kill => TypeInv'
           /\ PowerLoss => TypeInv'
           /\ Open => TypeInv'
<1> USE Parts
<1>1. ASSUME NEW g \in Gens, Sweep(g) PROVE TypeInv'
  <2> DEFINE d == [dir EXCEPT !.base[g] = Absent]
  <2>1. /\ UNCHANGED <<logs, merge, hist, acked, crashes>> /\ dirs' = Changed(d)
        /\ mem' = [mem EXCEPT !.retired = @ \ {g}]
    BY <1>1 DEF Sweep
  <2>2. d \in Dir
    BY DEF Dir
  <2>3. dirs' \in Seq(Dir) /\ dirs' # <<>>
    BY <2>1, <2>2, ChangedKeeps DEF TypeInv
  <2>4. mem' \in Mem /\ mem'.up = mem.up /\ mem'.gen = mem.gen
    BY <2>1 DEF TypeInv, Mem
  <2> QED BY <2>1, <2>3, <2>4, TypeKept DEF TypeInv
<1>2. ClosedMem \in Mem /\ ~ClosedMem.up /\ IdleMerge \in Merge /\ IdleMerge.phase \notin Merging
  <2>1. ClosedMem \in Mem /\ ~ClosedMem.up
    <3>1. 0 \in Gens
      BY DEF Gens
    <3> QED BY <3>1 DEF ClosedMem, Mem
  <2>2. IdleMerge \in Merge /\ IdleMerge.phase \notin Merging
    BY DEF IdleMerge, Merge, Merging
  <2> QED BY <2>1, <2>2
<1>3. ASSUME Kill PROVE TypeInv'
  <2>1. /\ UNCHANGED <<dirs, hist, acked>> /\ mem' = ClosedMem /\ merge' = IdleMerge
        /\ crashes' = crashes + 1 /\ mem.up
    BY <1>3 DEF Kill
  <2>2. PICK n \in mem.written .. Len(Written) : logs' = [logs EXCEPT ![mem.wal] = CutTo(mem.wal, n)]
    BY <1>3 DEF Kill, Written
  <2>3. n \in Nat /\ n <= Len(logs[mem.wal].recs)
    BY DEF Written
  <2>4. CutTo(mem.wal, n) \in Log
    BY <2>3, CutLog
  <2>5. logs' \in [{0, 1} -> Log]
    BY <2>2, <2>4, LogsUpdate
  <2>6. crashes' \in Nat
    BY <2>1 DEF TypeInv
  <2> QED BY <1>2, <2>1, <2>5, <2>6, TypeKept DEF TypeInv
<1>4. ASSUME PowerLoss PROVE TypeInv'
  <2>1. /\ UNCHANGED <<hist, acked>> /\ mem' = ClosedMem /\ merge' = IdleMerge
        /\ crashes' = crashes + 1
    BY <1>4 DEF PowerLoss
  <2>2. PICK n \in logs[0].synced .. Len(logs[0].recs), m \in logs[1].synced .. Len(logs[1].recs) :
           logs' = [i \in {0, 1} |-> IF i = 0 THEN CutTo(0, n) ELSE CutTo(1, m)]
    BY <1>4 DEF PowerLoss
  <2>3. n \in Nat /\ n <= Len(logs[0].recs) /\ m \in Nat /\ m <= Len(logs[1].recs)
    BY RecsAre DEF Log
  <2>4. CutTo(0, n) \in Log /\ CutTo(1, m) \in Log
    BY <2>3, CutLog
  <2>5. logs' \in [{0, 1} -> Log]
    BY <2>2, <2>4
  <2>6. PICK d \in Range(dirs) : dirs' = <<d>>
    BY <1>4 DEF PowerLoss
  <2>7. d \in Dir
    BY LenProperties DEF TypeInv, Range
  <2>8. dirs' \in Seq(Dir) /\ dirs' # <<>>
    BY <2>6, <2>7, OneDir
  <2>9. crashes' \in Nat
    BY <2>1 DEF TypeInv
  <2> QED BY <1>2, <2>1, <2>5, <2>8, <2>9, TypeKept DEF TypeInv
<1>5. ASSUME Open PROVE TypeInv'
  <2> USE OpenIs, <1>5
  <2>1. mem' \in Mem /\ mem'.up
    <3>1. dir.current \in Gens /\ dir.wal \in {0, 1}
      BY DEF Dir
    <3>2. mem' = [ClosedMem EXCEPT !.up = TRUE, !.gen = dir.current, !.epoch = OpenEpoch,
                                   !.base = Base, !.delta = Delta, !.wal = dir.wal,
                                   !.written = Len(Live)]
      OBVIOUS
    <3>3. OpenEpoch \in Nat /\ Base \in SUBSET Quads /\ Delta \in Seq(Rec) /\ Len(Live) \in Nat
      OBVIOUS
    <3> QED BY <1>2, <3>1, <3>2, <3>3 DEF Mem
  <2>2. logs' \in [{0, 1} -> Log]
    <3> DEFINE w == 1 - dir.wal
               l == IF \E d \in Range(dirs) : d.wal # dir.wal THEN logs[w] ELSE EmptyLog
    <3>1. w \in {0, 1}
      BY DEF Dir
    <3>2. l \in Log
      <4>1. EmptyLog \in Log
        BY DEF EmptyLog, Log
      <4> QED BY <3>1, <4>1 DEF TypeInv
    <3>3. logs' = [logs EXCEPT ![w] = l]
      OBVIOUS
    <3> HIDE DEF w, l
    <3> QED BY <3>1, <3>2, <3>3, LogsUpdate
  <2>3. dirs' \in Seq(Dir) /\ dirs' # <<>>
    <3>1. Clean \in Dir /\ dirs' = Changed(Clean)
      OBVIOUS
    <3> QED BY <3>1, ChangedKeeps DEF TypeInv
  <2>4. IsSeq(hist') /\ Len(hist') # 0 /\ hist'[Len(hist')] \in SUBSET Quads
    <3> DEFINE p == Prefix(hist, OpenEpoch)
               x == Data(Base, Delta)
    <3>1. IsSeq(p) /\ Len(p) = OpenEpoch
      BY SubSeqIsSeq
    <3>2. x \in SUBSET Quads
      BY DEF Data
    <3>3. hist' = Append(p, x)
      OBVIOUS
    <3> HIDE DEF p, x
    <3>4. IsSeq(Append(p, x)) /\ Len(Append(p, x)) = OpenEpoch + 1 /\ Append(p, x)[OpenEpoch + 1] = x
      BY <3>1, AppendIsSeq
    <3> QED BY <3>2, <3>3, <3>4
  <2>5. UNCHANGED <<merge, acked, crashes>> /\ merge = IdleMerge
    BY DEF TypeInv
  <2> QED BY <1>2, <2>1, <2>2, <2>3, <2>4, <2>5, TypeKept DEF TypeInv
<1> QED BY <1>1, <1>3, <1>4, <1>5

-----------------------------------------------------------------------------
(* Every step keeps what the handle reads.                                 *)

LEMMA SameView ==
    ASSUME env' = env
    PROVE  View' = Data(mem'.base, mem'.delta)
BY SameTypes DEF View, Data

LEMMA ReadKept ==
    ASSUME TypeInv, ReadInv, env' = env, hist' = hist,
           mem'.up => /\ mem.up /\ mem'.epoch = mem.epoch /\ mem'.base = mem.base
                      /\ mem'.delta = mem.delta /\ mem'.wal = mem.wal /\ mem'.written = mem.written
                      /\ logs'[mem.wal].recs = Written,
           merge'.phase \in Merging =>
               /\ merge.phase \in Merging /\ merge'.f = merge.f /\ merge'.data = merge.data
               /\ merge.f <= merge'.mark /\ merge'.mark <= mem.epoch
    PROVE  ReadInv'
<1> SUFFICES ASSUME mem'.up PROVE ReadInv'
  BY DEF ReadInv
<1>1. View' = View
  BY SameView DEF View
<1>2. Written' = Written /\ Pending' = Pending /\ Merging' = Merging
  BY DEF Written, Pending, Merging
<1>3. ASSUME NEW t PROVE Commits(t)' <=> Commits(t)
  BY DEF Commits
<1>4. /\ mem'.epoch < Len(hist') /\ View' = hist'[mem'.epoch + 1]
      /\ mem'.written + Pending' = Len(Written')
      /\ Sorted(mem'.delta) /\ \A i \in 1 .. Len(mem'.delta) : mem'.delta[i].epoch <= mem'.epoch
  BY <1>1, <1>2 DEF ReadInv
<1>5. \A i \in 1 .. Pending' :
         (Commits(Written[mem.written + i]))' /\ Written'[mem'.written + i].epoch = mem'.epoch + i
  <2> SUFFICES ASSUME NEW i \in 1 .. Pending'
               PROVE  (Commits(Written[mem.written + i]))'
                      /\ Written'[mem'.written + i].epoch = mem'.epoch + i
    OBVIOUS
  <2>1. Commits(Written[mem.written + i]) /\ Written[mem.written + i].epoch = mem.epoch + i
    BY <1>2 DEF ReadInv
  <2>2. Written'[mem'.written + i] = Written[mem.written + i]
    BY <1>2
  <2> QED BY <2>1, <2>2 DEF Commits
<1>6. merge'.phase \in Merging => Frozen'
  <2> SUFFICES ASSUME merge'.phase \in Merging PROVE Frozen'
    OBVIOUS
  <2>1. Frozen
    BY DEF ReadInv
  <2>2. PICK k \in 0 .. Len(mem.delta) :
           /\ \A i \in 1 .. Len(mem.delta) : mem.delta[i].epoch > merge.f <=> i > k
           /\ merge.data = Data(mem.base, SubSeq(mem.delta, 1, k))
    BY <2>1 DEF Frozen
  <2>3. (merge.data = Data(mem.base, SubSeq(mem.delta, 1, k)))'
    <3>1. (Data(mem.base, SubSeq(mem.delta, 1, k)))' = Data(mem'.base, SubSeq(mem'.delta, 1, k))
      BY SameTypes DEF Data
    <3>2. merge'.data = Data(mem'.base, SubSeq(mem'.delta, 1, k))
      BY <2>2
    <3> QED BY <3>1, <3>2
  <2>4. \E n \in 0 .. Len(mem'.delta) :
          /\ \A i \in 1 .. Len(mem'.delta) : mem'.delta[i].epoch > merge'.f <=> i > n
          /\ (merge.data = Data(mem.base, SubSeq(mem.delta, 1, n)))'
    BY <2>2, <2>3
  <2> QED BY <2>1, <2>4 DEF Frozen
<1> QED BY <1>2, <1>4, <1>5, <1>6 DEF ReadInv, Sorted

\* The handle's counts, as numbers: l records in its log, the last p of them
\* the group in flight.
LEMMA FlightIs ==
    ASSUME TypeInv, ReadInv, mem.up
    PROVE  /\ \E e, p, w, l, h \in Nat :
                 /\ mem.epoch = e /\ Pending = p /\ mem.written = w /\ Len(Written) = l /\ Len(hist) = h
                 /\ l = w + p /\ h = e + 1 + p
           /\ Written \in Seq(Rec) /\ mem.delta \in Seq(Rec)
<1>1. /\ mem.written \in Nat /\ mem.epoch \in Nat /\ Len(Written) \in Nat /\ Len(hist) \in Nat
      /\ Written \in Seq(Rec) /\ mem.delta \in Seq(Rec)
  BY Parts
<1>2. mem.epoch < Len(hist) /\ mem.written + Pending = Len(Written)
  BY DEF ReadInv
<1>3. PICK e \in Nat, w \in Nat, l \in Nat, h \in Nat :
         mem.epoch = e /\ mem.written = w /\ Len(Written) = l /\ Len(hist) = h
  BY <1>1
<1>4. e < h /\ Pending = h - 1 - e /\ h - 1 - e \in Nat
  BY <1>2, <1>3 DEF Pending
<1>5. PICK p \in Nat : p = h - 1 - e
  BY <1>4
<1>6. Pending = p /\ l = w + p /\ h = e + 1 + p
  BY <1>2, <1>3, <1>4, <1>5
<1> QED BY <1>1, <1>3, <1>6

LEMMA ReadWriteTx ==
    ASSUME TypeInv, ReadInv, env' = env,
           NEW dels \in SUBSET Quads, NEW adds \in SUBSET Quads
    PROVE  WriteTx(dels, adds) => ReadInv'
<1>a. SUFFICES ASSUME WriteTx(dels, adds) PROVE ReadInv'
  OBVIOUS
<1> DEFINE before == hist[Len(hist)]
           after == (before \ dels) \cup adds
           t == Tx(Len(hist), dels, adds)
<1>1. /\ mem.up /\ UNCHANGED <<dirs, mem, merge, acked, crashes>>
      /\ dels \subseteq before /\ adds \cap (before \ dels) = {} /\ dels \cup adds # {}
      /\ hist' = Append(hist, after)
      /\ logs' = [logs EXCEPT ![mem.wal].recs = Append(@, t)]
  BY <1>a DEF WriteTx, CanCommit
<1>f. PICK e, p, w, l, h \in Nat :
         /\ mem.epoch = e /\ Pending = p /\ mem.written = w /\ Len(Written) = l /\ Len(hist) = h
         /\ l = w + p /\ h = e + 1 + p
  BY <1>1, FlightIs
<1>2. t \in Rec /\ t.kind = "tx" /\ t.epoch = h /\ t.dels = dels /\ t.adds = adds
  BY <1>f, TxIsRec DEF Tx
<1>3. Written' = Append(Written, t)
  <2>1. mem.wal \in {0, 1} /\ logs[mem.wal] \in Log
    BY Parts
  <2>2. logs'[mem.wal].recs = Append(logs[mem.wal].recs, t)
    BY <1>1, <2>1 DEF TypeInv, Log
  <2> QED BY <1>1, <2>2 DEF Written
<1>b. before = hist[h]
  BY <1>f
<1> HIDE DEF t, after, before
<1>4. /\ Len(Written') = l + 1 /\ Written'[l + 1] = t
      /\ \A i \in 1 .. l : Written'[i] = Written[i]
  <2>1. Written \in Seq(Rec)
    BY <1>1, FlightIs
  <2>2. /\ Len(Written') = Len(Written) + 1 /\ Written'[Len(Written) + 1] = t
        /\ \A i \in 1 .. Len(Written) : Written'[i] = Written[i]
    BY <1>2, <1>3, <2>1, AppendProperties
  <2> QED BY <1>f, <2>2
<1>5. /\ Len(hist') = h + 1 /\ hist'[h + 1] = after
      /\ \A i \in 1 .. h : hist'[i] = hist[i]
  <2>1. /\ Len(hist') = Len(hist) + 1 /\ hist'[Len(hist) + 1] = after
        /\ \A i \in 1 .. Len(hist) : hist'[i] = hist[i]
    BY <1>1, AppendIsSeq DEF TypeInv
  <2> QED BY <1>f, <2>1
<1>6. Pending' = p + 1
  <2>1. Pending' = h + 1 - 1 - e
    BY <1>1, <1>5, <1>f DEF Pending
  <2> QED BY <1>f, <2>1
<1>7. ASSUME NEW r, Commits(r) PROVE Commits(r)'
  <2>1. r.epoch \in 1 .. h - 1
    BY <1>7, <1>f DEF Commits
  <2>2. PICK k \in 1 .. h - 1 : r.epoch = k
    BY <2>1
  <2>3. k \in 1 .. h /\ k + 1 \in 1 .. h /\ k \in 1 .. h + 1 - 1
    BY <2>2
  <2>4. hist'[k] = hist[k] /\ hist'[k + 1] = hist[k + 1]
    BY <1>5, <2>3
  <2>5. k \in 1 .. Len(hist') - 1
    BY <1>5, <2>3
  <2> QED BY <1>7, <2>2, <2>4, <2>5 DEF Commits
<1>t. PICK x : x = t
  OBVIOUS
<1>8. Commits(x)'
  <2>1. h \in 1 .. h /\ h \in 1 .. h + 1 - 1
    BY <1>f
  <2>2. hist'[h] = before /\ hist'[h + 1] = after
    BY <1>5, <1>b, <2>1
  <2>3. h \in 1 .. Len(hist') - 1
    BY <1>5, <2>1
  <2> QED BY <1>1, <1>2, <1>t, <2>2, <2>3 DEF Commits, after
<1>9. \A i \in 1 .. Pending' :
         (Commits(Written[mem.written + i]))' /\ Written'[mem'.written + i].epoch = mem'.epoch + i
  <2> SUFFICES ASSUME NEW i \in 1 .. p + 1
               PROVE  (Commits(Written[mem.written + i]))'
                      /\ Written'[mem'.written + i].epoch = mem'.epoch + i
    BY <1>6
  <2>0. mem'.written + i = w + i /\ mem'.epoch + i = e + i
    BY <1>1, <1>f
  <2>1. CASE i \in 1 .. p
    <3>1. Commits(Written[w + i]) /\ Written[w + i].epoch = e + i
      BY <1>1, <1>f, <2>1 DEF ReadInv
    <3>2. w + i \in 1 .. l
      BY <1>f, <2>1
    <3>3. PICK r : r = Written[w + i]
      OBVIOUS
    <3>4. Written'[w + i] = r
      BY <1>4, <3>2, <3>3
    <3>5. Commits(r)' /\ r.epoch = e + i
      BY <1>7, <3>1, <3>3
    <3>6. (Commits(Written[mem.written + i]))'
      BY <2>0, <3>4, <3>5 DEF Commits
    <3> QED BY <2>0, <3>4, <3>5, <3>6
  <2>2. CASE i = p + 1
    <3>1. w + i = l + 1 /\ e + i = h
      BY <1>f, <2>2
    <3>2. Written'[w + i] = x
      BY <1>4, <1>t, <3>1
    <3>3. (Commits(Written[mem.written + i]))'
      BY <1>8, <2>0, <3>2 DEF Commits
    <3> QED BY <1>2, <1>t, <2>0, <3>1, <3>2, <3>3
  <2> QED BY <1>f, <2>1, <2>2
<1>10. View' = View
  BY <1>1, SameView DEF View
<1>11. hist'[mem.epoch + 1] = hist[mem.epoch + 1]
  <2>1. e + 1 \in 1 .. h
    BY <1>f
  <2> QED BY <1>5, <1>f, <2>1
<1>12. merge'.phase \in Merging' => Frozen'
  <2> SUFFICES ASSUME merge.phase \in Merging PROVE Frozen'
    BY <1>1 DEF Merging
  <2>1. Frozen
    BY <1>1 DEF ReadInv
  <2>2. PICK k \in 0 .. Len(mem.delta) :
           /\ \A i \in 1 .. Len(mem.delta) : mem.delta[i].epoch > merge.f <=> i > k
           /\ merge.data = Data(mem.base, SubSeq(mem.delta, 1, k))
    BY <2>1 DEF Frozen
  <2>3. (merge.data = Data(mem.base, SubSeq(mem.delta, 1, k)))'
    <3>1. (Data(mem.base, SubSeq(mem.delta, 1, k)))' = Data(mem'.base, SubSeq(mem'.delta, 1, k))
      BY SameTypes DEF Data
    <3>2. merge'.data = Data(mem'.base, SubSeq(mem'.delta, 1, k))
      BY <1>1, <2>2
    <3> QED BY <3>1, <3>2
  <2>4. \E n \in 0 .. Len(mem'.delta) :
          /\ \A i \in 1 .. Len(mem'.delta) : mem'.delta[i].epoch > merge'.f <=> i > n
          /\ (merge.data = Data(mem.base, SubSeq(mem.delta, 1, n)))'
    BY <1>1, <2>2, <2>3
  <2>5. hist'[merge.f + 1] = hist[merge.f + 1]
    <3>1. merge.f \in Nat /\ merge.f <= e
      BY <1>f, <2>1, Parts DEF Frozen
    <3>2. PICK f \in Nat : merge.f = f
      BY <3>1
    <3>3. f + 1 \in 1 .. h
      BY <1>f, <3>1, <3>2
    <3> QED BY <1>5, <3>2, <3>3
  <2> QED BY <1>1, <2>1, <2>4, <2>5 DEF Frozen
<1>13. /\ mem'.epoch < Len(hist') /\ View' = hist'[mem'.epoch + 1]
       /\ mem'.written + Pending' = Len(Written')
       /\ Sorted(mem'.delta) /\ \A i \in 1 .. Len(mem'.delta) : mem'.delta[i].epoch <= mem'.epoch
  <2>1. mem'.epoch < Len(hist')
    BY <1>1, <1>5, <1>f
  <2>2. mem'.written + Pending' = Len(Written')
    BY <1>1, <1>4, <1>6, <1>f
  <2>3. View' = hist'[mem'.epoch + 1]
    BY <1>1, <1>10, <1>11 DEF ReadInv
  <2> QED BY <1>1, <2>1, <2>2, <2>3 DEF ReadInv
<1> QED BY <1>9, <1>12, <1>13 DEF ReadInv, Sorted

\* Concatenation leaves the beginning of the first list.
LEMMA PrefixOfConcat ==
    ASSUME NEW S, NEW s \in Seq(S), NEW t \in Seq(S), NEW k \in 0 .. Len(s)
    PROVE  SubSeq(s \o t, 1, k) = SubSeq(s, 1, k)
<1>1. Len(s) \in Nat /\ k \in Nat
  BY LenProperties
<1>2. CASE k = 0
  <2>1. SubSeq(s \o t, 1, 0) = <<>> /\ SubSeq(s, 1, 0) = <<>>
    BY SubSeqEmpty
  <2> QED BY <1>2, <2>1
<1>3. CASE k # 0
  <2>1. 1 \in 1 .. Len(s) /\ k \in 1 .. Len(s)
    BY <1>1, <1>3
  <2> QED BY <2>1, SubSeqOfConcat1
<1> QED BY <1>2, <1>3

LEMMA ReadGroupDone ==
    ASSUME TypeInv, ReadInv, env' = env, NEW strict \in BOOLEAN
    PROVE  GroupDone(strict) => ReadInv'
<1>a. SUFFICES ASSUME GroupDone(strict) PROVE ReadInv'
  OBVIOUS
<1> DEFINE t == SubSeq(Written, mem.written + 1, Len(Written))
           n == Len(mem.delta)
           dd == mem.delta \o t
<1>1. /\ mem.up /\ UNCHANGED <<dirs, merge, hist, crashes>>
      /\ mem' = [mem EXCEPT !.epoch = Len(hist) - 1, !.written = Len(Written), !.delta = dd]
      /\ logs' = [logs EXCEPT ![mem.wal].synced = IF strict THEN Len(Written) ELSE @]
  BY <1>a DEF GroupDone, CanCommit, Written
<1>f. PICK e, p, w, l, h \in Nat :
         /\ mem.epoch = e /\ Pending = p /\ mem.written = w /\ Len(Written) = l /\ Len(hist) = h
         /\ l = w + p /\ h = e + 1 + p
  BY <1>1, FlightIs
<1>w. Written \in Seq(Rec) /\ mem.delta \in Seq(Rec)
  BY <1>1, FlightIs
<1>3. /\ t \in Seq(Rec) /\ Len(t) = p
      /\ \A i \in 1 .. p : t[i] = Written[w + i]
  <2>1. \A i \in w + 1 .. l : i \in 1 .. l
    BY <1>f
  <2>2. \A i \in w + 1 .. l : Written[i] \in Rec
    BY <1>f, <1>w, <2>1, RecsAre
  <2>3. t = SubSeq(Written, w + 1, l)
    BY <1>f
  <2>4. w + 1 \in Int /\ l \in Int
    BY <1>f
  <2> HIDE DEF t
  <2>5. /\ t \in Seq(Rec)
        /\ Len(t) = IF w + 1 <= l THEN l - (w + 1) + 1 ELSE 0
        /\ \A i \in 1 .. l - (w + 1) + 1 : t[i] = Written[w + 1 + i - 1]
    BY <2>2, <2>3, <2>4, SubSeqProperties
  <2>6. l - (w + 1) + 1 = p /\ (w + 1 <= l <=> p # 0)
    BY <1>f
  <2>7. \A i \in 1 .. p : w + 1 + i - 1 = w + i
    BY <1>f
  <2> QED BY <2>5, <2>6, <2>7
<1> HIDE DEF t
<1>4. n \in Nat /\ \A i \in 1 .. n : mem.delta[i].epoch \in Nat /\ mem.delta[i].epoch <= e
  BY <1>1, <1>f, <1>w, RecsAre DEF ReadInv
<1>c. PICK c \in Nat : c = n
  BY <1>4
<1>5. /\ dd \in Seq(Rec) /\ Len(dd) = c + p
      /\ \A i \in 1 .. c + p : dd[i] = IF i <= c THEN mem.delta[i] ELSE t[i - c]
  <2>1. /\ dd \in Seq(Rec) /\ Len(dd) = Len(mem.delta) + Len(t)
        /\ \A i \in 1 .. Len(mem.delta) + Len(t) :
              dd[i] = IF i <= Len(mem.delta) THEN mem.delta[i] ELSE t[i - Len(mem.delta)]
    BY <1>3, <1>w, ConcatProperties
  <2>2. Len(mem.delta) = c /\ Len(t) = p
    BY <1>3, <1>c
  <2> HIDE DEF dd
  <2> QED BY <2>1, <2>2
<1>6. \A i \in 1 .. p : Commits(t[i]) /\ t[i].epoch = e + i
  BY <1>1, <1>3, <1>f DEF ReadInv
<1>7. Data(mem.base, dd) = hist[h]
  <2>1. ASSUME NEW i \in 1 .. p
        PROVE  hist[e + 1 + i] = (hist[e + 1 + i - 1] \ t[i].dels) \cup t[i].adds
    <3>1. e + i + 1 = e + 1 + i /\ e + 1 + i - 1 = e + i
      BY <1>f
    <3>2. hist[e + i + 1] = (hist[e + i] \ t[i].dels) \cup t[i].adds
      BY <1>6 DEF Commits
    <3> QED BY <3>1, <3>2
  <2>2. Data(mem.base, mem.delta) = hist[e + 1]
    BY <1>1, <1>f DEF ReadInv, View
  <2> DEFINE g == [i \in 0 .. p |-> hist[e + 1 + i]]
  <2>3. g[0] = hist[e + 1] /\ g[p] = hist[h]
    <3>1. 0 \in 0 .. p /\ p \in 0 .. p /\ e + 1 + 0 = e + 1 /\ e + 1 + p = h
      BY <1>f
    <3> QED BY <3>1
  <2>4. ASSUME NEW i \in 1 .. p PROVE g[i] = (g[i - 1] \ t[i].dels) \cup t[i].adds
    <3>1. i \in 0 .. p /\ i - 1 \in 0 .. p /\ e + 1 + i - 1 = e + 1 + (i - 1)
      BY <1>f
    <3>2. g[i] = hist[e + 1 + i] /\ g[i - 1] = hist[e + 1 + i - 1]
      BY <3>1
    <3> QED BY <2>1, <3>2
  <2>5. mem.base \in SUBSET Quads /\ mem.delta \in Seq(Rec) /\ t \in Seq(Rec) /\ Len(t) = p
    BY <1>3, <1>w, Parts
  <2> HIDE DEF g
  <2>6. Data(mem.base, mem.delta \o t) = g[Len(t)]
    <3>1. \A i \in 1 .. Len(t) : Leads(g[i - 1], t[i], g[i])
      BY <2>4, <2>5 DEF Leads
    <3>2. Data(mem.base, mem.delta) = g[0]
      BY <2>2, <2>3
    <3> QED BY <2>5, <3>1, <3>2, DataExtend, Zenon
  <2>7. g[Len(t)] = hist[h]
    BY <2>3, <2>5
  <2> QED BY <2>6, <2>7
<1>8. /\ mem'.up /\ mem'.epoch = h - 1 /\ mem'.written = l /\ mem'.delta = dd
      /\ mem'.base = mem.base /\ mem'.wal = mem.wal
  <2> HIDE DEF dd
  <2> QED BY <1>1, <1>f DEF TypeInv, Mem
<1> HIDE DEF dd
<1>9. Written' = Written /\ Pending' = 0
  <2>1. mem.wal \in {0, 1}
    BY Parts
  <2>2. logs'[mem.wal].recs = logs[mem.wal].recs
    BY <1>1, <2>1 DEF TypeInv, Log
  <2>3. Pending' = h - 1 - (h - 1)
    BY <1>1, <1>8, <1>f DEF Pending
  <2> QED BY <1>1, <1>8, <1>f, <2>2, <2>3 DEF Written
<1>10. View' = hist[h]
  BY <1>7, <1>8, SameView
<1>d. \A i \in 1 .. c + p :
         \/ i \in 1 .. c /\ dd[i] = mem.delta[i] /\ dd[i].epoch \in Nat /\ dd[i].epoch <= e
         \/ i - c \in 1 .. p /\ dd[i].epoch = e + (i - c)
  <2> SUFFICES ASSUME NEW i \in 1 .. c + p
               PROVE  \/ i \in 1 .. c /\ dd[i] = mem.delta[i] /\ dd[i].epoch \in Nat /\ dd[i].epoch <= e
                      \/ i - c \in 1 .. p /\ dd[i].epoch = e + (i - c)
    OBVIOUS
  <2>1. CASE i <= c
    <3>1. i \in 1 .. c /\ dd[i] = mem.delta[i]
      BY <1>5, <2>1, <1>c
    <3> QED BY <1>4, <1>c, <3>1
  <2>2. CASE ~(i <= c)
    <3>1. i - c \in 1 .. p /\ dd[i] = t[i - c]
      BY <1>5, <2>2, <1>c
    <3> QED BY <1>6, <3>1
  <2> QED BY <2>1, <2>2
<1>11. Sorted(dd) /\ \A i \in 1 .. Len(dd) : dd[i].epoch <= h - 1
  <2>1. ASSUME NEW i \in 1 .. c + p PROVE dd[i].epoch <= h - 1
    <3>1. CASE i - c \in 1 .. p /\ dd[i].epoch = e + (i - c)
      <4>1. PICK m \in 1 .. p : m = i - c
        BY <3>1
      <4>2. e + m <= h - 1
        BY <1>f
      <4> QED BY <3>1, <4>1, <4>2
    <3>2. CASE dd[i].epoch \in Nat /\ dd[i].epoch <= e
      BY <1>f, <3>2
    <3> QED BY <1>d, <3>1, <3>2
  <2>2. ASSUME NEW i \in 1 .. c + p, NEW j \in 1 .. c + p, i < j
        PROVE  dd[i].epoch < dd[j].epoch
    <3>1. CASE j \in 1 .. c /\ dd[j] = mem.delta[j]
      <4>1. i \in 1 .. c /\ ~(i - c \in 1 .. p)
        BY <1>c, <2>2, <3>1
      <4>2. dd[i] = mem.delta[i]
        BY <1>d, <4>1
      <4>3. Sorted(mem.delta) /\ i \in 1 .. Len(mem.delta) /\ j \in 1 .. Len(mem.delta)
        BY <1>1, <1>c, <3>1, <4>1 DEF ReadInv
      <4> QED BY <2>2, <3>1, <4>2, <4>3 DEF Sorted
    <3>2. CASE j - c \in 1 .. p /\ dd[j].epoch = e + (j - c)
      <4>1. CASE dd[i].epoch \in Nat /\ dd[i].epoch <= e
        BY <1>f, <3>2, <4>1
      <4>2. CASE dd[i].epoch = e + (i - c)
        <5>1. e + (i - c) < e + (j - c)
          BY <2>2
        <5> QED BY <3>2, <4>2, <5>1
      <4> QED BY <1>d, <4>1, <4>2
    <3> QED BY <1>d, <3>1, <3>2
  <2> QED BY <1>5, <2>1, <2>2 DEF Sorted
<1>12. merge'.phase \in Merging' => Frozen'
  <2> SUFFICES ASSUME merge.phase \in Merging PROVE Frozen'
    BY <1>1 DEF Merging
  <2>1. Frozen
    BY <1>1 DEF ReadInv
  <2>2. PICK k \in 0 .. c :
           /\ \A i \in 1 .. c : mem.delta[i].epoch > merge.f <=> i > k
           /\ merge.data = Data(mem.base, SubSeq(mem.delta, 1, k))
    BY <2>1, <1>c DEF Frozen
  <2>3. SubSeq(dd, 1, k) = SubSeq(mem.delta, 1, k)
    <3>1. k \in 0 .. Len(mem.delta)
      BY <1>c
    <3> QED BY <1>3, <1>w, <3>1, PrefixOfConcat DEF dd
  <2>4. (merge.data = Data(mem.base, SubSeq(mem.delta, 1, k)))'
    <3>1. (Data(mem.base, SubSeq(mem.delta, 1, k)))' = Data(mem'.base, SubSeq(mem'.delta, 1, k))
      BY SameTypes DEF Data
    <3>2. merge'.data = Data(mem'.base, SubSeq(mem'.delta, 1, k))
      BY <1>1, <1>8, <2>2, <2>3
    <3> QED BY <3>1, <3>2
  <2>f. PICK f \in Nat, m \in Nat : merge.f = f /\ merge.mark = m /\ f <= e /\ m <= e /\ f <= m
    <3>1. merge.f \in Nat /\ merge.mark \in Nat
      BY Parts
    <3> QED BY <1>f, <2>1, <3>1 DEF Frozen
  <2>5. k \in 0 .. c + p /\ \A i \in 1 .. c + p : dd[i].epoch > f <=> i > k
    <3>1. k \in 0 .. c + p
      BY <1>f, <1>c
    <3>2. ASSUME NEW i \in 1 .. c + p PROVE dd[i].epoch > f <=> i > k
      <4>1. CASE i \in 1 .. c /\ dd[i] = mem.delta[i]
        BY <2>2, <2>f, <4>1
      <4>2. CASE i - c \in 1 .. p /\ dd[i].epoch = e + (i - c)
        <5>1. i > k
          BY <1>c, <4>2
        <5>2. e + (i - c) > f
          <6>1. PICK m2 \in 1 .. p : m2 = i - c
            BY <4>2
          <6>2. e + m2 > f
            BY <2>f
          <6> QED BY <6>1, <6>2
        <5> QED BY <4>2, <5>1, <5>2
      <4> QED BY <1>d, <4>1, <4>2
    <3> QED BY <3>1, <3>2
  <2>6. \E m1 \in 0 .. Len(mem'.delta) :
          /\ \A i \in 1 .. Len(mem'.delta) : mem'.delta[i].epoch > merge'.f <=> i > m1
          /\ (merge.data = Data(mem.base, SubSeq(mem.delta, 1, m1)))'
    <3>1. Len(mem'.delta) = c + p /\ mem'.delta = dd /\ merge'.f = f
      BY <1>1, <1>5, <1>8, <2>f
    <3> QED BY <2>4, <2>5, <3>1
  <2>7. merge.mark <= mem'.epoch /\ merge.f <= mem'.epoch /\ merge.f <= merge.mark
        /\ merge.data = hist[merge.f + 1]
    <3>1. f <= h - 1 /\ m <= h - 1
      BY <1>f, <2>f
    <3>2. merge.data = hist[merge.f + 1]
      BY <2>1 DEF Frozen
    <3> QED BY <1>8, <2>f, <3>1, <3>2
  <2> QED BY <1>1, <2>6, <2>7 DEF Frozen
<1>13. \A i \in 1 .. Pending' :
         (Commits(Written[mem.written + i]))' /\ Written'[mem'.written + i].epoch = mem'.epoch + i
  BY <1>9
<1>14. /\ mem'.epoch < Len(hist') /\ View' = hist'[mem'.epoch + 1]
       /\ mem'.written + Pending' = Len(Written')
       /\ Sorted(mem'.delta) /\ \A i \in 1 .. Len(mem'.delta) : mem'.delta[i].epoch <= mem'.epoch
  <2>1. mem'.epoch < Len(hist') /\ mem'.epoch + 1 = h
    BY <1>1, <1>8, <1>f
  <2>2. mem'.written + Pending' = Len(Written')
    BY <1>8, <1>9, <1>f
  <2>3. View' = hist'[mem'.epoch + 1]
    BY <1>1, <1>10, <2>1
  <2>4. Sorted(mem'.delta) /\ \A i \in 1 .. Len(mem'.delta) : mem'.delta[i].epoch <= mem'.epoch
    BY <1>8, <1>11
  <2> QED BY <2>1, <2>2, <2>3, <2>4
<1> QED BY <1>12, <1>13, <1>14 DEF ReadInv, Sorted

\* A merge's data is still what the handle read at the freeze when the handle
\* keeps its base and its delta and the history its past.
LEMMA FrozenKept ==
    ASSUME TypeInv, Frozen, env' = env,
           merge'.f = merge.f, merge'.data = merge.data,
           merge.f <= merge'.mark, merge'.mark <= mem.epoch,
           mem'.epoch = mem.epoch, mem'.base = mem.base, mem'.delta = mem.delta,
           \A i \in 1 .. mem.epoch + 1 : hist'[i] = hist[i]
    PROVE  Frozen'
<1>1. PICK k \in 0 .. Len(mem.delta) :
         /\ \A i \in 1 .. Len(mem.delta) : mem.delta[i].epoch > merge.f <=> i > k
         /\ merge.data = Data(mem.base, SubSeq(mem.delta, 1, k))
  BY DEF Frozen
<1>2. (merge.data = Data(mem.base, SubSeq(mem.delta, 1, k)))'
  <2>1. (Data(mem.base, SubSeq(mem.delta, 1, k)))' = Data(mem'.base, SubSeq(mem'.delta, 1, k))
    BY SameTypes DEF Data
  <2>2. merge'.data = Data(mem'.base, SubSeq(mem'.delta, 1, k))
    BY <1>1
  <2> QED BY <2>1, <2>2
<1>3. \E n \in 0 .. Len(mem'.delta) :
        /\ \A i \in 1 .. Len(mem'.delta) : mem'.delta[i].epoch > merge'.f <=> i > n
        /\ (merge.data = Data(mem.base, SubSeq(mem.delta, 1, n)))'
  BY <1>1, <1>2
<1>4. hist'[merge.f + 1] = hist[merge.f + 1]
  <2>1. PICK f \in Nat, e \in Nat : merge.f = f /\ mem.epoch = e /\ f <= e
    <3>1. merge.f \in Nat /\ mem.epoch \in Nat
      BY Parts
    <3> QED BY <3>1 DEF Frozen
  <2>2. f + 1 \in 1 .. e + 1
    BY <2>1
  <2> QED BY <2>1, <2>2
<1>5. merge'.data = hist'[merge'.f + 1] /\ merge'.f <= mem'.epoch /\ merge'.mark <= mem'.epoch
      /\ merge'.f <= merge'.mark
  BY <1>4 DEF Frozen
<1> QED BY <1>3, <1>5 DEF Frozen

LEMMA ReadGroupFails ==
    ASSUME TypeInv, ReadInv, env' = env, GroupFails
    PROVE  ReadInv'
<1>1. /\ mem.up /\ UNCHANGED <<dirs, mem, merge, acked, crashes>>
      /\ hist' = Prefix(hist, mem.epoch + 1)
      /\ logs' = [logs EXCEPT ![mem.wal].recs = Prefix(@, mem.written)]
  BY DEF GroupFails, CanCommit
<1>f. PICK e, p, w, l, h \in Nat :
         /\ mem.epoch = e /\ Pending = p /\ mem.written = w /\ Len(Written) = l /\ Len(hist) = h
         /\ l = w + p /\ h = e + 1 + p
  BY <1>1, FlightIs
<1>2. Len(hist') = e + 1 /\ \A i \in 1 .. e + 1 : hist'[i] = hist[i]
  <2>1. Len(hist') = mem.epoch + 1 /\ \A i \in 1 .. mem.epoch + 1 : hist'[i] = hist[i]
    BY <1>1, LastOfPrefix
  <2> QED BY <1>f, <2>1
<1>3. Len(Written') = w
  <2>1. mem.wal \in {0, 1} /\ logs[mem.wal] \in Log
    BY Parts
  <2>2. Written' = Prefix(Written, w)
    BY <1>1, <1>f, <2>1 DEF TypeInv, Log, Written
  <2>3. Written \in Seq(Rec) /\ w <= Len(Written)
    BY <1>1, <1>f, FlightIs
  <2>4. Len(Prefix(Written, w)) = w
    BY <2>3, PrefixOfLog
  <2> QED BY <2>2, <2>4
<1>4. Pending' = 0
  <2>1. Pending' = Len(hist') - 1 - mem'.epoch
    BY DEF Pending
  <2>2. Len(hist') = e + 1 /\ mem'.epoch = e
    BY <1>1, <1>2, <1>f
  <2>3. e + 1 - 1 - e = 0
    BY <1>f
  <2> QED BY <2>1, <2>2, <2>3
<1>5. View' = hist'[mem'.epoch + 1] /\ mem'.epoch < Len(hist')
  <2>1. View' = View
    BY <1>1, SameView DEF View
  <2>2. View = hist[e + 1] /\ e + 1 \in 1 .. e + 1
    BY <1>1, <1>f DEF ReadInv
  <2>3. View' = hist'[e + 1]
    BY <1>2, <2>1, <2>2
  <2> QED BY <1>1, <1>2, <1>f, <2>3
<1>6. merge'.phase \in Merging' => Frozen'
  <2>0. merge'.phase = merge.phase /\ Merging' = Merging
    BY <1>1 DEF Merging
  <2> SUFFICES ASSUME merge.phase \in Merging PROVE Frozen'
    BY <2>0
  <2>1. Frozen
    BY <1>1 DEF ReadInv
  <2>2. merge.f <= merge.mark /\ merge.mark <= mem.epoch
    BY <2>1 DEF Frozen
  <2>3. \A i \in 1 .. mem.epoch + 1 : hist'[i] = hist[i]
    BY <1>2, <1>f
  <2> QED BY <1>1, <2>1, <2>2, <2>3, FrozenKept
<1>7. mem'.written + Pending' = Len(Written')
  BY <1>1, <1>3, <1>4, <1>f
<1>8. \A i \in 1 .. Pending' :
         (Commits(Written[mem.written + i]))' /\ Written'[mem'.written + i].epoch = mem'.epoch + i
  BY <1>4
<1>9. Sorted(mem'.delta) /\ \A i \in 1 .. Len(mem'.delta) : mem'.delta[i].epoch <= mem'.epoch
  BY <1>1 DEF ReadInv
<1> QED BY <1>5, <1>6, <1>7, <1>8, <1>9 DEF ReadInv, Sorted

LEMMA ReadMergeStart ==
    ASSUME TypeInv, ReadInv, env' = env, MergeStart
    PROVE  ReadInv'
<1>1. /\ mem.up /\ UNCHANGED <<dirs, mem, hist, acked, crashes>> /\ ~InFlight
      /\ logs' = [logs EXCEPT ![mem.wal].synced = Len(logs[mem.wal].recs)]
      /\ merge' = [IdleMerge EXCEPT !.phase = "started", !.f = mem.epoch,
                                    !.data = View, !.mark = mem.epoch]
  BY DEF MergeStart
<1>2. merge'.f = mem.epoch /\ merge'.mark = mem.epoch /\ merge'.data = View
  BY <1>1 DEF IdleMerge
<1>3. Written' = Written /\ Pending' = Pending /\ View' = View
  <2>1. mem.wal \in {0, 1}
    BY Parts
  <2>2. Written' = Written
    BY <1>1, <2>1 DEF TypeInv, Log, Written
  <2>3. View' = View
    BY <1>1, SameView DEF View
  <2> QED BY <1>1, <2>2, <2>3 DEF Pending
<1>4. Pending = 0
  <2>1. PICK e, p, w, l, h \in Nat :
           /\ mem.epoch = e /\ Pending = p /\ mem.written = w /\ Len(Written) = l /\ Len(hist) = h
           /\ l = w + p /\ h = e + 1 + p
    BY <1>1, FlightIs
  <2>2. ~(h - 1 > e)
    BY <1>1, <2>1 DEF InFlight
  <2> QED BY <2>1, <2>2
<1>5. Frozen'
  <2> DEFINE n == Len(mem.delta)
  <2>1. n \in Nat /\ mem.delta \in Seq(Rec) /\ mem.epoch \in Nat
    BY Parts, LenProperties
  <2>2. \A i \in 1 .. n : ~(mem.delta[i].epoch > mem.epoch)
    <3>1. \A i \in 1 .. n : mem.delta[i].epoch \in Nat /\ mem.delta[i].epoch <= mem.epoch
      BY <1>1, <2>1, RecsAre DEF ReadInv
    <3> QED BY <2>1, <3>1
  <2>3. SubSeq(mem.delta, 1, n) = mem.delta
    BY <2>1, SubSeqFull
  <2>4. \E m \in 0 .. Len(mem'.delta) :
          /\ \A i \in 1 .. Len(mem'.delta) : mem'.delta[i].epoch > merge'.f <=> i > m
          /\ (merge.data = Data(mem.base, SubSeq(mem.delta, 1, m)))'
    <3>1. PICK m \in Nat : m = n
      BY <2>1
    <3>2. m \in 0 .. Len(mem'.delta)
      BY <1>1, <3>1
    <3>3. \A i \in 1 .. Len(mem'.delta) : mem'.delta[i].epoch > merge'.f <=> i > m
      BY <1>1, <1>2, <2>2, <3>1
    <3>4. (merge.data = Data(mem.base, SubSeq(mem.delta, 1, m)))'
      <4>1. (Data(mem.base, SubSeq(mem.delta, 1, m)))' = Data(mem'.base, SubSeq(mem'.delta, 1, m))
        BY SameTypes DEF Data
      <4>2. merge'.data = Data(mem'.base, SubSeq(mem'.delta, 1, m))
        BY <1>1, <1>2, <2>3, <3>1 DEF View
      <4> QED BY <4>1, <4>2
    <3> QED BY <3>2, <3>3, <3>4
  <2>5. merge'.data = hist'[merge'.f + 1] /\ merge'.f <= mem'.epoch /\ merge'.mark <= mem'.epoch
        /\ merge'.f <= merge'.mark
    BY <1>1, <1>2, <2>1 DEF ReadInv
  <2> QED BY <2>4, <2>5 DEF Frozen
<1>6. \A i \in 1 .. Pending' :
         (Commits(Written[mem.written + i]))' /\ Written'[mem'.written + i].epoch = mem'.epoch + i
  BY <1>3, <1>4
<1>7. /\ mem'.epoch < Len(hist') /\ View' = hist'[mem'.epoch + 1]
      /\ mem'.written + Pending' = Len(Written')
      /\ Sorted(mem'.delta) /\ \A i \in 1 .. Len(mem'.delta) : mem'.delta[i].epoch <= mem'.epoch
  BY <1>1, <1>3 DEF ReadInv
<1> QED BY <1>5, <1>6, <1>7 DEF ReadInv, Sorted

\* What is kept of a sorted list is sorted.
LEMMA KeepSorted ==
    ASSUME NEW s \in Seq(Rec), NEW I \in SUBSET (1 .. Len(s)), Sorted(s), NEW e \in Nat,
           \A i \in 1 .. Len(s) : s[i].epoch <= e
    PROVE  Sorted(Keep(s, I)) /\ \A i \in 1 .. Len(Keep(s, I)) : Keep(s, I)[i].epoch <= e
<1>1. PICK k : k = Keep(s, I)
  OBVIOUS
<1>2. k \in Seq(Rec) /\ Picks(s, I, k)
  BY <1>1, KeepPicks
<1>3. PICK m \in [1 .. Len(k) -> I] :
        /\ \A j \in 1 .. Len(k) : k[j] = s[m[j]]
        /\ \A i, j \in 1 .. Len(k) : i < j => m[i] < m[j]
  BY <1>2 DEF Picks
<1>4. \A j \in 1 .. Len(k) : m[j] \in 1 .. Len(s)
  BY <1>3
<1> QED BY <1>1, <1>3, <1>4 DEF Sorted

LEMMA ReadActivate ==
    ASSUME TypeInv, ReadInv, env' = env, Activate
    PROVE  ReadInv'
<1>1. /\ UNCHANGED <<logs, acked, crashes>> /\ merge.phase = "renamed"
      /\ merge' = [IdleMerge EXCEPT !.phase = "drain"]
      /\ hist' = Prefix(hist, mem.epoch + 1)
      /\ mem' = [mem EXCEPT !.wal = stage, !.written = Len(logs[stage].recs),
                            !.broken = FALSE, !.gen = new_gen, !.base = merge.data,
                            !.delta = After(@, merge.f), !.retired = @ \cup {mem.gen}]
  BY DEF Activate
<1>2. mem.up /\ Frozen
  <2>1. mem.up
    BY <1>1, MergeIsUp
  <2> QED BY <1>1, <2>1 DEF ReadInv, Merging
<1>3. PICK e \in Nat, f \in Nat : mem.epoch = e /\ merge.f = f
  BY Parts
<1>4. PICK k \in 0 .. Len(mem.delta) :
         /\ \A i \in 1 .. Len(mem.delta) : mem.delta[i].epoch > f <=> i > k
         /\ merge.data = Data(mem.base, SubSeq(mem.delta, 1, k))
  BY <1>2, <1>3 DEF Frozen
<1>5. mem.delta \in Seq(Rec)
  BY Parts
<1>6. Data(merge.data, After(mem.delta, f)) = View
  <2>1. Data(Data(mem.base, SubSeq(mem.delta, 1, k)), After(mem.delta, f)) = Data(mem.base, mem.delta)
    BY <1>4, <1>5, DataAfter
  <2> QED BY <1>4, <2>1 DEF View
<1>7. PICK d : d = After(mem.delta, f)
  OBVIOUS
<1>8. /\ mem'.delta = d /\ mem'.base = merge.data /\ mem'.epoch = e /\ mem'.wal = stage
      /\ mem'.written = Len(logs[stage].recs)
  BY <1>1, <1>3, <1>7 DEF TypeInv, Mem
<1>9. Len(hist') = e + 1 /\ \A i \in 1 .. e + 1 : hist'[i] = hist[i]
  <2>1. Len(hist') = mem.epoch + 1 /\ \A i \in 1 .. mem.epoch + 1 : hist'[i] = hist[i]
    BY <1>1, <1>2, LastOfPrefix
  <2> QED BY <1>3, <2>1
<1>10. Pending' = 0
  <2>1. Pending' = Len(hist') - 1 - mem'.epoch
    BY DEF Pending
  <2>2. e + 1 - 1 - e = 0
    OBVIOUS
  <2> QED BY <1>8, <1>9, <2>1, <2>2
<1>11. mem'.written = Len(Written') /\ Len(Written') \in Nat
  <2>1. Written' = logs[stage].recs
    BY <1>1, <1>8 DEF Written
  <2>2. logs[stage].recs \in Seq(Rec)
    BY Parts DEF Log
  <2> QED BY <1>8, <2>1, <2>2, LenProperties
<1>12. View' = hist'[mem'.epoch + 1] /\ mem'.epoch < Len(hist')
  <2>1. View' = View
    BY <1>6, <1>7, <1>8, SameView
  <2>2. View = hist[e + 1] /\ e + 1 \in 1 .. e + 1
    BY <1>2, <1>3 DEF ReadInv
  <2>3. View' = hist'[e + 1]
    BY <1>9, <2>1, <2>2
  <2> QED BY <1>8, <1>9, <2>3
<1>13. Sorted(d) /\ \A i \in 1 .. Len(d) : d[i].epoch <= e
  <2> DEFINE I == {i \in DOMAIN mem.delta : mem.delta[i].epoch > f}
  <2>1. I \in SUBSET (1 .. Len(mem.delta))
    BY <1>5, LenProperties
  <2>2. Sorted(mem.delta) /\ \A i \in 1 .. Len(mem.delta) : mem.delta[i].epoch <= e
    BY <1>2, <1>3 DEF ReadInv
  <2>3. d = Keep(mem.delta, I)
    BY <1>7 DEF After
  <2> HIDE DEF I
  <2> QED BY <1>5, <2>1, <2>2, <2>3, KeepSorted
<1>14. merge'.phase \notin Merging'
  BY <1>1 DEF IdleMerge, Merging
<1>15. mem'.written + Pending' = Len(Written')
  BY <1>10, <1>11
<1>16. \A i \in 1 .. Pending' :
         (Commits(Written[mem.written + i]))' /\ Written'[mem'.written + i].epoch = mem'.epoch + i
  BY <1>10
<1>17. Sorted(mem'.delta) /\ \A i \in 1 .. Len(mem'.delta) : mem'.delta[i].epoch <= mem'.epoch
  BY <1>8, <1>13
<1> QED BY <1>12, <1>14, <1>15, <1>16, <1>17 DEF ReadInv, Sorted

\* The steps that leave alone what the handle reads.
LEMMA ReadOthers ==
    ASSUME TypeInv, ReadInv, env' = env,
           \/ GroupStuck \/ BuildBegin \/ BuildDone \/ ShadowPass \/ SwapTail \/ Flip \/ FlipSync
           \/ FlipFails \/ Rename \/ ActivateFails \/ EndDrain \/ MergeAbort \/ Kill \/ PowerLoss
           \/ \E g \in Gens : Sweep(g)
    PROVE  ReadInv'
<1>1. /\ stage # mem.wal /\ mem.wal \in {0, 1} /\ stage \in {0, 1}
      /\ merge.mark \in Nat /\ mem.epoch \in Nat
  BY Parts
<1>2. mem.up /\ merge.phase \in Merging => merge.f <= merge.mark /\ merge.mark <= mem.epoch
  BY DEF ReadInv, Frozen
<1>3. merge.phase \in Merging => mem.up
  BY MergeIsUp DEF Merging
<1>4. IdleMerge.phase \notin Merging /\ "idle" \notin Merging /\ "drain" \notin Merging
  BY DEF Merging, IdleMerge
<1>5. CASE GroupStuck \/ EndDrain \/ ActivateFails \/ \E g \in Gens : Sweep(g)
  <2>1. /\ hist' = hist /\ mem'.up = mem.up /\ mem'.epoch = mem.epoch /\ mem'.base = mem.base
        /\ mem'.delta = mem.delta /\ mem'.wal = mem.wal /\ mem'.written = mem.written /\ logs' = logs
    BY <1>5 DEF GroupStuck, EndDrain, ActivateFails, Sweep, TypeInv, Mem
  <2>2. merge' = merge \/ merge'.phase \notin Merging
    BY <1>4, <1>5 DEF GroupStuck, EndDrain, ActivateFails, Sweep, IdleMerge
  <2>3. merge'.phase \in Merging =>
               /\ merge.phase \in Merging /\ merge'.f = merge.f /\ merge'.data = merge.data
               /\ merge.f <= merge'.mark /\ merge'.mark <= mem.epoch
    BY <1>2, <1>3, <2>2
  <2> QED BY <2>1, <2>3, ReadKept DEF Written
<1>6. CASE BuildBegin \/ Flip \/ FlipSync \/ Rename
  <2>1. UNCHANGED <<logs, mem, hist, acked, crashes>>
    BY <1>6 DEF BuildBegin, Flip, FlipSync, Rename
  <2>2. merge.phase \in Merging /\ \E p \in Merging : merge' = [merge EXCEPT !.phase = p]
    BY <1>6 DEF BuildBegin, Flip, FlipSync, Rename, Merging
  <2>3. merge'.f = merge.f /\ merge'.data = merge.data /\ merge'.mark = merge.mark
    BY <2>2 DEF TypeInv, Merge
  <2>4. merge'.phase \in Merging =>
               /\ merge.phase \in Merging /\ merge'.f = merge.f /\ merge'.data = merge.data
               /\ merge.f <= merge'.mark /\ merge'.mark <= mem.epoch
    BY <1>2, <1>3, <2>2, <2>3
  <2> QED BY <2>1, <2>4, ReadKept DEF Written
<1>7. CASE BuildDone \/ ShadowPass \/ SwapTail
  <2>1. UNCHANGED <<mem, hist, acked, crashes>> /\ merge.phase \in Merging
    BY <1>7 DEF BuildDone, ShadowPass, SwapTail, Merging
  <2>2. logs'[mem.wal] = logs[mem.wal]
    BY <1>1, <1>7 DEF BuildDone, ShadowPass, SwapTail, TypeInv
  <2>3. merge'.f = merge.f /\ merge'.data = merge.data
    BY <1>7 DEF BuildDone, ShadowPass, SwapTail, TypeInv, Merge
  <2>4. merge'.mark = merge.mark \/ merge'.mark = mem.epoch
    BY <1>7 DEF BuildDone, ShadowPass, SwapTail, TypeInv, Merge
  <2>5. merge.f <= mem.epoch
    BY <1>3, <2>1 DEF ReadInv, Frozen
  <2>6. merge'.phase \in Merging =>
               /\ merge.phase \in Merging /\ merge'.f = merge.f /\ merge'.data = merge.data
               /\ merge.f <= merge'.mark /\ merge'.mark <= mem.epoch
    BY <1>1, <1>2, <1>3, <2>1, <2>3, <2>4, <2>5
  <2> QED BY <2>1, <2>2, <2>6, ReadKept DEF Written
<1>8. CASE FlipFails \/ MergeAbort
  <2>1. UNCHANGED <<dirs, logs, mem, hist, acked, crashes>>
    BY <1>8 DEF FlipFails, MergeAbort
  <2>2. merge'.phase \notin Merging
    BY <1>4, <1>8 DEF FlipFails, MergeAbort, IdleMerge
  <2> QED BY <2>1, <2>2, ReadKept DEF Written
<1>9. CASE Kill \/ PowerLoss
  <2>1. mem' = ClosedMem
    BY <1>9 DEF Kill, PowerLoss
  <2>2. ~mem'.up
    BY <2>1 DEF ClosedMem
  <2> QED BY <2>2 DEF ReadInv
<1> QED BY <1>5, <1>6, <1>7, <1>8, <1>9

\* A log that replays is sorted, and its last epoch is its largest.
LEMMA IncreasingIsSorted ==
    ASSUME NEW s \in Seq(Rec), Increasing(s)
    PROVE  /\ Sorted(s)
           /\ s # <<>> => \A i \in 1 .. Len(s) : s[i].epoch <= s[Len(s)].epoch
<1> DEFINE n == Len(s)
           T == {j \in 0 .. n : \A a, b \in 1 .. j : a < b => s[a].epoch < s[b].epoch}
<1>1. n \in Nat /\ DOMAIN s = 1 .. n /\ \A i \in 1 .. n : s[i].epoch \in Nat
  BY RecsAre
<1>2. 0 \in T
  BY <1>1
<1>3. ASSUME NEW j \in 0 .. n - 1, j \in T PROVE j + 1 \in T
  <2>1. j \in Nat /\ j + 1 \in 0 .. n /\ j + 1 \in 1 .. n /\ (j + 1) - 1 = j
    BY <1>1
  <2>2. ASSUME NEW a \in 1 .. j PROVE s[a].epoch < s[j + 1].epoch
    <3>1. j \in 1 .. n /\ j + 1 # 1 /\ a \in 1 .. n
      BY <1>1, <2>1
    <3>2. s[j + 1].epoch > s[j].epoch
      BY <1>1, <2>1, <3>1 DEF Increasing
    <3>3. a = j \/ s[a].epoch < s[j].epoch
      <4>1. a = j \/ (a < j /\ j \in 1 .. j)
        BY <2>1
      <4> QED BY <1>3, <4>1
    <3>4. s[a].epoch \in Nat /\ s[j].epoch \in Nat /\ s[j + 1].epoch \in Nat
      BY <1>1, <2>1, <3>1
    <3> QED BY <3>2, <3>3, <3>4
  <2>3. \A a, b \in 1 .. j + 1 : a < b => s[a].epoch < s[b].epoch
    <3> SUFFICES ASSUME NEW a \in 1 .. j + 1, NEW b \in 1 .. j + 1, a < b
                 PROVE  s[a].epoch < s[b].epoch
      OBVIOUS
    <3>1. a \in 1 .. j /\ (b \in 1 .. j \/ b = j + 1)
      BY <2>1
    <3> QED BY <1>3, <2>2, <3>1
  <2> QED BY <2>1, <2>3
<1>4. n \in T
  <2> HIDE DEF T
  <2>1. n \in 0 .. n
    BY <1>1
  <2> QED BY <1>1, <1>2, <1>3, <2>1, UpTo
<1>5. Sorted(s)
  BY <1>4 DEF Sorted
<1>6. ASSUME s # <<>>, NEW i \in 1 .. n PROVE s[i].epoch <= s[n].epoch
  <2>1. n \in 1 .. n /\ (i = n \/ i < n)
    BY <1>1
  <2>2. s[i].epoch \in Nat /\ s[n].epoch \in Nat
    BY <1>1, <2>1
  <2> QED BY <1>5, <2>1, <2>2 DEF Sorted
<1> QED BY <1>5, <1>6

LEMMA AppliedSorted ==
    ASSUME NEW b \in SUBSET Quads, NEW s \in Seq(Rec), Sorted(s), NEW e \in Nat,
           \A i \in 1 .. Len(s) : s[i].epoch <= e
    PROVE  Sorted(Applied(b, s)) /\ \A i \in 1 .. Len(Applied(b, s)) : Applied(b, s)[i].epoch <= e
<1>1. PICK m : AppliedBy(b, s, m)
  BY AppliedIs
<1>2. PICK k : k = Applied(b, s)
  OBVIOUS
<1>3. /\ \A j \in 1 .. Len(k) : m[j] \in 1 .. Len(s) /\ k[j].epoch = s[m[j]].epoch
      /\ \A i, j \in 1 .. Len(k) : i < j => m[i] < m[j]
  BY <1>1, <1>2 DEF AppliedBy
<1>4. Sorted(k) /\ \A i \in 1 .. Len(k) : k[i].epoch <= e
  BY <1>3 DEF Sorted
<1> QED BY <1>2, <1>4

LEMMA ReadOpen ==
    ASSUME TypeInv, ReadInv, env' = env, Open
    PROVE  ReadInv'
<1> DEFINE t == replay(Live).txs
<1>1. dir \in Dir /\ dir.wal \in {0, 1} /\ merge = IdleMerge
  <2>1. ~mem.up
    BY OpenIs
  <2> QED BY <2>1, Parts DEF Dir, TypeInv
<1>2. PICK e \in Nat, d \in Seq(Rec) : OpenEpoch = e /\ Delta = d
  BY OpenIs
<1>3. /\ mem'.up /\ mem'.epoch = e /\ mem'.delta = d /\ mem'.base = Base /\ mem'.wal = dir.wal
      /\ mem'.written = Len(Live)
  <2>1. mem' = [ClosedMem EXCEPT !.up = TRUE, !.gen = dir.current, !.epoch = e,
                                       !.base = Base, !.delta = d, !.wal = dir.wal,
                                       !.written = Len(Live)]
    BY <1>2, OpenIs
  <2> QED BY <2>1 DEF ClosedMem
<1>4. Len(hist') = e + 1 /\ hist'[e + 1] = Data(Base, d)
  <2> DEFINE p == Prefix(hist, e)
             x == Data(Base, d)
  <2>1. IsSeq(p) /\ Len(p) = e
    BY SubSeqIsSeq
  <2>2. hist' = Append(p, x)
    BY <1>2, OpenIs
  <2> HIDE DEF p, x
  <2>3. Len(Append(p, x)) = e + 1 /\ Append(p, x)[e + 1] = x
    BY <2>1, AppendIsSeq
  <2> QED BY <2>2, <2>3 DEF x
<1>5. View' = hist'[mem'.epoch + 1] /\ mem'.epoch < Len(hist')
  <2>1. View' = Data(Base, d)
    BY <1>3, SameView
  <2> QED BY <1>3, <1>4, <2>1
<1>6. Pending' = 0
  <2>1. Pending' = Len(hist') - 1 - mem'.epoch
    BY DEF Pending
  <2>2. e + 1 - 1 - e = 0
    OBVIOUS
  <2> QED BY <1>3, <1>4, <2>1, <2>2
<1>7. Written' = Live /\ Len(Live) \in Nat
  <2>1. logs' = [logs EXCEPT ![1 - dir.wal] =
                          IF \E d1 \in Range(dirs) : d1.wal # dir.wal THEN @ ELSE EmptyLog]
    BY OpenIs
  <2>2. 1 - dir.wal # dir.wal
    BY <1>1
  <2>3. logs'[dir.wal] = logs[dir.wal]
    BY <1>1, <2>1, <2>2 DEF TypeInv
  <2>4. Len(Live) \in Nat
    BY OpenIs
  <2> QED BY <1>3, <2>3, <2>4 DEF Written, Live
<1>8. mem'.written + Pending' = Len(Written')
  BY <1>3, <1>6, <1>7
<1>9. Sorted(d) /\ \A i \in 1 .. Len(d) : d[i].epoch <= e
  <2>1. t \in Seq(Rec) /\ Increasing(t) /\ Base \in SUBSET Quads
    BY OpenIs, ReplayIs DEF Opens, Live
  <2>2. PICK u \in Seq(Rec) : u = t
    BY <2>1
  <2>3. LastEpoch \in Nat /\ LastEpoch <= e /\ (u # <<>> => LastEpoch = u[Len(u)].epoch)
    BY <1>2, <2>2, OpenIs
  <2>4. Sorted(u)
    BY <2>1, <2>2, IncreasingIsSorted
  <2>5. \A i \in 1 .. Len(u) : u[i].epoch <= e
    <3> SUFFICES ASSUME NEW i \in 1 .. Len(u) PROVE u[i].epoch <= e
      OBVIOUS
    <3>1. u # <<>>
      <4>1. Len(u) \in Nat /\ (u = <<>> => Len(u) = 0)
        BY LenProperties
      <4> QED BY <4>1
    <3>2. u[i].epoch <= u[Len(u)].epoch /\ u[i].epoch \in Nat
      BY <2>1, <2>2, <3>1, IncreasingIsSorted, RecsAre
    <3> QED BY <2>3, <3>1, <3>2
  <2>6. d = Applied(Base, u)
    BY <1>2, <2>2 DEF Delta
  <2> HIDE DEF t
  <2> QED BY <2>1, <2>4, <2>5, <2>6, AppliedSorted
<1>10. merge'.phase \notin Merging'
  BY <1>1, OpenIs DEF IdleMerge, Merging
<1>11. \A i \in 1 .. Pending' :
         (Commits(Written[mem.written + i]))' /\ Written'[mem'.written + i].epoch = mem'.epoch + i
  BY <1>6
<1>12. Sorted(mem'.delta) /\ \A i \in 1 .. Len(mem'.delta) : mem'.delta[i].epoch <= mem'.epoch
  BY <1>3, <1>9
<1> QED BY <1>5, <1>8, <1>10, <1>11, <1>12 DEF ReadInv, Sorted

\* Types and reads are kept by every step.
LEMMA ReadSteps == TypeInv /\ ReadInv /\ [Next]_vars => TypeInv' /\ ReadInv'
<1>1. ASSUME TypeInv, ReadInv, Next PROVE TypeInv' /\ ReadInv'
  <2>1. env' = env
    BY <1>1 DEF Next
  <2>2. CASE \E dels, adds \in SUBSET Quads : WriteTx(dels, adds)
    BY <1>1, <2>1, <2>2, TypeGroups, ReadWriteTx
  <2>3. CASE \E strict \in BOOLEAN : GroupDone(strict)
    BY <1>1, <2>1, <2>3, TypeGroups, ReadGroupDone
  <2>4. CASE GroupFails
    BY <1>1, <2>1, <2>4, TypeGroups, ReadGroupFails
  <2>5. CASE GroupStuck
    BY <1>1, <2>1, <2>5, TypeGroups, ReadOthers
  <2>6. CASE MergeStart
    BY <1>1, <2>1, <2>6, TypeBuild, ReadMergeStart
  <2>7. CASE BuildBegin \/ BuildDone \/ ShadowPass \/ SwapTail
    BY <1>1, <2>1, <2>7, TypeBuild, ReadOthers
  <2>8. CASE Activate
    BY <1>1, <2>1, <2>8, TypeSwap, ReadActivate
  <2>9. CASE Flip \/ FlipSync \/ FlipFails \/ Rename \/ ActivateFails \/ EndDrain \/ MergeAbort
    BY <1>1, <2>1, <2>9, TypeSwap, ReadOthers
  <2>10. CASE Kill \/ PowerLoss \/ \E g \in Gens : Sweep(g)
    BY <1>1, <2>1, <2>10, TypeCrash, ReadOthers
  <2>11. CASE Open
    BY <1>1, <2>1, <2>11, TypeCrash, ReadOpen
  <2> QED
    BY <1>1, <2>2, <2>3, <2>4, <2>5, <2>6, <2>7, <2>8, <2>9, <2>10, <2>11 DEF Next
<1>2. ASSUME TypeInv, ReadInv, UNCHANGED vars PROVE TypeInv' /\ ReadInv'
  <2>1. TypeInv'
    BY <1>2, TypeKept DEF vars, TypeInv
  <2>2. ReadInv'
    <3>1. merge'.phase \in Merging => merge.f <= merge.mark /\ merge.mark <= mem.epoch
      BY <1>2, MergeIsUp DEF vars, ReadInv, Frozen, Merging
    <3> QED BY <1>2, <3>1, ReadKept DEF vars, Written
  <2> QED BY <2>1, <2>2
<1> QED BY <1>1, <1>2

LEMMA InitReads == Init => ReadInv
BY DEF Init, ReadInv, ClosedMem

\* Every state is well-typed: the log and the delta hold records, the
\* directory states are complete, a merge runs only in an open handle.
THEOREM DurableTypes == Spec => []TypeInv
<1>1. Init => TypeInv /\ ReadInv
  BY InitTypes, InitReads
<1>2. TypeInv /\ ReadInv /\ [Next]_vars => (TypeInv /\ ReadInv)'
  BY ReadSteps
<1> QED BY <1>1, <1>2, PTL DEF Spec

\* The handle reads what was committed at its epoch, for any number of
\* commits, failed groups, merges, rotations, crashes and recoveries, in
\* every environment (GroupDone, GroupFails, Activate, Open).
THEOREM HandleReadsHistory == Spec => []ReadsHistory
<1>1. Init => TypeInv /\ ReadInv
  BY InitTypes, InitReads
<1>2. TypeInv /\ ReadInv /\ [Next]_vars => (TypeInv /\ ReadInv)'
  BY ReadSteps
<1>3. TypeInv /\ ReadInv => ReadsHistory
  BY DEF ReadInv, ReadsHistory
<1> QED BY <1>1, <1>2, <1>3, PTL DEF Spec
=============================================================================
