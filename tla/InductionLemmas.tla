-------------------------- MODULE InductionLemmas --------------------------
(***************************************************************************)
(* Induction over the naturals in a first-order form: about sets instead   *)
(* of predicates.  To prove P(n) for every n, apply SetInduction to        *)
(* {n \in Nat : P(n)}.  With it, facts about totals of integers.           *)
(***************************************************************************)
EXTENDS Totals, FiniteSetsExt, WellFoundedInduction, TLAPS

\* Every nonempty set of naturals has a least member.
LEMMA LeastMember ==
    ASSUME NEW T \in SUBSET Nat, T # {}
    PROVE  \E x \in T : \A y \in T : x <= y
<1> DEFINE R == OpToRel(<, Nat)
<1>1. IsWellFoundedOn(R, Nat)
  BY NatLessThanWellFounded
<1>2. \A x, y \in Nat : y < x => <<y, x>> \in R
  BY DEF OpToRel
<1> HIDE DEF R
<1>3. PICK x \in T : \A y \in T : ~(<<y, x>> \in R)
  BY <1>1, WFMin
<1>4. \A y \in T : x \in Nat /\ y \in Nat /\ ~(y < x)
  BY <1>2, <1>3
<1>5. \A y \in T : x <= y
  BY <1>4
<1> QED BY <1>5

\* A bounded nonempty set of naturals has a greatest member.
LEMMA GreatestMember ==
    ASSUME NEW T \in SUBSET Nat, T # {}, NEW b \in Nat, \A x \in T : x <= b
    PROVE  \E x \in T : \A y \in T : y <= x
<1> DEFINE U == {b - x : x \in T}
<1>1. U \in SUBSET Nat /\ U # {}
  <2>1. \A x \in T : b - x \in Nat /\ b - x \in U
    OBVIOUS
  <2> QED BY <2>1
<1>2. PICK u \in U : \A v \in U : u <= v
  BY <1>1, LeastMember
<1>3. PICK x \in T : u = b - x
  OBVIOUS
<1>4. \A y \in T : b - x <= b - y
  BY <1>2, <1>3
<1>5. \A y \in T : y <= x
  BY <1>4
<1> QED BY <1>5

\* The greatest member of a set is its Max.
LEMMA MaxIs ==
    ASSUME NEW T \in SUBSET Int, NEW m \in T, \A y \in T : y <= m
    PROVE  Max(T) = m
<1>1. \E x \in T : \A y \in T : x >= y
  OBVIOUS
<1>2. Max(T) \in T /\ \A y \in T : Max(T) >= y
  BY <1>1 DEF Max
<1>3. Max(T) \in Int /\ m \in Int /\ Max(T) >= m /\ Max(T) <= m
  BY <1>2
<1> QED BY <1>3

\* A bounded nonempty set of naturals has a Max.
LEMMA MaxOfBounded ==
    ASSUME NEW T \in SUBSET Nat, T # {}, NEW b \in Nat, \A x \in T : x <= b
    PROVE  Max(T) \in T /\ \A y \in T : y <= Max(T)
<1>1. \E x \in T : \A y \in T : y <= x
  BY GreatestMember
<1>2. \E x \in T : \A y \in T : x >= y
  BY <1>1
<1>3. Max(T) \in T /\ \A y \in T : Max(T) >= y
  BY <1>2 DEF Max
<1> QED BY <1>3

\* A set that holds 0 and the successor of each of its naturals holds Nat.
LEMMA SetInduction ==
    ASSUME NEW S, 0 \in S, \A n \in Nat : n \in S => n + 1 \in S
    PROVE  \A n \in Nat : n \in S
<1> SUFFICES ASSUME Nat \ S # {} PROVE FALSE
  OBVIOUS
<1>1. PICK x \in Nat \ S : \A y \in Nat \ S : x <= y
  BY LeastMember
<1>2. x # 0
  BY <1>1
<1>3. x - 1 \in Nat /\ x - 1 \in S
  BY <1>1, <1>2
<1> QED BY <1>3, <1>1

-----------------------------------------------------------------------------
(* Sums.                                                                   *)

\* g holds the partial sums of s.
Partial(g, s) == g[0] = 0 /\ \A n \in 1..Len(s) : g[n] = g[n - 1] + s[n]

\* Two functions that hold the partial sums of one sequence agree.
LEMMA PartialUnique ==
    ASSUME NEW s, Len(s) \in Nat, NEW g, NEW h, Partial(g, s), Partial(h, s)
    PROVE  \A n \in 0..Len(s) : g[n] = h[n]
<1> DEFINE S == {n \in Nat : n <= Len(s) => g[n] = h[n]}
<1>1. 0 \in S
  BY DEF Partial
<1>2. ASSUME NEW n \in Nat, n \in S PROVE n + 1 \in S
  <2> SUFFICES ASSUME n + 1 <= Len(s) PROVE g[n + 1] = h[n + 1]
    OBVIOUS
  <2>1. n + 1 \in 1..Len(s) /\ (n + 1) - 1 = n /\ n <= Len(s)
    OBVIOUS
  <2>2. g[n] = h[n]
    BY <1>2, <2>1
  <2>3. g[n + 1] = g[n] + s[n + 1] /\ h[n + 1] = h[n] + s[n + 1]
    BY <2>1 DEF Partial
  <2> QED BY <2>2, <2>3
<1> HIDE DEF S
<1>3. \A n \in Nat : n \in S
  BY <1>1, <1>2, SetInduction
<1> QED BY <1>3 DEF S

\* The partial sums determine the total.
LEMMA TotalIs ==
    ASSUME NEW s, Len(s) \in Nat, NEW g, Partial(g, s)
    PROVE  Total(s) = g[Len(s)]
<1> DEFINE Rec(f) == f = [n \in 0..Len(s) |-> IF n = 0 THEN 0 ELSE f[n - 1] + s[n]]
           h == [n \in 0..Len(s) |-> g[n]]
           sum == CHOOSE f : Rec(f)
<1>1. Rec(h)
  <2>1. \A n \in 0..Len(s) : h[n] = IF n = 0 THEN 0 ELSE h[n - 1] + s[n]
    BY DEF Partial
  <2> QED BY <2>1
<1>2. Rec(sum)
  <2> HIDE DEF Rec, h
  <2> QED BY <1>1
<1>3. Partial(sum, s)
  <2> HIDE DEF sum
  <2>1. \A n \in 0..Len(s) : sum[n] = IF n = 0 THEN 0 ELSE sum[n - 1] + s[n]
    BY <1>2
  <2> QED BY <2>1 DEF Partial
<1>4. Total(s) = sum[Len(s)]
  BY DEF Total
<1> HIDE DEF sum
<1> QED BY <1>3, <1>4, PartialUnique

\* The first m entries of s have partial sums.
HasSums(s, m) ==
    \E g \in [0..m -> Int] : g[0] = 0 /\ \A n \in 1..m : g[n] = g[n - 1] + s[n]

\* Every sequence of integers has partial sums, all of them integers.
LEMMA PartialExists ==
    ASSUME NEW s \in Seq(Int)
    PROVE  \E g \in [0..Len(s) -> Int] : Partial(g, s)
<1> DEFINE S == {m \in Nat : m <= Len(s) => HasSums(s, m)}
<1>1. 0 \in S
  <2> DEFINE g == [n \in 0..0 |-> 0]
  <2>1. g \in [0..0 -> Int] /\ g[0] = 0 /\ \A n \in 1..0 : g[n] = g[n - 1] + s[n]
    OBVIOUS
  <2>2. HasSums(s, 0)
    BY <2>1 DEF HasSums
  <2> QED BY <2>2
<1>2. ASSUME NEW m \in Nat, m \in S PROVE m + 1 \in S
  <2> SUFFICES ASSUME m + 1 <= Len(s) PROVE HasSums(s, m + 1)
    OBVIOUS
  <2>0. Len(s) \in Nat /\ m <= Len(s) /\ m + 1 \in 1..Len(s)
    OBVIOUS
  <2>1. PICK g \in [0..m -> Int] : g[0] = 0 /\ \A n \in 1..m : g[n] = g[n - 1] + s[n]
    <3>1. HasSums(s, m)
      BY <1>2, <2>0
    <3> QED BY <3>1 DEF HasSums
  <2> DEFINE h == [n \in 0..(m + 1) |-> IF n <= m THEN g[n] ELSE g[m] + s[m + 1]]
  <2>2. s[m + 1] \in Int /\ g[m] \in Int
    BY <2>0
  <2>3. h \in [0..(m + 1) -> Int]
    BY <2>2
  <2>4. h[0] = 0
    BY <2>1
  <2>5. ASSUME NEW n \in 1..(m + 1) PROVE h[n] = h[n - 1] + s[n]
    <3>1. CASE n <= m
      <4>1. h[n] = g[n] /\ h[n - 1] = g[n - 1] /\ n \in 1..m
        BY <3>1
      <4> QED BY <4>1, <2>1
    <3>2. CASE n = m + 1
      BY <3>2
    <3> QED BY <3>1, <3>2
  <2> HIDE DEF h
  <2> QED BY <2>3, <2>4, <2>5 DEF HasSums
<1>3. \A m \in Nat : m \in S
  <2> HIDE DEF S
  <2> QED BY <1>1, <1>2, SetInduction
<1>4. Len(s) \in Nat
  OBVIOUS
<1>5. HasSums(s, Len(s))
  BY <1>3, <1>4
<1> QED BY <1>5 DEF HasSums, Partial

\* A total of integers is an integer.
LEMMA TotalType ==
    ASSUME NEW s \in Seq(Int)
    PROVE  Total(s) \in Int
<1>1. PICK g \in [0..Len(s) -> Int] : Partial(g, s)
  BY PartialExists
<1>2. Len(s) \in Nat
  OBVIOUS
<1> QED BY <1>1, <1>2, TotalIs

\* The empty sequence adds up to nothing.
LEMMA TotalEmpty == Total(<<>>) = 0
<1> DEFINE g == [n \in {0} |-> 0]
<1>1. Partial(g, <<>>) /\ Len(<<>>) = 0
  BY DEF Partial
<1> QED BY <1>1, TotalIs

\* One more entry adds its value.
LEMMA TotalAppend ==
    ASSUME NEW s \in Seq(Int), NEW x \in Int
    PROVE  Total(Append(s, x)) = Total(s) + x
<1> DEFINE t == Append(s, x)
<1>1. PICK g \in [0..Len(t) -> Int] : Partial(g, t)
  <2>1. t \in Seq(Int)
    OBVIOUS
  <2> QED BY <2>1, PartialExists
<1>2. Len(s) \in Nat /\ Len(t) = Len(s) + 1 /\ t[Len(s) + 1] = x
      /\ \A n \in 1..Len(s) : t[n] = s[n]
  OBVIOUS
<1> HIDE DEF t
<1>3. Partial(g, s)
  BY <1>1, <1>2 DEF Partial
<1>4. Total(s) = g[Len(s)] /\ Total(t) = g[Len(t)]
  BY <1>1, <1>2, <1>3, TotalIs
<1>5. Len(s) + 1 \in 1..Len(t) /\ (Len(s) + 1) - 1 = Len(s)
  BY <1>2
<1>6. g[Len(t)] = g[Len(s)] + x
  BY <1>1, <1>2, <1>5 DEF Partial
<1> QED BY <1>4, <1>6 DEF t

\* Totals add entry by entry.
LEMMA TotalSum ==
    ASSUME NEW s \in Seq(Int), NEW t \in Seq(Int), NEW u \in Seq(Int),
           Len(t) = Len(s), Len(u) = Len(s), \A n \in 1..Len(s) : u[n] = s[n] + t[n]
    PROVE  Total(u) = Total(s) + Total(t)
<1>1. PICK g \in [0..Len(s) -> Int] : Partial(g, s)
  BY PartialExists
<1>2. PICK h \in [0..Len(t) -> Int] : Partial(h, t)
  BY PartialExists
<1> DEFINE k == [n \in 0..Len(s) |-> g[n] + h[n]]
<1>3. Len(s) \in Nat
  OBVIOUS
<1>4. Partial(k, u)
  <2>1. k[0] = 0
    BY <1>1, <1>2, <1>3 DEF Partial
  <2>2. ASSUME NEW n \in 1..Len(u) PROVE k[n] = k[n - 1] + u[n]
    <3>1. n \in 0..Len(s) /\ n - 1 \in 0..Len(s) /\ n \in 1..Len(s)
      BY <1>3
    <3>2. g[n] = g[n - 1] + s[n] /\ h[n] = h[n - 1] + t[n] /\ u[n] = s[n] + t[n]
      BY <1>1, <1>2, <3>1 DEF Partial
    <3>3. s[n] \in Int /\ t[n] \in Int
      BY <3>1
    <3>4. g[n - 1] \in Int /\ h[n - 1] \in Int
      BY <3>1, <1>3
    <3> QED BY <3>1, <3>2, <3>3, <3>4, SMTT(30)
  <2> HIDE DEF k
  <2> QED BY <2>1, <2>2 DEF Partial
<1>5. Total(s) = g[Len(s)] /\ Total(t) = h[Len(s)] /\ Total(u) = k[Len(s)]
  BY <1>1, <1>2, <1>3, <1>4, TotalIs
<1> QED BY <1>3, <1>5

\* A sequence that starts with s and goes on with t adds up to both.
LEMMA TotalConcat ==
    ASSUME NEW s \in Seq(Int), NEW t \in Seq(Int)
    PROVE  Total(s \o t) = Total(s) + Total(t)
<1> DEFINE u == s \o t
           k == Len(s)
           j == Len(t)
<1>1. k \in Nat /\ j \in Nat /\ Len(u) = k + j
      /\ (\A n \in 1..k : u[n] = s[n]) /\ (\A n \in 1..j : u[k + n] = t[n])
  OBVIOUS
<1>2. PICK g \in [0..k -> Int] : Partial(g, s)
  BY PartialExists
<1>3. PICK h \in [0..j -> Int] : Partial(h, t)
  BY PartialExists
<1> DEFINE p == [n \in 0..(k + j) |-> IF n <= k THEN g[n] ELSE g[k] + h[n - k]]
<1>4. Total(s) = g[k] /\ Total(t) = h[j]
  BY <1>1, <1>2, <1>3, TotalIs
<1>5. g[0] = 0 /\ h[0] = 0
      /\ (\A n \in 1..k : g[n] = g[n - 1] + s[n]) /\ (\A n \in 1..j : h[n] = h[n - 1] + t[n])
  BY <1>2, <1>3 DEF Partial
<1>6. g[k] \in Int /\ h[j] \in Int
  BY <1>1
<1> HIDE DEF u, k, j
<1>7. p[0] = 0 /\ p[k + j] = g[k] + h[j]
  <2>1. p[0] = 0
    BY <1>1, <1>5
  <2>2. CASE j = 0
    BY <2>2, <1>1, <1>5, <1>6
  <2>3. CASE j # 0
    <3>1. k + j \in 0..(k + j) /\ ~(k + j <= k) /\ (k + j) - k = j
      BY <2>3, <1>1
    <3> QED BY <2>1, <3>1
  <2> QED BY <2>1, <2>2, <2>3
<1>8. ASSUME NEW n \in 1..(k + j) PROVE p[n] = p[n - 1] + u[n]
  <2>1. CASE n <= k
    <3>1. p[n] = g[n] /\ p[n - 1] = g[n - 1] /\ n \in 1..k
      BY <2>1, <1>1
    <3> QED BY <3>1, <1>1, <1>5
  <2>2. CASE n > k
    <3> DEFINE m == n - k
    <3>1. m \in 1..j /\ n = k + m /\ m - 1 \in 0..j
      BY <2>2, <1>1
    <3>2. p[n] = g[k] + h[m]
      BY <2>2, <3>1, <1>1
    <3>3. p[n - 1] = g[k] + h[m - 1]
      <4>1. CASE m = 1
        <5>1. n - 1 = k /\ n - 1 \in 0..(k + j) /\ m - 1 = 0
          BY <4>1, <3>1, <1>1
        <5> QED BY <5>1, <1>5, <1>6
      <4>2. CASE m # 1
        <5>1. n - 1 \in 0..(k + j) /\ ~(n - 1 <= k) /\ (n - 1) - k = m - 1
          BY <4>2, <3>1, <1>1
        <5> QED BY <5>1
      <4> QED BY <4>1, <4>2
    <3>4. u[n] = t[m] /\ h[m] = h[m - 1] + t[m]
      BY <3>1, <1>1, <1>5
    <3>5. h[m - 1] \in Int /\ t[m] \in Int
      BY <3>1 DEF j
    <3> DEFINE a == g[k]
               b == h[m - 1]
               x == t[m]
    <3>6. a \in Int /\ b \in Int /\ x \in Int
      BY <3>5, <1>6
    <3>7. p[n] = a + (b + x) /\ p[n - 1] = a + b /\ u[n] = x
      <4> HIDE DEF p, m
      <4> QED BY <3>2, <3>3, <3>4
    <3> HIDE DEF p, a, b, x
    <3>8. a + (b + x) = (a + b) + x
      BY <3>6
    <3> QED BY <3>7, <3>8
  <2> QED BY <2>1, <2>2, <1>1
<1>9. Partial(p, u)
  <2> HIDE DEF p
  <2> QED BY <1>1, <1>7, <1>8 DEF Partial
<1>10. Total(u) = p[Len(u)]
  <2> HIDE DEF p
  <2>1. Len(u) \in Nat
    BY <1>1
  <2> QED BY <2>1, <1>9, TotalIs
<1> QED BY <1>1, <1>4, <1>7, <1>10 DEF u

-----------------------------------------------------------------------------
(* Sequences of anything.                                                  *)

IsSeq(s) == \E S : s \in Seq(S)

\* Tuples, prefixes and joined lists are sequences again.
LEMMA SeqFacts ==
    ASSUME NEW s, IsSeq(s)
    PROVE  /\ Len(s) \in Nat /\ DOMAIN s = 1..Len(s)
           /\ s # <<>> => /\ Len(s) >= 1 /\ Head(s) = s[1] /\ IsSeq(Tail(s))
                          /\ Len(Tail(s)) = Len(s) - 1
                          /\ \A n \in 1..(Len(s) - 1) : Tail(s)[n] = s[n + 1]
           /\ Len(s) = 0 => s = <<>>
<1>1. PICK S : s \in Seq(S)
  BY DEF IsSeq
<1>2. Len(s) \in Nat /\ DOMAIN s = 1..Len(s) /\ (Len(s) = 0 => s = <<>>)
  BY <1>1
<1>3. ASSUME s # <<>>
      PROVE  /\ Len(s) >= 1 /\ Head(s) = s[1] /\ Tail(s) \in Seq(S)
             /\ Len(Tail(s)) = Len(s) - 1
             /\ \A n \in 1..(Len(s) - 1) : Tail(s)[n] = s[n + 1]
  BY <1>1, <1>3
<1> QED BY <1>2, <1>3 DEF IsSeq

\* The entries of two lists, one after the other.
LEMMA ConcatFacts ==
    ASSUME NEW s, NEW t, IsSeq(s), IsSeq(t)
    PROVE  /\ IsSeq(s \o t) /\ Len(s \o t) = Len(s) + Len(t)
           /\ \A n \in 1..Len(s) : (s \o t)[n] = s[n]
           /\ \A n \in (Len(s) + 1)..(Len(s) + Len(t)) : (s \o t)[n] = t[n - Len(s)]
<1>1. PICK S : s \in Seq(S)
  BY DEF IsSeq
<1>2. PICK T : t \in Seq(T)
  BY DEF IsSeq
<1> DEFINE U == S \cup T
<1>3. s \in Seq(U) /\ t \in Seq(U)
  BY <1>1, <1>2
<1> HIDE DEF U
<1>4. /\ s \o t \in Seq(U) /\ Len(s \o t) = Len(s) + Len(t)
      /\ \A n \in 1..Len(s) : (s \o t)[n] = s[n]
      /\ \A n \in (Len(s) + 1)..(Len(s) + Len(t)) : (s \o t)[n] = t[n - Len(s)]
  BY <1>3
<1> QED BY <1>4 DEF IsSeq

\* Short lists.
LEMMA TupleFacts ==
    /\ IsSeq(<<>>) /\ Len(<<>>) = 0
    /\ \A a : IsSeq(<<a>>) /\ Len(<<a>>) = 1 /\ <<a>>[1] = a
    /\ \A a, b : IsSeq(<<a, b>>) /\ Len(<<a, b>>) = 2 /\ <<a, b>>[1] = a /\ <<a, b>>[2] = b
<1>1. <<>> \in Seq({})
  OBVIOUS
<1>2. ASSUME NEW a PROVE <<a>> \in Seq({a}) /\ Len(<<a>>) = 1 /\ <<a>>[1] = a
  OBVIOUS
<1>3. ASSUME NEW a, NEW b
      PROVE  <<a, b>> \in Seq({a, b}) /\ Len(<<a, b>>) = 2 /\ <<a, b>>[1] = a /\ <<a, b>>[2] = b
  OBVIOUS
<1>4. IsSeq(<<>>) /\ Len(<<>>) = 0
  BY <1>1 DEF IsSeq
<1>5. ASSUME NEW a PROVE IsSeq(<<a>>) /\ Len(<<a>>) = 1 /\ <<a>>[1] = a
  BY <1>2 DEF IsSeq
<1>6. ASSUME NEW a, NEW b
      PROVE  IsSeq(<<a, b>>) /\ Len(<<a, b>>) = 2 /\ <<a, b>>[1] = a /\ <<a, b>>[2] = b
  BY <1>3 DEF IsSeq
<1> QED BY <1>4, <1>5, <1>6

\* One more entry.
LEMMA AppendFacts ==
    ASSUME NEW s, NEW x, IsSeq(s)
    PROVE  /\ IsSeq(Append(s, x)) /\ Len(Append(s, x)) = Len(s) + 1
           /\ \A n \in 1..Len(s) : Append(s, x)[n] = s[n]
           /\ Append(s, x)[Len(s) + 1] = x
<1>1. PICK S : s \in Seq(S)
  BY DEF IsSeq
<1> DEFINE T == S \cup {x}
<1>2. s \in Seq(T) /\ x \in T
  BY <1>1
<1> HIDE DEF T
<1>3. /\ Append(s, x) \in Seq(T) /\ Len(Append(s, x)) = Len(s) + 1
      /\ \A n \in 1..Len(s) : Append(s, x)[n] = s[n]
      /\ Append(s, x)[Len(s) + 1] = x
  BY <1>2
<1> QED BY <1>3 DEF IsSeq

\* Sequences with the same entries are the same.
LEMMA SameSeq ==
    ASSUME NEW s, NEW t, IsSeq(s), IsSeq(t), Len(s) = Len(t), \A n \in 1..Len(s) : s[n] = t[n]
    PROVE  s = t
<1>1. PICK S : s \in Seq(S)
  BY DEF IsSeq
<1>2. PICK T : t \in Seq(T)
  BY DEF IsSeq
<1>3. s = [n \in 1..Len(s) |-> s[n]] /\ t = [n \in 1..Len(t) |-> t[n]]
  BY <1>1, <1>2
<1>4. [n \in 1..Len(s) |-> s[n]] = [n \in 1..Len(s) |-> t[n]]
  OBVIOUS
<1> QED BY <1>3, <1>4

\* A function on an interval from 1 is a sequence.
LEMMA FunctionIsSeq ==
    ASSUME NEW f, NEW N \in Nat, f = [n \in 1..N |-> f[n]]
    PROVE  IsSeq(f) /\ Len(f) = N /\ DOMAIN f = 1..N
<1> DEFINE S == {f[n] : n \in 1..N}
<1>1. \A n \in 1..N : f[n] \in S
  OBVIOUS
<1> HIDE DEF S
<1>2. f \in [1..N -> S]
  BY <1>1
<1>3. f \in Seq(S) /\ Len(f) = N
  BY <1>2
<1> QED BY <1>3 DEF IsSeq

-----------------------------------------------------------------------------
(* Totals of lists that differ in one place.                               *)

\* One more entry, for lists given by their entries.
LEMMA TotalMore ==
    ASSUME NEW a \in Seq(Int), NEW b, b = [n \in 1..(Len(a) + 1) |-> b[n]],
           \A n \in 1..Len(a) : b[n] = a[n], b[Len(a) + 1] \in Int
    PROVE  b \in Seq(Int) /\ Len(b) = Len(a) + 1 /\ Total(b) = Total(a) + b[Len(a) + 1]
<1> DEFINE N == Len(a)
           x == b[N + 1]
           t == Append(a, x)
<1>1. N \in Nat /\ IsSeq(a)
  BY DEF IsSeq
<1>2. N + 1 \in Nat
  BY <1>1
<1>3. IsSeq(b) /\ Len(b) = N + 1
  BY <1>2, FunctionIsSeq
<1>4. /\ IsSeq(t) /\ Len(t) = N + 1 /\ t[N + 1] = x /\ \A n \in 1..N : t[n] = a[n]
  BY <1>1, AppendFacts
<1>5. t \in Seq(Int) /\ Total(t) = Total(a) + x
  BY TotalAppend
<1> HIDE DEF t
<1>6. \A n \in 1..(N + 1) : b[n] = t[n]
  <2>1. \A n \in 1..(N + 1) : n = N + 1 \/ n \in 1..N
    BY <1>1
  <2> QED BY <2>1, <1>4
<1>7. b = t
  BY <1>3, <1>4, <1>6, SameSeq
<1> QED BY <1>3, <1>5, <1>7

\* A list with one entry that is not nothing.
LEMMA TotalSingle ==
    ASSUME NEW d \in Seq(Int), NEW k \in 1..Len(d), \A n \in 1..Len(d) : n # k => d[n] = 0
    PROVE  Total(d) = d[k]
<1> DEFINE g == [n \in 0..Len(d) |-> IF n < k THEN 0 ELSE d[k]]
<1>0. Len(d) \in Nat /\ k \in Nat /\ k >= 1 /\ d[k] \in Int
  OBVIOUS
<1>1. g[0] = 0
  BY <1>0
<1>2. ASSUME NEW n \in 1..Len(d) PROVE g[n] = g[n - 1] + d[n]
  <2>0. n \in Nat /\ n \in 0..Len(d) /\ n - 1 \in 0..Len(d)
    BY <1>0
  <2>1. CASE n < k
    <3>1. g[n] = 0 /\ g[n - 1] = 0 /\ d[n] = 0
      BY <1>0, <2>0, <2>1
    <3> QED BY <3>1
  <2>2. CASE n = k
    <3>1. g[n] = d[k] /\ g[n - 1] = 0
      BY <1>0, <2>0, <2>2
    <3> QED BY <1>0, <2>2, <3>1
  <2>3. CASE n > k
    <3>1. g[n] = d[k] /\ g[n - 1] = d[k] /\ d[n] = 0
      BY <1>0, <2>0, <2>3
    <3> QED BY <1>0, <3>1
  <2> QED BY <1>0, <2>0, <2>1, <2>2, <2>3
<1>3. g[Len(d)] = d[k]
  BY <1>0
<1> HIDE DEF g
<1>4. Partial(g, d)
  BY <1>1, <1>2 DEF Partial
<1> QED BY <1>0, <1>3, <1>4, TotalIs

\* One entry is different.
LEMMA TotalChange ==
    ASSUME NEW a \in Seq(Int), NEW b, b = [n \in 1..Len(a) |-> b[n]], NEW k \in 1..Len(a),
           \A n \in 1..Len(a) : n # k => b[n] = a[n], b[k] \in Int
    PROVE  b \in Seq(Int) /\ Len(b) = Len(a) /\ Total(b) = Total(a) + (b[k] - a[k])
<1> DEFINE N == Len(a)
           d == [n \in 1..N |-> b[n] - a[n]]
<1>1. N \in Nat /\ \A n \in 1..N : a[n] \in Int
  OBVIOUS
<1>2. \A n \in 1..N : b[n] \in Int
  BY <1>1
<1>3. b \in Seq(Int) /\ Len(b) = N
  <2>1. b \in [1..N -> Int]
    BY <1>2
  <2> QED BY <1>1, <2>1
<1>4. d \in Seq(Int) /\ Len(d) = N
  <2>1. d \in [1..N -> Int]
    BY <1>1, <1>2
  <2> QED BY <1>1, <2>1
<1>5. \A n \in 1..N : d[n] = b[n] - a[n]
  OBVIOUS
<1> HIDE DEF d
<1>6. Total(d) = b[k] - a[k]
  <2>1. \A n \in 1..Len(d) : n # k => d[n] = 0
    <3>1. \A n \in 1..N : n # k => d[n] = a[n] - a[n] /\ a[n] \in Int
      BY <1>1, <1>5
    <3> QED BY <1>4, <3>1
  <2> QED BY <1>4, <1>5, <2>1, TotalSingle
<1>7. \A n \in 1..N : b[n] = a[n] + d[n]
  BY <1>1, <1>2, <1>5
<1>8. Total(b) = Total(a) + Total(d)
  BY <1>3, <1>4, <1>7, TotalSum
<1> QED BY <1>3, <1>6, <1>8

\* Entries that are nothing add nothing.
LEMMA TotalProlong ==
    ASSUME NEW a \in Seq(Int), NEW N \in Nat, Len(a) <= N, NEW b, b = [n \in 1..N |-> b[n]],
           \A n \in 1..Len(a) : b[n] = a[n], \A n \in (Len(a) + 1)..N : b[n] = 0
    PROVE  b \in Seq(Int) /\ Len(b) = N /\ Total(b) = Total(a)
<1> DEFINE M == Len(a)
<1>0. M \in Nat
  OBVIOUS
<1>1. PICK g \in [0..M -> Int] : Partial(g, a)
  BY PartialExists
<1>2. b \in Seq(Int) /\ Len(b) = N
  <2>1. \A n \in 1..N : n \in 1..M \/ n \in (M + 1)..N
    BY <1>0
  <2>2. \A n \in 1..N : b[n] \in Int
    BY <2>1
  <2>3. b \in [1..N -> Int]
    BY <2>2
  <2> QED BY <2>3
<1> DEFINE h == [n \in 0..N |-> IF n <= M THEN g[n] ELSE g[M]]
<1>3. h[0] = 0 /\ h[N] = g[M]
  BY <1>0, <1>1 DEF Partial
<1>4. ASSUME NEW n \in 1..N PROVE h[n] = h[n - 1] + b[n]
  <2>0. n \in 0..N /\ n - 1 \in 0..N
    OBVIOUS
  <2>1. CASE n <= M
    <3>1. n \in 1..M /\ n - 1 <= M
      BY <1>0, <2>0, <2>1
    <3>2. h[n] = g[n] /\ h[n - 1] = g[n - 1]
      BY <2>0, <2>1, <3>1
    <3>3. b[n] = a[n]
      BY <3>1
    <3>4. g[n] = g[n - 1] + a[n]
      BY <3>1, <1>1 DEF Partial
    <3> QED BY <3>2, <3>3, <3>4
  <2>2. CASE n > M
    <3>1. n \in (M + 1)..N /\ h[n] = g[M] /\ h[n - 1] = g[M]
      BY <1>0, <2>0, <2>2
    <3>2. g[M] \in Int
      BY <1>0, <1>1
    <3>3. b[n] = 0
      BY <3>1
    <3> QED BY <3>1, <3>2, <3>3
  <2> QED BY <1>0, <2>0, <2>1, <2>2
<1> HIDE DEF h
<1>5. Partial(h, b)
  BY <1>2, <1>3, <1>4 DEF Partial
<1>6. Total(b) = h[N] /\ Total(a) = g[M]
  BY <1>0, <1>1, <1>2, <1>5, TotalIs
<1> QED BY <1>2, <1>3, <1>6

\* A list of nothing.
LEMMA TotalZero ==
    ASSUME NEW N \in Nat, NEW b, b = [n \in 1..N |-> b[n]], \A n \in 1..N : b[n] = 0
    PROVE  b \in Seq(Int) /\ Len(b) = N /\ Total(b) = 0
<1>1. <<>> \in Seq(Int) /\ Len(<<>>) = 0
  OBVIOUS
<1>2. \A n \in 1..Len(<<>>) : b[n] = <<>>[n]
  BY <1>1
<1>3. Len(<<>>) <= N /\ \A n \in (Len(<<>>) + 1)..N : b[n] = 0
  BY <1>1
<1> QED BY <1>1, <1>2, <1>3, TotalProlong, TotalEmpty, ZenonT(30)

\* One list after another.
IntList(u, M) == u = [n \in 1..M |-> u[n]] /\ \A n \in 1..M : u[n] \in Int
Joins(w, u, v, M, N) ==
    /\ w = [n \in 1..(M + N) |-> w[n]] /\ \A n \in 1..M : w[n] = u[n]
    /\ \A n \in 1..(M + N) : n - M \in 1..N => w[n] = v[n - M]
LEMMA TotalJoin ==
    ASSUME NEW M \in Nat, NEW N \in Nat, NEW u, NEW v, NEW w,
           IntList(u, M), IntList(v, N), Joins(w, u, v, M, N)
    PROVE  Total(w) = Total(u) + Total(v)
<1> USE DEF IntList, Joins
<1>1. u \in Seq(Int) /\ Len(u) = M
  <2>1. u \in [1..M -> Int]
    OBVIOUS
  <2> QED BY <2>1
<1>2. v \in Seq(Int) /\ Len(v) = N
  <2>1. v \in [1..N -> Int]
    OBVIOUS
  <2> QED BY <2>1
<1>3. IsSeq(u) /\ IsSeq(v) /\ IsSeq(w) /\ Len(w) = M + N
  <2>1. M + N \in Nat
    OBVIOUS
  <2> QED BY <1>1, <1>2, <2>1, FunctionIsSeq DEF IsSeq
<1>4. /\ IsSeq(u \o v) /\ Len(u \o v) = M + N
      /\ \A n \in 1..M : (u \o v)[n] = u[n]
      /\ \A n \in (M + 1)..(M + N) : (u \o v)[n] = v[n - M]
  BY <1>1, <1>2, <1>3, ConcatFacts, ZenonT(30)
<1>5. ASSUME NEW n \in 1..(M + N) PROVE w[n] = (u \o v)[n]
  <2>1. n \in 1..M \/ (n \in (M + 1)..(M + N) /\ n - M \in 1..N)
    OBVIOUS
  <2> QED BY <2>1, <1>4
<1>6. w = u \o v
  BY <1>3, <1>4, <1>5, SameSeq
<1> QED BY <1>1, <1>2, <1>6, TotalConcat
=============================================================================
