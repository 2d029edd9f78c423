---------------------------- MODULE SequenceLemmas ----------------------------
(***************************************************************************)
(* Lemmas about recursive functions and sequences that the proofs about    *)
(* other modules cite.  Induction is over a set of numbers.                *)
(***************************************************************************)
EXTENDS Integers, SequencesExt, SequenceTheorems, FiniteSetTheorems,
        WellFoundedInduction, TLAPS

LEMMA SetInduction ==
  ASSUME NEW S, 0 \in S, \A n \in Nat : n \in S => n + 1 \in S
  PROVE  \A n \in Nat : n \in S
<1> DEFINE T == Nat \ S
<1> SUFFICES ASSUME T # {} PROVE FALSE OBVIOUS
<1>1. T \subseteq Nat OBVIOUS
<1>2. \E n \in T : \A k \in T : ~(<<k, n>> \in OpToRel(<, Nat))
  <2> HIDE DEF T
  <2> QED BY <1>1, NatLessThanWellFounded, WFMin
<1>3. PICK n \in T : \A k \in T : ~(<<k, n>> \in OpToRel(<, Nat)) BY <1>2
<1>4. n \in Nat /\ n # 0 /\ n - 1 \in Nat /\ n - 1 < n OBVIOUS
<1>5. <<n - 1, n>> \in OpToRel(<, Nat) BY <1>4 DEF OpToRel
<1>6. n - 1 \notin T BY <1>3, <1>5
<1>7. n - 1 + 1 \in S BY <1>4, <1>6
<1> QED BY <1>4, <1>7

\* A function defined by what each step makes of the value before exists.
Steps(f, n, begin, step) ==
  f[0] = begin /\ \A i \in 1 .. n : f[i] = step[i][f[i - 1]]

LEMMA StepsExist ==
  ASSUME NEW T, NEW begin \in T, NEW n \in Nat, NEW step \in [1 .. n -> [T -> T]]
  PROVE  \E f \in [0 .. n -> T] : Steps(f, n, begin, step)
<1> DEFINE Has(m) == \E f \in [0 .. m -> T] : Steps(f, m, begin, step)
           S == {m \in Nat : m <= n => Has(m)}
<1>1. Has(0)
  <2> DEFINE f == [i \in 0 .. 0 |-> begin]
  <2>1. f \in [0 .. 0 -> T] /\ Steps(f, 0, begin, step) BY DEF Steps
  <2> QED BY <2>1
<1>2. ASSUME NEW m \in Nat, m + 1 <= n, Has(m) PROVE Has(m + 1)
  <2>1. PICK f \in [0 .. m -> T] : Steps(f, m, begin, step) BY <1>2
  <2>2. f[m] \in T /\ step[m + 1][f[m]] \in T
    <3>1. m \in 0 .. m /\ m + 1 \in 1 .. n BY <1>2
    <3>2. f[m] \in T /\ step[m + 1] \in [T -> T] BY <3>1
    <3> QED BY <3>2
  <2> DEFINE h == [i \in 0 .. m + 1 |-> IF i = m + 1 THEN step[m + 1][f[m]] ELSE f[i]]
  <2>3. h \in [0 .. m + 1 -> T] BY <2>2
  <2>4. h[0] = begin BY <2>1 DEF Steps
  <2>5. ASSUME NEW i \in 1 .. m + 1 PROVE h[i] = step[i][h[i - 1]]
    <3>1. CASE i = m + 1
      <4>1. h[i] = step[m + 1][f[m]] /\ h[i - 1] = f[m] BY <3>1
      <4> QED BY <3>1, <4>1
    <3>2. CASE i # m + 1
      <4>1. i \in 1 .. m /\ h[i] = f[i] /\ h[i - 1] = f[i - 1] BY <3>2
      <4> QED BY <2>1, <4>1 DEF Steps
    <3> QED BY <3>1, <3>2
  <2> HIDE DEF h
  <2> QED BY <2>3, <2>4, <2>5 DEF Steps
<1>3. n \in S
  <2> HIDE DEF Has
  <2>1. 0 \in S /\ \A m \in Nat : m \in S => m + 1 \in S BY <1>1, <1>2
  <2> HIDE DEF S
  <2> QED BY <2>1, SetInduction
<1> QED BY <1>3

\* A number is made digit by digit; with the factor 1 it is a sum.
Digits(f, n, factor, digit) ==
  f[0] = 0 /\ \A i \in 1 .. n : f[i] = factor * f[i - 1] + digit[i]

LEMMA DigitsExist ==
  ASSUME NEW factor \in Int, NEW n \in Nat, NEW digit \in [1 .. n -> Int]
  PROVE  \E f \in [0 .. n -> Int] : Digits(f, n, factor, digit)
<1> DEFINE T == Int
           zero == 0
           step == [i \in 1 .. n |-> [x \in Int |-> factor * x + digit[i]]]
<1>1. step \in [1 .. n -> [T -> T]] /\ zero \in T OBVIOUS
<1>2. PICK f \in [0 .. n -> T] : Steps(f, n, zero, step)
  <2> HIDE DEF step, T, zero
  <2> QED BY <1>1, StepsExist
<1>3. \A i \in 1 .. n : step[i][f[i - 1]] = factor * f[i - 1] + digit[i]
  <2> TAKE i \in 1 .. n
  <2>1. f[i - 1] \in Int OBVIOUS
  <2> QED BY <2>1
<1> QED BY <1>2, <1>3 DEF Digits, Steps

\* Division by a positive number rounds down.
LEMMA DivFacts ==
  ASSUME NEW a \in Int, NEW b \in Nat, b > 0
  PROVE  /\ a \div b \in Int
         /\ b * (a \div b) <= a /\ a < b * (a \div b) + b
OBVIOUS

LEMMA DivAtMost ==
  ASSUME NEW a \in Int, NEW b \in Nat, b > 0, NEW q \in Int, a <= b * q
  PROVE  a \div b <= q
<1> DEFINE d == a \div b
<1>1. d \in Int /\ b * d <= a BY DivFacts
<1> HIDE DEF d
<1>2. b * d <= b * q BY <1>1
<1> QED BY <1>1, <1>2 DEF d

LEMMA DivAtLeast ==
  ASSUME NEW a \in Int, NEW b \in Nat, b > 0, NEW q \in Int, b * q <= a
  PROVE  q <= a \div b
<1> DEFINE d == a \div b
<1>1. d \in Int /\ a < b * d + b BY DivFacts
<1> HIDE DEF d
<1>2. b * q < b * (d + 1) BY <1>1
<1>3. q < d + 1 BY <1>1, <1>2
<1> QED BY <1>1, <1>3 DEF d

\* Some place among those of interest holds the least number.
LEMMA LeastPlace ==
  ASSUME NEW n \in Nat, NEW P \in SUBSET (1 .. n), P # {}, NEW f, \A k \in P : f[k] \in Int
  PROVE  \E k \in P : \A l \in P : f[k] <= f[l]
<1> DEFINE Least(m, k) == k \in P /\ k <= m /\ \A l \in P : l <= m => f[k] <= f[l]
           I == {m \in Nat : (\A l \in P : ~(l <= m)) \/ \E k \in P : Least(m, k)}
<1>1. 0 \in I BY DEF I
<1>2. ASSUME NEW m \in Nat, m \in I PROVE m + 1 \in I
  <2>1. \A l \in P : l \in Nat /\ (l <= m + 1 <=> l <= m \/ l = m + 1) BY <1>2
  <2>2. CASE m + 1 \notin P BY <1>2, <2>1, <2>2
  <2>3. CASE m + 1 \in P /\ \A l \in P : ~(l <= m)
    <3>1. Least(m + 1, m + 1) BY <2>1, <2>3
    <3> QED BY <2>3, <3>1
  <2>4. ASSUME m + 1 \in P, NEW k \in P, Least(m, k) PROVE m + 1 \in I
    <3>1. CASE f[k] <= f[m + 1]
      <4>1. Least(m + 1, k) BY <2>1, <2>4, <3>1
      <4> QED BY <4>1
    <3>2. CASE f[m + 1] <= f[k]
      <4>1. Least(m + 1, m + 1) BY <2>1, <2>4, <3>2
      <4> QED BY <2>4, <4>1
    <3> QED BY <2>4, <3>1, <3>2
  <2> QED BY <1>2, <2>2, <2>3, <2>4
<1> HIDE DEF I
<1>3. n \in I BY <1>1, <1>2, SetInduction
<1>4. (\A l \in P : ~(l <= n)) \/ \E k \in P : Least(n, k) BY <1>3 DEF I
<1>5. \A l \in P : l <= n OBVIOUS
<1> QED BY <1>4, <1>5
-----------------------------------------------------------------------------
(* Sequences without repetition, and what the operators on them do to      *)
(* their elements.                                                         *)

LEMMA SetOfSeq ==
  ASSUME NEW S, NEW s \in Seq(S)
  PROVE  /\ Len(s) \in Nat /\ DOMAIN s = 1 .. Len(s)
         /\ ToSet(s) \subseteq S
         /\ \A x : x \in ToSet(s) <=> \E i \in 1 .. Len(s) : s[i] = x
         /\ IsInjective(s) <=> \A i, j \in 1 .. Len(s) : s[i] = s[j] => i = j
         /\ s = <<>> <=> Len(s) = 0
<1>1. Len(s) \in Nat /\ DOMAIN s = 1 .. Len(s) BY LenProperties
<1>2. s = <<>> <=> Len(s) = 0 BY EmptySeq, <1>1
<1> QED BY <1>1, <1>2, ElementOfSeq DEF ToSet, IsInjective

LEMMA AppendFacts ==
  ASSUME NEW S, NEW s \in Seq(S), NEW e \in S
  PROVE  /\ Append(s, e) \in Seq(S) /\ Len(Append(s, e)) = Len(s) + 1
         /\ \A j \in 1 .. Len(s) : Append(s, e)[j] = s[j]
         /\ Append(s, e)[Len(s) + 1] = e
         /\ ToSet(Append(s, e)) = ToSet(s) \cup {e}
         /\ IsInjective(s) /\ e \notin ToSet(s) => IsInjective(Append(s, e))
<1> DEFINE r == Append(s, e)
           n == Len(s)
<1>1. /\ r \in Seq(S) /\ Len(r) = n + 1 /\ n \in Nat
      /\ \A j \in 1 .. n : r[j] = s[j]
      /\ r[n + 1] = e
  BY AppendProperties, LenProperties
<1> HIDE DEF r
<1>2. ToSet(r) = ToSet(s) \cup {e}
  <2>1. \A j \in 1 .. n + 1 : j \in 1 .. n \/ j = n + 1 BY <1>1
  <2>2. \A x : x \in ToSet(r) <=> x \in ToSet(s) \cup {e} BY <1>1, <2>1, SetOfSeq
  <2> QED BY <2>2
<1>3. IsInjective(s) /\ e \notin ToSet(s) => IsInjective(r)
  <2>1. \A j \in 1 .. n + 1 : j \in 1 .. n \/ j = n + 1 BY <1>1
  <2> QED BY <1>1, <2>1, SetOfSeq
<1> QED BY <1>1, <1>2, <1>3 DEF r

LEMMA ConcatFacts ==
  ASSUME NEW S, NEW s \in Seq(S), NEW t \in Seq(S)
  PROVE  /\ s \o t \in Seq(S) /\ Len(s \o t) = Len(s) + Len(t)
         /\ \A j \in 1 .. Len(s) : (s \o t)[j] = s[j]
         /\ \A j \in 1 .. Len(t) : (s \o t)[Len(s) + j] = t[j]
         /\ ToSet(s \o t) = ToSet(s) \cup ToSet(t)
         /\ IsInjective(s) /\ IsInjective(t) /\ ToSet(s) \cap ToSet(t) = {} => IsInjective(s \o t)
<1> DEFINE r == s \o t
           m == Len(s)
           n == Len(t)
<1>1. /\ r \in Seq(S) /\ Len(r) = m + n /\ m \in Nat /\ n \in Nat
      /\ \A i \in 1 .. m + n : r[i] = IF i <= m THEN s[i] ELSE t[i - m]
  BY ConcatProperties, LenProperties
<1> HIDE DEF r
<1>2. /\ \A j \in 1 .. m : r[j] = s[j]
      /\ \A j \in 1 .. n : r[m + j] = t[j]
  <2>1. \A j \in 1 .. n : m + j \in 1 .. m + n /\ (m + j) - m = j /\ ~(m + j <= m) BY <1>1
  <2> QED BY <1>1, <2>1
<1>3. \A i \in 1 .. m + n : i \in 1 .. m \/ \E j \in 1 .. n : i = m + j
  <2> TAKE i \in 1 .. m + n
  <2>1. i > m => i - m \in 1 .. n /\ i = m + (i - m) BY <1>1
  <2> QED BY <1>1, <2>1
<1>4. ToSet(r) = ToSet(s) \cup ToSet(t)
  <2>1. ASSUME NEW x \in ToSet(r) PROVE x \in ToSet(s) \cup ToSet(t)
    <3>1. PICK i \in 1 .. m + n : r[i] = x BY <1>1, <2>1, SetOfSeq
    <3>2. CASE i \in 1 .. m
      <4>1. s[i] = x BY <1>2, <3>1, <3>2
      <4> QED BY <3>2, <4>1, SetOfSeq
    <3>3. ASSUME NEW j \in 1 .. n, i = m + j PROVE x \in ToSet(t)
      <4>1. t[j] = x BY <1>2, <3>1, <3>3
      <4> QED BY <4>1, SetOfSeq
    <3> QED BY <1>3, <3>2, <3>3
  <2>2. ASSUME NEW x \in ToSet(s) PROVE x \in ToSet(r)
    <3>1. PICK i \in 1 .. m : s[i] = x BY <2>2, SetOfSeq
    <3>2. i \in 1 .. m + n /\ r[i] = x BY <1>1, <1>2, <3>1
    <3> QED BY <1>1, <3>2, SetOfSeq
  <2>3. ASSUME NEW x \in ToSet(t) PROVE x \in ToSet(r)
    <3>1. PICK i \in 1 .. n : t[i] = x BY <2>3, SetOfSeq
    <3>2. m + i \in 1 .. m + n /\ r[m + i] = x BY <1>1, <1>2, <3>1
    <3> QED BY <1>1, <3>2, SetOfSeq
  <2> QED BY <2>1, <2>2, <2>3
<1>5. ASSUME IsInjective(s), IsInjective(t), ToSet(s) \cap ToSet(t) = {} PROVE IsInjective(r)
  <2> SUFFICES ASSUME NEW i \in 1 .. m + n, NEW j \in 1 .. m + n, r[i] = r[j] PROVE i = j
    BY <1>1, SetOfSeq
  <2>1. \A k, l \in 1 .. m : s[k] = s[l] => k = l BY <1>5, SetOfSeq
  <2>2. \A k, l \in 1 .. n : t[k] = t[l] => k = l BY <1>5, SetOfSeq
  <2>3. \A k \in 1 .. m, l \in 1 .. n : s[k] # t[l] BY <1>5, SetOfSeq
  <2>4. CASE i \in 1 .. m /\ j \in 1 .. m BY <1>2, <2>1, <2>4
  <2>5. ASSUME NEW k \in 1 .. n, NEW l \in 1 .. n, i = m + k, j = m + l PROVE i = j
    BY <1>2, <2>2, <2>5
  <2>6. ASSUME NEW l \in 1 .. n, i \in 1 .. m, j = m + l PROVE FALSE
    BY <1>2, <2>3, <2>6
  <2>7. ASSUME NEW k \in 1 .. n, j \in 1 .. m, i = m + k PROVE FALSE
    BY <1>2, <2>3, <2>7
  <2> QED BY <1>3, <2>4, <2>5, <2>6, <2>7
<1> QED BY <1>1, <1>2, <1>4, <1>5 DEF r

LEMMA InsertAtFacts ==
  ASSUME NEW S, NEW s \in Seq(S), NEW i \in 1 .. Len(s) + 1, NEW e \in S
  PROVE  /\ InsertAt(s, i, e) \in Seq(S) /\ Len(InsertAt(s, i, e)) = Len(s) + 1
         /\ \A j \in 1 .. Len(s) + 1 :
              InsertAt(s, i, e)[j] = IF j < i THEN s[j] ELSE IF j = i THEN e ELSE s[j - 1]
         /\ ToSet(InsertAt(s, i, e)) = ToSet(s) \cup {e}
         /\ IsInjective(s) /\ e \notin ToSet(s) => IsInjective(InsertAt(s, i, e))
<1> DEFINE n == Len(s)
           before == SubSeq(s, 1, i - 1)
           after == SubSeq(s, i, n)
           r == InsertAt(s, i, e)
<1>1. n \in Nat /\ \A j \in 1 .. n : s[j] \in S BY SetOfSeq, ElementOfSeq
<1>2. /\ before \in Seq(S) /\ Len(before) = i - 1
      /\ \A j \in 1 .. i - 1 : before[j] = s[j]
  <2>1. i - 1 \in Int /\ \A j \in 1 .. i - 1 : s[j] \in S BY <1>1
  <2> QED BY <1>1, <2>1, SubSeqProperties
<1>3. /\ after \in Seq(S) /\ Len(after) = n - i + 1
      /\ \A j \in 1 .. n - i + 1 : after[j] = s[i + j - 1]
  <2>1. i \in Int /\ \A j \in i .. n : s[j] \in S BY <1>1
  <2> QED BY <1>1, <2>1, SubSeqProperties
<1>4. /\ <<e>> \in Seq(S) /\ Len(<<e>>) = 1 /\ <<e>>[1] = e
  OBVIOUS
<1> HIDE DEF before, after
<1>5. /\ before \o <<e>> \in Seq(S) /\ Len(before \o <<e>>) = i
      /\ \A j \in 1 .. i - 1 : (before \o <<e>>)[j] = s[j]
      /\ (before \o <<e>>)[i] = e
  <2>1. \A j \in 1 .. (i - 1) + 1 : (before \o <<e>>)[j] = IF j <= i - 1 THEN before[j] ELSE <<e>>[j - (i - 1)]
    BY <1>2, <1>4, ConcatProperties
  <2>2. i \in 1 .. (i - 1) + 1 /\ ~(i <= i - 1) /\ i - (i - 1) = 1 BY <1>1
  <2>3. (before \o <<e>>)[i] = e BY <1>4, <2>1, <2>2
  <2> QED BY <1>1, <1>2, <1>4, <2>1, <2>3, ConcatProperties
<1>6. r = (before \o <<e>>) \o after BY DEF InsertAt, r, before, after
<1>7. /\ r \in Seq(S) /\ Len(r) = n + 1
      /\ \A j \in 1 .. n + 1 : r[j] = IF j <= i THEN (before \o <<e>>)[j] ELSE after[j - i]
  <2> DEFINE u == before \o <<e>>
  <2> HIDE DEF u
  <2>1. u \in Seq(S) /\ Len(u) = i /\ r = u \o after BY <1>5, <1>6 DEF u
  <2>2. /\ r \in Seq(S) /\ Len(r) = Len(u) + Len(after)
        /\ \A j \in 1 .. Len(u) + Len(after) : r[j] = IF j <= Len(u) THEN u[j] ELSE after[j - Len(u)]
    BY <1>3, <2>1, ConcatProperties
  <2>3. Len(u) + Len(after) = n + 1 BY <1>1, <1>3, <2>1
  <2> QED BY <2>1, <2>2, <2>3 DEF u
<1> HIDE DEF r
<1>8. \A j \in 1 .. n + 1 : r[j] = IF j < i THEN s[j] ELSE IF j = i THEN e ELSE s[j - 1]
  <2> TAKE j \in 1 .. n + 1
  <2>1. CASE j <= i BY <1>1, <1>5, <1>7, <2>1
  <2>2. CASE j > i
    <3>1. j - i \in 1 .. n - i + 1 /\ i + (j - i) - 1 = j - 1 BY <1>1, <2>2
    <3>2. after[j - i] = s[i + (j - i) - 1] BY <1>3, <3>1
    <3>3. ~(j <= i) /\ ~(j < i) /\ j # i BY <1>1, <2>2
    <3>4. r[j] = after[j - i] BY <1>7, <3>3
    <3> QED BY <3>1, <3>2, <3>3, <3>4
  <2> QED BY <1>1, <2>1, <2>2
<1>9. ToSet(r) = ToSet(s) \cup {e}
  <2>1. ASSUME NEW x \in ToSet(r) PROVE x \in ToSet(s) \cup {e}
    <3>1. PICK j \in 1 .. n + 1 : r[j] = x BY <1>7, <2>1, SetOfSeq
    <3>2. j < i => j \in 1 .. n BY <1>1
    <3>3. j > i => j - 1 \in 1 .. n BY <1>1
    <3> QED BY <1>1, <1>8, <3>1, <3>2, <3>3, SetOfSeq
  <2>2. ASSUME NEW k \in 1 .. n PROVE s[k] \in ToSet(r)
    <3>1. k < i => k \in 1 .. n + 1 /\ r[k] = s[k] BY <1>1, <1>8
    <3>2. k >= i => k + 1 \in 1 .. n + 1 /\ r[k + 1] = s[k] BY <1>1, <1>8
    <3>3. \E j \in 1 .. n + 1 : r[j] = s[k] BY <1>1, <3>1, <3>2
    <3> QED BY <1>7, <3>3, SetOfSeq
  <2>3. e \in ToSet(r)
    <3>1. i \in 1 .. n + 1 /\ r[i] = e BY <1>1, <1>8
    <3> QED BY <1>7, <3>1, SetOfSeq
  <2> QED BY <2>1, <2>2, <2>3, SetOfSeq
<1>10. ASSUME IsInjective(s), e \notin ToSet(s) PROVE IsInjective(r)
  <2>1. \A k, l \in 1 .. n : s[k] = s[l] => k = l BY <1>10, SetOfSeq
  <2>2. \A k \in 1 .. n : s[k] # e BY <1>10, SetOfSeq
  <2> SUFFICES ASSUME NEW j \in 1 .. n + 1, NEW k \in 1 .. n + 1, r[j] = r[k] PROVE j = k
    BY <1>7, SetOfSeq
  <2>3. /\ j < i => j \in 1 .. n
        /\ j > i => j - 1 \in 1 .. n
        /\ k < i => k \in 1 .. n
        /\ k > i => k - 1 \in 1 .. n
    BY <1>1
  <2>4. i \in Int /\ j \in Int /\ k \in Int BY <1>1
  <2>5. /\ j < i => r[j] = s[j]
        /\ j = i => r[j] = e
        /\ j > i => r[j] = s[j - 1]
    BY <1>8, <2>4
  <2>6. /\ k < i => r[k] = s[k]
        /\ k = i => r[k] = e
        /\ k > i => r[k] = s[k - 1]
    BY <1>8, <2>4
  <2>7. CASE j = i
    <3>1. ~(k < i) BY <2>2, <2>3, <2>5, <2>6, <2>7
    <3>2. ~(k > i) BY <2>2, <2>3, <2>5, <2>6, <2>7
    <3> QED BY <2>4, <2>7, <3>1, <3>2
  <2>8. CASE j < i
    <3>1. k # i BY <2>2, <2>3, <2>5, <2>6, <2>8
    <3>2. CASE k < i BY <2>1, <2>3, <2>5, <2>6, <2>8, <3>2
    <3>3. CASE k > i
      <4>1. j = k - 1 BY <2>1, <2>3, <2>5, <2>6, <2>8, <3>3
      <4> QED BY <2>4, <2>8, <3>3, <4>1
    <3> QED BY <2>4, <3>1, <3>2, <3>3
  <2>9. CASE j > i
    <3>1. k # i BY <2>2, <2>3, <2>5, <2>6, <2>9
    <3>2. CASE k < i
      <4>1. j - 1 = k BY <2>1, <2>3, <2>5, <2>6, <2>9, <3>2
      <4> QED BY <2>4, <2>9, <3>2, <4>1
    <3>3. CASE k > i
      <4>1. j - 1 = k - 1 BY <2>1, <2>3, <2>5, <2>6, <2>9, <3>3
      <4> QED BY <2>4, <4>1
    <3> QED BY <2>4, <3>1, <3>2, <3>3
  <2> QED BY <2>4, <2>7, <2>8, <2>9
<1> QED BY <1>7, <1>8, <1>9, <1>10 DEF r

LEMMA RemoveAtFacts ==
  ASSUME NEW S, NEW s \in Seq(S), NEW i \in 1 .. Len(s)
  PROVE  /\ RemoveAt(s, i) \in Seq(S) /\ Len(RemoveAt(s, i)) = Len(s) - 1
         /\ \A j \in 1 .. Len(s) - 1 : RemoveAt(s, i)[j] = IF j < i THEN s[j] ELSE s[j + 1]
         /\ IsInjective(s) => /\ IsInjective(RemoveAt(s, i))
                              /\ ToSet(RemoveAt(s, i)) = ToSet(s) \ {s[i]}
<1> DEFINE n == Len(s)
           before == SubSeq(s, 1, i - 1)
           after == SubSeq(s, i + 1, n)
           r == RemoveAt(s, i)
<1>1. n \in Nat /\ \A j \in 1 .. n : s[j] \in S BY SetOfSeq, ElementOfSeq
<1>2. /\ before \in Seq(S) /\ Len(before) = i - 1
      /\ \A j \in 1 .. i - 1 : before[j] = s[j]
  <2>1. i - 1 \in Int /\ \A j \in 1 .. i - 1 : s[j] \in S BY <1>1
  <2> QED BY <1>1, <2>1, SubSeqProperties
<1>3. /\ after \in Seq(S) /\ Len(after) = n - i
      /\ \A j \in 1 .. n - i : after[j] = s[i + j]
  <2>1. i + 1 \in Int /\ \A j \in i + 1 .. n : s[j] \in S BY <1>1
  <2>2. n - (i + 1) + 1 = n - i /\ \A j \in 1 .. n - i : (i + 1) + j - 1 = i + j BY <1>1
  <2> QED BY <1>1, <2>1, <2>2, SubSeqProperties
<1>4. r = before \o after BY DEF RemoveAt
<1> HIDE DEF before, after, r
<1>5. /\ r \in Seq(S) /\ Len(r) = n - 1
      /\ \A j \in 1 .. n - 1 : r[j] = IF j <= i - 1 THEN before[j] ELSE after[j - (i - 1)]
  <2>1. /\ r \in Seq(S) /\ Len(r) = Len(before) + Len(after)
        /\ \A j \in 1 .. Len(before) + Len(after) :
             r[j] = IF j <= Len(before) THEN before[j] ELSE after[j - Len(before)]
    BY <1>2, <1>3, <1>4, ConcatProperties
  <2>2. Len(before) + Len(after) = n - 1 BY <1>1, <1>2, <1>3
  <2> QED BY <1>2, <2>1, <2>2
<1>6. \A j \in 1 .. n - 1 : r[j] = IF j < i THEN s[j] ELSE s[j + 1]
  <2> TAKE j \in 1 .. n - 1
  <2>1. CASE j < i
    <3>1. j \in 1 .. i - 1 /\ j <= i - 1 BY <1>1, <2>1
    <3> QED BY <1>2, <1>5, <2>1, <3>1
  <2>2. CASE j >= i
    <3>1. j - (i - 1) \in 1 .. n - i /\ i + (j - (i - 1)) = j + 1 /\ ~(j <= i - 1) BY <1>1, <2>2
    <3>2. after[j - (i - 1)] = s[i + (j - (i - 1))] BY <1>3, <3>1
    <3>3. ~(j < i) BY <1>1, <2>2
    <3> QED BY <1>5, <3>1, <3>2, <3>3
  <2> QED BY <2>1, <2>2
<1>7. ASSUME IsInjective(s)
      PROVE  IsInjective(r) /\ ToSet(r) = ToSet(s) \ {s[i]}
  <2>1. \A k, l \in 1 .. n : s[k] = s[l] => k = l BY <1>7, SetOfSeq
  <2>2. \A j \in 1 .. n - 1 : j \in 1 .. n /\ j + 1 \in 1 .. n BY <1>1
  <2>3. IsInjective(r)
    <3> SUFFICES ASSUME NEW j \in 1 .. n - 1, NEW k \in 1 .. n - 1, r[j] = r[k] PROVE j = k
      BY <1>5, SetOfSeq
    <3> QED BY <1>6, <2>1, <2>2
  <2>4. ASSUME NEW x \in ToSet(r) PROVE x \in ToSet(s) \ {s[i]}
    <3>1. PICK j \in 1 .. n - 1 : r[j] = x BY <1>5, <2>4, SetOfSeq
    <3>2. CASE j < i
      <4>1. s[j] = x /\ j \in 1 .. n /\ j # i BY <1>6, <2>2, <3>1, <3>2
      <4> QED BY <2>1, <4>1, SetOfSeq
    <3>3. CASE ~(j < i)
      <4>1. s[j + 1] = x /\ j + 1 \in 1 .. n /\ j + 1 # i BY <1>6, <2>2, <3>1, <3>3
      <4> QED BY <2>1, <4>1, SetOfSeq
    <3> QED BY <3>2, <3>3
  <2>5. ASSUME NEW x \in ToSet(s), x # s[i] PROVE x \in ToSet(r)
    <3>1. PICK k \in 1 .. n : s[k] = x BY <2>5, SetOfSeq
    <3>2. k < i => k \in 1 .. n - 1 /\ r[k] = x BY <1>1, <1>6, <3>1
    <3>3. k > i => k - 1 \in 1 .. n - 1 /\ r[k - 1] = x
      <4>1. k > i => k - 1 \in 1 .. n - 1 /\ ~(k - 1 < i) /\ (k - 1) + 1 = k BY <1>1
      <4> QED BY <1>6, <3>1, <4>1
    <3>4. k # i BY <2>5, <3>1
    <3>5. \E j \in 1 .. n - 1 : r[j] = x BY <3>2, <3>3, <3>4
    <3> QED BY <1>5, <3>5, SetOfSeq
  <2> QED BY <2>3, <2>4, <2>5
<1> QED BY <1>5, <1>6, <1>7 DEF r

LEMMA ReverseFacts ==
  ASSUME NEW S, NEW s \in Seq(S)
  PROVE  /\ Reverse(s) \in Seq(S) /\ Len(Reverse(s)) = Len(s)
         /\ \A j \in 1 .. Len(s) : Reverse(s)[j] = s[Len(s) - j + 1]
         /\ ToSet(Reverse(s)) = ToSet(s)
         /\ IsInjective(s) => IsInjective(Reverse(s))
<1> DEFINE n == Len(s)
           r == Reverse(s)
<1>1. n \in Nat /\ \A j \in 1 .. n : s[j] \in S BY SetOfSeq, ElementOfSeq
<1>2. \A j \in 1 .. n : n - j + 1 \in 1 .. n /\ n - (n - j + 1) + 1 = j BY <1>1
<1>3. r = [j \in 1 .. n |-> s[n - j + 1]] BY DEF Reverse
<1> HIDE DEF r
<1>4. r \in Seq(S) /\ Len(r) = n /\ \A j \in 1 .. n : r[j] = s[n - j + 1] BY <1>1, <1>2, <1>3
<1>5. ToSet(r) = ToSet(s)
  <2>1. ASSUME NEW x \in ToSet(r) PROVE x \in ToSet(s)
    <3>1. PICK j \in 1 .. n : r[j] = x BY <1>4, <2>1, SetOfSeq
    <3>2. n - j + 1 \in 1 .. n /\ s[n - j + 1] = x BY <1>2, <1>4, <3>1
    <3> QED BY <3>2, SetOfSeq
  <2>2. ASSUME NEW x \in ToSet(s) PROVE x \in ToSet(r)
    <3>1. PICK j \in 1 .. n : s[j] = x BY <2>2, SetOfSeq
    <3>2. n - j + 1 \in 1 .. n /\ r[n - j + 1] = x BY <1>2, <1>4, <3>1
    <3> QED BY <1>4, <3>2, SetOfSeq
  <2> QED BY <2>1, <2>2
<1>6. ASSUME IsInjective(s) PROVE IsInjective(r)
  <2>1. \A k, l \in 1 .. n : s[k] = s[l] => k = l BY <1>6, SetOfSeq
  <2> SUFFICES ASSUME NEW j \in 1 .. n, NEW k \in 1 .. n, r[j] = r[k] PROVE j = k
    BY <1>4, SetOfSeq
  <2>2. n - j + 1 = n - k + 1 BY <1>2, <1>4, <2>1
  <2> QED BY <1>1, <2>2
<1> QED BY <1>4, <1>5, <1>6 DEF r

LEMMA FrontFacts ==
  ASSUME NEW S, NEW s \in Seq(S), Len(s) # 0
  PROVE  /\ Front(s) \in Seq(S) /\ Len(Front(s)) = Len(s) - 1
         /\ \A j \in 1 .. Len(s) - 1 : Front(s)[j] = s[j]
         /\ Last(s) = s[Len(s)] /\ Last(s) \in ToSet(s)
         /\ IsInjective(s) => IsInjective(Front(s)) /\ ToSet(Front(s)) = ToSet(s) \ {Last(s)}
<1> DEFINE n == Len(s)
           r == Front(s)
<1>1. n \in Nat /\ n \in 1 .. n /\ \A j \in 1 .. n : s[j] \in S BY SetOfSeq, ElementOfSeq
<1>2. Last(s) = s[n] /\ Last(s) \in ToSet(s) BY <1>1, SetOfSeq DEF Last
<1>3. r \in Seq(S) /\ Len(r) = n - 1 /\ \A j \in 1 .. n - 1 : r[j] = s[j]
  <2>1. n - 1 \in Int /\ \A j \in 1 .. n - 1 : s[j] \in S BY <1>1
  <2>2. \A j \in 1 .. n - 1 : 1 + j - 1 = j OBVIOUS
  <2>3. /\ r \in Seq(S) /\ Len(r) = IF 1 <= n - 1 THEN n - 1 - 1 + 1 ELSE 0
        /\ \A j \in 1 .. n - 1 - 1 + 1 : r[j] = s[1 + j - 1]
    BY <2>1, SubSeqProperties DEF Front
  <2>4. n \in Nat /\ n > 0 BY <1>1
  <2> HIDE DEF n
  <2>5. /\ n - 1 - 1 + 1 = n - 1
        /\ 1 <= n - 1 \/ n - 1 = 0
        /\ n - 1 = 0 => ~(1 <= n - 1)
    BY <2>4
  <2> QED BY <2>2, <2>3, <2>5
<1> HIDE DEF r
<1>4. ASSUME IsInjective(s) PROVE IsInjective(r) /\ ToSet(r) = ToSet(s) \ {Last(s)}
  <2>1. \A k, l \in 1 .. n : s[k] = s[l] => k = l BY <1>4, SetOfSeq
  <2>2. \A j \in 1 .. n - 1 : j \in 1 .. n /\ j # n BY <1>1
  <2>3. \A j \in 1 .. n : j \in 1 .. n - 1 \/ j = n BY <1>1
  <2>4. IsInjective(r) BY <1>3, <2>1, <2>2, SetOfSeq
  <2>5. ASSUME NEW x \in ToSet(r) PROVE x \in ToSet(s) \ {Last(s)}
    <3>1. PICK j \in 1 .. n - 1 : r[j] = x BY <1>3, <2>5, SetOfSeq
    <3> QED BY <1>1, <1>2, <1>3, <2>1, <2>2, <3>1, SetOfSeq
  <2>6. ASSUME NEW x \in ToSet(s) \ {Last(s)} PROVE x \in ToSet(r)
    <3>1. PICK j \in 1 .. n : s[j] = x BY <2>6, SetOfSeq
    <3>2. j \in 1 .. n - 1 BY <1>2, <2>3, <2>6, <3>1
    <3> QED BY <1>3, <3>1, <3>2, SetOfSeq
  <2> QED BY <2>4, <2>5, <2>6
<1> QED BY <1>2, <1>3, <1>4 DEF r

\* What is taken out, put last and put back again is where it was.
LEMMA PutBack ==
  ASSUME NEW S, NEW s \in Seq(S), NEW i \in 1 .. Len(s),
         NEW t, t = Append(RemoveAt(s, i), s[i])
  PROVE  InsertAt(Front(t), i, Last(t)) = s
<1> DEFINE n == Len(s)
           rest == RemoveAt(s, i)
           front == Front(t)
           r == InsertAt(front, i, s[i])
<1>1. n \in Nat /\ s[i] \in S /\ i \in Nat BY SetOfSeq, ElementOfSeq
<1>2. /\ rest \in Seq(S) /\ Len(rest) = n - 1
      /\ \A j \in 1 .. n - 1 : rest[j] = IF j < i THEN s[j] ELSE s[j + 1]
  BY RemoveAtFacts
<1> HIDE DEF rest
<1>3. t = Append(rest, s[i]) BY DEF rest
<1>4. /\ t \in Seq(S) /\ Len(t) = Len(rest) + 1 /\ t[Len(rest) + 1] = s[i]
      /\ \A j \in 1 .. Len(rest) : t[j] = rest[j]
  BY <1>1, <1>2, <1>3, AppendFacts
<1>5. Len(t) = n /\ n # 0 /\ t[n] = s[i] BY <1>1, <1>2, <1>4
<1>6. /\ front \in Seq(S) /\ Len(front) = n - 1 /\ Last(t) = s[i]
      /\ \A j \in 1 .. n - 1 : front[j] = rest[j]
  <2>1. /\ front \in Seq(S) /\ Len(front) = Len(t) - 1 /\ Last(t) = t[Len(t)]
        /\ \A j \in 1 .. Len(t) - 1 : front[j] = t[j]
    BY <1>4, <1>5, FrontFacts
  <2> HIDE DEF n, front
  <2> QED BY <1>2, <1>4, <1>5, <2>1
<1> HIDE DEF front
<1>7. i \in 1 .. Len(front) + 1 BY <1>1, <1>6
<1>8. /\ r \in Seq(S) /\ Len(r) = Len(front) + 1
      /\ \A j \in 1 .. Len(front) + 1 :
           r[j] = IF j < i THEN front[j] ELSE IF j = i THEN s[i] ELSE front[j - 1]
  BY <1>1, <1>6, <1>7, InsertAtFacts
<1> HIDE DEF r
<1>9. Len(r) = n BY <1>1, <1>6, <1>8
<1>10. ASSUME NEW j \in 1 .. n PROVE r[j] = s[j]
  <2>1. j \in 1 .. Len(front) + 1 /\ j \in Nat BY <1>1, <1>6
  <2>2. CASE j < i
    <3>1. j \in 1 .. n - 1 BY <1>1, <2>2
    <3> QED BY <1>2, <1>6, <1>8, <2>1, <2>2, <3>1
  <2>3. CASE j = i BY <1>8, <2>1, <2>3
  <2>4. CASE i < j
    <3>1. j - 1 \in 1 .. n - 1 /\ ~(j - 1 < i) /\ (j - 1) + 1 = j /\ ~(j < i) /\ j # i
      BY <1>1, <2>1, <2>4
    <3> QED BY <1>2, <1>6, <1>8, <2>1, <3>1
  <2> QED BY <1>1, <2>1, <2>2, <2>3, <2>4
<1>11. r = s BY <1>8, <1>9, <1>10, SeqEqual
<1> QED BY <1>6, <1>11 DEF r, front

LEMMA SetToSeqFacts ==
  ASSUME NEW S, IsFiniteSet(S)
  PROVE  /\ SetToSeq(S) \in Seq(S) /\ IsInjective(SetToSeq(S)) /\ ToSet(SetToSeq(S)) = S
<1> DEFINE n == Cardinality(S)
           r == SetToSeq(S)
<1>1. n \in Nat /\ \E f \in [1 .. n -> S] : IsInjective(f)
  BY FS_CardinalityType DEF ExistsBijection, Bijection, Injection
<1>2. r \in [1 .. n -> S] /\ IsInjective(r) BY <1>1 DEF SetToSeq
<1> HIDE DEF r
<1>3. IsFiniteSet(1 .. n) /\ Cardinality(1 .. n) = n BY <1>1, FS_Interval
<1>4. r \in Injection(1 .. n, S) BY <1>2 DEF Injection
<1>5. r \in Surjection(1 .. n, S) BY <1>3, <1>4, FS_Injection
<1>6. r \in Seq(S) /\ DOMAIN r = 1 .. n BY <1>1, <1>2
<1>7. ToSet(r) = S BY <1>2, <1>5, <1>6 DEF Surjection, ToSet
<1> QED BY <1>2, <1>6, <1>7 DEF r
===============================================================================
