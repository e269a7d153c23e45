----------------------------- MODULE SafeSQLProofs -----------------------------
(***************************************************************************)
(* SafeFormat's scan returns what the whole format says, and refuses only   *)
(* what is wrong: for formats and argument lists of every length.           *)
(*                                                                         *)
(* Number, DigitRun and FlattenSeq recurse over data. Their recursions are  *)
(* unfolded here: a solution exists, two solutions agree, and both facts    *)
(* are inductions over a set of numbers (IntervalInduction).                *)
(***************************************************************************)
EXTENDS SafeSQL, SequenceTheorems, WellFoundedInduction, TLAPS

(* Induction from a to b: a set that contains a and the successors of its   *)
(* elements contains every number up to b.                                  *)
LEMMA IntervalInduction ==
  ASSUME NEW a \in Nat, NEW b \in Nat, NEW T, a \in T,
         \A k \in a..b - 1 : k \in T => k + 1 \in T
  PROVE  \A k \in a..b : k \in T
<1> DEFINE Wrong == {k \in Nat : k \in a..b /\ k \notin T}
<1>1. SUFFICES ASSUME Wrong # {}  PROVE FALSE
  OBVIOUS
<1>2. PICK d \in Wrong : \A e \in Wrong : ~(<<e, d>> \in OpToRel(<, Nat))
  BY <1>1, WFMin, NatLessThanWellFounded
<1>3. \A e \in Wrong : ~(e < d)
  BY <1>2 DEF OpToRel
<1>4. d \in Nat /\ d \in a..b /\ d \notin T /\ d # a
  OBVIOUS
<1>5. d - 1 \in Nat /\ d - 1 < d /\ d - 1 \in a..b - 1 /\ d - 1 + 1 = d /\ d - 1 \in a..b
  BY <1>4
<1>6. d - 1 \notin T
  BY <1>4, <1>5
<1>7. d - 1 \in Wrong
  BY <1>5, <1>6
<1> QED  BY <1>3, <1>5, <1>7

(* The least element of a set of numbers, ...                               *)
LEMMA MinIs ==
  ASSUME NEW S \in SUBSET Nat, S # {}
  PROVE  Min(S) \in S /\ \A y \in S : Min(S) <= y
<1>1. PICK d \in S : \A e \in S : ~(<<e, d>> \in OpToRel(<, Nat))
  BY WFMin, NatLessThanWellFounded
<1>2. \A e \in S : d <= e
  <2>1. \A e \in S : ~(e < d)
    BY <1>1 DEF OpToRel
  <2> QED  BY <2>1
<1> QED  BY <1>2 DEF Min

(* ... and the greatest element of a bounded one.                           *)
LEMMA MaxIs ==
  ASSUME NEW b \in Nat, NEW S \in SUBSET (0..b), S # {}
  PROVE  Max(S) \in S /\ \A y \in S : Max(S) >= y
<1> DEFINE D == {k \in Nat : b - k \in S}
<1>1. PICK x \in S : TRUE
  OBVIOUS
<1>2. b - x \in D
  <2>1. x \in Nat /\ x <= b /\ b - x \in Nat /\ b - (b - x) = x
    BY <1>1
  <2> QED  BY <1>1, <2>1
<1>3. PICK d \in D : \A e \in D : ~(<<e, d>> \in OpToRel(<, Nat))
  BY <1>2, WFMin, NatLessThanWellFounded
<1>4. \A e \in D : d <= e
  <2>1. \A e \in D : ~(e < d)
    BY <1>3 DEF OpToRel
  <2> QED  BY <2>1
<1>5. b - d \in S /\ d \in Nat
  OBVIOUS
<1>6. ASSUME NEW y \in S  PROVE b - d >= y
  <2>1. y \in Nat /\ y <= b /\ b - y \in Nat /\ b - (b - y) = y
    OBVIOUS
  <2>2. b - y \in D
    BY <2>1
  <2>3. d <= b - y
    BY <1>4, <2>2
  <2> QED  BY <1>5, <2>1, <2>3
<1> QED  BY <1>5, <1>6 DEF Max

(* What the digit run of a text covers are digits.                          *)
LEMMA DigitRunIs ==
  ASSUME NEW p \in Seq(Kinds)
  PROVE  /\ DigitRun(p) \in 0..Len(p)
         /\ \A i \in 1..DigitRun(p) : p[i] \in Digits
<1> DEFINE S == {n \in 0..Len(p) : \A i \in 1..n : p[i] \in Digits}
<1>1. S \in SUBSET (0..Len(p)) /\ 0 \in S /\ Len(p) \in Nat
  OBVIOUS
<1>2. DigitRun(p) = Max(S)
  BY DEF DigitRun
<1>3. Max(S) \in S
  BY <1>1, MaxIs
<1> QED  BY <1>2, <1>3

(* Only the digit 0 has the value 0.                                        *)
LEMMA DigitValueIs ==
  ASSUME NEW d \in Digits
  PROVE  DigitValue(d) \in 0..2 /\ (d # "0" => DigitValue(d) >= 1)
<1>1. \E n \in 0..2 : d = <<"0", "1", "2">>[n + 1]
  <2>1. <<"0", "1", "2">>[0 + 1] = "0" /\ <<"0", "1", "2">>[1 + 1] = "1" /\ <<"0", "1", "2">>[2 + 1] = "2"
    OBVIOUS
  <2> QED  BY <2>1 DEF Digits
<1>2. DigitValue(d) \in 0..2 /\ d = <<"0", "1", "2">>[DigitValue(d) + 1]
  BY <1>1 DEF DigitValue
<1> QED  BY <1>2

(* f solves the recursion of Number(p, n).                                  *)
Counts(f, p, n) == f = [i \in 0..n |-> IF i = 0 THEN 0 ELSE 10 * f[i - 1] + DigitValue(p[i])]

(* The recursion of Number has a solution, ...                              *)
LEMMA CountExists ==
  ASSUME NEW p, NEW n \in Nat
  PROVE  \E f : Counts(f, p, n)
<1> DEFINE T == {k \in Nat : \E f : Counts(f, p, k)}
<1>1. 0 \in T
  <2> DEFINE f == [i \in 0..0 |-> 0]
  <2>1. Counts(f, p, 0)
    BY DEF Counts
  <2> QED  BY <2>1
<1>2. ASSUME NEW k \in 0..n - 1, k \in T  PROVE k + 1 \in T
  <2>1. PICK f : Counts(f, p, k)
    BY <1>2
  <2> DEFINE g == [i \in 0..k + 1 |-> IF i = k + 1 THEN 10 * f[k] + DigitValue(p[k + 1]) ELSE f[i]]
  <2>2. ASSUME NEW i \in 0..k + 1
        PROVE  g[i] = IF i = 0 THEN 0 ELSE 10 * g[i - 1] + DigitValue(p[i])
    <3>1. CASE i = 0
      BY <2>1, <3>1 DEF Counts
    <3>2. CASE i = k + 1
      BY <3>2
    <3>3. CASE i \in 1..k
      <4>1. f[i] = 10 * f[i - 1] + DigitValue(p[i])
        BY <2>1, <3>3 DEF Counts
      <4>2. g[i] = f[i] /\ g[i - 1] = f[i - 1]
        BY <3>3
      <4> QED  BY <3>3, <4>1, <4>2
    <3> QED  BY <3>1, <3>2, <3>3
  <2>3. Counts(g, p, k + 1)
    BY <2>2 DEF Counts
  <2> QED  BY <2>3
<1> HIDE DEF T
<1>3. n \in T
  BY <1>1, <1>2, IntervalInduction
<1> QED  BY <1>3 DEF T

(* ... and solutions for a run and for the run without its last digit       *)
(* agree.                                                                   *)
LEMMA CountUnique ==
  ASSUME NEW p, NEW m \in Nat, NEW n \in m..m + 1, NEW f, Counts(f, p, m), NEW g, Counts(g, p, n)
  PROVE  \A k \in 0..m : f[k] = g[k]
<1> DEFINE T == {k \in Nat : k <= m /\ f[k] = g[k]}
<1>1. 0 \in T
  BY DEF Counts
<1>2. ASSUME NEW k \in 0..m - 1, k \in T  PROVE k + 1 \in T
  <2>1. f[k + 1] = 10 * f[k] + DigitValue(p[k + 1])
    BY DEF Counts
  <2>2. g[k + 1] = 10 * g[k] + DigitValue(p[k + 1])
    BY DEF Counts
  <2> QED  BY <1>2, <2>1, <2>2
<1>3. \A k \in 0..m : k \in T
  <2> HIDE DEF T
  <2> QED  BY <1>1, <1>2, IntervalInduction
<1> QED  BY <1>3

(* One more digit multiplies by ten and adds its value.                     *)
LEMMA NumberUnfolds ==
  ASSUME NEW p, NEW n \in Nat, n > 0
  PROVE  /\ Number(p, 0) = 0
         /\ Number(p, n) = 10 * Number(p, n - 1) + DigitValue(p[n])
<1> DEFINE value(m) == CHOOSE f : Counts(f, p, m)
<1>1. ASSUME NEW m \in Nat  PROVE Counts(value(m), p, m)
  BY CountExists
<1>2. ASSUME NEW m \in Nat  PROVE Number(p, m) = value(m)[m]
  BY DEF Number, Counts
<1> HIDE DEF value
<1>3. value(0)[0] = 0
  BY <1>1 DEF Counts
<1>4. value(n)[n] = 10 * value(n)[n - 1] + DigitValue(p[n])
  BY <1>1 DEF Counts
<1>5. value(n - 1)[n - 1] = value(n)[n - 1]
  <2>1. n - 1 \in Nat /\ n \in n - 1..n - 1 + 1 /\ n - 1 \in 0..n - 1
    OBVIOUS
  <2> QED  BY <1>1, <2>1, CountUnique
<1> QED  BY <1>2, <1>3, <1>4, <1>5

(* Digits write a number, and one that does not begin with 0 is positive.   *)
LEMMA NumberIs ==
  ASSUME NEW p, NEW n \in Nat, \A i \in 1..n : p[i] \in Digits
  PROVE  /\ Number(p, n) \in Nat
         /\ n > 0 /\ p[1] # "0" => Number(p, n) >= 1
<1> DEFINE T == {k \in Nat : /\ Number(p, k) \in Nat
                             /\ k > 0 /\ p[1] # "0" => Number(p, k) >= 1}
<1>1. 0 \in T
  <2>1. Number(p, 0) = 0
    BY NumberUnfolds
  <2> QED  BY <2>1
<1>2. ASSUME NEW k \in 0..n - 1, k \in T  PROVE k + 1 \in T
  <2>1. k + 1 \in Nat /\ k + 1 > 0 /\ k + 1 - 1 = k /\ k + 1 \in 1..n
    OBVIOUS
  <2>2. Number(p, k + 1) = 10 * Number(p, k) + DigitValue(p[k + 1])
    BY <2>1, NumberUnfolds
  <2>3. DigitValue(p[k + 1]) \in 0..2 /\ (p[k + 1] # "0" => DigitValue(p[k + 1]) >= 1)
    BY <2>1, DigitValueIs
  <2> QED  BY <1>2, <2>2, <2>3
<1>3. \A k \in 0..n : k \in T
  <2> HIDE DEF T
  <2> QED  BY <1>1, <1>2, IntervalInduction
<1> QED  BY <1>3

-----------------------------------------------------------------------------
(* Concatenation, under a name that the provers leave folded.               *)
Joined(s, t) == s \o t

(* f solves the recursion of FlattenSeq(s), for a sequence of n sequences.  *)
Joins(f, s, n) == f = [i \in 1..n |-> IF i = 1 THEN s[i] ELSE Joined(f[i - 1], s[i])]

(* The recursion of FlattenSeq has a solution, ...                          *)
LEMMA JoinExists ==
  ASSUME NEW s, NEW n \in Nat
  PROVE  \E f : Joins(f, s, n)
<1> DEFINE T == {k \in Nat : \E f : Joins(f, s, k)}
<1>1. 0 \in T
  <2> DEFINE f == [i \in 1..0 |-> <<>>]
  <2>1. Joins(f, s, 0)
    BY DEF Joins
  <2> QED  BY <2>1
<1>2. ASSUME NEW k \in 0..n - 1, k \in T  PROVE k + 1 \in T
  <2>1. PICK f : Joins(f, s, k)
    BY <1>2
  <2> DEFINE g == [i \in 1..k + 1 |-> IF i # k + 1 THEN f[i] ELSE IF k = 0 THEN s[1] ELSE Joined(f[k], s[k + 1])]
  <2>2. ASSUME NEW i \in 1..k + 1
        PROVE  g[i] = IF i = 1 THEN s[i] ELSE Joined(g[i - 1], s[i])
    <3>1. CASE i = k + 1
      <4>1. CASE k = 0
        BY <3>1, <4>1
      <4>2. CASE k # 0
        <5>1. k \in 1..k + 1 /\ k # k + 1 /\ i # 1 /\ i - 1 = k
          BY <3>1, <4>2
        <5>2. g[k] = f[k] /\ g[i] = Joined(f[k], s[i])
          BY <3>1, <4>2, <5>1
        <5> QED  BY <5>1, <5>2
      <4> QED  BY <4>1, <4>2
    <3>2. CASE i = 1 /\ i # k + 1
      BY <2>1, <3>2 DEF Joins
    <3>3. CASE i \in 2..k
      <4>1. f[i] = Joined(f[i - 1], s[i])
        BY <2>1, <3>3 DEF Joins
      <4>2. g[i] = f[i] /\ g[i - 1] = f[i - 1]
        BY <3>3
      <4> QED  BY <3>3, <4>1, <4>2
    <3> QED  BY <3>1, <3>2, <3>3
  <2>3. Joins(g, s, k + 1)
    BY <2>2 DEF Joins
  <2> QED  BY <2>3
<1> HIDE DEF T
<1>3. n \in T
  BY <1>1, <1>2, IntervalInduction
<1> QED  BY <1>3 DEF T

(* ... and solutions for two lists agree as far as the lists do.            *)
LEMMA JoinUnique ==
  ASSUME NEW s, NEW t, NEW m \in Nat, m > 0, NEW n \in m..m + 1,
         \A i \in 1..m : s[i] = t[i],
         NEW f, Joins(f, s, m), NEW g, Joins(g, t, n)
  PROVE  f[m] = g[m]
<1> DEFINE T == {k \in Nat : k \in 1..m /\ f[k] = g[k]}
<1>1. 1 \in T
  BY DEF Joins
<1>2. ASSUME NEW k \in 1..m - 1, k \in T  PROVE k + 1 \in T
  <2>1. f[k + 1] = Joined(f[k], s[k + 1])
    BY DEF Joins
  <2>2. g[k + 1] = Joined(g[k], t[k + 1])
    BY DEF Joins
  <2> QED  BY <1>2, <2>1, <2>2
<1>3. \A k \in 1..m : k \in T
  <2> HIDE DEF T
  <2> QED  BY <1>1, <1>2, IntervalInduction
<1> QED  BY <1>3

(* FlattenSeq of a list that is not empty is the last value of a solution.  *)
LEMMA FlattenIs ==
  ASSUME NEW s, Len(s) \in Nat, Len(s) > 0
  PROVE  \E f : Joins(f, s, Len(s)) /\ FlattenSeq(s) = f[Len(s)]
<1> DEFINE flatten == CHOOSE f : Joins(f, s, Len(s))
<1>1. Joins(flatten, s, Len(s))
  BY JoinExists
<1>2. FlattenSeq(s) = flatten[Len(s)]
  BY DEF FlattenSeq, Joins, Joined
<1> QED  BY <1>1, <1>2

(* Position n adds its contribution to that of the positions before it: ... *)
LEMMA PrefixUnfolds ==
  ASSUME NEW n \in Nat, n > 0, NEW S, Contribution(n) \in Seq(S)
  PROVE  /\ Prefix(0) = <<>>
         /\ Prefix(n) = Prefix(n - 1) \o Contribution(n)
<1> DEFINE s(k) == [i \in 1..k |-> Contribution(i)]
<1>1. ASSUME NEW k \in Nat  PROVE Len(s(k)) = k
  OBVIOUS
<1>2. Prefix(0) = <<>>
  <2>1. s(0) = <<>>
    OBVIOUS
  <2> QED  BY <1>1, <2>1 DEF Prefix, FlattenSeq
<1>3. Prefix(n) = Prefix(n - 1) \o Contribution(n)
  <2>1. Len(s(n)) = n /\ Len(s(n)) \in Nat /\ Len(s(n)) > 0 /\ s(n)[n] = Contribution(n)
    BY <1>1
  <2>2. PICK g : Joins(g, s(n), n) /\ FlattenSeq(s(n)) = g[n]
    BY <2>1, FlattenIs
  <2>3. Prefix(n) = g[n]
    BY <2>2 DEF Prefix
  <2>4. CASE n = 1
    <3>1. g[1] = s(n)[1]
      BY <2>2, <2>4 DEF Joins
    <3>2. Contribution(n) = <<>> \o Contribution(n)
      BY ConcatEmptySeq
    <3> QED  BY <1>2, <2>1, <2>3, <2>4, <3>1, <3>2
  <2>5. CASE n # 1
    <3>1. n - 1 \in Nat /\ n - 1 > 0 /\ n \in n - 1..n - 1 + 1
      BY <2>5
    <3>2. Len(s(n - 1)) = n - 1 /\ Len(s(n - 1)) \in Nat /\ Len(s(n - 1)) > 0
      BY <1>1, <3>1
    <3>3. PICK f : Joins(f, s(n - 1), n - 1) /\ FlattenSeq(s(n - 1)) = f[n - 1]
      BY <3>2, FlattenIs
    <3>4. \A i \in 1..n - 1 : s(n - 1)[i] = s(n)[i]
      OBVIOUS
    <3> HIDE DEF s
    <3>5. f[n - 1] = g[n - 1]
      BY <2>2, <3>1, <3>3, <3>4, JoinUnique
    <3>6. g[n] = Joined(g[n - 1], s(n)[n])
      BY <2>2, <2>5 DEF Joins
    <3>7. Prefix(n - 1) = f[n - 1]
      BY <3>3 DEF Prefix, s
    <3> QED  BY <2>1, <2>3, <3>5, <3>6, <3>7 DEF Joined
  <2> QED  BY <2>4, <2>5
<1> QED  BY <1>2, <1>3

(* ... the same, of position n + 1.                                         *)
LEMMA PrefixGrows ==
  ASSUME NEW n \in Nat, NEW S, Contribution(n + 1) \in Seq(S)
  PROVE  Prefix(n + 1) = Prefix(n) \o Contribution(n + 1)
<1>1. n + 1 \in Nat /\ n + 1 > 0 /\ n + 1 - 1 = n
  OBVIOUS
<1>2. Prefix(n + 1) = Prefix(n + 1 - 1) \o Contribution(n + 1)
  BY <1>1, PrefixUnfolds
<1> QED  BY <1>1, <1>2, Zenon

(* The elements of a suffix.                                                *)
LEMMA SuffixIs ==
  ASSUME NEW S, NEW f \in Seq(S), NEW a \in 0..Len(f), NEW r, r = SubSeq(f, a + 1, Len(f))
  PROVE  /\ r \in Seq(S)
         /\ Len(r) = Len(f) - a
         /\ \A k \in 1..Len(r) : r[k] = f[a + k]
<1> Len(f) \in Nat
  OBVIOUS
<1>1. \A k \in a + 1..Len(f) : f[k] \in S
  OBVIOUS
<1>2. /\ r \in Seq(S)
      /\ Len(r) = IF a + 1 <= Len(f) THEN Len(f) - (a + 1) + 1 ELSE 0
      /\ \A k \in 1..Len(f) - (a + 1) + 1 : r[k] = f[a + 1 + k - 1]
  BY <1>1, SubSeqProperties
<1>3. Len(r) = Len(f) - a /\ Len(f) - (a + 1) + 1 = Len(f) - a
  BY <1>2
<1>4. ASSUME NEW k \in 1..Len(r)  PROVE r[k] = f[a + k]
  <2>1. k \in 1..Len(f) - a /\ k \in Nat
    <3>1. 1..Len(r) = 1..Len(f) - a
      BY <1>3
    <3> QED  BY <3>1
  <2>2. k \in 1..Len(f) - (a + 1) + 1
    BY <1>3, <2>1
  <2>3. a + 1 + k - 1 = a + k
    BY <2>1
  <2>4. r[k] = f[a + 1 + k - 1]
    BY <1>2, <2>2
  <2> QED  BY <2>3, <2>4
<1> QED  BY <1>2, <1>3, <1>4

(* Parts of a suffix are parts of the whole.                                *)
LEMMA PartsOfSuffix ==
  ASSUME NEW S, NEW f \in Seq(S), NEW a \in 0..Len(f), NEW r, r = SubSeq(f, a + 1, Len(f)),
         NEW b \in 0..Len(r)
  PROVE  /\ SubSeq(r, b + 1, Len(r)) = SubSeq(f, a + b + 1, Len(f))
         /\ SubSeq(r, 1, b) = SubSeq(f, a + 1, a + b)
<1>1. r \in Seq(S) /\ Len(r) = Len(f) - a /\ \A k \in 1..Len(r) : r[k] = f[a + k]
  BY SuffixIs
<1>2. Len(f) \in Nat /\ a \in Nat /\ b \in Nat /\ a + b \in 0..Len(f)
  BY <1>1
<1>3. SubSeq(r, b + 1, Len(r)) = SubSeq(f, a + b + 1, Len(f))
  <2> DEFINE u == SubSeq(r, b + 1, Len(r))
             v == SubSeq(f, a + b + 1, Len(f))
  <2>1. u \in Seq(S) /\ Len(u) = Len(r) - b /\ \A k \in 1..Len(u) : u[k] = r[b + k]
    BY <1>1, SuffixIs
  <2>2. v \in Seq(S) /\ Len(v) = Len(f) - (a + b) /\ \A k \in 1..Len(v) : v[k] = f[a + b + k]
    BY <1>2, SuffixIs
  <2> HIDE DEF u, v
  <2>3. Len(u) = Len(v) /\ Len(u) \in Nat
    BY <1>1, <1>2, <2>1, <2>2
  <2>4. ASSUME NEW k \in 1..Len(u)  PROVE u[k] = v[k]
    <3>1. b + k \in 1..Len(r) /\ a + (b + k) = a + b + k
      BY <1>1, <1>2, <2>1
    <3> QED  BY <1>1, <2>1, <2>2, <2>3, <3>1
  <2>5. u = v
    BY <2>1, <2>2, <2>3, <2>4, SeqEqual
  <2> QED  BY <2>5 DEF u, v
<1>4. SubSeq(r, 1, b) = SubSeq(f, a + 1, a + b)
  <2> DEFINE u == SubSeq(r, 1, b)
             v == SubSeq(f, a + 1, a + b)
  <2>1. u \in Seq(S) /\ Len(u) = b /\ \A k \in 1..b : u[k] = r[k]
    <3>1. \A k \in 1..b : r[k] \in S
      BY <1>1
    <3> QED  BY <1>2, <3>1, SubSeqProperties
  <2>2. v \in Seq(S) /\ Len(v) = b /\ \A k \in 1..b : v[k] = f[a + k]
    <3>1. \A k \in a + 1..a + b : f[k] \in S
      BY <1>2
    <3>2. /\ v \in Seq(S)
          /\ Len(v) = IF a + 1 <= a + b THEN a + b - (a + 1) + 1 ELSE 0
          /\ \A k \in 1..a + b - (a + 1) + 1 : v[k] = f[a + 1 + k - 1]
      BY <1>2, <3>1, SubSeqProperties
    <3>3. Len(v) = b /\ a + b - (a + 1) + 1 = b
      BY <1>2, <3>2
    <3>4. ASSUME NEW k \in 1..b  PROVE v[k] = f[a + k]
      <4>1. k \in 1..a + b - (a + 1) + 1 /\ a + 1 + k - 1 = a + k
        BY <1>2
      <4> QED  BY <3>2, <4>1
    <3> QED  BY <3>2, <3>3, <3>4
  <2> HIDE DEF u, v
  <2>3. ASSUME NEW k \in 1..Len(u)  PROVE u[k] = v[k]
    <3>1. k \in 1..b /\ k \in 1..Len(r)
      BY <1>1, <1>2, <2>1
    <3> QED  BY <1>1, <2>1, <2>2, <3>1
  <2>4. u = v
    BY <2>1, <2>2, <2>3, SeqEqual
  <2> QED  BY <2>4 DEF u, v
<1> QED  BY <1>3, <1>4

-----------------------------------------------------------------------------
(* NextPercent is the first percent sign of the rest, if there is one.      *)
LEMMA NextPercentIs ==
  ASSUME rest \in Seq(Kinds)
  PROVE  /\ NextPercent = 0 => \A k \in 1..Len(rest) : rest[k] # "%"
         /\ NextPercent # 0 => /\ NextPercent \in 1..Len(rest)
                               /\ rest[NextPercent] = "%"
                               /\ \A k \in 1..NextPercent - 1 : rest[k] # "%"
<1> DEFINE I == {k \in 1..Len(rest) : rest[k] = "%"}
<1>1. NextPercent = IF I # {} THEN Min(I) ELSE 0
  BY DEF NextPercent, SelectInSeq
<1>2. Len(rest) \in Nat /\ I \in SUBSET Nat
  OBVIOUS
<1>3. CASE I = {}
  BY <1>1, <1>3
<1>4. CASE I # {}
  <2>1. Min(I) \in I /\ \A k \in I : Min(I) <= k
    BY <1>2, <1>4, MinIs
  <2>2. NextPercent = Min(I) /\ NextPercent \in 1..Len(rest) /\ rest[NextPercent] = "%"
    BY <1>1, <1>4, <2>1
  <2>3. ASSUME NEW k \in 1..NextPercent - 1  PROVE rest[k] # "%"
    <3>1. k \in 1..Len(rest) /\ k < NextPercent
      BY <1>2, <2>2
    <3> QED  BY <2>1, <2>2, <3>1
  <2> QED  BY <2>2, <2>3
<1> QED  BY <1>3, <1>4

(* Concatenation is associative.                                            *)
LEMMA Regroup ==
  ASSUME NEW S, NEW u \in Seq(S), NEW v \in Seq(S), NEW w \in Seq(S),
         NEW uv, uv = Joined(u, v), NEW uvw, uvw = Joined(uv, w), NEW vw, vw = Joined(v, w)
  PROVE  uvw = Joined(u, vw)
<1>1. (u \o v) \o w = u \o (v \o w)
  BY ConcatAssociative
<1> QED  BY <1>1 DEF Joined

(* Positions that contribute themselves contribute the text they are in.    *)
LEMMA ChunkContributes ==
  ASSUME format \in Seq(Kinds), NEW a \in 0..Len(format), NEW b \in a..Len(format),
         \A k \in a + 1..b : Contribution(k) = <<format[k]>>,
         Prefix(a) \in Seq(Pieces)
  PROVE  Prefix(b) = Prefix(a) \o SubSeq(format, a + 1, b)
<1> Len(format) \in Nat /\ a \in Nat /\ b \in Nat
  OBVIOUS
<1> DEFINE T == {k \in Nat : k \in a..b /\ Prefix(k) = Prefix(a) \o SubSeq(format, a + 1, k)}
<1>1. format \in Seq(Pieces)
  BY SeqMonotonic DEF Pieces
<1>2. a \in T
  <2>1. SubSeq(format, a + 1, a) = <<>>
    BY SubSeqEmpty
  <2> QED  BY <2>1, ConcatEmptySeq
<1>3. ASSUME NEW k \in a..b - 1, k \in T  PROVE k + 1 \in T
  <2>1. k \in Nat /\ k + 1 \in a + 1..b /\ k + 1 \in 1..Len(format) /\ a + 1 \in 1..Len(format)
        /\ k + 1 \in a + 1..Len(format) /\ k + 1 - 1 = k /\ k + 1 > 0
    OBVIOUS
  <2>2. Contribution(k + 1) = <<format[k + 1]>>
    BY <2>1
  <2>3. format[k + 1] \in Pieces
    BY <1>1, <2>1, ElementOfSeq
  <2>4. <<format[k + 1]>> \in Seq(Pieces)
    BY <2>3
  <2>5. Prefix(k + 1) = Prefix(k) \o <<format[k + 1]>>
    <3>1. Contribution(k + 1) \in Seq(Pieces)
      BY <2>2, <2>4
    <3>2. Prefix(k + 1) = Prefix(k) \o Contribution(k + 1)
      BY <2>1, <3>1, PrefixGrows
    <3> QED  BY <2>2, <3>2, Zenon
  <2>6. SubSeq(format, a + 1, k + 1) = SubSeq(format, a + 1, k) \o <<format[k + 1]>>
    <3>1. SubSeq(format, a + 1, k + 1) = SubSeq(format, a + 1, k + 1 - 1) \o <<format[k + 1]>>
      BY <1>1, <2>1, SubSeqRecursiveSecond
    <3> QED  BY <2>1, <3>1
  <2>7. SubSeq(format, a + 1, k) \in Seq(Pieces)
    <3>1. \A i \in a + 1..k : format[i] \in Pieces
      BY <1>1, <2>1, ElementOfSeq
    <3> QED  BY <2>1, <3>1, SubSeqProperties
  <2>8. Prefix(k) = Prefix(a) \o SubSeq(format, a + 1, k)
    BY <1>3
  <2>9. Prefix(k + 1) = Prefix(a) \o SubSeq(format, a + 1, k + 1)
    <3> DEFINE u == Prefix(a)
               v == SubSeq(format, a + 1, k)
               w == <<format[k + 1]>>
               uv == Prefix(k)
               uvw == Prefix(k + 1)
               vw == SubSeq(format, a + 1, k + 1)
    <3>1. u \in Seq(Pieces) /\ v \in Seq(Pieces) /\ w \in Seq(Pieces)
      BY <2>4, <2>7
    <3>2. uv = Joined(u, v) /\ uvw = Joined(uv, w) /\ vw = Joined(v, w)
      BY <2>5, <2>6, <2>8, Zenon DEF Joined
    <3>3. uvw = Joined(u, vw)
      <4> HIDE DEF u, v, w, uv, uvw, vw, T
      <4> QED  BY <3>1, <3>2, Regroup
    <3> QED  BY <3>3, Zenon DEF Joined
  <2>10. k + 1 \in Nat /\ k + 1 \in a..b
    BY <2>1
  <2> QED  BY <2>9, <2>10, Zenon
<1>4. \A k \in a..b : k \in T
  <2> HIDE DEF T
  <2> QED  BY <1>2, <1>3, IntervalInduction
<1>5. b \in T
  <2>1. b \in a..b
    OBVIOUS
  <2> QED  BY <1>4, <2>1, Zenon
<1> QED  BY <1>5, Zenon

(* Positions that contribute nothing change nothing.                        *)
LEMMA DigitsContributeNothing ==
  ASSUME NEW a \in Nat, NEW b \in Nat, a <= b,
         \A k \in a + 1..b : Contribution(k) = <<>>,
         Prefix(a) \in Seq(Pieces)
  PROVE  Prefix(b) = Prefix(a)
<1> DEFINE T == {k \in Nat : Prefix(k) = Prefix(a)}
<1>1. a \in T
  OBVIOUS
<1>2. ASSUME NEW k \in a..b - 1, k \in T  PROVE k + 1 \in T
  <2>1. k \in Nat /\ k + 1 \in Nat /\ k + 1 > 0 /\ k + 1 - 1 = k /\ k + 1 \in a + 1..b
    OBVIOUS
  <2>2. Contribution(k + 1) = <<>> /\ <<>> \in Seq(Pieces)
    BY <2>1, EmptySeq
  <2>3. Prefix(k + 1) = Prefix(k) \o <<>>
    <3>1. Contribution(k + 1) \in Seq(Pieces)
      BY <2>2
    <3>2. Prefix(k + 1) = Prefix(k) \o Contribution(k + 1)
      BY <2>1, <3>1, PrefixGrows
    <3> QED  BY <2>2, <3>2, Zenon
  <2> QED  BY <1>2, <2>1, <2>3, ConcatEmptySeq
<1>3. \A k \in a..b : k \in T
  <2> HIDE DEF T
  <2> QED  BY <1>1, <1>2, IntervalInduction
<1> QED  BY <1>3

-----------------------------------------------------------------------------
(* The rest of the format is the format from the scanned position on.       *)
LEMMA Aligned ==
  ASSUME TypeInv, RestInv
  PROVE  /\ Len(format) \in Nat /\ Len(rest) \in Nat /\ Scanned \in 0..Len(format)
         /\ Len(rest) = Len(format) - Scanned
         /\ \A k \in 1..Len(rest) : rest[k] = format[Scanned + k]
<1>1. format \in Seq(Kinds) /\ rest \in Seq(Kinds)
  BY DEF TypeInv
<1>2. Scanned \in 0..Len(format) /\ rest = SubSeq(format, Scanned + 1, Len(format))
  BY DEF RestInv
<1>3. Len(rest) = Len(format) - Scanned /\ \A k \in 1..Len(rest) : rest[k] = format[Scanned + k]
  BY <1>1, <1>2, SuffixIs
<1> QED  BY <1>1, <1>2, <1>3

(* The next placeholder of the rest is the next one of the format.          *)
LEMMA PercentAhead ==
  ASSUME TypeInv, RestInv, NextPercent # 0, NEW i, i = Scanned + NextPercent
  PROVE  /\ NextPercent \in 1..Len(rest)
         /\ i \in Percents /\ i \in Scanned + 1..Len(format)
         /\ \A k \in Scanned + 1..i - 1 : k \notin Percents
         /\ SubSeq(rest, NextPercent + 1, Len(rest)) = After(i)
<1>1. format \in Seq(Kinds) /\ rest \in Seq(Kinds)
  BY DEF TypeInv
<1>2. /\ Len(format) \in Nat /\ Len(rest) \in Nat /\ Scanned \in 0..Len(format)
      /\ Len(rest) = Len(format) - Scanned
      /\ \A k \in 1..Len(rest) : rest[k] = format[Scanned + k]
  BY Aligned
<1>3. NextPercent \in 1..Len(rest) /\ rest[NextPercent] = "%" /\ \A k \in 1..NextPercent - 1 : rest[k] # "%"
  BY <1>1, NextPercentIs
<1>4. i \in Nat /\ i \in Scanned + 1..Len(format) /\ i \in 1..Len(format)
  BY <1>2, <1>3
<1>5. i \in Percents
  <2>1. format[i] = "%"
    BY <1>2, <1>3
  <2> QED  BY <1>4, <2>1 DEF Percents
<1>6. ASSUME NEW k \in Scanned + 1..i - 1  PROVE k \notin Percents
  <2>1. k - Scanned \in 1..NextPercent - 1 /\ k - Scanned \in 1..Len(rest) /\ Scanned + (k - Scanned) = k
    BY <1>2, <1>3, <1>4
  <2>2. format[k] # "%"
    BY <1>2, <1>3, <2>1
  <2> QED  BY <2>2 DEF Percents
<1>7. SubSeq(rest, NextPercent + 1, Len(rest)) = After(i)
  <2>1. NextPercent \in 0..Len(rest)
    BY <1>3
  <2>2. rest = SubSeq(format, Scanned + 1, Len(format))
    BY DEF RestInv
  <2>3. SubSeq(rest, NextPercent + 1, Len(rest)) = SubSeq(format, Scanned + NextPercent + 1, Len(format))
    BY <1>1, <1>2, <2>1, <2>2, PartsOfSuffix
  <2> QED  BY <2>3 DEF After
<1> QED  BY <1>3, <1>4, <1>5, <1>6, <1>7

(* The text after position i, its digits, and the number they write.        *)
LEMMA AfterIs ==
  ASSUME format \in Seq(Kinds), NEW i \in 1..Len(format), NEW p, p = After(i), NEW n, n = DigitRun(p)
  PROVE  /\ p \in Seq(Kinds) /\ Len(p) = Len(format) - i /\ Len(p) \in Nat
         /\ n \in 0..Len(p)
         /\ \A k \in 1..Len(p) : p[k] = format[i + k]
         /\ \A k \in 1..n : p[k] \in Digits
         /\ PlaceholderEnd(i) = i + n /\ PlaceholderEnd(i) \in i..Len(format)
         /\ Index(i) = Number(p, n) /\ Index(i) \in Nat
<1>1. i \in 0..Len(format) /\ Len(format) \in Nat /\ i \in Nat
  OBVIOUS
<1>2. p \in Seq(Kinds) /\ Len(p) = Len(format) - i /\ \A k \in 1..Len(p) : p[k] = format[i + k]
  BY <1>1, SuffixIs DEF After
<1>3. n \in 0..Len(p) /\ \A k \in 1..n : p[k] \in Digits
  BY <1>2, DigitRunIs
<1>4. Len(p) \in Nat /\ n \in Nat
  BY <1>2, <1>3
<1>5. PlaceholderEnd(i) = i + n /\ Index(i) = Number(p, n)
  BY DEF PlaceholderEnd, Index
<1>6. Number(p, n) \in Nat
  BY <1>3, <1>4, NumberIs
<1> QED  BY <1>1, <1>2, <1>3, <1>4, <1>5, <1>6

(* splitNext looks at one character, and only within the rest               *)
(* (db/safesql.go:79-84); together with where the rest begins this decides  *)
(* whether a placeholder is separated from the text before it.              *)
LEMMA Adjacent ==
  ASSUME TypeInv, RestInv, ScanInv, status = "scanning", NextPercent # 0,
         NEW i, i = Scanned + NextPercent
  PROVE  Attached(NextPercent) <=> ~Separated(i)
<1>1. /\ NextPercent \in 1..Len(rest) /\ i \in Scanned + 1..Len(format)
      /\ \A k \in Scanned + 1..i - 1 : k \notin Percents
  BY PercentAhead
<1>2. /\ Len(format) \in Nat /\ Scanned \in 0..Len(format) /\ Len(rest) = Len(format) - Scanned
      /\ \A k \in 1..Len(rest) : rest[k] = format[Scanned + k]
  BY Aligned
<1>3. \A h \in Percents : h \in Nat
  BY DEF Percents
<1>4. CASE NextPercent = 1
  <2>1. i - 1 = Scanned /\ i \in Nat
    <3>1. Scanned \in Nat /\ i = Scanned + 1
      BY <1>2, <1>4
    <3> QED  BY <3>1
  <2>2. Scanned = 0 \/ \E h \in Percents : h < i /\ PlaceholderEnd(h) = i - 1
    <3>1. ASSUME NEW h \in Percents, PlaceholderEnd(h) = Scanned  PROVE h < i
      <4>1. format \in Seq(Kinds) /\ h \in 1..Len(format)
        BY DEF TypeInv, Percents
      <4>2. PlaceholderEnd(h) \in h..Len(format)
        BY <4>1, AfterIs
      <4> QED  BY <1>2, <2>1, <3>1, <4>1, <4>2
    <3> QED  BY <2>1, <3>1 DEF RestInv
  <2>3. Separated(i)
    BY <1>2, <1>4, <2>2 DEF Separated
  <2> QED  BY <1>4, <2>3 DEF Attached
<1>5. CASE NextPercent > 1
  <2>1. i # 1 /\ i \in Nat /\ i - 1 > Scanned /\ NextPercent - 1 \in 1..Len(rest)
        /\ Scanned + (NextPercent - 1) = i - 1
    BY <1>1, <1>2, <1>5
  <2>2. rest[NextPercent - 1] = format[i - 1]
    BY <1>2, <2>1
  <2>3. ASSUME NEW h \in Percents, h < i  PROVE PlaceholderEnd(h) # i - 1
    <3>1. h \in Nat /\ h <= Scanned
      <4>1. h \notin Scanned + 1..i - 1
        BY <1>1
      <4> QED  BY <1>2, <1>3, <2>1, <2>3, <4>1
    <3>2. PlaceholderEnd(h) <= Scanned
      BY <3>1 DEF ScanInv
    <3>3. PlaceholderEnd(h) \in Nat
      <4>1. format \in Seq(Kinds) /\ h \in 1..Len(format)
        BY DEF TypeInv, Percents
      <4>2. PlaceholderEnd(h) \in h..Len(format)
        BY <4>1, AfterIs
      <4> QED  BY <3>1, <4>2
    <3> QED  BY <1>2, <2>1, <3>2, <3>3
  <2>4. Separated(i) <=> format[i - 1] = "."
    BY <2>1, <2>3 DEF Separated
  <2> QED  BY <1>5, <2>2, <2>4 DEF Attached
<1> QED  BY <1>1, <1>2, <1>4, <1>5

(* What follows the n digits of a placeholder.                              *)
LEMMA RestAfter ==
  ASSUME format \in Seq(Kinds), NEW i \in 1..Len(format), NEW p, p = After(i), NEW n \in 0..Len(p)
  PROVE  SubSeq(p, n + 1, Len(p)) = SubSeq(format, i + n + 1, Len(format))
<1>1. i \in 0..Len(format)
  OBVIOUS
<1>2. p = SubSeq(format, i + 1, Len(format))
  BY DEF After
<1> QED  BY <1>1, <1>2, PartsOfSuffix

(* The fields of what splitNext returns.                                    *)
LEMMA Fields ==
  ASSUME NEW x, NEW y, NEW z, NEW split, split = [ok |-> x, index |-> y, rest |-> z]
  PROVE  split.ok = x /\ split.index = y /\ split.rest = z
OBVIOUS

(* An index that the arguments satisfy stays below the cap until its last   *)
(* digit.                                                                   *)
LEMMA CapSuffices ==
  ASSUME NEW x \in Nat, NEW d \in 0..2, NEW cap \in Nat \ {0}, NEW len \in Nat,
         len < 10 * cap, 10 * x + d <= len
  PROVE  ~(x >= cap)
OBVIOUS

(* SafeFormat goes on from a placeholder if and only if it is well formed,  *)
(* with its index and with the rest of the format after its digits.         *)
THEOREM Verdict ==
  ASSUME TypeInv, RestInv, ScanInv, status = "scanning", NextPercent # 0,
         NEW i, i = Scanned + NextPercent, NEW split, split = SplitNext(NextPercent)
  PROVE  /\ WellFormedAt(i) <=> split.ok /\ Renderable(split.index)
         /\ split.ok => /\ split.index = Index(i)
                        /\ split.rest = SubSeq(format, PlaceholderEnd(i) + 1, Len(format))
<1> DEFINE p == SubSeq(rest, NextPercent + 1, Len(rest))
           n == DigitRun(p)
           Refused == Attached(NextPercent) \/ n = 0 \/ p[1] = "0" \/ Number(p, n - 1) >= IndexCap
<1>1. split = IF Refused THEN [ok |-> FALSE, index |-> 0, rest |-> <<>>]
                ELSE [ok |-> TRUE, index |-> Number(p, n), rest |-> SubSeq(p, n + 1, Len(p))]
  BY DEF SplitNext
<1>2. format \in Seq(Kinds) /\ i \in Percents /\ i \in 1..Len(format) /\ p = After(i)
  BY PercentAhead DEF TypeInv, Percents
<1>3. n = DigitRun(p)
  OBVIOUS
<1> HIDE DEF p, n
<1>4. split.ok <=> ~Refused
  <2> HIDE DEF Refused
  <2> QED  BY <1>1
<1>5. ASSUME split.ok  PROVE split.index = Number(p, n) /\ split.rest = SubSeq(p, n + 1, Len(p))
  <2> HIDE DEF Refused
  <2>1. split = [ok |-> TRUE, index |-> Number(p, n), rest |-> SubSeq(p, n + 1, Len(p))]
    BY <1>1, <1>4, <1>5
  <2> DEFINE y == Number(p, n)
             z == SubSeq(p, n + 1, Len(p))
  <2> HIDE DEF y, z
  <2>2. split.index = y /\ split.rest = z
    <3>1. split = [ok |-> TRUE, index |-> y, rest |-> z]
      BY <2>1, Zenon DEF y, z
    <3> QED  BY <3>1, Fields
  <2> QED  BY <2>2, Zenon DEF y, z
<1> HIDE DEF Refused
<1>6. /\ p \in Seq(Kinds) /\ Len(p) = Len(format) - i /\ Len(p) \in Nat
      /\ n \in 0..Len(p)
      /\ \A k \in 1..Len(p) : p[k] = format[i + k]
      /\ \A k \in 1..n : p[k] \in Digits
      /\ PlaceholderEnd(i) = i + n /\ PlaceholderEnd(i) \in i..Len(format)
      /\ Index(i) = Number(p, n) /\ Index(i) \in Nat
  BY <1>2, <1>3, AfterIs
<1>7. ASSUME split.ok
      PROVE  /\ split.index = Index(i)
             /\ split.rest = SubSeq(format, PlaceholderEnd(i) + 1, Len(format))
  <2>1. SubSeq(p, n + 1, Len(p)) = SubSeq(format, i + n + 1, Len(format))
    BY <1>2, <1>6, RestAfter
  <2> QED  BY <1>5, <1>6, <1>7, <2>1
<1>8. Attached(NextPercent) <=> ~Separated(i)
  BY Adjacent
<1>9. n # 0 => p[1] = format[i + 1]
  <2>1. n # 0 => 1 \in 1..Len(p)
    BY <1>6
  <2> QED  BY <1>6, <2>1
<1>10. PlaceholderEnd(i) > i <=> n # 0
  BY <1>2, <1>6
<1>11. ASSUME n # 0  PROVE Number(p, n - 1) \in Nat /\ Number(p, n) = 10 * Number(p, n - 1) + DigitValue(p[n])
                          /\ DigitValue(p[n]) \in 0..2
  <2>1. n \in Nat /\ n > 0 /\ n - 1 \in Nat /\ n \in 1..n /\ \A k \in 1..n - 1 : k \in 1..n
    BY <1>6, <1>11
  <2>2. Number(p, n) = 10 * Number(p, n - 1) + DigitValue(p[n])
    BY <2>1, NumberUnfolds
  <2>3. Number(p, n - 1) \in Nat
    BY <1>6, <2>1, NumberIs
  <2>4. DigitValue(p[n]) \in 0..2
    BY <1>6, <2>1, DigitValueIs
  <2> QED  BY <2>2, <2>3, <2>4
<1>12. ASSUME n # 0, p[1] # "0"  PROVE Index(i) >= 1
  <2>1. n \in Nat /\ n > 0
    BY <1>6, <1>12
  <2> QED  BY <1>6, <1>12, <2>1, NumberIs
<1>13. Len(args) \in Nat /\ Len(args) < 10 * IndexCap /\ IndexCap \in Nat \ {0}
  <2>1. args \in Seq(STRING)
    BY SafeSQLAssumption DEF TypeInv
  <2> QED  BY <2>1, SafeSQLAssumption DEF TypeInv
<1>14. ASSUME WellFormedAt(i)  PROVE split.ok /\ Renderable(split.index)
  <2>1. n # 0 /\ p[1] # "0" /\ ~Attached(NextPercent)
    BY <1>8, <1>9, <1>10, <1>14 DEF WellFormedAt
  <2>2. Index(i) \in 1..Len(args) /\ args[Index(i)] # Unsupported
    BY <1>14 DEF WellFormedAt
  <2>3. ~(Number(p, n - 1) >= IndexCap)
    <3>1. 10 * Number(p, n - 1) + DigitValue(p[n]) <= Len(args)
      BY <1>6, <1>11, <1>13, <2>1, <2>2
    <3> QED  BY <1>11, <1>13, <2>1, <3>1, CapSuffices
  <2>4. split.ok
    BY <1>4, <2>1, <2>3 DEF Refused
  <2> QED  BY <1>7, <1>13, <2>2, <2>4 DEF Renderable
<1>15. ASSUME split.ok, Renderable(split.index)  PROVE WellFormedAt(i)
  <2>1. n # 0 /\ p[1] # "0" /\ ~Attached(NextPercent)
    BY <1>4, <1>15 DEF Refused
  <2>2. Index(i) <= Len(args) /\ args[Index(i)] # Unsupported
    BY <1>7, <1>15 DEF Renderable
  <2>3. Index(i) \in 1..Len(args)
    BY <1>6, <1>12, <1>13, <2>1, <2>2
  <2> QED  BY <1>8, <1>9, <1>10, <2>1, <2>2, <2>3 DEF WellFormedAt
<1> QED  BY <1>7, <1>14, <1>15

(* What the format says depends on nothing that the scan changes.           *)
LEMMA SameFormat ==
  ASSUME UNCHANGED <<format, args>>
  PROVE  /\ Percents' = Percents
         /\ \A i : PlaceholderEnd(i)' = PlaceholderEnd(i)
         /\ \A i : WellFormedAt(i)' = WellFormedAt(i)
         /\ \A i : Prefix(i)' = Prefix(i)
         /\ WellFormed' = WellFormed
         /\ Substituted' = Substituted
<1>1. Percents' = Percents
  BY DEF Percents
<1>2. ASSUME NEW i  PROVE After(i)' = After(i)
  BY DEF After
<1>3. ASSUME NEW i  PROVE PlaceholderEnd(i)' = PlaceholderEnd(i) /\ Index(i)' = Index(i)
  BY <1>2 DEF PlaceholderEnd, Index
<1>4. ASSUME NEW i  PROVE Separated(i)' = Separated(i)
  BY <1>1, <1>3 DEF Separated
<1>5. ASSUME NEW i  PROVE WellFormedAt(i)' = WellFormedAt(i)
  BY <1>3, <1>4 DEF WellFormedAt
<1>6. ASSUME NEW i  PROVE Contribution(i)' = Contribution(i)
  BY <1>1, <1>3 DEF Contribution
<1>7. ASSUME NEW n  PROVE Prefix(n)' = Prefix(n)
  BY <1>6 DEF Prefix
<1>8. WellFormed' = WellFormed
  BY <1>1, <1>3, <1>4 DEF WellFormed
<1>9. Substituted' = Substituted
  BY <1>6 DEF Substituted
<1> QED  BY <1>1, <1>3, <1>5, <1>7, <1>8, <1>9

-----------------------------------------------------------------------------
(* The strengthening holds before the scan.                                 *)
LEMMA InitEstablishes == Init => IInv
<1> SUFFICES ASSUME Init  PROVE IInv
  OBVIOUS
<1>1. format \in Seq(Kinds)
  BY SafeSQLAssumption DEF Init, SeqOf
<1>2. args \in ArgLists /\ rest = format /\ out = <<>> /\ status = "scanning"
  BY DEF Init
<1>3. Len(format) \in Nat
  BY <1>1
<1>4. Scanned = 0
  BY <1>2, <1>3 DEF Scanned
<1>5. TypeInv
  BY <1>1, <1>2 DEF TypeInv
<1>6. RestInv
  BY <1>1, <1>2, <1>3, <1>4, SubSeqFull DEF RestInv
<1>7. Prefix(0) = <<>>
  <2>1. Len([i \in 1..0 |-> Contribution(i)]) = 0 /\ [i \in 1..0 |-> Contribution(i)] = <<>>
    OBVIOUS
  <2> QED  BY <2>1 DEF Prefix, FlattenSeq
<1>8. ScanInv
  BY <1>2, <1>4, <1>7 DEF ScanInv, Percents
<1> QED  BY <1>2, <1>5, <1>6, <1>8 DEF IInv, SubstitutesExactly, RefusesOnlyMalformed

(* Text that no placeholder is in, from the scanned position on, is         *)
(* contributed unchanged.                                                   *)
LEMMA Between ==
  ASSUME TypeInv, RestInv, ScanInv, status = "scanning",
         NEW b \in Scanned..Len(format), \A k \in Scanned + 1..b : k \notin Percents
  PROVE  /\ \A k \in Scanned + 1..b : Contribution(k) = <<format[k]>>
         /\ Prefix(b) = out \o SubSeq(format, Scanned + 1, b)
<1>1. format \in Seq(Kinds) /\ Scanned \in 0..Len(format) /\ Len(format) \in Nat
  BY Aligned DEF TypeInv
<1>2. ASSUME NEW k \in Scanned + 1..b  PROVE Contribution(k) = <<format[k]>>
  <2>1. k \notin Percents /\ k \in Nat /\ k > Scanned /\ k \in Scanned + 1..b
    BY <1>1, <1>2
  <2>2. ASSUME NEW h \in Percents, h < k  PROVE ~(k <= PlaceholderEnd(h))
    <3>1. h \in 1..Len(format) /\ h \notin Scanned + 1..b
      BY DEF Percents
    <3>2. h <= Scanned
      BY <1>1, <2>1, <2>2, <3>1
    <3>3. PlaceholderEnd(h) <= Scanned
      BY <3>2 DEF ScanInv
    <3>4. PlaceholderEnd(h) \in h..Len(format)
      BY <1>1, <3>1, AfterIs
    <3> QED  BY <1>1, <2>1, <3>3, <3>4
  <2> QED  BY <2>1, <2>2 DEF Contribution
<1>3. Prefix(Scanned) = out /\ Prefix(Scanned) \in Seq(Pieces)
  BY DEF ScanInv, TypeInv
<1>4. Prefix(b) = Prefix(Scanned) \o SubSeq(format, Scanned + 1, b)
  BY <1>1, <1>2, <1>3, ChunkContributes
<1> QED  BY <1>2, <1>3, <1>4

(* With no placeholder left, the last chunk completes the substitution.     *)
LEMMA FinishPreserves == ASSUME IInv, Finish  PROVE IInv'
<1>1. TypeInv /\ RestInv /\ ScanInv /\ status = "scanning" /\ NextPercent = 0
  BY DEF IInv, Finish
<1>2. format' = format /\ args' = args /\ rest' = rest /\ out' = out \o rest /\ status' = "ok"
  BY DEF Finish
<1>3. format \in Seq(Kinds) /\ rest \in Seq(Kinds) /\ out \in Seq(Pieces)
  BY <1>1 DEF TypeInv
<1>4. /\ Len(format) \in Nat /\ Len(rest) \in Nat /\ Scanned \in 0..Len(format)
      /\ Len(rest) = Len(format) - Scanned
      /\ \A k \in 1..Len(rest) : rest[k] = format[Scanned + k]
  BY <1>1, Aligned
<1>5. ASSUME NEW k \in Scanned + 1..Len(format)  PROVE k \notin Percents
  <2>1. k - Scanned \in 1..Len(rest) /\ Scanned + (k - Scanned) = k
    BY <1>4
  <2>2. format[k] # "%"
    BY <1>1, <1>3, <1>4, <2>1, NextPercentIs
  <2> QED  BY <2>2 DEF Percents
<1>6. WellFormed
  <2>1. ASSUME NEW i \in Percents  PROVE WellFormedAt(i)
    <3>1. i \in 1..Len(format) /\ i \notin Scanned + 1..Len(format)
      BY <1>5 DEF Percents
    <3>2. i <= Scanned
      BY <1>4, <3>1
    <3> QED  BY <1>1, <3>2 DEF ScanInv
  <2> QED  BY <2>1 DEF WellFormed, WellFormedAt
<1>7. Prefix(Len(format)) = out \o rest
  <2>1. Len(format) \in Scanned..Len(format)
    BY <1>4
  <2>2. Prefix(Len(format)) = out \o SubSeq(format, Scanned + 1, Len(format))
    BY <1>1, <1>5, <2>1, Between
  <2> QED  BY <1>1, <2>2 DEF RestInv
<1>8. Substituted = out'
  BY <1>2, <1>7 DEF Substituted, Prefix
<1>9. SubstitutesExactly'
  <2>1. WellFormed' = WellFormed /\ Substituted' = Substituted
    BY <1>2, SameFormat
  <2> QED  BY <1>6, <1>8, <2>1 DEF SubstitutesExactly
<1>10. TypeInv'
  <2>1. rest \in Seq(Pieces)
    BY <1>3, SeqMonotonic DEF Pieces
  <2>2. out' \in Seq(Pieces)
    BY <1>2, <1>3, <2>1, ConcatProperties
  <2> QED  BY <1>1, <1>2, <2>2 DEF TypeInv
<1>11. RestInv'
  <2>1. Percents' = Percents /\ \A i : PlaceholderEnd(i)' = PlaceholderEnd(i)
    BY <1>2, SameFormat
  <2> QED  BY <1>1, <1>2, <2>1 DEF RestInv, Scanned
<1> QED  BY <1>2, <1>9, <1>10, <1>11 DEF IInv, ScanInv, RefusesOnlyMalformed

(* An error is a placeholder that is not well formed.                       *)
LEMMA FailPreserves == ASSUME IInv, Fail  PROVE IInv'
<1>1. TypeInv /\ RestInv /\ ScanInv /\ status = "scanning" /\ NextPercent # 0
  BY DEF IInv, Fail
<1>2. format' = format /\ args' = args /\ rest' = rest /\ out' = out /\ status' = "error"
  BY DEF Fail
<1> DEFINE i == Scanned + NextPercent
           split == SplitNext(NextPercent)
<1>3. split.ok => ~Renderable(split.index)
  BY DEF Fail
<1>4. WellFormedAt(i) <=> split.ok /\ Renderable(split.index)
  <2> HIDE DEF i, split
  <2>1. i = Scanned + NextPercent /\ split = SplitNext(NextPercent)
    BY DEF i, split
  <2> QED  BY <1>1, <2>1, Verdict
<1>5. i \in Percents
  BY <1>1, PercentAhead
<1>6. ~WellFormed
  BY <1>3, <1>4, <1>5 DEF WellFormed, WellFormedAt
<1>7. /\ WellFormed' = WellFormed
      /\ Percents' = Percents /\ \A h : PlaceholderEnd(h)' = PlaceholderEnd(h)
  BY <1>2, SameFormat
<1>8. TypeInv'
  BY <1>1, <1>2 DEF TypeInv
<1>9. RestInv'
  BY <1>1, <1>2, <1>7 DEF RestInv, Scanned
<1> QED  BY <1>2, <1>6, <1>7, <1>8, <1>9 DEF IInv, ScanInv, SubstitutesExactly, RefusesOnlyMalformed

(* The chunk before a placeholder, in the format.                           *)
LEMMA ChunkIs ==
  ASSUME TypeInv, RestInv, NEW b \in 0..Len(rest)
  PROVE  SubSeq(rest, 1, b) = SubSeq(format, Scanned + 1, Scanned + b)
<1>1. PICK a : a = Scanned
  OBVIOUS
<1>2. format \in Seq(Kinds) /\ a \in 0..Len(format) /\ rest = SubSeq(format, a + 1, Len(format))
  BY <1>1 DEF TypeInv, RestInv
<1>3. SubSeq(rest, 1, b) = SubSeq(format, a + 1, a + b)
  BY <1>2, PartsOfSuffix
<1> QED  BY <1>1, <1>3

(* A round of the loop writes what the chunk, the placeholder and its       *)
(* digits contribute, and goes on after them.                               *)
LEMMA SubstitutePreserves == ASSUME IInv, Substitute  PROVE IInv'
<1>1. TypeInv /\ RestInv /\ ScanInv /\ status = "scanning" /\ NextPercent # 0
  BY DEF IInv, Substitute
<1>2. PICK i : i = Scanned + NextPercent
  OBVIOUS
<1>3. PICK p, n, e : p = After(i) /\ n = DigitRun(p) /\ e = PlaceholderEnd(i)
  OBVIOUS
<1>4. PICK x, chunk, split : /\ x = args[Index(i)]
                             /\ chunk = SubSeq(rest, 1, NextPercent - 1)
                             /\ split = SplitNext(NextPercent)
  OBVIOUS
<1>5. /\ format' = format /\ args' = args /\ status' = status
      /\ split.ok /\ Renderable(split.index)
      /\ out' = Append(out \o chunk, args[split.index])
      /\ rest' = split.rest
  BY <1>4 DEF Substitute
<1>6. /\ WellFormedAt(i)
      /\ split.index = Index(i) /\ split.rest = SubSeq(format, e + 1, Len(format))
  BY <1>1, <1>2, <1>3, <1>4, <1>5, Verdict
<1>7. out' = Append(out \o chunk, x) /\ rest' = SubSeq(format, e + 1, Len(format))
  BY <1>4, <1>5, <1>6
<1>8. /\ format \in Seq(Kinds) /\ rest \in Seq(Kinds) /\ out \in Seq(Pieces) /\ args \in Seq(STRING)
      /\ args \in ArgLists
  BY <1>1, SafeSQLAssumption DEF TypeInv
<1>9. /\ Len(format) \in Nat /\ Len(rest) \in Nat /\ Scanned \in 0..Len(format)
      /\ Len(rest) = Len(format) - Scanned
  BY <1>1, Aligned
<1>10. /\ NextPercent \in 1..Len(rest)
      /\ i \in Percents /\ i \in Scanned + 1..Len(format)
      /\ \A k \in Scanned + 1..i - 1 : k \notin Percents
  BY <1>1, <1>2, PercentAhead
<1>11. i \in Nat /\ i \in 1..Len(format) /\ i - 1 \in Nat /\ i - 1 + 1 = i
      /\ i - 1 \in Scanned..Len(format) /\ Scanned + (NextPercent - 1) = i - 1
      /\ NextPercent - 1 \in 0..Len(rest)
  BY <1>2, <1>9, <1>10
<1>12. chunk = SubSeq(format, Scanned + 1, i - 1)
  <2>1. chunk = SubSeq(format, Scanned + 1, Scanned + (NextPercent - 1))
    BY <1>1, <1>4, <1>11, ChunkIs
  <2> QED  BY <1>11, <2>1
<1>13. /\ e = i + n /\ e \in i..Len(format) /\ n \in 0..Len(p)
       /\ Len(p) = Len(format) - i
       /\ \A k \in 1..Len(p) : p[k] = format[i + k]
       /\ \A k \in 1..n : p[k] \in Digits
  <2>1. /\ PlaceholderEnd(i) = i + n /\ PlaceholderEnd(i) \in i..Len(format) /\ n \in 0..Len(p)
        /\ Len(p) = Len(format) - i
        /\ \A k \in 1..Len(p) : p[k] = format[i + k]
        /\ \A k \in 1..n : p[k] \in Digits
    <3>1. format \in Seq(Kinds) /\ i \in 1..Len(format) /\ p = After(i) /\ n = DigitRun(p)
      BY <1>3, <1>8, <1>11
    <3> QED  BY <3>1, AfterIs
  <2>2. e = PlaceholderEnd(i)
    BY <1>3
  <2> QED  BY <2>1, <2>2, Zenon
<1>14. x \in STRING /\ x \in Pieces /\ <<x>> \in Seq(Pieces)
  <2>1. Index(i) \in 1..Len(args)
    BY <1>6 DEF WellFormedAt
  <2>2. x \in STRING
    BY <1>4, <1>8, <2>1, ElementOfSeq
  <2>3. x \in Pieces
    BY <2>2 DEF Pieces
  <2>4. <<x>> \in Seq(Pieces)
    BY <2>3
  <2> QED  BY <2>2, <2>3, <2>4, Zenon
<1>15. Contribution(i) = <<x>>
  BY <1>4, <1>10 DEF Contribution
<1>16. Prefix(i - 1) = out \o chunk
  BY <1>1, <1>10, <1>11, <1>12, Between
<1>17. Prefix(i - 1) \in Seq(Pieces)
  <2>1. \A k \in 1..NextPercent - 1 : rest[k] \in Pieces
    BY <1>8, <1>9, <1>10 DEF Pieces
  <2>2. chunk \in Seq(Pieces)
    BY <1>9, <1>10, <2>1, <1>4, SubSeqProperties
  <2> QED  BY <1>8, <1>16, <2>2, ConcatProperties
<1>18. Prefix(i) = Prefix(i - 1) \o <<x>>
  <2>1. Contribution(i - 1 + 1) \in Seq(Pieces)
    BY <1>11, <1>14, <1>15
  <2>2. Prefix(i - 1 + 1) = Prefix(i - 1) \o Contribution(i - 1 + 1)
    BY <1>11, <2>1, PrefixGrows
  <2> QED  BY <1>11, <1>15, <2>2, Zenon
<1>19. out' = Prefix(i) /\ out' \in Seq(Pieces)
  <2> DEFINE q == Prefix(i - 1)
  <2>1. out' = Append(q, x)
    BY <1>7, <1>16, Zenon
  <2>2. q \in Seq(Pieces) /\ Prefix(i) = q \o <<x>>
    BY <1>17, <1>18
  <2> HIDE DEF q
  <2> QED  BY <1>14, <2>1, <2>2, AppendIsConcat, AppendProperties
<1>20. ASSUME NEW k \in i + 1..e  PROVE k \notin Percents /\ Contribution(k) = <<>>
  <2>1. k - i \in 1..n /\ k - i \in 1..Len(p) /\ i + (k - i) = k /\ i < k /\ k <= e
    BY <1>9, <1>11, <1>13
  <2>2. format[k] \in Digits
    BY <1>13, <2>1
  <2>3. k \notin Percents
    BY <2>2 DEF Percents, Digits
  <2>4. i < k /\ k <= PlaceholderEnd(i)
    BY <1>3, <2>1
  <2> QED  BY <1>10, <2>3, <2>4 DEF Contribution
<1>21. Prefix(e) = out'
  <2>1. e \in Nat /\ i <= e
    BY <1>11, <1>13
  <2>2. Prefix(i) \in Seq(Pieces)
    BY <1>19
  <2>3. Prefix(e) = Prefix(i)
    BY <1>11, <1>20, <2>1, <2>2, DigitsContributeNothing
  <2> QED  BY <1>19, <2>3
<1>22. e \in 0..Len(format) /\ e \in Nat
  BY <1>9, <1>11, <1>13
<1>23. rest' \in Seq(Kinds) /\ Len(rest') = Len(format) - e
  BY <1>7, <1>8, <1>22, SuffixIs
<1>24. Scanned' = e
  BY <1>5, <1>9, <1>22, <1>23 DEF Scanned
<1>25. /\ Percents' = Percents
       /\ \A h : PlaceholderEnd(h)' = PlaceholderEnd(h)
       /\ \A h : WellFormedAt(h)' = WellFormedAt(h)
       /\ \A h : Prefix(h)' = Prefix(h)
  BY <1>5, SameFormat
<1>26. TypeInv'
  BY <1>1, <1>5, <1>8, <1>19, <1>23 DEF TypeInv
<1>27. RestInv'
  <2>1. PlaceholderEnd(i)' = Scanned' /\ i \in Percents'
    BY <1>3, <1>10, <1>24, <1>25
  <2>2. Scanned' \in 0..Len(format') /\ rest' = SubSeq(format', Scanned' + 1, Len(format'))
    BY <1>5, <1>7, <1>22, <1>24
  <2> QED  BY <2>1, <2>2 DEF RestInv
<1>28. ASSUME NEW h \in Percents, h <= e  PROVE WellFormedAt(h) /\ PlaceholderEnd(h) <= e
  <2>1. h \in Nat /\ h \notin i + 1..e /\ h \notin Scanned + 1..i - 1
    BY <1>10, <1>20 DEF Percents
  <2>2. h = i \/ h <= Scanned
    BY <1>9, <1>11, <1>22, <1>28, <2>1
  <2>3. CASE h = i
    BY <1>6, <1>3, <1>22, <2>3
  <2>4. CASE h <= Scanned
    <3>1. WellFormedAt(h) /\ PlaceholderEnd(h) <= Scanned
      BY <1>1, <2>4 DEF ScanInv
    <3>2. PlaceholderEnd(h) \in h..Len(format)
      BY <1>8, AfterIs DEF Percents
    <3>3. Scanned <= e
      BY <1>9, <1>10, <1>13
    <3> QED  BY <1>9, <1>22, <2>1, <3>1, <3>2, <3>3
  <2> QED  BY <2>2, <2>3, <2>4
<1>29. ScanInv'
  <2>1. \A h \in Percents' : h <= Scanned' => WellFormedAt(h)' /\ PlaceholderEnd(h)' <= Scanned'
    BY <1>24, <1>25, <1>28
  <2>2. out' = Prefix(e)'
    BY <1>21, <1>25
  <2>3. Prefix(Scanned)' = Prefix(e)'
    BY <1>24
  <2> QED  BY <2>1, <2>2, <2>3 DEF ScanInv
<1> QED  BY <1>1, <1>5, <1>26, <1>27, <1>29 DEF IInv, SubstitutesExactly, RefusesOnlyMalformed

(* The strengthening survives stuttering.                                   *)
LEMMA StutterPreserves == ASSUME IInv, UNCHANGED vars  PROVE IInv'
<1>1. format' = format /\ args' = args /\ rest' = rest /\ out' = out /\ status' = status /\ Scanned' = Scanned
  BY DEF vars, Scanned
<1>2. /\ Percents' = Percents
      /\ \A h : PlaceholderEnd(h)' = PlaceholderEnd(h)
      /\ \A h : WellFormedAt(h)' = WellFormedAt(h)
      /\ \A h : Prefix(h)' = Prefix(h)
      /\ WellFormed' = WellFormed /\ Substituted' = Substituted
  BY <1>1, SameFormat
<1>3. TypeInv'
  BY <1>1 DEF IInv, TypeInv
<1>4. RestInv'
  BY <1>1, <1>2 DEF IInv, RestInv
<1>5. ScanInv'
  <2>1. PICK n : n = Scanned
    OBVIOUS
  <2>2. Prefix(n)' = Prefix(n) /\ Scanned' = n
    BY <1>1, <1>2, <2>1
  <2>3. Prefix(Scanned)' = Prefix(n)'
    BY <2>2
  <2> QED  BY <1>1, <1>2, <2>1, <2>2, <2>3 DEF IInv, ScanInv
<1>6. SubstitutesExactly' /\ RefusesOnlyMalformed'
  BY <1>1, <1>2 DEF IInv, SubstitutesExactly, RefusesOnlyMalformed
<1> QED  BY <1>3, <1>4, <1>5, <1>6 DEF IInv

(* The strengthening is an invariant, for formats and arguments of every    *)
(* length.                                                                  *)
THEOREM Inductive == Spec => []IInv
<1>1. Init => IInv
  BY InitEstablishes
<1>2. IInv /\ [Next]_vars => IInv'
  <2> SUFFICES ASSUME IInv, [Next]_vars  PROVE IInv'
    OBVIOUS
  <2>1. CASE Finish
    BY <2>1, FinishPreserves
  <2>2. CASE Substitute
    BY <2>2, SubstitutePreserves
  <2>3. CASE Fail
    BY <2>3, FailPreserves
  <2>4. CASE UNCHANGED vars
    BY <2>4, StutterPreserves
  <2> QED  BY <2>1, <2>2, <2>3, <2>4 DEF Next, Returned
<1> QED  BY <1>1, <1>2, PTL DEF Spec

(* What SafeFormat returns is the format with every placeholder replaced by *)
(* its own argument and nothing else touched.                               *)
THEOREM ExactSubstitution == Spec => []SubstitutesExactly
<1>1. IInv => SubstitutesExactly
  BY DEF IInv
<1> QED  BY <1>1, Inductive, PTL

(* SafeFormat refuses only formats and arguments that are wrong: the cap on *)
(* indices refuses none that the arguments could satisfy.                   *)
THEOREM OnlyMalformedRefused == Spec => []RefusesOnlyMalformed
<1>1. IInv => RefusesOnlyMalformed
  BY DEF IInv
<1> QED  BY <1>1, Inductive, PTL
===============================================================================
