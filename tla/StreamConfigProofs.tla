------------------------- MODULE StreamConfigProofs -------------------------
(***************************************************************************)
(* sanitized_name gives every topic a normal file name, which is the name  *)
(* of itself.                                                              *)
(*                                                                         *)
(* Its loop over characters needs induction over the length of a topic,    *)
(* which is written as the principle of the least element: there is no     *)
(* first prefix for which a claim fails, if the claim about the prefix     *)
(* before it makes it true.                                                *)
(***************************************************************************)
EXTENDS StreamConfig, SequenceTheorems, WellFoundedInduction, TLAPS

\* Induction over the length of a topic, as the principle of the least element.
LEMMA Least ==
    ASSUME NEW T, T \subseteq Nat, T # {}
    PROVE  \E m \in T : \A n \in T : m <= n
<1>1. IsWellFoundedOn(OpToRel(<, Nat), Nat)
  BY NatLessThanWellFounded, Zenon
<1>2. PICK x \in T : \A y \in T : ~ (<<y, x>> \in OpToRel(<, Nat))
  BY <1>1, WFMin, Zenon
<1>3. \A y \in T : y < x => <<y, x>> \in OpToRel(<, Nat)
  BY SMT DEF OpToRel
<1>4. \A y \in T : ~(y < x)
  BY <1>2, <1>3, Zenon
<1>5. \A y \in T : x <= y
  BY <1>4, SMT
<1> QED
  BY <1>5, Zenon

LEMMA Greatest ==
    ASSUME NEW L \in Nat, NEW T, T \subseteq 0..L, T # {}
    PROVE  \E m \in T : \A n \in T : n <= m
<1> DEFINE R == {L - n : n \in T}
<1>1. R \subseteq Nat /\ R # {}
  <2>1. PICK t \in T : TRUE
    OBVIOUS
  <2>2. L - t \in R
    OBVIOUS
  <2>3. \A n \in 0..L : L - n \in Nat
    OBVIOUS
  <2>4. R \subseteq Nat
    BY <2>3
  <2> QED
    BY <2>2, <2>4
<1> HIDE DEF R
<1>2. PICK r \in R : \A q \in R : r <= q
  BY <1>1, Least
<1>3. PICK m \in T : r = L - m
  BY DEF R
<1>4. \A n \in T : L - n \in R
  BY DEF R
<1>5. \A n \in T : n <= m
  BY <1>2, <1>3, <1>4
<1> QED
  BY <1>5

-----------------------------------------------------------------------------

\* What the loop makes of one more character.
AfterNext(name, n, q) ==
    IF n > 1 /\ name[n] = Underscore /\ name[n - 1] = Underscore THEN q
    ELSE Append(q, name[n])

\* The recursion defines a value for every prefix.
LEMMA PrefixesDefined ==
    ASSUME NEW name, Len(name) \in Nat
    PROVE  CollapsedPrefixes(name) =
               [n \in 0..Len(name) |->
                   IF n = 0 THEN <<>>
                   ELSE AfterNext(name, n, CollapsedPrefixes(name)[n - 1])]
<1> DEFINE F(u, m) == [n \in 0..m |-> IF n = 0 THEN <<>>
                                      ELSE AfterNext(name, n, u[n - 1])]
           T == {m \in 0..Len(name) : ~ \E u : u = F(u, m)}
<1>1. T = {}
  <2> SUFFICES ASSUME T # {} PROVE FALSE
    OBVIOUS
  <2>1. T \subseteq Nat
    OBVIOUS
  <2>2. PICK m \in T : \A n \in T : m <= n
    <3> HIDE DEF T
    <3> QED
      BY <2>1, Least
  <2>3. m \in 0..Len(name) /\ ~ \E u : u = F(u, m)
    OBVIOUS
  <2>4. CASE m = 0
    <3> DEFINE z == [n \in 0..0 |-> <<>>]
    <3>1. z = F(z, 0)
      OBVIOUS
    <3> QED
      BY <2>3, <2>4, <3>1
  <2>5. CASE m # 0
    <3>1. m - 1 \in 0..Len(name) /\ ~(m <= m - 1)
      BY <2>3, <2>5
    <3>2. m - 1 \notin T
      BY <2>2, <3>1
    <3>3. PICK u : u = F(u, m - 1)
      BY <3>1, <3>2
    <3> DEFINE v == [n \in 0..m |-> IF n < m THEN u[n] ELSE AfterNext(name, m, u[m - 1])]
    <3>4. \A n \in 0..(m - 1) :
              u[n] = IF n = 0 THEN <<>> ELSE AfterNext(name, n, u[n - 1])
      BY <3>3
    <3>5. \A n \in 0..m : v[n] = IF n < m THEN u[n] ELSE AfterNext(name, m, u[m - 1])
      OBVIOUS
    <3>6. \A n \in 0..m : v[n] = IF n = 0 THEN <<>> ELSE AfterNext(name, n, v[n - 1])
      <4> HIDE DEF v
      <4> SUFFICES ASSUME NEW n \in 0..m
                   PROVE  v[n] = IF n = 0 THEN <<>> ELSE AfterNext(name, n, v[n - 1])
        OBVIOUS
      <4>1. CASE n = 0
        BY <2>3, <2>5, <3>4, <3>5, <4>1
      <4>2. CASE n # 0
        <5>1. n - 1 \in 0..m /\ n - 1 < m
          BY <2>3, <4>2
        <5>2. v[n - 1] = u[n - 1]
          BY <3>5, <5>1
        <5>3. v[n] = AfterNext(name, n, u[n - 1])
          <6>1. CASE n < m
            <7>1. n \in 0..(m - 1)
              BY <2>3, <6>1
            <7> QED
              BY <3>4, <3>5, <4>2, <6>1, <7>1
          <6>2. CASE n = m
            BY <3>5, <6>2, <2>3
          <6> QED
            BY <2>3, <6>1, <6>2
        <5> QED
          BY <4>2, <5>2, <5>3
      <4> QED
        BY <4>1, <4>2
    <3>7. v = F(v, m)
      BY <3>6
    <3> QED
      BY <2>3, <3>7
  <2> QED
    BY <2>4, <2>5
<1>2. \E u : u = F(u, Len(name))
  BY <1>1
<1>3. CollapsedPrefixes(name) = CHOOSE u : u = F(u, Len(name))
  BY DEF CollapsedPrefixes, AfterNext
<1>4. (CHOOSE u : u = F(u, Len(name))) =
          F(CHOOSE u : u = F(u, Len(name)), Len(name))
  BY <1>2
<1> QED
  BY <1>3, <1>4

\* What every character of a name that is not in its place would break.
NoPairs(q) == \A i \in 2..Len(q) : ~(q[i] = Underscore /\ q[i - 1] = Underscore)

CollapsedUpTo(S, name, n, q) ==
    /\ q \in Seq(S)
    /\ n = 0 => q = <<>>
    /\ n > 0 => Len(q) > 0 /\ q[Len(q)] = name[n]
    /\ NoPairs(q)

LEMMA StepCollapses ==
    ASSUME NEW S, NEW name \in Seq(S), NEW n \in 1..Len(name), NEW q,
           CollapsedUpTo(S, name, n - 1, q)
    PROVE  CollapsedUpTo(S, name, n, AfterNext(name, n, q))
<1>1. /\ q \in Seq(S) /\ Len(q) \in Nat
      /\ n - 1 = 0 => Len(q) = 0
      /\ n - 1 > 0 => Len(q) > 0 /\ q[Len(q)] = name[n - 1]
      /\ NoPairs(q)
  BY LenProperties, EmptySeq DEF CollapsedUpTo
<1>2. n \in Nat /\ n > 0 /\ name[n] \in S
  BY ElementOfSeq, LenProperties
<1>3. CASE n > 1 /\ name[n] = Underscore /\ name[n - 1] = Underscore
  <2>1. AfterNext(name, n, q) = q
    BY <1>3 DEF AfterNext
  <2> QED
    BY <1>1, <1>2, <1>3, <2>1 DEF CollapsedUpTo
<1>4. CASE ~(n > 1 /\ name[n] = Underscore /\ name[n - 1] = Underscore)
  <2> DEFINE r == Append(q, name[n])
  <2>1. AfterNext(name, n, q) = r
    BY <1>4 DEF AfterNext
  <2>2. /\ r \in Seq(S) /\ Len(r) = Len(q) + 1
        /\ \A i \in 1..Len(q) : r[i] = q[i]
        /\ r[Len(q) + 1] = name[n]
    BY <1>1, <1>2, AppendProperties
  <2> HIDE DEF r
  <2>3. NoPairs(r)
    <3> SUFFICES ASSUME NEW i \in 2..Len(r), r[i] = Underscore, r[i - 1] = Underscore
                 PROVE  FALSE
      BY DEF NoPairs
    <3>1. CASE i <= Len(q)
      <4>1. i \in 2..Len(q) /\ i \in 1..Len(q) /\ i - 1 \in 1..Len(q)
        BY <1>1, <2>2, <3>1
      <4>2. q[i] = Underscore /\ q[i - 1] = Underscore
        BY <2>2, <4>1
      <4> QED
        BY <1>1, <4>1, <4>2 DEF NoPairs
    <3>2. CASE i = Len(q) + 1
      <4>1. Len(q) \in 1..Len(q) /\ i - 1 = Len(q)
        BY <1>1, <3>2
      <4>2. name[n] = Underscore /\ q[Len(q)] = Underscore
        BY <2>2, <3>2, <4>1
      <4>3. n > 1 /\ name[n - 1] = Underscore
        BY <1>1, <1>2, <4>1, <4>2
      <4> QED
        BY <1>4, <4>2, <4>3
    <3> QED
      BY <1>1, <2>2, <3>1, <3>2
  <2>4. Len(r) > 0 /\ r[Len(r)] = name[n]
    BY <1>1, <2>2
  <2> QED
    BY <1>2, <2>1, <2>2, <2>3, <2>4 DEF CollapsedUpTo
<1> QED
  BY <1>3, <1>4

\* The loop leaves no two underscores in a row.
LEMMA CollapsedHasNoPairs ==
    ASSUME NEW S, NEW name \in Seq(S)
    PROVE  Collapsed(name) \in Seq(S) /\ NoPairs(Collapsed(name))
<1> DEFINE u == CollapsedPrefixes(name)
           T == {n \in 0..Len(name) : ~CollapsedUpTo(S, name, n, u[n])}
<1>1. Len(name) \in Nat
  BY LenProperties
<1>2. \A n \in 0..Len(name) :
          u[n] = IF n = 0 THEN <<>> ELSE AfterNext(name, n, u[n - 1])
  BY <1>1, PrefixesDefined
<1> HIDE DEF u
<1>3. T = {}
  <2> SUFFICES ASSUME T # {} PROVE FALSE
    OBVIOUS
  <2>1. T \subseteq Nat
    BY <1>1
  <2>2. PICK m \in T : \A n \in T : m <= n
    <3> HIDE DEF T
    <3> QED
      BY <2>1, Least
  <2>3. m \in 0..Len(name) /\ ~CollapsedUpTo(S, name, m, u[m])
    OBVIOUS
  <2>4. CASE m = 0
    <3>1. u[m] = <<>>
      BY <1>2, <2>3, <2>4
    <3>2. <<>> \in Seq(S) /\ Len(<<>>) = 0
      BY EmptySeq
    <3>3. NoPairs(<<>>)
      BY <3>2 DEF NoPairs
    <3> QED
      BY <2>3, <2>4, <3>1, <3>2, <3>3 DEF CollapsedUpTo
  <2>5. CASE m # 0
    <3>1. m \in 1..Len(name) /\ m - 1 \in 0..Len(name) /\ ~(m <= m - 1)
      BY <1>1, <2>3, <2>5
    <3>2. CollapsedUpTo(S, name, m - 1, u[m - 1])
      BY <2>2, <3>1
    <3>3. CollapsedUpTo(S, name, m, AfterNext(name, m, u[m - 1]))
      BY <3>1, <3>2, StepCollapses
    <3> QED
      BY <1>2, <2>3, <2>5, <3>3
  <2> QED
    BY <2>4, <2>5
<1>4. CollapsedUpTo(S, name, Len(name), u[Len(name)])
  BY <1>1, <1>3
<1> QED
  BY <1>4 DEF CollapsedUpTo, Collapsed, u

\* It leaves a name that has none as it is.
LEMMA CollapsedKeeps ==
    ASSUME NEW S, NEW name \in Seq(S), NoPairs(name)
    PROVE  Collapsed(name) = name
<1> DEFINE u == CollapsedPrefixes(name)
           Same(n) == /\ u[n] \in Seq(S) /\ Len(u[n]) = n
                      /\ \A i \in 1..n : u[n][i] = name[i]
           T == {n \in 0..Len(name) : ~Same(n)}
<1>1. Len(name) \in Nat
  BY LenProperties
<1>2. \A n \in 0..Len(name) :
          u[n] = IF n = 0 THEN <<>> ELSE AfterNext(name, n, u[n - 1])
  BY <1>1, PrefixesDefined
<1> HIDE DEF u
<1>3. T = {}
  <2> SUFFICES ASSUME T # {} PROVE FALSE
    OBVIOUS
  <2>1. T \subseteq Nat
    BY <1>1
  <2>2. PICK m \in T : \A n \in T : m <= n
    <3> HIDE DEF T
    <3> QED
      BY <2>1, Least
  <2>3. m \in 0..Len(name) /\ ~Same(m)
    OBVIOUS
  <2>4. CASE m = 0
    <3>1. u[m] = <<>>
      BY <1>2, <2>3, <2>4
    <3>2. Same(m)
      BY <2>4, <3>1, EmptySeq
    <3> QED
      BY <2>3, <3>2
  <2>5. CASE m # 0
    <3>1. m \in 1..Len(name) /\ m - 1 \in 0..Len(name) /\ ~(m <= m - 1)
      BY <1>1, <2>3, <2>5
    <3>2. Same(m - 1)
      BY <2>2, <3>1
    <3>3. ~(m > 1 /\ name[m] = Underscore /\ name[m - 1] = Underscore)
      BY <1>1, <3>1 DEF NoPairs
    <3>4. u[m] = Append(u[m - 1], name[m])
      BY <1>2, <2>3, <2>5, <3>3 DEF AfterNext
    <3>5. name[m] \in S
      BY <3>1, ElementOfSeq
    <3>6. /\ u[m] \in Seq(S) /\ Len(u[m]) = m
          /\ \A i \in 1..(m - 1) : u[m][i] = name[i]
          /\ u[m][m] = name[m]
      <4> DEFINE q == u[m - 1]
      <4>1. q \in Seq(S) /\ Len(q) = m - 1 /\ \A i \in 1..(m - 1) : q[i] = name[i]
        BY <3>2
      <4>2. u[m] = Append(q, name[m])
        BY <3>4
      <4> HIDE DEF q
      <4> QED
        BY <3>1, <3>5, <4>1, <4>2, AppendProperties
    <3>7. Same(m)
      BY <3>1, <3>6
    <3> QED
      BY <2>3, <3>7
  <2> QED
    BY <2>4, <2>5
<1>4. Same(Len(name))
  BY <1>1, <1>3
<1> QED
  BY <1>4, SeqEqual DEF Collapsed, u

-----------------------------------------------------------------------------
(* The trimmed ends, and the whole                                         *)

\* The characters of a name.
NameCharacters == {Lower[c] : c \in Alphanumeric} \cup {Underscore}

\* trim_matches cuts a name at its first and last character that is kept.
LEMMA TrimmedCuts ==
    ASSUME NEW S, NEW name \in Seq(S),
           NEW k \in 1..Len(name), name[k] # Underscore
    PROVE  \E a \in 1..Len(name), b \in 1..Len(name) :
               /\ a <= b /\ name[a] # Underscore /\ name[b] # Underscore
               /\ \A i \in 1..Len(name) : name[i] # Underscore => a <= i /\ i <= b
               /\ Trimmed(name) = SubSeq(name, a, b)
<1> DEFINE kept == {i \in DOMAIN name : name[i] # Underscore}
<1>1. Len(name) \in Nat /\ DOMAIN name = 1..Len(name)
  BY LenProperties
<1>2. \A i : i \in kept <=> i \in 1..Len(name) /\ name[i] # Underscore
  BY <1>1
<1>3. Trimmed(name) = IF kept = {} THEN <<>> ELSE SubSeq(name, Min(kept), Max(kept))
  BY DEF Trimmed
<1> HIDE DEF kept
<1>4. kept \subseteq Nat /\ kept \subseteq 0..Len(name) /\ kept # {}
  BY <1>1, <1>2
<1>5. \E m \in kept : \A n \in kept : m <= n
  BY <1>4, Least
<1>6. Min(kept) \in kept /\ \A n \in kept : Min(kept) <= n
  BY <1>5 DEF Min
<1>7. \E m \in kept : \A n \in kept : n <= m
  BY <1>1, <1>4, Greatest
<1>8. Max(kept) \in kept /\ \A n \in kept : n <= Max(kept)
  BY <1>4, <1>7 DEF Max
<1>9. Trimmed(name) = SubSeq(name, Min(kept), Max(kept))
  BY <1>3, <1>4
<1> QED
  BY <1>2, <1>6, <1>8, <1>9

\* What it leaves of a name without pairs is a normal name.
LEMMA TrimmedIsNormal ==
    ASSUME NEW name \in Seq(NameCharacters), NoPairs(name)
    PROVE  Trimmed(name) \in Seq(NameCharacters) /\ NormalName(Trimmed(name))
<1>1. Len(name) \in Nat /\ DOMAIN name = 1..Len(name)
  BY LenProperties
<1>2. CASE \A i \in 1..Len(name) : name[i] = Underscore
  <2>1. Trimmed(name) = <<>>
    BY <1>1, <1>2 DEF Trimmed
  <2>2. <<>> \in Seq(NameCharacters) /\ DOMAIN <<>> = {}
    BY EmptySeq
  <2>3. NormalName(<<>>)
    BY <2>2 DEF NormalName
  <2> QED
    BY <2>1, <2>2, <2>3
<1>3. CASE \E k \in 1..Len(name) : name[k] # Underscore
  <2>1. PICK k \in 1..Len(name) : name[k] # Underscore
    BY <1>3
  <2>2. PICK a \in 1..Len(name), b \in 1..Len(name) :
            /\ a <= b /\ name[a] # Underscore /\ name[b] # Underscore
            /\ Trimmed(name) = SubSeq(name, a, b)
    BY <2>1, TrimmedCuts
  <2> DEFINE t == SubSeq(name, a, b)
  <2>3. a \in Nat /\ b \in Nat /\ a >= 1 /\ b <= Len(name) /\ a <= b
    BY <1>1, <2>2
  <2>4. \A i \in a..b : i \in 1..Len(name) /\ name[i] \in NameCharacters
    BY <1>1, <2>3, ElementOfSeq
  <2>5. /\ t \in Seq(NameCharacters) /\ Len(t) = (b - a) + 1
        /\ \A i \in 1..((b - a) + 1) : t[i] = name[(a + i) - 1]
    BY <2>3, <2>4, SubSeqProperties
  <2> HIDE DEF t
  <2>6. Len(t) \in Nat /\ DOMAIN t = 1..Len(t)
    BY <2>5, LenProperties
  <2>7. \A i \in 1..Len(t) : t[i] \in NameCharacters
    BY <2>5, ElementOfSeq
  <2>8. t[1] # Underscore /\ t[Len(t)] # Underscore
    <3>1. 1 \in 1..((b - a) + 1) /\ (b - a) + 1 \in 1..((b - a) + 1)
      BY <2>3
    <3>2. (a + 1) - 1 = a /\ (a + ((b - a) + 1)) - 1 = b
      BY <2>3
    <3> QED
      BY <2>2, <2>5, <3>1, <3>2
  <2>9. ASSUME NEW i \in 1..Len(t), t[i] = Underscore
        PROVE  i > 1 /\ i < Len(t) /\ t[i - 1] # Underscore
    <3>1. i > 1 /\ i < Len(t)
      BY <2>6, <2>8, <2>9
    <3>2. i \in 1..((b - a) + 1) /\ i - 1 \in 1..((b - a) + 1)
      BY <2>3, <2>5, <3>1
    <3> DEFINE j == (a + i) - 1
    <3>3. j \in 2..Len(name) /\ (a + (i - 1)) - 1 = j - 1
      BY <1>1, <2>3, <3>1, <3>2
    <3>4. t[i] = name[j] /\ t[i - 1] = name[j - 1]
      BY <2>5, <3>2, <3>3
    <3> HIDE DEF j
    <3>5. name[j] = Underscore
      BY <2>9, <3>4
    <3>6. name[j - 1] # Underscore
      BY <3>3, <3>5 DEF NoPairs
    <3> QED
      BY <3>1, <3>4, <3>6
  <2>10. NormalName(t)
    BY <2>6, <2>7, <2>9 DEF NormalName, NameCharacters
  <2>11. Trimmed(name) = t
    BY <2>2 DEF t
  <2> QED
    BY <2>5, <2>10, <2>11
<1> QED
  BY <1>2, <1>3

\* Of a normal name it leaves everything.
LEMMA TrimmedKeeps ==
    ASSUME NEW S, NEW name \in Seq(S), NormalName(name)
    PROVE  Trimmed(name) = name
<1>1. Len(name) \in Nat /\ DOMAIN name = 1..Len(name)
  BY LenProperties
<1>2. CASE Len(name) = 0
  <2>1. name = <<>>
    BY <1>2, EmptySeq
  <2>2. {i \in DOMAIN name : name[i] # Underscore} = {}
    BY <1>1, <1>2
  <2> QED
    BY <2>1, <2>2 DEF Trimmed
<1>3. CASE Len(name) # 0
  <2>1. 1 \in 1..Len(name) /\ Len(name) \in 1..Len(name)
    BY <1>1, <1>3
  <2>2. name[1] # Underscore /\ name[Len(name)] # Underscore
    <3>1. \A i \in 1..Len(name) : name[i] = Underscore => i > 1 /\ i < Len(name)
      BY <1>1, Zenon DEF NormalName
    <3> QED
      BY <1>1, <2>1, <3>1
  <2>3. PICK a \in 1..Len(name), b \in 1..Len(name) :
            /\ a <= 1 /\ Len(name) <= b
            /\ Trimmed(name) = SubSeq(name, a, b)
    BY <2>1, <2>2, TrimmedCuts
  <2>4. a = 1 /\ b = Len(name)
    <3>1. a <= 1 /\ Len(name) <= b
      BY <2>3
    <3>2. a \in Int /\ b \in Int /\ a >= 1 /\ b <= Len(name)
      BY <1>1
    <3>3. Len(name) \in Int
      BY <1>1
    <3>4. a = 1
      BY <3>1, <3>2
    <3>5. b = Len(name)
      BY <3>1, <3>2, <3>3
    <3> QED
      BY <3>4, <3>5
  <2> DEFINE t == SubSeq(name, 1, Len(name))
  <2>5. \A i \in 1..Len(name) : name[i] \in S
    BY ElementOfSeq
  <2>6. /\ t \in Seq(S)
        /\ Len(t) = IF 1 <= Len(name) THEN (Len(name) - 1) + 1 ELSE 0
        /\ \A i \in 1..((Len(name) - 1) + 1) : t[i] = name[(1 + i) - 1]
    BY <1>1, <2>5, SubSeqProperties
  <2> HIDE DEF t
  <2>7. Len(t) = Len(name) /\ \A i \in 1..Len(t) : t[i] = name[i]
    BY <1>1, <1>3, <2>6
  <2>8. t = name
    BY <2>6, <2>7, SeqEqual
  <2> QED
    BY <2>3, <2>4, <2>8 DEF t
<1> QED
  BY <1>2, <1>3

\* A normal name has no pairs.
LEMMA NormalHasNoPairs ==
    ASSUME NEW S, NEW name \in Seq(S), NormalName(name)
    PROVE  NoPairs(name)
<1>1. Len(name) \in Nat /\ DOMAIN name = 1..Len(name)
  BY LenProperties
<1> SUFFICES ASSUME NEW i \in 2..Len(name), name[i] = Underscore,
                    name[i - 1] = Underscore
             PROVE  FALSE
  BY DEF NoPairs
<1>2. i \in 1..Len(name)
  BY <1>1
<1> QED
  BY <1>1, <1>2 DEF NormalName

\* The characters of a topic become characters of a name,
LEMMA MappedIsSeq ==
    ASSUME NEW S, NEW topic \in Seq(S)
    PROVE  Mapped(topic) \in Seq(NameCharacters)
<1>1. Len(topic) \in Nat /\ DOMAIN topic = 1..Len(topic)
  BY LenProperties
<1>2. Mapped(topic) \in [1..Len(topic) -> NameCharacters]
  BY <1>1 DEF Mapped, NameCharacters
<1> QED
  BY <1>1, <1>2

\* which stay as they are.
LEMMA MappedKeeps ==
    ASSUME NEW name \in Seq(NameCharacters)
    PROVE  Mapped(name) = name
<1>1. Len(name) \in Nat /\ DOMAIN name = 1..Len(name)
      /\ name \in [1..Len(name) -> NameCharacters]
  BY LenProperties
<1>2. ASSUME NEW c \in NameCharacters
      PROVE  (IF c \in Alphanumeric THEN Lower[c] ELSE Underscore) = c
  BY StreamConfigAssumption DEF NameCharacters
<1>3. ASSUME NEW i \in DOMAIN name
      PROVE  (IF name[i] \in Alphanumeric THEN Lower[name[i]] ELSE Underscore)
                 = name[i]
  <2>1. name[i] \in NameCharacters
    BY <1>1
  <2> QED
    BY <1>2, <2>1
<1> QED
  BY <1>1, <1>3 DEF Mapped

\* Whatever the topic, its file name is normal, and sanitizing it again changes
\* nothing: names of names make no new files.
THEOREM FileNamesAreNormal ==
    ASSUME NEW S, NEW topic \in Seq(S)
    PROVE  /\ NormalName(SanitizedName(topic))
           /\ SanitizedName(SanitizedName(topic)) = SanitizedName(topic)
<1> DEFINE collapsed == Collapsed(Mapped(topic))
           name == SanitizedName(topic)
<1>1. collapsed \in Seq(NameCharacters) /\ NoPairs(collapsed)
  BY MappedIsSeq, CollapsedHasNoPairs
<1>2. name = Trimmed(collapsed)
  BY DEF SanitizedName
<1> HIDE DEF collapsed
<1>3. name \in Seq(NameCharacters) /\ NormalName(name)
  BY <1>1, <1>2, TrimmedIsNormal
<1> HIDE DEF name
<1>4. Mapped(name) = name
  BY <1>3, MappedKeeps
<1>5. Collapsed(name) = name
  BY <1>3, NormalHasNoPairs, CollapsedKeeps
<1>6. Trimmed(name) = name
  BY <1>3, TrimmedKeeps
<1>7. SanitizedName(name) = name
  BY <1>4, <1>5, <1>6 DEF SanitizedName
<1> QED
  BY <1>3, <1>7 DEF name

=============================================================================
