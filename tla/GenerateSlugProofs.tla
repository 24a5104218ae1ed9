-------------------------- MODULE GenerateSlugProofs --------------------------
(***************************************************************************)
(* Proofs about GenerateSlug.tla for any hash, alphabet, length of slugs    *)
(* and number of tries.                                                     *)
(***************************************************************************)
EXTENDS GenerateSlug, SequenceTheorems, WellFoundedInduction, TLAPS

(* f holds the digits of the numbers up to w.                               *)
IsDigits(b, w, f) ==
  f = [v \in 0..w |-> IF v = 0 THEN << >> ELSE <<v % b>> \o f[v \div b]]

LEMMA DigitsChosen ==
  ASSUME NEW b, NEW w
  PROVE  Digits(b, w) = (CHOOSE f : IsDigits(b, w, f))[w]
  BY DEF Digits, IsDigits

(* A nonempty set of natural numbers has a least element.                   *)
LEMMA LeastNatural ==
  ASSUME NEW I \in SUBSET Nat, I # {}
  PROVE  \E x \in I : \A y \in I : x <= y
  <1>1. \E x \in I : \A y \in I : ~ (<<y, x>> \in OpToRel(<, Nat))
    BY NatLessThanWellFounded, WFMin
  <1>2. PICK x \in I : \A y \in I : ~ (<<y, x>> \in OpToRel(<, Nat))
    BY <1>1
  <1>3. \A y \in I : ~ (y < x)
    BY <1>2, Zenon DEF OpToRel
  <1> QED BY <1>3

(* Dividing makes a number smaller.                                         *)
LEMMA Quotient ==
  ASSUME NEW b \in Nat \ {0, 1}, NEW v \in Nat \ {0}
  PROVE  v \div b \in 0..v - 1 /\ v % b \in 0..b - 1
  OBVIOUS

(* The recursive definition of the digits has a solution...                 *)
LEMMA DigitsExist ==
  ASSUME NEW b \in Nat \ {0, 1}
  PROVE  \A w \in Nat : \E f : IsDigits(b, w, f)
  <1> DEFINE I == {w \in Nat : ~\E f : IsDigits(b, w, f)}
  <1> SUFFICES ASSUME I # {} PROVE FALSE
    OBVIOUS
  <1>1. PICK x \in I : \A y \in I : x <= y
    BY LeastNatural
  <1>2. CASE x = 0
    <2> DEFINE f == [v \in 0..0 |-> << >>]
    <2>1. IsDigits(b, 0, f)
      BY DEF IsDigits
    <2> QED BY <1>2, <2>1
  <1>3. CASE x # 0
    <2>1. x \in Nat \ {0} /\ x - 1 \in Nat /\ x - 1 \notin I
      BY <1>1, <1>3
    <2>2. PICK g : IsDigits(b, x - 1, g)
      BY <2>1
    <2> DEFINE f == [v \in 0..x |-> IF v = x THEN <<x % b>> \o g[x \div b] ELSE g[v]]
    <2>3. \A v \in 0..x - 1 :
             g[v] = IF v = 0 THEN << >> ELSE <<v % b>> \o g[v \div b]
      BY <2>2 DEF IsDigits
    <2>4. ASSUME NEW v \in 0..x
          PROVE  f[v] = IF v = 0 THEN << >> ELSE <<v % b>> \o f[v \div b]
      <3>1. CASE v = 0
        <4>1. 0 \in 0..x - 1 /\ 0 \in 0..x /\ 0 # x
          BY <2>1
        <4>2. g[0] = << >> /\ f[0] = g[0]
          BY <2>3, <4>1
        <4> QED BY <3>1, <4>2
      <3>2. CASE v # 0
        <4>1. v \div b \in 0..v - 1
          <5>1. v \in Nat \ {0}
            BY <2>1, <3>2
          <5> QED BY <5>1, Quotient
        <4>2. v \div b \in 0..x /\ v \div b # x
          BY <2>1, <4>1
        <4>3. f[v \div b] = g[v \div b]
          BY <4>2
        <4>4. CASE v = x
          BY <2>1, <3>2, <4>3, <4>4
        <4>5. CASE v # x
          <5>1. v \in 0..x - 1 /\ f[v] = g[v]
            BY <2>1, <4>5
          <5> QED BY <2>3, <3>2, <4>3, <5>1
        <4> QED BY <4>4, <4>5
      <3> QED BY <3>1, <3>2
    <2>5. f = [v \in 0..x |-> f[v]]
      OBVIOUS
    <2> HIDE DEF f
    <2>6. IsDigits(b, x, f)
      BY <2>4, <2>5 DEF IsDigits
    <2> QED BY <1>1, <2>6
  <1> QED BY <1>2, <1>3

(* ... and only one.                                                        *)
LEMMA DigitsUnique ==
  ASSUME NEW b \in Nat \ {0, 1}, NEW w \in Nat, NEW u \in Nat,
         NEW f, IsDigits(b, w, f), NEW g, IsDigits(b, u, g)
  PROVE  \A v \in 0..w : v <= u => f[v] = g[v]
  <1> DEFINE I == {v \in 0..w : v <= u /\ f[v] # g[v]}
  <1> SUFFICES ASSUME I # {} PROVE FALSE
    OBVIOUS
  <1>1. I \in SUBSET Nat
    OBVIOUS
  <1>2. PICK x \in I : \A y \in I : x <= y
    BY <1>1, LeastNatural
  <1>3. x \in 0..w /\ x \in 0..u /\ f[x] # g[x]
    OBVIOUS
  <1>4. /\ f[x] = IF x = 0 THEN << >> ELSE <<x % b>> \o f[x \div b]
        /\ g[x] = IF x = 0 THEN << >> ELSE <<x % b>> \o g[x \div b]
    BY <1>3 DEF IsDigits
  <1>5. x # 0 /\ x \in Nat \ {0}
    BY <1>3, <1>4
  <1>6. x \div b \in 0..x - 1
    BY <1>5, Quotient
  <1>7. x \div b \notin I
    BY <1>2, <1>5, <1>6
  <1>8. f[x \div b] = g[x \div b]
    BY <1>3, <1>5, <1>6, <1>7
  <1> QED BY <1>3, <1>4, <1>5, <1>8

(* The digits of a number: its last one, and those of the quotient.         *)
LEMMA DigitsUnfold ==
  ASSUME NEW b \in Nat \ {0, 1}, NEW v \in Nat
  PROVE  Digits(b, v) = IF v = 0 THEN << >> ELSE <<v % b>> \o Digits(b, v \div b)
  <1> DEFINE C(w) == CHOOSE f : IsDigits(b, w, f)
  <1>1. \A w \in Nat : IsDigits(b, w, C(w)) /\ Digits(b, w) = C(w)[w]
    BY DigitsExist, DigitsChosen
  <1>2. C(v)[v] = IF v = 0 THEN << >> ELSE <<v % b>> \o C(v)[v \div b]
    <2>1. IsDigits(b, v, C(v)) /\ v \in 0..v
      BY <1>1
    <2> HIDE DEF C
    <2> QED BY <2>1 DEF IsDigits
  <1>3. CASE v = 0
    BY <1>1, <1>2, <1>3
  <1>4. CASE v # 0
    <2>1. v \div b \in 0..v - 1 /\ v \div b \in Nat
      <3>1. v \in Nat \ {0}
        BY <1>4
      <3>2. v \div b \in 0..v - 1
        BY <3>1, Quotient
      <3> QED BY <3>2
    <2> HIDE DEF C
    <2>2. C(v)[v \div b] = C(v \div b)[v \div b]
      BY <1>1, <2>1, DigitsUnique
    <2> QED BY <1>1, <1>2, <1>4, <2>1, <2>2
  <1> QED BY <1>3, <1>4

LEMMA DigitsType ==
  ASSUME NEW b \in Nat \ {0, 1}
  PROVE  \A v \in Nat : Digits(b, v) \in Seq(0..b - 1)
  <1> DEFINE I == {v \in Nat : Digits(b, v) \notin Seq(0..b - 1)}
  <1> SUFFICES ASSUME I # {} PROVE FALSE
    OBVIOUS
  <1>1. PICK x \in I : \A y \in I : x <= y
    BY LeastNatural
  <1>2. x # 0
    <2>1. Digits(b, 0) = << >>
      BY DigitsUnfold
    <2> QED BY <2>1, EmptySeq
  <1>3. x \div b \in 0..x - 1 /\ x % b \in 0..b - 1
    BY <1>2, Quotient
  <1>4. Digits(b, x \div b) \in Seq(0..b - 1)
    BY <1>1, <1>3
  <1>5. <<x % b>> \in Seq(0..b - 1)
    BY <1>3
  <1>6. Digits(b, x) = <<x % b>> \o Digits(b, x \div b)
    BY <1>2, DigitsUnfold
  <1> DEFINE a == <<x % b>>
             q == Digits(b, x \div b)
  <1> HIDE DEF a, q
  <1>7. a \o q \in Seq(0..b - 1)
    BY <1>4, <1>5, ConcatProperties DEF a, q
  <1> QED BY <1>6, <1>7 DEF a, q

(* The digits read from a word: its last one, and those of the quotient.    *)
LEMMA ReadDigits ==
  ASSUME NEW b \in Nat \ {0, 1}, NEW w \in Nat
  PROVE  /\ LaterDigits(b, w) = <<w % b>> \o Digits(b, w \div b)
         /\ w # 0 => Digits(b, w) = <<w % b>> \o Digits(b, w \div b)
         /\ w % b \in 0..b - 1 /\ w \div b \in 0..w
         /\ LaterDigits(b, w) \in Seq(0..b - 1)
  <1>1. CASE w # 0
    <2>1. w % b \in 0..b - 1 /\ w \div b \in 0..w - 1
      <3>1. w \in Nat \ {0}
        BY <1>1
      <3> QED BY <3>1, Quotient
    <2>2. w \div b \in 0..w
      BY <2>1
    <2>3. Digits(b, w) = <<w % b>> \o Digits(b, w \div b)
      BY <1>1, DigitsUnfold
    <2>4. LaterDigits(b, w) = Digits(b, w) /\ Digits(b, w) \in Seq(0..b - 1)
      BY <1>1, DigitsType DEF LaterDigits
    <2> QED BY <2>1, <2>2, <2>3, <2>4
  <1>2. CASE w = 0
    <2>1. w % b = 0 /\ w \div b = 0 /\ 0 \in 0..b - 1
      BY <1>2
    <2>2. Digits(b, 0) = << >>
      BY DigitsUnfold
    <2>3. LaterDigits(b, w) = <<0>>
      BY <1>2 DEF LaterDigits
    <2>4. <<0>> \in Seq(0..b - 1)
      BY <2>1
    <2>5. <<0>> \o << >> = <<0>>
      BY <2>4, ConcatEmptySeq
    <2>6. w % b \in 0..b - 1 /\ w \div b \in 0..w
      BY <1>2, <2>1
    <2>7. <<w % b>> \o Digits(b, w \div b) = <<0>>
      BY <2>1, <2>2, <2>5
    <2>8. LaterDigits(b, w) \in Seq(0..b - 1)
      BY <2>3, <2>4
    <2> QED BY <1>2, <2>3, <2>6, <2>7, <2>8
  <1> QED BY <1>1, <1>2

-----------------------------------------------------------------------------
(* f holds the streams of the words up to the n-th.                         *)
IsStream(b, words, n, f) ==
  f = [k \in 0..n |-> IF k = 0 THEN Digits(b, words[0])
                      ELSE f[k - 1] \o LaterDigits(b, words[k])]

LEMMA StreamChosen ==
  ASSUME NEW b, NEW words, NEW n
  PROVE  Stream(b, words, n) = (CHOOSE f : IsStream(b, words, n, f))[n]
  BY DEF Stream, IsStream

Grows(b, words, n, f) ==
  /\ f[0] = Digits(b, words[0])
  /\ \A k \in 1..n : f[k] = f[k - 1] \o LaterDigits(b, words[k])

LEMMA StreamSteps ==
  ASSUME NEW b, NEW words, NEW n \in Nat, NEW f, IsStream(b, words, n, f)
  PROVE  Grows(b, words, n, f)
  <1>1. \A k \in 0..n : f[k] = IF k = 0 THEN Digits(b, words[0])
                               ELSE f[k - 1] \o LaterDigits(b, words[k])
    BY Zenon DEF IsStream
  <1>2. 0 \in 0..n /\ \A k \in 1..n : k \in 0..n /\ k # 0
    OBVIOUS
  <1> QED BY <1>1, <1>2, Zenon DEF Grows

(* The recursive definition of the stream has a solution...                 *)
LEMMA StreamExists ==
  ASSUME NEW b, NEW words
  PROVE  \A n \in Nat : \E f : IsStream(b, words, n, f)
  <1> DEFINE Body(f, k) == IF k = 0 THEN Digits(b, words[0])
                           ELSE f[k - 1] \o LaterDigits(b, words[k])
             Part(n) == \E f : f = [k \in 0..n |-> Body(f, k)]
             I == {n \in Nat : ~Part(n)}
  <1>1. ASSUME I # {} PROVE FALSE
    <2> HIDE DEF Part
    <2>1. PICK x \in I : \A y \in I : x <= y
      BY <1>1, LeastNatural
    <2>2. x \in Nat /\ ~Part(x)
      BY <2>1
    <2>3. ASSUME NEW g, x # 0 => g = [k \in 0..x - 1 |-> Body(g, k)] PROVE FALSE
      <3> DEFINE f == [k \in 0..x |-> Body(g, k)]
      <3>1. ASSUME NEW k \in 0..x PROVE Body(g, k) = Body(f, k)
        <4>1. CASE k = 0
          BY <4>1
        <4>2. CASE k # 0
          <5>1. k - 1 \in 0..x - 1 /\ k - 1 \in 0..x /\ x # 0
            BY <2>2, <4>2
          <5> HIDE DEF Body
          <5>2. g[k - 1] = Body(g, k - 1)
            BY <2>3, <5>1
          <5>3. f[k - 1] = Body(g, k - 1)
            BY <5>1
          <5> HIDE DEF f
          <5> QED BY <4>2, <5>2, <5>3 DEF Body
        <4> QED BY <4>1, <4>2
      <3> HIDE DEF Body
      <3>2. f = [k \in 0..x |-> Body(f, k)]
        BY <3>1
      <3> HIDE DEF f
      <3>3. Part(x)
        BY <3>2 DEF Part
      <3> QED BY <2>2, <3>3
    <2>4. CASE x = 0
      BY <2>3, <2>4
    <2>5. CASE x # 0
      <3>1. x - 1 \in Nat /\ ~(x <= x - 1)
        BY <2>2, <2>5
      <3>2. Part(x - 1)
        BY <2>1, <3>1
      <3> HIDE DEF Body
      <3>3. PICK g : g = [k \in 0..x - 1 |-> Body(g, k)]
        BY <3>2 DEF Part
      <3> QED BY <2>3, <3>3
    <2> QED BY <2>4, <2>5
  <1>2. ASSUME NEW n \in Nat PROVE Part(n)
    <2> HIDE DEF Part
    <2> QED BY <1>1
  <1> QED BY <1>2 DEF IsStream

(* ...which does not depend on the words to come.                           *)
LEMMA SameStream ==
  ASSUME NEW b, NEW words, NEW n \in Nat, NEW f, IsStream(b, words, n, f),
         NEW m \in Nat, NEW g, IsStream(b, words, m, g), n <= m
  PROVE  f[n] = g[n]
  <1> DEFINE I == {k \in 0..n : f[k] # g[k]}
  <1>1. Grows(b, words, n, f)
    BY StreamSteps, Zenon
  <1>2. Grows(b, words, m, g)
    BY StreamSteps, Zenon
  <1>3. ASSUME I # {} PROVE FALSE
    <2>1. I \in SUBSET Nat
      OBVIOUS
    <2>2. PICK x \in I : \A y \in I : x <= y
      BY <1>3, <2>1, LeastNatural
    <2>3. x \in 0..n /\ f[x] # g[x]
      BY <2>2
    <2>4. x # 0
      BY <1>1, <1>2, <2>3, Zenon DEF Grows
    <2>5. x \in 1..n /\ x \in 1..m /\ x - 1 \in 0..n /\ ~(x <= x - 1)
      BY <2>3, <2>4
    <2>6. f[x - 1] = g[x - 1]
      BY <2>2, <2>5
    <2> QED BY <1>1, <1>2, <2>3, <2>5, <2>6, Zenon DEF Grows
  <1>4. n \in 0..n
    OBVIOUS
  <1> QED BY <1>3, <1>4

(* The stream grows by the digits of the next word.                         *)
LEMMA StreamUnfold ==
  ASSUME NEW b, NEW words
  PROVE  /\ Stream(b, words, 0) = Digits(b, words[0])
         /\ \A n \in Nat \ {0} :
              Stream(b, words, n) = Stream(b, words, n - 1) \o LaterDigits(b, words[n])
  <1> DEFINE c(n) == CHOOSE f : IsStream(b, words, n, f)
  <1>1. \A n \in Nat : IsStream(b, words, n, c(n)) /\ Stream(b, words, n) = c(n)[n]
    BY StreamExists, StreamChosen, Zenon
  <1> HIDE DEF c
  <1>2. Stream(b, words, 0) = Digits(b, words[0])
    <2>1. 0 \in Nat
      OBVIOUS
    <2>2. IsStream(b, words, 0, c(0)) /\ Stream(b, words, 0) = c(0)[0]
      BY <1>1, <2>1, Zenon
    <2>3. c(0)[0] = Digits(b, words[0])
      BY <2>1, <2>2, StreamSteps, Zenon DEF Grows
    <2> QED BY <2>2, <2>3, Zenon
  <1>3. ASSUME NEW n \in Nat \ {0}
        PROVE  Stream(b, words, n) = Stream(b, words, n - 1) \o LaterDigits(b, words[n])
    <2> DEFINE l == n - 1
    <2>1. l \in Nat /\ l <= n /\ n \in Nat /\ n \in 1..n
      OBVIOUS
    <2>2. PICK f : IsStream(b, words, n, f) /\ Stream(b, words, n) = f[n]
      BY <1>1, <2>1, Zenon
    <2>3. PICK g : IsStream(b, words, l, g) /\ Stream(b, words, l) = g[l]
      BY <1>1, <2>1, Zenon
    <2>4. f[n] = f[l] \o LaterDigits(b, words[n])
      <3>1. Grows(b, words, n, f)
        BY <2>1, <2>2, StreamSteps, Zenon
      <3> QED BY <2>1, <3>1, Zenon DEF Grows
    <2> HIDE DEF l
    <2>5. g[l] = f[l]
      BY <2>1, <2>2, <2>3, SameStream
    <2> QED BY <2>2, <2>3, <2>4, <2>5, Zenon DEF l
  <1> QED BY <1>2, <1>3

-----------------------------------------------------------------------------
Base == alphabet_len
Digit == 0..Base - 1
D(w) == Digits(Base, w)
L(k) == LaterDigits(Base, hash[k])

(* The digits of the words of the hash after the k-th.                      *)
After(k) ==
  IF k = 4 THEN << >>
  ELSE IF k = 3 THEN L(4)
  ELSE IF k = 2 THEN L(3) \o L(4)
  ELSE IF k = 1 THEN L(2) \o (L(3) \o L(4))
  ELSE L(1) \o (L(2) \o (L(3) \o L(4)))

HashOK == hash \in [0..HashWords -> Word]

LEMMA BaseType == Base \in Nat \ {0, 1} /\ Word \subseteq Nat
  BY GenerateSlugAssumption DEF Base, alphabet_len, Word

LEMMA WordDigits ==
  ASSUME HashOK
  PROVE  /\ \A k \in 0..4 : hash[k] \in Nat /\ L(k) \in Seq(Digit)
         /\ \A k \in 0..4 : After(k) \in Seq(Digit)
         /\ \A k \in 0..3 : After(k) = L(k + 1) \o After(k + 1)
         /\ D(hash[0]) \in Seq(Digit)
  <1>1. \A k \in 0..4 : hash[k] \in Nat
    BY BaseType DEF HashOK, HashWords
  <1>2. \A k \in 0..4 : L(k) \in Seq(Digit)
    BY <1>1, BaseType, ReadDigits DEF L, Digit
  <1>3. D(hash[0]) \in Seq(Digit)
    <2>1. hash[0] \in Nat
      BY <1>1
    <2> QED BY <2>1, BaseType, DigitsType DEF D, Digit
  <1>4. L(1) \in Seq(Digit) /\ L(2) \in Seq(Digit) /\ L(3) \in Seq(Digit) /\ L(4) \in Seq(Digit)
    BY <1>2
  <1>5. L(3) \o L(4) \in Seq(Digit)
    BY <1>4, ConcatProperties
  <1>6. L(2) \o (L(3) \o L(4)) \in Seq(Digit)
    BY <1>4, <1>5, ConcatProperties
  <1>7. L(1) \o (L(2) \o (L(3) \o L(4))) \in Seq(Digit)
    BY <1>4, <1>6, ConcatProperties
  <1>8. << >> \in Seq(Digit)
    BY EmptySeq
  <1>9. \A k \in 0..4 : After(k) \in Seq(Digit)
    BY <1>4, <1>5, <1>6, <1>7, <1>8 DEF After
  <1>10. L(4) = L(4) \o << >>
    BY <1>4, ConcatEmptySeq
  <1>11. ASSUME NEW k \in 0..3 PROVE After(k) = L(k + 1) \o After(k + 1)
    <2>1. CASE k = 0
      BY <2>1 DEF After
    <2>2. CASE k = 1
      BY <2>2 DEF After
    <2>3. CASE k = 2
      BY <2>3 DEF After
    <2>4. CASE k = 3
      BY <2>4, <1>10 DEF After
    <2> QED BY <2>1, <2>2, <2>3, <2>4
  <1> QED BY <1>1, <1>2, <1>3, <1>9, <1>11

LEMMA Associative ==
  \A s, t, u \in Seq(Digit) : (s \o t) \o u = s \o (t \o u)
  <1> SUFFICES ASSUME NEW s \in Seq(Digit), NEW t \in Seq(Digit), NEW u \in Seq(Digit)
               PROVE  (s \o t) \o u = s \o (t \o u)
    OBVIOUS
  <1> HIDE DEF Digit
  <1> QED BY ConcatAssociative, SMTT(30)

(* The reference is the digits of the first word and those of the others.   *)
LEMMA StreamIsDigits ==
  ASSUME HashOK
  PROVE  ReferenceStream = D(hash[0]) \o After(0)
  <1> DEFINE a0 == D(hash[0])
             a1 == a0 \o L(1)
             a2 == a1 \o L(2)
             a3 == a2 \o L(3)
             a4 == a3 \o L(4)
  <1>1. ReferenceStream = a4
    <2> DEFINE s(k) == Stream(Base, hash, k)
    <2>1. s(0) = D(hash[0]) /\ \A n \in Nat \ {0} : s(n) = s(n - 1) \o L(n)
      BY StreamUnfold DEF D, L
    <2>2. ReferenceStream = s(4)
      BY DEF ReferenceStream, HashWords, Base
    <2> HIDE DEF s
    <2>3. {1, 2, 3, 4} \subseteq Nat \ {0} /\ 1 - 1 = 0 /\ 2 - 1 = 1 /\ 3 - 1 = 2 /\ 4 - 1 = 3
      OBVIOUS
    <2>4. s(1) = s(0) \o L(1) /\ s(2) = s(1) \o L(2)
      BY <2>1, <2>3, Zenon
    <2>5. s(3) = s(2) \o L(3) /\ s(4) = s(3) \o L(4)
      BY <2>1, <2>3, Zenon
    <2> QED BY <2>1, <2>2, <2>4, <2>5, Zenon
  <1>2. /\ a0 \in Seq(Digit) /\ L(1) \in Seq(Digit) /\ L(2) \in Seq(Digit)
        /\ L(3) \in Seq(Digit) /\ L(4) \in Seq(Digit)
    BY WordDigits
  <1>3. a1 \in Seq(Digit) /\ L(3) \o L(4) \in Seq(Digit)
    BY <1>2, ConcatProperties
  <1>4. a2 \in Seq(Digit) /\ L(2) \o (L(3) \o L(4)) \in Seq(Digit)
    BY <1>2, <1>3, ConcatProperties
  <1>5. a4 = a2 \o (L(3) \o L(4))
    <2>1. a4 = (a2 \o L(3)) \o L(4)
      OBVIOUS
    <2> HIDE DEF a4, a3, a2
    <2>2. a2 \in Seq(Digit) /\ L(3) \in Seq(Digit) /\ L(4) \in Seq(Digit)
      BY <1>2, <1>4, Zenon
    <2>3. (a2 \o L(3)) \o L(4) = a2 \o (L(3) \o L(4))
      BY <2>2, Associative, Zenon
    <2> QED BY <2>1, <2>3, Zenon
  <1>6. a2 \o (L(3) \o L(4)) = a1 \o (L(2) \o (L(3) \o L(4)))
    <2> DEFINE x == L(3) \o L(4)
    <2>1. a2 = a1 \o L(2)
      OBVIOUS
    <2>2. a1 \in Seq(Digit) /\ L(2) \in Seq(Digit) /\ x \in Seq(Digit)
      BY <1>2, <1>3
    <2> HIDE DEF a1, a2, x
    <2>3. (a1 \o L(2)) \o x = a1 \o (L(2) \o x)
      BY <2>2, Associative
    <2> QED BY <2>1, <2>3 DEF x
  <1>7. a1 \o (L(2) \o (L(3) \o L(4))) = a0 \o (L(1) \o (L(2) \o (L(3) \o L(4))))
    <2> DEFINE y == L(2) \o (L(3) \o L(4))
    <2>1. a1 = a0 \o L(1)
      OBVIOUS
    <2>2. a0 \in Seq(Digit) /\ L(1) \in Seq(Digit) /\ y \in Seq(Digit)
      BY <1>2, <1>4
    <2> HIDE DEF a0, a1, y
    <2>3. (a0 \o L(1)) \o y = a0 \o (L(1) \o y)
      BY <2>2, Associative
    <2> QED BY <2>1, <2>3 DEF y
  <1>8. After(0) = L(1) \o (L(2) \o (L(3) \o L(4)))
    BY DEF After
  <1>9. a0 = D(hash[0])
    OBVIOUS
  <1> HIDE DEF a0, a1, a2, a3, a4
  <1> QED BY <1>1, <1>5, <1>6, <1>7, <1>8, <1>9

-----------------------------------------------------------------------------
(* The sequence r is what is left of s after its first p elements.          *)
LeftAt(s, p, r) ==
  /\ Len(s) = p + Len(r)
  /\ \A k \in 1..Len(r) : s[p + k] = r[k]

(* The digits not read yet, and how many have been: those of the blocks     *)
(* begun before, and of the one at hand.                                    *)
Rest == D(result[result_idx]) \o After(result_idx)
Times(n) == n * slug_length_
Begun == asked - nth_try
Pos == IF pc = "for" THEN Times(Begun - 1) + i ELSE Times(Begun)

Chars == {CharAt(c) : c \in Digit}

(* The characters of dst are those of its block, as far as it goes.         *)
Spelled == \A k \in 1..Len(dst) : dst[k] = CharAt(ReferenceStream[Times(Begun - 1) + k])

(* What result and result_idx still hold is what is left of the reference   *)
(* stream, across the blocks of all tries.                                  *)
ReadInv ==
  /\ result \in [0..HashWords -> Word]
  /\ result_idx \in 0..HashWords
  /\ \A k \in result_idx + 1..HashWords : result[k] = hash[k]
  /\ LeftAt(ReferenceStream, Pos, Rest)

BlockInv ==
  /\ pc = "for" => nth_try < asked /\ Len(dst) = i /\ Spelled
  /\ pc \in {"while", "true"} /\ nth_try < asked =>
       Len(dst) = slug_length_ /\ Spelled
  /\ pc = "true" => nth_try = 0

SlugInv ==
  /\ HashOK
  /\ asked \in Nat \ {0}
  /\ nth_try \in 0..asked
  /\ i \in 0..slug_length_
  /\ dst \in Seq(Chars)
  /\ pc \in {"while", "for", "true", "false"}
  /\ pc # "false" => ReadInv
  /\ BlockInv
  /\ pc = "false" => ~HasBlock(ReferenceStream, slug_length_, asked)

LEMMA TimesFacts ==
  /\ \A n \in Nat : Times(n) \in Nat /\ Times(n + 1) = Times(n) + slug_length_
  /\ \A n \in Nat \ {0} : Times(n) = Times(n - 1) + slug_length_ /\ Times(n - 1) \in Nat
  /\ Times(0) = 0
  /\ \A m, n \in Nat : m <= n => Times(m) <= Times(n)
  <1>1. slug_length_ \in Nat \ {0}
    BY GenerateSlugAssumption
  <1>2. \A n \in Nat : n * slug_length_ \in Nat /\ (n + 1) * slug_length_ = n * slug_length_ + slug_length_
    BY <1>1
  <1>3. \A n \in Nat \ {0} : n * slug_length_ = (n - 1) * slug_length_ + slug_length_ /\ (n - 1) * slug_length_ \in Nat
    BY <1>1
  <1>4. ASSUME NEW m \in Nat, NEW n \in Nat, m <= n
        PROVE  m * slug_length_ <= n * slug_length_
    <2>1. (n - m) * slug_length_ \in Nat /\ n * slug_length_ = m * slug_length_ + (n - m) * slug_length_
      BY <1>1, <1>4
    <2>2. m * slug_length_ \in Nat
      BY <1>2
    <2> QED BY <2>1, <2>2
  <1>5. 0 * slug_length_ = 0
    BY <1>1
  <1> QED BY <1>2, <1>3, <1>4, <1>5 DEF Times

(* Reading one digit.                                                       *)
LEMMA ReadOne ==
  ASSUME NEW s, NEW p \in Nat, NEW c \in Digit, NEW q \in Seq(Digit),
         LeftAt(s, p, <<c>> \o q)
  PROVE  s[p + 1] = c /\ LeftAt(s, p + 1, q)
  <1> DEFINE one == <<c>>
             r == one \o q
  <1>1. one \in Seq(Digit) /\ Len(one) = 1 /\ one[1] = c /\ Len(q) \in Nat
    OBVIOUS
  <1>2. /\ Len(r) = Len(one) + Len(q)
        /\ \A k \in 1..Len(one) + Len(q) : r[k] = IF k <= Len(one) THEN one[k] ELSE q[k - Len(one)]
    BY <1>1, ConcatProperties
  <1>3. Len(s) = p + Len(r) /\ \A k \in 1..Len(r) : s[p + k] = r[k]
    BY DEF LeftAt
  <1> HIDE DEF one, r
  <1>4. s[p + 1] = c
    <2>1. 1 \in 1..Len(r) /\ 1 \in 1..Len(one) + Len(q) /\ 1 <= Len(one)
      BY <1>1, <1>2
    <2> QED BY <1>1, <1>2, <1>3, <2>1
  <1>5. Len(s) = (p + 1) + Len(q)
    BY <1>1, <1>2, <1>3
  <1>6. ASSUME NEW k \in 1..Len(q) PROVE s[(p + 1) + k] = q[k]
    <2>1. /\ k + 1 \in 1..Len(r) /\ k + 1 \in 1..Len(one) + Len(q) /\ ~ (k + 1 <= Len(one))
          /\ (k + 1) - Len(one) = k /\ p + (k + 1) = (p + 1) + k
      BY <1>1, <1>2
    <2>2. s[p + (k + 1)] = r[k + 1] /\ r[k + 1] = q[(k + 1) - Len(one)]
      BY <1>2, <1>3, <2>1, Zenon
    <2> QED BY <2>1, <2>2, Zenon
  <1> QED BY <1>4, <1>5, <1>6 DEF LeftAt

(* The next character comes from the next digit of the stream.              *)
LEMMA NextDigit ==
  ASSUME HashOK, ReadInv, ~OutOfHashes, NEW j, j = IdxForNextChar
  PROVE  /\ j \in 0..HashWords
         /\ result[j] \in Word /\ result[j] \div Base \in Word
         /\ \A k \in j + 1..HashWords : result[k] = hash[k]
         /\ result[j] % Base \in Digit
         /\ D(result[j] \div Base) \o After(j) \in Seq(Digit)
         /\ Rest = <<result[j] % Base>> \o (D(result[j] \div Base) \o After(j))
  <1> DEFINE w == result[j]
  <1>1. /\ result_idx \in 0..4
        /\ j = IF result[result_idx] = 0 THEN result_idx + 1 ELSE result_idx
        /\ ~ (j > 4)
    BY DEF ReadInv, OutOfHashes, IdxForNextChar, HashWords
  <1>2. j \in 0..4
    BY <1>1
  <1>3. w \in Word /\ w \in Nat
    BY <1>2, BaseType DEF ReadInv, HashWords
  <1>4. \A k \in j + 1..4 : result[k] = hash[k]
    BY <1>1, <1>2 DEF ReadInv, HashWords
  <1>5. /\ LaterDigits(Base, w) = <<w % Base>> \o D(w \div Base)
        /\ w # 0 => D(w) = <<w % Base>> \o D(w \div Base)
        /\ w % Base \in Digit
        /\ w \div Base \in 0..w
    <2> HIDE DEF w
    <2> QED BY <1>3, BaseType, ReadDigits DEF D, Digit
  <1>6. w \div Base \in Word /\ w \div Base \in Nat
    <2> HIDE DEF w
    <2> QED BY <1>3, <1>5, GenerateSlugAssumption DEF Word
  <1>7. /\ <<w % Base>> \in Seq(Digit)
        /\ D(w \div Base) \in Seq(Digit)
        /\ After(j) \in Seq(Digit)
    <2>1. D(w \div Base) \in Seq(Digit)
      BY <1>6, BaseType, DigitsType DEF D, Digit
    <2>2. After(j) \in Seq(Digit)
      BY <1>2, WordDigits
    <2>3. <<w % Base>> \in Seq(Digit)
      BY <1>5
    <2> QED BY <2>1, <2>2, <2>3
  <1>8. (<<w % Base>> \o D(w \div Base)) \o After(j) = <<w % Base>> \o (D(w \div Base) \o After(j))
    BY <1>7, Associative
  <1>9. D(w \div Base) \o After(j) \in Seq(Digit)
    BY <1>7, ConcatProperties
  <1>10. Rest = (<<w % Base>> \o D(w \div Base)) \o After(j)
    <2>1. CASE result[result_idx] # 0
      <3>1. j = result_idx
        BY <1>1, <2>1
      <3>2. Rest = D(w) \o After(j) /\ w # 0
        BY <2>1, <3>1 DEF Rest
      <3> QED BY <1>5, <3>2
    <2>2. CASE result[result_idx] = 0
      <3>1. j = result_idx + 1 /\ result_idx \in 0..3
        BY <1>1, <1>2, <2>2
      <3>2. w = hash[j]
        BY <3>1 DEF ReadInv, HashWords
      <3>3. After(result_idx) = L(j) \o After(j)
        BY <3>1, WordDigits
      <3>4. L(j) = LaterDigits(Base, w)
        BY <3>2 DEF L
      <3>5. D(0) = << >>
        BY BaseType, DigitsUnfold DEF D
      <3>6. Rest = << >> \o After(result_idx)
        BY <2>2, <3>5 DEF Rest
      <3>7. After(result_idx) \in Seq(Digit)
        BY <1>1, WordDigits
      <3>8. Rest = After(result_idx)
        BY <3>6, <3>7, ConcatEmptySeq
      <3> QED BY <1>5, <3>3, <3>4, <3>8
    <2> QED BY <2>1, <2>2
  <1> QED BY <1>2, <1>3, <1>4, <1>5, <1>6, <1>8, <1>9, <1>10 DEF HashWords

-----------------------------------------------------------------------------
LEMMA SlugInvInit == Init => SlugInv
  <1> SUFFICES ASSUME Init PROVE SlugInv
    OBVIOUS
  <1>1. /\ HashOK /\ asked \in Nat \ {0} /\ nth_try = asked /\ i = 0 /\ dst = << >>
        /\ pc = "while" /\ result = hash /\ result_idx = 0 /\ slug_length_ \in Nat
    BY GenerateSlugAssumption DEF Init, HashOK
  <1>2. dst \in Seq(Chars)
    BY <1>1, EmptySeq
  <1>3. Pos = 0
    BY <1>1, TimesFacts DEF Pos, Begun
  <1>4. ReferenceStream = Rest
    BY <1>1, StreamIsDigits DEF Rest
  <1>5. Rest \in Seq(Digit)
    <2>1. D(hash[0]) \in Seq(Digit) /\ After(0) \in Seq(Digit)
      BY <1>1, WordDigits
    <2> QED BY <1>1, <2>1, ConcatProperties DEF Rest
  <1>6. LeftAt(ReferenceStream, Pos, Rest)
    BY <1>3, <1>4, <1>5 DEF LeftAt
  <1>7. ReadInv
    BY <1>1, <1>6 DEF ReadInv, HashOK, HashWords
  <1> QED BY <1>1, <1>2, <1>7 DEF SlugInv, BlockInv

(* Steps that leave the words and the hash alone keep Rest and the stream.  *)
LEMMA SameWords ==
  ASSUME UNCHANGED <<hash, result, result_idx>>
  PROVE  Rest' = Rest /\ ReferenceStream' = ReferenceStream /\ (HashOK' <=> HashOK)
  BY DEF Rest, After, L, D, ReferenceStream, HashOK

LEMMA SlugInvNextBlock ==
  ASSUME SlugInv, NextBlock PROVE SlugInv'
  <1>1. /\ pc = "while" /\ nth_try > 0 /\ nth_try' = nth_try - 1 /\ dst' = << >> /\ i' = 0
        /\ pc' = "for" /\ UNCHANGED <<hash, asked, result, result_idx>>
    BY DEF NextBlock
  <1>2. Rest' = Rest /\ ReferenceStream' = ReferenceStream /\ HashOK'
    BY <1>1, SameWords DEF SlugInv
  <1>3. asked \in Nat \ {0} /\ nth_try \in 1..asked
    BY <1>1 DEF SlugInv
  <1>4. Pos' = Pos
    <2>1. Begun \in Nat /\ Begun' - 1 = Begun
      BY <1>1, <1>3 DEF Begun
    <2>2. Pos = Times(Begun) /\ Pos' = Times(Begun' - 1) + 0
      BY <1>1 DEF Pos, Times
    <2> QED BY <2>1, <2>2, TimesFacts
  <1>5. ReadInv'
    BY <1>1, <1>2, <1>4 DEF SlugInv, ReadInv
  <1>6. dst' \in Seq(Chars) /\ Len(dst') = 0
    BY <1>1, EmptySeq
  <1>7. BlockInv'
    BY <1>1, <1>3, <1>6 DEF BlockInv, Spelled
  <1>8. nth_try' \in 0..asked' /\ asked' \in Nat \ {0} /\ i' \in 0..slug_length_
    BY <1>1, <1>3, GenerateSlugAssumption
  <1> QED BY <1>1, <1>2, <1>5, <1>6, <1>7, <1>8 DEF SlugInv

LEMMA SlugInvBlockDone ==
  ASSUME SlugInv, BlockDone PROVE SlugInv'
  <1>1. /\ pc = "for" /\ i = slug_length_ /\ pc' = "while"
        /\ UNCHANGED <<hash, asked, result, result_idx, nth_try, i, dst>>
    BY DEF BlockDone
  <1>2. Rest' = Rest /\ ReferenceStream' = ReferenceStream /\ HashOK'
    BY <1>1, SameWords DEF SlugInv
  <1>3. Begun' = Begun /\ Begun \in Nat \ {0}
    BY <1>1 DEF SlugInv, BlockInv, Begun
  <1>4. Pos' = Pos
    <2>1. Pos = Times(Begun - 1) + slug_length_ /\ Pos' = Times(Begun)
      BY <1>1, <1>3 DEF Pos, Times
    <2> QED BY <1>3, <2>1, TimesFacts
  <1>5. ReadInv'
    BY <1>1, <1>2, <1>4 DEF SlugInv, ReadInv
  <1>6. BlockInv'
    <2>1. nth_try < asked /\ Len(dst) = i /\ Spelled
      BY <1>1 DEF SlugInv, BlockInv
    <2>2. Spelled'
      BY <1>1, <1>2, <1>3, <2>1 DEF Spelled, Times
    <2> QED BY <1>1, <2>1, <2>2 DEF BlockInv
  <1> QED BY <1>1, <1>2, <1>5, <1>6 DEF SlugInv

LEMMA SlugInvReturnTrue ==
  ASSUME SlugInv, ReturnTrue PROVE SlugInv'
  <1>1. /\ pc = "while" /\ nth_try = 0 /\ pc' = "true"
        /\ UNCHANGED <<hash, asked, result, result_idx, nth_try, i, dst>>
    BY DEF ReturnTrue
  <1>2. Rest' = Rest /\ ReferenceStream' = ReferenceStream /\ HashOK'
    BY <1>1, SameWords DEF SlugInv
  <1>3. Begun' = Begun
    BY <1>1 DEF Begun
  <1>4. Pos' = Pos
    BY <1>1, <1>3 DEF Pos, Times
  <1>5. ReadInv'
    BY <1>1, <1>2, <1>4 DEF SlugInv, ReadInv
  <1>6. Spelled => Spelled'
    BY <1>1, <1>2, <1>3 DEF Spelled, Times
  <1>7. BlockInv'
    BY <1>1, <1>6 DEF SlugInv, BlockInv
  <1> QED BY <1>1, <1>2, <1>5, <1>7 DEF SlugInv

LEMMA SlugInvReturnFalse ==
  ASSUME SlugInv, ReturnFalse PROVE SlugInv'
  <1>1. /\ pc = "for" /\ i < slug_length_ /\ OutOfHashes /\ pc' = "false"
        /\ UNCHANGED <<hash, asked, result, nth_try, i, dst>>
    BY DEF ReturnFalse
  <1>2. ReferenceStream' = ReferenceStream /\ HashOK'
    BY <1>1 DEF ReferenceStream, HashOK, SlugInv
  <1>3. result_idx = 4 /\ result[4] = 0
    BY <1>1 DEF SlugInv, ReadInv, OutOfHashes, IdxForNextChar, HashWords
  <1>4. Rest = << >>
    <2>1. D(0) = << >>
      BY BaseType, DigitsUnfold DEF D
    <2>2. Rest = << >> \o << >>
      BY <1>3, <2>1 DEF Rest, After
    <2>3. << >> \in Seq(Digit)
      BY EmptySeq
    <2> QED BY <2>2, <2>3, ConcatEmptySeq
  <1>5. Len(ReferenceStream) = Pos + 0
    <2>1. Len(<< >>) = 0
      BY EmptySeq
    <2> QED BY <1>1, <1>4, <2>1 DEF SlugInv, ReadInv, LeftAt
  <1>6. ~HasBlock(ReferenceStream, slug_length_, asked)
    <2>1. Begun \in Nat \ {0} /\ Begun <= asked /\ asked \in Nat
      BY <1>1 DEF SlugInv, BlockInv, Begun
    <2>2. Pos = Times(Begun - 1) + i /\ i \in Nat /\ slug_length_ \in Nat
      BY <1>1, GenerateSlugAssumption DEF Pos, SlugInv
    <2>3. /\ Times(Begun - 1) \in Nat /\ Times(Begun) = Times(Begun - 1) + slug_length_
          /\ Times(Begun) <= Times(asked) /\ Times(asked) \in Nat
      BY <2>1, TimesFacts
    <2>4. Pos < Times(asked) /\ Pos \in Nat
      <3> HIDE DEF Times
      <3> QED BY <1>1, <2>2, <2>3
    <2>5. ~ (Times(asked) <= Len(ReferenceStream))
      BY <1>5, <2>3, <2>4
    <2> QED BY <2>5 DEF HasBlock, Times
  <1>7. BlockInv'
    BY <1>1 DEF BlockInv
  <1> QED BY <1>1, <1>2, <1>6, <1>7 DEF SlugInv, HasBlock

LEMMA SlugInvAppendChar ==
  ASSUME SlugInv, AppendChar PROVE SlugInv'
  <1> DEFINE j == IdxForNextChar
             w == result[j]
             n == Begun - 1
  <1>1. /\ pc = "for" /\ i < slug_length_ /\ ~OutOfHashes
        /\ result_idx' = j
        /\ dst' = Append(dst, CharAt(w % Base))
        /\ result' = [result EXCEPT ![j] = w \div Base]
        /\ i' = i + 1 /\ UNCHANGED <<hash, asked, nth_try, pc>>
    BY DEF AppendChar, Base
  <1>2. HashOK /\ ReadInv /\ BlockInv /\ i \in Nat /\ slug_length_ \in Nat /\ dst \in Seq(Chars)
    BY <1>1, GenerateSlugAssumption DEF SlugInv
  <1>3. /\ j \in 0..HashWords
        /\ w \in Word /\ w \div Base \in Word
        /\ \A k \in j + 1..HashWords : result[k] = hash[k]
        /\ w % Base \in Digit
        /\ D(w \div Base) \o After(j) \in Seq(Digit)
        /\ Rest = <<w % Base>> \o (D(w \div Base) \o After(j))
    BY <1>1, <1>2, NextDigit
  <1> HIDE DEF j, w
  <1>4. HashOK' /\ ReferenceStream' = ReferenceStream
    BY <1>1, <1>2 DEF HashOK, ReferenceStream
  <1>5. result' \in [0..HashWords -> Word] /\ result'[j] = w \div Base
    BY <1>1, <1>2, <1>3 DEF ReadInv
  <1>6. \A k \in j + 1..HashWords : result'[k] = hash'[k]
    BY <1>1, <1>2, <1>3, SMTT(30) DEF ReadInv, HashWords
  <1>7. Rest' = D(w \div Base) \o After(j)
    <2>1. \A k : After(k)' = After(k)
      BY <1>1 DEF After, L
    <2> QED BY <1>1, <1>5, <2>1 DEF Rest, D, After, L
  <1>8. Begun' = Begun /\ Begun \in Nat \ {0}
    BY <1>1, <1>2 DEF SlugInv, BlockInv, Begun
  <1>9. /\ Times(n) \in Nat
        /\ Pos = Times(n) + i /\ Pos' = Times(n) + (i + 1)
    <2>1. Times(n) \in Nat
      BY <1>8, TimesFacts
    <2> QED BY <1>1, <1>8, <2>1 DEF Pos, Times
  <1> HIDE DEF n
  <1>10. Pos \in Nat /\ Pos' = Pos + 1
    BY <1>2, <1>9
  <1>11. /\ ReferenceStream[Pos + 1] = w % Base
         /\ LeftAt(ReferenceStream, Pos + 1, D(w \div Base) \o After(j))
    <2>1. LeftAt(ReferenceStream, Pos, <<w % Base>> \o (D(w \div Base) \o After(j)))
      BY <1>2, <1>3 DEF ReadInv
    <2> QED BY <1>3, <1>10, <2>1, ReadOne
  <1>12. LeftAt(ReferenceStream, Pos, Rest)'
    BY <1>4, <1>7, <1>10, <1>11 DEF LeftAt
  <1>13. ReadInv'
    BY <1>1, <1>3, <1>5, <1>6, <1>12 DEF ReadInv
  <1>14. /\ dst' \in Seq(Chars) /\ Len(dst') = i + 1
         /\ dst'[i + 1] = CharAt(w % Base)
         /\ \A k \in 1..i : dst'[k] = dst[k]
    <2>1. CharAt(w % Base) \in Chars /\ Len(dst) = i
      BY <1>1, <1>2, <1>3 DEF Chars, BlockInv
    <2> QED BY <1>1, <1>2, <2>1, AppendProperties
  <1>15. Spelled'
    <2> SUFFICES ASSUME NEW k \in 1..Len(dst')
                 PROVE  dst'[k] = CharAt(ReferenceStream[Times(n) + k])
      BY <1>4, <1>8 DEF Spelled, n, Times, CharAt
    <2>1. CASE k = i + 1
      <3>1. Times(n) + (i + 1) = Pos + 1
        BY <1>2, <1>9
      <3> QED BY <1>11, <1>14, <2>1, <3>1
    <2>2. CASE k # i + 1
      <3>1. k \in 1..i /\ k \in 1..Len(dst)
        BY <1>1, <1>2, <1>14, <2>2 DEF BlockInv
      <3>2. dst[k] = CharAt(ReferenceStream[Times(n) + k])
        BY <1>1, <1>2, <3>1 DEF BlockInv, Spelled, n
      <3> QED BY <1>14, <3>1, <3>2
    <2> QED BY <2>1, <2>2
  <1>16. BlockInv'
    BY <1>1, <1>2, <1>14, <1>15 DEF BlockInv
  <1> QED BY <1>1, <1>2, <1>4, <1>13, <1>14, <1>16 DEF SlugInv

LEMMA SlugInvNext == SlugInv /\ [Next]_vars => SlugInv'
  <1> SUFFICES ASSUME SlugInv, [Next]_vars PROVE SlugInv'
    OBVIOUS
  <1>1. ASSUME UNCHANGED vars PROVE SlugInv'
    <2>1. /\ UNCHANGED <<hash, asked, result, result_idx, nth_try, i, dst, pc>>
      BY <1>1 DEF vars
    <2>2. Rest' = Rest /\ ReferenceStream' = ReferenceStream /\ (HashOK' <=> HashOK)
      BY <2>1, SameWords
    <2>3. Begun' = Begun
      BY <2>1 DEF Begun
    <2>4. Pos' = Pos
      BY <2>1, <2>3 DEF Pos, Times
    <2>5. ReadInv => ReadInv'
      BY <2>1, <2>2, <2>4 DEF ReadInv
    <2>6. Spelled => Spelled'
      BY <2>1, <2>2, <2>3 DEF Spelled, Times
    <2>7. BlockInv => BlockInv'
      BY <2>1, <2>6 DEF BlockInv
    <2> QED BY <2>1, <2>2, <2>5, <2>7 DEF SlugInv
  <1> QED BY <1>1, SlugInvNextBlock, SlugInvBlockDone, SlugInvReturnTrue, SlugInvReturnFalse,
             SlugInvAppendChar DEF Next, generate_slug

(* What result and result_idx hold between two retries is what is left of   *)
(* the URL's digit stream.                                                  *)
THEOREM SlugInvariant == Spec => []SlugInv
  BY SlugInvInit, SlugInvNext, PTL DEF Spec

(* For every hash, alphabet, length and number of tries, generate_slug      *)
(* returns the block of the digit stream that was asked for, and fails      *)
(* exactly when there is none: it computes its reference.                   *)
THEOREM ComputesReference == Spec => []MatchesReference
  <1>1. ASSUME SlugInv, pc = "true"
        PROVE  /\ HasBlock(ReferenceStream, slug_length_, asked)
               /\ dst = [k \in 1..slug_length_ |->
                           CharAt(Block(ReferenceStream, slug_length_, asked)[k])]
    <2> DEFINE s == ReferenceStream
               n == slug_length_
               from == Times(asked - 1)
    <2>1. /\ asked \in Nat \ {0} /\ nth_try = 0 /\ ReadInv /\ HashOK
          /\ Len(dst) = n /\ Spelled /\ n \in Nat /\ dst \in Seq(Chars)
      BY <1>1, GenerateSlugAssumption DEF SlugInv, BlockInv
    <2>2. from \in Nat /\ Times(asked) = from + n /\ Pos = Times(asked)
      <3>1. Begun = asked
        BY <2>1 DEF Begun
      <3> QED BY <1>1, <2>1, <3>1, TimesFacts DEF Pos
    <2> HIDE DEF from
    <2>3. Len(Rest) \in Nat
      <3>1. result[result_idx] \in Nat /\ result_idx \in 0..4
        BY <2>1, BaseType DEF ReadInv, HashWords
      <3>2. D(result[result_idx]) \in Seq(Digit)
        BY <3>1, BaseType, DigitsType DEF D, Digit
      <3>3. After(result_idx) \in Seq(Digit)
        BY <2>1, <3>1, WordDigits
      <3>4. Rest \in Seq(Digit)
        BY <3>2, <3>3, ConcatProperties DEF Rest
      <3> QED BY <3>4
    <2>4. Len(s) = (from + n) + Len(Rest)
      BY <2>1, <2>2 DEF ReadInv, LeftAt
    <2>5. Times(asked) <= Len(s)
      BY <2>1, <2>2, <2>3, <2>4
    <2>6. HasBlock(s, n, asked)
      BY <2>5 DEF HasBlock, Times
    <2>7. Block(s, n, asked) = SubSeq(s, from + 1, from + n)
      BY <2>2 DEF Block, Times, from
    <2>8. \A k \in 1..n : SubSeq(s, from + 1, from + n)[k] = s[from + k]
      <3>1. s \in Seq(Digit)
        <4>1. D(hash[0]) \in Seq(Digit) /\ After(0) \in Seq(Digit)
          BY <2>1, WordDigits
        <4> QED BY <2>1, <4>1, StreamIsDigits, ConcatProperties
      <3> HIDE DEF s
      <3>2. Len(s) \in Nat /\ \A k \in 1..Len(s) : s[k] \in Digit
        BY <3>1
      <3>3. \A k \in from + 1..from + n : s[k] \in Digit
        BY <2>1, <2>2, <2>3, <2>4, <3>2
      <3>4. \A k \in 1..(from + n) - (from + 1) + 1 :
               SubSeq(s, from + 1, from + n)[k] = s[(from + 1) + k - 1]
        BY <2>1, <2>2, <3>3, SubSeqProperties
      <3> QED BY <2>1, <2>2, <3>4
    <2>9. \A k \in 1..n : dst[k] = CharAt(s[from + k])
      <3>1. Begun - 1 = asked - 1
        BY <2>1 DEF Begun
      <3> QED BY <2>1, <3>1 DEF Spelled, from, Times
    <2>10. dst = [k \in 1..n |-> dst[k]]
      BY <2>1
    <2>11. \A k \in 1..n : dst[k] = CharAt(Block(s, n, asked)[k])
      BY <2>7, <2>8, <2>9
    <2> HIDE DEF s, n
    <2>12. dst = [k \in 1..n |-> CharAt(Block(s, n, asked)[k])]
      BY <2>10, <2>11
    <2> QED BY <2>6, <2>12 DEF s, n
  <1>2. SlugInv => MatchesReference
    BY <1>1 DEF MatchesReference, SlugInv
  <1> QED BY <1>2, SlugInvariant, PTL

-----------------------------------------------------------------------------
(* The digits of the hash proper, without those of the memory after it.     *)
HashStream == Stream(alphabet_len, hash, HashWords - 1)

LEMMA StreamOfHash ==
  ASSUME HashOK
  PROVE  /\ HashStream \in Seq(Digit) /\ L(4) \in Seq(Digit)
         /\ ReferenceStream = HashStream \o L(4)
         /\ \A k \in 0..3 : Len(L(k + 1)) \in Nat
         /\ Len(ReferenceStream) = Len(D(hash[0])) + Len(L(1)) + Len(L(2)) + Len(L(3)) + Len(L(4))
  <1> DEFINE s(k) == Stream(Base, hash, k)
  <1>1. s(0) = D(hash[0]) /\ \A n \in Nat \ {0} : s(n) = s(n - 1) \o L(n)
    BY StreamUnfold DEF D, L
  <1>2. ReferenceStream = s(4) /\ HashStream = s(3)
    BY DEF ReferenceStream, HashStream, HashWords, Base
  <1> HIDE DEF s
  <1>3. {1, 2, 3, 4} \subseteq Nat \ {0} /\ 1 - 1 = 0 /\ 2 - 1 = 1 /\ 3 - 1 = 2 /\ 4 - 1 = 3
    OBVIOUS
  <1>4. s(1) = s(0) \o L(1) /\ s(2) = s(1) \o L(2)
    BY <1>1, <1>3, Zenon
  <1>5. s(3) = s(2) \o L(3) /\ s(4) = s(3) \o L(4)
    BY <1>1, <1>3, Zenon
  <1>6. /\ s(0) \in Seq(Digit) /\ L(1) \in Seq(Digit) /\ L(2) \in Seq(Digit)
        /\ L(3) \in Seq(Digit) /\ L(4) \in Seq(Digit)
    BY <1>1, WordDigits
  <1>7. \A t, u \in Seq(Digit) :
           t \o u \in Seq(Digit) /\ Len(t \o u) = Len(t) + Len(u) /\ Len(t) \in Nat
    BY ConcatProperties
  <1>8. s(1) \in Seq(Digit) /\ Len(s(1)) = Len(s(0)) + Len(L(1))
    BY <1>4, <1>6, <1>7, Zenon
  <1>9. s(2) \in Seq(Digit) /\ Len(s(2)) = Len(s(1)) + Len(L(2))
    BY <1>4, <1>6, <1>7, <1>8, Zenon
  <1>10. s(3) \in Seq(Digit) /\ Len(s(3)) = Len(s(2)) + Len(L(3))
    BY <1>5, <1>6, <1>7, <1>9, Zenon
  <1>11. Len(s(4)) = Len(s(3)) + Len(L(4))
    BY <1>5, <1>6, <1>7, <1>10, Zenon
  <1>12. Len(L(1)) \in Nat /\ Len(L(2)) \in Nat /\ Len(L(3)) \in Nat /\ Len(L(4)) \in Nat
    BY <1>6, <1>7, Zenon
  <1>13. ASSUME NEW k \in 0..3 PROVE Len(L(k + 1)) \in Nat
    <2>1. k + 1 \in {1, 2, 3, 4}
      OBVIOUS
    <2> HIDE DEF L
    <2> QED BY <1>12, <2>1
  <1>14. Len(s(4)) = Len(s(0)) + Len(L(1)) + Len(L(2)) + Len(L(3)) + Len(L(4))
    BY <1>8, <1>9, <1>10, <1>11, Zenon
  <1> QED BY <1>1, <1>2, <1>5, <1>6, <1>10, <1>13, <1>14, Zenon

LEMMA SubSeqAt ==
  ASSUME NEW s, NEW a \in Int, NEW e \in Int, \A k \in a..e : s[k] \in Digit
  PROVE  \A k \in 1..e - a + 1 : SubSeq(s, a, e)[k] = s[a + k - 1]
  BY SubSeqProperties

(* The characters of a block are those of the stream.                       *)
LEMMA BlockAt ==
  ASSUME NEW s \in Seq(Digit), NEW n \in Nat \ {0}, HasBlock(s, slug_length_, n)
  PROVE  /\ Times(n - 1) \in Nat /\ Times(n) <= Len(s)
         /\ \A k \in 1..slug_length_ :
               /\ Times(n - 1) + k \in 1..Len(s)
               /\ Block(s, slug_length_, n)[k] = s[Times(n - 1) + k]
  <1> DEFINE l == slug_length_
             from == Times(n - 1)
  <1>1. l \in Nat /\ from \in Nat /\ Times(n) = from + l
    BY TimesFacts, GenerateSlugAssumption
  <1>2. Times(n) <= Len(s) /\ Len(s) \in Nat
    BY DEF HasBlock, Times
  <1>3. Block(s, l, n) = SubSeq(s, from + 1, from + l)
    BY <1>1 DEF Block, Times, from
  <1> HIDE DEF l, from
  <1>4. \A k \in 1..l : from + k \in 1..Len(s)
    BY <1>1, <1>2
  <1>5. \A k \in from + 1..from + l : s[k] \in Digit
    <2>1. \A k \in from + 1..from + l : k \in 1..Len(s)
      BY <1>1, <1>2
    <2>2. \A k \in 1..Len(s) : s[k] \in Digit
      OBVIOUS
    <2> QED BY <2>1, <2>2, Zenon
  <1>6. \A k \in 1..(from + l) - (from + 1) + 1 :
           SubSeq(s, from + 1, from + l)[k] = s[(from + 1) + k - 1]
    <2> DEFINE a == from + 1
               e == from + l
    <2>1. a \in Int /\ e \in Int
      BY <1>1
    <2>2. \A k \in a..e : s[k] \in Digit
      BY <1>5
    <2> HIDE DEF a, e
    <2>3. \A k \in 1..e - a + 1 : SubSeq(s, a, e)[k] = s[a + k - 1]
      BY <2>1, <2>2, SubSeqAt, Zenon
    <2> QED BY <2>3 DEF a, e
  <1>7. \A k \in 1..l : k \in 1..(from + l) - (from + 1) + 1 /\ (from + 1) + k - 1 = from + k
    BY <1>1
  <1>8. \A k \in 1..l : Block(s, l, n)[k] = s[from + k]
    BY <1>3, <1>6, <1>7, Zenon
  <1> QED BY <1>1, <1>2, <1>4, <1>8 DEF l, from

(* A try that the hash has digits for succeeds, and its slug is made of     *)
(* them alone: the memory after the hash, which differs from one call to    *)
(* the next, has no part in it.                                             *)
RepeatableWithinHash ==
  HasBlock(HashStream, slug_length_, asked) =>
    /\ pc # "false"
    /\ pc = "true" => dst = [k \in 1..slug_length_ |->
                               CharAt(Block(HashStream, slug_length_, asked)[k])]

LEMMA FromHashAlone ==
  ASSUME SlugInv, MatchesReference, HasBlock(HashStream, slug_length_, asked)
  PROVE  /\ HasBlock(ReferenceStream, slug_length_, asked)
         /\ \A k \in 1..slug_length_ : Block(ReferenceStream, slug_length_, asked)[k]
                                         = Block(HashStream, slug_length_, asked)[k]
  <1> DEFINE n == slug_length_
             h == HashStream
             t == L(4)
             s == ReferenceStream
             from == Times(asked - 1)
  <1>1. HashOK /\ asked \in Nat \ {0}
    BY DEF SlugInv
  <1>2. h \in Seq(Digit) /\ t \in Seq(Digit) /\ s = h \o t
    BY <1>1, StreamOfHash
  <1> HIDE DEF h, t, s
  <1>3. HasBlock(h, n, asked)
    BY DEF h
  <1>4. /\ from \in Nat /\ Times(asked) <= Len(h)
        /\ \A k \in 1..n : from + k \in 1..Len(h) /\ Block(h, n, asked)[k] = h[from + k]
    BY <1>1, <1>2, <1>3, BlockAt
  <1>5. s \in Seq(Digit) /\ Len(s) = Len(h) + Len(t) /\ Len(h) \in Nat /\ Len(t) \in Nat
    BY <1>2, ConcatProperties
  <1>6. \A k \in 1..Len(h) : s[k] = h[k]
    <2>1. \A k \in 1..Len(h) + Len(t) : (h \o t)[k] = IF k <= Len(h) THEN h[k] ELSE t[k - Len(h)]
      BY <1>2, ConcatProperties
    <2>2. \A k \in 1..Len(h) : k \in 1..Len(h) + Len(t) /\ k <= Len(h)
      BY <1>5
    <2> QED BY <1>2, <2>1, <2>2, Zenon
  <1>7. HasBlock(s, n, asked)
    <2>1. Times(asked) \in Nat
      BY <1>1, TimesFacts
    <2>2. Times(asked) <= Len(s)
      BY <1>4, <1>5, <2>1
    <2> QED BY <2>2 DEF HasBlock, Times
  <1>8. \A k \in 1..n : Block(s, n, asked)[k] = s[from + k]
    BY <1>1, <1>5, <1>7, BlockAt
  <1> HIDE DEF n, from
  <1>9. \A k \in 1..n : Block(s, n, asked)[k] = Block(h, n, asked)[k]
    BY <1>4, <1>6, <1>8, Zenon
  <1> QED BY <1>7, <1>9 DEF n, h, s

(* For every hash, try and length: as long as the hash has digits, the same *)
(* URL and try always make the same slug, whatever memory holds.            *)
THEOREM RetriesRepeat == Spec => []RepeatableWithinHash
  <1>1. SlugInv /\ MatchesReference => RepeatableWithinHash
    <2> SUFFICES ASSUME SlugInv, MatchesReference, HasBlock(HashStream, slug_length_, asked)
                 PROVE  /\ pc # "false"
                        /\ pc = "true" => dst = [k \in 1..slug_length_ |->
                                CharAt(Block(HashStream, slug_length_, asked)[k])]
      BY DEF RepeatableWithinHash
    <2>1. /\ HasBlock(ReferenceStream, slug_length_, asked)
          /\ \A k \in 1..slug_length_ : Block(ReferenceStream, slug_length_, asked)[k]
                                         = Block(HashStream, slug_length_, asked)[k]
      BY FromHashAlone
    <2>2. pc # "false"
      BY <2>1 DEF MatchesReference
    <2>3. ASSUME pc = "true"
          PROVE  dst = [k \in 1..slug_length_ |->
                          CharAt(Block(HashStream, slug_length_, asked)[k])]
      <3>1. dst = [k \in 1..slug_length_ |->
                     CharAt(Block(ReferenceStream, slug_length_, asked)[k])]
        BY <2>3, Zenon DEF MatchesReference
      <3> DEFINE a(k) == Block(ReferenceStream, slug_length_, asked)[k]
                 c(k) == Block(HashStream, slug_length_, asked)[k]
      <3>2. \A k \in 1..slug_length_ : a(k) = c(k)
        BY <2>1
      <3>3. dst = [k \in 1..slug_length_ |-> CharAt(a(k))]
        BY <3>1
      <3> HIDE DEF a, c
      <3>4. dst = [k \in 1..slug_length_ |-> CharAt(c(k))]
        BY <3>2, <3>3
      <3> QED BY <3>4 DEF c
    <2> QED BY <2>2, <2>3
  <1> QED BY <1>1, SlugInvariant, ComputesReference, PTL

-----------------------------------------------------------------------------
(* Dividing keeps the order of two numbers.                                 *)
LEMMA QuotientMonotone ==
  ASSUME NEW b \in Nat \ {0, 1}, NEW w \in Nat, NEW v \in Nat, w <= v
  PROVE  w \div b <= v \div b
  <1> DEFINE p == w \div b
             q == v \div b
  <1>1. /\ p \in Nat /\ w = b * p + (w % b) /\ w % b \in 0..b - 1
        /\ q \in Nat /\ v = b * q + (v % b) /\ v % b \in 0..b - 1
    OBVIOUS
  <1> HIDE DEF p, q
  <1>2. ASSUME ~ (p <= q) PROVE FALSE
    <2>1. p - (q + 1) \in Nat
      BY <1>1, <1>2
    <2>2. PICK d \in Nat : p = q + 1 + d
      BY <1>1, <2>1
    <2>3. b * p = b * q + b + b * d /\ b * d \in Nat /\ b * q \in Nat
      BY <1>1, <2>2
    <2> DEFINE y == b * q
               z == b * d
    <2>4. w = y + b + z + (w % b) /\ v = y + (v % b) /\ y \in Nat /\ z \in Nat
      BY <1>1, <2>3
    <2> HIDE DEF y, z
    <2> QED BY <1>1, <2>4
  <1> QED BY <1>1, <1>2 DEF p, q

(* A smaller number has no more digits.                                     *)
LEMMA DigitsMonotone ==
  ASSUME NEW b \in Nat \ {0, 1}
  PROVE  \A w, v \in Nat : w <= v => Len(Digits(b, w)) <= Len(Digits(b, v))
  <1> DEFINE N(w) == Len(Digits(b, w))
             I == {w \in Nat : \E v \in Nat : w <= v /\ ~ (N(w) <= N(v))}
  <1>1. ASSUME NEW w \in Nat PROVE N(w) \in Nat
    <2>1. Digits(b, w) \in Seq(0..b - 1)
      BY DigitsType
    <2> QED BY <2>1, LenProperties
  <1>2. ASSUME NEW w \in Nat \ {0} PROVE w \div b \in Nat /\ N(w) = 1 + N(w \div b)
    <2>1. w \div b \in Nat /\ w % b \in 0..b - 1
      <3>1. w \div b \in 0..w - 1 /\ w % b \in 0..b - 1
        BY Quotient
      <3> QED BY <3>1
    <2>2. Digits(b, w) = <<w % b>> \o Digits(b, w \div b)
      BY DigitsUnfold
    <2> DEFINE a == <<w % b>>
               q == Digits(b, w \div b)
    <2>3. a \in Seq(0..b - 1) /\ Len(a) = 1
      BY <2>1
    <2>4. q \in Seq(0..b - 1)
      BY <2>1, DigitsType
    <2> HIDE DEF a, q
    <2>5. Len(a \o q) = Len(a) + Len(q)
      BY <2>3, <2>4, ConcatProperties
    <2> QED BY <2>1, <2>2, <2>3, <2>5 DEF a, q
  <1>3. N(0) = 0
    <2>1. Digits(b, 0) = << >>
      BY DigitsUnfold
    <2> QED BY <2>1, EmptySeq
  <1> HIDE DEF N
  <1>4. ASSUME I # {} PROVE FALSE
    <2>1. PICK x \in I : \A y \in I : x <= y
      BY <1>4, LeastNatural
    <2>2. PICK v \in Nat : x <= v /\ ~ (N(x) <= N(v))
      BY <2>1
    <2>3. x \in Nat /\ x # 0
      BY <1>1, <1>3, <2>1, <2>2
    <2>4. x \in Nat \ {0} /\ v \in Nat \ {0}
      BY <2>2, <2>3
    <2> DEFINE p == x \div b
               q == v \div b
    <2>5. p \in 0..x - 1 /\ N(x) = 1 + N(p) /\ q \in Nat /\ N(v) = 1 + N(q)
      BY <1>2, <2>4, Quotient
    <2>6. p <= q
      BY <2>2, <2>3, QuotientMonotone
    <2> HIDE DEF p, q
    <2>7. p \in Nat /\ ~ (x <= p)
      BY <2>3, <2>5
    <2>8. N(p) <= N(q)
      BY <2>1, <2>5, <2>6, <2>7
    <2>9. N(p) \in Nat /\ N(q) \in Nat
      BY <1>1, <2>5, <2>7
    <2> QED BY <2>2, <2>5, <2>8, <2>9
  <1>5. ASSUME NEW w \in Nat, NEW v \in Nat, w <= v PROVE N(w) <= N(v)
    BY <1>4, <1>5
  <1> QED BY <1>5 DEF N

(* The most digits a machine word has.                                      *)
MostDigits == Len(LaterDigits(alphabet_len, WordMax))

LEMMA AtMostDigits ==
  ASSUME NEW w \in Word
  PROVE  /\ MostDigits \in Nat
         /\ Len(D(w)) <= MostDigits
         /\ Len(LaterDigits(Base, w)) <= MostDigits
  <1>1. w \in Nat /\ WordMax \in Nat /\ w <= WordMax
    BY GenerateSlugAssumption DEF Word
  <1>2. Len(Digits(Base, w)) <= Len(Digits(Base, WordMax))
    BY <1>1, BaseType, DigitsMonotone
  <1>3. \A v \in Nat : /\ Digits(Base, v) \in Seq(Digit) /\ Len(Digits(Base, v)) \in Nat
                       /\ LaterDigits(Base, v) \in Seq(Digit)
    <2>1. ASSUME NEW v \in Nat
          PROVE  Digits(Base, v) \in Seq(Digit) /\ LaterDigits(Base, v) \in Seq(Digit)
      <3>1. Digits(Base, v) \in Seq(Digit)
        BY BaseType, DigitsType DEF Digit
      <3>2. LaterDigits(Base, v) \in Seq(Digit)
        BY BaseType, ReadDigits DEF Digit
      <3> QED BY <3>1, <3>2
    <2> QED BY <2>1, LenProperties
  <1>4. Len(LaterDigits(Base, 0)) = 1 /\ Digits(Base, 0) = << >> /\ Len(<< >>) = 0
    BY BaseType, DigitsUnfold DEF LaterDigits
  <1>5. \A v \in Nat : v # 0 =>
          /\ LaterDigits(Base, v) = Digits(Base, v)
          /\ Len(Digits(Base, v)) >= 1
    <2>1. ASSUME NEW v \in Nat, v # 0 PROVE Len(Digits(Base, v)) >= 1
      <3>1. v % Base \in Digit /\ v \div Base \in Nat
        BY BaseType, ReadDigits DEF Digit
      <3> DEFINE a == <<v % Base>>
                 q == Digits(Base, v \div Base)
      <3>2. Digits(Base, v) = a \o q
        BY <2>1, BaseType, ReadDigits
      <3>3. a \in Seq(Digit) /\ Len(a) = 1 /\ q \in Seq(Digit) /\ Len(q) \in Nat
        BY <1>3, <3>1
      <3> HIDE DEF a, q
      <3>4. Len(a \o q) = Len(a) + Len(q)
        BY <3>3, ConcatProperties
      <3> QED BY <3>2, <3>3, <3>4
    <2> QED BY <2>1 DEF LaterDigits
  <1>6. CASE WordMax = 0
    <2>1. w = 0
      BY <1>1, <1>6
    <2>2. MostDigits = 1
      BY <1>4, <1>6 DEF MostDigits, Base
    <2>3. Len(D(w)) = 0 /\ Len(LaterDigits(Base, w)) = 1
      BY <1>4, <2>1 DEF D
    <2> QED BY <2>2, <2>3
  <1>7. CASE WordMax # 0
    <2>1. MostDigits = Len(Digits(Base, WordMax)) /\ MostDigits >= 1 /\ MostDigits \in Nat
      BY <1>1, <1>3, <1>5, <1>7 DEF MostDigits, Base
    <2>2. CASE w = 0
      BY <1>2, <1>4, <2>1, <2>2 DEF D
    <2>3. CASE w # 0
      BY <1>1, <1>2, <1>5, <2>1, <2>3 DEF D
    <2> QED BY <2>2, <2>3
  <1> QED BY <1>6, <1>7

(* A try past the digits of the hash and the word after it fails.           *)
TriesRunOut == asked * slug_length_ > (HashWords + 1) * MostDigits => pc # "true"

(* Whatever the hash, generate_slug fails on every try past a bound that    *)
(* depends only on the alphabet, the length of slugs and the machine word:  *)
(* the loop of do_shorten_url runs out of slugs before it runs out of tries *)
(* whenever its hundred tries are past that bound.                          *)
THEOREM TriesEnd == Spec => []TriesRunOut
  <1>1. ASSUME SlugInv PROVE Len(ReferenceStream) \in Nat /\ Len(ReferenceStream) <= 5 * MostDigits
    <2>1. HashOK
      BY <1>1 DEF SlugInv
    <2>2. \A k \in 0..4 : hash[k] \in Word
      BY <2>1 DEF HashOK, HashWords
    <2>3. MostDigits \in Nat /\ Len(D(hash[0])) <= MostDigits /\ Len(D(hash[0])) \in Nat
      <3>1. hash[0] \in Word
        BY <2>2
      <3>2. D(hash[0]) \in Seq(Digit)
        BY <2>1, WordDigits
      <3> QED BY <3>1, <3>2, AtMostDigits, LenProperties
    <2>4. ASSUME NEW k \in 1..4 PROVE Len(L(k)) <= MostDigits /\ Len(L(k)) \in Nat
      <3>1. k \in 0..4
        OBVIOUS
      <3>2. hash[k] \in Word /\ L(k) \in Seq(Digit)
        BY <2>1, <2>2, <3>1, WordDigits
      <3>3. Len(L(k)) <= MostDigits
        BY <3>2, AtMostDigits DEF L
      <3> QED BY <3>2, <3>3, LenProperties
    <2>5. Len(ReferenceStream) = Len(D(hash[0])) + Len(L(1)) + Len(L(2)) + Len(L(3)) + Len(L(4))
      BY <2>1, StreamOfHash
    <2> DEFINE a == Len(D(hash[0]))
               n(k) == Len(L(k))
               m == MostDigits
    <2>6. \A k \in 1..4 : n(k) <= m /\ n(k) \in Nat
      BY <2>4
    <2> HIDE DEF a, n, m
    <2>7. n(1) <= m /\ n(2) <= m /\ n(3) <= m /\ n(4) <= m
      BY <2>6
    <2>8. n(1) \in Nat /\ n(2) \in Nat /\ n(3) \in Nat /\ n(4) \in Nat
      BY <2>6
    <2>9. a <= m /\ a \in Nat /\ m \in Nat
      BY <2>3 DEF a, m
    <2>10. a + n(1) + n(2) + n(3) + n(4) <= 5 * m /\ a + n(1) + n(2) + n(3) + n(4) \in Nat
      BY <2>7, <2>8, <2>9
    <2> QED BY <2>5, <2>10 DEF a, n, m
  <1>2. ASSUME SlugInv, MatchesReference PROVE TriesRunOut
    <2>1. Len(ReferenceStream) \in Nat /\ Len(ReferenceStream) <= 5 * MostDigits
      BY <1>1, <1>2
    <2>2. MostDigits \in Nat
      <3>1. hash[0] \in Word
        BY <1>2 DEF SlugInv, HashOK, HashWords
      <3> QED BY <3>1, AtMostDigits
    <2>3. Times(asked) \in Nat
      BY <1>2, TimesFacts DEF SlugInv
    <2>4. pc = "true" => Times(asked) <= Len(ReferenceStream)
      BY <1>2 DEF MatchesReference, HasBlock, Times
    <2>5. Times(asked) > 5 * MostDigits => pc # "true"
      BY <2>1, <2>2, <2>3, <2>4
    <2> QED BY <2>5 DEF TriesRunOut, Times, HashWords
  <1> QED BY <1>2, SlugInvariant, ComputesReference, PTL

-----------------------------------------------------------------------------
TypeInv == TypeOK /\ asked \in 1..MaxNthTry

LEMMA TypeInit == Init => TypeInv
  <1> SUFFICES ASSUME Init PROVE TypeInv
    OBVIOUS
  <1>1. MaxNthTry \in Nat /\ slug_length_ \in Nat /\ Len(<< >>) = 0
    BY GenerateSlugAssumption, EmptySeq
  <1>2. result \in [0..HashWords -> Word] /\ result_idx \in 0..HashWords + 1
    BY DEF Init, HashWords
  <1>3. asked \in 1..MaxNthTry /\ nth_try = asked /\ i = 0 /\ dst = << >> /\ pc = "while"
    BY DEF Init
  <1>4. nth_try \in 0..MaxNthTry /\ i \in 0..slug_length_ /\ Len(dst) <= slug_length_
    BY <1>1, <1>3
  <1> QED BY <1>2, <1>3, <1>4 DEF TypeInv, TypeOK

LEMMA TypeNext ==
  ASSUME SlugInv, SlugInv', TypeInv, [Next]_vars
  PROVE  TypeInv'
  <1>1. /\ MaxNthTry \in Nat /\ slug_length_ \in Nat
        /\ asked \in 1..MaxNthTry /\ Len(dst) <= slug_length_
    BY GenerateSlugAssumption DEF TypeInv, TypeOK
  <1>2. asked' = asked
    BY DEF Next, generate_slug, NextBlock, BlockDone, AppendChar, ReturnTrue, ReturnFalse, vars
  <1>3. nth_try' \in 0..MaxNthTry /\ i' \in 0..slug_length_ /\ pc' \in {"while", "for", "true", "false"}
    <2>1. nth_try' \in 0..asked' /\ i' \in 0..slug_length_ /\ pc' \in {"while", "for", "true", "false"}
      BY DEF SlugInv
    <2> QED BY <1>1, <1>2, <2>1
  <1>4. result' \in [0..HashWords -> Word] /\ result_idx' \in 0..HashWords + 1
    <2>1. CASE pc' # "false"
      <3>1. result' \in [0..HashWords -> Word] /\ result_idx' \in 0..HashWords
        BY <2>1 DEF SlugInv, ReadInv
      <3> QED BY <3>1 DEF HashWords
    <2>2. CASE pc' = "false"
      <3>1. CASE ReturnFalse
        <4>1. pc = "for" /\ result' = result /\ result_idx' = IdxForNextChar
          BY <3>1 DEF ReturnFalse
        <4>2. result \in [0..HashWords -> Word] /\ result_idx \in 0..HashWords
          BY <4>1 DEF SlugInv, ReadInv
        <4>3. IdxForNextChar \in 0..HashWords + 1
          BY <4>2 DEF IdxForNextChar, HashWords
        <4> QED BY <4>1, <4>2, <4>3
      <3>2. CASE UNCHANGED vars
        BY <3>2 DEF vars, TypeInv, TypeOK
      <3>3. ReturnFalse \/ UNCHANGED vars
        <4>1. ~NextBlock /\ ~BlockDone /\ ~ReturnTrue
          BY <2>2 DEF NextBlock, BlockDone, ReturnTrue
        <4>2. ~AppendChar
          BY <2>2 DEF AppendChar
        <4> QED BY <4>1, <4>2 DEF Next, generate_slug
      <3> QED BY <3>1, <3>2, <3>3
    <2> QED BY <2>1, <2>2
  <1>5. Len(dst') <= slug_length_
    <2>1. CASE AppendChar
      <3>1. pc = "for" /\ i < slug_length_ /\ pc' = "for" /\ i' = i + 1
        BY <2>1 DEF AppendChar
      <3>2. Len(dst') = i' /\ i' \in 0..slug_length_
        BY <3>1 DEF SlugInv, BlockInv
      <3> QED BY <1>1, <3>2
    <2>2. CASE NextBlock
      <3>1. dst' = << >> /\ Len(<< >>) = 0
        BY <2>2, EmptySeq DEF NextBlock
      <3> QED BY <1>1, <3>1
    <2>3. CASE dst' = dst
      BY <1>1, <2>3
    <2>4. AppendChar \/ NextBlock \/ dst' = dst
      BY DEF Next, generate_slug, BlockDone, ReturnTrue, ReturnFalse, vars
    <2> QED BY <2>1, <2>2, <2>3, <2>4
  <1> QED BY <1>1, <1>2, <1>3, <1>4, <1>5 DEF TypeInv, TypeOK

(* Type correctness: in particular result_idx stays in the words that are   *)
(* read but for the step that finds it past them, and dst in a slug.        *)
THEOREM TypeCorrect == Spec => []TypeOK
  <1>1. TypeInv => TypeOK
    BY DEF TypeInv
  <1>2. SlugInv /\ SlugInv' /\ TypeInv /\ [Next]_vars => TypeInv'
    BY TypeNext
  <1> QED BY <1>1, <1>2, TypeInit, SlugInvariant, PTL DEF Spec
=============================================================================
